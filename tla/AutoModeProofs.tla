--------------------------- MODULE AutoModeProofs ---------------------------
(***************************************************************************)
(* Proofs about AutoMode, for every table of trees that satisfies the      *)
(* assumptions, every capacity and every load.                             *)
(***************************************************************************)
EXTENDS AutoMode, TLAPS

\* n is at or below q.
In(n, q) == q <= n /\ n <= Plan[q].last

\* The node whose start() or run() is on top of the call stack.
here == call.n

\* q.start() is on the call stack of c: only parallel sets call start() in start().
StartsAt(c, q) ==
    /\ c.op \in {"start", "started"} /\ In(c.n, q)
    /\ \A r \in DOMAIN Plan : q <= r /\ r < c.n /\ In(c.n, r) => Plan[r].type = "parallel"
Starting(q) == StartsAt(call, q)

Types ==
    /\ mode \in DOMAIN Tree
    /\ begun \subseteq DOMAIN Plan /\ done \subseteq begun
    /\ index \in [DOMAIN Plan -> 0..Len(Plan) + 1]
    /\ call \in [op : {"none", "start", "started", "run", "ran"}, n : DOMAIN Plan]
    /\ turn \in Turns /\ (call.op = "none" => here = 1)
    /\ turn # "controller" => call = Idle

\* Nothing is begun before what it is below of, and all below a done node is done.
Opened == \A d \in begun, q \in DOMAIN Plan : In(d, q) => q \in begun
Closed == \A p \in done, d \in DOMAIN Plan : In(d, p) => d \in done

\* The kids before the current one of a series are done, those behind it untouched.
InSeries(s) ==
    /\ index[s] \in Kids(s) \cup {0, Plan[s].last + 1}
    /\ \A k \in Kids(s) : (k < index[s] => k \in done) /\ (k > index[s] => k \notin begun)
    /\ index[s] \in Kids(s) => index[s] \in begun \/ call = Call("start", index[s])
    /\ index[s] = Plan[s].last + 1 => s \in done

\* The kids of a parallel set are begun, but for those its start() is yet to reach.
InParallel(p) ==
    /\ \A k \in Kids(p) : k \in begun \/ (Starting(p) /\ p < here /\ here <= k)
    /\ Starting(p) /\ p < here => \A k \in Kids(p) : k > here => k \notin begun

\* The call stack runs through nodes that are begun and not done, and through
\* the current kid of each series.
Path(n) ==
    \A q \in DOMAIN Plan : q < n /\ In(n, q) =>
        /\ q \in begun \ done
        /\ Plan[q].type = "series" => \A k \in Kids(q) : In(n, k) => index[q] = k
OnPath ==
    /\ call.op # "none" => Path(here)
    /\ call.op = "start" => here \notin begun
    /\ call.op \in {"started", "run", "ran"} => here \in begun
    /\ call.op = "run" => here \notin done
    /\ call.op = "started" /\ Plan[here].type \in Composites => here \notin done

\* A blocking dispatch is done when its action is.
Waited == \A d \in Dispatches(Plan) \cap done : Plan[d].wait => Object(d) \in finished

Kinds == {"none", "Path", "GoTo", "Follow", "StartCollect", "StopCollect", "Fire", "Velocity",
          "SetBalls", "PrepareToEmit", "PrepareToReceive", "CollectOn", "CollectOff",
          "Receive", "Stop", "Emit"}
Objects == [at : Nat, kind : Kinds]

\* What is attached was given by a dispatch that has begun, a mode's own action
\* to the subsystem it names.
Attached ==
    /\ held \in [Subs -> Objects]
    /\ \A s \in Subs : held[s] # Null =>
          /\ held[s].at \in Dispatches(Plan) \cap begun
          /\ held[s] = Object(held[s].at) => Plan[held[s].at].sub = s
    /\ held["manip"] # Null => held["manip"] = Object(held["manip"].at)

Series    == \A s \in DOMAIN Plan : Plan[s].type = "series" => InSeries(s)
Parallels == \A p \in begun : Plan[p].type = "parallel" => InParallel(p)

Walk   == Opened /\ Closed /\ Series /\ Parallels /\ OnPath
Walked == Types /\ Walk /\ Waited /\ Attached
----------------------------------------------------------------------------
\* The dispatch whose action the manipulator has.
holder == held["manip"].at

\* Behind the dispatch that gave the manipulator its action no other one has.
HolderIsLast ==
    held["manip"] # Null =>
        \A c \in Dispatches(Plan) : Plan[c].sub = "manip" /\ Before(Plan, holder, c) => c \notin begun

\* While the mode waits for a child of the manipulator the latter has no action.
ChildIsAlone ==
    \A a \in Dispatches(Plan) \cap begun :
        Plan[a].wait /\ Plan[a].sub \in Under /\ a \notin done => held["manip"] = Null

\* The walk has not yet come to anything behind the holder in a series.
NotPassed ==
    /\ turn = "controller" => call.op # "none"
    /\ call.op \in {"start", "started"} => \A q \in DOMAIN Plan : Starting(q) => holder < q
    /\ call.op = "run" => holder < here
    /\ call.op = "ran" => holder <= Plan[here].last
    /\ \A s, k \in DOMAIN Plan :
          Plan[s].type = "series" /\ Plan[k].up = s /\ In(holder, k) => index[s] = k

\* When the mode has seen the end of a manipulator action, the manipulator
\* drops it in the same loop, before anything behind it begins.
SeenIsDropped ==
    held["manip"] # Null /\ Plan[holder].wait /\ holder \in done => NotPassed

----------------------------------------------------------------------------
(***************************************************************************)
(* Trees.                                                                  *)
(***************************************************************************)
\* What the table of the current mode looks like: numbers, parents and spans.
LEMMA Table ==
    ASSUME mode \in DOMAIN Tree
    PROVE  /\ 1 \in DOMAIN Plan /\ Len(Plan) \in Nat /\ DOMAIN Plan = 1..Len(Plan)
           /\ Plan[1].up = 0 /\ Plan[1].type = "series"
           /\ \A n \in DOMAIN Plan :
                 /\ Plan[n].last \in n..Len(Plan)
                 /\ n > 1 => Plan[n].up \in 1..n - 1 /\ n <= Plan[Plan[n].up].last
                 /\ IF Plan[n].type \in Composites
                    THEN n + 1 <= Plan[n].last /\ Plan[n + 1].up = n
                    ELSE Plan[n].last = n
<1>1. IsTree(Plan)  BY TreeAssumption DEF Plan
<1> QED  BY <1>1 DEF IsTree

LEMMA Numbers ==
    ASSUME mode \in DOMAIN Tree
    PROVE  \A n \in DOMAIN Plan :
              /\ n \in Nat /\ n >= 1 /\ Plan[n].last \in Nat /\ Plan[n].up \in Nat
              /\ n <= Plan[n].last /\ Plan[n].up < n
              /\ Plan[n].up = 0 <=> n = 1
<1> SUFFICES ASSUME NEW n \in DOMAIN Plan
             PROVE  /\ n \in Nat /\ n >= 1 /\ Plan[n].last \in Nat /\ Plan[n].up \in Nat
                    /\ n <= Plan[n].last /\ Plan[n].up < n
                    /\ Plan[n].up = 0 <=> n = 1
  OBVIOUS
<1>1. n \in Nat /\ n >= 1 /\ Len(Plan) \in Nat /\ Plan[n].last \in n..Len(Plan)  BY Table
<1>2. n > 1 => Plan[n].up \in 1..n - 1  BY Table
<1>3. Plan[1].up = 0  BY Table
<1> QED  BY <1>1, <1>2, <1>3

LEMMA Parents ==
    ASSUME mode \in DOMAIN Tree, NEW n \in DOMAIN Plan, Plan[n].up # 0
    PROVE  /\ Plan[n].up \in DOMAIN Plan /\ Plan[n].up < n /\ n > 1
           /\ n <= Plan[Plan[n].up].last
           /\ Plan[Plan[n].up].type \in Composites
<1>1. n > 1 /\ n \in Nat  BY Numbers
<1>2. Plan[n].up \in 1..n - 1 /\ n <= Plan[Plan[n].up].last  BY <1>1, Table
<1>3. Plan[n].up \in DOMAIN Plan
  <2>1. DOMAIN Plan = 1..Len(Plan) /\ Len(Plan) \in Nat  BY Table
  <2> QED  BY <1>1, <1>2, <2>1
<1>4. Plan[n].up < n  BY <1>1, <1>2
<1>5. Plan[Plan[n].up].last # Plan[n].up  BY <1>1, <1>2, <1>3, <1>4, Numbers
<1>6. Plan[Plan[n].up].type \in Composites  BY <1>3, <1>5, Table
<1> QED  BY <1>1, <1>2, <1>3, <1>4, <1>6

\* Spans are nested; what is above a node is above or at its parent.
LEMMA Nested ==
    ASSUME mode \in DOMAIN Tree, NEW q \in DOMAIN Plan, NEW m \in DOMAIN Plan
    PROVE  /\ q < m /\ In(m, q) => Plan[m].last <= Plan[q].last
           /\ Plan[m].up # 0 => (q < m /\ In(m, q) <=> In(Plan[m].up, q))
           /\ q < m /\ Plan[q].up = Plan[m].up => Plan[q].last < m
<1>1. IsTree(Plan)  BY TreeAssumption DEF Plan
<1>2. ASSUME NEW r \in DOMAIN Plan, NEW d \in DOMAIN Plan, r < d, d <= Plan[r].last
      PROVE  Plan[d].last <= Plan[r].last /\ r <= Plan[d].up
  <2>1. r \in Nat /\ d \in Nat /\ Plan[r].last \in Nat  BY Numbers
  <2>2. d \in r + 1..Plan[r].last  BY <1>2, <2>1
  <2> QED  BY <1>1, <2>2 DEF IsTree
<1>3. /\ q \in Nat /\ m \in Nat /\ Plan[m].up \in Nat /\ Plan[q].up \in Nat
      /\ Plan[q].last \in Nat /\ Plan[m].last \in Nat
      /\ Plan[m].up < m /\ Plan[q].up < q
  BY Numbers
<1>4. ASSUME Plan[m].up # 0, In(Plan[m].up, q)
      PROVE  q < m /\ m <= Plan[q].last
  <2>1. Plan[m].up \in DOMAIN Plan /\ m <= Plan[Plan[m].up].last  BY <1>4, Parents
  <2>2. q <= Plan[m].up /\ Plan[m].up <= Plan[q].last  BY <1>4 DEF In
  <2>3. Plan[Plan[m].up].last \in Nat  BY <2>1, Numbers
  <2>4. CASE q = Plan[m].up  BY <1>3, <2>1, <2>4
  <2>5. CASE q < Plan[m].up
    <3>1. Plan[Plan[m].up].last <= Plan[q].last  BY <1>2, <2>1, <2>2, <2>5
    <3> QED  BY <1>3, <2>1, <2>3, <2>5, <3>1
  <2> QED  BY <1>3, <2>2, <2>4, <2>5
<1>5. ASSUME q < m, In(m, q)
      PROVE  In(Plan[m].up, q) /\ Plan[m].last <= Plan[q].last
  <2>1. m <= Plan[q].last  BY <1>5 DEF In
  <2>2. Plan[m].last <= Plan[q].last /\ q <= Plan[m].up  BY <1>2, <1>5, <2>1
  <2> QED  BY <1>3, <2>1, <2>2 DEF In
<1>6. ASSUME q < m, Plan[q].up = Plan[m].up
      PROVE  Plan[q].last < m
  <2>1. ~ (m <= Plan[q].last)
    <3>1. ASSUME m <= Plan[q].last PROVE q <= Plan[m].up  BY <1>2, <1>6, <3>1
    <3> QED  BY <1>3, <1>6, <3>1
  <2> QED  BY <1>3, <2>1
<1>7. q < m => (In(m, q) <=> m <= Plan[q].last)  BY <1>3 DEF In
<1> QED  BY <1>4, <1>5, <1>6, <1>7

\* Kids follow each other without a gap and share out what is below their parent.
LEMMA Kin ==
    ASSUME mode \in DOMAIN Tree, NEW p \in DOMAIN Plan, Plan[p].type \in Composites
    PROVE  /\ p + 1 \in Kids(p)
           /\ \A k \in Kids(p) : /\ k \in DOMAIN Plan /\ Plan[k].up = p /\ p < k /\ In(k, p)
                                 /\ Plan[k].last <= Plan[p].last
                                 /\ Plan[k].last < Plan[p].last => Plan[k].last + 1 \in Kids(p)
           /\ \A m \in DOMAIN Plan : p < m /\ In(m, p) => \E k \in Kids(p) : In(m, k)
<1>1. IsTree(Plan)  BY TreeAssumption DEF Plan
<1>2. p \in Nat /\ p >= 1 /\ Plan[p].last \in Nat  BY Numbers
<1>3. DOMAIN Plan = 1..Len(Plan) /\ Len(Plan) \in Nat /\ Plan[p].last <= Len(Plan)  BY Table
<1>4. p + 1 \in DOMAIN Plan /\ Plan[p + 1].up = p
  <2>1. p + 1 <= Plan[p].last /\ Plan[p + 1].up = p  BY Table
  <2> QED  BY <1>2, <1>3, <2>1
<1>5. ASSUME NEW k \in Kids(p)
      PROVE  /\ k \in DOMAIN Plan /\ Plan[k].up = p /\ p < k /\ In(k, p)
             /\ Plan[k].last <= Plan[p].last
             /\ Plan[k].last < Plan[p].last => Plan[k].last + 1 \in Kids(p)
  <2>1. k \in DOMAIN Plan /\ Plan[k].up = p  BY DEF Kids
  <2>2. k \in Nat /\ Plan[k].last \in Nat /\ k <= Plan[k].last /\ Plan[k].up # 0
    BY <1>2, <2>1, Numbers
  <2>3. p < k /\ k <= Plan[p].last /\ k > 1  BY <2>1, <2>2, Parents
  <2>4. In(k, p)  BY <1>2, <2>2, <2>3 DEF In
  <2>5. Plan[k].last <= Plan[p].last  BY <2>1, <2>3, <2>4, Nested
  <2>6. ASSUME Plan[k].last < Plan[p].last PROVE Plan[Plan[k].last + 1].up = p
    BY <1>1, <2>1, <2>3, <2>6 DEF IsTree
  <2>7. ASSUME Plan[k].last < Plan[p].last PROVE Plan[k].last + 1 \in DOMAIN Plan
    BY <1>2, <1>3, <2>2, <2>7
  <2> QED  BY <2>1, <2>3, <2>4, <2>5, <2>6, <2>7 DEF Kids
<1>6. ASSUME NEW m \in DOMAIN Plan, p < m, In(m, p)
      PROVE  \E k \in Kids(p) : In(m, k)
  <2>0. m \in Nat /\ m <= Len(Plan)  BY <1>3
  <2>1. m \in p + 1..Plan[p].last  BY <1>2, <1>6, <2>0 DEF In
  <2>2. PICK k \in p + 1..m : Plan[k].up = p /\ m <= Plan[k].last  BY <1>1, <2>1 DEF IsTree
  <2>3. k \in DOMAIN Plan /\ k <= m  BY <1>2, <1>3, <2>0, <2>2
  <2> QED  BY <2>2, <2>3 DEF In, Kids
<1>7. p + 1 \in Kids(p)  BY <1>4 DEF Kids
<1> QED  BY <1>5, <1>6, <1>7
----------------------------------------------------------------------------
(***************************************************************************)
(* The walk of the controller, by itself.                                  *)
(***************************************************************************)
\* A leaf or a series is started.
LEMMA LeafStarts ==
    ASSUME Types, Walk, NEW n \in DOMAIN Plan,
           call = Call("start", n), Plan[n].type # "parallel", mode' = mode,
           begun' = begun \cup {n}, call' = Call("started", n),
           done' = done \/ (done' = done \cup {n} /\ Plan[n].type \notin Composites),
           index' = index \/ index' = [index EXCEPT ![n] = 0]
    PROVE  Walk'
<1>1. Plan' = Plan /\ mode \in DOMAIN Tree  BY DEF Plan, Types
<1>2. n \notin begun /\ n \notin done /\ here = n /\ here' = n /\ call.op = "start" /\ call'.op = "started"
  BY DEF Walk, OnPath, here, Call, Types
<1>3. n \in Nat /\ n >= 1 /\ Plan[n].last \in Nat /\ n <= Plan[n].last  BY <1>1, Numbers
<1>4. \A q \in DOMAIN Plan : q < n /\ In(n, q) =>
         /\ q \in begun \ done
         /\ Plan[q].type = "series" => \A k \in Kids(q) : In(n, k) => index[q] = k
  BY <1>2 DEF Walk, OnPath, Path
<1>5. \A k \in Kids(n) : k \notin begun
  <2> SUFFICES ASSUME NEW k \in Kids(n), k \in begun PROVE FALSE  OBVIOUS
  <2>1. k \in DOMAIN Plan /\ Plan[k].up = n  BY DEF Kids
  <2>2. Plan[k].up # 0  BY <1>3, <2>1
  <2>3. n < k /\ k <= Plan[n].last  BY <1>1, <2>1, <2>2, Parents
  <2>4. In(k, n)  BY <1>1, <1>3, <2>1, <2>3, Numbers DEF In
  <2> QED  BY <1>2, <2>4 DEF Walk, Opened
<1>6. Opened'
  <2> SUFFICES ASSUME NEW d \in begun', NEW q \in DOMAIN Plan, In(d, q) PROVE q \in begun'
    BY <1>1 DEF Opened, In
  <2>1. CASE d \in begun  BY <2>1 DEF Walk, Opened
  <2>2. CASE d = n
    <3>1. q \in Nat /\ q <= n  BY <1>1, <2>2, Numbers DEF In
    <3> QED  BY <1>3, <1>4, <2>2, <3>1
  <2> QED  BY <2>1, <2>2
<1>7. Closed'
  <2> SUFFICES ASSUME NEW p \in done', NEW d \in DOMAIN Plan, In(d, p) PROVE d \in done'
    BY <1>1 DEF Closed, In
  <2>1. CASE p \in done  BY <2>1 DEF Walk, Closed
  <2>2. CASE p = n /\ done' = done \cup {n} /\ Plan[n].type \notin Composites
    <3>1. Plan[n].last = n  BY <1>1, <2>2, Table
    <3>2. d = n  BY <1>1, <1>3, <2>2, <3>1, Numbers DEF In
    <3> QED  BY <2>2, <3>2
  <2> QED  BY <2>1, <2>2
<1>8. Series'
  <2> SUFFICES ASSUME NEW s \in DOMAIN Plan, Plan[s].type = "series" PROVE InSeries(s)'
    BY <1>1 DEF Series
  <2>1. Kids(s)' = Kids(s)  BY <1>1 DEF Kids
  <2>2. InSeries(s)  BY DEF Walk, Series
  <2>3. CASE index'[s] = index[s]
    <3>1. \A k \in Kids(s) : k > index[s] => k \notin begun'
      <4> SUFFICES ASSUME n \in Kids(s) PROVE ~ (n > index[s])  BY <2>2 DEF InSeries
      <4>1. Plan[n].up = s /\ s # 0  BY <1>1, Numbers DEF Kids
      <4>2. s < n /\ n <= Plan[s].last  BY <1>1, <4>1, Parents
      <4>3. In(n, s) /\ In(n, n)  BY <1>1, <1>3, <4>2, Numbers DEF In
      <4>4. index[s] = n  BY <1>4, <4>2, <4>3
      <4> QED  BY <1>3, <4>4
    <3>2. index[s] \in begun' \/ ~ (index[s] \in Kids(s))
      <4>1. index[s] \in Kids(s) => index[s] \in begun \/ call = Call("start", index[s])
        BY <2>2 DEF InSeries
      <4> QED  BY <4>1 DEF Call
    <3>3. done \subseteq done'  OBVIOUS
    <3> QED  BY <1>1, <2>1, <2>2, <2>3, <3>1, <3>2, <3>3 DEF InSeries
  <2>4. CASE index'[s] = 0 /\ s = n
    <3>1. \A k \in Kids(n) : k \in Nat /\ k # n /\ k >= 1 /\ ~ (k < 0)
      <4> SUFFICES ASSUME NEW k \in Kids(n) PROVE k \in Nat /\ k # n /\ k >= 1 /\ ~ (k < 0)  OBVIOUS
      <4>1. k \in DOMAIN Plan /\ Plan[k].up = n  BY DEF Kids
      <4> QED  BY <1>1, <1>3, <4>1, Numbers
    <3>2. Plan[s].last + 1 # 0  BY <1>3, <2>4
    <3>3. 0 \notin Kids(n)  BY <3>1
    <3> QED  BY <1>1, <1>5, <2>1, <2>4, <3>1, <3>2, <3>3 DEF InSeries
  <2>5. index'[s] = index[s] \/ (index'[s] = 0 /\ s = n)  BY DEF Types
  <2> QED  BY <2>3, <2>4, <2>5
<1>9. Parallels'
  <2> SUFFICES ASSUME NEW p \in begun', Plan[p].type = "parallel", NEW k \in Kids(p)
               PROVE  /\ k \in begun' \/ (Starting(p)' /\ p < here' /\ here' <= k)
                      /\ Starting(p)' /\ p < here' /\ k > here' => k \notin begun'
    BY <1>1 DEF Parallels, InParallel, Kids
  <2>1. p \in begun  OBVIOUS
  <2>2. /\ k \in begun \/ (Starting(p) /\ p < here /\ here <= k)
        /\ Starting(p) /\ p < here /\ k > here => k \notin begun
    BY <2>1 DEF Walk, Parallels, InParallel
  <2>3. Starting(p) <=> Starting(p)'
    BY <1>1, <1>2 DEF Starting, StartsAt, In, here
  <2>4. k > n => k # n  BY <1>3
  <2> QED  BY <1>2, <2>2, <2>3, <2>4
<1>10. OnPath'
  <2>1. ASSUME NEW q \in DOMAIN Plan, q < n, In(n, q)
        PROVE  /\ q \in begun' \ done'
               /\ Plan[q].type = "series" => \A k \in Kids(q) : In(n, k) => index'[q] = k
    <3>1. q # n  BY <1>1, <1>3, <2>1, Numbers
    <3>2. index'[q] = index[q]  BY <3>1 DEF Types
    <3> QED  BY <1>4, <2>1, <3>1, <3>2
  <2>2. Plan[n].type \in Composites => n \notin done'  BY <1>2
  <2> QED  BY <1>1, <1>2, <2>1, <2>2 DEF OnPath, Path, In, Kids
<1> QED  BY <1>6, <1>7, <1>8, <1>9, <1>10 DEF Walk

LEMMA PathUp ==
    ASSUME Types, NEW n \in DOMAIN Plan, Plan[n].up # 0, Path(n)
    PROVE  /\ Plan[n].up \in DOMAIN Plan /\ Plan[n].up \in begun \ done
           /\ Path(Plan[n].up)
           /\ Plan[Plan[n].up].type = "series" => index[Plan[n].up] = n
<1> DEFINE p == Plan[n].up
<1>1. mode \in DOMAIN Tree  BY DEF Types
<1>2. p \in DOMAIN Plan /\ p < n /\ n <= Plan[p].last  BY <1>1, Parents
<1>3. /\ n \in Nat /\ p \in Nat /\ p <= Plan[p].last /\ Plan[p].last \in Nat /\ n <= Plan[n].last
  BY <1>1, <1>2, Numbers
<1>4. In(n, p) /\ In(p, p) /\ In(n, n)  BY <1>2, <1>3 DEF In
<1>5. p \in begun \ done  BY <1>2, <1>4 DEF Path
<1>6. Plan[p].type = "series" => index[p] = n
  <2>1. n \in Kids(p)  BY DEF Kids
  <2> QED  BY <1>2, <1>4, <2>1 DEF Path
<1>7. ASSUME NEW q \in DOMAIN Plan, q < p, In(p, q)
      PROVE  /\ q \in begun \ done
             /\ Plan[q].type = "series" => \A k \in Kids(q) : In(p, k) => index[q] = k
  <2>1. q < n /\ In(n, q)  BY <1>1, <1>7, Nested
  <2>2. ASSUME NEW k \in Kids(q), In(p, k) PROVE In(n, k)
    <3>1. k \in DOMAIN Plan  BY DEF Kids
    <3> QED  BY <1>1, <2>2, <3>1, Nested
  <2> QED  BY <2>1, <2>2 DEF Path
<1>8. Path(p)  BY <1>7 DEF Path
<1> QED  BY <1>2, <1>5, <1>6, <1>8

LEMMA PathDown ==
    ASSUME Types, NEW p \in DOMAIN Plan, Plan[p].type \in Composites,
           Path(p), p \in begun \ done, NEW n \in Kids(p),
           Plan[p].type = "series" => index[p] = n
    PROVE  Path(n)
<1>1. mode \in DOMAIN Tree  BY DEF Types
<1>2. n \in DOMAIN Plan /\ Plan[n].up = p /\ p # 0 /\ p < n  BY <1>1, Kin, Numbers
<1> SUFFICES ASSUME NEW q \in DOMAIN Plan, q < n, In(n, q)
             PROVE  /\ q \in begun \ done
                    /\ Plan[q].type = "series" => \A k \in Kids(q) : In(n, k) => index[q] = k
  BY DEF Path
<1>3. In(p, q)  BY <1>1, <1>2, Nested
<1>4. p \in Nat /\ q \in Nat /\ n \in Nat /\ Plan[n].last \in Nat  BY <1>1, <1>2, Numbers
<1>5. q <= p  BY <1>3 DEF In
<1>6. CASE q = p
  <2>1. ASSUME NEW k \in Kids(q), In(n, k) PROVE k = n
    <3>1. k \in DOMAIN Plan /\ Plan[k].up = p  BY <1>6 DEF Kids
    <3>2. k \in Nat /\ k <= n /\ n <= Plan[k].last /\ Plan[k].last \in Nat
      BY <1>1, <2>1, <3>1, Numbers DEF In
    <3>3. ~ (k < n)
      <4>1. k < n => Plan[k].last < n  BY <1>1, <1>2, <3>1, Nested
      <4> QED  BY <1>4, <3>2, <4>1
    <3> QED  BY <1>4, <3>2, <3>3
  <2> QED  BY <1>6, <2>1
<1>7. CASE q < p
  <2>1. ASSUME NEW k \in Kids(q), In(n, k) PROVE In(p, k)
    <3>1. k \in DOMAIN Plan /\ Plan[k].up = q  BY DEF Kids
    <3>2. k # n  BY <1>2, <1>4, <1>7, <3>1
    <3>3. k \in Nat /\ k <= n  BY <1>1, <2>1, <3>1, Numbers DEF In
    <3>4. k < n  BY <1>4, <3>2, <3>3
    <3> QED  BY <1>1, <1>2, <2>1, <3>1, <3>4, Nested
  <2> QED  BY <1>3, <1>7, <2>1 DEF Path
<1> QED  BY <1>4, <1>5, <1>6, <1>7

\* All kids of a parallel set are begun, but while it starts them.
AllBegun == \A p \in begun : Plan[p].type = "parallel" => Kids(p) \subseteq begun

LEMMA StartsAlone ==
    ASSUME mode \in DOMAIN Tree, NEW c, c.n \in DOMAIN Plan,
           \/ c.op \in {"run", "ran", "none"}
           \/ Plan[c.n].up = 0
           \/ Plan[Plan[c.n].up].type = "series",
           NEW p \in DOMAIN Plan, p < c.n, StartsAt(c, p)
    PROVE  FALSE
<1>1. c.op \in {"start", "started"} /\ In(c.n, p)  BY DEF StartsAt
<1>2. Plan[c.n].up # 0
  <2>1. c.n # 1  BY Numbers
  <2> QED  BY <2>1, Numbers
<1> DEFINE q == Plan[c.n].up
<1>3. q \in DOMAIN Plan /\ q < c.n /\ c.n <= Plan[q].last  BY <1>2, Parents
<1>4. In(q, p) /\ In(c.n, q)  BY <1>1, <1>2, <1>3, Nested, Numbers DEF In
<1>5. p <= q  BY <1>4 DEF In
<1>6. Plan[q].type = "parallel"  BY <1>3, <1>4, <1>5 DEF StartsAt
<1> QED  BY <1>1, <1>2, <1>6

LEMMA StartedAll ==
    ASSUME Types, Walk,
           \/ call.op \in {"run", "ran", "none"}
           \/ call.op = "started" /\ Plan[here].up = 0
           \/ call.op = "started" /\ Plan[Plan[here].up].type = "series"
    PROVE  AllBegun
<1>1. mode \in DOMAIN Tree /\ here \in DOMAIN Plan  BY DEF Types, here
<1> SUFFICES ASSUME NEW p \in begun, Plan[p].type = "parallel", NEW k \in Kids(p), k \notin begun
             PROVE  FALSE
  BY DEF AllBegun
<1>2. StartsAt(call, p) /\ p < here  BY DEF Walk, Parallels, InParallel, Starting
<1>3. p \in DOMAIN Plan  BY DEF Types
<1> QED  BY <1>1, <1>2, <1>3, StartsAlone DEF here

\* The walk goes on to another node, nothing else changes.
LEMMA Moves ==
    ASSUME Types, Walk, mode' = mode, begun' = begun, done' = done, index' = index,
           call.op # "start", Parallels',
           NEW op \in {"none", "start", "started", "run", "ran"}, NEW m \in DOMAIN Plan,
           call' = Call(op, m),
           op # "none" => Path(m),
           op = "start" => m \notin begun,
           op \in {"started", "run", "ran"} => m \in begun,
           op = "run" => m \notin done,
           op = "started" /\ Plan[m].type \in Composites => m \notin done
    PROVE  Walk'
<1>1. Plan' = Plan  BY DEF Plan
<1>2. Opened' /\ Closed'  BY <1>1 DEF Walk, Opened, Closed, In
<1>3. Series'
  <2> SUFFICES ASSUME NEW s \in DOMAIN Plan, Plan[s].type = "series" PROVE InSeries(s)'
    BY <1>1 DEF Series
  <2>1. InSeries(s)  BY DEF Walk, Series
  <2>2. index[s] \in Kids(s) => index[s] \in begun  BY <2>1 DEF InSeries, Call
  <2> QED  BY <1>1, <2>1, <2>2 DEF InSeries, Kids
<1>4. OnPath'  BY <1>1 DEF OnPath, Path, In, Kids, Call, here
<1> QED  BY <1>2, <1>3, <1>4 DEF Walk

LEMMA StaysBegun ==
    ASSUME Types, AllBegun, mode' = mode, begun' = begun,
           NEW op, NEW m \in DOMAIN Plan, call' = Call(op, m),
           \/ op \in {"run", "ran", "none"}
           \/ Plan[m].up = 0
           \/ Plan[Plan[m].up].type = "series"
    PROVE  Parallels'
<1>1. Plan' = Plan /\ mode \in DOMAIN Tree  BY DEF Plan, Types
<1>2. call'.op = op /\ call'.n = m  BY DEF Call
<1>3. ASSUME NEW p \in begun, Starting(p)', p < m PROVE FALSE
  <2>1. StartsAt(call', p)  BY <1>1, <1>3 DEF Starting, StartsAt, In
  <2> QED  BY <1>1, <1>2, <1>3, <2>1, StartsAlone DEF Types
<1> QED  BY <1>1, <1>2, <1>3 DEF AllBegun, Parallels, InParallel, Kids, here

\* The run() of a node returns; it may have ended the node.
LEMMA NodeRan ==
    ASSUME Types, Walk, AllBegun, mode' = mode, begun' = begun, call.op # "start",
           NEW p \in begun, Path(p), call' = Call("ran", p),
           \/ done' = done
           \/ done' = done \cup {p} /\ \A k \in Kids(p) : k \in done,
           \/ index' = index
           \/ /\ index' = [index EXCEPT ![p] = Plan[p].last + 1]
              /\ p \in done' /\ \A k \in Kids(p) : k \in done
    PROVE  Walk'
<1>1. Plan' = Plan /\ mode \in DOMAIN Tree /\ p \in DOMAIN Plan  BY DEF Plan, Types
<1>2. Opened'  BY <1>1 DEF Walk, Opened, In
<1>3. Closed'
  <2> SUFFICES ASSUME NEW d \in DOMAIN Plan, In(d, p), p \in done', p \notin done PROVE d \in done'
    BY <1>1 DEF Walk, Closed, In
  <2>1. done' = done \cup {p} /\ \A k \in Kids(p) : k \in done  OBVIOUS
  <2>2. CASE d = p  BY <2>1, <2>2
  <2>3. CASE d # p
    <3>1. p \in Nat /\ d \in Nat /\ Plan[p].last \in Nat  BY <1>1, Numbers
    <3>2. p < d /\ d <= Plan[p].last  BY <2>3, <3>1 DEF In
    <3>3. Plan[p].type \in Composites  BY <1>1, <3>1, <3>2, Table
    <3>4. PICK k \in Kids(p) : In(d, k)  BY <1>1, <3>2, <3>3, Kin
    <3>5. k \in done  BY <2>1
    <3> QED  BY <2>1, <3>4, <3>5 DEF Walk, Closed
  <2> QED  BY <2>2, <2>3
<1>4. Series'
  <2> SUFFICES ASSUME NEW s \in DOMAIN Plan, Plan[s].type = "series" PROVE InSeries(s)'
    BY <1>1 DEF Series
  <2>1. InSeries(s) /\ Kids(s)' = Kids(s)  BY <1>1 DEF Walk, Series, Kids
  <2>2. index[s] \in Kids(s) => index[s] \in begun  BY <2>1 DEF InSeries, Call
  <2>3. CASE index'[s] = index[s]  BY <1>1, <2>1, <2>2, <2>3 DEF InSeries
  <2>4. CASE s = p /\ index'[s] = Plan[s].last + 1 /\ p \in done' /\ \A k \in Kids(s) : k \in done
    <3>1. \A k \in Kids(s) : ~ (k > Plan[s].last + 1) /\ k # Plan[s].last + 1
      <4> SUFFICES ASSUME NEW k \in Kids(s) PROVE ~ (k > Plan[s].last + 1) /\ k # Plan[s].last + 1
        OBVIOUS
      <4>1. k \in DOMAIN Plan /\ In(k, s)  BY <1>1, Kin DEF Composites
      <4> QED  BY <1>1, <4>1, Numbers DEF In
    <3> QED  BY <1>1, <2>1, <2>4, <3>1 DEF InSeries
  <2>5. \/ index'[s] = index[s]
        \/ s = p /\ index'[s] = Plan[s].last + 1 /\ p \in done' /\ \A k \in Kids(s) : k \in done
    BY DEF Types
  <2> QED  BY <2>3, <2>4, <2>5
<1>5. Parallels'  BY <1>1, StaysBegun
<1>6. OnPath'
  <2>1. ASSUME NEW q \in DOMAIN Plan, q < p, In(p, q)
        PROVE  /\ q \in begun \ done'
               /\ Plan[q].type = "series" => \A k \in Kids(q) : In(p, k) => index'[q] = k
    <3>1. q # p  BY <1>1, <2>1, Numbers
    <3>2. index'[q] = index[q]  BY <3>1 DEF Types
    <3> QED  BY <2>1, <3>1, <3>2 DEF Path
  <2> QED  BY <1>1, <2>1 DEF OnPath, Path, In, Kids, Call, here
<1> QED  BY <1>2, <1>3, <1>4, <1>5, <1>6 DEF Walk

\* The kid a series goes on to.
NextOf(s) == IF index[s] = 0 THEN s + 1 ELSE Plan[index[s]].last + 1

LEMMA NextKid ==
    ASSUME Types, Walk, NEW s \in DOMAIN Plan, Plan[s].type = "series", s \notin done
    PROVE  /\ NextOf(s) \in Nat /\ NextOf(s) <= Plan[s].last + 1 /\ index[s] < NextOf(s)
           /\ NextOf(s) <= Plan[s].last => NextOf(s) \in Kids(s)
           /\ StartNextAction(s) <=>
                 /\ index' = [index EXCEPT ![s] = NextOf(s)]
                 /\ IF NextOf(s) <= Plan[s].last THEN call' = Call("start", NextOf(s)) /\ UNCHANGED done
                    ELSE call' = Call("ran", s) /\ Ends(s)
<1>1. mode \in DOMAIN Tree  BY DEF Types
<1>2. InSeries(s)  BY DEF Walk, Series
<1>3. s \in Nat /\ s >= 1 /\ Plan[s].last \in Nat /\ s <= Plan[s].last  BY <1>1, Numbers
<1>4. index[s] \in Kids(s) \cup {0}  BY <1>2 DEF InSeries
<1>5. \A k \in Kids(s) :
         /\ k \in DOMAIN Plan /\ k \in Nat /\ Plan[k].last \in Nat
         /\ s < k /\ k <= Plan[k].last /\ Plan[k].last <= Plan[s].last
         /\ Plan[k].last < Plan[s].last => Plan[k].last + 1 \in Kids(s)
  BY <1>1, Kin, Numbers DEF Composites
<1>6. s + 1 \in Kids(s)  BY <1>1, Kin DEF Composites
<1>7. CASE index[s] = 0  BY <1>3, <1>5, <1>6, <1>7 DEF NextOf, StartNextAction
<1>8. CASE index[s] \in Kids(s)
  <2>1. index[s] # 0  BY <1>3, <1>5, <1>8
  <2> QED  BY <1>3, <1>5, <1>8, <2>1 DEF NextOf, StartNextAction
<1> QED  BY <1>4, <1>7, <1>8

\* A series goes on to its next kid, or finds that there is none.
LEMMA GoesOn ==
    ASSUME Types, Walk, AllBegun, mode' = mode, begun' = begun, call.op # "start",
           NEW s \in DOMAIN Plan, Plan[s].type = "series", Path(s), s \in begun \ done,
           index[s] = 0 \/ index[s] \in done, StartNextAction(s)
    PROVE  Walk'
<1> DEFINE next == IF index[s] = 0 THEN s + 1 ELSE Plan[index[s]].last + 1
<1>1. Plan' = Plan /\ mode \in DOMAIN Tree  BY DEF Plan, Types
<1>2. InSeries(s)  BY DEF Walk, Series
<1>3. s \in Nat /\ s >= 1 /\ Plan[s].last \in Nat /\ s <= Plan[s].last  BY <1>1, Numbers
<1>4. index[s] \in Kids(s) \cup {0}  BY <1>2 DEF InSeries
<1>5. \A k \in Kids(s) :
         /\ k \in DOMAIN Plan /\ k \in Nat /\ Plan[k].last \in Nat /\ Plan[k].up = s /\ In(k, s)
         /\ s < k /\ k <= Plan[k].last /\ Plan[k].last <= Plan[s].last
         /\ Plan[k].last < Plan[s].last => Plan[k].last + 1 \in Kids(s)
  BY <1>1, Kin, Numbers DEF Composites
<1>7. /\ next \in Nat /\ next <= Plan[s].last + 1 /\ index[s] < next
      /\ next <= Plan[s].last => next \in Kids(s)
  BY NextKid DEF NextOf
<1>8. \A k \in Kids(s) : k < next => k \in done
  <2> SUFFICES ASSUME NEW k \in Kids(s), k < next PROVE k \in done  OBVIOUS
  <2>1. CASE index[s] = 0  BY <1>3, <1>5, <2>1
  <2>2. CASE index[s] # 0
    <3>1. index[s] \in Kids(s) /\ index[s] \in done /\ next = Plan[index[s]].last + 1
      BY <1>4, <2>2
    <3>2. index[s] < k => Plan[index[s]].last < k  BY <1>1, <1>5, <3>1, Nested
    <3>3. k <= index[s]  BY <1>5, <3>1, <3>2
    <3> QED  BY <1>2, <1>5, <3>1, <3>3 DEF InSeries
  <2> QED  BY <2>1, <2>2
<1>9. \A k \in Kids(s) : k > index[s] => k \notin begun  BY <1>2 DEF InSeries
<1>10. index' = [index EXCEPT ![s] = next]  BY DEF StartNextAction
<1>11. CASE next <= Plan[s].last
  <2>1. call' = Call("start", next) /\ done' = done /\ next \in Kids(s)
    BY <1>7, <1>11 DEF StartNextAction
  <2>2. next \notin begun  BY <1>5, <1>7, <1>9, <2>1
  <2>3. index'[s] = next /\ \A r \in DOMAIN Plan : r # s => index'[r] = index[r]
    BY <1>10 DEF Types
  <2>4. Opened' /\ Closed'  BY <1>1, <2>1 DEF Walk, Opened, Closed, In
  <2>5. Series'
    <3> SUFFICES ASSUME NEW r \in DOMAIN Plan, Plan[r].type = "series" PROVE InSeries(r)'
      BY <1>1 DEF Series
    <3>1. InSeries(r) /\ Kids(r)' = Kids(r)  BY <1>1 DEF Walk, Series, Kids
    <3>2. index[r] \in Kids(r) => index[r] \in begun  BY <3>1 DEF InSeries, Call
    <3>3. CASE r # s  BY <1>1, <2>1, <2>3, <3>1, <3>2, <3>3 DEF InSeries
    <3>4. CASE r = s
      <4>1. \A k \in Kids(s) : k > next => k \notin begun
        <5> SUFFICES ASSUME NEW k \in Kids(s), k > next PROVE k > index[s]  BY <1>9
        <5> QED  BY <1>4, <1>5, <1>7
      <4>2. next # Plan[s].last + 1  BY <1>3, <1>7, <1>11
      <4> QED  BY <1>1, <1>8, <2>1, <2>3, <3>1, <3>4, <4>1, <4>2 DEF InSeries
    <3> QED  BY <3>3, <3>4
  <2>6. Parallels'  BY <1>5, <2>1, StaysBegun
  <2>7. ASSUME NEW q \in DOMAIN Plan, q < next, In(next, q)
        PROVE  /\ q \in begun \ done
               /\ Plan[q].type = "series" => \A k \in Kids(q) : In(next, k) => index'[q] = k
    <3>1. next \in DOMAIN Plan /\ Plan[next].up = s /\ s # 0  BY <1>3, <1>5, <2>1
    <3>2. In(s, q)  BY <1>1, <2>7, <3>1, Nested
    <3>3. q <= s /\ q \in Nat  BY <1>1, <3>2, Numbers DEF In
    <3>4. CASE q = s
      <4>1. ASSUME NEW k \in Kids(s), In(next, k) PROVE k = next
        <5>1. k <= next /\ next <= Plan[k].last  BY <4>1 DEF In
        <5>2. k < next => Plan[k].last < next  BY <1>1, <1>5, <3>1, Nested
        <5> QED  BY <1>5, <1>7, <5>1, <5>2
      <4> QED  BY <2>3, <3>4, <4>1
    <3>5. CASE q < s
      <4>1. q \in begun \ done  BY <3>2, <3>5 DEF Path
      <4>2. ASSUME Plan[q].type = "series", NEW k \in Kids(q), In(next, k) PROVE index'[q] = k
        <5>1. k \in DOMAIN Plan /\ Plan[k].up = q  BY DEF Kids
        <5>2. k # next  BY <1>3, <3>1, <3>3, <3>5, <5>1
        <5>3. k \in Nat /\ k <= next  BY <1>1, <4>2, <5>1, Numbers DEF In
        <5>4. k < next  BY <1>7, <5>2, <5>3
        <5>5. In(s, k)  BY <1>1, <3>1, <4>2, <5>1, <5>4, Nested
        <5>6. index[q] = k  BY <3>2, <3>5, <4>2, <5>5 DEF Path
        <5> QED  BY <1>3, <2>3, <3>3, <3>5, <5>6
      <4> QED  BY <4>1, <4>2
    <3> QED  BY <1>3, <3>3, <3>4, <3>5
  <2>8. OnPath'  BY <1>1, <2>1, <2>2, <2>7 DEF OnPath, Path, In, Kids, Call, here
  <2> QED  BY <2>4, <2>5, <2>6, <2>8 DEF Walk
<1>12. CASE ~ (next <= Plan[s].last)
  <2>1. call' = Call("ran", s) /\ done' = done \cup {s}
    BY <1>12 DEF StartNextAction, Ends
  <2>2. next = Plan[s].last + 1  BY <1>3, <1>7, <1>12
  <2>3. \A k \in Kids(s) : k \in done
    <3> SUFFICES ASSUME NEW k \in Kids(s) PROVE k \in done  OBVIOUS
    <3>1. k < next  BY <1>3, <1>5, <2>2
    <3> QED  BY <1>8, <3>1
  <2> QED  BY <1>10, <2>1, <2>2, <2>3, NodeRan
<1> QED  BY <1>11, <1>12

\* The loop of a parallel set's run() goes on.
LEMMA RunsOn ==
    ASSUME Types, Walk, AllBegun, mode' = mode, begun' = begun, index' = index, call.op # "start",
           NEW p \in DOMAIN Plan, Plan[p].type = "parallel", Path(p), p \in begun \ done,
           NEW k, RunFrom(p, k)
    PROVE  Walk'
<1>1. CASE \E i \in Kids(p) : i \notin done /\ call' = Call("run", i) /\ done' = done
  <2>1. PICK i \in Kids(p) : i \notin done /\ call' = Call("run", i) /\ done' = done  BY <1>1
  <2>2. i \in DOMAIN Plan /\ i \in begun  BY DEF Kids, AllBegun
  <2>3. Path(i)  BY PathDown DEF Composites
  <2> QED  BY <2>1, <2>2, <2>3, StaysBegun, Moves
<1>2. CASE call' = Call("ran", p) /\ (done' = done \/ (done' = done \cup {p} /\ Kids(p) \subseteq done))
  BY <1>2, NodeRan
<1> QED  BY <1>1, <1>2 DEF RunFrom, Ends

LEMMA ParallelStarts ==
    ASSUME Types, Walk, NEW n \in DOMAIN Plan, StartParallel(n)
    PROVE  Walk'
<1>1. /\ Plan' = Plan /\ mode \in DOMAIN Tree /\ call = Call("start", n)
      /\ Plan[n].type = "parallel" /\ begun' = begun \cup {n} /\ done' = done /\ index' = index
      /\ call' = Call("start", n + 1)
  BY DEF Plan, Types, StartParallel, IsCalled
<1>2. n \notin begun /\ n \notin done /\ Path(n) /\ here = n /\ here' = n + 1
  BY <1>1 DEF Walk, OnPath, Call, Types, here
<1>3. n \in Nat /\ n >= 1 /\ Plan[n].last \in Nat  BY <1>1, Numbers
<1>4. n + 1 \in Kids(n) /\ n + 1 \in DOMAIN Plan /\ Plan[n + 1].up = n /\ In(n + 1, n)
  BY <1>1, Kin DEF Composites
<1>5. n + 1 \notin begun  BY <1>2, <1>4 DEF Walk, Opened
<1>6. Opened'
  <2> SUFFICES ASSUME NEW q \in DOMAIN Plan, In(n, q) PROVE q \in begun'
    BY <1>1 DEF Walk, Opened, In
  <2>1. q \in Nat /\ q <= n  BY <1>1, Numbers DEF In
  <2> QED  BY <1>1, <1>2, <1>3, <2>1 DEF Path
<1>7. Closed'  BY <1>1 DEF Walk, Closed, In
<1>8. Series'
  <2> SUFFICES ASSUME NEW s \in DOMAIN Plan, Plan[s].type = "series" PROVE InSeries(s)'
    BY <1>1 DEF Series
  <2>1. InSeries(s) /\ Kids(s)' = Kids(s)  BY <1>1 DEF Walk, Series, Kids
  <2>2. n \in Kids(s) => index[s] = n
    <3> SUFFICES ASSUME n \in Kids(s) PROVE index[s] = n  OBVIOUS
    <3>1. Plan[n].up = s /\ s # 0  BY <1>1, Numbers DEF Kids
    <3> QED  BY <1>2, <3>1, PathUp
  <2>3. \A k \in Kids(s) : k > index[s] => k \notin begun'
    BY <1>1, <1>3, <2>1, <2>2 DEF InSeries
  <2>4. index[s] \in Kids(s) => index[s] \in begun'
    BY <1>1, <2>1 DEF InSeries, Call
  <2> QED  BY <1>1, <2>1, <2>3, <2>4 DEF InSeries
<1>9. Parallels'
  <2> SUFFICES ASSUME NEW p \in begun', Plan[p].type = "parallel", NEW k \in Kids(p)
               PROVE  /\ k \in begun' \/ (Starting(p)' /\ p < here' /\ here' <= k)
                      /\ Starting(p)' /\ p < here' /\ k > here' => k \notin begun'
    BY <1>1 DEF Parallels, InParallel, Kids
  <2>1. k \in DOMAIN Plan /\ k \in Nat /\ p \in DOMAIN Plan /\ p \in Nat /\ Plan[p].last \in Nat
    BY <1>1, Numbers DEF Kids, Types
  <2>2. CASE p = n
    <3>1. n < k  BY <1>1, <2>2, Kin DEF Composites
    <3>2. k \notin begun'
      <4>1. In(k, n)  BY <1>1, <2>2, Kin DEF Composites
      <4> QED  BY <1>1, <1>2, <1>3, <2>1, <3>1, <4>1 DEF Walk, Opened
    <3>3. ASSUME NEW r \in DOMAIN Plan, n <= r, r < n + 1 PROVE r = n  BY <1>1, <1>3, <3>3, Numbers
    <3> QED  BY <1>1, <1>2, <1>3, <1>4, <2>1, <2>2, <3>1, <3>2, <3>3 DEF Starting, StartsAt, In, Call
  <2>3. CASE p # n
    <3>1. p < n + 1 => (In(n, p) <=> In(n + 1, p))
      BY <1>1, <1>3, <1>4, <2>1, Nested
    <3>2. p < n + 1 => p < n  BY <1>3, <2>1, <2>3
    <3>3. ASSUME NEW r \in DOMAIN Plan, p <= r, r < n + 1, In(n + 1, r), Starting(p)
          PROVE  Plan[r].type = "parallel"
      <4>1. In(n, r)  BY <1>1, <1>3, <1>4, <3>3, Nested
      <4>2. r \in Nat /\ r <= n  BY <1>1, <4>1, Numbers DEF In
      <4> QED  BY <1>1, <1>2, <1>3, <3>3, <4>1, <4>2 DEF Starting, StartsAt, here
    <3>4. ASSUME NEW r \in DOMAIN Plan, p <= r, r < n, In(n, r), Starting(p)', p < n
          PROVE  Plan[r].type = "parallel"
      <4>1. r < n + 1 /\ In(n + 1, r)  BY <1>1, <1>3, <1>4, <3>4, Nested, Numbers
      <4> QED  BY <1>1, <1>2, <3>4, <4>1 DEF Starting, StartsAt, Call, In
    <3>5. p < n => (Starting(p) <=> Starting(p)')
      <4>1. p < n /\ Starting(p) => Starting(p)'
        BY <1>1, <1>2, <1>3, <2>1, <3>1, <3>3 DEF Starting, StartsAt, In, Call, here
      <4>2. p < n /\ Starting(p)' => Starting(p)
        BY <1>1, <1>2, <1>3, <2>1, <3>1, <3>4 DEF Starting, StartsAt, In, Call, here
      <4> QED  BY <4>1, <4>2
    <3>6. /\ k \in begun \/ (Starting(p) /\ p < n /\ n <= k)
          /\ Starting(p) /\ p < n => (k > n => k \notin begun)
      BY <1>1, <1>2, <2>3 DEF Walk, Parallels, InParallel
    <3> QED  BY <1>1, <1>2, <1>3, <2>1, <2>3, <3>2, <3>5, <3>6
  <2> QED  BY <2>2, <2>3
<1>10. OnPath'
  <2>1. ASSUME NEW q \in DOMAIN Plan, q < n + 1, In(n + 1, q)
        PROVE  /\ q \in begun' \ done
               /\ Plan[q].type = "series" => \A k \in Kids(q) : In(n + 1, k) => index[q] = k
    <3>1. In(n, q) /\ q \in Nat /\ q <= n  BY <1>1, <1>3, <1>4, <2>1, Nested, Numbers DEF In
    <3>2. CASE q = n  BY <1>1, <1>2, <3>2
    <3>3. CASE q < n
      <4>1. ASSUME NEW k \in Kids(q), In(n + 1, k) PROVE In(n, k)
        <5>1. k \in DOMAIN Plan /\ Plan[k].up = q  BY DEF Kids
        <5>2. k # n + 1  BY <1>3, <1>4, <3>1, <3>3, <5>1
        <5>3. k \in Nat /\ k < n + 1  BY <1>1, <1>3, <4>1, <5>1, <5>2, Numbers DEF In
        <5> QED  BY <1>1, <1>3, <1>4, <4>1, <5>1, <5>3, Nested
      <4> QED  BY <1>1, <1>2, <3>1, <3>3, <4>1 DEF Path
    <3> QED  BY <1>3, <3>1, <3>2, <3>3
  <2>2. call'.op = "start" /\ here' = n + 1  BY <1>1, <1>2 DEF Call
  <2>3. n + 1 \notin begun'  BY <1>1, <1>2, <1>3, <1>5
  <2>4. Path(n + 1)'  BY <1>1, <1>2, <2>1 DEF Path, In, Kids
  <2> QED  BY <2>2, <2>3, <2>4 DEF OnPath
<1> QED  BY <1>6, <1>7, <1>8, <1>9, <1>10 DEF Walk

\* The start() of a kid of a parallel set returns: the next kid is started, or
\* the set's own start() returns.
LEMMA KidStarted ==
    ASSUME Types, Walk, NEW n \in DOMAIN Plan, Started(n), Plan[n].up # 0,
           Plan[Plan[n].up].type = "parallel"
    PROVE  Walk'
<1> DEFINE p == Plan[n].up
<1>1. /\ Plan' = Plan /\ mode \in DOMAIN Tree /\ call = Call("started", n)
      /\ begun' = begun /\ done' = done /\ index' = index /\ mode' = mode
      /\ call' = IF Plan[n].last < Plan[p].last THEN Call("start", Plan[n].last + 1)
                 ELSE Call("started", p)
  BY DEF Plan, Types, Started, Returns
<1>2. n \in begun /\ Path(n) /\ here = n /\ call.op = "started"
  BY <1>1 DEF Walk, OnPath, Call, here
<1>3. /\ p \in DOMAIN Plan /\ p \in begun \ done /\ Path(p) /\ n \in Kids(p)
      /\ p < n /\ n <= Plan[p].last
  BY <1>1, <1>2, PathUp, Parents DEF Kids
<1>4. /\ n \in Nat /\ p \in Nat /\ Plan[n].last \in Nat /\ Plan[p].last \in Nat /\ n <= Plan[n].last
      /\ Plan[n].last <= Plan[p].last
      /\ Plan[n].last < Plan[p].last => Plan[n].last + 1 \in Kids(p)
  BY <1>1, <1>3, Numbers, Kin DEF Composites
<1>5. ASSUME NEW r \in begun, Plan[r].type = "parallel", NEW k \in Kids(r)
      PROVE  /\ r \in DOMAIN Plan /\ r \in Nat /\ k \in DOMAIN Plan /\ k \in Nat
             /\ Plan[r].last \in Nat /\ k <= Plan[r].last /\ Plan[k].up = r
  BY <1>1, <1>5, Numbers, Kin DEF Composites, In, Types
<1>6. ASSUME NEW r \in begun, Plan[r].type = "parallel", NEW k \in Kids(r), k \notin begun
      PROVE  Starting(r) /\ r <= p /\ In(p, r) /\ Plan[n].last < k
  <2>1. Starting(r) /\ r < n /\ n <= k  BY <1>2, <1>6 DEF Walk, Parallels, InParallel
  <2>2. n < k  BY <1>2, <1>4, <1>5, <1>6, <2>1
  <2>3. In(n, r)  BY <1>2, <2>1 DEF Starting, StartsAt, here
  <2>4. In(p, r)  BY <1>1, <1>5, <1>6, <2>1, <2>3, Nested
  <2>5. Plan[n].last < k
    <3> SUFFICES ASSUME k <= Plan[n].last PROVE FALSE  BY <1>4, <1>5, <1>6
    <3>1. In(k, n)  BY <1>4, <1>5, <1>6, <2>2 DEF In
    <3>2. Plan[k].up # 0  BY <1>1, <1>5, <1>6, Numbers
    <3>3. In(r, n)  BY <1>1, <1>5, <1>6, <2>2, <3>1, <3>2, Nested
    <3> QED  BY <1>4, <1>5, <1>6, <2>1, <3>3 DEF In
  <2> QED  BY <2>1, <2>4, <2>5 DEF In
<1>7. CASE Plan[n].last < Plan[p].last
  <2> DEFINE m == Plan[n].last + 1
  <2>1. /\ call' = Call("start", m) /\ m \in Kids(p) /\ m \in DOMAIN Plan /\ Plan[m].up = p
        /\ p < m /\ n < m /\ m \in Nat
    BY <1>1, <1>3, <1>4, <1>7 DEF Kids
  <2>2. ASSUME NEW r \in DOMAIN Plan, r < m
        PROVE  Starting(r)' <=> Starting(r) /\ r < n
    <3>1. r < n /\ In(n, r) <=> In(p, r)  BY <1>1, <1>3, <1>4, Nested
    <3>2. In(m, r) <=> In(p, r)  BY <1>1, <1>3, <1>4, <2>1, <2>2, Nested
    <3>3. \A q \in DOMAIN Plan : q < n /\ In(n, q) <=> q < m /\ In(m, q)
      BY <1>1, <1>3, <1>4, <2>1, Nested
    <3> QED  BY <1>1, <1>2, <2>1, <2>2, <3>1, <3>2, <3>3 DEF Starting, StartsAt, In, Call, here
  <2>3. m \notin begun
    <3>1. Starting(p)
      <4>1. ASSUME NEW q \in DOMAIN Plan, p <= q, q < n, In(n, q) PROVE q = p
        <5>1. In(p, q)  BY <1>1, <1>3, <1>4, <4>1, Nested
        <5> QED  BY <1>1, <1>4, <4>1, <5>1, Numbers DEF In
      <4>2. In(n, p)  BY <1>3, <1>4 DEF In
      <4> QED  BY <1>1, <1>2, <4>1, <4>2 DEF Starting, StartsAt, here
    <3> QED  BY <1>1, <1>2, <1>3, <2>1, <3>1 DEF Walk, Parallels, InParallel
  <2>4. Path(m)  BY <1>3, <2>1, PathDown DEF Composites
  <2>5. Parallels'
    <3> SUFFICES ASSUME NEW r \in begun, Plan[r].type = "parallel", NEW k \in Kids(r)
                 PROVE  /\ k \in begun \/ (Starting(r)' /\ r < m /\ m <= k)
                        /\ Starting(r)' /\ r < m /\ k > m => k \notin begun
      BY <1>1, <2>1 DEF Parallels, InParallel, Kids, Call, here
    <3>1. ASSUME k \notin begun PROVE Starting(r)' /\ r < m /\ m <= k
      <4>1. Starting(r) /\ r <= p /\ Plan[n].last < k  BY <1>6, <3>1
      <4>2. r < n /\ r < m /\ m <= k  BY <1>3, <1>4, <1>5, <2>1, <4>1
      <4> QED  BY <1>5, <2>2, <3>1, <4>1, <4>2
    <3>2. ASSUME Starting(r)' /\ r < m /\ k > m PROVE k \notin begun
      <4>1. Starting(r) /\ r < n /\ k > n  BY <1>4, <1>5, <2>1, <2>2, <3>2
      <4> QED  BY <1>2, <3>2, <4>1 DEF Walk, Parallels, InParallel
    <3> QED  BY <3>1, <3>2
  <2> QED  BY <1>1, <1>2, <2>1, <2>3, <2>4, <2>5, Moves
<1>8. CASE ~ (Plan[n].last < Plan[p].last)
  <2>1. call' = Call("started", p)  BY <1>1, <1>8
  <2>2. ASSUME NEW r \in DOMAIN Plan, r < p
        PROVE  Starting(r)' <=> Starting(r)
    <3>1. \A q \in DOMAIN Plan : q < n /\ In(n, q) <=> In(p, q)
      BY <1>1, <1>3, <1>4, Nested
    <3>2. \A q \in DOMAIN Plan : q < p /\ In(p, q) => q < n
      BY <1>1, <1>3, <1>4, Numbers
    <3>3. \A q \in DOMAIN Plan : In(p, q) => q = p \/ q < p
      BY <1>1, <1>4, Numbers DEF In
    <3>4. Starting(r)' <=> In(p, r) /\ \A q \in DOMAIN Plan :
                              r <= q /\ q < p /\ In(p, q) => Plan[q].type = "parallel"
      BY <1>1, <2>1 DEF Starting, StartsAt, In, Call
    <3>5. Starting(r) <=> In(n, r) /\ \A q \in DOMAIN Plan :
                             r <= q /\ q < n /\ In(n, q) => Plan[q].type = "parallel"
      BY <1>2 DEF Starting, StartsAt, here
    <3>6. r < n /\ r # p /\ r <= p  BY <1>1, <1>3, <1>4, <2>2, Numbers
    <3>7. \A q \in DOMAIN Plan : q < n /\ In(n, q) <=> q = p \/ (q < p /\ In(p, q))
      <4>1. In(p, p)  BY <1>4, <1>3 DEF In
      <4> QED  BY <3>1, <3>3, <4>1
    <3>8. In(n, r) <=> In(p, r)  BY <2>2, <3>6, <3>7
    <3>9. Plan[p].type = "parallel"  OBVIOUS
    <3>10. (\A q \in DOMAIN Plan : r <= q /\ q < p /\ In(p, q) => Plan[q].type = "parallel")
              <=> \A q \in DOMAIN Plan : r <= q /\ q < n /\ In(n, q) => Plan[q].type = "parallel"
      BY <3>7, <3>9
    <3> QED  BY <3>4, <3>5, <3>8, <3>10
  <2>3. Parallels'
    <3> SUFFICES ASSUME NEW r \in begun, Plan[r].type = "parallel", NEW k \in Kids(r)
                 PROVE  /\ k \in begun \/ (Starting(r)' /\ r < p /\ p <= k)
                        /\ Starting(r)' /\ r < p /\ k > p => k \notin begun
      BY <1>1, <2>1 DEF Parallels, InParallel, Kids, Call, here
    <3>1. ASSUME k \notin begun PROVE Starting(r)' /\ r < p /\ p <= k
      <4>1. Starting(r) /\ r <= p /\ Plan[n].last < k  BY <1>6, <3>1
      <4>2. r # p  BY <1>4, <1>5, <1>8, <4>1
      <4>3. r < p /\ p <= k  BY <1>3, <1>4, <1>5, <4>1, <4>2
      <4> QED  BY <1>5, <2>2, <3>1, <4>1, <4>3
    <3>2. ASSUME Starting(r)' /\ r < p /\ k > p PROVE k \notin begun
      <4>1. Starting(r) /\ r < n  BY <1>3, <1>4, <1>5, <2>2, <3>2
      <4>2. In(p, r)  BY <1>1, <1>2, <1>3, <1>5, <4>1, Nested DEF Starting, StartsAt, here
      <4>3. k > n
        <5>1. PICK j \in Kids(r) : In(p, j)  BY <1>1, <1>3, <1>5, <3>2, <4>2, Kin DEF Composites
        <5>2. j \in DOMAIN Plan /\ j \in Nat /\ Plan[j].up = r /\ Plan[j].last \in Nat
          BY <1>1, Numbers DEF Kids
        <5>3. j < k  BY <1>4, <1>5, <3>2, <5>1, <5>2 DEF In
        <5>4. Plan[j].last < k  BY <1>1, <1>5, <5>2, <5>3, Nested
        <5>5. In(n, j)  BY <1>1, <1>3, <1>4, <5>1, <5>2, Nested
        <5> QED  BY <1>4, <1>5, <5>2, <5>4, <5>5 DEF In
      <4> QED  BY <1>2, <3>2, <4>1, <4>3 DEF Walk, Parallels, InParallel
    <3> QED  BY <3>1, <3>2
  <2> QED  BY <1>1, <1>2, <1>3, <2>1, <2>3, Moves
<1> QED  BY <1>7, <1>8

LEMMA WalkRests ==
    ASSUME Walk, UNCHANGED <<mode, walk>>
    PROVE  Walk'
BY DEF Walk, Opened, Closed, Series, InSeries, Parallels, InParallel, Starting, StartsAt,
       OnPath, Path, In, Kids, here, Plan, walk, Call

\* Nothing has begun.
LEMMA FreshTable ==
    ASSUME NEW m \in DOMAIN Tree
    PROVE  /\ 1 \in DOMAIN Tree[m] /\ Len(Tree[m]) \in Nat
           /\ \A k \in DOMAIN Tree[m] : k \in Nat /\ k >= 1
           /\ \A k \in DOMAIN Tree[m] : Tree[m][k].last \in Nat /\ Tree[m][k].last >= 1
BY TreeAssumption DEF IsTree

LEMMA WalkStarts == Init => Types /\ Walk
<1> SUFFICES ASSUME Init PROVE Types /\ Walk  OBVIOUS
<1>1. /\ mode \in DOMAIN Tree /\ begun = {} /\ done = {} /\ index = [n \in DOMAIN Plan |-> 0]
      /\ call = Idle /\ turn = "controller"
  BY DEF Init
<1>2. /\ 1 \in DOMAIN Plan /\ Len(Plan) \in Nat /\ \A k \in DOMAIN Plan : k \in Nat /\ k >= 1
      /\ \A k \in DOMAIN Plan : Plan[k].last \in Nat /\ Plan[k].last >= 1
  BY <1>1, FreshTable DEF Plan
<1>3. Types  BY <1>1, <1>2 DEF Types, Idle, Call, Turns, here
<1>4. Series
  <2> SUFFICES ASSUME NEW s \in DOMAIN Plan PROVE InSeries(s)  BY DEF Series
  <2>1. index[s] = 0 /\ Plan[s].last + 1 # 0  BY <1>1, <1>2
  <2>2. \A k \in Kids(s) : k \in Nat /\ k >= 1  BY <1>2 DEF Kids
  <2> QED  BY <1>1, <2>1, <2>2 DEF InSeries
<1>5. Walk  BY <1>1, <1>4 DEF Walk, Opened, Closed, Parallels, OnPath, Idle, Call
<1> QED  BY <1>3, <1>5

LEMMA WalkDisabled ==
    ASSUME Disable
    PROVE  Types' /\ Walk'
<1>1. /\ mode' \in DOMAIN Tree /\ begun' = {} /\ done' = {} /\ index' = [n \in DOMAIN Plan' |-> 0]
      /\ call' = Idle /\ turn' = "controller" /\ Plan' = Tree[mode']
  BY DEF Disable, Plan
<1>2. /\ 1 \in DOMAIN Plan' /\ Len(Plan') \in Nat /\ \A k \in DOMAIN Plan' : k \in Nat /\ k >= 1
      /\ \A k \in DOMAIN Plan' : Plan'[k].last \in Nat /\ Plan'[k].last >= 1
  BY <1>1, FreshTable
<1>3. Types'  BY <1>1, <1>2 DEF Types, Idle, Call, Turns, here
<1>4. Series'
  <2> SUFFICES ASSUME NEW s \in DOMAIN Plan' PROVE InSeries(s)'  BY DEF Series
  <2>1. index'[s] = 0 /\ Plan'[s].last + 1 # 0  BY <1>1, <1>2
  <2>2. \A k \in Kids(s)' : k \in Nat /\ k >= 1  BY <1>2 DEF Kids
  <2> QED  BY <1>1, <2>1, <2>2 DEF InSeries
<1>5. Walk'  BY <1>1, <1>4 DEF Walk, Opened, Closed, Parallels, OnPath, Idle, Call
<1> QED  BY <1>3, <1>5

LEMMA LeafKids ==
    ASSUME mode \in DOMAIN Tree, NEW n \in DOMAIN Plan, Plan[n].type \notin Composites
    PROVE  Kids(n) = {}
<1> SUFFICES ASSUME NEW k \in Kids(n) PROVE FALSE  OBVIOUS
<1>1. k \in DOMAIN Plan /\ Plan[k].up = n /\ n # 0  BY Numbers DEF Kids
<1> QED  BY <1>1, Parents

\* A turn of the controller begins; a step of its walk.
LEMMA TurnBegins ==
    ASSUME Types, Walk, BeginTurn
    PROVE  Walk'
<1>1. /\ mode' = mode /\ begun' = begun /\ done' = done /\ index' = index /\ call = Idle
      /\ mode \in DOMAIN Tree /\ 1 \in DOMAIN Plan
  BY Table DEF BeginTurn, Types
<1>2. Plan[1].up = 0 /\ Path(1)  BY <1>1, Numbers DEF Path
<1>3. AllBegun  BY <1>1, StartedAll DEF Idle, Call
<1>4. CASE call' = call  BY <1>1, <1>4, WalkRests DEF walk
<1>5. CASE 1 \notin done /\ call' = Call(IF 1 \in begun THEN "run" ELSE "start", 1)
  <2>1. Parallels'  BY <1>1, <1>2, <1>3, <1>5, StaysBegun
  <2>2. CASE 1 \in begun  BY <1>1, <1>2, <1>5, <2>1, <2>2, Moves DEF Idle, Call
  <2>3. CASE 1 \notin begun  BY <1>1, <1>2, <1>5, <2>1, <2>3, Moves DEF Idle, Call
  <2> QED  BY <2>2, <2>3
<1> QED  BY <1>4, <1>5 DEF BeginTurn

LEMMA WalkGoesOn ==
    ASSUME Types, Walk, NEW n \in DOMAIN Plan, Walks(n)
    PROVE  Walk'
<1>1. mode \in DOMAIN Tree  BY DEF Types
<1>2. call = Call("start", n) => /\ n \notin begun /\ Path(n)
  BY DEF Walk, OnPath, Call, here
<1>3. \A op \in {"started", "run", "ran"} : call = Call(op, n) => n \in begun /\ Path(n)
  BY DEF Walk, OnPath, Call, here
<1>4. ASSUME NEW near \in BOOLEAN, StartDispatch(n, near) PROVE Walk'
  BY <1>4, LeafStarts DEF StartDispatch, IsCalled, Ends, Composites
<1>5. ASSUME StartDelay(n) PROVE Walk'
  BY <1>5, LeafStarts DEF StartDelay, IsCalled
<1>6. ASSUME StartSeries(n) PROVE Walk'
  BY <1>6, LeafStarts DEF StartSeries, IsCalled
<1>7. ASSUME StartParallel(n) PROVE Walk'
  BY <1>7, ParallelStarts
<1>8. ASSUME Started(n) PROVE Walk'
  <2>1. call = Call("started", n) /\ mode' = mode /\ begun' = begun /\ here = n
    BY <1>8 DEF Started, Returns, Call, here
  <2>2. CASE Plan[n].up = 0
    <3>1. n = 1 /\ Plan[n].type = "series"  BY <1>1, <2>2, Numbers, Table
    <3>2. n \in begun \ done /\ Path(n)
      BY <1>3, <2>1, <3>1 DEF Walk, OnPath, Call, Composites
    <3>3. AllBegun  BY <2>1, <2>2, StartedAll DEF Call
    <3>4. call' = Call("run", n) /\ done' = done /\ index' = index  BY <1>8, <2>2 DEF Started
    <3>5. Parallels'  BY <2>1, <2>2, <3>3, <3>4, StaysBegun
    <3> QED  BY <2>1, <3>2, <3>4, <3>5, Moves DEF Call
  <2>3. CASE Plan[n].up # 0 /\ Plan[Plan[n].up].type = "parallel"  BY <1>8, <2>3, KidStarted
  <2>4. CASE Plan[n].up # 0 /\ Plan[Plan[n].up].type = "series"
    <3>1. AllBegun  BY <2>1, <2>4, StartedAll DEF Call
    <3>2. /\ Plan[n].up \in DOMAIN Plan /\ Plan[n].up \in begun \ done /\ Path(Plan[n].up)
          /\ index[Plan[n].up] = n
      BY <1>3, <2>1, <2>4, PathUp
    <3>3. CASE n \in done
      <4>1. StartNextAction(Plan[n].up)  BY <1>8, <2>4, <3>3 DEF Started
      <4> QED  BY <2>1, <2>4, <3>1, <3>2, <3>3, <4>1, GoesOn DEF Call
    <3>4. CASE n \notin done
      <4>1. call' = Call("run", n) /\ done' = done /\ index' = index
        BY <1>8, <2>4, <3>4 DEF Started
      <4>2. Parallels'  BY <2>1, <3>1, <4>1, StaysBegun
      <4> QED  BY <1>3, <2>1, <3>4, <4>1, <4>2, Moves DEF Call
    <3> QED  BY <3>3, <3>4
  <2>5. Plan[n].up # 0 => Plan[Plan[n].up].type \in Composites  BY <1>1, Parents
  <2> QED  BY <2>2, <2>3, <2>4, <2>5 DEF Composites
<1>9. ASSUME RunDispatch(n) \/ RunDelay(n) PROVE Walk'
  <2>1. /\ call = Call("run", n) /\ mode' = mode /\ begun' = begun /\ index' = index
        /\ call' = Call("ran", n) /\ (done' = done \/ done' = done \cup {n})
        /\ Plan[n].type \notin Composites
    BY <1>9 DEF RunDispatch, RunDelay, IsCalled, Ends, Composites
  <2>2. AllBegun  BY <2>1, StartedAll DEF Call
  <2>3. Kids(n) = {}  BY <1>1, <2>1, LeafKids
  <2> QED  BY <1>3, <2>1, <2>2, <2>3, NodeRan DEF Call
<1>10. ASSUME RunSeries(n) PROVE Walk'
  <2>1. /\ call = Call("run", n) /\ Plan[n].type = "series" /\ mode' = mode /\ begun' = begun
        /\ call.op = "run"
    BY <1>10 DEF RunSeries, IsCalled, Call
  <2>2. n \in begun \ done /\ Path(n)  BY <1>3, <2>1 DEF Walk, OnPath, Call, here
  <2>3. AllBegun  BY <2>1, StartedAll
  <2>4. InSeries(n)  BY <2>1 DEF Walk, Series
  <2>5. CASE index[n] # 0 /\ index[n] \notin done
    <3>1. call' = Call("run", index[n]) /\ done' = done /\ index' = index
      BY <1>10, <2>5 DEF RunSeries
    <3>2. index[n] \in Kids(n) /\ index[n] \in begun
      BY <2>1, <2>2, <2>4, <2>5 DEF InSeries, Call
    <3>3. index[n] \in DOMAIN Plan  BY <3>2 DEF Kids
    <3>4. Path(index[n])  BY <2>1, <2>2, <3>2, PathDown DEF Composites
    <3>5. Parallels'  BY <2>1, <2>3, <3>1, <3>3, StaysBegun
    <3> QED  BY <2>1, <2>5, <3>1, <3>2, <3>3, <3>4, <3>5, Moves
  <2>6. CASE ~ (index[n] # 0 /\ index[n] \notin done)
    <3>1. StartNextAction(n)  BY <1>10, <2>6 DEF RunSeries
    <3> QED  BY <2>1, <2>2, <2>3, <2>6, <3>1, GoesOn
  <2> QED  BY <2>5, <2>6
<1>11. ASSUME RunParallel(n) PROVE Walk'
  <2>1. /\ call = Call("run", n) /\ Plan[n].type = "parallel" /\ RunFrom(n, n + 1)
        /\ mode' = mode /\ begun' = begun /\ index' = index /\ call.op = "run"
    BY <1>11 DEF RunParallel, IsCalled, Call
  <2>2. n \in begun \ done /\ Path(n)  BY <1>3, <2>1 DEF Walk, OnPath, Call, here
  <2>3. AllBegun  BY <2>1, StartedAll
  <2> QED  BY <2>1, <2>2, <2>3, RunsOn
<1>12. ASSUME Ran(n) PROVE Walk'
  <2>1. /\ call = Call("ran", n) /\ call.op = "ran" /\ mode' = mode /\ begun' = begun /\ index' = index
    BY <1>12 DEF Ran, Returns, Call
  <2>2. AllBegun  BY <2>1, StartedAll
  <2>3. CASE Plan[n].up = 0
    <3>1. call' = Call("none", 1) /\ done' = done  BY <1>12, <2>3 DEF Ran, Idle
    <3>2. 1 \in DOMAIN Plan  BY <1>1, Table
    <3>3. Parallels'  BY <2>1, <2>2, <3>1, <3>2, StaysBegun
    <3> QED  BY <2>1, <3>1, <3>2, <3>3, Moves
  <2>4. CASE Plan[n].up # 0
    <3>1. /\ Plan[n].up \in DOMAIN Plan /\ Plan[n].up \in begun \ done /\ Path(Plan[n].up)
      BY <1>3, <2>1, <2>4, PathUp
    <3>2. CASE Plan[Plan[n].up].type = "parallel"
      <4>1. RunFrom(Plan[n].up, Plan[n].last + 1)  BY <1>12, <2>4, <3>2 DEF Ran
      <4> QED  BY <2>1, <2>2, <3>1, <3>2, <4>1, RunsOn
    <3>3. CASE Plan[Plan[n].up].type # "parallel"
      <4>1. call' = Call("ran", Plan[n].up) /\ done' = done  BY <1>12, <2>4, <3>3 DEF Ran
      <4>2. Parallels'  BY <2>1, <2>2, <3>1, <4>1, StaysBegun
      <4> QED  BY <2>1, <3>1, <4>1, <4>2, Moves
    <3> QED  BY <3>2, <3>3
  <2> QED  BY <2>3, <2>4
<1> QED  BY <1>4, <1>5, <1>6, <1>7, <1>8, <1>9, <1>10, <1>11, <1>12 DEF Walks

LEMMA NextTyped ==
    ASSUME Types, Walk, NEW s \in DOMAIN Plan, Plan[s].type = "series", s \in begun \ done,
           StartNextAction(s)
    PROVE  /\ index' \in [DOMAIN Plan -> 0..Len(Plan) + 1]
           /\ \E op \in {"start", "ran"}, m \in DOMAIN Plan : call' = Call(op, m)
           /\ done' \subseteq begun
<1>1. mode \in DOMAIN Tree  BY DEF Types
<1>2. Plan[s].last <= Len(Plan) /\ Len(Plan) \in Nat /\ Plan[s].last \in Nat
  BY <1>1, Table, Numbers
<1>3. /\ NextOf(s) \in Nat /\ NextOf(s) <= Plan[s].last + 1
      /\ NextOf(s) <= Plan[s].last => NextOf(s) \in Kids(s)
      /\ index' = [index EXCEPT ![s] = NextOf(s)]
      /\ IF NextOf(s) <= Plan[s].last THEN call' = Call("start", NextOf(s)) /\ done' = done
         ELSE call' = Call("ran", s) /\ done' = done \cup {s}
  BY NextKid DEF Ends
<1>4. NextOf(s) \in 0..Len(Plan) + 1  BY <1>2, <1>3
<1>5. NextOf(s) \in Kids(s) => NextOf(s) \in DOMAIN Plan  BY DEF Kids
<1> QED  BY <1>3, <1>4, <1>5 DEF Types

LEMMA RunTyped ==
    ASSUME Types, NEW p \in begun, NEW k, RunFrom(p, k)
    PROVE  /\ \E op \in {"run", "ran"}, m \in DOMAIN Plan : call' = Call(op, m)
           /\ done' \subseteq begun
BY DEF Types, RunFrom, Ends, Kids

LEMMA WalkTyped ==
    ASSUME Types, Walk, NEW n \in DOMAIN Plan, Walks(n)
    PROVE  Types'
<1>1. mode \in DOMAIN Tree  BY DEF Types
<1>2. call.op # "none" /\ turn = "controller" /\ call.n = n
  BY DEF Walks, StartDispatch, StartDelay, StartSeries, StartParallel, Started, RunDispatch, RunDelay,
         RunSeries, RunParallel, Ran, IsCalled, Returns, Call, Types, Idle
<1>3. Plan' = Plan /\ mode' = mode
  BY DEF Walks, StartDispatch, StartDelay, StartSeries, StartParallel, Started, RunDispatch, RunDelay,
         RunSeries, RunParallel, Ran, Plan
<1>4. 1 \in DOMAIN Plan  BY <1>1, Table
<1>5. ASSUME begun' = begun \/ begun' = begun \cup {n}, done' \subseteq begun',
             index' \in [DOMAIN Plan -> 0..Len(Plan) + 1],
             NEW op \in {"start", "started", "run", "ran"}, NEW m \in DOMAIN Plan, call' = Call(op, m),
             turn' = turn
      PROVE  Types'
  BY <1>2, <1>3, <1>5 DEF Types, Call, here
<1>6. ASSUME NEW near \in BOOLEAN, StartDispatch(n, near) PROVE Types'
  <2>1. done' = done \/ done' = done \cup {n}  BY <1>6 DEF StartDispatch, Ends
  <2>2. done' \subseteq begun'  BY <1>6, <2>1 DEF StartDispatch, Types
  <2> QED  BY <1>5, <1>6, <2>2 DEF StartDispatch, Types
<1>7. ASSUME StartDelay(n) \/ StartSeries(n) PROVE Types'
  <2>1. 0 \in 0..Len(Plan) + 1  BY <1>1, Table
  <2>2. index' \in [DOMAIN Plan -> 0..Len(Plan) + 1]
    BY <1>7, <2>1 DEF StartDelay, StartSeries, Types
  <2>3. done' \subseteq begun'  BY <1>7 DEF StartDelay, StartSeries, Types
  <2> QED  BY <1>5, <1>7, <2>2, <2>3 DEF StartDelay, StartSeries
<1>8. ASSUME StartParallel(n) PROVE Types'
  <2>1. n + 1 \in DOMAIN Plan
    BY <1>1, <1>8, Kin DEF StartParallel, IsCalled, Composites, Kids
  <2> QED  BY <1>5, <1>8, <2>1 DEF StartParallel, Types
<1>9. ASSUME RunDispatch(n) \/ RunDelay(n) PROVE Types'
  <2>1. n \in begun  BY <1>9 DEF RunDispatch, RunDelay, IsCalled, Call, Walk, OnPath, here
  <2> QED  BY <1>5, <1>9, <2>1 DEF RunDispatch, RunDelay, Types, Ends
<1>10. ASSUME Started(n) PROVE Types'
  <2>1. n \in begun /\ Path(n)  BY <1>10 DEF Started, Returns, Call, Walk, OnPath, here
  <2>2. CASE Plan[n].up = 0  BY <1>5, <1>10, <2>2 DEF Started, Types
  <2>3. CASE Plan[n].up # 0
    <3>1. /\ Plan[n].up \in DOMAIN Plan /\ Plan[n].up \in begun \ done
          /\ Plan[Plan[n].up].type \in Composites
      BY <1>1, <2>1, <2>3, PathUp, Parents
    <3>2. CASE Plan[Plan[n].up].type = "parallel"
      <4>1. n \in Kids(Plan[n].up)  BY DEF Kids
      <4>2. Plan[n].last < Plan[Plan[n].up].last => Plan[n].last + 1 \in DOMAIN Plan
        BY <1>1, <3>1, <4>1, Kin DEF Kids
      <4>3. \E op \in {"start", "started"}, m \in DOMAIN Plan : call' = Call(op, m)
        BY <1>10, <2>3, <3>1, <3>2, <4>2 DEF Started
      <4> QED  BY <1>5, <1>10, <2>3, <3>2, <4>3 DEF Started, Types
    <3>3. CASE Plan[Plan[n].up].type = "series" /\ n \in done
      <4>1. StartNextAction(Plan[n].up) /\ begun' = begun /\ turn' = turn
        BY <1>10, <2>3, <3>3 DEF Started
      <4>2. /\ index' \in [DOMAIN Plan -> 0..Len(Plan) + 1]
            /\ \E op \in {"start", "ran"}, m \in DOMAIN Plan : call' = Call(op, m)
            /\ done' \subseteq begun
        BY <3>1, <3>3, <4>1, NextTyped
      <4> QED  BY <1>5, <4>1, <4>2
    <3>4. CASE Plan[Plan[n].up].type = "series" /\ n \notin done
      BY <1>5, <1>10, <2>3, <3>4 DEF Started, Types
    <3> QED  BY <3>1, <3>2, <3>3, <3>4 DEF Composites
  <2> QED  BY <2>2, <2>3
<1>11. ASSUME RunSeries(n) PROVE Types'
  <2>1. n \in begun \ done /\ Plan[n].type = "series" /\ begun' = begun /\ turn' = turn /\ InSeries(n)
    BY <1>11 DEF RunSeries, IsCalled, Call, Walk, OnPath, Series, here
  <2>2. CASE index[n] # 0 /\ index[n] \notin done
    <3>1. index[n] \in DOMAIN Plan  BY <2>1, <2>2 DEF InSeries, Kids
    <3> QED  BY <1>5, <1>11, <2>2, <3>1 DEF RunSeries, Types
  <2>3. CASE ~ (index[n] # 0 /\ index[n] \notin done)
    <3>1. StartNextAction(n)  BY <1>11, <2>3 DEF RunSeries
    <3>2. /\ index' \in [DOMAIN Plan -> 0..Len(Plan) + 1]
          /\ \E op \in {"start", "ran"}, m \in DOMAIN Plan : call' = Call(op, m)
          /\ done' \subseteq begun
      BY <2>1, <3>1, NextTyped
    <3> QED  BY <1>5, <2>1, <3>2
  <2> QED  BY <2>2, <2>3
<1>12. ASSUME RunParallel(n) PROVE Types'
  <2>1. n \in begun /\ RunFrom(n, n + 1) /\ begun' = begun /\ turn' = turn /\ index' = index
    BY <1>12 DEF RunParallel, IsCalled, Call, Walk, OnPath, here
  <2>2. /\ \E op \in {"run", "ran"}, m \in DOMAIN Plan : call' = Call(op, m)
        /\ done' \subseteq begun
    BY <2>1, RunTyped
  <2> QED  BY <1>5, <2>1, <2>2 DEF Types
<1>13. ASSUME Ran(n) PROVE Types'
  <2>1. n \in begun /\ Path(n) /\ begun' = begun /\ index' = index
    BY <1>13 DEF Ran, Returns, Call, Walk, OnPath, here
  <2>2. CASE Plan[n].up = 0
    BY <1>2, <1>3, <1>4, <1>13, <2>2 DEF Ran, Types, Idle, Call, here, Turns
  <2>3. CASE Plan[n].up # 0
    <3>1. Plan[n].up \in DOMAIN Plan /\ Plan[n].up \in begun \ done  BY <2>1, <2>3, PathUp
    <3>2. CASE Plan[Plan[n].up].type = "parallel"
      <4>1. RunFrom(Plan[n].up, Plan[n].last + 1) /\ turn' = turn  BY <1>13, <2>3, <3>2 DEF Ran
      <4>2. /\ \E op \in {"run", "ran"}, m \in DOMAIN Plan : call' = Call(op, m)
            /\ done' \subseteq begun
        BY <3>1, <4>1, RunTyped
      <4> QED  BY <1>5, <2>1, <4>1, <4>2 DEF Types
    <3>3. CASE Plan[Plan[n].up].type # "parallel"
      BY <1>5, <1>13, <2>1, <2>3, <3>1, <3>3 DEF Ran, Types
    <3> QED  BY <3>2, <3>3
  <2> QED  BY <2>2, <2>3
<1> QED  BY <1>6, <1>7, <1>8, <1>9, <1>10, <1>11, <1>12, <1>13 DEF Walks
----------------------------------------------------------------------------
(***************************************************************************)
(* Giving an action to a subsystem.                                        *)
(***************************************************************************)
IsWorld(w) ==
    /\ w = [held |-> w.held, finished |-> w.finished, cut |-> w.cut, firing |-> w.firing,
            balls |-> w.balls, stopping |-> w.stopping, near |-> w.near]
    /\ w.held \in [Subs -> Objects]

\* Whatever was cancelled has ended, or is attached again.
CutIsOver(w) == Null \notin w.cut /\ w.cut \subseteq w.finished \cup {w.held[s] : s \in Subs}

LEMMA Cancels ==
    ASSUME NEW w, IsWorld(w), NEW S \in SUBSET Subs
    PROVE  /\ IsWorld(CancelBelow(w, S))
           /\ CancelBelow(w, S).finished = w.finished \cup Working(w, S)
           /\ CancelBelow(w, S).cut = w.cut \cup Working(w, S)
           /\ CancelBelow(w, S).firing = w.firing /\ CancelBelow(w, S).balls = w.balls
           /\ CancelBelow(w, S).stopping = w.stopping /\ CancelBelow(w, S).near = w.near
           /\ \A r \in Subs : \/ CancelBelow(w, S).held[r] = w.held[r]
                              \/ CancelBelow(w, S).held[r] = Null /\ w.held[r] \in Working(w, S)
<1>1. Null \in Objects  BY DEF Null, Objects, Kinds
<1> DEFINE busy == Working(w, S)
<1> HIDE DEF busy
<1>2. CancelBelow(w, S) = [held |-> [s \in Subs |-> IF w.held[s] \in busy THEN Null ELSE w.held[s]],
                           finished |-> w.finished \cup busy, cut |-> w.cut \cup busy,
                           firing |-> w.firing, balls |-> w.balls,
                           stopping |-> w.stopping, near |-> w.near]
  <2>1. CancelBelow(w, S) =
           [w EXCEPT !.finished = @ \cup busy, !.cut = @ \cup busy,
                     !.held = [s \in Subs |-> IF w.held[s] \in busy THEN Null ELSE @[s]]]
    BY DEF CancelBelow, busy
  <2> QED  BY <2>1 DEF IsWorld
<1>3. [s \in Subs |-> IF w.held[s] \in busy THEN Null ELSE w.held[s]] \in [Subs -> Objects]
  BY <1>1 DEF IsWorld
<1>4. IsWorld(CancelBelow(w, S))  BY <1>2, <1>3 DEF IsWorld
<1> QED  BY <1>2, <1>4 DEF busy

\* a is w after o was attached to s.
AttachedTo(w, a, s, o) ==
    /\ IsWorld(a) /\ a.held[s] = o
    /\ \A r \in Subs : r # s =>
          \/ a.held[r] = w.held[r]
          \/ /\ a.held[r] = Null /\ w.held[r] \in a.finished \cup {o}
             /\ w.held[r] \in Working(w, {s} \cup Below(s))
    /\ w.held[s] \in a.finished \cup {o, Null}
    /\ w.finished \subseteq a.finished \cup {o}
    /\ a.cut \subseteq w.cut \cup Working(w, {s} \cup Below(s))
    /\ CutIsOver(w) => CutIsOver(a)
    /\ a.finished \subseteq w.finished \cup Working(w, {s} \cup Below(s)) \cup {o}
    /\ o.kind \notin {"GoTo", "CollectOn", "CollectOff"} => o \notin a.finished
    /\ a.balls = IF o.kind = "SetBalls" THEN Loaded ELSE w.balls
    /\ a.stopping = (w.stopping /\ o.kind # "Emit")
    /\ a.firing = (w.firing /\ o.kind # "Fire")
    /\ a.near = w.near

LEMMA Attaches ==
    ASSUME NEW w, IsWorld(w), NEW s \in Subs, NEW o \in Objects, o # Null
    PROVE  AttachedTo(w, Attach(w, s, o), s, o)
<1> DEFINE S == {s} \cup Below(s)
           v == IF w.held[s] = Null THEN w ELSE CancelBelow(w, S)
<1>1. S \in SUBSET Subs  BY DEF Below, Subs, Under
<1>2. /\ IsWorld(v) /\ w.finished \subseteq v.finished /\ v.firing = w.firing /\ v.balls = w.balls
      /\ v.stopping = w.stopping /\ v.near = w.near
      /\ v.cut \subseteq w.cut \cup Working(w, S)
      /\ v.cut \subseteq w.cut \cup v.finished
      /\ \A r \in Subs : \/ v.held[r] = w.held[r]
                         \/ v.held[r] = Null /\ w.held[r] \in v.finished /\ w.held[r] \in Working(w, S)
      /\ w.held[s] \in v.finished \cup {Null}
      /\ Null \notin w.cut => Null \notin v.cut
  <2>1. CASE w.held[s] = Null  BY <2>1
  <2>2. CASE w.held[s] # Null
    <3>1. v = CancelBelow(w, S)  BY <2>2
    <3>2. Null \notin Working(w, S)  BY DEF Working
    <3>3. w.held[s] \in w.finished \cup Working(w, S)  BY <2>2 DEF Working
    <3> QED  BY <1>1, <3>1, <3>2, <3>3, Cancels
  <2> QED  BY <2>1, <2>2
<1> HIDE DEF v
<1>3. Attach(w, s, o) =
         [held |-> [v.held EXCEPT ![s] = o],
          finished |-> IF v.near /\ o.kind \in {"GoTo", "CollectOn", "CollectOff"}
                       THEN v.finished \cup {o} ELSE v.finished \ {o},
          cut |-> v.cut, firing |-> v.firing /\ o.kind # "Fire",
          balls |-> IF o.kind = "SetBalls" THEN Loaded ELSE v.balls,
          stopping |-> v.stopping /\ o.kind # "Emit", near |-> v.near]
  <2>1. v = [held |-> v.held, finished |-> v.finished, cut |-> v.cut, firing |-> v.firing,
             balls |-> v.balls, stopping |-> v.stopping, near |-> v.near]
    BY <1>2 DEF IsWorld
  <2>2. Attach(w, s, o) =
           [v EXCEPT !.held[s] = o,
                     !.finished = IF w.near /\ o.kind \in {"GoTo", "CollectOn", "CollectOff"}
                                  THEN @ \cup {o} ELSE @ \ {o},
                     !.balls = IF o.kind = "SetBalls" THEN Loaded ELSE @,
                     !.stopping = @ /\ o.kind # "Emit",
                     !.firing = @ /\ o.kind # "Fire"]
    BY DEF Attach, v
  <2> QED  BY ZenonT(60), <1>2, <2>1, <2>2
<1> DEFINE a == Attach(w, s, o)
<1> HIDE DEF a
<1>4. /\ a.held = [v.held EXCEPT ![s] = o] /\ a.cut = v.cut
      /\ v.finished \subseteq a.finished \cup {o} /\ a.finished \subseteq v.finished \cup {o}
      /\ v.held \in [Subs -> Objects]
  BY <1>2, <1>3 DEF a, IsWorld
<1>5. IsWorld(a)  BY <1>3, <1>4 DEF IsWorld, a
<1>6. a.held[s] = o /\ \A r \in Subs : r # s => a.held[r] = v.held[r]  BY <1>4
<1>7. CutIsOver(w) => CutIsOver(a)
  <2> SUFFICES ASSUME CutIsOver(w) PROVE CutIsOver(a)  OBVIOUS
  <2>1. Null \notin a.cut  BY <1>2, <1>4 DEF CutIsOver
  <2>2. ASSUME NEW x \in a.cut PROVE x \in a.finished \cup {a.held[r] : r \in Subs}
    <3>1. x \in w.finished \/ x \in v.finished \/ \E r \in Subs : x = w.held[r]
      BY <1>2, <1>4, <2>2 DEF CutIsOver
    <3>2. CASE x \in v.finished  BY <1>4, <1>6, <3>2
    <3>3. ASSUME NEW r \in Subs, x = w.held[r] PROVE x \in a.finished \cup {a.held[q] : q \in Subs}
      <4>1. CASE r = s  BY <1>2, <1>4, <1>6, <2>1, <2>2, <3>3, <4>1
      <4>2. CASE r # s /\ v.held[r] = w.held[r]  BY <1>6, <3>3, <4>2
      <4>3. CASE w.held[r] \in v.finished  BY <1>4, <1>6, <3>3, <4>3
      <4> QED  BY <1>2, <4>1, <4>2, <4>3
    <3> QED  BY <1>2, <3>1, <3>2, <3>3
  <2> QED  BY <2>1, <2>2 DEF CutIsOver
<1>8. /\ a.balls = IF o.kind = "SetBalls" THEN Loaded ELSE w.balls
      /\ a.stopping = (w.stopping /\ o.kind # "Emit")
      /\ a.firing = (w.firing /\ o.kind # "Fire")
      /\ a.near = w.near
  BY <1>2, <1>3 DEF a
<1>9. /\ a.finished \subseteq w.finished \cup Working(w, {s} \cup Below(s)) \cup {o}
      /\ o.kind \notin {"GoTo", "CollectOn", "CollectOff"} => o \notin a.finished
  <2>1. v.finished \subseteq w.finished \cup Working(w, S)
    BY <1>1, Cancels DEF v
  <2>2. o.kind \notin {"GoTo", "CollectOn", "CollectOff"} => a.finished = v.finished \ {o}
    BY <1>3 DEF a
  <2> QED  BY <1>4, <2>1, <2>2
<1>10. AttachedTo(w, a, s, o)  BY <1>2, <1>4, <1>5, <1>6, <1>7, <1>8, <1>9 DEF AttachedTo
<1> QED  BY <1>10 DEF a

\* v is w after action o, and the actions that it brings along, were given to s.
GivenBy(w, v, s, o) ==
    /\ IsWorld(v) /\ v.held[s] = o
    /\ \A r \in Subs : r # s =>
          \/ v.held[r] \in {w.held[r], Null}
          \/ s = "manip" /\ v.held[r].at = o.at /\ v.held[r].kind \notin Acts("manip")
    /\ s = "conveyor" \/ v.held["conveyor"].kind \in {w.held["conveyor"].kind, "none", "Receive", "Stop"}
    /\ \A x \in w.finished : x.at = o.at \/ x \in v.finished
    /\ \A x \in v.cut :
          \/ x \in w.cut \/ (x.at = o.at /\ x # o)
          \/ x # Null /\ x \notin w.finished /\ \E r \in {s} \cup Below(s) : x = w.held[r]
    /\ CutIsOver(w) => CutIsOver(v)
    /\ v.balls \in {w.balls, Loaded}
    /\ w.stopping \in BOOLEAN => v.stopping \in BOOLEAN
    /\ w.firing \in BOOLEAN => v.firing \in BOOLEAN

LEMMA GivesOwn ==
    ASSUME NEW w, IsWorld(w), NEW s \in Subs, NEW o \in Objects, o # Null
    PROVE  GivenBy(w, Attach(w, s, o), s, o)
<1> DEFINE v == Attach(w, s, o)
<1>0. AttachedTo(w, v, s, o)  BY Attaches
<1> HIDE DEF v
<1>1. s = "conveyor" \/ v.held["conveyor"].kind \in {w.held["conveyor"].kind, "none"}
  <2>1. "conveyor" \in Subs  BY DEF Subs, Under
  <2> QED  BY <1>0, <2>1 DEF AttachedTo, Null
<1>2. \A x \in w.finished : x.at = o.at \/ x \in v.finished  BY <1>0 DEF AttachedTo
<1>3. ASSUME NEW x \in v.cut
      PROVE  \/ x \in w.cut \/ (x.at = o.at /\ x # o)
             \/ x # Null /\ x \notin w.finished /\ \E r \in {s} \cup Below(s) : x = w.held[r]
  <2>1. x \in w.cut \/ x \in Working(w, {s} \cup Below(s))  BY <1>0 DEF AttachedTo
  <2> QED  BY <2>1 DEF Working
<1>4. \A r \in Subs : r # s => v.held[r] \in {w.held[r], Null}  BY <1>0 DEF AttachedTo
<1>5. /\ v.balls \in {w.balls, Loaded}
      /\ w.stopping \in BOOLEAN => v.stopping \in BOOLEAN
      /\ w.firing \in BOOLEAN => v.firing \in BOOLEAN
  <2>1. /\ v.balls = IF o.kind = "SetBalls" THEN Loaded ELSE w.balls
        /\ v.stopping = (w.stopping /\ o.kind # "Emit")
        /\ v.firing = (w.firing /\ o.kind # "Fire")
    BY <1>0 DEF AttachedTo
  <2> QED  BY <2>1
<1>6. IsWorld(v) /\ v.held[s] = o /\ (CutIsOver(w) => CutIsOver(v))  BY <1>0 DEF AttachedTo
<1>7. GivenBy(w, v, s, o)  BY <1>1, <1>2, <1>3, <1>4, <1>5, <1>6 DEF GivenBy
<1> QED  BY <1>7 DEF v

LEMMA GivesPart ==
    ASSUME NEW w, NEW v, NEW o \in Objects, o.at # 0, GivenBy(w, v, "manip", o), o.kind \in Acts("manip"),
           \A r \in Subs : w.held[r].at # o.at,
           NEW r \in Under, NEW k \in {"CollectOn", "CollectOff", "Receive", "Stop", "Velocity"},
           r = "conveyor" => k \in {"Receive", "Stop"}
    PROVE  GivenBy(w, Attach(v, r, [at |-> o.at, kind |-> k]), "manip", o)
<1> DEFINE p == [at |-> o.at, kind |-> k]
           a == Attach(v, r, p)
<1>1. /\ p \in Objects /\ p # Null /\ p.at = o.at /\ p.kind = k /\ k \notin Acts("manip") /\ p # o
      /\ r \in Subs /\ r # "manip" /\ "manip" \in Subs /\ "conveyor" \in Subs /\ Below(r) = {}
      /\ r \in Below("manip") /\ k # "SetBalls"
  BY DEF Objects, Kinds, Null, Acts, Under, Subs, Below
<1>2. IsWorld(v)  BY DEF GivenBy
<1> HIDE DEF p
<1>0. AttachedTo(v, a, r, p)  BY <1>1, <1>2, Attaches
<1> HIDE DEF a
<1>3. /\ IsWorld(a) /\ a.held[r] = p
      /\ \A q \in Subs : q # r => \/ a.held[q] = v.held[q]
                                  \/ a.held[q] = Null /\ v.held[q] \in Working(v, {r})
      /\ v.finished \subseteq a.finished \cup {p}
      /\ a.cut \subseteq v.cut \cup Working(v, {r})
      /\ CutIsOver(v) => CutIsOver(a)
      /\ a.balls = v.balls
      /\ a.stopping = (v.stopping /\ p.kind # "Emit")
      /\ a.firing = (v.firing /\ p.kind # "Fire")
  BY <1>0, <1>1 DEF AttachedTo
<1>4. v.held["manip"] = o  BY DEF GivenBy
<1>5. /\ v.held[r] \in {w.held[r], Null} \/ (v.held[r].at = o.at /\ v.held[r].kind \notin Acts("manip"))
      /\ v.held[r] # o
  BY <1>1, <1>4 DEF GivenBy, Null
<1>6. a.held["manip"] = o
  <2>1. v.held["manip"] \notin Working(v, {r})  BY <1>4, <1>5 DEF Working
  <2> QED  BY <1>1, <1>3, <1>4, <2>1
<1>7. \A q \in Subs : q # "manip" =>
         \/ a.held[q] \in {w.held[q], Null}
         \/ a.held[q].at = o.at /\ a.held[q].kind \notin Acts("manip")
  BY <1>1, <1>3 DEF GivenBy
<1>8. a.held["conveyor"].kind \in {w.held["conveyor"].kind, "none", "Receive", "Stop"}
  <2>1. CASE r = "conveyor"  BY <1>1, <1>3, <2>1
  <2>2. CASE r # "conveyor"  BY <1>1, <1>3, <2>2 DEF GivenBy, Null
  <2> QED  BY <2>1, <2>2
<1>9. \A x \in w.finished : x.at = o.at \/ x \in a.finished
  BY <1>1, <1>3 DEF GivenBy
<1>10. ASSUME NEW x \in a.cut
       PROVE  \/ x \in w.cut \/ (x.at = o.at /\ x # o)
              \/ x # Null /\ x \notin w.finished /\ \E q \in {"manip"} \cup Below("manip") : x = w.held[q]
  <2>1. CASE x \in v.cut  BY <2>1 DEF GivenBy
  <2>2. CASE x \in Working(v, {r})
    <3>1. x = v.held[r] /\ x \notin v.finished /\ x # Null  BY <2>2 DEF Working
    <3>2. x = w.held[r] \/ (x.at = o.at /\ x # o)  BY <1>5, <3>1
    <3>3. x \in w.finished => x.at = o.at  BY <3>1 DEF GivenBy
    <3> QED  BY <1>1, <3>1, <3>2, <3>3
  <2> QED  BY <1>3, <2>1, <2>2
<1>11. /\ CutIsOver(w) => CutIsOver(a)
       /\ a.balls \in {w.balls, Loaded}
       /\ w.stopping \in BOOLEAN => a.stopping \in BOOLEAN
       /\ w.firing \in BOOLEAN => a.firing \in BOOLEAN
  BY <1>3 DEF GivenBy
<1>12. GivenBy(w, a, "manip", o)
  BY <1>3, <1>6, <1>7, <1>8, <1>9, <1>10, <1>11 DEF GivenBy
<1> QED  BY <1>12 DEF a, p

LEMMA Gives ==
    ASSUME NEW w, IsWorld(w), NEW s \in Subs, NEW o \in Objects, o.at # 0, o.kind \in Acts(s),
           \A r \in Subs : w.held[r].at # o.at
    PROVE  GivenBy(w, SetAction(w, s, o), s, o)
<1> DEFINE v == Attach(w, s, o)
           Part(kind) == [at |-> o.at, kind |-> kind]
<1>1. GivenBy(w, v, s, o)  BY GivesOwn DEF Null
<1>2. o.kind \in {"StartCollect", "StopCollect", "Fire"} => s = "manip"
  BY DEF Acts, Subs, Under
<1> HIDE DEF v
<1>3. CASE o.kind = "StartCollect"
  <2>1. GivenBy(w, Attach(v, "intake", Part("CollectOn")), s, o)
    BY <1>1, <1>2, <1>3, GivesPart DEF Under
  <2>2. GivenBy(w, Attach(Attach(v, "intake", Part("CollectOn")), "conveyor", Part("Receive")), s, o)
    BY <1>2, <1>3, <2>1, GivesPart DEF Under
  <2> QED  BY <1>3, <2>2 DEF SetAction, v
<1>4. CASE o.kind = "StopCollect"
  <2>1. GivenBy(w, Attach(v, "intake", Part("CollectOff")), s, o)
    BY <1>1, <1>2, <1>4, GivesPart DEF Under
  <2>2. GivenBy(w, Attach(Attach(v, "intake", Part("CollectOff")), "conveyor", Part("Stop")), s, o)
    BY <1>2, <1>4, <2>1, GivesPart DEF Under
  <2> QED  BY <1>4, <2>2 DEF SetAction, v
<1>5. CASE o.kind = "Fire"
  <2>1. GivenBy(w, Attach(v, "shooter", Part("Velocity")), s, o)
    BY <1>1, <1>2, <1>5, GivesPart DEF Under
  <2> QED  BY <1>5, <2>1 DEF SetAction, v
<1>6. CASE o.kind \notin {"StartCollect", "StopCollect", "Fire"}
  BY <1>1, <1>6 DEF SetAction, v
<1> QED  BY <1>3, <1>4, <1>5, <1>6

\* What StartDispatch does to the objects, in terms of the variables.
LEMMA Dispatched ==
    ASSUME Types, Walk, Attached, NEW n \in DOMAIN Plan, NEW near \in BOOLEAN, StartDispatch(n, near)
    PROVE  /\ n \in Dispatches(Plan) /\ n \notin begun /\ n # 0 /\ begun' = begun \cup {n} /\ mode' = mode
           /\ done' = done \/ (done' = done \cup {n} /\ ~Plan[n].wait)
           /\ Plan[n].sub \in Subs /\ Plan[n].act \in Acts(Plan[n].sub)
           /\ held' \in [Subs -> Objects] /\ held'[Plan[n].sub] = Object(n)
           /\ \A r \in Subs : r # Plan[n].sub =>
                 \/ held'[r] \in {held[r], Null}
                 \/ Plan[n].sub = "manip" /\ held'[r].at = n /\ held'[r].kind \notin Acts("manip")
           /\ \/ Plan[n].sub = "conveyor"
              \/ held'["conveyor"].kind \in {held["conveyor"].kind, "none", "Receive", "Stop"}
           /\ \A x \in finished : x.at = n \/ x \in finished'
           /\ \A x \in cut' :
                 \/ x \in cut \/ (x.at = n /\ x # Object(n))
                 \/ /\ x # Null /\ x \notin finished
                    /\ \E r \in {Plan[n].sub} \cup Below(Plan[n].sub) : x = held[r]
           /\ CutIsOver(World(near)) => CutIsOver(World(near))'
           /\ balls' \in {balls, Loaded} /\ staged' = staged /\ collecting' = collecting
           /\ (stopping \in BOOLEAN => stopping' \in BOOLEAN) /\ (firing \in BOOLEAN => firing' \in BOOLEAN)
<1> DEFINE w == World(near)
           o == Object(n)
           v == SetAction(w, Plan[n].sub, o)
<1>1. mode \in DOMAIN Tree  BY DEF Types
<1>2. n \in Dispatches(Plan) /\ n \notin begun
  BY DEF StartDispatch, IsCalled, Call, Dispatches, Walk, OnPath, here
<1>3. n \in Nat /\ n >= 1  BY <1>1, Numbers
<1>4. Plan[n].sub \in Subs /\ Plan[n].act \in Acts(Plan[n].sub)
  BY <1>1, <1>2, TreeAssumption DEF IsTree, IsNode, Dispatches, Plan
<1>5. o \in Objects /\ o.at = n /\ o.kind = Plan[n].act
  <2>1. Plan[n].act \in Kinds  BY <1>4 DEF Acts, Kinds, Subs, Under
  <2> QED  BY <1>3, <2>1 DEF Object, Objects
<1>6. /\ w.held = held /\ w.finished = finished /\ w.cut = cut /\ w.balls = balls
      /\ w.stopping = stopping /\ w.firing = firing
  BY DEF World
<1>7. IsWorld(w)  BY DEF IsWorld, World, Attached
<1>8. \A r \in Subs : w.held[r].at # n  BY <1>2, <1>3, <1>6 DEF Attached, Null
<1>9. GivenBy(w, v, Plan[n].sub, o)
  <2>1. o.at # 0 /\ o.kind \in Acts(Plan[n].sub) /\ \A r \in Subs : w.held[r].at # o.at
    BY <1>3, <1>4, <1>5, <1>8
  <2> HIDE DEF w, o
  <2>2. o \in Objects /\ Plan[n].sub \in Subs /\ IsWorld(w)  BY <1>4, <1>5, <1>7
  <2> QED  BY <2>1, <2>2, Gives
<1>10. /\ held' = v.held /\ finished' = v.finished /\ cut' = v.cut
       /\ balls' = v.balls /\ stopping' = v.stopping /\ firing' = v.firing
       /\ staged' = staged /\ collecting' = collecting /\ begun' = begun \cup {n} /\ mode' = mode
       /\ done' = done \/ (done' = done \cup {n} /\ ~Plan[n].wait)
  BY DEF StartDispatch, Become, Ends
<1> HIDE DEF v
<1>11. CutIsOver(World(near)) => CutIsOver(World(near))'
  <2>1. CutIsOver(w) => CutIsOver(v)  BY <1>9 DEF GivenBy
  <2> QED  BY <2>1, <1>10 DEF CutIsOver, World
<1> HIDE DEF w
<1>12. held' \in [Subs -> Objects]  BY <1>9, <1>10 DEF GivenBy, IsWorld
<1>13. /\ held'[Plan[n].sub] = o
       /\ \A r \in Subs : r # Plan[n].sub =>
                 \/ held'[r] \in {held[r], Null}
                 \/ Plan[n].sub = "manip" /\ held'[r].at = n /\ held'[r].kind \notin Acts("manip")
       /\ \/ Plan[n].sub = "conveyor"
          \/ held'["conveyor"].kind \in {held["conveyor"].kind, "none", "Receive", "Stop"}
       /\ \A x \in finished : x.at = n \/ x \in finished'
       /\ \A x \in cut' :
                 \/ x \in cut \/ (x.at = n /\ x # o)
                 \/ /\ x # Null /\ x \notin finished
                    /\ \E r \in {Plan[n].sub} \cup Below(Plan[n].sub) : x = held[r]
       /\ balls' \in {balls, Loaded}
       /\ (stopping \in BOOLEAN => stopping' \in BOOLEAN) /\ (firing \in BOOLEAN => firing' \in BOOLEAN)
  <2> HIDE DEF o
  <2> QED  BY <1>5, <1>6, <1>9, <1>10 DEF GivenBy
<1> QED  BY <1>2, <1>3, <1>4, <1>10, <1>11, <1>12, <1>13

\* What is attached keeps being given by somebody.
LEMMA DispatchKeeps ==
    ASSUME Walked, NEW n \in DOMAIN Plan, NEW near \in BOOLEAN, StartDispatch(n, near)
    PROVE  Attached' /\ Waited'
<1> USE DEF Walked
<1>1. /\ n \in Dispatches(Plan) /\ n \notin begun /\ n # 0 /\ begun' = begun \cup {n} /\ mode' = mode
      /\ done' = done \/ (done' = done \cup {n} /\ ~Plan[n].wait)
      /\ Plan[n].sub \in Subs /\ Plan[n].act \in Acts(Plan[n].sub)
      /\ held' \in [Subs -> Objects] /\ held'[Plan[n].sub] = Object(n)
      /\ \A r \in Subs : r # Plan[n].sub =>
            \/ held'[r] \in {held[r], Null}
            \/ Plan[n].sub = "manip" /\ held'[r].at = n /\ held'[r].kind \notin Acts("manip")
      /\ \A x \in finished : x.at = n \/ x \in finished'
  BY Dispatched
<1>2. Plan' = Plan  BY <1>1 DEF Plan
<1>3. \A d : Object(d)' = Object(d) /\ Object(d).at = d /\ Object(d).kind = Plan[d].act  BY <1>2 DEF Object
<1>4. ASSUME NEW r \in Subs, held'[r] # Null
      PROVE  /\ held'[r].at \in Dispatches(Plan) \cap begun'
             /\ held'[r] = Object(held'[r].at) => Plan[held'[r].at].sub = r
  <2>1. CASE r = Plan[n].sub  BY <1>1, <1>3, <2>1
  <2>2. CASE held'[r] = held[r]  BY <1>1, <1>4, <2>2 DEF Attached
  <2>3. CASE Plan[n].sub = "manip" /\ held'[r].at = n /\ held'[r].kind \notin Acts("manip")
    BY <1>1, <1>3, <2>3
  <2> QED  BY <1>1, <1>4, <2>1, <2>2, <2>3
<1>5. held'["manip"] # Null => held'["manip"] = Object(held'["manip"].at)
  <2>1. "manip" \in Subs  BY DEF Subs
  <2>2. CASE Plan[n].sub = "manip"  BY <1>1, <1>3, <2>2
  <2>3. CASE Plan[n].sub # "manip"  BY <1>1, <2>1, <2>3 DEF Attached
  <2> QED  BY <2>2, <2>3
<1>6. Attached'  BY <1>1, <1>2, <1>3, <1>4, <1>5 DEF Attached
<1>7. Waited'
  <2> SUFFICES ASSUME NEW d \in Dispatches(Plan), d \in done', Plan[d].wait PROVE Object(d) \in finished'
    BY <1>2, <1>3 DEF Waited
  <2>1. d \in done /\ d # n  BY <1>1 DEF Types
  <2>2. Object(d) \in finished  BY <2>1 DEF Waited
  <2> QED  BY <1>1, <1>3, <2>1, <2>2
<1> QED  BY <1>6, <1>7

\* What a turn of the manipulator makes of the objects.
ManipLeaves(v) ==
    /\ v.held \in [Subs -> Objects]
    /\ \A r \in Subs :
          \/ v.held[r] \in {held[r], Null}
          \/ /\ r = "conveyor" /\ held["manip"] # Null /\ held["manip"].kind = "Fire"
             /\ v.held[r] = [at |-> held["manip"].at, kind |-> "Emit"]
    /\ held["manip"] \in finished => v.held["manip"] = Null
    /\ \A x \in finished : x.kind = "Emit" \/ x \in v.finished
    /\ \A x \in v.cut :
          \/ x \in cut
          \/ x # Null /\ x \notin finished /\ held["manip"] # Null /\ \E r \in Under : x = held[r]
    /\ CutIsOver(World(FALSE)) => CutIsOver(v)
    /\ v.balls = balls
    /\ stopping \in BOOLEAN => v.stopping \in BOOLEAN
    /\ firing \in BOOLEAN => v.firing \in BOOLEAN

\* The manipulator goes on, and perhaps it or what it gave away ends.
LEMMA ManipGoesOn ==
    ASSUME Attached, Works("manip"), NEW v, v.held = held, v.cut = cut, finished \subseteq v.finished,
           v.balls = balls, v.stopping \in BOOLEAN \/ v.stopping = stopping,
           v.firing \in BOOLEAN \/ v.firing = firing
    PROVE  ManipLeaves(v)
<1>1. held \in [Subs -> Objects] /\ held["manip"] \notin finished /\ held["manip"] # Null
  BY DEF Attached, Works
<1>2. CutIsOver(World(FALSE)) => CutIsOver(v)  BY DEF CutIsOver, World
<1> QED  BY <1>1, <1>2 DEF ManipLeaves

LEMMA ManipFires ==
    ASSUME Attached, Works("manip"), held["manip"].kind = "Fire"
    PROVE  ManipLeaves(FireRuns(World(FALSE), held["manip"]))
<1> DEFINE w == World(FALSE)
           o == held["manip"]
           out  == w.balls = 0 /\ (firing => ~Works("conveyor"))
           stop == IF out THEN [w EXCEPT !.finished = @ \cup {o} \cup OwnOf(o)] ELSE w
           e == [at |-> o.at, kind |-> "Emit"]
<1>1. /\ IsWorld(w) /\ w.held = held /\ w.finished = finished /\ w.cut = cut /\ w.balls = balls
      /\ w.stopping = stopping /\ w.firing = firing
  BY DEF IsWorld, World, Attached
<1>2. /\ stop.held = held /\ stop.cut = cut /\ finished \subseteq stop.finished /\ stop.balls = balls
      /\ stop.stopping = stopping /\ stop.firing = firing
      /\ stop = [held |-> stop.held, finished |-> stop.finished, cut |-> stop.cut, firing |-> stop.firing,
                 balls |-> stop.balls, stopping |-> stop.stopping, near |-> stop.near]
  BY DEF World
<1>3. /\ "manip" \in Subs /\ "conveyor" \in Subs /\ "conveyor" # "manip" /\ held \in [Subs -> Objects]
      /\ o \notin finished /\ o # Null /\ o \in Objects
      /\ Below("conveyor") = {}
  BY DEF Subs, Under, Attached, Works, Below
<1>4. e \in Objects /\ e # Null /\ e.kind = "Emit"  BY <1>3 DEF Objects, Kinds, Null
<1>5. CASE firing /\ aim = "lost"
  <2> DEFINE asked == Works("conveyor") /\ held["conveyor"].kind = "Emit"
             v == [stop EXCEPT !.firing = FALSE, !.stopping = @ \/ asked]
  <2> HIDE DEF stop, asked
  <2>1. /\ v.held = held /\ v.cut = cut /\ finished \subseteq v.finished /\ v.balls = balls
        /\ v.firing = FALSE
    BY <1>2
  <2>2. v.stopping \in BOOLEAN \/ v.stopping = stopping
    <3>1. v.stopping = (stop.stopping \/ asked)  BY <1>2
    <3> QED  BY <3>1
  <2>3. ManipLeaves(v)
    <3> HIDE DEF v
    <3> QED  BY <2>1, <2>2, ManipGoesOn
  <2> QED  BY <1>5, <2>3 DEF FireRuns, stop, asked
<1>6. CASE firing /\ aim # "lost"
  <2>1. ManipLeaves(stop)
    <3> HIDE DEF stop
    <3> QED  BY <1>2, ManipGoesOn
  <2> QED  BY <1>6, <2>1 DEF FireRuns
<1>7. CASE ~firing /\ ~(~out /\ aim = "ready" /\ ~Works("conveyor"))
  <2>1. ManipLeaves(stop)
    <3> HIDE DEF stop
    <3> QED  BY <1>2, ManipGoesOn
  <2> QED  BY <1>7, <2>1 DEF FireRuns
<1>8. CASE ~firing /\ ~out /\ aim = "ready" /\ ~Works("conveyor")
  <2> DEFINE a == Attach(w, "conveyor", e)
             v == [a EXCEPT !.firing = TRUE]
  <2>0. w.held["conveyor"] \notin w.finished => w.held["conveyor"] = Null  BY <1>1, <1>8 DEF Works
  <2> HIDE DEF w, e
  <2>1. AttachedTo(w, a, "conveyor", e)  BY <1>1, <1>3, <1>4, Attaches
  <2> HIDE DEF a
  <2>2. /\ IsWorld(a) /\ a.held["conveyor"] = e
        /\ \A r \in Subs : r # "conveyor" => a.held[r] \in {w.held[r], Null}
        /\ w.finished \subseteq a.finished \cup {e}
        /\ a.cut \subseteq w.cut \cup Working(w, {"conveyor"} \cup Below("conveyor"))
        /\ CutIsOver(w) => CutIsOver(a)
        /\ a.balls = w.balls /\ a.stopping = (w.stopping /\ e.kind # "Emit")
    BY <1>4, <2>1 DEF AttachedTo
  <2>3. Working(w, {"conveyor"} \cup Below("conveyor")) = {}  BY <1>3, <2>0 DEF Working
  <2>4. v.held = a.held /\ v.finished = a.finished /\ v.cut = a.cut /\ v.balls = a.balls
        /\ v.stopping = a.stopping /\ v.firing = TRUE
    BY <2>2 DEF IsWorld
  <2> HIDE DEF v
  <2>5. CutIsOver(w) => CutIsOver(v)  BY <2>2, <2>4 DEF CutIsOver
  <2>6. \A x \in v.cut : x \in cut  BY <1>1, <2>2, <2>3, <2>4
  <2>7. ManipLeaves(v)
    <3>1. v.held \in [Subs -> Objects]  BY <2>2, <2>4 DEF IsWorld
    <3>2. \A x \in finished : x.kind = "Emit" \/ x \in v.finished  BY <1>1, <1>4, <2>2, <2>4
    <3>3. \A r \in Subs :
             \/ v.held[r] \in {held[r], Null}
             \/ /\ r = "conveyor" /\ o # Null /\ o.kind = "Fire"
                /\ v.held[r] = [at |-> o.at, kind |-> "Emit"]
      BY <1>1, <1>3, <2>2, <2>4 DEF e
    <3>4. v.stopping \in BOOLEAN /\ v.firing \in BOOLEAN /\ v.balls = balls  BY <1>1, <2>2, <2>4
    <3>5. CutIsOver(World(FALSE)) => CutIsOver(v)  BY <2>5 DEF w
    <3> QED  BY <1>3, <2>6, <3>1, <3>2, <3>3, <3>4, <3>5 DEF ManipLeaves
  <2> QED  BY <1>8, <2>7 DEF FireRuns, v, a, w, e
<1> QED  BY <1>5, <1>6, <1>7, <1>8

LEMMA ManipRan ==
    ASSUME Types, Attached, ManipRuns
    PROVE  /\ ManipLeaves([held |-> held', finished |-> finished', cut |-> cut', firing |-> firing',
                           balls |-> balls', stopping |-> stopping'])
           /\ mode' = mode /\ begun' = begun /\ done' = done /\ index' = index /\ call' = call
           /\ staged' = staged /\ collecting' = collecting /\ late' = late
           /\ turn' = "controller" /\ aim' = "wait"
<1> DEFINE w == World(FALSE)
           o == held["manip"]
           ends(S) == \A s \in S : ~Works(s)
           over(S) == IF ends(S) THEN [w EXCEPT !.finished = @ \cup {o}] ELSE w
           after == [held |-> held', finished |-> finished', cut |-> cut', firing |-> firing',
                     balls |-> balls', stopping |-> stopping']
<1> SUFFICES ManipLeaves(after)  BY DEF ManipRuns, walk
<1>1. /\ IsWorld(w) /\ w.held = held /\ w.finished = finished /\ w.cut = cut /\ w.balls = balls
      /\ w.stopping = stopping /\ w.firing = firing
  BY DEF IsWorld, World, Attached
<1>2. ASSUME NEW v, Become(v), ManipLeaves(v) PROVE ManipLeaves(after)
  <2>1. /\ after.held = v.held /\ after.finished = v.finished /\ after.cut = v.cut
        /\ after.firing = v.firing /\ after.balls = v.balls /\ after.stopping = v.stopping
    BY <1>2 DEF Become
  <2>2. CutIsOver(v) => CutIsOver(after)  BY <2>1 DEF CutIsOver
  <2> HIDE DEF after
  <2> QED  BY <1>2, <2>1, <2>2 DEF ManipLeaves
<1>3. held \in [Subs -> Objects] /\ "manip" \in Subs /\ Under \subseteq Subs  BY DEF Attached, Subs, Under
<1>4. CASE o = Null
  <2>1. Become(w)  BY <1>4 DEF ManipRuns
  <2>2. ManipLeaves(w)
    <3>1. \A r \in Subs : w.held[r] \in {held[r], Null}  BY <1>1
    <3> HIDE DEF w
    <3>2. CutIsOver(World(FALSE)) => CutIsOver(w)  BY DEF w
    <3> QED  BY <1>1, <1>3, <1>4, <3>1, <3>2 DEF ManipLeaves
  <2> QED  BY <1>2, <2>1, <2>2
<1>5. CASE o # Null /\ ~Works("manip")
  <2> DEFINE c == CancelBelow(w, Under)
             v == [c EXCEPT !.held["manip"] = Null]
  <2>1. Become(v)  BY <1>5 DEF ManipRuns
  <2> HIDE DEF w
  <2>2. /\ IsWorld(c) /\ c.finished = w.finished \cup Working(w, Under)
        /\ c.cut = w.cut \cup Working(w, Under)
        /\ c.firing = w.firing /\ c.balls = w.balls /\ c.stopping = w.stopping
        /\ \A r \in Subs : \/ c.held[r] = w.held[r]
                           \/ c.held[r] = Null /\ w.held[r] \in Working(w, Under)
    BY <1>1, <1>3, Cancels
  <2> HIDE DEF c
  <2>3. /\ v.held = [c.held EXCEPT !["manip"] = Null] /\ v.finished = c.finished /\ v.cut = c.cut
        /\ v.firing = c.firing /\ v.balls = c.balls /\ v.stopping = c.stopping
    BY <2>2 DEF IsWorld
  <2>4. Null \in Objects /\ c.held \in [Subs -> Objects]  BY <2>2 DEF Null, Objects, Kinds, IsWorld
  <2>5. /\ v.held \in [Subs -> Objects] /\ v.held["manip"] = Null
        /\ \A r \in Subs : r # "manip" => v.held[r] = c.held[r]
    BY <1>3, <2>3, <2>4
  <2> HIDE DEF v
  <2>6. o \in finished  BY <1>5 DEF Works
  <2>7. ASSUME CutIsOver(w) PROVE CutIsOver(v)
    <3>1. Null \notin v.cut  BY <2>2, <2>3, <2>7 DEF CutIsOver, Working
    <3>2. ASSUME NEW x \in v.cut, x \notin v.finished PROVE \E r \in Subs : x = v.held[r]
      <4>1. PICK r \in Subs : x = w.held[r]  BY <2>2, <2>3, <2>7, <3>2 DEF CutIsOver
      <4>2. x # o  BY <1>1, <2>2, <2>3, <2>6, <3>2
      <4>3. r # "manip"  BY <1>1, <4>1, <4>2
      <4>4. c.held[r] = w.held[r]  BY <2>2, <2>3, <3>2, <4>1
      <4> QED  BY <2>5, <4>1, <4>3, <4>4
    <3> QED  BY <3>1, <3>2 DEF CutIsOver
  <2>8. \A x \in Working(w, Under) : x # Null /\ x \notin finished /\ \E r \in Under : x = held[r]
    BY <1>1 DEF Working
  <2>9. ManipLeaves(v)
    <3>1. \A r \in Subs : v.held[r] \in {held[r], Null}  BY <1>1, <2>2, <2>5
    <3>2. CutIsOver(World(FALSE)) => CutIsOver(v)  BY <2>7 DEF w
    <3> QED  BY ZenonT(60), <1>1, <1>5, <2>2, <2>3, <2>5, <2>8, <3>1, <3>2 DEF ManipLeaves
  <2> QED  BY <1>2, <2>1, <2>9
<1>6. CASE o # Null /\ Works("manip")
  <2>1. o.kind \in {"StartCollect", "StopCollect", "Fire"}
    <3>1. /\ o = Object(o.at) /\ o.at \in Dispatches(Plan) /\ Plan[o.at].sub = "manip"
      BY <1>3, <1>6 DEF Attached
    <3>2. Plan[o.at].act \in Acts("manip")
      BY <3>1, TreeAssumption DEF IsTree, IsNode, Dispatches, Plan, Types
    <3> QED  BY <3>1, <3>2 DEF Object, Acts
  <2>2. ASSUME NEW S PROVE ManipLeaves(over(S))
    <3>1. /\ over(S).held = held /\ over(S).cut = cut /\ finished \subseteq over(S).finished
          /\ over(S).balls = balls /\ over(S).stopping = stopping /\ over(S).firing = firing
      BY DEF World
    <3> HIDE DEF over
    <3> QED  BY <1>6, <3>1, ManipGoesOn
  <2> HIDE DEF over
  <2>3. CASE o.kind = "StartCollect"
    <3>1. Become(over({"intake", "conveyor"}))  BY <1>6, <2>3 DEF ManipRuns, over
    <3>2. ManipLeaves(over({"intake", "conveyor"}))  BY <2>2
    <3> HIDE DEF after
    <3> QED  BY <1>2, <3>1, <3>2
  <2>4. CASE o.kind = "StopCollect"
    <3>1. Become(over({"intake"}))  BY <1>6, <2>4 DEF ManipRuns, over
    <3>2. ManipLeaves(over({"intake"}))  BY <2>2
    <3> HIDE DEF after
    <3> QED  BY <1>2, <3>1, <3>2
  <2>5. CASE o.kind = "Fire"
    <3>1. Become(FireRuns(w, o))  BY <1>6, <2>5 DEF ManipRuns
    <3>2. ManipLeaves(FireRuns(w, o))  BY <1>6, <2>5, ManipFires
    <3> QED  BY <1>2, <3>1, <3>2
  <2> QED  BY <2>1, <2>3, <2>4, <2>5
<1> QED  BY <1>4, <1>5, <1>6
----------------------------------------------------------------------------
(***************************************************************************)
(* The invariant of the walk and of what it gives away.                    *)
(***************************************************************************)
\* Cancelled actions were given away before and are over; the conveyor has one
\* of its own; the ledger is in its bounds.
Objected ==
    /\ CutIsOver(World(FALSE)) /\ \A o \in cut : o.at \in begun
    /\ held["conveyor"].kind \in Jobs \cup {"none"}
    /\ firing \in BOOLEAN /\ stopping \in BOOLEAN
    /\ late \in BOOLEAN /\ aim \in {"lost", "wait", "ready"}
    /\ balls \in 0..MaxBalls /\ staged \subseteq {"collect", "fire"} /\ collecting \in BOOLEAN

IInv == Walked /\ Objected

Alone == IInv /\ HolderIsLast /\ ChildIsAlone /\ SeenIsDropped /\ AwaitedIsNotCut

LEMMA ObjectsKept ==
    ASSUME IInv, mode' = mode, begun \subseteq begun', done' = done \/ Waited', UNCHANGED <<objects, conveyor>>,
           late' \in BOOLEAN, aim' \in {"lost", "wait", "ready"}
    PROVE  Attached' /\ Waited' /\ Objected'
<1>1. Plan' = Plan /\ held' = held /\ finished' = finished /\ cut' = cut  BY DEF Plan, objects
<1>2. Waited'
  <2>1. CASE done' = done  BY <1>1, <2>1 DEF IInv, Walked, Waited, Object
  <2> QED  BY <2>1
<1>3. Attached'  BY <1>1 DEF IInv, Walked, Attached, Object
<1>4. CutIsOver(World(FALSE))'  BY <1>1 DEF IInv, Objected, CutIsOver, World
<1>5. Objected'  BY <1>1, <1>4 DEF IInv, Objected, objects, conveyor
<1> QED  BY <1>2, <1>3, <1>5

\* Only a dispatch becomes done by its action.
LEMMA OthersWait ==
    ASSUME Types, Walk, Waited, NEW n \in DOMAIN Plan, Walks(n), \A near \in BOOLEAN : ~StartDispatch(n, near)
    PROVE  /\ mode' = mode /\ begun \subseteq begun' /\ objects' = objects /\ conveyor' = conveyor
           /\ (late' = late \/ late' = FALSE) /\ aim' = aim /\ Waited'
<1>1. mode' = mode /\ begun \subseteq begun' /\ objects' = objects /\ conveyor' = conveyor
      /\ (late' = late \/ late' = FALSE) /\ aim' = aim
  BY DEF Walks, StartDelay, StartSeries, StartParallel, Started, RunDispatch, RunDelay,
         RunSeries, RunParallel, Ran, inputs
<1>2. Plan' = Plan /\ finished' = finished /\ \A d : Object(d)' = Object(d)
  BY <1>1 DEF Plan, Object, objects
<1>3. ASSUME NEW d \in done', d \notin done, d \in Dispatches(Plan), Plan[d].wait
      PROVE  Object(d) \in finished
  <2>1. Plan[d].type = "dispatch"  BY <1>3 DEF Dispatches
  <2>2. CASE StartDelay(n) \/ StartSeries(n) \/ StartParallel(n)
    BY <1>3, <2>2 DEF StartDelay, StartSeries, StartParallel
  <2>3. CASE RunDispatch(n)  BY <1>3, <2>3 DEF RunDispatch, Ends
  <2>4. CASE RunDelay(n)  BY <1>3, <2>1, <2>4 DEF RunDelay, Ends, IsCalled
  <2>5. CASE RunSeries(n)  BY <1>3, <2>1, <2>5 DEF RunSeries, StartNextAction, Ends, IsCalled
  <2>6. CASE RunParallel(n)  BY <1>3, <2>1, <2>6 DEF RunParallel, RunFrom, Ends, IsCalled
  <2>7. ASSUME NEW q, q = Plan[n].up, q # 0, Started(n) \/ Ran(n) PROVE Object(d) \in finished
    <3>1. mode \in DOMAIN Tree  BY DEF Types
    <3>2. Plan[q].type \in Composites  BY <2>7, <3>1, Parents
    <3> QED  BY <1>3, <2>1, <2>7, <3>2 DEF Started, Ran, StartNextAction, RunFrom, Ends, Composites
  <2>8. CASE (Started(n) \/ Ran(n)) /\ Plan[n].up = 0  BY <1>3, <2>8 DEF Started, Ran
  <2> QED  BY <2>2, <2>3, <2>4, <2>5, <2>6, <2>7, <2>8 DEF Walks
<1>4. Waited'  BY <1>2, <1>3 DEF Waited
<1> QED  BY <1>1, <1>4

LEMMA DispatchObjects ==
    ASSUME IInv, NEW n \in DOMAIN Plan, NEW near \in BOOLEAN, StartDispatch(n, near)
    PROVE  Objected'
<1> USE DEF IInv
<1>1. /\ begun' = begun \cup {n}
      /\ Plan[n].act \in Acts(Plan[n].sub)
      /\ held' \in [Subs -> Objects] /\ held'[Plan[n].sub] = Object(n)
      /\ \/ Plan[n].sub = "conveyor"
         \/ held'["conveyor"].kind \in {held["conveyor"].kind, "none", "Receive", "Stop"}
      /\ \A x \in cut' :
            \/ x \in cut \/ (x.at = n /\ x # Object(n))
            \/ /\ x # Null /\ x \notin finished
               /\ \E r \in {Plan[n].sub} \cup Below(Plan[n].sub) : x = held[r]
      /\ CutIsOver(World(near)) => CutIsOver(World(near))'
      /\ balls' \in {balls, Loaded} /\ staged' = staged /\ collecting' = collecting
      /\ (stopping \in BOOLEAN => stopping' \in BOOLEAN) /\ (firing \in BOOLEAN => firing' \in BOOLEAN)
      /\ Plan[n].sub \in Subs
  BY Dispatched DEF Walked
<1>2. CutIsOver(World(FALSE))'
  <2>1. CutIsOver(World(near)) <=> CutIsOver(World(FALSE))  BY DEF CutIsOver, World
  <2>2. CutIsOver(World(near))' <=> CutIsOver(World(FALSE))'  BY DEF CutIsOver, World
  <2> QED  BY <1>1, <2>1, <2>2 DEF Objected
<1>3. \A x \in cut' : x.at \in begun'
  <2> SUFFICES ASSUME NEW x \in cut' PROVE x.at \in begun'  OBVIOUS
  <2>1. ASSUME NEW r \in {Plan[n].sub} \cup Below(Plan[n].sub), x = held[r], x # Null
        PROVE  x.at \in begun'
    <3>1. r \in Subs  BY <1>1 DEF Below, Subs
    <3> QED  BY <1>1, <2>1, <3>1 DEF Walked, Attached
  <2> QED  BY <1>1, <2>1 DEF Objected
<1>4. held'["conveyor"].kind \in Jobs \cup {"none"}
  <2>1. CASE Plan[n].sub = "conveyor"  BY <1>1, <2>1 DEF Object, Acts, Jobs
  <2>2. CASE Plan[n].sub # "conveyor"  BY <1>1, <2>2 DEF Objected, Jobs
  <2> QED  BY <2>1, <2>2
<1>5. late' = late /\ aim' = aim  BY DEF StartDispatch, inputs
<1>6. balls' \in 0..MaxBalls  BY <1>1, AutoAssumption DEF Objected
<1> QED  BY <1>1, <1>2, <1>3, <1>4, <1>5, <1>6 DEF Objected

LEMMA ManipKeeps ==
    ASSUME IInv, ManipRuns
    PROVE  Attached' /\ Waited' /\ Objected'
<1> USE DEF IInv
<1> DEFINE v == [held |-> held', finished |-> finished', cut |-> cut', firing |-> firing',
                 balls |-> balls', stopping |-> stopping']
<1>1. /\ ManipLeaves(v)
      /\ mode' = mode /\ begun' = begun /\ done' = done
      /\ staged' = staged /\ collecting' = collecting /\ late' = late /\ aim' = "wait"
  BY ManipRan DEF Walked
<1>2. /\ held' \in [Subs -> Objects]
      /\ \A r \in Subs :
            \/ held'[r] \in {held[r], Null}
            \/ /\ r = "conveyor" /\ held["manip"] # Null /\ held["manip"].kind = "Fire"
               /\ held'[r] = [at |-> held["manip"].at, kind |-> "Emit"]
      /\ \A x \in finished : x.kind = "Emit" \/ x \in finished'
      /\ \A x \in cut' :
            \/ x \in cut
            \/ x # Null /\ x \notin finished /\ held["manip"] # Null /\ \E r \in Under : x = held[r]
      /\ CutIsOver(World(FALSE)) => CutIsOver(v)
      /\ balls' = balls /\ (stopping \in BOOLEAN => stopping' \in BOOLEAN)
      /\ (firing \in BOOLEAN => firing' \in BOOLEAN)
  BY <1>1 DEF ManipLeaves
<1>3. CutIsOver(World(FALSE))'  BY <1>2 DEF CutIsOver, World, Objected
<1> HIDE DEF v
<1>4. Plan' = Plan /\ \A d : Object(d)' = Object(d) /\ Object(d).at = d /\ Object(d).kind = Plan[d].act
  BY <1>1 DEF Plan, Object
<1>5. "manip" \in Subs /\ "conveyor" \in Subs /\ Under \subseteq Subs  BY DEF Subs, Under
<1>6. \A d \in Dispatches(Plan) : Plan[d].act # "Emit"
  <2>1. \A d \in Dispatches(Plan) : Plan[d].act \in Acts(Plan[d].sub)
    BY TreeAssumption DEF IsTree, IsNode, Dispatches, Plan, Walked, Types
  <2> QED  BY <2>1 DEF Acts
<1>7. Waited'  BY <1>1, <1>2, <1>4, <1>6 DEF Waited, Walked
<1>8. Attached'
  <2>1. ASSUME NEW r \in Subs, held'[r] # Null
        PROVE  /\ held'[r].at \in Dispatches(Plan) \cap begun'
               /\ held'[r] = Object(held'[r].at) => Plan[held'[r].at].sub = r
    <3>1. CASE held'[r] = held[r]  BY <1>1, <2>1, <3>1 DEF Attached, Walked
    <3>2. CASE /\ held["manip"] # Null /\ held'[r] = [at |-> held["manip"].at, kind |-> "Emit"]
      <4>1. held["manip"].at \in Dispatches(Plan) \cap begun  BY <1>5, <3>2 DEF Attached, Walked
      <4>2. held'[r].at = held["manip"].at /\ held'[r].kind = "Emit"  BY <3>2
      <4>3. held'[r] # Object(held'[r].at)  BY <1>4, <1>6, <4>1, <4>2
      <4> QED  BY <1>1, <4>1, <4>2, <4>3
    <3> QED  BY <1>2, <2>1, <3>1, <3>2
  <2>2. held'["manip"] \in {held["manip"], Null}  BY <1>2, <1>5
  <2>3. held'["manip"] # Null => held'["manip"] = Object(held'["manip"].at)
    BY <2>2 DEF Attached, Walked
  <2> QED  BY <1>1, <1>2, <1>4, <2>1, <2>3 DEF Attached
<1>9. \A x \in cut' : x.at \in begun'
  <2>1. \A r \in Under : held[r] # Null => held[r].at \in begun  BY <1>5 DEF Attached, Walked
  <2> QED  BY <1>1, <1>2, <2>1 DEF Objected
<1>10. held'["conveyor"].kind \in Jobs \cup {"none"}
  <2>1. Null.kind = "none" /\ "Emit" \in Jobs  BY DEF Null, Jobs
  <2>2. held'["conveyor"].kind \in {held["conveyor"].kind, "none", "Emit"}  BY <1>2, <1>5, <2>1
  <2> QED  BY <2>1, <2>2 DEF Objected
<1>11. Objected'  BY <1>1, <1>2, <1>3, <1>9, <1>10 DEF Objected
<1> QED  BY <1>7, <1>8, <1>11

LEMMA ConveyorKeeps ==
    ASSUME IInv, NEW step, ConveyorMoves(step)
    PROVE  Attached' /\ Waited' /\ Objected'
<1> USE DEF IInv
<1>1. /\ mode' = mode /\ begun' = begun /\ done' = done /\ held' = held /\ cut' = cut /\ firing' = firing
      /\ late' = late /\ aim' = aim /\ finished \subseteq finished'
  BY DEF ConveyorMoves, walk, inputs
<1>2. Plan' = Plan /\ \A d : Object(d)' = Object(d)  BY <1>1 DEF Plan, Object
<1>3. Waited'  BY <1>1, <1>2 DEF Waited, Walked
<1>4. Attached'  BY <1>1, <1>2 DEF Attached, Walked
<1>5. CutIsOver(World(FALSE))'  BY <1>1 DEF CutIsOver, World, Objected
<1>6. /\ balls' \in 0..MaxBalls /\ staged' \subseteq {"collect", "fire"} /\ collecting' \in BOOLEAN
      /\ stopping' \in BOOLEAN
  <2>1. MaxBalls \in Nat /\ balls \in 0..MaxBalls /\ staged \subseteq {"collect", "fire"}
        /\ collecting \in BOOLEAN /\ stopping \in BOOLEAN
    BY AutoAssumption DEF Objected
  <2>2. \/ Ledger!SeeBall \/ Ledger!LoseBall \/ Ledger!CollectBall \/ Ledger!ReachShooter
        \/ Ledger!StageForCollect \/ Ledger!StageForFire \/ Ledger!BeginFiring \/ Ledger!FireBall
        \/ Ledger!FiredLast \/ Ledger!Finish
    BY DEF ConveyorMoves
  <2>3. balls' = balls \/ (balls' = balls + 1 /\ balls # MaxBalls) \/ (balls' = balls - 1 /\ balls # 0)
    BY <2>2
    DEF Ledger!SeeBall, Ledger!LoseBall, Ledger!CollectBall, Ledger!ReachShooter, Ledger!StageForCollect,
        Ledger!StageForFire, Ledger!BeginFiring, Ledger!FireBall, Ledger!FiredLast, Ledger!Finish,
        Ledger!Full, Ledger!Empty
  <2>4. /\ \/ staged' \in {staged, {"collect"}, {"fire"}} \/ staged' = staged \cup {"fire"}
           \/ staged' \subseteq staged
        /\ collecting' \in {collecting, TRUE, FALSE} /\ stopping' = stopping
    BY <2>2
    DEF Ledger!SeeBall, Ledger!LoseBall, Ledger!CollectBall, Ledger!ReachShooter, Ledger!StageForCollect,
        Ledger!StageForFire, Ledger!BeginFiring, Ledger!FireBall, Ledger!FiredLast, Ledger!Finish
  <2>5. balls' \in 0..MaxBalls  BY <2>1, <2>3
  <2> QED  BY <2>1, <2>4, <2>5
<1>7. Objected'  BY <1>1, <1>5, <1>6 DEF Objected
<1> QED  BY <1>3, <1>4, <1>7

LEMMA MoveKeeps ==
    ASSUME IInv, NEW s \in Subs, MoveDone(s)
    PROVE  Attached' /\ Waited' /\ Objected'
<1> USE DEF IInv
<1>1. /\ mode' = mode /\ begun' = begun /\ done' = done /\ held' = held /\ cut' = cut /\ firing' = firing
      /\ late' = late /\ aim' = aim /\ finished \subseteq finished' /\ conveyor' = conveyor
  BY DEF MoveDone, walk, inputs
<1>2. Plan' = Plan /\ \A d : Object(d)' = Object(d)  BY <1>1 DEF Plan, Object
<1>3. Waited'  BY <1>1, <1>2 DEF Waited, Walked
<1>4. Attached'  BY <1>1, <1>2 DEF Attached, Walked
<1>5. CutIsOver(World(FALSE))'  BY <1>1 DEF CutIsOver, World, Objected
<1>7. Objected'  BY <1>1, <1>5 DEF Objected, conveyor
<1> QED  BY <1>3, <1>4, <1>7

\* The invariant is inductive.
LEMMA IInvStarts == Init => IInv
<1> SUFFICES ASSUME Init PROVE IInv  OBVIOUS
<1>1. Types /\ Walk  BY WalkStarts
<1>2. begun = {} /\ done = {} /\ held = [s \in Subs |-> Null] /\ finished = {} /\ cut = {}  BY DEF Init
<1>3. "conveyor" \in Subs /\ "manip" \in Subs /\ Null \in Objects /\ Null.kind = "none"
  BY DEF Subs, Under, Null, Objects, Kinds
<1>4. Attached /\ Waited  BY <1>2, <1>3 DEF Attached, Waited
<1>5. CutIsOver(World(FALSE))  BY <1>2 DEF CutIsOver, World
<1>6. held["conveyor"].kind = "none"  BY <1>2, <1>3
<1>7. 0 \in 0..MaxBalls  BY AutoAssumption
<1>8. Objected  BY <1>2, <1>5, <1>6, <1>7 DEF Objected, Init
<1> QED  BY <1>1, <1>4, <1>8 DEF IInv, Walked

LEMMA DisableKeeps ==
    ASSUME IInv, Disable
    PROVE  IInv'
<1>1. Types' /\ Walk'  BY WalkDisabled
<1>2. begun' = {} /\ done' = {} /\ held' = [s \in Subs |-> Null] /\ finished' = {} /\ cut' = {}
  BY DEF Disable
<1>3. "conveyor" \in Subs /\ "manip" \in Subs /\ Null \in Objects /\ Null.kind = "none"
  BY DEF Subs, Under, Null, Objects, Kinds
<1>4. Attached' /\ Waited'  BY <1>2, <1>3 DEF Attached, Waited
<1>5. CutIsOver(World(FALSE))'  BY <1>2 DEF CutIsOver, World
<1>6. Objected'  BY <1>2, <1>3, <1>5 DEF Objected, Disable, IInv, conveyor
<1> QED  BY <1>1, <1>4, <1>6 DEF IInv, Walked

LEMMA TypesRest ==
    ASSUME Types, Walk, UNCHANGED <<mode, walk>>, turn' \in Turns, turn' # "controller" => call = Idle
    PROVE  Types' /\ Walk'
<1>1. Types'  BY DEF Types, walk, here, Plan
<1> QED  BY <1>1, WalkRests

LEMMA IInvKept == IInv /\ [Next]_vars => IInv'
<1> SUFFICES ASSUME IInv, [Next]_vars PROVE IInv'  OBVIOUS
<1>1. Types /\ Walk /\ Waited /\ Attached /\ Objected  BY DEF IInv, Walked
<1>2. call = Idle <=> call.op = "none"  BY <1>1 DEF Types, Idle, Call, here
<1>3. CASE BeginTurn
  <2>1. Types'
    <3>1. 1 \in DOMAIN Plan  BY <1>1, Table DEF Types
    <3>2. /\ mode' = mode /\ begun' = begun /\ done' = done /\ index' = index
          /\ \/ turn' = "children" /\ call' = call /\ call = Idle
             \/ turn' = "controller" /\ \E op \in {"run", "start"} : call' = Call(op, 1)
      BY <1>3 DEF BeginTurn
    <3> QED  BY <1>1, <3>1, <3>2 DEF Types, Turns, Call, here, Plan
  <2>2. Walk'  BY <1>1, <1>3, TurnBegins
  <2>3. Attached' /\ Waited' /\ Objected'
    <3>1. /\ mode' = mode /\ begun' = begun /\ done' = done /\ UNCHANGED <<objects, conveyor>>
          /\ late' = late /\ aim' = aim
      BY <1>3 DEF BeginTurn, inputs
    <3> QED  BY <1>1, <3>1, ObjectsKept DEF Objected
  <2> QED  BY <2>1, <2>2, <2>3 DEF IInv, Walked
<1>4. ASSUME NEW n \in DOMAIN Plan, Walks(n) PROVE IInv'
  <2>1. Types' /\ Walk'  BY <1>1, <1>4, WalkTyped, WalkGoesOn
  <2>2. ASSUME NEW near \in BOOLEAN, StartDispatch(n, near) PROVE IInv'
    BY <1>1, <2>1, <2>2, DispatchKeeps, DispatchObjects DEF IInv, Walked
  <2>3. ASSUME \A near \in BOOLEAN : ~StartDispatch(n, near) PROVE IInv'
    <3>1. /\ mode' = mode /\ begun \subseteq begun' /\ objects' = objects /\ conveyor' = conveyor
          /\ (late' = late \/ late' = FALSE) /\ aim' = aim /\ Waited'
      BY <1>1, <1>4, <2>3, OthersWait
    <3>2. Attached' /\ Waited' /\ Objected'  BY <1>1, <3>1, ObjectsKept DEF Objected
    <3> QED  BY <2>1, <3>2 DEF IInv, Walked
  <2> QED  BY <2>2, <2>3
<1>5. ASSUME NEW s \in Subs, MoveDone(s) PROVE IInv'
  <2>1. Types' /\ Walk'
    <3>1. UNCHANGED <<mode, walk>> /\ turn' = turn  BY <1>5 DEF MoveDone
    <3> QED  BY <1>1, <3>1, TypesRest DEF Types
  <2> QED  BY <1>5, <2>1, MoveKeeps DEF IInv, Walked
<1>6. CASE DelayOver
  <2>1. /\ UNCHANGED <<mode, walk>> /\ turn' = turn /\ UNCHANGED <<objects, conveyor>> /\ late' = TRUE
        /\ aim' = aim
    BY <1>6 DEF DelayOver
  <2>2. Types' /\ Walk'  BY <1>1, <2>1, TypesRest DEF Types
  <2>3. Attached' /\ Waited' /\ Objected'  BY <1>1, <2>1, ObjectsKept DEF Objected, walk
  <2> QED  BY <2>2, <2>3 DEF IInv, Walked
<1>7. ASSUME NEW step, ConveyorMoves(step) PROVE IInv'
  <2>1. Types' /\ Walk'
    <3>1. UNCHANGED <<mode, walk>> /\ turn' = turn  BY <1>7 DEF ConveyorMoves
    <3> QED  BY <1>1, <3>1, TypesRest DEF Types
  <2> QED  BY <1>7, <2>1, ConveyorKeeps DEF IInv, Walked
<1>8. ASSUME NEW sample \in {"lost", "wait", "ready"}, ChildrenRan(sample) PROVE IInv'
  <2>1. /\ UNCHANGED <<mode, walk>> /\ turn' = "manip" /\ UNCHANGED <<objects, conveyor>> /\ late' = late
        /\ aim' \in {"lost", "wait", "ready"} /\ turn = "children"
    BY <1>8 DEF ChildrenRan
  <2>2. Types' /\ Walk'  BY <1>1, <2>1, TypesRest DEF Types, Turns
  <2>3. Attached' /\ Waited' /\ Objected'  BY <1>1, <2>1, ObjectsKept DEF Objected, walk
  <2> QED  BY <2>2, <2>3 DEF IInv, Walked
<1>9. CASE ManipRuns
  <2>1. UNCHANGED <<mode, walk>> /\ turn' = "controller"  BY <1>9 DEF ManipRuns
  <2>2. Types' /\ Walk'  BY <1>1, <2>1, TypesRest DEF Turns
  <2> QED  BY <1>9, <2>2, ManipKeeps DEF IInv, Walked
<1>10. CASE Disable  BY <1>10, DisableKeeps
<1>11. CASE UNCHANGED vars
  <2>1. UNCHANGED <<mode, walk>> /\ turn' = turn /\ UNCHANGED <<objects, conveyor>> /\ late' = late
        /\ aim' = aim
    BY <1>11 DEF vars, inputs
  <2>2. Types' /\ Walk'  BY <1>1, <2>1, TypesRest DEF Types
  <2>3. Attached' /\ Waited' /\ Objected'  BY <1>1, <2>1, ObjectsKept DEF Objected, walk
  <2> QED  BY <2>2, <2>3 DEF IInv, Walked
<1> QED  BY <1>3, <1>4, <1>5, <1>6, <1>7, <1>8, <1>9, <1>10, <1>11 DEF Next

\* The inductive invariant holds in every history: the walk keeps to its tree,
\* what it waits for is settled, and the actions are where they belong.
THEOREM Invariance == Spec => []IInv
BY IInvStarts, IInvKept, PTL DEF Spec
----------------------------------------------------------------------------
\* In every mode that can be laid out the walk stays within its table, what is
\* attached was given by a dispatch that began, what was cancelled is over, and
\* the count of balls keeps to its bounds.
THEOREM TypeCorrect == Spec => []TypeOK
<1>1. IInv => TypeOK
  <2> SUFFICES ASSUME IInv PROVE TypeOK  OBVIOUS
  <2>1. Types /\ Attached /\ Objected  BY DEF IInv, Walked
  <2>2. cut \subseteq finished \cup {held[s] : s \in Subs}
    BY <2>1 DEF Objected, CutIsOver, World
  <2>3. (IF Works("conveyor") THEN held["conveyor"].kind ELSE "none") \in Jobs \cup {"none"}
    BY <2>1 DEF Objected
  <2>4. Ledger!LedgerTypeOK  BY <2>1, <2>3 DEF Objected, Ledger!LedgerTypeOK
  <2>5. \A s \in Subs : held[s] = Null \/ held[s].at \in begun  BY <2>1 DEF Attached
  <2> QED  BY <2>1, <2>2, <2>4, <2>5 DEF TypeOK, Types, Objected
<1> QED  BY <1>1, Invariance, PTL

\* What is done has been given away, and what the mode waited for there has ended.
LEMMA DoneIsSettled ==
    ASSUME Types, Walk, Waited, NEW n \in done
    PROVE  Settled(n)
<1> SUFFICES ASSUME NEW d \in Dispatches(Plan), d \in n..Plan[n].last
             PROVE  d \in begun /\ (Plan[d].wait => Object(d) \in finished)
  BY DEF Settled
<1>1. d \in DOMAIN Plan /\ In(d, n)
  <2>1. n \in DOMAIN Plan /\ mode \in DOMAIN Tree  BY DEF Types
  <2>2. n \in Nat /\ Plan[n].last \in Nat  BY <2>1, Numbers
  <2> QED  BY <2>2 DEF Dispatches, In
<1>2. d \in done  BY <1>1 DEF Walk, Closed
<1> QED  BY <1>2 DEF Types, Waited

\* Whatever the modes look like and however their calls fall into the loops of
\* the robot, no step of a sequence begins before those before it are through,
\* and a mode that is over has done every step.
THEOREM SequencesKeepOrder == Spec => []InOrder
<1>1. IInv => InOrder
  <2> SUFFICES ASSUME IInv PROVE InOrder  OBVIOUS
  <2>1. Types /\ Walk /\ Waited  BY DEF IInv, Walked
  <2>2. ASSUME NEW s \in DOMAIN Plan, Plan[s].type = "series", NEW i \in Kids(s), NEW j \in Kids(s), i < j
        PROVE  Untouched(j) \/ Settled(i)
    <3> SUFFICES ASSUME NEW d \in j..Plan[j].last \cap begun PROVE Settled(i)  BY DEF Untouched
    <3>1. i \in DOMAIN Plan /\ j \in DOMAIN Plan  BY DEF Kids
    <3>2. i \in Nat /\ j \in Nat /\ Plan[j].last \in Nat  BY <2>1, <3>1, Numbers DEF Types
    <3>3. j \in begun
      <4>1. In(d, j)  BY <3>2 DEF In
      <4> QED  BY <2>1, <3>1, <4>1 DEF Walk, Opened
    <3>4. index[s] \in Nat /\ ~ (j > index[s])
      <4>1. InSeries(s)  BY <2>1, <2>2 DEF Walk, Series
      <4>2. Len(Plan) \in Nat  BY <2>1, Table DEF Types
      <4> QED  BY <2>1, <3>3, <4>1, <4>2 DEF InSeries, Types
    <3>5. i \in done
      <4>1. i < index[s]  BY <2>2, <3>2, <3>4
      <4> QED  BY <2>1, <2>2, <4>1 DEF Walk, Series, InSeries
    <3> QED  BY <2>1, <3>5, DoneIsSettled
  <2>3. 1 \in done => Settled(1)  BY <2>1, DoneIsSettled
  <2> QED  BY <2>2, <2>3 DEF InOrder
<1> QED  BY <1>1, Invariance, PTL
----------------------------------------------------------------------------
(***************************************************************************)
(* What the mode waits for is not cancelled.                               *)
(***************************************************************************)
\* The two kids of a series that a and b are below of.
LEMMA BeforeKids ==
    ASSUME mode \in DOMAIN Tree, NEW a, NEW b, Before(Plan, a, b)
    PROVE  \E s, i, j \in DOMAIN Plan :
              /\ Plan[s].type = "series" /\ i \in Kids(s) /\ j \in Kids(s) /\ i < j /\ s < j
              /\ In(a, i) /\ In(b, j) /\ Plan[i].last < j /\ In(b, s) /\ s < b
<1>1. PICK s, i, j \in DOMAIN Plan :
         /\ Plan[s].type = "series" /\ Plan[i].up = s /\ Plan[j].up = s /\ i < j
         /\ a \in i..Plan[i].last /\ b \in j..Plan[j].last
  BY DEF Before
<1>2. /\ s \in Nat /\ i \in Nat /\ j \in Nat /\ Plan[i].last \in Nat /\ Plan[j].last \in Nat
      /\ Plan[s].last \in Nat
  BY Numbers
<1>3. In(a, i) /\ In(b, j) /\ i \in Kids(s) /\ j \in Kids(s)  BY <1>1, <1>2 DEF In, Kids
<1>4. s < j /\ Plan[j].last <= Plan[s].last  BY <1>1, <1>3, Kin DEF Composites
<1>5. Plan[i].last < j  BY <1>1, Nested
<1>6. In(b, s) /\ s < b  BY <1>1, <1>2, <1>4 DEF In
<1> QED  BY <1>1, <1>3, <1>4, <1>5, <1>6

\* What has begun has everything before it done.
LEMMA BeforeBegun ==
    ASSUME Types, Walk, NEW a \in DOMAIN Plan, NEW b \in begun, Before(Plan, a, b)
    PROVE  a \in done
<1>1. mode \in DOMAIN Tree  BY DEF Types
<1>2. PICK s, i, j \in DOMAIN Plan :
         /\ Plan[s].type = "series" /\ i \in Kids(s) /\ j \in Kids(s) /\ i < j
         /\ In(a, i) /\ In(b, j)
  BY <1>1, BeforeKids
<1>3. j \in begun  BY <1>2 DEF Walk, Opened
<1>4. InSeries(s) /\ index[s] \in Nat /\ i \in Nat /\ j \in Nat
  <2>1. Len(Plan) \in Nat  BY <1>1, Table
  <2>2. InSeries(s)  BY <1>2 DEF Walk, Series
  <2>3. index[s] \in 0..Len(Plan) + 1  BY DEF Types
  <2>4. i \in Nat /\ j \in Nat  BY <1>1, Numbers
  <2> QED  BY <2>1, <2>2, <2>3, <2>4
<1>5. i < index[s]
  <2>1. ~ (j > index[s])  BY <1>2, <1>3, <1>4 DEF InSeries
  <2> QED  BY <1>2, <1>4, <2>1
<1>6. i \in done  BY <1>2, <1>4, <1>5 DEF InSeries
<1> QED  BY <1>2, <1>6 DEF Walk, Closed

\* So has what is about to begin, and the walk has left what is before it.
LEMMA BeforeStart ==
    ASSUME Types, Walk, call.op = "start", NEW a \in DOMAIN Plan, Before(Plan, a, here)
    PROVE  /\ a \in done
           /\ \E s, k \in DOMAIN Plan :
                 Plan[s].type = "series" /\ Plan[k].up = s /\ In(a, k) /\ index[s] # k
<1>1. mode \in DOMAIN Tree  BY DEF Types
<1>2. PICK s, i, j \in DOMAIN Plan :
         /\ Plan[s].type = "series" /\ i \in Kids(s) /\ j \in Kids(s) /\ i < j
         /\ In(a, i) /\ In(here, j) /\ In(here, s) /\ s < here
  BY <1>1, BeforeKids
<1>3. index[s] = j  BY <1>2 DEF Walk, OnPath, Path
<1>4. i \in Nat /\ j \in Nat  BY <1>1, <1>2, Numbers
<1>5. i \in done  BY <1>2, <1>3 DEF Walk, Series, InSeries
<1>6. a \in done  BY <1>2, <1>5 DEF Walk, Closed
<1> QED  BY <1>2, <1>3, <1>4, <1>6 DEF Kids

\* Nothing is before itself.
LEMMA NotBeforeItself ==
    ASSUME mode \in DOMAIN Tree, NEW n \in DOMAIN Plan
    PROVE  ~Before(Plan, n, n)
<1> SUFFICES ASSUME Before(Plan, n, n) PROVE FALSE  OBVIOUS
<1>1. PICK s, i, j \in DOMAIN Plan : In(n, i) /\ In(n, j) /\ Plan[i].last < j
  BY BeforeKids
<1>2. n \in Nat /\ j \in Nat /\ Plan[i].last \in Nat  BY <1>1, Numbers
<1> QED  BY <1>1, <1>2 DEF In

\* What is about to begin has no begun dispatch behind it, and is ordered with
\* whatever the mode waits for on its subsystem or below.
LEMMA StartsBehind ==
    ASSUME Types, Walk, call.op = "start", NEW n \in Dispatches(Plan), here = n
    PROVE  /\ \A c \in begun : ~Before(Plan, n, c)
           /\ \A a \in Dispatches(Plan) \cap begun :
                 Plan[a].wait /\ Plan[a].sub \in {Plan[n].sub} \cup Below(Plan[n].sub) => a \in done
<1>1. n \in DOMAIN Plan /\ n \notin begun /\ n \notin done  BY DEF Walk, OnPath, Types, Dispatches
<1>2. \A c \in begun : ~Before(Plan, n, c)  BY <1>1, BeforeBegun
<1>3. ASSUME NEW a \in Dispatches(Plan) \cap begun, Plan[a].wait,
             Plan[a].sub \in {Plan[n].sub} \cup Below(Plan[n].sub)
      PROVE  a \in done
  <2>1. a # n /\ a \in DOMAIN Plan  BY <1>1, <1>3 DEF Dispatches
  <2>2. Disciplined(Plan)  BY TreeAssumption DEF Plan, Types
  <2>3. Before(Plan, a, n) \/ Before(Plan, n, a)  BY <1>3, <2>1, <2>2 DEF Disciplined
  <2> QED  BY <1>2, <1>3, <2>1, <2>3, BeforeStart
<1> QED  BY <1>2, <1>3

\* What an attached action that the mode waits for says of its dispatch.
LEMMA AwaitedHeld ==
    ASSUME IInv, NEW r \in Subs, held[r] # Null, Awaited(held[r]), held[r] \notin finished
    PROVE  /\ held[r].at \in Dispatches(Plan) \cap begun /\ held[r].at \notin done
           /\ Plan[held[r].at].wait /\ Plan[held[r].at].sub = r
<1>1. /\ held[r].at \in Dispatches(Plan) \cap begun /\ Plan[held[r].at].wait
      /\ held[r] = Object(held[r].at) /\ Plan[held[r].at].sub = r
  BY DEF IInv, Walked, Attached, Awaited
<1>2. held[r].at \notin done  BY <1>1 DEF IInv, Walked, Waited
<1> QED  BY <1>1, <1>2

LEMMA Holder ==
    ASSUME IInv, held["manip"] # Null
    PROVE  /\ holder \in Dispatches(Plan) \cap begun /\ holder \in DOMAIN Plan /\ holder \in Nat
           /\ Plan[holder].sub = "manip" /\ held["manip"] = Object(holder)
<1>1. "manip" \in Subs  BY DEF Subs
<1>2. /\ holder \in Dispatches(Plan) \cap begun
      /\ Plan[holder].sub = "manip" /\ held["manip"] = Object(holder)
  BY <1>1 DEF IInv, Walked, Attached, holder
<1>3. holder \in DOMAIN Plan /\ mode \in DOMAIN Tree  BY <1>2 DEF Dispatches, IInv, Walked, Types
<1> QED  BY <1>2, <1>3, Numbers

\* A dispatch begins while the manipulator has an action of an earlier one.
LEMMA StartFindsNone ==
    ASSUME Alone, NEW n \in Dispatches(Plan), call.op = "start", here = n,
           Plan[n].wait, Plan[n].sub \in Under
    PROVE  held["manip"] = Null
<1> SUFFICES ASSUME held["manip"] # Null PROVE FALSE  OBVIOUS
<1>1. Types /\ Walk /\ mode \in DOMAIN Tree  BY DEF Alone, IInv, Walked, Types
<1>2. /\ holder \in Dispatches(Plan) \cap begun /\ holder \in DOMAIN Plan
      /\ Plan[holder].sub = "manip"
  BY Holder DEF Alone
<1>3. n \notin begun /\ n \in DOMAIN Plan  BY <1>1 DEF Walk, OnPath, Dispatches
<1>4. Disciplined(Plan)  BY <1>1, TreeAssumption DEF Plan
<1>5. Before(Plan, holder, n)
  <2>1. Plan[n].sub \in {Plan[holder].sub} \cup Below(Plan[holder].sub)  BY <1>2 DEF Below
  <2>2. Before(Plan, n, holder) \/ Before(Plan, holder, n)
    BY <1>2, <1>3, <1>4, <2>1 DEF Disciplined
  <2> QED  BY <1>1, <1>2, <2>2, StartsBehind
<1>6. /\ holder \in done
      /\ \E s, k \in DOMAIN Plan :
            Plan[s].type = "series" /\ Plan[k].up = s /\ In(holder, k) /\ index[s] # k
  BY <1>1, <1>2, <1>5, BeforeStart
<1>7. CASE Plan[holder].wait  BY <1>6, <1>7 DEF Alone, SeenIsDropped, NotPassed
<1>8. CASE ~Plan[holder].wait
  <2>1. PICK c \in Dispatches(Plan) :
           Plan[c].sub = "manip" /\ Before(Plan, holder, c) /\ Before(Plan, c, n)
    BY <1>2, <1>4, <1>5, <1>8 DEF Disciplined
  <2>2. c \in done  BY <1>1, <2>1, BeforeStart DEF Dispatches
  <2> QED  BY <1>1, <2>1, <2>2 DEF Alone, HolderIsLast, Types
<1> QED  BY <1>7, <1>8

\* HolderIsLast, ChildIsAlone and AwaitedIsNotCut when a dispatch begins.
LEMMA DispatchIsApart ==
    ASSUME Alone, NEW n \in DOMAIN Plan, NEW near \in BOOLEAN, StartDispatch(n, near)
    PROVE  HolderIsLast' /\ ChildIsAlone' /\ AwaitedIsNotCut'
<1>1. Types /\ Walk /\ Attached /\ IInv /\ mode \in DOMAIN Tree  BY DEF Alone, IInv, Walked, Types
<1>2. /\ n \in Dispatches(Plan) /\ n \notin begun /\ n # 0 /\ begun' = begun \cup {n} /\ mode' = mode
      /\ done' = done \/ (done' = done \cup {n} /\ ~Plan[n].wait)
      /\ Plan[n].sub \in Subs
      /\ held'[Plan[n].sub] = Object(n)
      /\ \A r \in Subs : r # Plan[n].sub =>
            \/ held'[r] \in {held[r], Null}
            \/ Plan[n].sub = "manip" /\ held'[r].at = n /\ held'[r].kind \notin Acts("manip")
      /\ \A x \in cut' :
            \/ x \in cut \/ (x.at = n /\ x # Object(n))
            \/ /\ x # Null /\ x \notin finished
               /\ \E r \in {Plan[n].sub} \cup Below(Plan[n].sub) : x = held[r]
  BY <1>1, Dispatched
<1>3. Plan' = Plan /\ \A d : Object(d)' = Object(d) /\ Object(d).at = d
  BY <1>2 DEF Plan, Object
<1>4. call.op = "start" /\ here = n  BY DEF StartDispatch, IsCalled, Call, here
<1>5. /\ \A c \in begun : ~Before(Plan, n, c)
      /\ \A a \in Dispatches(Plan) \cap begun :
            Plan[a].wait /\ Plan[a].sub \in {Plan[n].sub} \cup Below(Plan[n].sub) => a \in done
  BY <1>1, <1>2, <1>4, StartsBehind
<1>6. "manip" \in Subs /\ "manip" \notin Under  BY DEF Subs, Under
<1>7. HolderIsLast'
  <2> SUFFICES ASSUME held'["manip"] # Null, NEW c \in Dispatches(Plan), Plan[c].sub = "manip",
                      Before(Plan, holder', c)
               PROVE  c \notin begun'
    BY <1>3 DEF HolderIsLast
  <2>1. CASE Plan[n].sub = "manip"
    <3>1. holder' = n  BY <1>2, <1>3, <2>1 DEF holder
    <3>2. c # n  BY <1>1, <3>1, NotBeforeItself
    <3> QED  BY <1>2, <1>5, <3>1, <3>2
  <2>2. CASE Plan[n].sub # "manip"
    <3>1. held'["manip"] = held["manip"] /\ holder' = holder  BY <1>2, <1>6, <2>2 DEF holder
    <3>2. c \notin begun  BY <3>1 DEF Alone, HolderIsLast
    <3> QED  BY <1>2, <2>2, <3>2
  <2> QED  BY <2>1, <2>2
<1>8. ChildIsAlone'
  <2> SUFFICES ASSUME NEW a \in Dispatches(Plan), a \in begun', Plan[a].wait, Plan[a].sub \in Under,
                      a \notin done'
               PROVE  held'["manip"] = Null
    BY <1>3 DEF ChildIsAlone
  <2>1. CASE a = n
    <3>1. held["manip"] = Null  BY <1>2, <1>4, <2>1, StartFindsNone
    <3> QED  BY <1>2, <1>6, <2>1, <3>1
  <2>2. CASE a # n
    <3>1. a \in begun /\ a \notin done  BY <1>2, <2>2
    <3>2. held["manip"] = Null  BY <3>1 DEF Alone, ChildIsAlone
    <3>3. Plan[n].sub # "manip"  BY <1>5, <3>1 DEF Below
    <3> QED  BY <1>2, <1>6, <3>2, <3>3
  <2> QED  BY <2>1, <2>2
<1>9. AwaitedIsNotCut'
  <2> SUFFICES ASSUME NEW x \in cut', Awaited(x) PROVE FALSE
    BY <1>3 DEF AwaitedIsNotCut, Awaited
  <2>1. CASE x \in cut  BY <2>1 DEF Alone, AwaitedIsNotCut
  <2>2. CASE x.at = n /\ x # Object(n)  BY <2>2 DEF Awaited
  <2>3. ASSUME x # Null, x \notin finished,
               NEW r \in {Plan[n].sub} \cup Below(Plan[n].sub), x = held[r]
        PROVE  FALSE
    <3>1. r \in Subs  BY <1>2 DEF Below, Subs
    <3>2. /\ x.at \in Dispatches(Plan) \cap begun /\ x.at \notin done
          /\ Plan[x.at].wait /\ Plan[x.at].sub = r
      BY <1>1, <2>3, <3>1, AwaitedHeld
    <3> QED  BY <1>5, <3>2
  <2> QED  BY <1>2, <2>1, <2>2, <2>3
<1> QED  BY <1>7, <1>8, <1>9

\* The same for steps that give nothing away.
LEMMA OthersAreApart ==
    ASSUME Alone, mode' = mode, done \subseteq done',
           \A d \in Dispatches(Plan) : d \in begun' => d \in begun,
           held'["manip"] \in {held["manip"], Null},
           \A x \in cut' : x \in cut \/ ~Awaited(x)
    PROVE  HolderIsLast' /\ ChildIsAlone' /\ AwaitedIsNotCut'
<1>1. Plan' = Plan /\ \A d : Object(d)' = Object(d)  BY DEF Plan, Object
<1>2. held'["manip"] # Null => holder' = holder  BY DEF holder
<1>3. HolderIsLast'  BY <1>1, <1>2 DEF Alone, HolderIsLast
<1>4. ChildIsAlone'  BY <1>1 DEF Alone, ChildIsAlone
<1>5. AwaitedIsNotCut'  BY <1>1 DEF Alone, AwaitedIsNotCut, Awaited
<1> QED  BY <1>3, <1>4, <1>5

LEMMA ManipIsApart ==
    ASSUME Alone, ManipRuns
    PROVE  HolderIsLast' /\ ChildIsAlone' /\ AwaitedIsNotCut'
<1> DEFINE v == [held |-> held', finished |-> finished', cut |-> cut', firing |-> firing',
                 balls |-> balls', stopping |-> stopping']
<1>1. ManipLeaves(v) /\ mode' = mode /\ begun' = begun /\ done' = done
  BY ManipRan DEF Alone, IInv, Walked
<1>2. "manip" \in Subs /\ Under \subseteq Subs  BY DEF Subs, Under
<1>3. /\ held'["manip"] \in {held["manip"], Null}
      /\ \A x \in cut' :
            \/ x \in cut
            \/ x # Null /\ x \notin finished /\ held["manip"] # Null /\ \E r \in Under : x = held[r]
  BY <1>1, <1>2 DEF ManipLeaves
<1>4. ASSUME NEW x \in cut', x \notin cut, Awaited(x) PROVE FALSE
  <2>1. PICK r \in Under : x = held[r]  BY <1>3, <1>4
  <2>2. held["manip"] # Null /\ x # Null /\ x \notin finished  BY <1>3, <1>4
  <2>3. /\ x.at \in Dispatches(Plan) \cap begun /\ x.at \notin done
        /\ Plan[x.at].wait /\ Plan[x.at].sub = r
    BY <1>2, <1>4, <2>1, <2>2, AwaitedHeld DEF Alone
  <2> QED  BY <2>2, <2>3 DEF Alone, ChildIsAlone
<1> QED  BY <1>1, <1>3, <1>4, OthersAreApart

\* start() of the next node: whose start() is on the call stack then.
LEMMA StartsBelow ==
    ASSUME mode \in DOMAIN Tree, NEW n \in DOMAIN Plan, NEW m \in DOMAIN Plan, NEW q \in DOMAIN Plan,
           \/ Plan[m].up = n
           \/ Plan[m].up = Plan[n].up /\ n < m,
           Plan[m].up # 0, StartsAt(Call("start", m), q), q # m
    PROVE  /\ q < m /\ Plan[Plan[m].up].type = "parallel"
           /\ StartsAt(Call("start", n), q) /\ StartsAt(Call("started", n), q)
<1> DEFINE p == Plan[m].up
<1>1. /\ n \in Nat /\ m \in Nat /\ q \in Nat /\ p \in Nat /\ p < m /\ p \in DOMAIN Plan /\ In(m, p)
      /\ Plan[n].last \in Nat /\ n <= Plan[n].last
      /\ \A r \in DOMAIN Plan : r \in Nat /\ Plan[r].last \in Nat
  BY Numbers, Parents DEF In
<1>2. /\ In(m, q) /\ \A r \in DOMAIN Plan : q <= r /\ r < m /\ In(m, r) => Plan[r].type = "parallel"
  BY DEF StartsAt, Call
<1>3. q < m /\ In(p, q)  BY <1>1, <1>2, Nested DEF In
<1>4. Plan[p].type = "parallel"  BY <1>1, <1>2, <1>3 DEF In
<1>5. In(n, q) /\ \A r \in DOMAIN Plan : q <= r /\ r < n /\ In(n, r) => r < m /\ In(m, r)
  <2>1. CASE p = n
    <3>1. In(n, q)  BY <1>3, <2>1
    <3>2. ASSUME NEW r \in DOMAIN Plan, q <= r, r < n, In(n, r) PROVE r < m /\ In(m, r)
      BY <1>1, <2>1, <3>2, Nested
    <3> QED  BY <3>1, <3>2
  <2>2. CASE p = Plan[n].up /\ n < m
    <3>1. ASSUME NEW r \in DOMAIN Plan, In(p, r) PROVE r < n /\ In(n, r)
      BY <1>1, <2>2, <3>1, Nested
    <3>2. ASSUME NEW r \in DOMAIN Plan, r < n, In(n, r) PROVE r < m /\ In(m, r)
      BY <1>1, <2>2, <3>2, Nested
    <3> QED  BY <1>3, <3>1, <3>2
  <2> QED  BY <2>1, <2>2
<1>6. \A r \in DOMAIN Plan : q <= r /\ r < n /\ In(n, r) => Plan[r].type = "parallel"
  BY <1>2, <1>5
<1> QED  BY <1>3, <1>4, <1>5, <1>6 DEF StartsAt, Call

\* started() of a kid is reported to its parent.
LEMMA StartsAbove ==
    ASSUME mode \in DOMAIN Tree, NEW n \in DOMAIN Plan, NEW q \in DOMAIN Plan, Plan[n].up # 0,
           Plan[Plan[n].up].type = "parallel", StartsAt(Call("started", Plan[n].up), q)
    PROVE  StartsAt(Call("started", n), q)
<1> DEFINE p == Plan[n].up
<1>1. /\ n \in Nat /\ q \in Nat /\ p \in Nat /\ p < n /\ p \in DOMAIN Plan
      /\ \A r \in DOMAIN Plan : r \in Nat /\ Plan[r].last \in Nat
  BY Numbers, Parents
<1>2. /\ In(p, q) /\ \A r \in DOMAIN Plan : q <= r /\ r < p /\ In(p, r) => Plan[r].type = "parallel"
  BY DEF StartsAt, Call
<1>3. In(n, q)  BY <1>2, Nested
<1>4. ASSUME NEW r \in DOMAIN Plan, q <= r, r < n, In(n, r) PROVE Plan[r].type = "parallel"
  <2>1. In(p, r)  BY <1>4, Nested
  <2>2. r <= p  BY <2>1 DEF In
  <2> QED  BY <1>1, <1>2, <1>4, <2>1, <2>2
<1> QED  BY <1>3, <1>4 DEF StartsAt, Call

\* A kid of a series is before what starts next in it.
LEMMA NextNotPassed ==
    ASSUME IInv, held["manip"] # Null, NotPassed, held'["manip"] = held["manip"], mode' = mode,
           NEW s \in DOMAIN Plan, Plan[s].type = "series", s \in begun \ done,
           holder < s \/ (\E n \in Kids(s) : index[s] = n /\ holder < n),
           StartNextAction(s)
    PROVE  NotPassed'
<1>1. Types /\ Walk /\ mode \in DOMAIN Tree  BY DEF IInv, Walked, Types
<1>2. holder' = holder /\ holder \in Nat /\ holder \in DOMAIN Plan /\ Plan' = Plan  BY Holder DEF holder, Plan
<1>3. /\ s \in Nat /\ s # 0 /\ Plan[s].last \in Nat /\ s <= Plan[s].last
      /\ \A k \in DOMAIN Plan : k \in Nat /\ Plan[k].last \in Nat
  BY <1>1, Numbers
<1>4. /\ NextOf(s) \in Nat /\ NextOf(s) <= Plan[s].last + 1
      /\ NextOf(s) <= Plan[s].last => NextOf(s) \in Kids(s)
      /\ index' = [index EXCEPT ![s] = NextOf(s)]
      /\ IF NextOf(s) <= Plan[s].last THEN call' = Call("start", NextOf(s)) /\ done' = done
         ELSE call' = Call("ran", s) /\ done' = done \cup {s}
  BY <1>1, NextKid DEF Ends
<1>5. index[s] \in Kids(s) => NextOf(s) > index[s]
  <2>1. index[s] \in Kids(s) => index[s] # 0 /\ index[s] \in DOMAIN Plan
    BY <1>1, Numbers DEF Kids
  <2> QED  BY <1>1, <2>1, Numbers DEF NextOf
<1>6. \A k \in Kids(s) : k \in DOMAIN Plan /\ s < k /\ In(k, s) /\ Plan[k].up = s
  BY <1>1, Kin DEF Composites
<1>7. \A k \in Kids(s) : ~In(holder, k)
  <2> SUFFICES ASSUME NEW k \in Kids(s), In(holder, k) PROVE FALSE  OBVIOUS
  <2>1. index[s] = k  BY <1>6 DEF NotPassed
  <2>2. k <= holder  BY DEF In
  <2> QED  BY <1>2, <1>3, <1>6, <2>1, <2>2
<1>8. \A t, k \in DOMAIN Plan : Plan[t].type = "series" /\ Plan[k].up = t /\ In(holder, k) => index'[t] = k
  <2> SUFFICES ASSUME NEW t \in DOMAIN Plan, NEW k \in DOMAIN Plan, Plan[t].type = "series",
                      Plan[k].up = t, In(holder, k)
               PROVE  index'[t] = k
    OBVIOUS
  <2>1. t # s  BY <1>7 DEF Kids
  <2>2. index'[t] = index[t]  BY <1>4, <2>1 DEF Types
  <2> QED  BY <2>2 DEF NotPassed
<1>9. CASE NextOf(s) <= Plan[s].last
  <2>1. holder < NextOf(s)
    <3>1. CASE holder < s  BY <1>2, <1>3, <1>4, <1>6, <1>9, <3>1
    <3>2. ASSUME NEW n \in Kids(s), index[s] = n, holder < n PROVE holder < NextOf(s)
      BY <1>2, <1>3, <1>4, <1>5, <1>6, <3>2
    <3> QED  BY <3>1, <3>2
  <2>2. ASSUME NEW q \in DOMAIN Plan, StartsAt(Call("start", NextOf(s)), q) PROVE q = NextOf(s)
    <3> SUFFICES ASSUME q # NextOf(s) PROVE FALSE  OBVIOUS
    <3>1. NextOf(s) \in DOMAIN Plan /\ Plan[NextOf(s)].up = s /\ s # 0  BY <1>3, <1>4, <1>6, <1>9
    <3>2. Plan[s].type = "parallel"  BY <1>1, <2>2, <3>1, StartsBelow
    <3> QED  BY <3>2
  <2>3. call' = Call("start", NextOf(s))  BY <1>4, <1>9
  <2>4. \A q \in DOMAIN Plan : Starting(q)' => holder < q
    <3>1. \A q : Starting(q)' <=> StartsAt(call', q)  BY <1>2 DEF Starting, StartsAt, In
    <3> QED  BY <2>1, <2>2, <2>3, <3>1
  <2> QED  BY <1>2, <1>8, <2>3, <2>4 DEF NotPassed, Call, In
<1>10. CASE ~ (NextOf(s) <= Plan[s].last)
  <2>1. call' = Call("ran", s)  BY <1>4, <1>10
  <2>2. holder <= Plan[s].last
    <3>1. CASE holder < s  BY <1>2, <1>3, <3>1
    <3>2. ASSUME NEW n \in Kids(s), holder < n PROVE holder <= Plan[s].last
      BY <1>2, <1>3, <1>6, <3>2 DEF In
    <3> QED  BY <3>1, <3>2
  <2> QED  BY <1>2, <1>8, <2>1, <2>2 DEF NotPassed, Call, here, In
<1> QED  BY <1>9, <1>10

LEMMA StaysUnpassed ==
    ASSUME IInv, held["manip"] # Null, NotPassed, held'["manip"] = held["manip"], mode' = mode,
           \A t, k \in DOMAIN Plan :
              Plan[t].type = "series" /\ Plan[k].up = t /\ In(holder, k) => index'[t] = index[t],
           turn' = "controller" => call'.op # "none",
           call'.op \in {"start", "started"} => \A q \in DOMAIN Plan : StartsAt(call', q) => holder < q,
           call'.op = "run" => holder < call'.n,
           call'.op = "ran" => holder <= Plan[call'.n].last
    PROVE  NotPassed'
<1>1. holder' = holder /\ Plan' = Plan  BY DEF holder, Plan
<1>2. \A q : Starting(q)' <=> StartsAt(call', q)  BY <1>1 DEF Starting, StartsAt, In
<1>3. \A t, k \in DOMAIN Plan : Plan[t].type = "series" /\ Plan[k].up = t /\ In(holder, k) => index'[t] = k
  BY DEF NotPassed
<1>4. /\ turn' = "controller" => call'.op # "none"
      /\ call'.op \in {"start", "started"} => \A q \in DOMAIN Plan : Starting(q)' => holder < q
      /\ call'.op = "run" => holder < here'
      /\ call'.op = "ran" => holder <= Plan[here'].last
  BY <1>2 DEF here
<1> QED  BY <1>1, <1>3, <1>4 DEF NotPassed, In

LEMMA WalkPassesNot ==
    ASSUME IInv, held["manip"] # Null, NotPassed, held'["manip"] = held["manip"],
           NEW n \in DOMAIN Plan, Walks(n)
    PROVE  NotPassed'
<1>1. Types /\ Walk /\ mode \in DOMAIN Tree  BY DEF IInv, Walked, Types
<1>2. holder \in Nat /\ holder \in DOMAIN Plan  BY Holder
<1>3. /\ n \in Nat /\ Plan[n].last \in Nat /\ n <= Plan[n].last
      /\ \A k \in DOMAIN Plan : k \in Nat /\ k # 0 /\ Plan[k].last \in Nat /\ k <= Plan[k].last
  BY <1>1, Numbers
<1>4. mode' = mode /\ call.n = n /\ here = n
  BY DEF Walks, StartDispatch, StartDelay, StartSeries, StartParallel, Started, RunDispatch, RunDelay,
         RunSeries, RunParallel, Ran, IsCalled, Returns, Call, here
<1>5. In(n, n) /\ StartsAt(Call("start", n), n) /\ StartsAt(Call("started", n), n)
  <2>1. In(n, n)  BY <1>3 DEF In
  <2>2. \A r \in DOMAIN Plan : ~ (n <= r /\ r < n)  BY <1>3
  <2> QED  BY <2>1, <2>2 DEF StartsAt, Call
<1>6. call = Call("start", n) \/ call = Call("started", n) =>
         /\ holder < n
         /\ \A q \in DOMAIN Plan : StartsAt(Call("start", n), q) \/ StartsAt(Call("started", n), q) => holder < q
  <2> SUFFICES ASSUME NEW op \in {"start", "started"}, call = Call(op, n)
               PROVE  /\ holder < n
                      /\ \A q \in DOMAIN Plan :
                            StartsAt(Call("start", n), q) \/ StartsAt(Call("started", n), q) => holder < q
    OBVIOUS
  <2>1. \A q : Starting(q) <=> StartsAt(Call("start", n), q)  BY DEF Starting, StartsAt, Call
  <2>2. \A q : Starting(q) <=> StartsAt(Call("started", n), q)  BY DEF Starting, StartsAt, Call
  <2>3. \A q \in DOMAIN Plan : Starting(q) => holder < q  BY DEF NotPassed, Call
  <2> QED  BY <1>5, <2>1, <2>2, <2>3
<1>7. \A k \in Kids(n) : k \in DOMAIN Plan /\ n < k /\ Plan[k].up = n
  <2> SUFFICES ASSUME NEW k \in Kids(n) PROVE k \in DOMAIN Plan /\ n < k /\ Plan[k].up = n  OBVIOUS
  <2>1. k \in DOMAIN Plan /\ Plan[k].up = n /\ n # 0  BY <1>3 DEF Kids
  <2> QED  BY <1>1, <2>1, Parents
<1>8. ASSUME (\E near \in BOOLEAN : StartDispatch(n, near)) \/ StartDelay(n) \/ StartSeries(n)
      PROVE  NotPassed'
  <2>1. call = Call("start", n) /\ call' = Call("started", n)
    BY <1>8 DEF StartDispatch, StartDelay, StartSeries, IsCalled
  <2>2. \A t, k \in DOMAIN Plan :
           Plan[t].type = "series" /\ Plan[k].up = t /\ In(holder, k) => index'[t] = index[t]
    <3> SUFFICES ASSUME NEW t \in DOMAIN Plan, NEW k \in DOMAIN Plan, Plan[k].up = t, In(holder, k)
                 PROVE  index'[t] = index[t]
      OBVIOUS
    <3>1. t # n
      <4>1. k \in Kids(t) /\ k <= holder  BY DEF Kids, In
      <4> QED  BY <1>2, <1>3, <1>6, <1>7, <2>1, <4>1
    <3> QED  BY <1>1, <1>8, <3>1 DEF StartDispatch, StartDelay, StartSeries, Types
  <2> QED  BY <1>4, <1>6, <2>1, <2>2, StaysUnpassed DEF Call
<1>9. CASE StartParallel(n)
  <2>1. call = Call("start", n) /\ call' = Call("start", n + 1) /\ index' = index /\ Plan[n].type = "parallel"
    BY <1>9 DEF StartParallel, IsCalled
  <2>2. n + 1 \in DOMAIN Plan /\ Plan[n + 1].up = n
    BY <1>1, <2>1, Kin DEF Composites, Kids
  <2>3. ASSUME NEW q \in DOMAIN Plan, StartsAt(Call("start", n + 1), q) PROVE holder < q
    <3>1. CASE q = n + 1  BY <1>2, <1>3, <1>6, <2>1, <3>1
    <3>2. CASE q # n + 1
      <4>1. StartsAt(Call("start", n), q)  BY <1>1, <1>3, <2>2, <2>3, <3>2, StartsBelow
      <4> QED  BY <1>6, <2>1, <4>1
    <3> QED  BY <3>1, <3>2
  <2> QED  BY <1>4, <2>1, <2>3, StaysUnpassed DEF Call
<1>10. CASE Started(n)
  <2>1. call = Call("started", n) /\ turn' = turn  BY <1>10 DEF Started, Returns
  <2>2. n \in begun /\ Path(n)  BY <1>1, <2>1 DEF Walk, OnPath, Call, here
  <2>3. CASE Plan[n].up = 0
    <3>1. call' = Call("run", n) /\ index' = index  BY <1>10, <2>3 DEF Started
    <3> QED  BY <1>4, <1>6, <2>1, <3>1, StaysUnpassed DEF Call
  <2>4. CASE Plan[n].up # 0
    <3> DEFINE p == Plan[n].up
    <3>1. p \in DOMAIN Plan /\ p \in begun \ done /\ p < n /\ n <= Plan[p].last /\ n \in Kids(p)
          /\ Plan[p].type \in Composites
      BY <1>1, <2>2, <2>4, PathUp, Parents DEF Kids
    <3>2. CASE Plan[p].type = "parallel" /\ Plan[n].last < Plan[p].last
      <4> DEFINE m == Plan[n].last + 1
      <4>1. call' = Call("start", m) /\ index' = index  BY <1>10, <2>4, <3>2 DEF Started
      <4>2. m \in DOMAIN Plan /\ Plan[m].up = p  BY <1>1, <3>1, <3>2, Kin DEF Kids
      <4>3. m \in Nat /\ n < m  BY <1>3
      <4> HIDE DEF m
      <4>4. ASSUME NEW q \in DOMAIN Plan, StartsAt(Call("start", m), q) PROVE holder < q
        <5>1. CASE q = m  BY <1>2, <1>3, <1>6, <2>1, <4>3, <5>1
        <5>2. CASE q # m
          <6>1. StartsAt(Call("started", n), q)
            BY <1>1, <1>3, <2>4, <4>2, <4>3, <4>4, <5>2, StartsBelow
          <6> QED  BY <1>6, <2>1, <6>1
        <5> QED  BY <5>1, <5>2
      <4> QED  BY <1>4, <4>1, <4>4, StaysUnpassed DEF Call
    <3>3. CASE Plan[p].type = "parallel" /\ ~ (Plan[n].last < Plan[p].last)
      <4>1. call' = Call("started", p) /\ index' = index  BY <1>10, <2>4, <3>3 DEF Started
      <4>2. ASSUME NEW q \in DOMAIN Plan, StartsAt(Call("started", p), q) PROVE holder < q
        <5>1. StartsAt(Call("started", n), q)  BY <1>1, <2>4, <3>3, <4>2, StartsAbove
        <5> QED  BY <1>6, <2>1, <5>1
      <4> HIDE DEF p
      <4> QED  BY <1>4, <4>1, <4>2, StaysUnpassed DEF Call
    <3>4. CASE Plan[p].type = "series" /\ n \in done
      <4>1. StartNextAction(p)  BY <1>10, <2>4, <3>4 DEF Started
      <4>2. index[p] = n
        <5>1. In(n, p)  BY <3>1, <1>3 DEF In
        <5> QED  BY <1>5, <2>2, <3>1, <3>4, <5>1 DEF Path
      <4> HIDE DEF p
      <4> QED  BY <1>4, <1>6, <2>1, <3>1, <3>4, <4>1, <4>2, NextNotPassed
    <3>5. CASE Plan[p].type = "series" /\ n \notin done
      <4>1. call' = Call("run", n) /\ index' = index  BY <1>10, <2>4, <3>5 DEF Started
      <4> QED  BY <1>4, <1>6, <2>1, <4>1, StaysUnpassed DEF Call
    <3> QED  BY <3>1, <3>2, <3>3, <3>4, <3>5 DEF Composites
  <2> QED  BY <2>3, <2>4
<1>11. CASE RunDispatch(n) \/ RunDelay(n)
  <2>1. call = Call("run", n) /\ call' = Call("ran", n) /\ index' = index
    BY <1>11 DEF RunDispatch, RunDelay, IsCalled
  <2>2. holder < n  BY <1>4, <2>1 DEF NotPassed, Call
  <2>3. holder <= Plan[n].last  BY <1>2, <1>3, <2>2
  <2> QED  BY <1>4, <2>1, <2>3, StaysUnpassed DEF Call
<1>12. CASE RunSeries(n)
  <2>1. call = Call("run", n) /\ Plan[n].type = "series"  BY <1>12 DEF RunSeries, IsCalled
  <2>2. holder < n  BY <1>4, <2>1 DEF NotPassed, Call
  <2>3. n \in begun \ done /\ InSeries(n)  BY <1>1, <2>1 DEF Walk, OnPath, Series, Call, here
  <2>4. CASE index[n] # 0 /\ index[n] \notin done
    <3>1. call' = Call("run", index[n]) /\ index' = index  BY <1>12, <2>4 DEF RunSeries
    <3>2. index[n] \in Kids(n)
      <4>1. index[n] = Plan[n].last + 1 => n \in done  BY <2>3 DEF InSeries
      <4> QED  BY <2>3, <2>4, <4>1 DEF InSeries
    <3>3. holder < index[n]  BY <1>2, <1>3, <1>7, <2>2, <3>2
    <3> QED  BY <1>4, <3>1, <3>3, StaysUnpassed DEF Call
  <2>5. CASE ~ (index[n] # 0 /\ index[n] \notin done)
    <3>1. StartNextAction(n)  BY <1>12, <2>5 DEF RunSeries
    <3> QED  BY <1>4, <2>1, <2>2, <2>3, <3>1, NextNotPassed
  <2> QED  BY <2>4, <2>5
<1>13. CASE RunParallel(n)
  <2>1. call = Call("run", n) /\ RunFrom(n, n + 1) /\ index' = index
    BY <1>13 DEF RunParallel, IsCalled
  <2>2. holder < n  BY <1>4, <2>1 DEF NotPassed, Call
  <2>3. (\E i \in Kids(n) : call' = Call("run", i)) \/ call' = Call("ran", n)
    BY <2>1 DEF RunFrom
  <2>4. ASSUME NEW i \in Kids(n), call' = Call("run", i) PROVE NotPassed'
    <3>1. holder < i  BY <1>2, <1>3, <1>7, <2>2
    <3> QED  BY <1>4, <2>1, <2>4, <3>1, StaysUnpassed DEF Call
  <2>5. CASE call' = Call("ran", n)
    <3>1. holder <= Plan[n].last  BY <1>2, <1>3, <2>2
    <3> QED  BY <1>4, <2>1, <2>5, <3>1, StaysUnpassed DEF Call
  <2> QED  BY <2>3, <2>4, <2>5
<1>14. CASE Ran(n)
  <2>1. call = Call("ran", n) /\ index' = index  BY <1>14 DEF Ran, Returns
  <2>2. holder <= Plan[n].last  BY <1>4, <2>1 DEF NotPassed, Call
  <2>3. CASE Plan[n].up = 0
    <3>1. call' = Idle /\ turn' = "children"  BY <1>14, <2>3 DEF Ran
    <3> QED  BY <1>4, <2>1, <3>1, StaysUnpassed DEF Idle, Call
  <2>4. CASE Plan[n].up # 0
    <3> DEFINE p == Plan[n].up
    <3>1. n \in begun /\ Path(n)  BY <1>1, <2>1 DEF Walk, OnPath, Call, here
    <3>2. p \in DOMAIN Plan /\ p < n /\ n \in Kids(p) /\ Plan[n].last <= Plan[p].last
      <4>1. p \in DOMAIN Plan /\ p < n /\ Plan[p].type \in Composites  BY <1>1, <2>4, Parents
      <4>2. n \in Kids(p)  BY DEF Kids
      <4> QED  BY <1>1, <4>1, <4>2, Kin
    <3>3. holder <= Plan[p].last  BY <1>2, <1>3, <2>2, <3>2
    <3>4. \/ call' = Call("ran", p)
          \/ \E i \in Kids(p) : i >= Plan[n].last + 1 /\ call' = Call("run", i)
      BY <1>14, <2>4 DEF Ran, RunFrom
    <3>5. CASE call' = Call("ran", p)
      <4> HIDE DEF p
      <4> QED  BY <1>4, <2>1, <3>3, <3>5, StaysUnpassed DEF Call
    <3>6. ASSUME NEW i \in Kids(p), i >= Plan[n].last + 1, call' = Call("run", i) PROVE NotPassed'
      <4>1. i \in Nat  BY <1>3 DEF Kids
      <4>2. holder < i  BY <1>2, <1>3, <2>2, <3>6, <4>1
      <4> QED  BY <1>4, <2>1, <3>6, <4>2, StaysUnpassed DEF Call
    <3> QED  BY <3>4, <3>5, <3>6
  <2> QED  BY <2>3, <2>4
<1> QED  BY <1>8, <1>9, <1>10, <1>11, <1>12, <1>13, <1>14 DEF Walks

\* The holder's run() sees the end of its action: the walk is just there.
LEMMA SeesTheEnd ==
    ASSUME IInv, held["manip"] # Null, holder \notin done, holder \in done', held'["manip"] = held["manip"],
           NEW n \in DOMAIN Plan, Walks(n)
    PROVE  NotPassed'
<1>1. Types /\ Walk /\ mode \in DOMAIN Tree  BY DEF IInv, Walked, Types
<1>2. /\ holder \in Dispatches(Plan) \cap begun /\ holder \in DOMAIN Plan /\ holder \in Nat
      /\ Plan[holder].type = "dispatch"
  BY Holder DEF Dispatches
<1>3. RunDispatch(n) /\ holder = n
  <2>1. ASSUME NEW near \in BOOLEAN, StartDispatch(n, near) PROVE FALSE
    <3>1. n \notin begun /\ (done' = done \/ done' = done \cup {n})
      BY <1>1, <2>1, Dispatched DEF IInv, Walked
    <3> QED  BY <1>2, <3>1
  <2>2. ~StartDelay(n) /\ ~StartSeries(n) /\ ~StartParallel(n)
    BY DEF StartDelay, StartSeries, StartParallel
  <2>3. ~RunDelay(n) /\ ~RunSeries(n) /\ ~RunParallel(n)
    BY <1>2 DEF RunDelay, RunSeries, RunParallel, RunFrom, StartNextAction, Ends, IsCalled
  <2>4. ASSUME Started(n) \/ Ran(n) PROVE FALSE
    <3>1. CASE Plan[n].up = 0  BY <2>4, <3>1 DEF Started, Ran
    <3>2. CASE Plan[n].up # 0
      <4>1. Plan[Plan[n].up].type \in Composites  BY <1>1, <3>2, Parents
      <4> QED  BY <1>2, <2>4, <3>2, <4>1 DEF Started, Ran, StartNextAction, RunFrom, Ends, Composites
    <3> QED  BY <3>1, <3>2
  <2>5. RunDispatch(n)  BY <2>1, <2>2, <2>3, <2>4 DEF Walks
  <2> QED  BY <2>5 DEF RunDispatch, Ends
<1>4. /\ mode' = mode /\ index' = index /\ call = Call("run", n) /\ call' = Call("ran", n)
  BY <1>3 DEF RunDispatch, IsCalled
<1>5. holder' = holder /\ Plan' = Plan  BY <1>4 DEF holder, Plan
<1>6. \A t, k \in DOMAIN Plan : Plan[t].type = "series" /\ Plan[k].up = t /\ In(holder, k) => index[t] = k
  <2> SUFFICES ASSUME NEW t \in DOMAIN Plan, NEW k \in DOMAIN Plan, Plan[t].type = "series",
                      Plan[k].up = t, In(holder, k)
               PROVE  index[t] = k
    OBVIOUS
  <2>1. k \in Kids(t) /\ t < k /\ In(k, t) /\ t \in Nat /\ k \in Nat
        /\ Plan[k].last <= Plan[t].last /\ Plan[k].last \in Nat /\ Plan[t].last \in Nat
    BY <1>1, Kin, Numbers DEF Kids, Composites
  <2>2. t < holder /\ In(holder, t)  BY <1>2, <2>1 DEF In
  <2>3. Path(holder)  BY <1>1, <1>3, <1>4 DEF Walk, OnPath, Call, here
  <2> QED  BY <2>1, <2>2, <2>3 DEF Path
<1>7. holder <= Plan[holder].last  BY <1>1, <1>2, Numbers
<1> QED  BY <1>3, <1>4, <1>5, <1>6, <1>7 DEF NotPassed, Call, here, In

LEMMA WalkDrops ==
    ASSUME Alone, NEW n \in DOMAIN Plan, Walks(n)
    PROVE  SeenIsDropped'
<1> SUFFICES ASSUME held'["manip"] # Null, Plan'[holder'].wait, holder' \in done' PROVE NotPassed'
  BY DEF SeenIsDropped
<1>1. Types /\ Walk /\ IInv /\ Attached  BY DEF Alone, IInv, Walked
<1>2. "manip" \in Subs  BY DEF Subs
<1>3. held'["manip"] = held["manip"] /\ mode' = mode
  <2>1. ASSUME NEW near \in BOOLEAN, StartDispatch(n, near) PROVE held'["manip"] = held["manip"] /\ mode' = mode
    <3>1. /\ n \notin begun /\ mode' = mode
          /\ done' = done \/ (done' = done \cup {n} /\ ~Plan[n].wait)
          /\ held'[Plan[n].sub] = Object(n)
          /\ Plan[n].sub # "manip" => held'["manip"] \in {held["manip"], Null}
      BY <1>1, <1>2, <2>1, Dispatched
    <3>2. Plan[n].sub # "manip"
      <4> SUFFICES ASSUME Plan[n].sub = "manip" PROVE FALSE  OBVIOUS
      <4>1. holder' = n /\ Plan' = Plan  BY <3>1 DEF holder, Object, Plan
      <4> QED  BY <1>1, <3>1, <4>1 DEF Types
    <3> QED  BY <3>1, <3>2
  <2>2. ASSUME \A near \in BOOLEAN : ~StartDispatch(n, near)
        PROVE  held'["manip"] = held["manip"] /\ mode' = mode
    BY <1>1, <2>2, OthersWait DEF objects, Alone, IInv, Walked
  <2> QED  BY <2>1, <2>2
<1>4. holder' = holder /\ Plan' = Plan /\ held["manip"] # Null  BY <1>3 DEF holder, Plan
<1>5. CASE holder \in done
  <2>1. NotPassed  BY <1>4, <1>5 DEF Alone, SeenIsDropped
  <2> QED  BY <1>1, <1>3, <1>4, <2>1, WalkPassesNot
<1>6. CASE holder \notin done  BY <1>1, <1>3, <1>4, <1>6, SeesTheEnd
<1> QED  BY <1>5, <1>6

\* Between the turns of the controller.
LEMMA RestDrops ==
    ASSUME Alone, UNCHANGED <<mode, walk>>, held' = held, turn' # "controller" \/ turn' = turn
    PROVE  SeenIsDropped'
<1>1. Plan' = Plan /\ holder' = holder /\ done' = done /\ index' = index /\ call' = call
  BY DEF Plan, holder, walk
<1>2. NotPassed => NotPassed'
  BY <1>1 DEF NotPassed, Starting, StartsAt, In, here
<1> QED  BY <1>1, <1>2 DEF Alone, SeenIsDropped

LEMMA AloneKept == Alone /\ [Next]_vars => Alone'
<1> SUFFICES ASSUME Alone, [Next]_vars PROVE Alone'  OBVIOUS
<1>1. IInv'  BY IInvKept DEF Alone
<1>2. Types /\ Walk /\ Waited /\ Attached /\ IInv  BY DEF Alone, IInv, Walked
<1>3. CASE BeginTurn
  <2>1. /\ mode' = mode /\ begun' = begun /\ done' = done /\ index' = index /\ held' = held /\ cut' = cut
        /\ turn = "controller" /\ call.op = "none"
    BY <1>3 DEF BeginTurn, objects, Idle, Call
  <2>2. HolderIsLast' /\ ChildIsAlone' /\ AwaitedIsNotCut'  BY <2>1, OthersAreApart
  <2>3. ~NotPassed  BY <2>1 DEF NotPassed
  <2>4. SeenIsDropped'
    <3>1. Plan' = Plan /\ holder' = holder  BY <2>1 DEF Plan, holder
    <3> QED  BY <2>1, <2>3, <3>1 DEF Alone, SeenIsDropped
  <2> QED  BY <1>1, <2>2, <2>4 DEF Alone
<1>4. ASSUME NEW n \in DOMAIN Plan, Walks(n) PROVE Alone'
  <2>1. SeenIsDropped'  BY <1>4, WalkDrops
  <2>2. ASSUME NEW near \in BOOLEAN, StartDispatch(n, near)
        PROVE  HolderIsLast' /\ ChildIsAlone' /\ AwaitedIsNotCut'
    BY <2>2, DispatchIsApart
  <2>3. ASSUME \A near \in BOOLEAN : ~StartDispatch(n, near)
        PROVE  HolderIsLast' /\ ChildIsAlone' /\ AwaitedIsNotCut'
    <3>1. mode' = mode /\ held' = held /\ cut' = cut
      BY <1>2, <1>4, <2>3, OthersWait DEF objects
    <3>2. done \subseteq done'
      BY <1>4 DEF Walks, StartDispatch, StartDelay, StartSeries, StartParallel, Started, RunDispatch, RunDelay,
                  RunSeries, RunParallel, Ran, StartNextAction, RunFrom, Ends
    <3>3. \A d \in Dispatches(Plan) : d \in begun' => d \in begun
      BY <1>4, <2>3 DEF Walks, StartDelay, StartSeries, StartParallel, Started, RunDispatch, RunDelay,
                        RunSeries, RunParallel, Ran, IsCalled, Dispatches
    <3> QED  BY <3>1, <3>2, <3>3, OthersAreApart
  <2> QED  BY <1>1, <2>1, <2>2, <2>3 DEF Alone
<1>5. ASSUME \/ \E s \in Subs : MoveDone(s)
             \/ DelayOver
             \/ \E step \in Steps : ConveyorMoves(step)
             \/ \E sample \in {"lost", "wait", "ready"} : ChildrenRan(sample)
             \/ UNCHANGED vars
      PROVE  Alone'
  <2>1. /\ UNCHANGED <<mode, walk>> /\ held' = held /\ cut' = cut
        /\ turn' # "controller" \/ turn' = turn
    BY <1>5 DEF MoveDone, DelayOver, ConveyorMoves, ChildrenRan, vars, objects
  <2>2. HolderIsLast' /\ ChildIsAlone' /\ AwaitedIsNotCut'  BY <2>1, OthersAreApart DEF walk
  <2>3. SeenIsDropped'  BY <2>1, RestDrops
  <2> QED  BY <1>1, <2>2, <2>3 DEF Alone
<1>6. CASE ManipRuns
  <2>1. HolderIsLast' /\ ChildIsAlone' /\ AwaitedIsNotCut'  BY <1>6, ManipIsApart
  <2>2. SeenIsDropped'
    <3> SUFFICES ASSUME held'["manip"] # Null, Plan'[holder'].wait, holder' \in done' PROVE FALSE
      BY DEF SeenIsDropped
    <3>1. /\ "manip" \in Subs /\ mode' = mode /\ done' = done
          /\ held'["manip"] \in {held["manip"], Null}
          /\ held["manip"] \in finished => held'["manip"] = Null
      BY <1>2, <1>6, ManipRan DEF ManipLeaves, Subs
    <3>2. Plan' = Plan /\ holder' = holder /\ held["manip"] # Null  BY <3>1 DEF Plan, holder
    <3>3. held["manip"] = Object(holder) /\ holder \in Dispatches(Plan)  BY <1>2, <3>2, Holder
    <3>4. Object(holder) \in finished  BY <1>2, <3>1, <3>2, <3>3 DEF Waited
    <3> QED  BY <3>1, <3>3, <3>4
  <2> QED  BY <1>1, <2>1, <2>2 DEF Alone
<1>7. CASE Disable
  <2>1. held' = [s \in Subs |-> Null] /\ cut' = {}  /\ "manip" \in Subs  BY <1>7 DEF Disable, Subs
  <2> QED  BY <1>1, <2>1 DEF Alone, HolderIsLast, ChildIsAlone, SeenIsDropped, AwaitedIsNotCut
<1> QED  BY <1>3, <1>4, <1>5, <1>6, <1>7 DEF Next

LEMMA AloneStarts == Init => Alone
<1> SUFFICES ASSUME Init PROVE Alone  OBVIOUS
<1>1. IInv  BY IInvStarts
<1>2. held = [s \in Subs |-> Null] /\ cut = {} /\ "manip" \in Subs  BY DEF Init, Subs
<1> QED  BY <1>1, <1>2 DEF Alone, HolderIsLast, ChildIsAlone, SeenIsDropped, AwaitedIsNotCut

\* No request that comes from elsewhere, no fall back of the manipulator and no
\* later step of the mode itself cancels an action that the mode still waits
\* for, in any mode whose blocking steps are ordered as Disciplined says.
THEOREM WaitsAreHonoured == Spec => []AwaitedIsNotCut
<1>1. Init => Alone  BY AloneStarts
<1>2. Alone => AwaitedIsNotCut  BY DEF Alone
<1> QED  BY <1>1, <1>2, AloneKept, PTL DEF Spec
-----------------------------------------------------------------------------
(***************************************************************************)
(* Every volley and every collect begins prepared.                         *)
(***************************************************************************)
\* What the preparation with action k is for.
Prep(k) == IF k = "PrepareToEmit" THEN balls = 0 \/ "fire" \in staged
           ELSE balls = MaxBalls \/ "collect" \in staged

\* From a preparation to what it is for the conveyor has no other action, and
\* when the preparation is over its result stays.
StaysPrepared ==
    \A a, n \in Dispatches(Plan) : Primes(Plan, a, n) /\ a \in begun /\ n \notin begun =>
        /\ held["manip"] = Null
        /\ Works("conveyor") => held["conveyor"] = Object(a)
        /\ Object(a) \in finished => Prep(Plan[a].act)

\* What an action does that is not given to the manipulator.
LEMMA GivesAway ==
    ASSUME Alone, NEW m \in DOMAIN Plan, NEW near \in BOOLEAN, StartDispatch(m, near),
           Plan[m].sub # "manip"
    PROVE  /\ finished' \subseteq finished \cup {held[Plan[m].sub], Object(m)}
           /\ Plan[m].sub = "conveyor" => Object(m) \notin finished'
           /\ Plan[m].sub # "conveyor" => balls' = balls
<1> DEFINE w == World(near)
           o == Object(m)
           s == Plan[m].sub
           v == Attach(w, s, o)
<1>1. Types /\ Walk /\ Attached /\ mode \in DOMAIN Tree  BY DEF Alone, IInv, Walked, Types
<1>2. m \in Dispatches(Plan) /\ s \in Subs /\ Plan[m].act \in Acts(s) /\ m # 0  BY <1>1, Dispatched
<1>3. /\ Plan[m].act \in Kinds \ {"StartCollect", "StopCollect", "Fire"}
      /\ s = "conveyor" => Plan[m].act \notin {"GoTo", "CollectOn", "CollectOff"}
      /\ s # "conveyor" => Plan[m].act # "SetBalls"
      /\ Below(s) = {}
  BY <1>2 DEF Acts, Kinds, Subs, Under, Below
<1>4. o \in Objects /\ o # Null /\ o.kind = Plan[m].act
  BY <1>1, <1>2, <1>3, Numbers DEF Object, Objects, Dispatches, Null
<1>5. IsWorld(w) /\ w.held = held /\ w.finished = finished /\ w.balls = balls
  BY <1>1 DEF IsWorld, World, Attached
<1>6. SetAction(w, s, o) = v  BY <1>3, <1>4 DEF SetAction
<1>7. finished' = v.finished /\ balls' = v.balls  BY <1>6 DEF StartDispatch, Become
<1> HIDE DEF w, o
<1>8. AttachedTo(w, v, s, o)  BY <1>2, <1>4, <1>5, Attaches
<1> HIDE DEF v
<1>9. Working(w, {s} \cup Below(s)) \subseteq {held[s]}  BY <1>3, <1>5 DEF Working
<1> QED  BY <1>3, <1>4, <1>5, <1>7, <1>8, <1>9 DEF AttachedTo, o

\* A dispatch begins.
LEMMA DispatchStaysPrepared ==
    ASSUME Alone, StaysPrepared, NEW m \in DOMAIN Plan, NEW near \in BOOLEAN, StartDispatch(m, near)
    PROVE  StaysPrepared'
<1>1. /\ Types /\ Walk /\ Attached /\ mode \in DOMAIN Tree
      /\ "manip" \in Subs /\ "conveyor" \in Subs /\ "conveyor" \in Under
  BY DEF Alone, IInv, Walked, Types, Subs, Under
<1>2. /\ m \in Dispatches(Plan) /\ m \notin begun /\ begun' = begun \cup {m} /\ mode' = mode
      /\ held'[Plan[m].sub] = Object(m) /\ staged' = staged
      /\ \A r \in Subs : r # Plan[m].sub =>
            held'[r] \in {held[r], Null} \/ Plan[m].sub = "manip"
      /\ \A x \in finished : x.at = m \/ x \in finished'
  BY <1>1, Dispatched
<1>3. Plan' = Plan /\ \A d : Object(d)' = Object(d) /\ Object(d).at = d  BY <1>2 DEF Plan, Object
<1>4. call.op = "start" /\ here = m  BY DEF StartDispatch, IsCalled, Call, here
<1> SUFFICES ASSUME NEW a \in Dispatches(Plan), NEW n \in Dispatches(Plan), Primes(Plan, a, n),
                    a \in begun', n \notin begun'
             PROVE  /\ held'["manip"] = Null
                    /\ Works("conveyor")' => held'["conveyor"] = Object(a)
                    /\ Object(a) \in finished' => Prep(Plan[a].act)'
  BY <1>3 DEF StaysPrepared
<1>5. Plan[a].sub = "conveyor" /\ Plan[a].wait /\ m # n  BY <1>2 DEF Primes
<1>6. CASE m = a
  <2>1. held["manip"] = Null  BY <1>1, <1>2, <1>4, <1>5, <1>6, StartFindsNone
  <2>2. Object(a) \notin finished'  BY <1>5, <1>6, GivesAway
  <2> QED  BY <1>1, <1>2, <1>5, <1>6, <2>1, <2>2
<1>7. CASE m # a
  <2>1. a \in begun /\ n \notin begun  BY <1>2, <1>7
  <2>2. /\ held["manip"] = Null
        /\ Works("conveyor") => held["conveyor"] = Object(a)
        /\ Object(a) \in finished => Prep(Plan[a].act)
    BY <2>1 DEF StaysPrepared
  <2>3. Plan[m].sub \notin {"conveyor", "manip"}
    <3> SUFFICES ASSUME Plan[m].sub \in {"conveyor", "manip"} PROVE FALSE  OBVIOUS
    <3>1. Before(Plan, m, a) \/ Before(Plan, n, m)  BY <1>2, <1>5, <1>7 DEF Primes
    <3>2. CASE Before(Plan, m, a)
      <4>1. m \in done  BY <1>1, <2>1, <3>2, BeforeBegun
      <4> QED  BY <1>1, <1>2, <4>1 DEF Types
    <3>3. CASE Before(Plan, n, m)
      <4>1. n \in done  BY <1>1, <1>4, <3>3, BeforeStart DEF Dispatches
      <4> QED  BY <1>1, <2>1, <4>1 DEF Types
    <3> QED  BY <3>1, <3>2, <3>3
  <2>4. /\ held'["manip"] \in {held["manip"], Null}
        /\ held'["conveyor"] \in {held["conveyor"], Null}
    BY <1>1, <1>2, <2>3
  <2>5. /\ finished' \subseteq finished \cup {held[Plan[m].sub], Object(m)} /\ balls' = balls
    BY <2>3, GivesAway
  <2>6. held[Plan[m].sub] # Object(a)
    <3>1. Plan[m].sub \in Subs  BY <1>1, Dispatched
    <3>2. Object(a) # Null  BY <1>1, <1>3, Numbers DEF Null, Dispatches
    <3> QED  BY <1>1, <1>3, <1>5, <2>3, <3>1, <3>2 DEF Attached
  <2>7. Object(a) \in finished' => Prep(Plan[a].act)'
    BY <1>2, <1>3, <1>7, <2>2, <2>5, <2>6 DEF Prep
  <2>8. Works("conveyor")' => held'["conveyor"] = Object(a)
    <3> SUFFICES ASSUME held'["conveyor"] # Null, held'["conveyor"] \notin finished'
                 PROVE  held'["conveyor"] = Object(a)
      BY DEF Works
    <3>1. held'["conveyor"] = held["conveyor"] /\ held["conveyor"].at # m
      BY <1>1, <1>2, <2>4 DEF Attached
    <3> QED  BY <1>2, <2>2, <3>1 DEF Works
  <2> QED  BY <2>2, <2>4, <2>7, <2>8
<1> QED  BY <1>6, <1>7

\* What the conveyor does for a preparation leaves what was asked for.
LEMMA ConveyorPrepares ==
    ASSUME Alone, StaysPrepared, NEW step, ConveyorMoves(step)
    PROVE  StaysPrepared'
<1>1. /\ mode' = mode /\ begun' = begun /\ held' = held /\ finished \subseteq finished' /\ Works("conveyor")
  BY DEF ConveyorMoves, walk
<1>2. Plan' = Plan /\ \A d : Object(d)' = Object(d) /\ Object(d).kind = Plan[d].act  BY <1>1 DEF Plan, Object
<1> SUFFICES ASSUME NEW a \in Dispatches(Plan), NEW n \in Dispatches(Plan), Primes(Plan, a, n),
                    a \in begun, n \notin begun
             PROVE  /\ held'["manip"] = Null
                    /\ Works("conveyor")' => held'["conveyor"] = Object(a)
                    /\ Object(a) \in finished' => Prep(Plan[a].act)'
  BY <1>1, <1>2 DEF StaysPrepared
<1>3. held["manip"] = Null /\ held["conveyor"] = Object(a)  BY <1>1 DEF StaysPrepared
<1>4. held["conveyor"].kind \in {"PrepareToEmit", "PrepareToReceive"} /\ Object(a) \notin finished
      /\ held["conveyor"].kind = Plan[a].act
  BY <1>1, <1>2, <1>3 DEF Primes, Works
<1>5. ASSUME Object(a) \in finished' PROVE Prep(Plan[a].act)'
  <2>1. Ledger!Finish  BY <1>4, <1>5 DEF ConveyorMoves
  <2>2. Ledger!Achieved(held["conveyor"].kind) /\ balls' = balls /\ staged' = staged
    BY <1>1, <2>1 DEF Ledger!Finish
  <2> QED  BY <1>2, <1>4, <2>2 DEF Prep, Ledger!Achieved, Ledger!Empty, Ledger!Full
<1> QED  BY <1>1, <1>3, <1>5

LEMMA PreparedKept == Alone /\ StaysPrepared /\ [Next]_vars => StaysPrepared'
<1> SUFFICES ASSUME Alone, StaysPrepared, [Next]_vars PROVE StaysPrepared'  OBVIOUS
<1>1. Types /\ Walk /\ Waited /\ Attached /\ IInv  BY DEF Alone, IInv, Walked
<1>2. ASSUME mode' = mode, \A d \in Dispatches(Plan) : d \in begun' => d \in begun, begun \subseteq begun',
             held' = held, UNCHANGED conveyor,
             finished' \subseteq finished \cup {x \in finished' : x.kind \in Timed \cup Acts("manip")},
             finished \subseteq finished'
      PROVE  StaysPrepared'
  <2>1. Plan' = Plan /\ \A d : Object(d)' = Object(d) /\ Object(d).kind = Plan[d].act
    BY <1>2 DEF Plan, Object
  <2>2. ASSUME NEW a \in Dispatches(Plan), NEW n \in Dispatches(Plan), Primes(Plan, a, n)
        PROVE  Object(a) \in finished' => Object(a) \in finished
    BY <1>2, <2>1, <2>2 DEF Primes, Timed, Acts
  <2> QED  BY <1>2, <2>1, <2>2 DEF StaysPrepared, Works, Prep, conveyor
<1>3. CASE BeginTurn \/ DelayOver \/ UNCHANGED vars
  BY <1>2, <1>3 DEF BeginTurn, DelayOver, vars, objects, walk
<1>4. ASSUME NEW n \in DOMAIN Plan, Walks(n) PROVE StaysPrepared'
  <2>1. ASSUME NEW near \in BOOLEAN, StartDispatch(n, near) PROVE StaysPrepared'
    BY <2>1, DispatchStaysPrepared
  <2>2. ASSUME \A near \in BOOLEAN : ~StartDispatch(n, near) PROVE StaysPrepared'
    <3>1. mode' = mode /\ begun \subseteq begun' /\ objects' = objects /\ conveyor' = conveyor
      BY <1>1, <1>4, <2>2, OthersWait
    <3>2. \A d \in Dispatches(Plan) : d \in begun' => d \in begun
      BY <1>4, <2>2 DEF Walks, StartDelay, StartSeries, StartParallel, Started, RunDispatch, RunDelay,
                        RunSeries, RunParallel, Ran, IsCalled, Dispatches
    <3> QED  BY <1>2, <3>1, <3>2 DEF objects
  <2> QED  BY <2>1, <2>2
<1>5. ASSUME NEW s \in Subs, MoveDone(s) PROVE StaysPrepared'
  BY <1>2, <1>5 DEF MoveDone, walk
<1>6. ASSUME NEW step, ConveyorMoves(step) PROVE StaysPrepared'  BY <1>6, ConveyorPrepares
<1>7. ASSUME NEW sample, ChildrenRan(sample) PROVE StaysPrepared'
  BY <1>2, <1>7 DEF ChildrenRan, objects, walk
<1>8. CASE ManipRuns
  <2>1. mode' = mode /\ begun' = begun  BY <1>8 DEF ManipRuns, walk
  <2>2. CASE held["manip"] = Null
    <3>1. Become(World(FALSE)) /\ staged' = staged /\ collecting' = collecting
      BY <1>8, <2>2 DEF ManipRuns
    <3>2. held' = held /\ finished' = finished /\ balls' = balls /\ stopping' = stopping
      BY <3>1 DEF Become, World
    <3> QED  BY <1>2, <2>1, <3>1, <3>2 DEF conveyor
  <2>3. CASE held["manip"] # Null
    <3>1. \A a, n \in Dispatches(Plan) : ~ (Primes(Plan, a, n) /\ a \in begun /\ n \notin begun)
      BY <2>3 DEF StaysPrepared
    <3>2. Plan' = Plan  BY <2>1 DEF Plan
    <3> QED  BY <2>1, <3>1, <3>2 DEF StaysPrepared
  <2> QED  BY <2>2, <2>3
<1>9. CASE Disable  BY <1>9 DEF Disable, StaysPrepared
<1> QED  BY <1>3, <1>4, <1>5, <1>6, <1>7, <1>8, <1>9 DEF Next

\* Whatever a step begins that was prepared for finds it prepared.
LEMMA StepPrepared ==
    ASSUME \A m \in DOMAIN Tree : Primed(Tree[m]), Alone, StaysPrepared, Next, NEW n \in begun' \ begun
    PROVE  Prepared(n)
<1> SUFFICES ASSUME n \in Dispatches(Plan), Plan[n].act \in {"Fire", "StartCollect"}
             PROVE  Prep(IF Plan[n].act = "Fire" THEN "PrepareToEmit" ELSE "PrepareToReceive")
  <2>1. n \in DOMAIN Plan
    <3>1. mode' = mode \/ begun' = {}
      BY DEF Next, BeginTurn, Walks, StartDispatch, StartDelay, StartSeries, StartParallel, Started,
             RunDispatch, RunDelay, RunSeries, RunParallel, Ran, MoveDone, DelayOver, ConveyorMoves,
             ChildrenRan, ManipRuns, Disable
    <3>2. begun' \subseteq DOMAIN Plan'  BY AloneKept DEF vars, Alone, IInv, Walked, Types
    <3> QED  BY <3>1, <3>2 DEF Plan
  <2> QED  BY <2>1 DEF Prepared, Prep, Dispatches
<1>1. Types /\ Walk /\ Waited  BY DEF Alone, IInv, Walked
<1>2. PICK near \in BOOLEAN : StartDispatch(n, near)
  <2>1. PICK m \in DOMAIN Plan : Walks(m)
    BY DEF Next, BeginTurn, MoveDone, DelayOver, ConveyorMoves, ChildrenRan, ManipRuns, Disable, walk
  <2>2. ASSUME \A near \in BOOLEAN : ~StartDispatch(m, near)
        PROVE  \A d \in Dispatches(Plan) : d \in begun' => d \in begun
    BY <2>1, <2>2 DEF Walks, StartDelay, StartSeries, StartParallel, Started, RunDispatch, RunDelay,
                      RunSeries, RunParallel, Ran, IsCalled, Dispatches
  <2>3. PICK near \in BOOLEAN : StartDispatch(m, near)  BY <2>2
  <2>4. m = n  BY <2>3 DEF StartDispatch
  <2> QED  BY <2>3, <2>4
<1>3. call.op = "start" /\ here = n  BY <1>2 DEF StartDispatch, IsCalled, Call, here
<1>4. PICK a \in Dispatches(Plan) : Primes(Plan, a, n)  BY <1>1 DEF Primed, Plan, Types
<1>5. a \in done  BY <1>1, <1>3, <1>4, BeforeStart DEF Primes, Dispatches
<1>6. a \in begun /\ Object(a) \in finished  BY <1>1, <1>4, <1>5 DEF Types, Waited, Primes
<1>7. Prep(Plan[a].act)  BY <1>4, <1>6 DEF StaysPrepared
<1> QED  BY <1>4, <1>7 DEF Primes

\* A volley begins with the balls staged for it or none at all, a collect with
\* room for them or none left, in every mode that primes them (Primed), and
\* after every disable (ConveyorEmitAction.cpp:26-29, ConveyorReceiveAction.cpp:30-33).
THEOREM BeginsArePrepared ==
    ASSUME \A m \in DOMAIN Tree : Primed(Tree[m])
    PROVE  Spec => BeginsPrepared
<1>1. Init => Alone /\ StaysPrepared
  <2> SUFFICES ASSUME Init PROVE Alone /\ StaysPrepared  OBVIOUS
  <2>1. Alone  BY AloneStarts
  <2>2. begun = {}  BY DEF Init
  <2> QED  BY <2>1, <2>2 DEF StaysPrepared
<1>2. Alone /\ StaysPrepared /\ [Next]_vars => (Alone /\ StaysPrepared)'
  BY AloneKept, PreparedKept
<1>3. Alone /\ StaysPrepared /\ [Next]_vars => [\A n \in begun' \ begun : Prepared(n)]_vars
  BY StepPrepared
<1> QED  BY <1>1, <1>2, <1>3, PTL DEF Spec, BeginsPrepared
-----------------------------------------------------------------------------
(***************************************************************************)
(* The conveyor and the modes that use it.                                 *)
(***************************************************************************)
Granted == Ledger!LedgerNext \/ UNCHANGED Ledger!ledger

\* The conveyor's job in world w.
JobIn(w) ==
    IF w.held["conveyor"] # Null /\ w.held["conveyor"] \notin w.finished
    THEN w.held["conveyor"].kind ELSE "none"

\* What turns w into v lets the conveyor go on, takes its action away, gives it
\* one or asks its emit to stop.
Asks(w, v) ==
    \/ JobIn(v) \in {JobIn(w), "none"} /\ v.balls = w.balls /\ v.stopping = w.stopping
    \/ /\ JobIn(v) \in Jobs
       /\ v.balls = IF JobIn(v) = "SetBalls" THEN Loaded ELSE w.balls
       /\ v.stopping = (w.stopping /\ JobIn(v) # "Emit")
    \/ JobIn(v) = "Emit" /\ JobIn(w) = "Emit" /\ v.balls = w.balls /\ v.stopping = TRUE

\* The job is that of the world the requests start from.
LEMMA AsksIsGranted ==
    ASSUME NEW near, NEW v, Asks(World(near), v), held' = v.held, finished' = v.finished,
           balls' = v.balls, stopping' = v.stopping, staged' = staged, collecting' = collecting
    PROVE  Granted
<1> DEFINE w == World(near)
           job == IF Works("conveyor") THEN held["conveyor"].kind ELSE "none"
<1>1. JobIn(w) = job /\ JobIn(v) = job' /\ w.balls = balls /\ w.stopping = stopping
  BY DEF JobIn, World, Works
<1> HIDE DEF w
<1>2. CASE job' \in {job, "none"} /\ balls' = balls /\ stopping' = stopping
  BY <1>2 DEF Granted, Ledger!LedgerNext, Ledger!Cancel, Ledger!ledger
<1>3. CASE /\ job' \in Jobs /\ balls' = (IF job' = "SetBalls" THEN Loaded ELSE balls)
           /\ stopping' = (stopping /\ job' # "Emit")
  <2>1. Loaded \in Preset \cup {0}  BY DEF Preset
  <2>2. Ledger!Assign(job', Loaded)  BY <1>3 DEF Ledger!Assign
  <2> QED  BY <1>3, <2>1, <2>2 DEF Granted, Ledger!LedgerNext
<1>4. CASE job' = "Emit" /\ job = "Emit" /\ balls' = balls /\ stopping' = TRUE
  BY <1>4 DEF Granted, Ledger!LedgerNext, Ledger!AskStop
<1> QED  BY <1>1, <1>2, <1>3, <1>4 DEF Asks, w

LEMMA GivenElsewhere ==
    ASSUME NEW w, IsWorld(w), NEW s \in Subs \ {"conveyor"}, NEW o \in Objects, o # Null,
           o.kind \notin {"SetBalls", "Emit"}, o # w.held["conveyor"], w.stopping \in BOOLEAN
    PROVE  LET a == Attach(w, s, o) IN
           /\ IsWorld(a) /\ JobIn(a) \in {JobIn(w), "none"} /\ a.balls = w.balls
           /\ a.stopping = w.stopping
           /\ a.held["conveyor"] \in {w.held["conveyor"], Null}
<1> DEFINE a == Attach(w, s, o)
<1>1. AttachedTo(w, a, s, o)  BY Attaches
<1> HIDE DEF a
<1>2. "conveyor" \in Subs  BY DEF Subs, Under
<1>3. a.held["conveyor"] \in {w.held["conveyor"], Null} /\ w.finished \subseteq a.finished \cup {o}
  BY <1>1, <1>2 DEF AttachedTo
<1>4. JobIn(a) \in {JobIn(w), "none"}  BY <1>3 DEF JobIn
<1>5. IsWorld(a) /\ a.balls = w.balls /\ a.stopping = w.stopping  BY <1>1 DEF AttachedTo
<1> QED  BY <1>3, <1>4, <1>5 DEF a

LEMMA GivenToConveyor ==
    ASSUME NEW w, IsWorld(w), NEW o \in Objects, o # Null, o.kind \in Jobs
    PROVE  LET a == Attach(w, "conveyor", o) IN
           /\ JobIn(a) = o.kind /\ a.balls = IF o.kind = "SetBalls" THEN Loaded ELSE w.balls
           /\ a.stopping = (w.stopping /\ o.kind # "Emit")
<1> DEFINE a == Attach(w, "conveyor", o)
<1>1. AttachedTo(w, a, "conveyor", o)  BY Attaches DEF Subs, Under
<1> HIDE DEF a
<1>2. o \notin a.finished /\ a.held["conveyor"] = o  BY <1>1 DEF AttachedTo, Jobs
<1>3. JobIn(a) = o.kind  BY <1>2 DEF JobIn
<1> QED  BY <1>1, <1>3 DEF AttachedTo, a

\* A dispatch asks of the conveyor only what the ledger allows.
LEMMA DispatchIsGranted ==
    ASSUME IInv, NEW n \in DOMAIN Plan, NEW near \in BOOLEAN, StartDispatch(n, near)
    PROVE  Granted
<1> DEFINE w == World(near)
           o == Object(n)
           s == Plan[n].sub
           v == Attach(w, s, o)
           Part(kind) == [at |-> n, kind |-> kind]
<1>1. Types /\ Walk /\ Attached /\ mode \in DOMAIN Tree /\ stopping \in BOOLEAN
  BY DEF IInv, Walked, Types, Objected
<1>2. n \in Dispatches(Plan) /\ n \notin begun /\ s \in Subs /\ Plan[n].act \in Acts(s) /\ n # 0 /\ n \in Nat
  BY <1>1, Dispatched, Numbers
<1>3. "conveyor" \in Subs /\ "intake" \in Subs /\ "shooter" \in Subs /\ "manip" \in Subs
  BY DEF Subs, Under
<1>4. o \in Objects /\ o # Null /\ o.kind = Plan[n].act /\ o.at = n
  BY <1>2 DEF Object, Objects, Kinds, Acts, Null, Subs, Under
<1>5. /\ IsWorld(w) /\ w.held = held /\ w.balls = balls /\ w.stopping = stopping
      /\ held["conveyor"].at # n
  BY <1>1, <1>2, <1>3 DEF IsWorld, World, Attached, Null
<1>6. \A kind \in {"CollectOn", "CollectOff", "Receive", "Stop", "Velocity"} :
         Part(kind) \in Objects /\ Part(kind) # Null /\ Part(kind).kind = kind /\ Part(kind).at = n
  BY <1>2 DEF Objects, Kinds, Null
<1>7. Asks(w, SetAction(w, s, o))
  <2> HIDE DEF w, o, Part, s
  <2>1. CASE s = "conveyor"
    <3>1. o.kind \in Jobs /\ o.kind \notin {"StartCollect", "StopCollect", "Fire"}
      BY <1>2, <1>4, <2>1 DEF Acts, Jobs, s
    <3>2. SetAction(w, s, o) = v  BY <3>1 DEF SetAction, v
    <3>3. /\ JobIn(v) = o.kind /\ v.balls = IF o.kind = "SetBalls" THEN Loaded ELSE w.balls
          /\ v.stopping = (w.stopping /\ o.kind # "Emit")
      BY <1>4, <1>5, <2>1, <3>1, GivenToConveyor
    <3> QED  BY <3>1, <3>2, <3>3 DEF Asks
  <2>2. CASE s # "conveyor"
    <3>1. o.kind \notin {"SetBalls", "Emit"}  BY <1>2, <1>4, <2>2 DEF Acts, s, Subs, Under
    <3>2. o # w.held["conveyor"]  BY <1>4, <1>5
    <3>3. s \in Subs \ {"conveyor"} /\ w.stopping \in BOOLEAN  BY <1>1, <1>2, <1>5, <2>2
    <3>4. /\ IsWorld(v) /\ JobIn(v) \in {JobIn(w), "none"} /\ v.balls = w.balls /\ v.stopping = w.stopping
          /\ v.held["conveyor"] \in {w.held["conveyor"], Null}
      BY <1>4, <1>5, <3>1, <3>2, <3>3, GivenElsewhere
    <3> HIDE DEF v
    <3>5. ASSUME NEW r \in {"intake", "shooter"}, NEW k \in {"CollectOn", "CollectOff", "Velocity"}
          PROVE  LET a == Attach(v, r, Part(k)) IN
                 IsWorld(a) /\ JobIn(a) \in {JobIn(w), "none"} /\ a.balls = w.balls /\ a.stopping = w.stopping
      <4>1. Part(k) # v.held["conveyor"]  BY <1>5, <1>6, <3>4
      <4>2. r \in Subs \ {"conveyor"}  BY <1>3
      <4>3. Part(k).kind \notin {"SetBalls", "Emit"}  BY <1>6
      <4> QED  BY <1>6, <3>3, <3>4, <4>1, <4>2, <4>3, GivenElsewhere
    <3>6. ASSUME NEW a, IsWorld(a), a.balls = w.balls, a.stopping = w.stopping, NEW k \in {"Receive", "Stop"}
          PROVE  Asks(w, Attach(a, "conveyor", Part(k)))
      <4>1. k \in Jobs  BY DEF Jobs
      <4> DEFINE b == Attach(a, "conveyor", Part(k))
      <4>2. JobIn(b) = k /\ b.balls = a.balls /\ b.stopping = (a.stopping /\ k # "Emit")
        BY <1>6, <3>6, <4>1, GivenToConveyor
      <4> HIDE DEF b
      <4>3. Asks(w, b)  BY <3>6, <4>1, <4>2 DEF Asks
      <4> QED  BY <4>3 DEF b
    <3>7. CASE o.kind = "StartCollect"
      <4>1. SetAction(w, s, o) = Attach(Attach(v, "intake", Part("CollectOn")), "conveyor", Part("Receive"))
        BY <1>4, <3>7 DEF SetAction, v, Part
      <4> QED  BY <3>5, <3>6, <4>1
    <3>8. CASE o.kind = "StopCollect"
      <4>1. SetAction(w, s, o) = Attach(Attach(v, "intake", Part("CollectOff")), "conveyor", Part("Stop"))
        BY <1>4, <3>8 DEF SetAction, v, Part
      <4> QED  BY <3>5, <3>6, <4>1
    <3>9. CASE o.kind = "Fire"
      <4>1. SetAction(w, s, o) = Attach(v, "shooter", Part("Velocity"))
        BY <1>4, <3>9 DEF SetAction, v, Part
      <4> QED  BY <3>5, <4>1 DEF Asks
    <3>10. CASE o.kind \notin {"StartCollect", "StopCollect", "Fire"}
      <4>1. SetAction(w, s, o) = v  BY <3>10 DEF SetAction, v
      <4> QED  BY <3>4, <4>1 DEF Asks
    <3> QED  BY <3>7, <3>8, <3>9, <3>10
  <2> QED  BY <2>1, <2>2
<1>8. /\ held' = SetAction(w, s, o).held /\ finished' = SetAction(w, s, o).finished
      /\ balls' = SetAction(w, s, o).balls /\ stopping' = SetAction(w, s, o).stopping
      /\ staged' = staged /\ collecting' = collecting
  BY DEF StartDispatch, Become
<1> QED  BY <1>7, <1>8, AsksIsGranted

\* So does the fire action.
LEMMA FireIsGranted ==
    ASSUME IInv, Works("manip"), held["manip"].kind = "Fire"
    PROVE  Asks(World(FALSE), FireRuns(World(FALSE), held["manip"]))
<1> DEFINE w == World(FALSE)
           o == held["manip"]
           out  == w.balls = 0 /\ (firing => ~Works("conveyor"))
           stop == IF out THEN [w EXCEPT !.finished = @ \cup {o} \cup OwnOf(o)] ELSE w
           e == [at |-> o.at, kind |-> "Emit"]
           asked == Works("conveyor") /\ held["conveyor"].kind = "Emit"
<1>1. /\ IsWorld(w) /\ w.held = held /\ w.finished = finished /\ w.balls = balls
      /\ w.stopping = stopping /\ stopping \in BOOLEAN
      /\ JobIn(w) = (IF Works("conveyor") THEN held["conveyor"].kind ELSE "none")
  BY DEF IsWorld, World, IInv, Walked, Attached, Objected, JobIn, Works
<1>2. /\ stop.held = held /\ finished \subseteq stop.finished /\ stop.balls = balls
      /\ stop.stopping = stopping
      /\ stop = [held |-> stop.held, finished |-> stop.finished, cut |-> stop.cut, firing |-> stop.firing,
                 balls |-> stop.balls, stopping |-> stop.stopping, near |-> stop.near]
  BY DEF World
<1>3. o \in Objects /\ e \in Objects /\ e # Null /\ e.kind = "Emit" /\ "Emit" \in Jobs
  <2>1. o \in Objects  BY DEF IInv, Walked, Attached, Subs
  <2> QED  BY <2>1 DEF Objects, Kinds, Null, Jobs
<1>4. JobIn(stop) \in {JobIn(w), "none"}
  <2> HIDE DEF stop
  <2> QED  BY <1>1, <1>2 DEF JobIn
<1>5. firing /\ asked => stop = w  OBVIOUS
<1>6. Asks(w, stop)
  <2> HIDE DEF stop, w
  <2> QED  BY <1>1, <1>2, <1>4 DEF Asks
<1>7. CASE firing /\ aim = "lost"
  <2> DEFINE v == [stop EXCEPT !.firing = FALSE, !.stopping = @ \/ asked]
  <2>0. FireRuns(w, o) = v  BY <1>7 DEF FireRuns
  <2> HIDE DEF stop, asked
  <2>1. v.held = stop.held /\ v.finished = stop.finished /\ v.balls = stop.balls
        /\ v.stopping = (stop.stopping \/ asked)
    BY <1>2
  <2> HIDE DEF v
  <2>2. JobIn(v) = JobIn(stop)  BY <2>1 DEF JobIn
  <2>3. CASE asked
    <3>1. JobIn(v) = "Emit" /\ JobIn(w) = "Emit" /\ v.balls = w.balls /\ v.stopping = TRUE
      BY <1>1, <1>5, <1>7, <2>1, <2>2, <2>3 DEF asked
    <3> HIDE DEF w
    <3> QED  BY <2>0, <3>1 DEF Asks, w
  <2>4. CASE ~asked
    <3>1. v.stopping = w.stopping /\ v.balls = w.balls /\ JobIn(v) \in {JobIn(w), "none"}
      BY <1>1, <1>2, <1>4, <2>1, <2>2, <2>4
    <3> HIDE DEF w
    <3> QED  BY <2>0, <3>1 DEF Asks, w
  <2> QED  BY <2>3, <2>4
<1>8. CASE firing /\ aim # "lost"
  <2>1. FireRuns(w, o) = stop  BY <1>8 DEF FireRuns
  <2> QED  BY <1>6, <2>1
<1>9. CASE ~firing /\ ~(~out /\ aim = "ready" /\ ~Works("conveyor"))
  <2>1. FireRuns(w, o) = stop  BY <1>9 DEF FireRuns
  <2> QED  BY <1>6, <2>1
<1>10. CASE ~firing /\ ~out /\ aim = "ready" /\ ~Works("conveyor")
  <2> DEFINE a == Attach(w, "conveyor", e)
             v == [a EXCEPT !.firing = TRUE]
  <2>0. FireRuns(w, o) = v  BY <1>10 DEF FireRuns
  <2> HIDE DEF w, e
  <2>1. /\ JobIn(a) = "Emit" /\ a.balls = w.balls /\ a.stopping = (w.stopping /\ "Emit" # "Emit")
    BY <1>1, <1>3, GivenToConveyor
  <2>2. IsWorld(a)
    <3>1. AttachedTo(w, a, "conveyor", e)  BY <1>1, <1>3, Attaches DEF Subs, Under
    <3> QED  BY <3>1 DEF AttachedTo
  <2> HIDE DEF a
  <2>3. v.held = a.held /\ v.finished = a.finished /\ v.balls = a.balls /\ v.stopping = a.stopping
    BY <2>2 DEF IsWorld
  <2> HIDE DEF v
  <2>4. JobIn(v) = JobIn(a)  BY <2>3 DEF JobIn
  <2>5. Asks(w, v)  BY <1>3, <2>1, <2>3, <2>4 DEF Asks
  <2> QED  BY <2>0, <2>5 DEF w
<1> QED  BY <1>7, <1>8, <1>9, <1>10

\* So does the manipulator, whatever it runs or drops.
LEMMA ManipIsGranted ==
    ASSUME IInv, ManipRuns
    PROVE  Granted
<1> DEFINE w == World(FALSE)
           o == held["manip"]
<1>1. IsWorld(w) /\ w.held = held /\ w.finished = finished /\ w.balls = balls /\ w.stopping = stopping
  BY DEF IsWorld, World, IInv, Walked, Attached
<1>2. ASSUME NEW v, Become(v), Asks(w, v) PROVE Granted
  <2>1. staged' = staged /\ collecting' = collecting  BY DEF ManipRuns
  <2> QED  BY <1>2, <2>1, AsksIsGranted DEF Become
<1>3. ASSUME NEW v, finished \subseteq v.finished, v.held["conveyor"] \in {held["conveyor"], Null},
             v.balls = balls, v.stopping = stopping
      PROVE  Asks(w, v)
  <2>1. JobIn(v) \in {JobIn(w), "none"}  BY <1>1, <1>3 DEF JobIn
  <2> HIDE DEF w
  <2> QED  BY <1>1, <1>3, <2>1 DEF Asks
<1>4. CASE o = Null
  <2>1. Become(w)  BY <1>4 DEF ManipRuns
  <2>2. Asks(w, w)
    <3> HIDE DEF w
    <3> QED  BY <1>1, <1>3
  <2> QED  BY <1>2, <2>1, <2>2
<1>5. CASE o # Null /\ ~Works("manip")
  <2> DEFINE c == CancelBelow(w, Under)
             v == [c EXCEPT !.held["manip"] = Null]
  <2>1. Become(v)  BY <1>5 DEF ManipRuns
  <2> HIDE DEF w
  <2>2. /\ IsWorld(c) /\ w.finished \subseteq c.finished /\ c.balls = w.balls /\ c.stopping = w.stopping
        /\ \A r \in Subs : c.held[r] \in {w.held[r], Null}
    BY <1>1, Cancels DEF Under, Subs
  <2> HIDE DEF c
  <2>3. /\ v.held = [c.held EXCEPT !["manip"] = Null] /\ v.finished = c.finished
        /\ v.balls = c.balls /\ v.stopping = c.stopping
    BY <2>2 DEF IsWorld
  <2>4. v.held["conveyor"] = c.held["conveyor"] /\ "conveyor" \in Subs
    BY <2>2, <2>3 DEF IsWorld, Subs, Under
  <2> HIDE DEF v
  <2>5. Asks(w, v)  BY <1>1, <1>3, <2>2, <2>3, <2>4
  <2> QED  BY <1>2, <2>1, <2>5
<1>6. CASE Works("manip")
  <2>1. o # Null /\ o.kind \in {"StartCollect", "StopCollect", "Fire"}
    <3>1. "manip" \in Subs /\ o # Null  BY <1>6 DEF Subs, Works
    <3>2. o = Object(o.at) /\ o.at \in Dispatches(Plan) /\ Plan[o.at].sub = "manip"
      BY <3>1 DEF IInv, Walked, Attached
    <3>3. o.kind = Plan[o.at].act  BY <3>2 DEF Object
    <3>4. Plan[o.at].act \in Acts("manip")
      BY <3>2, TreeAssumption DEF IsTree, IsNode, Dispatches, Plan, IInv, Walked, Types
    <3> QED  BY <3>1, <3>3, <3>4 DEF Acts
  <2>2. CASE o.kind = "Fire"
    <3>1. Become(FireRuns(w, o))  BY <1>6, <2>1, <2>2 DEF ManipRuns
    <3> QED  BY <1>2, <1>6, <2>2, <3>1, FireIsGranted
  <2>3. CASE o.kind # "Fire"
    <3> DEFINE u == [w EXCEPT !.finished = @ \cup {o}]
    <3>1. Become(w) \/ Become(u)  BY <1>6, <2>1, <2>3 DEF ManipRuns
    <3>2. finished \subseteq u.finished /\ u.held = held /\ u.balls = balls /\ u.stopping = stopping
      BY DEF World
    <3> HIDE DEF u, w
    <3> QED  BY <1>1, <1>2, <1>3, <3>1, <3>2
  <2> QED  BY <2>2, <2>3
<1> QED  BY <1>4, <1>5, <1>6

\* The modes, their controller, the manipulator's actions and the conveyor go
\* together only through the behaviours that the conveyor's programs were shown
\* to have (KeepsLedger), in every mode that can be laid out.
THEOREM LedgerIsRespected == Spec => Ledger!LedgerSpec
<1>1. Init => Ledger!LedgerInit
  BY DEF Init, Ledger!LedgerInit, Works, Subs, Under, Null
<1>2. IInv /\ [Next]_vars => [Ledger!LedgerNext]_(Ledger!ledger)
  <2> SUFFICES ASSUME IInv, [Next]_vars PROVE Granted  BY DEF Granted
  <2>1. ASSUME UNCHANGED conveyor,
               held'["conveyor"] = Null \/ (held' = held /\ finished \subseteq finished')
        PROVE  Granted
    <3> DEFINE v == [held |-> held', finished |-> finished', balls |-> balls', stopping |-> stopping']
    <3>1. JobIn(v) \in {JobIn(World(FALSE)), "none"}  BY <2>1 DEF JobIn, World
    <3>2. Asks(World(FALSE), v)  BY <2>1, <3>1 DEF Asks, World, conveyor
    <3> QED  BY <2>1, <3>2, AsksIsGranted DEF conveyor
  <2>2. CASE BeginTurn \/ DelayOver \/ UNCHANGED vars
    BY <2>1, <2>2 DEF BeginTurn, DelayOver, vars, objects
  <2>3. ASSUME NEW n \in DOMAIN Plan, Walks(n) PROVE Granted
    <3>1. ASSUME NEW near \in BOOLEAN, StartDispatch(n, near) PROVE Granted  BY <3>1, DispatchIsGranted
    <3>2. ASSUME \A near \in BOOLEAN : ~StartDispatch(n, near) PROVE Granted
      <4>1. objects' = objects /\ conveyor' = conveyor  BY <2>3, <3>2, OthersWait DEF IInv, Walked
      <4> QED  BY <2>1, <4>1 DEF objects
    <3> QED  BY <3>1, <3>2
  <2>4. ASSUME NEW s \in Subs, MoveDone(s) PROVE Granted  BY <2>1, <2>4 DEF MoveDone
  <2>5. ASSUME NEW step, ConveyorMoves(step) PROVE Granted
    BY <2>5 DEF ConveyorMoves, Granted, Ledger!LedgerNext, Ledger!Internal
  <2>6. ASSUME NEW sample, ChildrenRan(sample) PROVE Granted  BY <2>1, <2>6 DEF ChildrenRan, objects
  <2>7. CASE ManipRuns  BY <2>7, ManipIsGranted
  <2>8. CASE Disable  BY <2>1, <2>8 DEF Disable, Subs, Under
  <2> QED  BY <2>2, <2>3, <2>4, <2>5, <2>6, <2>7, <2>8 DEF Next
<1> QED  BY <1>1, <1>2, Invariance, PTL DEF Spec, Ledger!LedgerSpec
=============================================================================
