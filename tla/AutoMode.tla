------------------------------ MODULE AutoMode ------------------------------
(***************************************************************************)
(* An autonomous mode of the droid robot: a tree of actions of the classes *)
(* of xerobase/actions, the controller that runs it (AutoController.cpp)   *)
(* and the subsystems it gives actions to, with the conveyor as the ball   *)
(* ledger describes it.  DroidModes holds the modes themselves.            *)
(*                                                                         *)
(* A tree is a table of its nodes in the order in which they are written   *)
(* down: every node knows its parent (up) and the last node below it       *)
(* (last), so that what is below n is n + 1 .. last.  One robot loop is a  *)
(* turn of the controller, one of the children (drive base, turret,        *)
(* shooter, intake, conveyor) and one of the manipulator.  The             *)
(* controller's turn walks the tree; every start() and run() of a node is  *)
(* a step, and so is its return to the caller.                             *)
(***************************************************************************)
EXTENDS Naturals, Sequences

CONSTANTS
    Tree,       \* the modes the driver's switch offers, as tables of nodes
    MaxBalls,   \* MAX_BALLS
    Loaded      \* the balls loaded by hand before the match

VARIABLES
    mode,       \* actionptr_: the mode that was chosen
    begun,      \* the nodes that were started, ever
    done,       \* isDone_ of the nodes
    index,      \* index_ of the series: the current kid, 0 for -1
    call,       \* the call of the controller's turn that is to be made or returns
    held,       \* held[s]: the action attached to s, Null for none or the default
    finished,   \* the actions whose isDone() answers TRUE
    cut,        \* the actions that a request of somebody else cancelled
    firing,     \* isFiring_ of the fire action
    turn,       \* whose part of the robot loop comes next
    late,       \* the time of the last delay to start is over
    aim,        \* what FireAction finds: "ready", "wait" or "lost"
    balls, staged, collecting, stopping   \* the conveyor, see BallLedger

walk     == <<begun, done, index, call>>
objects  == <<held, finished, cut, firing>>
conveyor == <<balls, staged, collecting, stopping>>
inputs   == <<late, aim>>
vars == <<mode, walk, objects, turn, inputs, conveyor>>

Null  == [at |-> 0, kind |-> "none"]
Under == {"shooter", "intake", "conveyor"}
Subs  == {"db", "turret", "manip"} \cup Under
Turns == {"controller", "children", "manip"}
Below(s) == IF s = "manip" THEN Under ELSE {}

\* The actions a mode gives to each subsystem.
Acts(s) == CASE s = "db" -> {"Path"}
             [] s = "turret" -> {"GoTo", "Follow"}
             [] s = "manip" -> {"StartCollect", "StopCollect", "Fire"}
             [] s = "shooter" -> {"Velocity"}
             [] s = "conveyor" -> {"SetBalls", "PrepareToEmit", "PrepareToReceive"}
             [] OTHER -> {}
----------------------------------------------------------------------------
(***************************************************************************)
(* Trees.                                                                  *)
(***************************************************************************)
Composites == {"series", "parallel"}

IsNode(x) ==
    /\ x.type \in Composites \cup {"dispatch", "delay"}
    /\ x.type = "dispatch" => x.sub \in Subs /\ x.act \in Acts(x.sub) /\ x.wait \in BOOLEAN

\* t lists a tree in writing order: its root is a series (every mode is one)
\* and what is below a node follows it without a gap, kid by kid.
IsTree(t) ==
    /\ Len(t) \in Nat \ {0} /\ DOMAIN t = 1..Len(t) /\ \A n \in DOMAIN t : IsNode(t[n])
    /\ t[1].type = "series" /\ t[1].up = 0
    /\ \A n \in DOMAIN t :
        /\ t[n].last \in n..Len(t)
        /\ n > 1 => t[n].up \in 1..n - 1 /\ n <= t[t[n].up].last
        /\ IF t[n].type \in Composites THEN n + 1 <= t[n].last /\ t[n + 1].up = n
           ELSE t[n].last = n
        /\ n > 1 /\ t[n].last < t[t[n].up].last => t[t[n].last + 1].up = t[n].up
        /\ \A m \in n + 1..t[n].last :
            /\ t[m].last <= t[n].last /\ n <= t[m].up
            /\ \E k \in n + 1..m : t[k].up = n /\ m <= t[k].last

Dispatches(t) == {n \in DOMAIN t : t[n].type = "dispatch"}

\* a and b are below different kids of one series.
Before(t, a, b) ==
    \E s, i, j \in DOMAIN t :
        /\ t[s].type = "series" /\ t[i].up = s /\ t[j].up = s /\ i < j
        /\ a \in i..t[i].last /\ b \in j..t[j].last

\* What keeps a mode's actions out of each other's way: what it waits for is
\* ordered with everything that takes its subsystem, and nothing on a child of
\* the manipulator is waited for behind a manipulator action that may be over
\* without the mode having seen it.
Disciplined(t) ==
    \A a \in Dispatches(t) : t[a].wait =>
        /\ \A b \in Dispatches(t) \ {a} :
              t[a].sub \in {t[b].sub} \cup Below(t[b].sub) => Before(t, a, b) \/ Before(t, b, a)
        /\ t[a].sub \in Under =>
              \A b \in Dispatches(t) : t[b].sub = "manip" /\ ~t[b].wait /\ Before(t, b, a) =>
                  \E c \in Dispatches(t) : t[c].sub = "manip" /\ Before(t, b, c) /\ Before(t, c, a)

\* a prepares the conveyor for n: n begins behind it, and no third dispatch that
\* the conveyor feels comes in between.
Primes(t, a, n) ==
    /\ t[a].sub = "conveyor" /\ t[a].wait /\ Before(t, a, n)
    /\ t[a].act = IF t[n].act = "Fire" THEN "PrepareToEmit" ELSE "PrepareToReceive"
    /\ \A d \in Dispatches(t) \ {a, n} :
          t[d].sub \in {"conveyor", "manip"} => Before(t, d, a) \/ Before(t, n, d)

\* Every volley and every collect of the mode is prepared for.
Primed(t) ==
    \A n \in Dispatches(t) : t[n].act \in {"Fire", "StartCollect"} =>
        \E a \in Dispatches(t) : Primes(t, a, n)

ASSUME TreeAssumption == \A m \in DOMAIN Tree : IsTree(Tree[m]) /\ Disciplined(Tree[m])
ASSUME AutoAssumption == MaxBalls \in Nat \ {0} /\ Loaded \in 0..MaxBalls

Plan == Tree[mode]
Kids(p) == {k \in DOMAIN Plan : Plan[k].up = p}
Object(n) == [at |-> n, kind |-> Plan[n].act]

\* An attached action that has work to do; default actions do not count.
Works(s) == held[s] # Null /\ held[s] \notin finished

Jobs   == {"SetBalls", "PrepareToReceive", "PrepareToEmit", "Receive", "Emit", "Stop", "Eject"}
Preset == {Loaded}
Ledger == INSTANCE BallLedger WITH
            job <- IF Works("conveyor") THEN held["conveyor"].kind ELSE "none"
----------------------------------------------------------------------------
(***************************************************************************)
(* What giving an action to a subsystem does to the objects: w collects it.*)
(* near: goto actions find the target reached when they start.             *)
(***************************************************************************)
World(near) == [held |-> held, finished |-> finished, cut |-> cut, firing |-> firing,
                balls |-> balls, stopping |-> stopping, near |-> near]

Become(w) ==
    /\ held' = w.held /\ finished' = w.finished /\ cut' = w.cut
    /\ firing' = w.firing /\ balls' = w.balls /\ stopping' = w.stopping

Working(w, S) == {w.held[s] : s \in S} \ (w.finished \cup {Null})

\* cancelActionsAndChildActions on s; every class involved sets done in cancel().
CancelBelow(w, S) ==
    LET busy == Working(w, S) IN
    [w EXCEPT !.finished = @ \cup busy, !.cut = @ \cup busy,
              !.held = [s \in Subs |-> IF w.held[s] \in busy THEN Null ELSE @[s]]]

\* Subsystem::setAction(o, true), and what start() of o does by itself.
Attach(w, s, o) ==
    LET v == IF w.held[s] = Null THEN w ELSE CancelBelow(w, {s} \cup Below(s))
        k == o.kind
    IN  [v EXCEPT !.held[s] = o,
                  !.finished = IF w.near /\ k \in {"GoTo", "CollectOn", "CollectOff"}
                               THEN @ \cup {o} ELSE @ \ {o},
                  !.balls = IF k = "SetBalls" THEN Loaded ELSE @,
                  !.stopping = @ /\ k # "Emit",
                  !.firing = @ /\ k # "Fire"]

\* start() of the manipulator's actions gives actions to the children.
SetAction(w, s, o) ==
    LET v == Attach(w, s, o)
        Part(kind) == [at |-> o.at, kind |-> kind]
    IN  CASE o.kind = "StartCollect" ->
                 Attach(Attach(v, "intake", Part("CollectOn")), "conveyor", Part("Receive"))
          [] o.kind = "StopCollect" ->
                 Attach(Attach(v, "intake", Part("CollectOff")), "conveyor", Part("Stop"))
          [] o.kind = "Fire" -> Attach(v, "shooter", Part("Velocity"))
          [] OTHER -> v
----------------------------------------------------------------------------
(***************************************************************************)
(* The controller's turn.  A call is made ("start", "run") and returns     *)
(* ("started", "ran") to the class of the node's parent, or to the         *)
(* controller for the root.                                                *)
(***************************************************************************)
Call(op, n) == [op |-> op, n |-> n]
Idle == Call("none", 1)
IsCalled(op, n, type) == call = Call(op, n) /\ Plan[n].type = type
Returns(op, n) == call = Call(op, n)
Ends(n) == done' = done \cup {n}

\* AutoController::run, the first part of a loop; a mode that is done is dropped.
BeginTurn ==
    /\ turn = "controller" /\ call = Idle
    /\ IF 1 \in done THEN turn' = "children" /\ UNCHANGED call
       ELSE call' = Call(IF 1 \in begun THEN "run" ELSE "start", 1) /\ UNCHANGED turn
    /\ UNCHANGED <<mode, begun, done, index, objects, inputs, conveyor>>

StartDispatch(n, near) ==
    /\ IsCalled("start", n, "dispatch")
    /\ Become(SetAction(World(near), Plan[n].sub, Object(n)))
    /\ IF Plan[n].wait THEN UNCHANGED done ELSE Ends(n)
    /\ begun' = begun \cup {n} /\ call' = Call("started", n)
    /\ UNCHANGED <<mode, index, turn, inputs, staged, collecting>>

StartDelay(n) ==
    /\ IsCalled("start", n, "delay")
    /\ late' = FALSE
    /\ begun' = begun \cup {n} /\ call' = Call("started", n)
    /\ UNCHANGED <<mode, done, index, objects, turn, aim, conveyor>>

StartSeries(n) ==
    /\ IsCalled("start", n, "series")
    /\ index' = [index EXCEPT ![n] = 0]
    /\ begun' = begun \cup {n} /\ call' = Call("started", n)
    /\ UNCHANGED <<mode, done, objects, turn, inputs, conveyor>>

StartParallel(n) ==
    /\ IsCalled("start", n, "parallel")
    /\ begun' = begun \cup {n} /\ call' = Call("start", n + 1)
    /\ UNCHANGED <<mode, done, index, objects, turn, inputs, conveyor>>

\* SequenceAction::startNextAction
StartNextAction(s) ==
    LET next == IF index[s] = 0 THEN s + 1 ELSE Plan[index[s]].last + 1
    IN  /\ index' = [index EXCEPT ![s] = next]
        /\ IF next <= Plan[s].last THEN call' = Call("start", next) /\ UNCHANGED done
           ELSE call' = Call("ran", s) /\ Ends(s)

\* A kid of a series is run in the loop in which it starts; the series goes on
\* at once behind one that its start() ends.
Started(n) ==
    LET p == Plan[n].up IN
    /\ Returns("started", n)
    /\ IF p = 0 THEN call' = Call("run", n) /\ UNCHANGED <<done, index>>
       ELSE IF Plan[p].type = "parallel"
       THEN /\ call' = IF Plan[n].last < Plan[p].last THEN Call("start", Plan[n].last + 1)
                       ELSE Call("started", p)
            /\ UNCHANGED <<done, index>>
       ELSE IF n \in done THEN StartNextAction(p)
       ELSE call' = Call("run", n) /\ UNCHANGED <<done, index>>
    /\ UNCHANGED <<mode, begun, objects, turn, inputs, conveyor>>

\* Mutant of RunDispatch: a dispatch does not ask whether its action is done.
RunDispatchBlind(n) ==
    /\ IsCalled("run", n, "dispatch")
    /\ Ends(n)
    /\ call' = Call("ran", n)
    /\ UNCHANGED <<mode, begun, index, objects, turn, inputs, conveyor>>

RunDispatch(n) ==
    /\ IsCalled("run", n, "dispatch")
    /\ IF Plan[n].wait /\ Object(n) \in finished THEN Ends(n) ELSE UNCHANGED done
    /\ call' = Call("ran", n)
    /\ UNCHANGED <<mode, begun, index, objects, turn, inputs, conveyor>>

RunDelay(n) ==
    /\ IsCalled("run", n, "delay")
    /\ IF late THEN Ends(n) ELSE UNCHANGED done
    /\ call' = Call("ran", n)
    /\ UNCHANGED <<mode, begun, index, objects, turn, inputs, conveyor>>

RunSeries(n) ==
    /\ IsCalled("run", n, "series")
    /\ IF index[n] # 0 /\ index[n] \notin done
       THEN call' = Call("run", index[n]) /\ UNCHANGED <<done, index>>
       ELSE StartNextAction(n)
    /\ UNCHANGED <<mode, begun, objects, turn, inputs, conveyor>>

\* Mutant of RunFrom: done as soon as one of the kids is.
RunFromAny(p, k) ==
    LET rest == {i \in Kids(p) : i >= k /\ i \notin done}
    IN  \/ \E i \in rest : /\ \A j \in rest : i <= j
                          /\ call' = Call("run", i) /\ UNCHANGED done
        \/ /\ rest = {} /\ call' = Call("ran", p)
           /\ IF Kids(p) \cap done # {} THEN Ends(p) ELSE UNCHANGED done

\* The rest of the loop of ParallelAction::run, from the kid at k on.
RunFrom(p, k) ==
    LET rest == {i \in Kids(p) : i >= k /\ i \notin done}
    IN  \/ \E i \in rest : /\ \A j \in rest : i <= j
                          /\ call' = Call("run", i) /\ UNCHANGED done
        \/ /\ rest = {} /\ call' = Call("ran", p)
           /\ IF Kids(p) \subseteq done THEN Ends(p) ELSE UNCHANGED done

RunParallel(n) ==
    /\ IsCalled("run", n, "parallel")
    /\ RunFrom(n, n + 1)
    /\ UNCHANGED <<mode, begun, index, objects, turn, inputs, conveyor>>

\* Mutant of Ran: a series goes on at once behind a kid that its run() ends.
RanAtOnce(n) ==
    LET p == Plan[n].up IN
    /\ Returns("ran", n)
    /\ IF p = 0 THEN call' = Idle /\ turn' = "children" /\ UNCHANGED <<done, index>>
       ELSE /\ UNCHANGED turn
            /\ IF Plan[p].type = "parallel" THEN RunFrom(p, Plan[n].last + 1) /\ UNCHANGED index
               ELSE IF n \in done THEN StartNextAction(p)
               ELSE call' = Call("ran", p) /\ UNCHANGED <<done, index>>
    /\ UNCHANGED <<mode, begun, objects, inputs, conveyor>>

\* A series stops after each run, whatever has become of the kid.
Ran(n) ==
    LET p == Plan[n].up IN
    /\ Returns("ran", n)
    /\ IF p = 0 THEN call' = Idle /\ turn' = "children" /\ UNCHANGED done
       ELSE /\ UNCHANGED turn
            /\ IF Plan[p].type = "parallel" THEN RunFrom(p, Plan[n].last + 1)
               ELSE call' = Call("ran", p) /\ UNCHANGED done
    /\ UNCHANGED <<mode, begun, index, objects, inputs, conveyor>>

Walks(n) ==
    \/ \E near \in BOOLEAN : StartDispatch(n, near)
    \/ StartDelay(n) \/ StartSeries(n) \/ StartParallel(n) \/ Started(n)
    \/ RunDispatch(n) \/ RunDelay(n) \/ RunSeries(n) \/ RunParallel(n) \/ Ran(n)
----------------------------------------------------------------------------
\* The paths, profiles and timed moves of the children end.
Timed == {"Path", "GoTo", "CollectOn", "CollectOff"}
MoveDone(s) ==
    /\ turn = "children" /\ Works(s) /\ held[s].kind \in Timed
    /\ finished' = finished \cup {held[s]}
    /\ UNCHANGED <<mode, walk, held, cut, firing, turn, inputs, conveyor>>

DelayOver ==
    /\ turn = "children" /\ late' = TRUE
    /\ UNCHANGED <<mode, walk, objects, turn, aim, conveyor>>

\* The conveyor runs its action.
ConveyorMoves(step) ==
    /\ turn = "children" /\ Works("conveyor")
    /\ UNCHANGED <<mode, walk, held, cut, firing, turn, inputs>>
    /\ \/ finished' = finished /\
          CASE step = "see"     -> Ledger!SeeBall         [] step = "lose"  -> Ledger!LoseBall
            [] step = "collect" -> Ledger!CollectBall     [] step = "reach" -> Ledger!ReachShooter
            [] step = "unstage" -> Ledger!StageForCollect [] step = "stage" -> Ledger!StageForFire
            [] step = "begin"   -> Ledger!BeginFiring     [] step = "fire"  -> Ledger!FireBall
            [] step = "last"    -> Ledger!FiredLast       [] OTHER -> FALSE
       \/ step = "finish" /\ finished' = finished \cup {held["conveyor"]} /\ Ledger!Finish
Needed == {"unstage", "stage", "begin", "fire", "last", "lose", "finish"}
Steps  == Needed \cup {"see", "collect", "reach"}

\* The children have run; what the sensors say of the target is sampled.
ChildrenRan(sample) ==
    /\ turn = "children" /\ turn' = "manip"
    /\ Works("conveyor") => ~Ledger!Overdue(held["conveyor"].kind)
    /\ aim' = IF Works("manip") /\ held["manip"].kind = "Fire" THEN sample ELSE "wait"
    /\ UNCHANGED <<mode, walk, objects, late, conveyor>>

\* FireAction::stopChildActions.
OwnOf(o) == {[at |-> o.at, kind |-> k] : k \in {"Velocity", "Emit"}}

\* Mutant of FireRuns: isFiring_ stays set when the target is lost.
FireKeepsFiring(w, o) ==
    LET out  == w.balls = 0 /\ (firing => ~Works("conveyor"))
        stop == IF out THEN [w EXCEPT !.finished = @ \cup {o} \cup OwnOf(o)] ELSE w
    IN  IF firing THEN
           [stop EXCEPT !.stopping =
                @ \/ (aim = "lost" /\ Works("conveyor") /\ held["conveyor"].kind = "Emit")]
        ELSE IF ~out /\ aim = "ready" /\ ~Works("conveyor")
             THEN [Attach(w, "conveyor", [at |-> o.at, kind |-> "Emit"]) EXCEPT !.firing = TRUE]
             ELSE stop

\* FireAction::run; aim is "lost" when not even the target is there, "wait" when
\* turret or shooter are not ready.
FireRuns(w, o) ==
    LET out  == w.balls = 0 /\ (firing => ~Works("conveyor"))
        stop == IF out THEN [w EXCEPT !.finished = @ \cup {o} \cup OwnOf(o)] ELSE w
    IN  IF firing THEN
           IF aim = "lost" THEN [stop EXCEPT !.firing = FALSE,
                                             !.stopping = @ \/ (Works("conveyor") /\ held["conveyor"].kind = "Emit")]
           ELSE stop
        ELSE IF ~out /\ aim = "ready" /\ ~Works("conveyor")
             THEN [Attach(w, "conveyor", [at |-> o.at, kind |-> "Emit"]) EXCEPT !.firing = TRUE]
             ELSE stop

\* Subsystem::run of the manipulator: its action, or the fall back to no action,
\* which cancels what the children do.
ManipRuns ==
    /\ turn = "manip" /\ turn' = "controller" /\ aim' = "wait"
    /\ LET o == held["manip"]
           w == World(FALSE)
           ends(S) == \A s \in S : ~Works(s)
           over(S) == IF ends(S) THEN [w EXCEPT !.finished = @ \cup {o}] ELSE w
       IN  Become(IF o = Null THEN w
                  ELSE IF ~Works("manip") THEN [CancelBelow(w, Under) EXCEPT !.held["manip"] = Null]
                  ELSE CASE o.kind = "StartCollect" -> over({"intake", "conveyor"})
                         [] o.kind = "StopCollect"  -> over({"intake"})
                         [] o.kind = "Fire"         -> FireRuns(w, o))
    /\ UNCHANGED <<mode, walk, late, staged, collecting>>

\* DisabledInit, and AutonomousInit afterwards: all subsystems are reset, a new
\* mode is made; the conveyor remembers its balls.
Disable ==
    /\ turn = "controller" /\ call = Idle
    /\ mode' \in DOMAIN Tree
    /\ begun' = {} /\ done' = {} /\ index' = [n \in DOMAIN Plan' |-> 0]
    /\ held' = [s \in Subs |-> Null]
    /\ finished' = {} /\ cut' = {} /\ firing' = FALSE
    /\ late' = FALSE /\ UNCHANGED <<call, turn, aim, conveyor>>

Init ==
    /\ mode \in DOMAIN Tree
    /\ begun = {} /\ done = {} /\ index = [n \in DOMAIN Plan |-> 0]
    /\ held = [s \in Subs |-> Null]
    /\ finished = {} /\ cut = {} /\ firing = FALSE
    /\ call = Idle /\ turn = "controller" /\ late = FALSE /\ aim = "wait"
    /\ balls = 0 /\ staged = {} /\ collecting \in BOOLEAN /\ stopping = FALSE

Next ==
    \/ BeginTurn
    \/ \E n \in DOMAIN Plan : Walks(n)
    \/ \E s \in Subs : MoveDone(s)
    \/ DelayOver
    \/ \E step \in Steps : ConveyorMoves(step)
    \/ \E sample \in {"lost", "wait", "ready"} : ChildrenRan(sample)
    \/ ManipRuns
    \/ Disable

Spec == Init /\ [][Next]_vars

\* The manipulator can always take its turn.
TakesTurn(t) == turn = t /\ turn' \in Turns \ {t}

\* The loop is timed; delays and moves end; the programs of the conveyor go on;
\* the target is found again.
FairSpec ==
    /\ Spec
    /\ WF_vars(BeginTurn) /\ WF_vars(\E n \in DOMAIN Plan : Walks(n))
    /\ WF_turn(TakesTurn("manip"))
    /\ WF_vars(\E sample \in {"lost", "wait", "ready"} : ChildrenRan(sample))
    /\ SF_vars(ChildrenRan("ready"))
    /\ SF_vars(DelayOver)
    /\ SF_vars(\E s \in Subs : MoveDone(s))
    /\ SF_vars(\E step \in Needed : ConveyorMoves(step))
    /\ SF_vars(\E step \in {"begin", "fire"} : ConveyorMoves(step))
----------------------------------------------------------------------------
TypeOK ==
    /\ mode \in DOMAIN Tree
    /\ begun \subseteq DOMAIN Plan /\ done \subseteq begun
    /\ index \in [DOMAIN Plan -> 0..Len(Plan) + 1]
    /\ call \in [op : {"none", "start", "started", "run", "ran"}, n : DOMAIN Plan]
    /\ \A s \in Subs : held[s] = Null \/ held[s].at \in begun
    /\ cut \subseteq finished \cup {held[s] : s \in Subs}
    /\ firing \in BOOLEAN /\ turn \in Turns
    /\ late \in BOOLEAN /\ aim \in {"lost", "wait", "ready"}
    /\ Ledger!LedgerTypeOK

\* The mode waits for o: the dispatch that gave o away is a blocking one.
Awaited(o) == Plan[o.at].wait /\ o = Object(o.at)

\* What a mode waits for is never cancelled behind its back, so that a step
\* that counts as done was done (DispatchAction::run asks isDone() only, and
\* every cancel() answers that with TRUE).  It is a near thing: one loop after
\* a manipulator action ends, the manipulator's fall back cancels whatever its
\* children do (Subsystem::run 52-56), and the sequence gives them their next
\* actions one loop later only because it stops after each run (SequenceAction 95-99).
AwaitedIsNotCut == \A o \in cut : ~Awaited(o)

\* None of what is at or below n has been started.
Untouched(n) == n..Plan[n].last \cap begun = {}

\* All actions at or below n have been given away, and those the mode waits for
\* have ended.
Settled(n) ==
    \A d \in Dispatches(Plan) \cap n..Plan[n].last :
        d \in begun /\ (Plan[d].wait => Object(d) \in finished)

\* At every level of the tree no step of a sequence begins before the ones
\* before it are through, parallel branches with all their kids included; and a
\* mode that is over has done every one of its steps.
InOrder ==
    /\ \A s \in DOMAIN Plan : Plan[s].type = "series" =>
          \A i, j \in Kids(s) : i < j => Untouched(j) \/ Settled(i)
    /\ 1 \in done => Settled(1)

\* A volley begins with the balls staged for it, a collect with room for them
\* (the assert states of ConveyorEmitAction.cpp:26-29 and
\* ConveyorReceiveAction.cpp:30-33), in every mode and after every disable.
Prepared(n) ==
    Plan[n].type = "dispatch" =>
        /\ Plan[n].act = "Fire" => balls = 0 \/ "fire" \in staged
        /\ Plan[n].act = "StartCollect" => balls = MaxBalls \/ "collect" \in staged
BeginsPrepared == [][\A n \in begun' \ begun : Prepared(n)]_vars

\* A mode comes to its end unless the robot is disabled again and again: no
\* sequence waits for an action that nobody runs any more, and a volley whose
\* target comes and goes is fired to the last ball.
ModeEnds == []<><<Disable>>_vars \/ <>[](1 \in done)
============================================================================
