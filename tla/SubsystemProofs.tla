-------------------------- MODULE SubsystemProofs --------------------------
(***************************************************************************)
(* Theorems about Subsystem, for every tree of subsystems and every set of *)
(* actions.  IInv is inductive: WorkingIsStarted alone is not, because a   *)
(* cut of one subsystem could cancel an object attached to another unless  *)
(* every object stays at its own subsystem (AttachedAtHome).               *)
(***************************************************************************)
EXTENDS Subsystem, TLAPS

IInv == TypeOK /\ AttachedAtHome /\ WorkingIsStarted

\* What the invariant says of the action s has.
Sound(s) ==
    /\ action[s] # Null => Home[action[s]] = s
    /\ Working(s) =>
        \/ phase[action[s]] = "started"
        \/ phase[action[s]] = "cancelled" /\ action[s] \in Kept \ CancelSetsDone

\* Whatever is cut and whatever is attached, the types are kept (the part of
\* setAction, cancelAction and reset that touches action objects).
LEMMA RewireTyped ==
    ASSUME TypeOK, NEW D \in SUBSET Subs, NEW Cut \in SUBSET Subs,
           NEW new \in [D -> Act \cup {Null}], NEW fin,
           NEW Direct \in SUBSET Act, Rewire(Direct, Cut, new, fin)
    PROVE  /\ action' \in [Subs -> Act \cup {Null}]
           /\ phase' \in [Act -> Phases]
           /\ finished' \in SUBSET Act
<1> DEFINE started == {new[s] : s \in DOMAIN new} \ {Null}
           cut == Direct \cup ({action[s] : s \in Cut} \ {Null})
<1>1. action' \in [Subs -> Act \cup {Null}]
  BY DEF Rewire, TypeOK
<1>2. phase' \in [Act -> Phases]
  <2>1. \A a \in Act : phase[a] \in Phases
    BY DEF TypeOK
  <2>2. phase' = [a \in Act |-> IF a \in started THEN "started"
                                ELSE IF a \in cut THEN "cancelled" ELSE phase[a]]
    BY DEF Rewire
  <2> HIDE DEF started, cut
  <2> QED BY <2>1, <2>2 DEF Phases
<1>3. finished' \in SUBSET Act
  <2>1. started \subseteq Act
    OBVIOUS
  <2>2. finished' = (finished \ started) \cup ((cut \cap CancelSetsDone) \ started)
                      \cup (started \cap fin)
    BY DEF Rewire
  <2> HIDE DEF started, cut
  <2> QED BY <2>1, <2>2, ActAssumption DEF TypeOK
<1> QED BY <1>1, <1>2, <1>3

\* When every object that is attached belongs where it is attached, and what is
\* cancelled directly is kept by its maker or replaced in the same step, then what
\* works after the step has been started and not cancelled since, or is excepted.
LEMMA RewireStarted ==
    ASSUME IInv, NEW D \in SUBSET Subs, NEW Cut \in SUBSET Subs,
           NEW new \in [D -> Act \cup {Null}], NEW fin,
           NEW Direct \in SUBSET Act, Rewire(Direct, Cut, new, fin),
           \A a \in Direct : a \in Kept \/ Home[a] \in D,
           \A s \in D : new[s] # Null => Home[new[s]] = s
    PROVE  \A s \in Subs : Sound(s)'
<1> DEFINE started == {new[s] : s \in DOMAIN new} \ {Null}
           cut == Direct \cup ({action[s] : s \in Cut} \ {Null})
<1> SUFFICES ASSUME NEW s \in Subs, action'[s] # Null
             PROVE  Sound(s)'
  BY DEF Sound, Working
<1>1. action'[s] = IF s \in D THEN new[s] ELSE IF s \in Cut THEN Null ELSE action[s]
  BY DEF Rewire
<1>2. \A a \in Act : phase'[a] = IF a \in started THEN "started"
                                 ELSE IF a \in cut THEN "cancelled" ELSE phase[a]
  BY DEF Rewire
<1>3. finished' = (finished \ started) \cup ((cut \cap CancelSetsDone) \ started)
                    \cup (started \cap fin)
  BY DEF Rewire
<1>4. CASE s \in D
  <2>1. action'[s] = new[s] /\ new[s] \in Act /\ new[s] \in started
    BY <1>1, <1>4
  <2>2. Home[action'[s]] = s /\ phase'[action'[s]] = "started"
    BY <2>1, <1>2, <1>4
  <2> QED BY <2>2 DEF Sound
<1>5. CASE s \notin D
  <2>1. s \notin Cut /\ action'[s] = action[s] /\ action[s] \in Act /\ action[s] # Null
    BY <1>1, <1>5 DEF IInv, TypeOK
  <2>2. Home[action[s]] = s
    BY <2>1 DEF IInv, AttachedAtHome
  <2>3. action[s] \notin {action[c] : c \in Cut} \ {Null}
    <3> SUFFICES ASSUME NEW c \in Cut, action[c] = action[s] PROVE FALSE
      OBVIOUS
    <3>1. Home[action[c]] = c
      BY <2>1 DEF IInv, AttachedAtHome
    <3> QED BY <3>1, <2>1, <2>2
  <2>4. action[s] \notin started
    <3> SUFFICES ASSUME NEW d \in D, new[d] = action[s] PROVE FALSE
      OBVIOUS
    <3> QED BY <2>1, <2>2, <1>5
  <2>5. CASE action[s] \in Direct
    <3>1. action[s] \in Kept
      BY <2>2, <2>5, <1>5
    <3>2. action[s] \in cut
      BY <2>5
    <3>3. phase'[action[s]] = "cancelled"
      BY <1>2, <2>1, <2>4, <3>2
    <3>4. action[s] \in CancelSetsDone => action[s] \in finished'
      <4> HIDE DEF started, cut
      <4> QED BY <1>3, <2>4, <3>2
    <3> QED BY <2>1, <2>2, <3>1, <3>3, <3>4 DEF Sound, Working
  <2>6. CASE action[s] \notin Direct
    <3>1. action[s] \notin cut
      BY <2>3, <2>6
    <3>2. phase'[action[s]] = phase[action[s]]
      BY <1>2, <2>1, <2>4, <3>1
    <3>3. action[s] \in finished => action[s] \in finished'
      <4> HIDE DEF started, cut
      <4> QED BY <1>3, <2>4
    <3>4. Working(s)' => Working(s)
      BY <2>1, <3>3 DEF Working
    <3>5. Working(s) => \/ phase[action[s]] = "started"
                        \/ phase[action[s]] = "cancelled" /\ action[s] \in Kept \ CancelSetsDone
      BY DEF IInv, WorkingIsStarted
    <3> QED BY <2>1, <2>2, <3>2, <3>4, <3>5 DEF Sound
  <2> QED BY <2>5, <2>6
<1> QED BY <1>4, <1>5

\* The fall back to the default action keeps the invariant
\* (setAction(nullptr)).
LEMMA ToDefaultKeeps ==
    ASSUME IInv, NEW s \in Subs, NEW d \in Act \cup {Null}, NEW done \in BOOLEAN,
           NEW Direct \in SUBSET Act, \A a \in Direct : Home[a] = s,
           ToDefault(s, d, Direct, done), d # Null => Home[d] = s
    PROVE  /\ action' \in [Subs -> Act \cup {Null}]
           /\ phase' \in [Act -> Phases]
           /\ finished' \in SUBSET Act
           /\ onDefault' \in SUBSET Subs
           /\ result' \in Results
           /\ \A x \in Subs : Sound(x)'
<1> DEFINE Cut == IF action[s] = Null THEN {} ELSE BusyBelow(s)
           new == [x \in {s} |-> d]
<1>1. Cut \in SUBSET Subs /\ new \in [{s} -> Act \cup {Null}]
  BY DEF BusyBelow, Below
<1>2. Rewire(Direct, Cut, new, IF done THEN {d} ELSE {}) /\ Reply(Cut)
      /\ onDefault' = onDefault \cup {s}
  BY DEF ToDefault
<1>3. \A x \in {s} : new[x] # Null => Home[new[x]] = x
  OBVIOUS
<1> HIDE DEF Cut, new
<1>4. result' \in Results /\ onDefault' \in SUBSET Subs
  BY <1>2 DEF Reply, Results, IInv, TypeOK
<1>5. TypeOK
  BY DEF IInv
<1>6. /\ action' \in [Subs -> Act \cup {Null}]
      /\ phase' \in [Act -> Phases]
      /\ finished' \in SUBSET Act
  BY <1>1, <1>2, <1>5, RewireTyped
<1>7. \A x \in Subs : Sound(x)'
  BY <1>1, <1>2, <1>3, RewireStarted
<1> QED BY <1>4, <1>6, <1>7

\* The constructor establishes the invariant, whatever isRunningDefaultAction_ holds.
LEMMA InitInv == Init => IInv
BY ActAssumption
   DEF Init, IInv, TypeOK, AttachedAtHome, WorkingIsStarted, Working, Phases, Results

\* An accepted explicit request (setAction(a, allow)).
LEMMA AcceptedKeeps ==
    ASSUME IInv, NEW s \in Subs, NEW a \in Act, NEW allow \in BOOLEAN,
           NEW done \in BOOLEAN, SetActionAccepted(s, a, allow, done)
    PROVE  IInv'
<1> DEFINE Cut == IF action[s] = Null THEN {}
                  ELSE BusyBelow(s) \cup {x \in {s} : Working(x)}
           new == [x \in {s} |-> a]
<1>1. /\ Rewire({}, Cut, new, IF done THEN {a} ELSE {}) /\ Reply(Cut)
      /\ onDefault' = onDefault \ {s}
      /\ UNCHANGED <<dflt, turn>> /\ Home[a] = s
  BY DEF SetActionAccepted
<1>2. Cut \in SUBSET Subs /\ new \in [{s} -> Act \cup {Null}]
  BY DEF BusyBelow, Below
<1>3. \A x \in {s} : new[x] # Null => Home[new[x]] = x
  BY <1>1
<1> HIDE DEF Cut, new
<1>4. TypeOK /\ {} \in SUBSET Act
  BY DEF IInv
<1>5. /\ action' \in [Subs -> Act \cup {Null}]
      /\ phase' \in [Act -> Phases]
      /\ finished' \in SUBSET Act
  BY <1>1, <1>2, <1>4, RewireTyped
<1>6. \A x \in Subs : Sound(x)'
  BY <1>1, <1>2, <1>3, <1>4, RewireStarted
<1>7. TypeOK'
  BY <1>1, <1>4, <1>5 DEF TypeOK, Reply, Results
<1> QED BY <1>1, <1>6, <1>7 DEF IInv, Sound, AttachedAtHome, WorkingIsStarted

\* cancelAction from outside.
LEMMA CancelKeeps ==
    ASSUME IInv, NEW s \in Subs, CancelAction(s)
    PROVE  IInv'
<1> DEFINE new == [x \in {} |-> Null]
<1>1. Rewire({}, {s}, new, {}) /\ result' = "none" /\ UNCHANGED <<dflt, onDefault, turn>>
  BY DEF CancelAction
<1>2. new \in [{} -> Act \cup {Null}] /\ {s} \in SUBSET Subs /\ {} \in SUBSET Subs
  OBVIOUS
<1>3. \A x \in {} : new[x] # Null => Home[new[x]] = x
  OBVIOUS
<1> HIDE DEF new
<1>4. TypeOK /\ {} \in SUBSET Act
  BY DEF IInv
<1>5. /\ action' \in [Subs -> Act \cup {Null}]
      /\ phase' \in [Act -> Phases]
      /\ finished' \in SUBSET Act
  BY <1>1, <1>2, <1>4, RewireTyped
<1>6. \A x \in Subs : Sound(x)'
  BY <1>1, <1>2, <1>3, <1>4, RewireStarted
<1>7. TypeOK'
  BY <1>1, <1>4, <1>5 DEF TypeOK, Results
<1> QED BY <1>1, <1>6, <1>7 DEF IInv, Sound, AttachedAtHome, WorkingIsStarted

\* cancel() on an object its maker keeps: it stays attached, and is done if its
\* class says so.
LEMMA ObjectKeeps ==
    ASSUME IInv, NEW a \in Act, CancelObject(a)
    PROVE  IInv'
<1> DEFINE new == [x \in {} |-> Null]
<1>1. /\ Rewire({a}, {}, new, {}) /\ a \in Kept
      /\ result' = "none" /\ UNCHANGED <<dflt, onDefault, turn>>
  BY DEF CancelObject
<1>2. new \in [{} -> Act \cup {Null}] /\ {a} \in SUBSET Act /\ {} \in SUBSET Subs
  OBVIOUS
<1>3. \A x \in {} : new[x] # Null => Home[new[x]] = x
  OBVIOUS
<1> HIDE DEF new
<1>4. TypeOK
  BY DEF IInv
<1>5. /\ action' \in [Subs -> Act \cup {Null}]
      /\ phase' \in [Act -> Phases]
      /\ finished' \in SUBSET Act
  BY <1>1, <1>2, <1>4, RewireTyped
<1>6. \A b \in {a} : b \in Kept \/ Home[b] \in {}
  BY <1>1
<1>7. \A x \in Subs : Sound(x)'
  BY <1>1, <1>2, <1>3, <1>6, RewireStarted
<1>8. TypeOK'
  BY <1>1, <1>4, <1>5 DEF TypeOK, Results
<1> QED BY <1>1, <1>7, <1>8 DEF IInv, Sound, AttachedAtHome, WorkingIsStarted

\* reset() of a subtree.
LEMMA ResetKeeps ==
    ASSUME IInv, NEW s \in Subs, NEW fin, Reset(s, fin)
    PROVE  IInv'
<1> DEFINE tree == {s} \cup Below(s)
           Cut  == {d \in tree : Busy(d) /\ \E p \in Above[d] \cap tree : action[p] # Null}
           new  == [x \in tree |-> dflt[x]]
<1>1. /\ Rewire({}, Cut, new, fin) /\ result' = "none"
      /\ onDefault' = onDefault \cup tree
      /\ UNCHANGED <<dflt, turn>>
  BY DEF Reset
<1>2. tree \in SUBSET Subs /\ Cut \in SUBSET Subs /\ new \in [tree -> Act \cup {Null}]
  BY DEF Below, IInv, TypeOK
<1>3. \A x \in tree : new[x] # Null => Home[new[x]] = x
  BY <1>2 DEF IInv, AttachedAtHome
<1> HIDE DEF tree, Cut, new
<1>4. TypeOK /\ {} \in SUBSET Act
  BY DEF IInv
<1>5. /\ action' \in [Subs -> Act \cup {Null}]
      /\ phase' \in [Act -> Phases]
      /\ finished' \in SUBSET Act
  BY <1>1, <1>2, <1>4, RewireTyped
<1>6. \A x \in Subs : Sound(x)'
  BY <1>1, <1>2, <1>3, <1>4, RewireStarted
<1>7. TypeOK'
  BY <1>1, <1>2, <1>4, <1>5 DEF TypeOK, Results
<1> QED BY <1>1, <1>6, <1>7 DEF IInv, Sound, AttachedAtHome, WorkingIsStarted

\* One pass position of the loop moves on.
LEMMA EndTurnTyped ==
    ASSUME turn \in 0..Len(RunOrder), EndTurn
    PROVE  turn' \in 0..Len(RunOrder)
<1>1. Len(RunOrder) \in Nat
  BY OrderAssumption
<1> QED BY <1>1 DEF EndTurn

\* Subsystem::run.
LEMMA RunKeeps ==
    ASSUME IInv, NEW s \in Subs, NEW done \in BOOLEAN, Run(s, done)
    PROVE  IInv'
<1>1. TypeOK /\ AttachedAtHome
  BY DEF IInv
<1>2. turn' \in 0..Len(RunOrder)
  BY <1>1, EndTurnTyped DEF Run, TypeOK
<1>3. CASE Working(s)
  <2>1. /\ finished' \in SUBSET Act /\ finished \subseteq finished'
        /\ result' = "none" /\ UNCHANGED <<action, dflt, onDefault, phase>>
    <3>1. /\ finished' = IF done THEN finished \cup {action[s]} ELSE finished
          /\ result' = "none" /\ UNCHANGED <<action, dflt, onDefault, phase>>
      BY <1>3 DEF Run, Idle
    <3>2. action[s] \in Act
      BY <1>1, <1>3 DEF Working, TypeOK
    <3> QED BY <1>1, <3>1, <3>2 DEF TypeOK
  <2>2. \A x \in Subs : Working(x)' => Working(x)
    BY <2>1 DEF Working
  <2>3. TypeOK' /\ AttachedAtHome'
    BY <1>1, <1>2, <2>1 DEF TypeOK, AttachedAtHome, Results
  <2>4. WorkingIsStarted'
    BY <2>1, <2>2 DEF IInv, WorkingIsStarted
  <2> QED BY <2>3, <2>4 DEF IInv
<1>4. CASE Idle(s)
  <2>1. ToDefault(s, dflt[s], {}, done) /\ UNCHANGED dflt
    BY <1>4 DEF Run, Idle
  <2>2. dflt[s] \in Act \cup {Null} /\ (dflt[s] # Null => Home[dflt[s]] = s)
    BY <1>1 DEF TypeOK, AttachedAtHome
  <2>3. /\ action' \in [Subs -> Act \cup {Null}]
        /\ phase' \in [Act -> Phases]
        /\ finished' \in SUBSET Act
        /\ onDefault' \in SUBSET Subs
        /\ result' \in Results
        /\ \A x \in Subs : Sound(x)'
    BY <2>1, <2>2, ToDefaultKeeps
  <2> QED BY <1>1, <1>2, <2>1, <2>3 DEF IInv, TypeOK, Sound, AttachedAtHome, WorkingIsStarted
<1>5. CASE ~Working(s) /\ ~Idle(s)
  <2>1. result' = "none" /\ UNCHANGED <<action, dflt, onDefault, finished, phase>>
    BY <1>5 DEF Run
  <2> QED BY <1>2, <2>1 DEF IInv, TypeOK, AttachedAtHome, WorkingIsStarted, Working, Results
<1> QED BY <1>3, <1>4, <1>5

\* setAction(nullptr) from outside, and setDefaultAction.
LEMMA DefaultKeeps ==
    ASSUME IInv, NEW s \in Subs, NEW done \in BOOLEAN,
           NEW d \in AsDefault \cup {Null},
           SetActionNull(s, done) \/ SetDefaultAction(s, d, done)
    PROVE  IInv'
<1>1. TypeOK /\ AttachedAtHome
  BY DEF IInv
<1>2. CASE SetActionNull(s, done)
  <2>1. ToDefault(s, dflt[s], {}, done) /\ UNCHANGED <<dflt, turn>>
    BY <1>2 DEF SetActionNull
  <2>2. dflt[s] \in Act \cup {Null} /\ (dflt[s] # Null => Home[dflt[s]] = s)
    BY <1>1 DEF TypeOK, AttachedAtHome
  <2>3. /\ action' \in [Subs -> Act \cup {Null}]
        /\ phase' \in [Act -> Phases]
        /\ finished' \in SUBSET Act
        /\ onDefault' \in SUBSET Subs
        /\ result' \in Results
        /\ \A x \in Subs : Sound(x)'
    BY <2>1, <2>2, ToDefaultKeeps
  <2> QED BY <1>1, <2>1, <2>3 DEF IInv, TypeOK, Sound, AttachedAtHome, WorkingIsStarted
<1>3. CASE SetDefaultAction(s, d, done)
  <2>1. /\ d \in Act \cup {Null} /\ (d # Null => Home[d] = s)
        /\ dflt' = [dflt EXCEPT ![s] = d] /\ UNCHANGED turn
    BY <1>3, ActAssumption DEF SetDefaultAction
  <2>2. /\ dflt' \in [Subs -> Act \cup {Null}]
        /\ \A x \in Subs : dflt'[x] # Null => Home[dflt'[x]] = x
    BY <1>1, <2>1 DEF TypeOK, AttachedAtHome
  <2>3. CASE Busy(s)
    <3>1. result' = "none" /\ UNCHANGED <<action, onDefault, finished, phase>>
      BY <1>3, <2>3 DEF SetDefaultAction
    <3> QED BY <1>1, <2>1, <2>2, <3>1
            DEF IInv, TypeOK, AttachedAtHome, WorkingIsStarted, Working, Results
  <2>4. CASE ~Busy(s)
    <3>1. ToDefault(s, d, {}, done)
      BY <1>3, <2>4 DEF SetDefaultAction
    <3>2. /\ action' \in [Subs -> Act \cup {Null}]
          /\ phase' \in [Act -> Phases]
          /\ finished' \in SUBSET Act
          /\ onDefault' \in SUBSET Subs
          /\ result' \in Results
          /\ \A x \in Subs : Sound(x)'
      BY <2>1, <3>1, ToDefaultKeeps
    <3> QED BY <1>1, <2>1, <2>2, <3>2 DEF IInv, TypeOK, Sound, AttachedAtHome, WorkingIsStarted
  <2> QED BY <2>3, <2>4
<1> QED BY <1>2, <1>3

\* The cancel of a blocking dispatch: what it cancels does not stay attached.
LEMMA DispatchKeeps ==
    ASSUME IInv, NEW s \in Subs, NEW a \in Act, NEW done \in BOOLEAN,
           CancelDispatch(s, a, done)
    PROVE  IInv'
<1>1. TypeOK /\ AttachedAtHome
  BY DEF IInv
<1>2. ToDefault(s, dflt[s], {a}, done) /\ Home[a] = s /\ UNCHANGED <<dflt, turn>>
  BY DEF CancelDispatch
<1>3. dflt[s] \in Act \cup {Null} /\ (dflt[s] # Null => Home[dflt[s]] = s)
  BY <1>1 DEF TypeOK, AttachedAtHome
<1>4. {a} \in SUBSET Act /\ \A b \in {a} : Home[b] = s
  BY <1>2
<1>5. /\ action' \in [Subs -> Act \cup {Null}]
      /\ phase' \in [Act -> Phases]
      /\ finished' \in SUBSET Act
      /\ onDefault' \in SUBSET Subs
      /\ result' \in Results
      /\ \A x \in Subs : Sound(x)'
  BY <1>2, <1>3, <1>4, ToDefaultKeeps
<1> QED BY <1>1, <1>2, <1>5 DEF IInv, TypeOK, Sound, AttachedAtHome, WorkingIsStarted

\* Every call and every part of the robot loop keeps the invariant.
LEMMA NextKeeps == IInv /\ [Next]_vars => IInv'
<1> SUFFICES ASSUME IInv, [Next]_vars PROVE IInv'
  OBVIOUS
<1>1. CASE BeginRun
  <2>1. turn' \in 0..Len(RunOrder)
    BY <1>1, EndTurnTyped DEF BeginRun, IInv, TypeOK
  <2> QED BY <1>1, <2>1
          DEF BeginRun, IInv, TypeOK, AttachedAtHome, WorkingIsStarted, Working, Results
<1>2. ASSUME NEW s \in Subs, NEW done \in BOOLEAN, Run(s, done) PROVE IInv'
  BY <1>2, RunKeeps
<1>3. ASSUME NEW s \in Subs, NEW a \in Act,
             SetActionRejected(s, a) \/ SetActionParentBusy(s, a)
      PROVE  IInv'
  BY <1>3 DEF SetActionRejected, SetActionParentBusy, IInv, TypeOK,
              AttachedAtHome, WorkingIsStarted, Working, Results
<1>4. ASSUME NEW s \in Subs, NEW a \in Act, NEW allow \in BOOLEAN, NEW done \in BOOLEAN,
             SetActionAccepted(s, a, allow, done)
      PROVE  IInv'
  BY <1>4, AcceptedKeeps
<1>5. ASSUME NEW s \in Subs, NEW done \in BOOLEAN, SetActionNull(s, done)
      PROVE  IInv'
  <2> DEFINE d == Null
  <2>1. d \in AsDefault \cup {Null}
    OBVIOUS
  <2> QED BY <1>5, <2>1, DefaultKeeps
<1>6. ASSUME NEW s \in Subs, NEW d \in AsDefault \cup {Null}, NEW done \in BOOLEAN,
             SetDefaultAction(s, d, done)
      PROVE  IInv'
  BY <1>6, DefaultKeeps
<1>7. ASSUME NEW s \in Subs, CancelAction(s) PROVE IInv'
  BY <1>7, CancelKeeps
<1>8. ASSUME NEW s \in Subs, NEW fin, Reset(s, fin) PROVE IInv'
  BY <1>8, ResetKeeps
<1>9. ASSUME NEW a \in Act, CancelObject(a) PROVE IInv'
  BY <1>9, ObjectKeeps
<1>10. ASSUME NEW s \in Subs, NEW a \in Act, NEW done \in BOOLEAN, CancelDispatch(s, a, done)
       PROVE  IInv'
  BY <1>10, DispatchKeeps
<1>11. CASE UNCHANGED vars
  BY <1>11 DEF vars, IInv, TypeOK, AttachedAtHome, WorkingIsStarted, Working
<1> QED
  BY <1>1, <1>2, <1>3, <1>4, <1>5, <1>6, <1>7, <1>8, <1>9, <1>10, <1>11
  DEF Next, Loop, Calls

\* The inductive invariant of the subsystem tree, with every object cancelled by
\* its maker behind the back of the subsystem it is attached to.
THEOREM Inductive == Spec => []IInv
<1>1. IInv /\ [Next]_vars => IInv'
  BY NextKeeps
<1> QED BY InitInv, <1>1, PTL DEF Spec

\* Every variable keeps its type, for every tree and every set of actions.
THEOREM TypeCorrect == Spec => []TypeOK
<1>1. IInv => TypeOK
  BY DEF IInv
<1> QED BY Inductive, <1>1, PTL

\* Subsystem::run never runs an action object that was not started, and none that
\* was cancelled after its last start, unless its maker did that directly and the
\* class does not call setDone() in cancel().  When every kept object is of a class
\* that does, as on the droid, the exception is empty.
THEOREM NeverRunsStale == Spec => []WorkingIsStarted
<1>1. IInv => WorkingIsStarted
  BY DEF IInv
<1> QED BY Inductive, <1>1, PTL
----------------------------------------------------------------------------
(***************************************************************************)
(* What a step may not do.                                                 *)
(***************************************************************************)
\* A cut action that does not come back by being started again is cancelled.
LEMMA CutIsCancelled ==
    ASSUME IInv, NEW D \in SUBSET Subs, NEW Cut \in SUBSET Subs,
           NEW new \in [D -> Act \cup {Null}], NEW fin,
           NEW Direct \in SUBSET Act, Rewire(Direct, Cut, new, fin),
           \A s \in D : new[s] # Null => Home[new[s]] = s,
           NEW x \in Cut, action[x] # Null, action'[x] # action[x]
    PROVE  phase'[action[x]] = "cancelled"
<1> DEFINE started == {new[s] : s \in DOMAIN new} \ {Null}
           cut == Direct \cup ({action[s] : s \in Cut} \ {Null})
<1>1. action[x] \in Act /\ Home[action[x]] = x /\ action[x] \in cut
  BY DEF IInv, TypeOK, AttachedAtHome
<1>2. action[x] \notin started
  <2> SUFFICES ASSUME NEW y \in D, new[y] = action[x] PROVE FALSE
    OBVIOUS
  <2>1. y = x
    BY <1>1
  <2> QED BY <2>1 DEF Rewire
<1>3. phase'[action[x]] = IF action[x] \in started THEN "started"
                          ELSE IF action[x] \in cut THEN "cancelled" ELSE phase[action[x]]
  BY <1>1 DEF Rewire
<1> HIDE DEF started, cut
<1> QED BY <1>1, <1>2, <1>3

\* What is neither cut nor given a new action keeps the one it has.
LEMMA OthersKeep ==
    ASSUME IInv, NEW D \in SUBSET Subs, NEW Cut \in SUBSET Subs,
           NEW new \in [D -> Act \cup {Null}], NEW fin,
           NEW Direct \in SUBSET Act, Rewire(Direct, Cut, new, fin)
    PROVE  /\ \A x \in Subs \ (D \cup Cut) : action'[x] = action[x]
           /\ \A x \in D : action'[x] = new[x]
           /\ \A x \in Cut \ D : action'[x] = Null
BY DEF Rewire

\* An object cancelled by its maker stays where it is.
LEMMA ObjectLeavesAttached ==
    ASSUME TypeOK, NEW a \in Act, CancelObject(a)
    PROVE  action' = action
<1> DEFINE new == [x \in {} |-> Null]
<1>1. Rewire({a}, {}, new, {}) /\ DOMAIN new = {}
  BY DEF CancelObject
<1> HIDE DEF new
<1> QED BY <1>1 DEF Rewire, TypeOK

Dropped(s) == action[s] # Null /\ Live(action[s]) /\ action'[s] # action[s]
Excused(s) == phase'[action[s]] = "cancelled"
              \/ (s \in onDefault' /\ action'[s] = dflt'[s])

\* setAction with an explicit action drops nothing that is live uncancelled.
LEMMA AcceptedDrops ==
    ASSUME IInv, NEW s \in Subs, NEW a \in Act, NEW allow \in BOOLEAN,
           NEW done \in BOOLEAN, SetActionAccepted(s, a, allow, done),
           NEW x \in Subs, Dropped(x)
    PROVE  Excused(x)
<1> DEFINE Cut == IF action[s] = Null THEN {}
                  ELSE BusyBelow(s) \cup {y \in {s} : Working(y)}
           new == [y \in {s} |-> a]
<1>1. Rewire({}, Cut, new, IF done THEN {a} ELSE {}) /\ Home[a] = s
  BY DEF SetActionAccepted
<1>2. Cut \in SUBSET Subs /\ new \in [{s} -> Act \cup {Null}]
  BY DEF BusyBelow, Below
<1>3. \A y \in {s} : new[y] # Null => Home[new[y]] = y
  BY <1>1
<1>4. x = s => x \in Cut
  BY DEF Dropped, Live, Working
<1> HIDE DEF Cut, new
<1>5. x \in Cut
  BY <1>1, <1>2, <1>4, OthersKeep DEF Dropped
<1>6. phase'[action[x]] = "cancelled"
  BY <1>1, <1>2, <1>3, <1>5, CutIsCancelled DEF Dropped
<1> QED BY <1>6 DEF Excused

\* setAction(nullptr) drops only the action its default action replaces.
LEMMA ToDefaultDrops ==
    ASSUME IInv, NEW s \in Subs, NEW d \in Act \cup {Null}, NEW done \in BOOLEAN,
           NEW Direct \in SUBSET Act, ToDefault(s, d, Direct, done),
           d # Null => Home[d] = s, dflt'[s] = d,
           NEW x \in Subs, Dropped(x)
    PROVE  Excused(x)
<1> DEFINE Cut == IF action[s] = Null THEN {} ELSE BusyBelow(s)
           new == [y \in {s} |-> d]
<1>1. Rewire(Direct, Cut, new, IF done THEN {d} ELSE {}) /\ onDefault' = onDefault \cup {s}
  BY DEF ToDefault
<1>2. Cut \in SUBSET Subs /\ new \in [{s} -> Act \cup {Null}] /\ new[s] = d
  BY DEF BusyBelow, Below
<1>3. \A y \in {s} : new[y] # Null => Home[new[y]] = y
  OBVIOUS
<1> HIDE DEF Cut, new
<1>4. CASE x = s
  BY <1>1, <1>2, <1>4, OthersKeep DEF Excused
<1>5. CASE x # s
  <2>1. x \in Cut
    <3>1. DOMAIN new = {s}
      BY <1>2
    <3>2. x \notin Cut => action'[x] = action[x]
      BY <1>1, <1>5, <3>1 DEF Rewire
    <3> QED BY <3>2 DEF Dropped
  <2>2. phase'[action[x]] = "cancelled"
    BY <1>1, <1>2, <1>3, <2>1, CutIsCancelled DEF Dropped
  <2> QED BY <2>2 DEF Excused
<1> QED BY <1>4, <1>5

\* reset() drops only actions that default actions replace.
LEMMA ResetDrops ==
    ASSUME IInv, NEW s \in Subs, NEW fin, Reset(s, fin), NEW x \in Subs, Dropped(x)
    PROVE  Excused(x)
<1> DEFINE tree == {s} \cup Below(s)
           Cut  == {d \in tree : Busy(d) /\ \E p \in Above[d] \cap tree : action[p] # Null}
           new  == [y \in tree |-> dflt[y]]
<1>1. Rewire({}, Cut, new, fin) /\ onDefault' = onDefault \cup tree /\ dflt' = dflt
  BY DEF Reset
<1>2. /\ tree \in SUBSET Subs /\ Cut \in SUBSET Subs /\ new \in [tree -> Act \cup {Null}]
      /\ Cut \subseteq tree /\ \A y \in tree : new[y] = dflt[y]
  BY DEF Below, IInv, TypeOK
<1> HIDE DEF tree, Cut, new
<1>3. x \in tree
  BY <1>1, <1>2, OthersKeep DEF Dropped
<1> QED BY <1>1, <1>2, <1>3, OthersKeep DEF Excused

\* cancelAction drops nothing uncancelled.
LEMMA CancelDrops ==
    ASSUME IInv, NEW s \in Subs, CancelAction(s), NEW x \in Subs, Dropped(x)
    PROVE  Excused(x)
<1> DEFINE new == [y \in {} |-> Null]
<1>1. Rewire({}, {s}, new, {})
  BY DEF CancelAction
<1>2. new \in [{} -> Act \cup {Null}] /\ {s} \in SUBSET Subs /\ {} \in SUBSET Subs
  OBVIOUS
<1>3. \A y \in {} : new[y] # Null => Home[new[y]] = y
  OBVIOUS
<1> HIDE DEF new
<1>4. x \in {s}
  <2>1. DOMAIN new = {}
    BY <1>2
  <2> QED BY <1>1, <2>1 DEF Dropped, Rewire
<1>5. phase'[action[x]] = "cancelled"
  BY <1>1, <1>2, <1>3, <1>4, CutIsCancelled DEF Dropped
<1> QED BY <1>5 DEF Excused

\* Every live action that leaves its subsystem is cancelled on the way out, or
\* the subsystem goes to its default action: the override path of setAction,
\* the cut of the descendants and cancelAction never forget one.
THEOREM DropsAreCancelled == Spec => DropsOnlyForDefault
<1> DEFINE Step == \A s \in Subs :
         (action[s] # Null /\ Live(action[s]) /\ action'[s] # action[s])
         => \/ phase'[action[s]] = "cancelled"
            \/ s \in onDefault' /\ action'[s] = dflt'[s]
<1>1. IInv /\ [Next]_vars => [Step]_vars
  <2> SUFFICES ASSUME IInv, Next, NEW x \in Subs, Dropped(x) PROVE Excused(x)
    BY DEF Dropped, Excused
  <2>1. AttachedAtHome /\ TypeOK
    BY DEF IInv
  <2>2. CASE BeginRun
    BY <2>2 DEF BeginRun, Dropped
  <2>3. ASSUME NEW s \in Subs, NEW done \in BOOLEAN, Run(s, done) PROVE Excused(x)
    <3>1. CASE Idle(s)
      <4>1. ToDefault(s, dflt[s], {}, done) /\ dflt' = dflt
        BY <2>3, <3>1 DEF Run, Idle
      <4>2. dflt[s] \in Act \cup {Null} /\ (dflt[s] # Null => Home[dflt[s]] = s)
        BY <2>1 DEF TypeOK, AttachedAtHome
      <4> QED BY <4>1, <4>2, ToDefaultDrops
    <3>2. CASE ~Idle(s)
      BY <2>3, <3>2 DEF Run, Dropped
    <3> QED BY <3>1, <3>2
  <2>4. ASSUME NEW s \in Subs, NEW a \in Act,
               SetActionRejected(s, a) \/ SetActionParentBusy(s, a)
        PROVE  Excused(x)
    BY <2>4 DEF SetActionRejected, SetActionParentBusy, Dropped
  <2>5. ASSUME NEW s \in Subs, NEW a \in Act, NEW allow \in BOOLEAN, NEW done \in BOOLEAN,
               SetActionAccepted(s, a, allow, done)
        PROVE  Excused(x)
    BY <2>5, AcceptedDrops
  <2>6. ASSUME NEW s \in Subs, NEW done \in BOOLEAN, SetActionNull(s, done)
        PROVE  Excused(x)
    <3>1. ToDefault(s, dflt[s], {}, done) /\ dflt' = dflt
      BY <2>6 DEF SetActionNull
    <3>2. dflt[s] \in Act \cup {Null} /\ (dflt[s] # Null => Home[dflt[s]] = s)
      BY <2>1 DEF TypeOK, AttachedAtHome
    <3> QED BY <3>1, <3>2, ToDefaultDrops
  <2>7. ASSUME NEW s \in Subs, NEW d \in AsDefault \cup {Null}, NEW done \in BOOLEAN,
               SetDefaultAction(s, d, done)
        PROVE  Excused(x)
    <3>1. d \in Act \cup {Null} /\ (d # Null => Home[d] = s) /\ dflt'[s] = d
      BY <2>1, <2>7, ActAssumption DEF SetDefaultAction, TypeOK
    <3>2. CASE Busy(s)
      BY <2>7, <3>2 DEF SetDefaultAction, Dropped
    <3>3. CASE ~Busy(s)
      <4>1. ToDefault(s, d, {}, done)
        BY <2>7, <3>3 DEF SetDefaultAction
      <4> QED BY <3>1, <4>1, ToDefaultDrops
    <3> QED BY <3>2, <3>3
  <2>8. ASSUME NEW s \in Subs, CancelAction(s) PROVE Excused(x)
    BY <2>8, CancelDrops
  <2>9. ASSUME NEW s \in Subs, NEW fin, Reset(s, fin) PROVE Excused(x)
    BY <2>9, ResetDrops
  <2>10. ASSUME NEW a \in Act, CancelObject(a) PROVE Excused(x)
    BY <2>1, <2>10, ObjectLeavesAttached DEF Dropped
  <2>11. ASSUME NEW s \in Subs, NEW a \in Act, NEW done \in BOOLEAN,
                CancelDispatch(s, a, done)
         PROVE  Excused(x)
    <3>1. ToDefault(s, dflt[s], {a}, done) /\ dflt' = dflt
      BY <2>11 DEF CancelDispatch
    <3>2. dflt[s] \in Act \cup {Null} /\ (dflt[s] # Null => Home[dflt[s]] = s)
      BY <2>1 DEF TypeOK, AttachedAtHome
    <3>3. {a} \in SUBSET Act
      OBVIOUS
    <3> QED BY <3>1, <3>2, <3>3, ToDefaultDrops
  <2> QED
    BY <2>2, <2>3, <2>4, <2>5, <2>6, <2>7, <2>8, <2>9, <2>10, <2>11 DEF Next, Loop, Calls
<1> QED BY Inductive, <1>1, PTL DEF Spec, DropsOnlyForDefault

\* The part of TakeoverClearsBelow that speaks of s.
Cleared(s) ==
    (action[s] # Null /\ s \notin onDefault' /\ result' \in {"Accepted", "PreviousCanceled"}
       /\ action'[s] # Null /\ action'[s] # action[s])
    => \A d \in Below(s) : ~Busy(d)'

\* setAction with an explicit action: what is busy below is cut, what is not stays idle.
LEMMA AcceptedClears ==
    ASSUME IInv, NEW s \in Subs, NEW a \in Act, NEW allow \in BOOLEAN,
           NEW done \in BOOLEAN, SetActionAccepted(s, a, allow, done), action[s] # Null,
           NEW d \in Below(s)
    PROVE  ~Busy(d)'
<1> DEFINE Cut == IF action[s] = Null THEN {}
                  ELSE BusyBelow(s) \cup {y \in {s} : Working(y)}
           new == [y \in {s} |-> a]
<1>1. /\ Rewire({}, Cut, new, IF done THEN {a} ELSE {}) /\ Home[a] = s
      /\ onDefault' = onDefault \ {s}
  BY DEF SetActionAccepted
<1>2. d \in Subs /\ d # s
  BY TreeAssumption DEF Below
<1>3. CASE Busy(d)
  <2>1. d \in Cut
    BY <1>2, <1>3 DEF BusyBelow
  <2>2. d \notin DOMAIN new
    BY <1>2
  <2> HIDE DEF Cut, new
  <2>3. action'[d] = Null
    BY <1>1, <1>2, <2>1, <2>2 DEF Rewire
  <2> QED BY <2>3 DEF Busy, Working
<1>4. CASE ~Busy(d)
  <2>1. d \notin Cut
    BY <1>2, <1>4 DEF BusyBelow
  <2>2. action'[d] = action[d]
    <3> HIDE DEF Cut
    <3> QED BY <1>1, <1>2, <2>1 DEF Rewire
  <2>3. d \notin onDefault' => d \notin onDefault
    BY <1>1, <1>2
  <2>4. ASSUME action[d] # Null, action[d] \in finished PROVE action[d] \in finished'
    <3>1. Home[action[d]] = d
      BY <1>2, <2>4 DEF IInv, AttachedAtHome
    <3>2. action[d] \notin {new[y] : y \in DOMAIN new} \ {Null}
      BY <1>1, <1>2, <3>1
    <3> HIDE DEF Cut, new
    <3> QED BY <1>1, <2>4, <3>2 DEF Rewire
  <2> QED BY <1>4, <2>2, <2>3, <2>4 DEF Busy, Working
<1> QED BY <1>3, <1>4

\* Another subsystem's action is at most detached when s goes to its default.
LEMMA ToDefaultClears ==
    ASSUME IInv, NEW s \in Subs, NEW d \in Act \cup {Null}, NEW done \in BOOLEAN,
           NEW Direct \in SUBSET Act, ToDefault(s, d, Direct, done), NEW x \in Subs
    PROVE  Cleared(x)
<1> DEFINE Cut == IF action[s] = Null THEN {} ELSE BusyBelow(s)
           new == [y \in {s} |-> d]
<1>1. Rewire(Direct, Cut, new, IF done THEN {d} ELSE {}) /\ onDefault' = onDefault \cup {s}
  BY DEF ToDefault
<1>2. x # s => action'[x] \in {Null, action[x]}
  <2>1. DOMAIN new = {s}
    OBVIOUS
  <2> HIDE DEF Cut, new
  <2> QED BY <1>1, <2>1 DEF Rewire
<1> QED BY <1>1, <1>2 DEF Cleared

\* A parent that takes over leaves nothing running below it, whatever was given
\* to its children, in trees of every shape (Subsystem.cpp:216-219).
THEOREM TakeoversClear == Spec => TakeoverClearsBelow
<1> DEFINE Step == \A s \in Subs :
         (action[s] # Null /\ s \notin onDefault' /\ result' \in {"Accepted", "PreviousCanceled"}
            /\ action'[s] # Null /\ action'[s] # action[s])
         => \A d \in Below(s) : ~Busy(d)'
<1>1. IInv /\ [Next]_vars => [Step]_vars
  <2> SUFFICES ASSUME IInv, Next, NEW x \in Subs PROVE Cleared(x)
    BY DEF Cleared
  <2>1. AttachedAtHome /\ TypeOK
    BY DEF IInv
  <2>2. CASE BeginRun
    BY <2>2 DEF BeginRun, Cleared
  <2>3. ASSUME NEW s \in Subs, NEW done \in BOOLEAN, Run(s, done) PROVE Cleared(x)
    <3>1. CASE Idle(s)
      <4>1. ToDefault(s, dflt[s], {}, done)
        BY <2>3, <3>1 DEF Run, Idle
      <4>2. dflt[s] \in Act \cup {Null}
        BY <2>1 DEF TypeOK
      <4> QED BY <4>1, <4>2, ToDefaultClears
    <3>2. CASE ~Idle(s)
      BY <2>3, <3>2 DEF Run, Cleared
    <3> QED BY <3>1, <3>2
  <2>4. ASSUME NEW s \in Subs, NEW a \in Act,
               SetActionRejected(s, a) \/ SetActionParentBusy(s, a)
        PROVE  Cleared(x)
    BY <2>4 DEF SetActionRejected, SetActionParentBusy, Cleared
  <2>5. ASSUME NEW s \in Subs, NEW a \in Act, NEW allow \in BOOLEAN, NEW done \in BOOLEAN,
               SetActionAccepted(s, a, allow, done)
        PROVE  Cleared(x)
    <3>1. CASE x = s
      BY <2>5, <3>1, AcceptedClears DEF Cleared
    <3>2. CASE x # s
      <4> DEFINE Cut == IF action[s] = Null THEN {}
                        ELSE BusyBelow(s) \cup {y \in {s} : Working(y)}
                 new == [y \in {s} |-> a]
      <4>1. Rewire({}, Cut, new, IF done THEN {a} ELSE {}) /\ DOMAIN new = {s}
        BY <2>5 DEF SetActionAccepted
      <4> HIDE DEF Cut, new
      <4>2. action'[x] \in {Null, action[x]}
        BY <3>2, <4>1 DEF Rewire
      <4> QED BY <4>2 DEF Cleared
    <3> QED BY <3>1, <3>2
  <2>6. ASSUME NEW s \in Subs, NEW done \in BOOLEAN, SetActionNull(s, done)
        PROVE  Cleared(x)
    <3>1. ToDefault(s, dflt[s], {}, done) /\ dflt[s] \in Act \cup {Null}
      BY <2>1, <2>6 DEF SetActionNull, TypeOK
    <3> QED BY <3>1, ToDefaultClears
  <2>7. ASSUME NEW s \in Subs, NEW d \in AsDefault \cup {Null}, NEW done \in BOOLEAN,
               SetDefaultAction(s, d, done)
        PROVE  Cleared(x)
    <3>1. CASE Busy(s)
      BY <2>7, <3>1 DEF SetDefaultAction, Cleared
    <3>2. CASE ~Busy(s)
      <4>1. ToDefault(s, d, {}, done) /\ d \in Act \cup {Null}
        BY <2>7, <3>2, ActAssumption DEF SetDefaultAction
      <4> QED BY <4>1, ToDefaultClears
    <3> QED BY <3>1, <3>2
  <2>8. ASSUME NEW s \in Subs, CancelAction(s) PROVE Cleared(x)
    BY <2>8 DEF CancelAction, Cleared
  <2>9. ASSUME NEW s \in Subs, NEW fin, Reset(s, fin) PROVE Cleared(x)
    BY <2>9 DEF Reset, Cleared
  <2>10. ASSUME NEW a \in Act, CancelObject(a) PROVE Cleared(x)
    BY <2>1, <2>10, ObjectLeavesAttached DEF Cleared
  <2>11. ASSUME NEW s \in Subs, NEW a \in Act, NEW done \in BOOLEAN,
                CancelDispatch(s, a, done)
         PROVE  Cleared(x)
    <3>1. ToDefault(s, dflt[s], {a}, done) /\ dflt[s] \in Act \cup {Null}
      BY <2>1, <2>11 DEF CancelDispatch, TypeOK
    <3>2. {a} \in SUBSET Act
      OBVIOUS
    <3> QED BY <3>1, <3>2, ToDefaultClears
  <2> QED
    BY <2>2, <2>3, <2>4, <2>5, <2>6, <2>7, <2>8, <2>9, <2>10, <2>11 DEF Next, Loop, Calls
<1> QED BY Inductive, <1>1, PTL DEF Spec, TakeoverClearsBelow
============================================================================
