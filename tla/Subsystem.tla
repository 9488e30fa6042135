----------------------------- MODULE Subsystem -----------------------------
(***************************************************************************)
(* The tree of subsystems of a robot and the action each one runs          *)
(* (xerobase/Subsystem.cpp, Subsystem.h).  A subsystem holds at most one   *)
(* Action object; the robot loop calls Subsystem::run on the tree,         *)
(* children first, and everything else (controllers, operator interface,   *)
(* actions of other subsystems) reaches a subsystem through setAction,     *)
(* setDefaultAction, cancelAction and reset.  An Action object is shared   *)
(* with whoever made it, and its maker may call cancel() on it without     *)
(* asking the subsystem it is attached to.                                 *)
(*                                                                         *)
(* An action is known here by the two things Subsystem can see or do to    *)
(* it: isDone(), and which of start() and cancel() was called last.        *)
(***************************************************************************)
EXTENDS Naturals, Sequences, FiniteSets

CONSTANTS
    Subs,            \* the subsystems
    Above,           \* Above[s]: the ancestors of s (the chain of parent_)
    RunOrder,        \* the order in which one pass of run() reaches them
    Act,             \* the Action objects
    Null,            \* nullptr
    Home,            \* Home[a]: the subsystem whose setAction is called with a
    AsAction,        \* those _canAcceptAction(a, false) holds of
    AsDefault,       \* those _canAcceptAction(a, true) holds of
    CancelSetsDone,  \* those whose class calls setDone() in cancel()
    Kept,            \* those their maker cancels directly and leaves attached
    Limited          \* subsystems some caller cancels without asking isBusy()

ASSUME TreeAssumption ==
    /\ Above \in [Subs -> SUBSET Subs]
    /\ \A s \in Subs : s \notin Above[s]
    /\ \A s \in Subs : \A p \in Above[s] : Above[p] \subseteq Above[s]
ASSUME OrderAssumption ==
    /\ RunOrder \in Seq(Subs)
    /\ \A i, j \in 1..Len(RunOrder) : RunOrder[j] \in Above[RunOrder[i]] => i < j
ASSUME ActAssumption ==
    /\ Null \notin Act
    /\ Home \in [Act -> Subs]
    /\ AsAction \subseteq Act /\ AsDefault \subseteq Act
    /\ CancelSetsDone \subseteq Act /\ Kept \subseteq Act /\ Limited \subseteq Subs

VARIABLES
    action,      \* action[s]: action_
    dflt,        \* dflt[s]: defaultAction_
    onDefault,   \* the subsystems whose isRunningDefaultAction_ is set
    finished,    \* the actions whose isDone() answers true
    phase,       \* phase[a]: "fresh", "started" or "cancelled", by the last call made
    result,      \* what the setAction call of this step returned, "none" otherwise
    turn         \* 0: the controller has the loop; i: run() is at RunOrder[i]

vars == <<action, dflt, onDefault, finished, phase, result, turn>>

Phases  == {"fresh", "started", "cancelled"}
Results == {"none", "Accepted", "PreviousCanceled", "Rejected", "ParentBusy"}
----------------------------------------------------------------------------
Below(s)  == {d \in Subs : s \in Above[d]}
\* The attached action still has work to do.
Working(s) == action[s] # Null /\ action[s] \notin finished
Busy(s)    == s \notin onDefault /\ Working(s)
ParentBusy(s) == \E p \in Above[s] : Busy(p)
\* Mutant of Idle: no action at all is overlooked.
IdleIfDone(s) == action[s] # Null /\ ~Working(s) /\ s \notin onDefault
Idle(s)    == ~Working(s) /\ s \notin onDefault

(***************************************************************************)
(* The part of every operation that touches action objects: the objects in *)
(* Direct are cancelled wherever they are, the actions of the subsystems   *)
(* in Cut are cancelled and detached, then new[s] is attached to each s of *)
(* DOMAIN new and started; those in fin complete within start().           *)
(***************************************************************************)
Rewire(Direct, Cut, new, fin) ==
    LET started == {new[s] : s \in DOMAIN new} \ {Null}
        cut     == Direct \cup ({action[s] : s \in Cut} \ {Null})
    IN  /\ action' = [s \in Subs |-> IF s \in DOMAIN new THEN new[s]
                                     ELSE IF s \in Cut THEN Null ELSE action[s]]
        /\ phase'  = [a \in Act |-> IF a \in started THEN "started"
                                    ELSE IF a \in cut THEN "cancelled" ELSE phase[a]]
        /\ finished' = (finished \ started) \cup ((cut \cap CancelSetsDone) \ started)
                         \cup (started \cap fin)

\* Mutant of BusyBelow: the test of isRunningDefaultAction_ is the wrong way round.
DefaultsBelow(s) == {d \in Below(s) : d \in onDefault /\ Working(d)}
\* cancelActionsAndChildActions on the children of s: every busy descendant.
BusyBelow(s) == {d \in Below(s) : Busy(d)}

Reply(Cut) == result' = IF Cut = {} THEN "Accepted" ELSE "PreviousCanceled"
----------------------------------------------------------------------------
\* setAction(a, allow) with a an action of s the class does not accept.
SetActionRejected(s, a) ==
    /\ Home[a] = s /\ a \notin AsAction
    /\ onDefault' = onDefault \ {s}
    /\ result' = "Rejected"
    /\ UNCHANGED <<action, dflt, finished, phase, turn>>

\* setAction(a, false) while an ancestor is busy.
SetActionParentBusy(s, a) ==
    /\ Home[a] = s /\ a \in AsAction
    /\ ParentBusy(s)
    /\ onDefault' = onDefault \ {s}
    /\ result' = "ParentBusy"
    /\ UNCHANGED <<action, dflt, finished, phase, turn>>

\* Mutant of SetActionAccepted: the children are cancelled, the subsystem's own
\* action is forgotten.
SetActionForgetsOwn(s, a, allow, done) ==
    /\ Home[a] = s /\ a \in AsAction
    /\ allow \/ ~ParentBusy(s)
    /\ LET Cut == IF action[s] = Null THEN {} ELSE BusyBelow(s)
       IN  /\ Rewire({}, Cut, [x \in {s} |-> a], IF done THEN {a} ELSE {})
           /\ Reply(Cut)
    /\ onDefault' = onDefault \ {s}
    /\ UNCHANGED <<dflt, turn>>

\* setAction(a, allow), accepted.  The flag is already FALSE when isBusy() is
\* asked, so that a default action is cut too; the descendants are only looked
\* at when this subsystem had an action.
SetActionAccepted(s, a, allow, done) ==
    /\ Home[a] = s /\ a \in AsAction
    /\ allow \/ ~ParentBusy(s)
    /\ LET Cut == IF action[s] = Null THEN {}
                  ELSE BusyBelow(s) \cup {x \in {s} : Working(x)}
       IN  /\ Rewire({}, Cut, [x \in {s} |-> a], IF done THEN {a} ELSE {})
           /\ Reply(Cut)
    /\ onDefault' = onDefault \ {s}
    /\ UNCHANGED <<dflt, turn>>

\* setAction(nullptr) on s, whose default action is d: the flag is already TRUE
\* when isBusy() is asked, so that the action of s itself is never cut.
\* The default was accepted by setDefaultAction and is accepted again.  Direct:
\* what the caller cancelled just before the call.
ToDefault(s, d, Direct, done) ==
    LET Cut == IF action[s] = Null THEN {} ELSE BusyBelow(s)
    IN  /\ Rewire(Direct, Cut, [x \in {s} |-> d], IF done THEN {d} ELSE {})
        /\ Reply(Cut)
        /\ onDefault' = onDefault \cup {s}

SetActionNull(s, done) ==
    /\ ToDefault(s, dflt[s], {}, done)
    /\ UNCHANGED <<dflt, turn>>

SetDefaultAction(s, d, done) ==
    /\ d = Null \/ (d \in AsDefault /\ Home[d] = s)
    /\ dflt' = [dflt EXCEPT ![s] = d]
    /\ IF Busy(s)
       THEN /\ result' = "none"
            /\ UNCHANGED <<action, onDefault, finished, phase>>
       ELSE ToDefault(s, d, {}, done)
    /\ UNCHANGED turn

\* cancelAction called from outside the class: StartCollectAction and
\* StopCollectAction ask isBusy() first, ClimberUpDownAction does not.
CancelAction(s) ==
    /\ Busy(s) \/ s \in Limited
    /\ action[s] # Null
    /\ Rewire({}, {s}, [x \in {} |-> Null], {})
    /\ result' = "none"
    /\ UNCHANGED <<dflt, onDefault, turn>>

\* cancel() called on the object itself; the subsystem is not told and keeps it.
\* FireAction does so with its velocity action and its emit action, whether they
\* are attached to shooter and conveyor, replaced or never started.
CancelObject(a) ==
    /\ a \in Kept
    /\ Rewire({a}, {}, [x \in {} |-> Null], {})
    /\ result' = "none"
    /\ UNCHANGED <<dflt, onDefault, turn>>

\* Mutant of CancelDispatch: setAction(nullptr) is left out.
CancelDispatchOnly(s, a, done) ==
    /\ Home[a] = s /\ a \in AsAction /\ phase[a] # "fresh"
    /\ Rewire({a}, {}, [x \in {} |-> Null], {})
    /\ result' = "none"
    /\ UNCHANGED <<dflt, onDefault, turn>>

\* DispatchAction::cancel of a blocking dispatch that gave a to s: cancel() on a,
\* wherever it is by now, then setAction(nullptr) on s, whatever s runs by now.
CancelDispatch(s, a, done) ==
    /\ Home[a] = s /\ a \in AsAction /\ phase[a] # "fresh"
    /\ ToDefault(s, dflt[s], {a}, done)
    /\ UNCHANGED <<dflt, turn>>

\* reset(): setAction(nullptr) on s, then on each child, downwards.  A busy
\* descendant is cut when a subsystem above it, within the reset, had an action.
Reset(s, fin) ==
    LET tree == {s} \cup Below(s)
        Cut  == {d \in tree : Busy(d) /\ \E p \in Above[d] \cap tree : action[p] # Null}
    IN  /\ Rewire({}, Cut, [x \in tree |-> dflt[x]], fin)
        /\ onDefault' = onDefault \cup tree
        /\ result' = "none"
        /\ UNCHANGED <<dflt, turn>>
----------------------------------------------------------------------------
\* Mutant of EndTurn: the loop runs one subsystem too many.
EndTurnLate == turn' = IF turn > Len(RunOrder) THEN 0 ELSE turn + 1

EndTurn == turn' = IF turn = Len(RunOrder) THEN 0 ELSE turn + 1

\* The controller hands the loop over to robot_subsystem->run().
BeginRun ==
    /\ turn = 0 /\ EndTurn
    /\ result' = "none"
    /\ UNCHANGED <<action, dflt, onDefault, finished, phase>>

\* Subsystem::run, its own part: run the action, or fall back to the default.
Run(s, done) ==
    /\ turn > 0 /\ RunOrder[turn] = s /\ EndTurn
    /\ \/ /\ Working(s)
          /\ finished' = IF done THEN finished \cup {action[s]} ELSE finished
          /\ result' = "none"
          /\ UNCHANGED <<action, dflt, onDefault, phase>>
       \/ /\ Idle(s)
          /\ ToDefault(s, dflt[s], {}, done)
          /\ UNCHANGED dflt
       \/ /\ ~Working(s) /\ ~Idle(s)
          /\ result' = "none"
          /\ UNCHANGED <<action, dflt, onDefault, finished, phase>>

\* The constructor leaves isRunningDefaultAction_ uninitialised.
Init ==
    /\ action = [s \in Subs |-> Null]
    /\ dflt = [s \in Subs |-> Null]
    /\ onDefault \in SUBSET Subs
    /\ finished = {}
    /\ phase = [a \in Act |-> "fresh"]
    /\ result = "none"
    /\ turn = 0

Loop == BeginRun \/ \E s \in Subs, done \in BOOLEAN : Run(s, done)

Calls ==
    \/ \E s \in Subs, a \in Act : SetActionRejected(s, a) \/ SetActionParentBusy(s, a)
    \/ \E s \in Subs, a \in Act, allow, done \in BOOLEAN : SetActionAccepted(s, a, allow, done)
    \/ \E s \in Subs, done \in BOOLEAN : SetActionNull(s, done)
    \/ \E s \in Subs, d \in AsDefault \cup {Null}, done \in BOOLEAN : SetDefaultAction(s, d, done)
    \/ \E s \in Subs : CancelAction(s)
    \/ \E a \in Act : CancelObject(a)
    \/ \E s \in Subs, a \in Act, done \in BOOLEAN : CancelDispatch(s, a, done)
    \/ \E s \in Subs : \E fin \in SUBSET ({dflt[x] : x \in {s} \cup Below(s)} \ {Null}) :
            Reset(s, fin)

Next == Loop \/ Calls

Spec == Init /\ [][Next]_vars

\* The robot loop is a timed loop that no caller can hold up.
FairSpec == Spec /\ WF_vars(Loop)
----------------------------------------------------------------------------
TypeOK ==
    /\ action \in [Subs -> Act \cup {Null}]
    /\ dflt \in [Subs -> Act \cup {Null}]
    /\ onDefault \in SUBSET Subs
    /\ finished \in SUBSET Act
    /\ phase \in [Act -> Phases]
    /\ result \in Results
    /\ turn \in 0..Len(RunOrder)

\* An action object with motors to drive: started, neither finished nor cancelled.
Live(a) == phase[a] = "started" /\ a \notin finished

\* What Subsystem::run drives (lines 49-50) was started and not cancelled since:
\* through overrides, resets, cancels of a parent, of a dispatch or of the object
\* itself, and the same object being set again.  A cancelled object may stay
\* attached, but only if its maker cancelled it (FireAction.cpp:225-228), and then
\* it is done and not driven.  The exception is an object so cancelled whose class
\* does not call setDone() in cancel(): run() would go on driving it.  None of the
\* droid's is one: ShooterVelocityAction and ConveyorStateAction call setDone().
\* Classes that do not: DispatchAction, SequenceAction, ParallelAction,
\* TankDriveTimedPowerAction, DriverGamepadRumbleAction, OIOutputAction,
\* SmartDashboardAction, and those that inherit Action::cancel: ConveyorOnAction,
\* ConveyorStopAction, SetHoodAction, StartShootAction, ShootTestingAction,
\* ClimberUpDownAction, LifterCalibrateAction, ControlPanelArmAction, BlinkyAction.
WorkingIsStarted ==
    \A s \in Subs : Working(s) =>
        \/ phase[action[s]] = "started"
        \/ phase[action[s]] = "cancelled" /\ action[s] \in Kept \ CancelSetsDone

\* Two subsystems never drive the same action object, and one subsystem's
\* objects never end up on another (action_ and defaultAction_ stay at home).
AttachedAtHome ==
    \A s \in Subs : /\ action[s] # Null => Home[action[s]] = s
                    /\ dflt[s] # Null => Home[dflt[s]] = s

\* A live action that leaves its subsystem was cancelled on the way out, unless
\* the step put the subsystem on its default action (setAction lines 170-175:
\* the override path never forgets to cancel).
DropsOnlyForDefault ==
    [][\A s \in Subs :
         (action[s] # Null /\ Live(action[s]) /\ action'[s] # action[s])
         => \/ phase'[action[s]] = "cancelled"
            \/ s \in onDefault' /\ action'[s] = dflt'[s]]_vars

\* A subsystem that takes over (an explicit action replaces the one it had)
\* finds nothing left running by earlier requests anywhere below it
\* (cancelActionsAndChildActions, lines 216-219).
TakeoverClearsBelow ==
    [][\A s \in Subs :
         (action[s] # Null /\ s \notin onDefault' /\ result' \in {"Accepted", "PreviousCanceled"}
            /\ action'[s] # Null /\ action'[s] # action[s])
         => \A d \in Below(s) : ~Busy(d)']_vars

\* A subsystem that has a default action but neither runs it nor anything else.
Unserved(s) == dflt[s] # Null /\ (action[s] = Null \/ Idle(s))

\* One robot loop after another, an unserved subsystem gets its default action
\* back (Subsystem::run, lines 52-56), unless a caller may cancel the default
\* action itself.
DefaultComesBack == \A s \in Subs \ Limited : Unserved(s) ~> ~Unserved(s)
============================================================================
