------------------------------ MODULE DroidOI ------------------------------
(***************************************************************************)
(* Collecting and shooting balls with the droid robot: the collect/shoot   *)
(* state machine of the operator interface (droidoi/DroidOIDevice.cpp),    *)
(* the actions it gives to the game piece manipulator (StartCollectAction, *)
(* StopCollectAction, FireAction) and, below them, the conveyor, as the    *)
(* ball ledger describes it.                                               *)
(*                                                                         *)
(* One robot loop is a turn of the operator interface, one of the          *)
(* manipulator's children (conveyor, intake) and one of the manipulator's  *)
(* own action.  Asserts are compiled out (NDEBUG, makefiles/compiler.mk).  *)
(***************************************************************************)
EXTENDS BallLedger

CONSTANT MayDisable     \* whether the robot may be disabled and enabled again

ASSUME DroidAssumption == MayDisable \in BOOLEAN /\ "Stop" \in Jobs

VARIABLES
    mode,        \* shoot_collect_state_
    manip,       \* the class of the manipulator's action_, "none" for nullptr
    manipDone,   \* its isDone()
    firing,      \* isFiring_ of the fire action
    ownEmit,     \* the conveyor's emit action is the one of the fire action
    intakeBusy,  \* intake_->isBusy()
    turn         \* whose part of the robot loop comes next

droid == <<mode, manip, manipDone, firing, ownEmit, intakeBusy, turn>>
vars == <<ledger, droid>>

Modes == {"PreparingForCollect", "FinishingCollect", "WaitForIntake", "CollectReady",
          "Collecting", "PreparingForShoot", "ShootReady", "Ejecting", "InvalidMode"}
Turns == {"oi", "children", "manip"}
----------------------------------------------------------------------------
ManipBusy == manip # "none" /\ ~manipDone
ConveyorBusy == job # "none"

\* conveyor->setAction(action of class k, true).
Give(k) == Assign(k, 0) /\ ownEmit' = FALSE

\* manipulator->setAction(action of class k): its busy action and those of its
\* children are cancelled, when it has an action at all; then k starts, which
\* gives the conveyor the action conv ("" for none).
SetManip(k, conv) ==
    /\ manip' = k /\ manipDone' = FALSE
    /\ ownEmit' = FALSE
    /\ IF conv # "" THEN Assign(conv, 0)
       ELSE IF manip # "none" /\ ConveyorBusy THEN Cancel ELSE UNCHANGED ledger
\* Mutant of StartCollect: the receive action goes to the conveyor directly.
ReceiveOnly == Assign("Receive", 0) /\ ownEmit' = FALSE /\ intakeBusy' \in BOOLEAN
               /\ UNCHANGED <<manip, manipDone, firing>>
StartCollect == SetManip("collect", "Receive") /\ intakeBusy' \in BOOLEAN /\ UNCHANGED firing
StopCollect  == SetManip("stop", "Stop") /\ intakeBusy' \in BOOLEAN /\ UNCHANGED firing
Fire         == SetManip("fire", "") /\ firing' = FALSE
                /\ intakeBusy' = (intakeBusy /\ manip = "none")

keepManip == UNCHANGED <<manip, manipDone, firing>>
idle == UNCHANGED <<ledger, manip, manipDone, firing, ownEmit, intakeBusy>>

CollectMode ==
    /\ mode' = "PreparingForCollect"
    /\ Give("PrepareToReceive")
    /\ UNCHANGED intakeBusy /\ keepManip

ShootMode ==
    /\ mode' = "PreparingForShoot"
    /\ Give("PrepareToEmit")
    /\ intakeBusy' \in BOOLEAN /\ keepManip     \* intake_off_
----------------------------------------------------------------------------
(***************************************************************************)
(* generateCollectShootActions, one action per state.  shoot: the switch   *)
(* stands at shoot; pressed: a collect button is; manual, trigger: the     *)
(* manual shoot mode and its button.                                       *)
(***************************************************************************)
Go(m) == mode' = m /\ idle
Stay == Go(mode)

\* Mutant of StartEject: the conveyor is not told.
EjectModeOnly ==
    /\ mode' = "Ejecting"
    /\ UNCHANGED <<ledger, ownEmit>>
    /\ intakeBusy' \in BOOLEAN /\ keepManip

StartEject ==
    /\ mode' = "Ejecting"
    /\ Give("Eject")
    /\ intakeBusy' \in BOOLEAN /\ keepManip

StopEject == mode = "Ejecting" /\ Go("InvalidMode")

InvalidMode(shoot) ==
    /\ mode = "InvalidMode"
    /\ IF shoot THEN ShootMode ELSE CollectMode

PreparingForCollect ==
    /\ mode = "PreparingForCollect"
    /\ IF "collect" \in staged THEN Go("CollectReady") ELSE Stay

CollectReady(shoot, pressed) ==
    /\ mode = "CollectReady"
    /\ \/ shoot /\ ShootMode
       \/ ~shoot /\ pressed /\ ~Full /\ StartCollect /\ mode' = "Collecting"
       \/ ~shoot /\ ~(pressed /\ ~Full) /\ Stay

Collecting(pressed) ==
    /\ mode = "Collecting"
    /\ \/ pressed /\ ~Full /\ Stay
       \/ ~(pressed /\ ~Full) /\ collecting /\ Go("FinishingCollect")
       \/ ~(pressed /\ ~Full) /\ ~collecting /\ StopCollect /\ mode' = "CollectReady"

FinishingCollect ==
    /\ mode = "FinishingCollect"
    /\ IF collecting THEN Stay ELSE StopCollect /\ mode' = "WaitForIntake"

WaitForIntake ==
    /\ mode = "WaitForIntake"
    /\ IF ManipBusy THEN Stay ELSE Go("CollectReady")

PreparingForShoot(manual) ==
    /\ mode = "PreparingForShoot"
    /\ \/ "fire" \notin staged /\ Stay
       \/ "fire" \in staged /\ manual /\ Go("ShootReady")
       \/ "fire" \in staged /\ ~manual /\ Fire /\ mode' = "ShootReady"

ShootReady(shoot, manual, trigger) ==
    /\ mode = "ShootReady"
    /\ \/ ~shoot /\ CollectMode
       \/ shoot /\ manual /\ trigger /\ Give("Emit")
                /\ UNCHANGED <<mode, intakeBusy>> /\ keepManip
       \/ shoot /\ ~(manual /\ trigger) /\ Stay

Operate(eject, shoot, pressed, manual, trigger) ==
    /\ turn = "oi" /\ turn' = "children"
    /\ IF eject THEN StartEject
       ELSE \/ StopEject \/ InvalidMode(shoot) \/ PreparingForCollect
            \/ CollectReady(shoot, pressed) \/ Collecting(pressed)
            \/ FinishingCollect \/ WaitForIntake
            \/ PreparingForShoot(manual) \/ ShootReady(shoot, manual, trigger)

\* DisabledInit resets the subsystems, all of them to their default actions, and
\* TeleopInit makes new action objects; the operator interface keeps its mode.
Disable ==
    /\ MayDisable /\ turn = "oi"
    /\ job' = "none"
    /\ manip' = "none" /\ manipDone' = FALSE
    /\ ownEmit' = FALSE /\ intakeBusy' = FALSE
    /\ UNCHANGED <<balls, staged, collecting, stopping, mode, firing, turn>>
----------------------------------------------------------------------------
\* The conveyor's part of the loop: steps of the ledger, until nothing more can
\* be done in this loop.
ConveyorStep == turn = "children" /\ Internal /\ UNCHANGED droid

IntakeDone ==
    /\ turn = "children" /\ intakeBusy
    /\ intakeBusy' = FALSE
    /\ UNCHANGED <<ledger, mode, manip, manipDone, firing, ownEmit, turn>>

ChildrenRan ==
    /\ turn = "children" /\ turn' = "manip"
    /\ ~Overdue(job)
    /\ UNCHANGED <<ledger, mode, manip, manipDone, firing, ownEmit, intakeBusy>>

\* Subsystem::run of the manipulator: there is no action, or it is done and
\* gives way to the null default, which cancels what the children are doing.
RunNone ==
    /\ manip = "none"
    /\ UNCHANGED <<ledger, manip, manipDone, firing, ownEmit, intakeBusy>>

FallBack ==
    /\ manip # "none" /\ manipDone
    /\ manip' = "none" /\ manipDone' = FALSE
    /\ ownEmit' = FALSE /\ intakeBusy' = FALSE
    /\ IF ConveyorBusy THEN Cancel ELSE UNCHANGED ledger
    /\ UNCHANGED firing

RunCollect ==
    /\ manip = "collect" /\ ~manipDone
    /\ manipDone' = (~intakeBusy /\ ~ConveyorBusy)
    /\ UNCHANGED <<ledger, manip, firing, ownEmit, intakeBusy>>

\* Mutant of RunStop: it waits for the conveyor too, like RunCollect.
StopWaitsForConveyor ==
    /\ manip = "stop" /\ ~manipDone
    /\ manipDone' = (~intakeBusy /\ ~ConveyorBusy)
    /\ UNCHANGED <<ledger, manip, firing, ownEmit, intakeBusy>>

RunStop ==
    /\ manip = "stop" /\ ~manipDone
    /\ manipDone' = ~intakeBusy
    /\ UNCHANGED <<ledger, manip, firing, ownEmit, intakeBusy>>

\* Mutants of RunFiring: a lost target ends the action at once, or leaves
\* isFiring_ as it is.
GiveUpFiring(target) ==
    /\ manip = "fire" /\ ~manipDone /\ firing
    /\ manipDone' = (~target \/ (Empty /\ ~ConveyorBusy))
    /\ firing' = target
    /\ UNCHANGED <<ledger, manip, ownEmit, intakeBusy>>
KeepFiring(target) ==
    /\ manip = "fire" /\ ~manipDone /\ firing
    /\ manipDone' = (Empty /\ ~ConveyorBusy)
    /\ IF ~target /\ job = "Emit" /\ ownEmit THEN AskStop ELSE UNCHANGED ledger
    /\ UNCHANGED <<manip, firing, ownEmit, intakeBusy>>

\* FireAction::run.  target: the tracker has a sample and the robot stands still;
\* aimed: the turret and the shooter are ready too.
RunFiring(target) ==
    /\ manip = "fire" /\ ~manipDone /\ firing
    /\ manipDone' = (Empty /\ ~ConveyorBusy)
    /\ firing' = target
    /\ IF ~target /\ job = "Emit" /\ ownEmit THEN AskStop ELSE UNCHANGED ledger
    /\ UNCHANGED <<manip, ownEmit, intakeBusy>>

RunAiming(target, aimed) ==
    /\ manip = "fire" /\ ~manipDone /\ ~firing
    /\ \/ /\ Empty
          /\ manipDone' = TRUE
          /\ IF job = "Emit" /\ ownEmit THEN Cancel ELSE UNCHANGED ledger
          /\ ownEmit' = FALSE
          /\ UNCHANGED firing
       \/ /\ ~Empty /\ target /\ aimed /\ ~ConveyorBusy
          /\ Assign("Emit", 0)
          /\ ownEmit' = TRUE /\ firing' = TRUE
          /\ UNCHANGED manipDone
       \/ /\ ~Empty /\ ~(target /\ aimed /\ ~ConveyorBusy)
          /\ UNCHANGED <<ledger, manipDone, ownEmit, firing>>
    /\ UNCHANGED <<manip, intakeBusy>>

RunManip(target, aimed) ==
    /\ turn = "manip" /\ turn' = "oi"
    /\ \/ RunNone \/ FallBack \/ RunCollect \/ RunStop
       \/ RunFiring(target) \/ RunAiming(target, aimed)
    /\ UNCHANGED mode
----------------------------------------------------------------------------
\* Power-up, straight into teleop: no ball, nothing assigned.
Init ==
    /\ LedgerInit /\ job = "none"
    /\ mode = "InvalidMode" /\ manip = "none" /\ manipDone = FALSE
    /\ firing = FALSE /\ ownEmit = FALSE /\ intakeBusy = FALSE
    /\ turn = "oi"

Next ==
    \/ \E eject, shoot, pressed, manual, trigger \in BOOLEAN :
            Operate(eject, shoot, pressed, manual, trigger)
    \/ ConveyorStep \/ IntakeDone \/ ChildrenRan
    \/ \E target, aimed \in BOOLEAN : RunManip(target, aimed)
    \/ Disable

Spec == Init /\ [][Next]_vars

\* The robot loop is timed; the intake moves along a timed profile; the conveyor
\* does what it can, and a ball seen at the intake is in, or gone, in the end.
Loop ==
    \/ \E eject, shoot, pressed, manual, trigger \in BOOLEAN :
            Operate(eject, shoot, pressed, manual, trigger)
    \/ ChildrenRan
    \/ \E target, aimed \in BOOLEAN : RunManip(target, aimed)
BallPasses == turn = "children" /\ LoseBall /\ UNCHANGED droid
FairSpec == Spec /\ WF_vars(Loop) /\ WF_vars(ConveyorStep)
                 /\ SF_vars(IntakeDone) /\ SF_vars(BallPasses)
----------------------------------------------------------------------------
TypeOK ==
    /\ LedgerTypeOK
    /\ mode \in Modes /\ turn \in Turns
    /\ manip \in {"none", "collect", "stop", "fire"}
    /\ manipDone \in BOOLEAN /\ firing \in BOOLEAN
    /\ ownEmit \in BOOLEAN /\ intakeBusy \in BOOLEAN

\* The conveyor only takes balls in while the operator interface knows it does:
\* nobody's cancel, fallback or reset leaves a receive action behind in another
\* mode (processCollecting, processFinishingCollect, startEject).
ReceiveOnlyWhenCollecting ==
    job = "Receive" => mode \in {"Collecting", "FinishingCollect"}

\* From the moment the intake is sent out until it is back, no ball is shot, even
\* by a fire action that was still waiting for its target when the switch was
\* flipped: StartCollectAction takes its place and its emit action with it.
NoShotWhileIntakeOut ==
    [][(mode \in {"Collecting", "FinishingCollect", "WaitForIntake"}) => balls' >= balls]_vars

\* The emit action of the fire action never outlives it (FireAction::cancel and
\* stopChildActions, Subsystem::setAction of the manipulator).
NoOrphanShot ==
    job = "Emit" /\ ownEmit => manip = "fire" /\ ~manipDone

\* While the operator stays in shooting, a fire action that is firing has an emit
\* action at work or nothing left to fire: neither a lost target, a manual shot nor
\* a disabled robot leaves it waiting for an emit that has gone (isFiring_).
Firing == manip = "fire" /\ ~manipDone /\ firing
EmitIsNotLost ==
    [][(mode = "ShootReady" /\ mode' = "ShootReady" /\ (Firing => job = "Emit" \/ Empty))
         => (Firing => job = "Emit" \/ Empty)']_vars

\* The wait for the intake ends.
IntakeComesBack == mode = "WaitForIntake" ~> mode # "WaitForIntake"
----------------------------------------------------------------------------
(***************************************************************************)
(* What the comments say and the code does not do.                         *)
(***************************************************************************)
\* "Queue the conveyor to prepare to fire" (DroidOIDevice.cpp:201): with a ball to
\* fire, the preparation is queued until the ball is staged.
ShootIsQueued ==
    (turn = "oi" /\ mode = "PreparingForShoot" /\ ~Empty /\ "fire" \notin staged)
        => job = "PrepareToEmit"

\* "let it finish before we stop collecting" (DroidOIDevice.cpp:292-293).
FinishingEnds == mode = "FinishingCollect" ~> mode # "FinishingCollect"
============================================================================
