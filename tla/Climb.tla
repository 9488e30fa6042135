------------------------------- MODULE Climb -------------------------------
(***************************************************************************)
(* The climber of the droid robot: the operator's buttons                  *)
(* (droidoi/DroidOIDevice.cpp, generateClimbActions), the up/down action   *)
(* (climber/ClimberUpDownAction.cpp), the lifter with its clamped motor    *)
(* (climber/Lifter.h), the goto, hold and power actions it runs            *)
(* (xerobase/motorencodersubsystem, xerobase/singlemotorsubsystem), and    *)
(* what a disable does to all of them (Robot::DisabledInit).               *)
(*                                                                         *)
(* Heights are bands: 0 is the lower limit, 1 is the zone below 1000 where *)
(* the power is limited, MaxHeight + 1 is everything above max_height_.    *)
(* A loop moves the lifter by a band at most.  Powers are in tenths.       *)
(* One robot loop is a turn of the operator interface, one of the          *)
(* subsystems and one of the mechanism.                                    *)
(***************************************************************************)
EXTENDS Integers

CONSTANTS
    ClimbHeight,  \* climber:climb_height, where deploy_climber_ goes
    MaxHeight,    \* climber:max_height
    Top,          \* the mechanical end of the lifter
    FieldModes,   \* what init() may find: FMS attached, or forced field mode
    MayDisable,   \* the robot may be disabled and enabled again
    MayCrowd      \* a blocking dispatch may come first in the loop's sequence

ASSUME HeightsAssumption ==
    /\ {ClimbHeight, MaxHeight, Top} \subseteq Int
    /\ 1 < ClimbHeight /\ ClimbHeight <= MaxHeight /\ MaxHeight < Top
ASSUME ModesAssumption ==
    FieldModes # {} /\ FieldModes \subseteq BOOLEAN /\ {MayDisable, MayCrowd} \subseteq BOOLEAN

VARIABLES
    started,   \* started_deploy_ of the device
    deployed,  \* climber_deployed_ of the device
    asked,     \* the buttons as sampled in this loop
    climber,   \* action_ of the climber: the up/down action, or Idle
    lifter,    \* action_ of the lifter: null, its hold, a deploy, or a finished one
    lift,      \* the power of the lifter's motor
    traverse,  \* the power of the traverser's motor
    height,    \* where the lifter is
    zero,      \* where its encoder reads 0
    field,     \* field_mode_
    turn       \* whose part of the loop comes next, or "disabled"

device == <<started, deployed>>
vars == <<device, asked, climber, lifter, lift, traverse, height, zero, field, turn>>

Fast == -10   Slow == -1   Up == 4   \* Fast: climber:power:down, Up: climber:power:up
Powers == {Fast, Slow, 0, Up}
Sides  == -1..1

Idle      == [lift |-> 0, on |-> FALSE]
UpDown(l) == [lift |-> l, on |-> TRUE]
UpDowns   == {UpDown(l) : l \in {Fast, 0, Up}}
Deploying == {"rising", "sinking"}

\* up wins over down and left over right when both are held.
Buttons  == [lock: BOOLEAN, deploy: BOOLEAN, lift: {Fast, 0, Up}]
Released == [lock |-> FALSE, deploy |-> FALSE, lift |-> 0]

Reading == height - zero
Busy    == climber.on \/ lifter \in Deploying
----------------------------------------------------------------------------
Init ==
    /\ started = FALSE /\ deployed = FALSE
    /\ asked = Released
    /\ climber = Idle /\ lifter = "hold"
    /\ lift = 0 /\ traverse = 0
    /\ height = 0 /\ zero = 0
    /\ field \in FieldModes
    /\ turn = "disabled"

\* Lifter::setMotor
Clamp(p) ==
    CASE p < 0 /\ field /\ Reading < 0  -> 0
      [] p < 0 /\ field /\ Reading > 1  -> p
      [] p < 0                          -> Slow
      [] p > 0 /\ Reading > MaxHeight   -> 0
      [] OTHER                          -> p
----------------------------------------------------------------------------
(***************************************************************************)
(* The turn of the operator interface.                                     *)
(***************************************************************************)
\* MotorEncoderGoToAction::start on the lifter, its hold cancelled before.
StartDeploy ==
    /\ lifter' = CASE Reading < ClimbHeight -> "rising"
                   [] Reading > ClimbHeight -> "sinking"
                   [] OTHER -> "done"
    /\ lift' = 0
    /\ UNCHANGED <<climber, traverse>>

\* ClimberUpDownAction::start, with the power action it gives to the lifter.
StartUpDown(l, s) ==
    /\ climber' = UpDown(l)
    /\ lifter' = "done"
    /\ lift' = Clamp(l)
    /\ traverse' = s

Nothing == UNCHANGED <<climber, lifter, lift, traverse>>

\* The dispatches of a crowded loop are never started.
Dispatched(Start, crowded) == IF crowded THEN Nothing ELSE Start

Locked(b) == b.lock /\ Nothing /\ UNCHANGED device

SkipDeploy(b) ==
    /\ ~b.lock /\ ~deployed /\ ~field /\ ~started
    /\ deployed' = TRUE /\ started' = TRUE
    /\ Nothing

\* The first deploy, or one more after a lost or an interrupted one.
Deploy(b, crowded) ==
    /\ ~b.lock /\ ~deployed /\ (field \/ started)
    /\ b.deploy /\ ~Busy
    /\ started' = TRUE
    /\ Dispatched(StartDeploy, crowded)
    /\ UNCHANGED deployed

\* Mutant of NoteDeployed: the up/down buttons work while the lifter deploys.
NoteDeployedEarly(b) ==
    /\ ~b.lock /\ ~deployed /\ (field \/ started)
    /\ ~(b.deploy /\ ~Busy)
    /\ deployed' = started
    /\ Nothing /\ UNCHANGED started

\* Mutant of NoteDeployed: the end of the deploy goes unnoticed.
NoteDeployedNever(b) ==
    /\ ~b.lock /\ ~deployed /\ (field \/ started)
    /\ ~(b.deploy /\ ~Busy)
    /\ Nothing /\ UNCHANGED device

NoteDeployed(b) ==
    /\ ~b.lock /\ ~deployed /\ (field \/ started)
    /\ ~(b.deploy /\ ~Busy)
    /\ deployed' = (started /\ ~Busy)
    /\ Nothing /\ UNCHANGED started

DeployAgain(b, crowded) ==
    /\ ~b.lock /\ deployed
    /\ b.deploy /\ ~Busy
    /\ started' = TRUE /\ deployed' = FALSE
    /\ Dispatched(StartDeploy, crowded)

Move(b, side, crowded) ==
    /\ ~b.lock /\ deployed
    /\ ~(b.deploy /\ ~Busy)
    /\ Dispatched(StartUpDown(b.lift, side), crowded)
    /\ UNCHANGED device

\* DroidOIDevice::generateClimbActions, and the run of the sequence it fills
Operate(b, side, crowded) ==
    /\ turn = "oi" /\ turn' = "subsystems"
    /\ crowded => MayCrowd
    /\ asked' = b
    /\ \/ Locked(b)
       \/ SkipDeploy(b)
       \/ Deploy(b, crowded)
       \/ NoteDeployed(b)
       \/ DeployAgain(b, crowded)
       \/ Move(b, side, crowded)
    /\ UNCHANGED <<height, zero, field>>
----------------------------------------------------------------------------
(***************************************************************************)
(* The turn of the subsystems: the lifter first, then the climber.         *)
(***************************************************************************)
\* Mutant of AtLimit: only the upper limit stops the lifter.
AtUpperLimit == climber.on /\ climber.lift > 0 /\ Reading > MaxHeight

\* ClimberUpDownAction::run
AtLimit ==
    climber.on /\ \/ climber.lift > 0 /\ Reading > MaxHeight
                  \/ climber.lift < 0 /\ Reading <= 0

\* Mutant of LifterHolds: a hold leaves the motor as it was.
LifterHoldsPower ==
    /\ lifter \in {"hold", "none"}
    /\ lift' = IF AtLimit THEN 0 ELSE lift
    /\ lifter' = IF AtLimit THEN "none" ELSE lifter

\* The hold's output is within climber:lifter:hold:min and max, both 0.
LifterHolds ==
    /\ lifter \in {"hold", "none"}
    /\ lift' = IF AtLimit \/ lifter = "hold" THEN 0 ELSE lift
    /\ lifter' = IF AtLimit THEN "none" ELSE lifter

\* The default action comes back; it is started and not yet run.
LifterFinished ==
    /\ lifter = "done"
    /\ lifter' = IF AtLimit THEN "none" ELSE "hold"
    /\ lift' = IF AtLimit THEN 0 ELSE lift

\* MotorEncoderGoToAction::run before the end of the profile, which follows
\* the target a band too far at most.
LifterDeploys ==
    /\ lifter \in Deploying
    /\ lift' \in CASE lifter = "rising" /\ Reading <= ClimbHeight  -> {0, Clamp(Up)}
                   [] lifter = "sinking" /\ Reading >= ClimbHeight -> {0, Clamp(Fast)}
                   [] OTHER -> {0}
    /\ UNCHANGED lifter

\* and at its end, wherever the lifter is then
DeployEnds ==
    /\ lifter \in Deploying
    /\ lifter' = "done" /\ lift' = 0

Subsystems(Lifter) ==
    /\ turn = "subsystems" /\ turn' = "mechanism"
    /\ Lifter
    /\ UNCHANGED <<started, deployed, asked, climber, traverse, height, zero, field>>

Hold   == Subsystems(LifterHolds)
Finish == Subsystems(LifterFinished)
Rise   == Subsystems(LifterDeploys)
Arrive == Subsystems(DeployEnds)

Mechanism ==
    /\ turn = "mechanism" /\ turn' = "oi"
    /\ height' \in CASE lift > 0 /\ height < Top -> {height, height + 1}
                     [] lift < 0 -> {height, height - 1}
                     [] OTHER -> {height}
    /\ UNCHANGED <<device, asked, climber, lifter, lift, traverse, zero, field>>

\* Robot::DisabledInit, Subsystem::reset of the climber and of the lifter
Disable ==
    /\ MayDisable /\ turn = "oi" /\ turn' = "disabled"
    /\ climber' = Idle /\ lifter' = "hold" /\ lift' = 0
    /\ zero' = height          \* MotorEncoderSubsystem::reset, XeroEncoder::reset
    /\ field' \in FieldModes   \* Climber::init
    /\ UNCHANGED <<started, deployed, asked, traverse, height>>

\* Robot::TeleopInit
Enable ==
    /\ turn = "disabled" /\ turn' = "oi"
    /\ field' \in FieldModes
    /\ UNCHANGED <<device, asked, climber, lifter, lift, traverse, height, zero>>

Next ==
    \/ \E b \in Buttons, side \in Sides, crowded \in BOOLEAN : Operate(b, side, crowded)
    \/ Hold \/ Finish \/ Rise \/ Arrive
    \/ Mechanism
    \/ Disable \/ Enable

Spec == Init /\ [][Next]_vars

\* The robot loop goes on, and the profile of a deploy ends in a finite time.
FairSpec == Spec /\ WF_vars(Next) /\ SF_vars(Arrive)
----------------------------------------------------------------------------
(***************************************************************************)
(* Properties.                                                             *)
(***************************************************************************)
TypeOK ==
    /\ {started, deployed, field} \subseteq BOOLEAN
    /\ asked \in Buttons
    /\ climber \in UpDowns \cup {Idle}
    /\ lifter \in {"none", "hold", "done"} \cup Deploying
    /\ lift \in Powers /\ traverse \in Sides
    /\ height \in 0..Top /\ zero \in 0..Top
    /\ turn \in {"oi", "subsystems", "mechanism", "disabled"}

(***************************************************************************)
(* The lifter stays between its limits, as its encoder reads them, however *)
(* the deploy, the buttons and the hold follow each other, on the field    *)
(* and in the pit (Lifter.h:25-41, ClimberUpDownAction.cpp:38-46).         *)
(***************************************************************************)
WithinTravel == Reading \in 0..MaxHeight + 1

(***************************************************************************)
(* The lifter is driven only by a deploy under way, or by a button that    *)
(* was found held in this very loop with the lock open: a lock, a release, *)
(* a crowded loop and a disable all stop it before the mechanism moves     *)
(* again, through whichever action is attached then.                       *)
(***************************************************************************)
DrivenOnlyWhileAsked ==
    turn = "mechanism" /\ lift # 0 =>
        \/ lifter \in Deploying
        \/ deployed /\ ~asked.lock /\ asked.lift * lift > 0

(***************************************************************************)
(* While the device believes the climber is not deployed no up/down action *)
(* is attached, and while a deploy runs the device does not believe it     *)
(* deployed: the two never drive the lifter together                       *)
(* (DroidOIDevice.cpp:496-515).                                            *)
(***************************************************************************)
OneDriver ==
    /\ ~deployed => ~climber.on
    /\ lifter \in Deploying => ~deployed /\ started

(***************************************************************************)
(* A deploy that was asked for ends with the buttons usable, unless the    *)
(* operator locks the climber or the robot is disabled; a lost dispatch    *)
(* does not hold it up.                                                    *)
(***************************************************************************)
DeployCompletes ==
    started /\ ~deployed ~> deployed \/ asked.lock \/ asked.deploy \/ turn = "disabled"
=============================================================================
