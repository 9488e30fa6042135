------------------------------- MODULE Aiming -------------------------------
(***************************************************************************)
(* How a volley of the droid robot is aimed.  The collect and shoot modes, *)
(* the manipulator and the conveyor are those of DroidOI; here they meet   *)
(* what FireAction asks before it fires: the target tracker                *)
(* (targettracker/TargetTracker.cpp), the turret with its follow, goto and *)
(* hold actions (turret/, xerobase/motorencodersubsystem) and the movement *)
(* of the robot.                                                           *)
(*                                                                         *)
(* Angles are bands of the turret's range, counted from turret zero; two   *)
(* bands are too far apart for a lock or for being ready.  The turret runs *)
(* after the manipulator and the tracker computes after the turret, so the *)
(* rest of a loop, the world's movement and the next computeState are one  *)
(* step, Follow.                                                           *)
(***************************************************************************)
EXTENDS Integers

CONSTANTS
    Far,                                \* the last band of the turret's range
    MaxBalls, Jobs, Preset, MayDisable  \* see DroidOI

ASSUME AimingAssumption == Far \in Nat \ {0}

VARIABLES
    balls, staged, collecting, job, stopping,                   \* see BallLedger
    mode, manip, manipDone, firing, ownEmit, intakeBusy, turn,  \* see DroidOI
    loop,      \* "droid" for the turns of DroidOI, then "rest"
    edge,      \* the preparation to fire was given in this very loop
    turret,    \* action_ of the turret
    ready,     \* readyToFire_ of the turret
    angle,     \* where the turret points
    locked,    \* locked_ of the tracker
    desired,   \* relativeAngle_ of the tracker
    bearing,   \* where the target is
    fast,      \* the drive base is above the velocity threshold
    turned     \* history: the robot has turned in place since the lock

Droid == INSTANCE DroidOI

play   == <<balls, staged, collecting, job, stopping,
            mode, manip, manipDone, firing, ownEmit, intakeBusy, turn>>
rest   == <<loop, edge>>
aim    == <<turret, ready, angle, locked, desired, bearing, fast, turned>>
vars   == <<play, rest, aim>>

Angles == 0..Far

Init ==
    /\ Droid!Init
    /\ loop = "rest" /\ edge = FALSE
    /\ turret = "none" /\ angle = 0
    /\ ready \in BOOLEAN       \* not initialised by the constructor
    /\ locked = FALSE /\ desired = 0 /\ turned = FALSE
    /\ bearing \in Angles /\ fast = FALSE
----------------------------------------------------------------------------
(***************************************************************************)
(* What the modes of the device ask of the turret.                         *)
(***************************************************************************)
Enters(m) == mode # m /\ mode' = m

\* MotorEncoderGoToAction::start; FollowTargetAction::cancel leaves readyToFire_.
GoToZero == turret' = IF angle = 0 THEN "done" ELSE "zero"

\* startEject, collectMode and shootMode, and what leaves the turret alone
TurretOrdered(eject, manual) ==
    CASE eject \/ Enters("PreparingForCollect") -> GoToZero
      [] Enters("PreparingForShoot")            -> IF manual THEN GoToZero ELSE turret' = "follow"
      [] OTHER                                  -> UNCHANGED turret

Operate ==
    /\ loop = "droid"
    /\ \E eject, shoot, pressed, manual, trigger \in BOOLEAN :
        /\ Droid!Operate(eject, shoot, pressed, manual, trigger)
        /\ TurretOrdered(eject, manual)
    /\ edge' = Enters("PreparingForShoot")
    /\ UNCHANGED <<loop, ready, angle, locked, desired, bearing, fast, turned>>

\* waitForSensorEdgeState takes two runs at least: a ball that is not staged
\* is not staged in the first.
EdgeToWaitFor == edge /\ "fire" \notin staged

Children ==
    /\ loop = "droid"
    /\ Droid!ConveyorStep \/ Droid!IntakeDone \/ Droid!ChildrenRan
    /\ EdgeToWaitFor => staged' = staged
    /\ UNCHANGED <<rest, aim>>
----------------------------------------------------------------------------
(***************************************************************************)
(* FireAction::run, with what it reads.  The velocity the shooter is asked *)
(* for follows the target as soon as there is a lock.                      *)
(***************************************************************************)
\* Mutant of TargetReady: the drive base alone counts.
TargetStill == ~fast

TargetReady == locked /\ ~fast

\* Mutant of Aimed: the turret is not asked.
WheelOnly(wheel) == wheel

Aimed(wheel) == ready /\ wheel

RunManip ==
    /\ loop = "droid" /\ loop' = "rest"
    /\ \E wheel \in BOOLEAN : Droid!RunManip(TargetReady, TargetReady /\ Aimed(wheel))
    /\ UNCHANGED <<edge, aim>>
----------------------------------------------------------------------------
(***************************************************************************)
(* The turret runs, the robot and the turret move, the tracker computes.   *)
(***************************************************************************)
Toward(a, b) == IF a < b THEN a + 1 ELSE IF a > b THEN a - 1 ELSE a

\* Mutant of FollowRuns: no least output, the turret stays a band off.
FollowRunsWeak ==
    /\ turret = "follow" /\ UNCHANGED turret
    /\ angle' \in {angle} \cup {a \in {Toward(angle, desired)} : a # desired}
    /\ ready' = (angle = desired)

FollowRuns ==
    /\ turret = "follow" /\ UNCHANGED turret
    /\ angle' \in {angle, Toward(angle, desired)}
    /\ ready' = (angle = desired)

\* MotorEncoderGoToAction::run, until the time of its profile is over
GoToRuns ==
    /\ turret = "zero"
    /\ \/ turret' = turret /\ angle' = Toward(angle, 0)
       \/ turret' = "done" /\ angle' = angle
    /\ UNCHANGED ready

\* The hold a goto has left as the default action, or nothing before the first
HoldRuns ==
    /\ turret \in {"none", "hold", "done"}
    /\ turret' = IF turret = "done" THEN "hold" ELSE turret
    /\ angle' \in {angle} \cup (IF turret = "none" THEN {} ELSE {Toward(angle, 0)})
    /\ UNCHANGED ready

\* Mutant of Unlocked: a lock is for good.
NeverUnlocked == ~locked

\* The velocity of the drive base is the mean of its two sides: 0 when it turns
\* in place.
Unlocked == ~locked \/ fast'

\* TargetTracker::computeState
Compute(sample) ==
    /\ IF ~Unlocked THEN UNCHANGED <<locked, desired>>
       ELSE /\ desired' = IF sample THEN bearing' ELSE 0
            /\ locked' = (sample /\ ~fast' /\ angle' = bearing')

\* The robot stands still, drives, or turns in place.
Moves ==
    \/ fast' = FALSE /\ bearing' = bearing
    \/ fast' \in BOOLEAN /\ bearing' \in {b \in Angles : b - bearing \in {-1, 1}}
    \/ fast' = TRUE /\ bearing' = bearing

Follow ==
    /\ loop = "rest" /\ loop' = "droid" /\ edge' = FALSE
    /\ FollowRuns \/ GoToRuns \/ HoldRuns
    /\ Moves
    /\ \E sample \in BOOLEAN : Compute(sample)
    /\ turned' = (locked /\ (turned \/ (~fast' /\ bearing' # bearing)))
    /\ UNCHANGED play

\* DisabledInit: every action is dropped, none is cancelled; the tracker goes on
\* computing while the robot is disabled.
Disable ==
    /\ loop = "droid" /\ loop' = "rest"
    /\ Droid!Disable
    /\ turret' = IF turret \in {"none", "follow"} THEN "none" ELSE "hold"
    /\ UNCHANGED <<edge, ready, angle, locked, desired, bearing, fast, turned>>

Next == Operate \/ Children \/ RunManip \/ Follow \/ Disable

Spec == Init /\ [][Next]_vars

\* The robot loop goes on, and the turret gets nearer to where it is sent.
FollowsOn == Follow /\ angle' = Toward(angle, desired)
FairSpec == Spec /\ WF_vars(Next) /\ SF_vars(FollowsOn)
----------------------------------------------------------------------------
(***************************************************************************)
(* Properties.                                                             *)
(***************************************************************************)
\* The variables of DroidOI have the types they have there.
TypeOK ==
    /\ loop \in {"droid", "rest"} /\ edge \in BOOLEAN
    /\ turret \in {"none", "hold", "done", "zero", "follow"}
    /\ {ready, locked, fast, turned} \subseteq BOOLEAN
    /\ {angle, desired, bearing} \subseteq Angles

(***************************************************************************)
(* What the tracker computed when it locked is where the target is for as  *)
(* long as the lock lasts and the robot has not turned in place: a robot   *)
(* that drives loses the lock before anybody reads it                      *)
(* (TargetTracker.cpp:51-84).                                              *)
(***************************************************************************)
LockIsCurrent == locked /\ ~turned => desired = bearing

(***************************************************************************)
(* Once FireAction has had its turn, its emit action is at work, and not   *)
(* told to stop, only with a lock and a robot that is not driving,         *)
(* whichever modes the operator went through (FireAction.cpp:139-178).     *)
(***************************************************************************)
NoShotWithoutLock ==
    loop = "rest" /\ job = "Emit" /\ ownEmit /\ ~stopping => locked /\ ~fast

(***************************************************************************)
(* With the turret following, a volley starts with the turret on target,   *)
(* although FireAction reads a flag of the turret that is a loop old: the  *)
(* yaw that a lock asks for makes up for it (FireAction.cpp:121-178,       *)
(* TargetTracker.cpp:76-79).  The loop that puts the turret back on its    *)
(* target is the exception, see ReadyIsAligned.                            *)
(***************************************************************************)
Starts == firing' /\ ~firing
Follows == turret = "follow" /\ ~turned
VolleyIsAimed == [][Starts /\ Follows /\ ~edge => angle = bearing]_vars

(***************************************************************************)
(* With the turret following a target that stays seen off its zero, and    *)
(* the robot at rest, the tracker locks and the turret gets ready.         *)
(***************************************************************************)
SteadyAimIsReady ==
    <>[](turret = "follow" /\ ~fast /\ desired = bearing /\ bearing # 0) /\ <>[][bearing' = bearing]_vars
        => []<>(locked /\ ready)

(***************************************************************************)
(* "Returns true if we have up-to-date valid data" (TargetTracker.h:32, on *)
(* hasValidSample): a tracker that says so has the angle of the target.    *)
(***************************************************************************)
SampleIsUpToDate == locked => desired = bearing

(***************************************************************************)
(* "Returns true if the turret is aligned for a shot" (Turret.h:20, on     *)
(* isReadyToFire): a volley starts with the turret on target.              *)
(***************************************************************************)
ReadyIsAligned == [][Starts /\ Follows => angle = bearing]_vars
=============================================================================
