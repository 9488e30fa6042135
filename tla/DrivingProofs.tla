--------------------------- MODULE DrivingProofs ---------------------------
(***************************************************************************)
(* Proofs about Driving, for every set of powers, tolerance and settings:  *)
(* no power of the tank drive is left without an action that answers for   *)
(* it, the stick is followed, a takeover leaves nothing behind, and        *)
(* autonomous starts with the program that is selected.                    *)
(***************************************************************************)
EXTENDS Driving, TLAPS

\* What the steps keep, beyond the types: a sequence whose drive is over is
\* not waiting for it, and the stick's power is the one that is cached.
DetectorKnows ==
    drive = "detector" => IF driveDone THEN detector \in {"finished", "gone"}
                                       ELSE detector = "driving"
CacheIsMotor == drive = "driver" => ~driveDone /\ motor = cache
StickIsNear ==
    pad = "stick" => asked - cache <= Tolerance /\ cache - asked <= Tolerance

\* The types and the relations a step is proved to keep.
IInv == TypeOK /\ PowerHasAnOwner /\ DetectorKnows /\ CacheIsMotor /\ StickIsNear

\* It holds at the start.
LEMMA InitIInv == Init => IInv
<1> SUFFICES ASSUME Init PROVE IInv
    OBVIOUS
<1>1. TypeOK BY PowersAssumption, SettingsAssumption DEF Init, TypeOK
<1>2. PowerHasAnOwner /\ DetectorKnows /\ CacheIsMotor /\ StickIsNear
    BY DEF Init, PowerHasAnOwner, DetectorKnows, CacheIsMotor, StickIsNear
<1> QED BY <1>1, <1>2 DEF IInv

\* Types of the two variables that the steps of the driver station set.
LEMMA AutoTyped ==
    ASSUME TypeOK, UpdateAutoMode \/ UNCHANGED auto
    PROVE  /\ key' \in Settings \cup {NoSetting} /\ made' \in Settings \cup {NoSetting}
           /\ program' \in {"null", "new", "begun"}
           /\ program' # "null" => made' \in Runnable
    BY DEF TypeOK, UpdateAutoMode, auto, Make

\* A change of mode drops the action with its power, or leaves both.
LEMMA StationKeeps ==
    ASSUME IInv, NEW m \in {"disabled", "autonomous", "teleop"}, Enter(m)
    PROVE  IInv'
<1> USE DEF IInv
<1>1. CASE UNCHANGED tank /\ (UpdateAutoMode \/ UNCHANGED auto)
    <2>1. TypeOK' BY <1>1, AutoTyped DEF Enter, TypeOK, tank, gamepad
    <2> QED BY <1>1, <2>1 DEF Enter, tank, gamepad, PowerHasAnOwner, Moving,
                DetectorKnows, CacheIsMotor, StickIsNear
<1>2. CASE DisabledInit
    <2>1. TypeOK'
        BY <1>2, PowersAssumption DEF Enter, TypeOK, DisabledInit, Reset, Drop, gamepad
    <2> QED BY <1>2, <2>1 DEF Enter, DisabledInit, Reset, Drop, gamepad, PowerHasAnOwner,
                Moving, DetectorKnows, CacheIsMotor, StickIsNear
<1> QED BY <1>1, <1>2 DEF Enter, AutonomousInit, TeleopInit

\* Turning the selector touches neither action nor motors.
LEMMA SelectKeeps == ASSUME IInv, NEW s \in Settings, Select(s) PROVE IInv'
    BY DEF IInv, Select, TypeOK, auto, tank, gamepad, PowerHasAnOwner, Moving,
        DetectorKnows, CacheIsMotor, StickIsNear

\* A disabled loop makes a program at most.
LEMMA DisabledLoopKeeps == ASSUME IInv, DisabledLoop PROVE IInv'
<1> USE DEF IInv
<1>1. TypeOK' BY AutoTyped DEF DisabledLoop, TypeOK, tank, gamepad
<1> QED BY <1>1 DEF DisabledLoop, tank, gamepad, PowerHasAnOwner, Moving,
            DetectorKnows, CacheIsMotor, StickIsNear

\* A program gives a path with its power, or nothing.
LEMMA AutonomousKeeps == ASSUME IInv, Autonomous PROVE IInv'
<1> USE DEF IInv
<1>1. TypeOK'
    BY DEF Autonomous, Turn, NoProgram, ProgramGoesOn, ProgramEnds, Give, TypeOK, auto, tank
<1>2. PowerHasAnOwner' /\ DetectorKnows' /\ CacheIsMotor'
    BY DEF Autonomous, NoProgram, ProgramGoesOn, ProgramEnds, Give, tank,
        PowerHasAnOwner, Moving, DetectorKnows, CacheIsMotor
<1>3. StickIsNear' BY DEF Autonomous, StickIsNear
<1> QED BY <1>1, <1>2, <1>3

\* A takeover begins with its drive and is cancelled with it.
LEMMA DetectedKeeps == ASSUME IInv, Detected PROVE IInv'
<1> USE DEF IInv
<1>1. TypeOK'
    BY PowersAssumption DEF Detected, Turn, CancelTakeover, RunTakeover, TakesOver, TakenOver,
        Reset, Drop, Give, TypeOK, auto, tank
<1>2. StickIsNear' BY DEF Detected, StickIsNear
<1>3. PowerHasAnOwner'
    BY DEF Detected, CancelTakeover, RunTakeover, TakesOver, Reset, Drop, Give, tank,
        PowerHasAnOwner, Moving
<1>4. DetectorKnows'
    BY DEF Detected, CancelTakeover, RunTakeover, TakesOver, TakenOver, Reset, Drop, Give,
        tank, DetectorKnows
<1>5. CacheIsMotor'
    BY DEF Detected, CancelTakeover, RunTakeover, TakesOver, Reset, Drop, Give, tank,
        CacheIsMotor
<1> QED BY <1>1, <1>2, <1>3, <1>4, <1>5

\* What the driver sends is cached in the same step.
LEMMA DrivesKeeps == ASSUME IInv, Drives PROVE IInv'
<1> USE DEF IInv
<1>1. PICK p \in Powers : Nudge(p) \/ Stick(p) BY DEF Drives
<1>2. TypeOK'
    BY <1>1 DEF Drives, Turn, Nudge, Stick, Give, TypeOK, auto, tank
<1>3. PowerHasAnOwner' /\ DetectorKnows' /\ CacheIsMotor'
    BY <1>1 DEF Drives, Nudge, Stick, Give, tank,
        PowerHasAnOwner, Moving, DetectorKnows, CacheIsMotor
<1>4. StickIsNear'
    <2>1. p \in Int /\ cache \in Int BY PowersAssumption DEF TypeOK
    <2> QED BY <1>1, <2>1, PowersAssumption DEF Nudge, Stick, Give, Differs, StickIsNear
<1> QED BY <1>2, <1>3, <1>4

\* An action ends with its power, and only then makes place.
LEMMA TankKeeps == ASSUME IInv, RunTank \/ EndAction PROVE IInv'
<1> USE DEF IInv
<1>1. TypeOK'
    <2>1. turn' = "station" /\ UNCHANGED <<phase, setting, auto, gamepad>>
        BY DEF RunTank, EndAction, Tank
    <2>2. /\ motor' \in Powers /\ driveDone' \in BOOLEAN
          /\ drive' \in {"none", "program", "driver", "nudge", "detector"}
          /\ detector' \in {"watching", "starting", "driving", "finished", "gone"}
        <3>1. CASE RunTank
            BY <3>1 DEF RunTank, Tank, FallBack, RunAction, Drop, tank, TypeOK
        <3>2. CASE EndAction
            BY <3>2, PowersAssumption DEF EndAction, Tank, TimeIsUp, TypeOK
        <3> QED BY <3>1, <3>2
    <2> QED BY <2>1, <2>2 DEF TypeOK, auto, gamepad
<1>2. PowerHasAnOwner' /\ DetectorKnows' /\ CacheIsMotor' /\ StickIsNear'
    BY DEF RunTank, EndAction, Tank, FallBack, RunAction, TimeIsUp, Drop, tank, gamepad,
        TypeOK, PowerHasAnOwner, Moving, DetectorKnows, CacheIsMotor, StickIsNear
<1> QED BY <1>1, <1>2

\* Every step keeps the invariant.
LEMMA StepIInv == IInv /\ [Next]_vars => IInv'
<1> SUFFICES ASSUME IInv, [Next]_vars PROVE IInv'
    OBVIOUS
<1>1. CASE UNCHANGED vars
    BY <1>1 DEF IInv, vars, TypeOK, auto, tank, gamepad, PowerHasAnOwner, Moving,
        DetectorKnows, CacheIsMotor, StickIsNear
<1>2. CASE Next
    BY <1>2, StationKeeps, SelectKeeps, DisabledLoopKeeps, AutonomousKeeps, DetectedKeeps,
        DrivesKeeps, TankKeeps DEF Next
<1> QED BY <1>1, <1>2

\* The inductive invariant holds in every state.
THEOREM Invariance == Spec => []IInv
    BY InitIInv, StepIInv, PTL DEF Spec

\* Every variable keeps its type, and the attached program is one there is.
THEOREM TypeCorrect == Spec => []TypeOK
<1>1. IInv => TypeOK BY DEF IInv
<1> QED BY <1>1, Invariance, PTL

\* The motors are never on without an action that answers for them.
THEOREM NoPowerLeftBehind == Spec => []PowerHasAnOwner
<1>1. IInv => PowerHasAnOwner BY DEF IInv
<1> QED BY <1>1, Invariance, PTL

\* The motors are within the tolerance of the stick while its action is at work.
THEOREM StickFollowed == Spec => []StickIsFollowed
<1>1. IInv => StickIsFollowed
    BY PowersAssumption DEF IInv, StickIsFollowed, CacheIsMotor, StickIsNear
<1> QED BY <1>1, Invariance, PTL

\* Nothing of a takeover drives once the driver has the gamepad again.
THEOREM TakeoverGone == Spec => []TakeoverLeavesNothing
<1>1. IInv => TakeoverLeavesNothing
    BY DEF IInv, DetectorKnows, TakeoverLeavesNothing, TakenOver
<1> QED BY <1>1, Invariance, PTL
----------------------------------------------------------------------------
(***************************************************************************)
(* The autonomous program.  A key is only kept with the program made for   *)
(* it, and while the robot is disabled a program that was kept is fresh.   *)
(***************************************************************************)
ProgramIsMade ==
    /\ program # "null" /\ key # NoSetting => made = key
    /\ phase = "disabled" /\ key # NoSetting => program = IF key \in Runnable THEN "new" ELSE "null"

\* Every step keeps the program with its key.
LEMMA StepMade == TypeOK /\ ProgramIsMade /\ [Next]_vars => ProgramIsMade'
<1> SUFFICES ASSUME TypeOK, ProgramIsMade, [Next]_vars PROVE ProgramIsMade'
    OBVIOUS
<1> USE DEF ProgramIsMade
<1>1. ASSUME NEW m \in {"disabled", "autonomous", "teleop"}, Enter(m) PROVE ProgramIsMade'
    BY <1>1 DEF TypeOK, Enter, DisabledInit, AutonomousInit, TeleopInit, UpdateAutoMode, Make, auto
<1>2. ASSUME NEW s \in Settings, Select(s) PROVE ProgramIsMade'
    BY <1>2 DEF Select, auto
<1>3. CASE DisabledLoop BY <1>3 DEF DisabledLoop, TypeOK, UpdateAutoMode, Make, auto
<1>4. CASE Autonomous
    BY <1>4 DEF Autonomous, Turn, NoProgram, ProgramGoesOn, ProgramEnds, auto
<1>5. CASE Detected \/ Drives
    BY <1>5 DEF Detected, Drives, Turn, auto
<1>6. CASE RunTank \/ EndAction
    BY <1>6 DEF RunTank, EndAction, Tank, auto
<1>7. CASE UNCHANGED vars BY <1>7 DEF vars, auto
<1> QED BY <1>1, <1>2, <1>3, <1>4, <1>5, <1>6, <1>7 DEF Next

\* A program that is kept belongs to its key, in every state.
THEOREM MadeInvariance == Spec => [](TypeOK /\ ProgramIsMade)
<1>1. Init => ProgramIsMade BY DEF Init, ProgramIsMade
<1> QED BY <1>1, StepMade, TypeCorrect, PTL DEF Spec

\* Autonomous starts with a program made for what is selected then, and after
\* a disable from the beginning of a program, if there is one.
THEOREM FreshProgram == Spec => ProgramIsFresh
<1>1. TypeOK /\ ProgramIsMade /\ [Next]_vars => [Begins => IsCurrent]_vars
    BY SettingsAssumption DEF IsCurrent, TypeOK, ProgramIsMade, Begins, Next, Enter, AutonomousInit,
        UpdateAutoMode, auto, Select, DisabledLoop, Autonomous, Detected, Drives, Turn, RunTank, EndAction,
        Tank, vars
<1>2. TypeOK /\ ProgramIsMade /\ [Next]_vars => [Begins => IsFresh]_vars
    BY SettingsAssumption DEF IsFresh, TypeOK, ProgramIsMade, Begins, Make, Next, Enter, AutonomousInit,
        UpdateAutoMode, auto, Select, DisabledLoop, Autonomous, Detected, Drives, Turn, RunTank, EndAction,
        Tank, vars
<1>3. TypeOK /\ ProgramIsMade /\ [Next]_vars => [Begins => IsCurrent /\ IsFresh]_vars
    BY <1>1, <1>2
<1> QED BY <1>3, MadeInvariance, PTL DEF Spec, ProgramIsFresh
=============================================================================
