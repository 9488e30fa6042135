---------------------------- MODULE AimingProofs ----------------------------
(***************************************************************************)
(* Proofs about Aiming, for every range of the turret: what the tracker    *)
(* computed when it locked stays true until the robot turns in place, and  *)
(* with the turret following a volley starts with the turret on target.    *)
(***************************************************************************)
EXTENDS Aiming, TLAPS

\* Types of the tracker, the turret and the world.
Typed ==
    /\ loop \in {"droid", "rest"}
    /\ {locked, fast, turned} \subseteq BOOLEAN
    /\ angle \in Angles /\ desired \in Angles /\ bearing \in Angles

\* Only Follow changes what the tracker says, where the target is and how the
\* robot moves.
LEMMA TrackerLeftAlone ==
    ASSUME Operate \/ Children \/ RunManip \/ Disable
    PROVE  UNCHANGED <<locked, desired, bearing, fast, turned, angle>> /\ loop' \in {"droid", "rest"} \cup {loop}
    BY DEF Operate, Children, RunManip, Disable, rest, aim

\* A step towards an angle stays in the range.
LEMMA TowardTyped ==
    ASSUME NEW a \in Angles, NEW b \in Angles PROVE Toward(a, b) \in Angles
    BY AimingAssumption DEF Angles, Toward

\* The end of a loop keeps the types.
LEMMA FollowTyped ==
    ASSUME Typed, Follow
    PROVE  /\ loop' = "droid" /\ {fast', turned'} \subseteq BOOLEAN
           /\ angle' \in Angles /\ bearing' \in Angles
<1>1. 0 \in Angles BY AimingAssumption DEF Angles
<1>2. angle' \in Angles
    BY <1>1, TowardTyped DEF Typed, Follow, FollowRuns, GoToRuns, HoldRuns
<1>3. bearing' \in Angles /\ fast' \in BOOLEAN BY DEF Typed, Follow, Moves
<1>4. turned' \in BOOLEAN BY DEF Follow, Typed
<1> QED BY <1>2, <1>3, <1>4 DEF Follow

\* A lock is one of this loop, or one that neither driving nor turning ended.
IInv == Typed /\ LockIsCurrent

\* The end of a loop renews a lock, drops it, or keeps it with the target.
LEMMA FollowKeeps == ASSUME IInv, Follow PROVE IInv'
<1> USE DEF IInv
<1>1. PICK sample \in BOOLEAN : Compute(sample) BY DEF Follow
<1>2. /\ angle' \in Angles /\ bearing' \in Angles /\ desired \in Angles
      /\ {fast', turned'} \subseteq BOOLEAN /\ loop' = "droid"
    BY FollowTyped DEF Typed
<1>3. 0 \in Angles BY AimingAssumption DEF Angles
<1>4. CASE ~Unlocked
    <2>1. locked /\ ~fast' /\ locked' = locked /\ desired' = desired
        BY <1>1, <1>2, <1>4 DEF Compute, Unlocked
    <2>2. turned' = (turned \/ bearing' # bearing) BY <2>1 DEF Follow
    <2> QED BY <1>2, <2>1, <2>2 DEF Typed, LockIsCurrent
<1>5. CASE Unlocked
    <2>1. /\ desired' = IF sample THEN bearing' ELSE 0
          /\ locked' = (sample /\ ~fast' /\ angle' = bearing')
        BY <1>1, <1>5 DEF Compute
    <2> QED BY <1>2, <1>3, <2>1 DEF Typed, LockIsCurrent
<1> QED BY <1>4, <1>5

\* The inductive invariant holds in every state.
THEOREM Invariance == Spec => []IInv
<1>1. Init => IInv
    <2>1. 0 \in Angles BY AimingAssumption DEF Angles
    <2> QED BY <2>1 DEF Init, IInv, Typed, LockIsCurrent
<1>2. IInv /\ [Next]_vars => IInv'
    <2> SUFFICES ASSUME IInv, [Next]_vars PROVE IInv'
        OBVIOUS
    <2>1. CASE Operate \/ Children \/ RunManip \/ Disable
        BY <2>1, TrackerLeftAlone DEF IInv, Typed, LockIsCurrent
    <2>2. CASE Follow BY <2>2, FollowKeeps
    <2>3. CASE UNCHANGED vars
        BY <2>3 DEF vars, aim, rest, IInv, Typed, LockIsCurrent
    <2> QED BY <2>1, <2>2, <2>3 DEF Next
<1> QED BY <1>1, <1>2, PTL DEF Spec

\* While the lock lasts and the robot has not turned in place, the tracker's
\* angle is the target's.
THEOREM LockStaysCurrent == Spec => []LockIsCurrent
<1>1. IInv => LockIsCurrent BY DEF IInv
<1> QED BY <1>1, Invariance, PTL
\* Every variable of the tracker, the turret and the world keeps its type.
LEMMA StepTyped == IInv /\ TypeOK /\ [Next]_vars => TypeOK'
<1> SUFFICES ASSUME IInv, TypeOK, [Next]_vars PROVE TypeOK'
    OBVIOUS
<1> USE DEF TypeOK
<1>1. CASE Operate
    <2>1. turret' \in {"done", "zero", "follow", turret}
        BY <1>1 DEF Operate, TurretOrdered, GoToZero
    <2>2. edge' \in BOOLEAN BY <1>1 DEF Operate, Enters
    <2> QED BY <1>1, <2>1, <2>2 DEF Operate
<1>2. CASE Children BY <1>2 DEF Children, rest, aim
<1>3. CASE RunManip BY <1>3 DEF RunManip, aim
<1>4. CASE Follow
    <2>1. Typed' BY <1>4, FollowKeeps DEF IInv
    <2>2. /\ turret' \in {"none", "hold", "done", "zero", "follow"}
          /\ ready' \in BOOLEAN
        BY <1>4 DEF Follow, FollowRuns, GoToRuns, HoldRuns
    <2> QED BY <1>4, <2>1, <2>2 DEF Typed, Follow
<1>5. CASE Disable BY <1>5 DEF Disable
<1>6. CASE UNCHANGED vars BY <1>6 DEF vars, rest, aim
<1> QED BY <1>1, <1>2, <1>3, <1>4, <1>5, <1>6 DEF Next

\* Type correctness of what Aiming adds to DroidOI.
THEOREM TypeCorrect == Spec => []TypeOK
<1>1. Init => TypeOK
    <2>1. 0 \in Angles BY AimingAssumption DEF Angles
    <2> QED BY <2>1 DEF Init, TypeOK
<1> QED BY <1>1, StepTyped, Invariance, PTL DEF Spec
----------------------------------------------------------------------------
(***************************************************************************)
(* A volley and the turret.  ready is true to the tracker once the follow  *)
(* action has had a run of its own; edge lasts from the order to follow to *)
(* that run.                                                               *)
(***************************************************************************)
EdgeIsShort == edge /\ loop = "droid" => turn # "oi"
ReadyIsTrue == turret = "follow" /\ ~edge /\ ready /\ locked => angle = desired
AInv == EdgeIsShort /\ ReadyIsTrue

\* An order to follow is new, and every other one ends the following.
LEMMA OperateKeepsAim == ASSUME AInv, Operate PROVE AInv'
<1>1. PICK eject, shoot, pressed, manual, trigger \in BOOLEAN :
            Droid!Operate(eject, shoot, pressed, manual, trigger) /\ TurretOrdered(eject, manual)
    BY DEF Operate
<1>2. turn = "oi" /\ turn' = "children" BY <1>1 DEF Droid!Operate
<1>3. ~edge BY <1>2 DEF AInv, EdgeIsShort, Operate
<1>4. turret' = "follow" => turret = "follow" \/ edge'
    BY <1>1 DEF TurretOrdered, GoToZero, Operate
<1> QED BY <1>2, <1>3, <1>4 DEF AInv, EdgeIsShort, ReadyIsTrue, Operate

\* The follow action's run sets the flag by the angle it has reached.
LEMMA FollowKeepsAim == ASSUME IInv, Follow PROVE AInv'
<1>1. EdgeIsShort' BY DEF EdgeIsShort, Follow
<1>2. ASSUME turret' = "follow", ready', locked' PROVE angle' = desired'
    <2>1. FollowRuns BY <1>2 DEF Follow, FollowRuns, GoToRuns, HoldRuns
    <2>2. angle = desired /\ angle' = desired
        <3>1. ready' = (angle = desired) /\ angle' \in {angle, Toward(angle, desired)}
            BY <2>1 DEF FollowRuns
        <3>2. angle = desired BY <1>2, <3>1
        <3>3. angle \in Int BY AimingAssumption DEF IInv, Typed, Angles
        <3>4. Toward(angle, desired) = angle BY <3>2, <3>3 DEF Toward
        <3> QED BY <3>1, <3>2, <3>4
    <2>3. PICK sample \in BOOLEAN : Compute(sample) BY DEF Follow
    <2>4. CASE ~Unlocked BY <2>2, <2>3, <2>4 DEF Compute
    <2>5. CASE Unlocked BY <1>2, <2>3, <2>5 DEF Compute
    <2> QED BY <2>4, <2>5
<1> QED BY <1>1, <1>2 DEF AInv, ReadyIsTrue

\* Every step keeps it, given the invariant.
LEMMA StepAInv == IInv /\ AInv /\ [Next]_vars => AInv'
<1> SUFFICES ASSUME IInv, AInv, [Next]_vars PROVE AInv'
    OBVIOUS
<1>1. CASE Operate BY <1>1, OperateKeepsAim
<1>2. CASE Follow BY <1>2, FollowKeepsAim
<1>3. CASE Children
    <2>1. turn = "children" /\ turn' \in {"children", "manip"}
        BY <1>3 DEF Children, Droid!ConveyorStep, Droid!IntakeDone, Droid!ChildrenRan, Droid!droid
    <2> QED BY <1>3, <2>1 DEF Children, rest, aim, AInv, EdgeIsShort, ReadyIsTrue
<1>4. CASE RunManip
    BY <1>4 DEF RunManip, aim, AInv, EdgeIsShort, ReadyIsTrue
<1>5. CASE Disable
    BY <1>5 DEF Disable, AInv, EdgeIsShort, ReadyIsTrue
<1>6. CASE UNCHANGED vars
    BY <1>6 DEF vars, play, rest, aim, AInv, EdgeIsShort, ReadyIsTrue
<1> QED BY <1>1, <1>2, <1>3, <1>4, <1>5, <1>6 DEF Next

\* Both hold in every state.
LEMMA AimInvariance == Spec => [](IInv /\ AInv)
<1>1. Init => AInv BY DEF Init, AInv, EdgeIsShort, ReadyIsTrue
<1> QED BY <1>1, StepAInv, Invariance, PTL DEF Spec

\* Only the manipulator's turn starts a volley, and only with all it asks for.
LEMMA StartsWhenReady ==
    ASSUME Next, Starts PROVE RunManip /\ locked /\ ~fast /\ ready
<1>1. ~Operate
    <2> SUFFICES ASSUME Operate PROVE FALSE
        OBVIOUS
    <2>1. PICK eject, shoot, pressed, manual, trigger \in BOOLEAN :
                Droid!Operate(eject, shoot, pressed, manual, trigger)
        BY DEF Operate
    <2>2. firing' = firing \/ firing' = FALSE
        BY <2>1 DEF Droid!Operate, Droid!StartEject, Droid!StopEject, Droid!InvalidMode,
            Droid!PreparingForCollect, Droid!CollectReady, Droid!Collecting,
            Droid!FinishingCollect, Droid!WaitForIntake, Droid!PreparingForShoot,
            Droid!ShootReady, Droid!ShootMode, Droid!CollectMode, Droid!Go, Droid!Stay,
            Droid!idle, Droid!keepManip, Droid!StartCollect, Droid!StopCollect, Droid!Fire
    <2> QED BY <2>2 DEF Starts
<1>2. ~Children /\ ~Follow /\ ~Disable
    BY DEF Starts, Children, Droid!ConveyorStep, Droid!IntakeDone, Droid!ChildrenRan,
        Droid!droid, Follow, play, Disable, Droid!Disable
<1>3. RunManip BY <1>1, <1>2 DEF Next
<1>4. PICK wheel \in BOOLEAN : Droid!RunManip(TargetReady, TargetReady /\ Aimed(wheel))
    BY <1>3 DEF RunManip
<1>5. Droid!RunAiming(TargetReady, TargetReady /\ Aimed(wheel))
    BY <1>4 DEF Starts, Droid!RunManip, Droid!RunNone, Droid!FallBack, Droid!RunCollect,
        Droid!RunStop, Droid!RunFiring
<1>6. TargetReady /\ Aimed(wheel) BY <1>5 DEF Starts, Droid!RunAiming
<1> QED BY <1>3, <1>6 DEF TargetReady, Aimed

\* With the turret following, a volley starts with the turret on target.
THEOREM VolleyAimed == Spec => VolleyIsAimed
<1>1. IInv /\ AInv /\ [Next]_vars => [Starts /\ Follows /\ ~edge => angle = bearing]_vars
    <2> SUFFICES ASSUME IInv, AInv, Next, Starts, Follows, ~edge PROVE angle = bearing
        OBVIOUS
    <2>1. locked /\ ready BY StartsWhenReady
    <2> QED BY <2>1 DEF IInv, LockIsCurrent, AInv, ReadyIsTrue, Follows
<1> QED BY <1>1, AimInvariance, PTL DEF Spec, VolleyIsAimed
----------------------------------------------------------------------------
(***************************************************************************)
(* The fire action's emit action and the lock.                             *)
(***************************************************************************)
Shooting == job = "Emit" /\ ownEmit /\ ~stopping

\* A shooting emit action has a fire action that knows it is firing.
ShotIsKnown == Shooting => manip = "fire" /\ ~manipDone /\ firing
SInv == ShotIsKnown /\ NoShotWithoutLock

\* The operator interface never gives the conveyor the fire action's emit.
LEMMA OperateGivesNoShot ==
    ASSUME NEW eject, NEW shoot, NEW pressed, NEW manual, NEW trigger,
           Droid!Operate(eject, shoot, pressed, manual, trigger)
    PROVE  \/ ~ownEmit' /\ ownEmit' \in BOOLEAN
           \/ UNCHANGED <<job, ownEmit, stopping, manip, manipDone, firing>>
    BY DEF Droid!Operate, Droid!StartEject, Droid!StopEject, Droid!InvalidMode,
        Droid!PreparingForCollect, Droid!CollectReady, Droid!Collecting,
        Droid!FinishingCollect, Droid!WaitForIntake, Droid!PreparingForShoot,
        Droid!ShootReady, Droid!ShootMode, Droid!CollectMode, Droid!Go, Droid!Stay,
        Droid!idle, Droid!StartCollect, Droid!StopCollect, Droid!Fire,
        Droid!SetManip, Droid!Give, Droid!ledger

\* The conveyor ends a shot, or goes on with it.
LEMMA ConveyorGivesNoShot ==
    ASSUME Children
    PROVE  /\ UNCHANGED <<loop, ownEmit, manip, manipDone, firing>>
           /\ job' \in {job, "none"} /\ stopping' = stopping
    BY DEF Children, rest, aim, Droid!ConveyorStep, Droid!IntakeDone, Droid!ChildrenRan,
        Droid!droid, Droid!ledger, Droid!Internal, Droid!Finish, Droid!SeeBall, Droid!LoseBall,
        Droid!CollectBall, Droid!ReachShooter, Droid!StageForCollect, Droid!StageForFire,
        Droid!BeginFiring, Droid!FireBall, Droid!FiredLast, Droid!Dump

\* The fire action's turn stops its emit without a lock.
LEMMA RunManipKeepsShot == ASSUME ShotIsKnown, RunManip PROVE SInv'
<1>1. PICK wheel \in BOOLEAN : Droid!RunManip(TargetReady, TargetReady /\ Aimed(wheel))
    BY DEF RunManip
<1>2. TargetReady => (locked /\ ~fast)' BY DEF TargetReady, RunManip, aim
<1>3. CASE Droid!RunNone \/ Droid!RunCollect \/ Droid!RunStop
    <2>1. manip # "fire" /\ UNCHANGED <<job, ownEmit, stopping>>
        BY <1>3 DEF Droid!RunNone, Droid!RunCollect, Droid!RunStop, Droid!ledger
    <2> QED BY <2>1 DEF ShotIsKnown, Shooting, SInv, NoShotWithoutLock
<1>4. CASE Droid!FallBack
    BY <1>4 DEF Droid!FallBack, ShotIsKnown, Shooting, SInv, NoShotWithoutLock
<1>5. CASE Droid!RunFiring(TargetReady)
    <2>1. /\ manip = "fire" /\ manip' = "fire" /\ UNCHANGED ownEmit
          /\ firing' = TargetReady
          /\ manipDone' = (Droid!Empty /\ ~Droid!ConveyorBusy)
        BY <1>5 DEF Droid!RunFiring
    <2>2. CASE ~TargetReady
        <3>1. ~Shooting'
            BY <1>5, <2>1, <2>2 DEF Droid!RunFiring, Droid!AskStop, Droid!ledger, Shooting
        <3> QED BY <3>1 DEF SInv, ShotIsKnown, Shooting, NoShotWithoutLock
    <2>3. CASE TargetReady
        <3>1. UNCHANGED <<job, stopping>>
            BY <1>5, <2>3 DEF Droid!RunFiring, Droid!ledger
        <3>2. job = "Emit" => ~manipDone'
            BY <2>1 DEF Droid!ConveyorBusy
        <3> QED BY <1>2, <2>1, <2>3, <3>1, <3>2
                DEF SInv, ShotIsKnown, Shooting, NoShotWithoutLock
    <2> QED BY <2>2, <2>3
<1>6. CASE Droid!RunAiming(TargetReady, TargetReady /\ Aimed(wheel))
    <2>1. manip = "fire" /\ ~manipDone /\ ~firing /\ UNCHANGED manip
        BY <1>6 DEF Droid!RunAiming
    <2>2. ~Shooting BY <2>1 DEF ShotIsKnown
    <2>3. \/ ~ownEmit'
          \/ TargetReady /\ firing' /\ ~manipDone'
          \/ UNCHANGED <<job, ownEmit, stopping>>
        BY <1>6, <2>1 DEF Droid!RunAiming, Droid!ledger
    <2> QED BY <1>2, <2>1, <2>2, <2>3 DEF SInv, ShotIsKnown, Shooting, NoShotWithoutLock
<1> QED BY <1>1, <1>3, <1>4, <1>5, <1>6 DEF Droid!RunManip

\* Every step keeps the shots known and locked.
LEMMA StepSInv == SInv /\ [Next]_vars => SInv'
<1> SUFFICES ASSUME SInv, [Next]_vars PROVE SInv'
    OBVIOUS
<1> USE DEF SInv
<1>1. CASE Operate
    <2>1. loop' = "droid" BY <1>1 DEF Operate
    <2>2. \/ ~ownEmit' /\ ownEmit' \in BOOLEAN
          \/ UNCHANGED <<job, ownEmit, stopping, manip, manipDone, firing>>
        BY <1>1, OperateGivesNoShot DEF Operate
    <2> QED BY <2>1, <2>2 DEF ShotIsKnown, Shooting, NoShotWithoutLock
<1>2. CASE Children
    BY <1>2, ConveyorGivesNoShot DEF Children, ShotIsKnown, Shooting, NoShotWithoutLock
<1>3. CASE RunManip BY <1>3, RunManipKeepsShot
<1>4. CASE Follow
    BY <1>4 DEF Follow, play, ShotIsKnown, Shooting, NoShotWithoutLock
<1>5. CASE Disable
    BY <1>5 DEF Disable, Droid!Disable, ShotIsKnown, Shooting, NoShotWithoutLock
<1>6. CASE UNCHANGED vars
    BY <1>6 DEF vars, play, rest, aim, ShotIsKnown, Shooting, NoShotWithoutLock
<1> QED BY <1>1, <1>2, <1>3, <1>4, <1>5, <1>6 DEF Next

\* Once the fire action has had its turn, its emit action is only at work with
\* a lock and a robot that does not drive.
THEOREM ShotsAreLocked == Spec => []NoShotWithoutLock
<1>1. Init => SInv
    BY DEF Init, Droid!Init, SInv, ShotIsKnown, Shooting, NoShotWithoutLock
<1>2. SInv => NoShotWithoutLock BY DEF SInv
<1> QED BY <1>1, <1>2, StepSInv, PTL DEF Spec
----------------------------------------------------------------------------
\* With the tracker, the turret and the moving robot the operator interface, the
\* manipulator and the conveyor still behave as DroidOI says, so that all that is
\* proved of DroidOI holds here.
THEOREM AimingKeepsDroid == Spec => Droid!Spec
<1>1. Init => Droid!Init BY DEF Init
<1>2. [Next]_vars => [Droid!Next]_(Droid!vars)
    <2> SUFFICES ASSUME [Next]_vars PROVE Droid!Next \/ UNCHANGED Droid!vars
        OBVIOUS
    <2>1. CASE Operate BY <2>1 DEF Operate, Droid!Next
    <2>2. CASE Children BY <2>2 DEF Children, Droid!Next
    <2>3. CASE RunManip
        <3>1. PICK wheel \in BOOLEAN : Droid!RunManip(TargetReady, TargetReady /\ Aimed(wheel))
            BY <2>3 DEF RunManip
        <3>2. PICK target \in BOOLEAN : target = TargetReady
            BY DEF TargetReady
        <3>3. PICK aimed \in BOOLEAN : aimed = (TargetReady /\ Aimed(wheel))
            BY DEF TargetReady
        <3>4. Droid!RunManip(target, aimed) BY <3>1, <3>2, <3>3
        <3> QED BY <3>4 DEF Droid!Next
    <2>4. CASE Follow \/ UNCHANGED vars
        BY <2>4 DEF Follow, vars, play, Droid!vars, Droid!ledger, Droid!droid
    <2>5. CASE Disable BY <2>5 DEF Disable, Droid!Next
    <2> QED BY <2>1, <2>2, <2>3, <2>4, <2>5 DEF Next
<1> QED BY <1>1, <1>2, PTL DEF Spec, Droid!Spec
=============================================================================
