--------------------------- MODULE DroidOIProofs ---------------------------
(***************************************************************************)
(* Proofs about the operator interface and the game piece manipulator: for *)
(* every capacity of the conveyor, whether or not the robot is disabled in *)
(* between, with whatever the operator does.                               *)
(***************************************************************************)
EXTENDS DroidOI, TLAPS

\* While the intake is out the fire action is gone and the conveyor does nothing
\* that takes balls out.
IntakeOut == {"Collecting", "FinishingCollect", "WaitForIntake"}
NoFireWhileOut ==
    mode \in IntakeOut => manip # "fire" /\ job \in {"none", "Receive", "Stop"}

IInv == TypeOK /\ ReceiveOnlyWhenCollecting /\ NoOrphanShot /\ NoFireWhileOut

\* An empty conveyor has a count in range.
LEMMA ZeroFits == 0 \in 0..MaxBalls
BY LedgerAssumption

\* At power-up nothing is assigned.
LEMMA InitInv == Init => IInv
<1> SUFFICES ASSUME Init PROVE IInv OBVIOUS
<1> USE DEF Init
<1>1. LedgerTypeOK BY ZeroFits DEF LedgerInit, LedgerTypeOK
<1>2. mode \in Modes /\ turn \in Turns BY DEF Modes, Turns
<1>3. TypeOK BY <1>1, <1>2 DEF TypeOK
<1> QED BY <1>3 DEF IInv, ReceiveOnlyWhenCollecting, NoOrphanShot, NoFireWhileOut

\* The conveyor's own steps keep its action or end it.
LEMMA InternalKeeps ==
    ASSUME IInv, Internal
    PROVE  LedgerTypeOK' /\ job' \in {job, "none"}
<1> USE LedgerAssumption DEF IInv, TypeOK, LedgerTypeOK
<1>1. CASE Finish BY <1>1 DEF Finish
<1>2. CASE SeeBall \/ LoseBall BY <1>2 DEF SeeBall, LoseBall
<1>3. CASE CollectBall BY <1>3 DEF CollectBall, Full
<1>4. CASE ReachShooter BY <1>4 DEF ReachShooter
<1>5. CASE StageForCollect \/ StageForFire BY <1>5 DEF StageForCollect, StageForFire
<1>6. CASE BeginFiring BY <1>6 DEF BeginFiring
<1>7. CASE FireBall BY <1>7 DEF FireBall, Empty
<1>8. CASE FiredLast BY <1>8 DEF FiredLast
<1>9. CASE Dump BY <1>9, ZeroFits DEF Dump
<1> QED BY <1>1, <1>2, <1>3, <1>4, <1>5, <1>6, <1>7, <1>8, <1>9 DEF Internal

\* setAction of the conveyor keeps the count and gives it the action.
LEMMA AssignKeeps ==
    ASSUME IInv, NEW k, k \in Jobs \ {"SetBalls"}, Assign(k, 0)
    PROVE  LedgerTypeOK' /\ job' = k /\ balls' = balls
BY DEF IInv, TypeOK, LedgerTypeOK, Assign

\* cancelAction of the conveyor keeps all but the action.
LEMMA CancelKeeps ==
    ASSUME IInv, Cancel
    PROVE  LedgerTypeOK' /\ job' = "none" /\ balls' = balls
BY DEF IInv, TypeOK, LedgerTypeOK, Cancel

\* Asking the emit action to stop keeps all but the request.
LEMMA AskStopKeeps ==
    ASSUME IInv, AskStop
    PROVE  LedgerTypeOK' /\ job' = job /\ balls' = balls
BY DEF IInv, TypeOK, LedgerTypeOK, AskStop

\* A step that leaves the ledger alone.
LEMMA SameLedger ==
    ASSUME IInv, UNCHANGED ledger
    PROVE  LedgerTypeOK' /\ job' = job /\ balls' = balls
BY DEF IInv, TypeOK, LedgerTypeOK, ledger

\* Whatever the operator asks for, the ledger stays in its types, the count
\* stays, and the modes and actions fit together.
LEMMA OperateKeeps ==
    ASSUME IInv,
           NEW eject \in BOOLEAN, NEW shoot \in BOOLEAN, NEW pressed \in BOOLEAN,
           NEW manual \in BOOLEAN, NEW trigger \in BOOLEAN,
           Operate(eject, shoot, pressed, manual, trigger)
    PROVE  IInv' /\ balls' = balls
<1> DEFINE Rest == /\ manipDone' \in BOOLEAN /\ firing' \in BOOLEAN
                   /\ ownEmit' \in BOOLEAN /\ intakeBusy' \in BOOLEAN
                   /\ manip' \in {"none", "collect", "stop", "fire"}
<1>t. turn' \in Turns BY DEF Operate, Turns
<1>i. TypeOK /\ ReceiveOnlyWhenCollecting /\ NoOrphanShot /\ NoFireWhileOut BY DEF IInv
<1>j. {"PrepareToReceive", "PrepareToEmit", "Eject", "Emit", "Receive", "Stop"}
        \subseteq Jobs \ {"SetBalls"}
  BY LedgerAssumption, DroidAssumption
<1>c. ASSUME CollectMode PROVE IInv' /\ balls' = balls
  <2>1. LedgerTypeOK' /\ job' = "PrepareToReceive" /\ balls' = balls
    BY <1>c, <1>j, AssignKeeps DEF CollectMode, Give
  <2>2. mode' \in Modes /\ mode' \notin IntakeOut /\ Rest
    BY <1>c, <1>i DEF CollectMode, Give, Modes, IntakeOut, keepManip, TypeOK
  <2> QED BY <2>1, <2>2, <1>t DEF IInv, TypeOK, ReceiveOnlyWhenCollecting, NoOrphanShot, NoFireWhileOut
<1>s. ASSUME ShootMode PROVE IInv' /\ balls' = balls
  <2>1. LedgerTypeOK' /\ job' = "PrepareToEmit" /\ balls' = balls
    BY <1>s, <1>j, AssignKeeps DEF ShootMode, Give
  <2>2. mode' \in Modes /\ mode' \notin IntakeOut /\ Rest
    BY <1>s, <1>i DEF ShootMode, Give, Modes, IntakeOut, keepManip, TypeOK
  <2> QED BY <2>1, <2>2, <1>t DEF IInv, TypeOK, ReceiveOnlyWhenCollecting, NoOrphanShot, NoFireWhileOut
<1>g. ASSUME NEW m \in Modes, Go(m),
             m \in IntakeOut => mode \in IntakeOut,
             job = "Receive" => m \in {"Collecting", "FinishingCollect"}
      PROVE  IInv' /\ balls' = balls
  <2>1. LedgerTypeOK' /\ job' = job /\ balls' = balls
    BY <1>g, SameLedger DEF Go, idle
  <2>2. mode' = m /\ manip' = manip /\ manipDone' = manipDone /\ ownEmit' = ownEmit
        /\ firing' = firing /\ intakeBusy' = intakeBusy
    BY <1>g DEF Go, idle
  <2>3. TypeOK' BY <1>i, <1>t, <2>1, <2>2, <1>g DEF TypeOK
  <2> QED BY <1>i, <1>g, <2>1, <2>2, <2>3
          DEF IInv, ReceiveOnlyWhenCollecting, NoOrphanShot, NoFireWhileOut
<1>y. ASSUME Stay PROVE IInv' /\ balls' = balls
  <2>1. mode \in Modes BY <1>i DEF TypeOK
  <2> QED BY <2>1, <1>y, <1>g, <1>i DEF Stay, ReceiveOnlyWhenCollecting
<1>p. ASSUME StopCollect, mode' \in Modes PROVE IInv' /\ balls' = balls
  <2>1. LedgerTypeOK' /\ job' = "Stop" /\ balls' = balls
    BY <1>p, <1>j, AssignKeeps DEF StopCollect, SetManip
  <2>2. manip' = "stop" /\ ownEmit' = FALSE /\ Rest
    BY <1>p, <1>i DEF StopCollect, SetManip, TypeOK
  <2> QED BY <1>p, <2>1, <2>2, <1>t DEF IInv, TypeOK, ReceiveOnlyWhenCollecting, NoOrphanShot, NoFireWhileOut
<1>1. CASE StartEject
  <2>1. LedgerTypeOK' /\ job' = "Eject" /\ balls' = balls
    BY <1>1, <1>j, AssignKeeps DEF StartEject, Give
  <2>2. mode' \in Modes /\ mode' \notin IntakeOut /\ Rest
    BY <1>1, <1>i DEF StartEject, Give, Modes, IntakeOut, keepManip, TypeOK
  <2> QED BY <2>1, <2>2, <1>t DEF IInv, TypeOK, ReceiveOnlyWhenCollecting, NoOrphanShot, NoFireWhileOut
<1>2. CASE StopEject
  BY <1>2, <1>g, <1>i DEF StopEject, Modes, IntakeOut, ReceiveOnlyWhenCollecting
<1>3. CASE InvalidMode(shoot) BY <1>3, <1>c, <1>s DEF InvalidMode
<1>4. CASE PreparingForCollect
  BY <1>4, <1>g, <1>y, <1>i DEF PreparingForCollect, Modes, IntakeOut, ReceiveOnlyWhenCollecting
<1>5. CASE CollectReady(shoot, pressed)
  <2>1. CASE StartCollect /\ mode' = "Collecting"
    <3>1. LedgerTypeOK' /\ job' = "Receive" /\ balls' = balls
      BY <2>1, <1>j, AssignKeeps DEF StartCollect, SetManip
    <3>2. manip' = "collect" /\ ownEmit' = FALSE /\ Rest
      BY <2>1, <1>i DEF StartCollect, SetManip, TypeOK
    <3>3. mode' \in Modes BY <2>1 DEF Modes
    <3> QED BY <2>1, <3>1, <3>2, <3>3, <1>t
            DEF IInv, TypeOK, ReceiveOnlyWhenCollecting, NoOrphanShot, NoFireWhileOut
  <2> QED BY <1>5, <2>1, <1>s, <1>y DEF CollectReady
<1>6. CASE Collecting(pressed)
  <2>1. CASE Stay BY <2>1, <1>y
  <2>2. CASE Go("FinishingCollect")
    BY <1>6, <2>2, <1>g DEF Collecting, Modes, IntakeOut
  <2>3. CASE StopCollect /\ mode' = "CollectReady" BY <2>3, <1>p DEF Modes
  <2> QED BY <1>6, <2>1, <2>2, <2>3 DEF Collecting
<1>7. CASE FinishingCollect BY <1>7, <1>y, <1>p DEF FinishingCollect, Modes
<1>8. CASE WaitForIntake
  BY <1>8, <1>y, <1>g, <1>i DEF WaitForIntake, Modes, IntakeOut, ReceiveOnlyWhenCollecting
<1>9. CASE PreparingForShoot(manual)
  <2>1. CASE Fire /\ mode' = "ShootReady"
    <3>1. /\ LedgerTypeOK' /\ job' \in {job, "none"} /\ balls' = balls
      BY <2>1, CancelKeeps, SameLedger DEF Fire, SetManip
    <3>2. manip' = "fire" /\ manipDone' = FALSE /\ Rest
      BY <2>1, <1>i DEF Fire, SetManip, TypeOK
    <3>3. job' # "Receive"
      BY <3>1, <1>9, <1>i DEF ReceiveOnlyWhenCollecting, PreparingForShoot
    <3>4. mode' \in Modes /\ mode' \notin IntakeOut BY <2>1 DEF Modes, IntakeOut
    <3> QED BY <3>1, <3>2, <3>3, <3>4, <1>t
            DEF IInv, TypeOK, ReceiveOnlyWhenCollecting, NoOrphanShot, NoFireWhileOut
  <2>2. CASE Go("ShootReady")
    BY <1>9, <2>2, <1>g, <1>i DEF PreparingForShoot, Modes, IntakeOut, ReceiveOnlyWhenCollecting
  <2> QED BY <1>9, <2>1, <2>2, <1>y DEF PreparingForShoot
<1>10. CASE ShootReady(shoot, manual, trigger)
  <2>1. CASE Give("Emit") /\ UNCHANGED <<mode, intakeBusy>> /\ keepManip
    <3>1. LedgerTypeOK' /\ job' = "Emit" /\ balls' = balls
      BY <2>1, <1>j, AssignKeeps DEF Give
    <3>2. ownEmit' = FALSE /\ Rest BY <2>1, <1>i DEF Give, keepManip, TypeOK
    <3>3. mode' \in Modes /\ mode' \notin IntakeOut
      BY <1>10, <2>1 DEF ShootReady, Modes, IntakeOut
    <3> QED BY <3>1, <3>2, <3>3, <1>t
            DEF IInv, TypeOK, ReceiveOnlyWhenCollecting, NoOrphanShot, NoFireWhileOut
  <2> QED BY <1>10, <2>1, <1>c, <1>y DEF ShootReady
<1> QED BY <1>1, <1>2, <1>3, <1>4, <1>5, <1>6, <1>7, <1>8, <1>9, <1>10 DEF Operate

\* The steps of the conveyor and of the intake.
LEMMA ChildrenKeep ==
    ASSUME IInv, ConveyorStep \/ IntakeDone \/ ChildrenRan
    PROVE  IInv'
<1>i. TypeOK /\ ReceiveOnlyWhenCollecting /\ NoOrphanShot /\ NoFireWhileOut BY DEF IInv
<1>1. CASE ConveyorStep
  <2>1. LedgerTypeOK' /\ job' \in {job, "none"} BY <1>1, InternalKeeps DEF ConveyorStep
  <2>2. UNCHANGED <<mode, manip, manipDone, firing, ownEmit, intakeBusy, turn>>
    BY <1>1 DEF ConveyorStep, droid
  <2> QED BY <1>i, <2>1, <2>2
          DEF IInv, TypeOK, ReceiveOnlyWhenCollecting, NoOrphanShot, NoFireWhileOut
<1>2. CASE IntakeDone \/ ChildrenRan
  <2>1. LedgerTypeOK' /\ job' = job BY <1>2, SameLedger DEF IntakeDone, ChildrenRan
  <2>2. UNCHANGED <<mode, manip, manipDone, firing, ownEmit>>
    BY <1>2 DEF IntakeDone, ChildrenRan
  <2>3. turn' \in Turns /\ intakeBusy' \in BOOLEAN
    BY <1>2, <1>i DEF IntakeDone, ChildrenRan, Turns, TypeOK
  <2> QED BY <1>i, <2>1, <2>2, <2>3
          DEF IInv, TypeOK, ReceiveOnlyWhenCollecting, NoOrphanShot, NoFireWhileOut
<1> QED BY <1>1, <1>2

\* The manipulator's own run.
LEMMA RunManipKeeps ==
    ASSUME IInv, NEW target \in BOOLEAN, NEW aimed \in BOOLEAN, RunManip(target, aimed)
    PROVE  IInv' /\ balls' = balls
<1>i. TypeOK /\ ReceiveOnlyWhenCollecting /\ NoOrphanShot /\ NoFireWhileOut BY DEF IInv
<1>t. turn' \in Turns /\ mode' = mode BY DEF RunManip, Turns
<1>1. CASE RunNone \/ RunCollect \/ RunStop
  <2>1. LedgerTypeOK' /\ job' = job /\ balls' = balls
    BY <1>1, SameLedger DEF RunNone, RunCollect, RunStop
  <2>2. UNCHANGED <<manip, firing, ownEmit, intakeBusy>>
    BY <1>1 DEF RunNone, RunCollect, RunStop
  <2>3. manipDone' \in BOOLEAN /\ (manip = "fire" => manipDone' = manipDone)
    BY <1>1, <1>i DEF RunNone, RunCollect, RunStop, TypeOK
  <2>4. manip # "none" \/ manipDone' = manipDone
    BY <1>1 DEF RunNone, RunCollect, RunStop
  <2> QED BY <1>i, <1>t, <2>1, <2>2, <2>3
          DEF IInv, TypeOK, ReceiveOnlyWhenCollecting, NoOrphanShot, NoFireWhileOut
<1>2. CASE FallBack
  <2>1. LedgerTypeOK' /\ job' \in {job, "none"} /\ balls' = balls
    BY <1>2, SameLedger, CancelKeeps DEF FallBack
  <2> QED BY <1>i, <1>t, <1>2, <2>1
          DEF FallBack, IInv, TypeOK, ReceiveOnlyWhenCollecting, NoOrphanShot, NoFireWhileOut
<1>3. CASE RunFiring(target)
  <2>1. LedgerTypeOK' /\ job' = job /\ balls' = balls
    BY <1>3, SameLedger, AskStopKeeps DEF RunFiring
  <2>2. manip = "fire" /\ UNCHANGED <<manip, ownEmit, intakeBusy>> BY <1>3 DEF RunFiring
  <2>3. manipDone' \in BOOLEAN /\ firing' \in BOOLEAN
        /\ (manipDone' => job = "none")
    BY <1>3 DEF RunFiring, ConveyorBusy
  <2> QED BY <1>i, <1>t, <2>1, <2>2, <2>3
          DEF IInv, TypeOK, ReceiveOnlyWhenCollecting, NoOrphanShot, NoFireWhileOut
<1>4. CASE RunAiming(target, aimed)
  <2>0. manip = "fire" /\ ~manipDone /\ UNCHANGED <<manip, intakeBusy>> BY <1>4 DEF RunAiming
  <2>e. "Emit" \in Jobs \ {"SetBalls"} BY LedgerAssumption
  <2>1. CASE /\ manipDone' = TRUE /\ ownEmit' = FALSE /\ UNCHANGED firing
             /\ IF job = "Emit" /\ ownEmit THEN Cancel ELSE UNCHANGED ledger
    <3>1. LedgerTypeOK' /\ job' \in {job, "none"} /\ balls' = balls
      BY <2>1, SameLedger, CancelKeeps
    <3> QED BY <1>i, <1>t, <2>0, <2>1, <3>1
            DEF IInv, TypeOK, ReceiveOnlyWhenCollecting, NoOrphanShot, NoFireWhileOut
  <2>2. CASE /\ Assign("Emit", 0)
             /\ ownEmit' = TRUE /\ firing' = TRUE /\ UNCHANGED manipDone
    <3>1. LedgerTypeOK' /\ job' = "Emit" /\ balls' = balls BY <2>2, <2>e, AssignKeeps
    <3> QED BY <1>i, <1>t, <2>0, <2>2, <3>1
            DEF IInv, TypeOK, ReceiveOnlyWhenCollecting, NoOrphanShot, NoFireWhileOut
  <2>3. CASE UNCHANGED <<ledger, manipDone, ownEmit, firing>>
    <3>1. LedgerTypeOK' /\ job' = job /\ balls' = balls BY <2>3, SameLedger
    <3> QED BY <1>i, <1>t, <2>0, <2>3, <3>1
            DEF IInv, TypeOK, ReceiveOnlyWhenCollecting, NoOrphanShot, NoFireWhileOut
  <2> QED BY <1>4, <2>1, <2>2, <2>3 DEF RunAiming
<1> QED BY <1>1, <1>2, <1>3, <1>4 DEF RunManip

\* A disabled robot.
LEMMA DisableKeeps == IInv /\ Disable => IInv' /\ balls' = balls
BY DEF IInv, Disable, TypeOK, LedgerTypeOK, ReceiveOnlyWhenCollecting, NoOrphanShot, NoFireWhileOut

\* Every step keeps the inductive invariant.
LEMMA NextKeeps == IInv /\ [Next]_vars => IInv'
<1> SUFFICES ASSUME IInv, [Next]_vars PROVE IInv' OBVIOUS
<1>1. CASE UNCHANGED vars
  BY <1>1 DEF vars, ledger, droid, IInv, TypeOK, LedgerTypeOK,
              ReceiveOnlyWhenCollecting, NoOrphanShot, NoFireWhileOut
<1>2. CASE Next
  BY <1>2, OperateKeeps, ChildrenKeep, RunManipKeeps, DisableKeeps DEF Next
<1> QED BY <1>1, <1>2

\* The inductive invariant holds in every reachable state.
THEOREM Inductive == Spec => []IInv
BY InitInv, NextKeeps, PTL DEF Spec

\* Every variable keeps its type, and the count of the balls its range.
THEOREM TypeCorrect == Spec => []TypeOK
<1>1. IInv => TypeOK BY DEF IInv
<1> QED BY <1>1, Inductive, PTL

\* The conveyor only receives balls in the operator interface's collecting modes,
\* whatever cancels, replaces or resets the actions in between.
THEOREM ReceivesOnlyWhenCollecting == Spec => []ReceiveOnlyWhenCollecting
<1>1. IInv => ReceiveOnlyWhenCollecting BY DEF IInv
<1> QED BY <1>1, Inductive, PTL

\* The emit action of the fire action never outlives it.
THEOREM NeverOrphansAShot == Spec => []NoOrphanShot
<1>1. IInv => NoOrphanShot BY DEF IInv
<1> QED BY <1>1, Inductive, PTL

\* A receive or stop action, or none, takes no ball out of the conveyor.
LEMMA TakesNoneOut ==
    ASSUME IInv, job \in {"none", "Receive", "Stop"}, Internal
    PROVE  balls' >= balls
<1>1. balls \in Nat BY DEF IInv, TypeOK, LedgerTypeOK
<1> QED BY <1>1 DEF Internal, Finish, SeeBall, LoseBall, CollectBall, ReachShooter,
                    StageForCollect, StageForFire, BeginFiring, FireBall, FiredLast, Dump

\* No ball is shot while the intake is out.
THEOREM NeverShootsWhileIntakeOut == Spec => NoShotWhileIntakeOut
<1>1. ASSUME IInv, [Next]_vars, mode \in IntakeOut PROVE balls' >= balls
  <2>1. balls \in Nat BY <1>1 DEF IInv, TypeOK, LedgerTypeOK
  <2>2. CASE UNCHANGED vars BY <2>1, <2>2 DEF vars, ledger
  <2>3. CASE ConveyorStep
    <3>1. job \in {"none", "Receive", "Stop"} BY <1>1 DEF IInv, NoFireWhileOut
    <3> QED BY <1>1, <2>3, <3>1, TakesNoneOut DEF ConveyorStep
  <2>4. CASE IntakeDone \/ ChildrenRan
    BY <2>1, <2>4 DEF IntakeDone, ChildrenRan, ledger
  <2>5. CASE Next /\ ~(ConveyorStep \/ IntakeDone \/ ChildrenRan)
    <3>1. balls' = balls
      BY <1>1, <2>5, OperateKeeps, RunManipKeeps, DisableKeeps DEF Next
    <3> QED BY <2>1, <3>1
  <2> QED BY <1>1, <2>2, <2>3, <2>4, <2>5
<1>2. IInv /\ [Next]_vars
        => [(mode \in {"Collecting", "FinishingCollect", "WaitForIntake"}) => balls' >= balls]_vars
  BY <1>1 DEF IntakeOut
<1> QED BY <1>2, Inductive, PTL DEF Spec, NoShotWhileIntakeOut
----------------------------------------------------------------------------
(***************************************************************************)
(* While the operator stays in shooting.                                   *)
(***************************************************************************)
Shooting == {"PreparingForShoot", "ShootReady"}

\* In the shooting modes the conveyor prepares to fire or fires; once a ball was
\* staged it stays staged until the last one is out.
OnlyShots == mode \in Shooting => job \in {"none", "PrepareToEmit", "Emit"}
StagedToFire == mode = "ShootReady" => Empty \/ "fire" \in staged

\* The emit of a fire action that counts on it was not asked to stop.
CountedOn == Firing /\ job = "Emit" => ~stopping

FInv == OnlyShots /\ StagedToFire /\ CountedOn
Wanted == Firing => job = "Emit" \/ Empty

\* What the conveyor does of its own accord in a shooting mode.
LEMMA InternalInShooting ==
    ASSUME IInv, FInv, Internal, UNCHANGED droid
    PROVE  FInv' /\ (mode = "ShootReady" /\ Wanted => Wanted')
<1> USE DEF FInv, OnlyShots, StagedToFire, CountedOn, Firing, Wanted, droid, Shooting
<1>t. balls \in Nat /\ staged \subseteq {"collect", "fire"}
  BY DEF IInv, TypeOK, LedgerTypeOK
<1>1. CASE Finish
  BY <1>1 DEF Finish, Achieved, Empty
<1>2. CASE SeeBall \/ LoseBall \/ CollectBall \/ ReachShooter
  <2>1. job = "Receive" /\ job' = job /\ stopping' = stopping
    BY <1>2 DEF SeeBall, LoseBall, CollectBall, ReachShooter
  <2> QED BY <2>1
<1>3. CASE StageForCollect \/ Dump
  <2>1. job \in {"PrepareToReceive", "Eject"} /\ job' = job /\ stopping' = stopping
    BY <1>3 DEF StageForCollect, Dump
  <2> QED BY <2>1
<1>4. CASE StageForFire
  BY <1>4 DEF StageForFire, Empty
<1>5. CASE BeginFiring
  BY <1>5 DEF BeginFiring, Empty
<1>6. CASE FireBall
  BY <1>6 DEF FireBall, Empty
<1>7. CASE FiredLast
  BY <1>7 DEF FiredLast, Empty
<1> QED BY <1>1, <1>2, <1>3, <1>4, <1>5, <1>6, <1>7 DEF Internal

\* What the operator asks for.
LEMMA OperateInShooting ==
    ASSUME IInv, FInv,
           NEW eject \in BOOLEAN, NEW shoot \in BOOLEAN, NEW pressed \in BOOLEAN,
           NEW manual \in BOOLEAN, NEW trigger \in BOOLEAN,
           Operate(eject, shoot, pressed, manual, trigger)
    PROVE  FInv' /\ (mode = "ShootReady" /\ mode' = "ShootReady" /\ Wanted => Wanted')
<1> USE DEF FInv, OnlyShots, StagedToFire, CountedOn, Firing, Wanted, Shooting
<1>1. CASE StartEject
  BY <1>1 DEF StartEject, Give, Assign, keepManip
<1>g. ASSUME NEW m, Go(m), m \in Shooting => mode \in Shooting,
             m = "ShootReady" => "fire" \in staged \/ mode = "ShootReady"
      PROVE  FInv' /\ (mode = "ShootReady" /\ mode' = "ShootReady" /\ Wanted => Wanted')
  BY <1>g DEF Go, idle, ledger, Empty
<1>c. ASSUME CollectMode PROVE FInv' /\ mode' # "ShootReady"
  BY <1>c DEF CollectMode, Give, Assign, keepManip
<1>s. ASSUME ShootMode PROVE FInv' /\ mode' # "ShootReady"
  BY <1>s DEF ShootMode, Give, Assign, keepManip
<1>p. ASSUME SetManip("stop", "Stop") \/ SetManip("collect", "Receive"), mode' \notin Shooting
      PROVE  FInv'
  BY <1>p DEF SetManip
<1>y. ASSUME Stay PROVE FInv' /\ (Wanted => Wanted')
  BY <1>y DEF Stay, Go, idle, ledger, Empty
<1>2. CASE StopEject BY <1>2, <1>g DEF StopEject
<1>3. CASE InvalidMode(shoot) BY <1>3, <1>c, <1>s DEF InvalidMode
<1>4. CASE PreparingForCollect BY <1>4, <1>g, <1>y DEF PreparingForCollect
<1>5. CASE CollectReady(shoot, pressed)
  BY <1>5, <1>s, <1>p, <1>y DEF CollectReady, StartCollect
<1>6. CASE Collecting(pressed) BY <1>6, <1>y, <1>g, <1>p DEF Collecting, StopCollect
<1>7. CASE FinishingCollect BY <1>7, <1>y, <1>p DEF FinishingCollect, StopCollect
<1>8. CASE WaitForIntake BY <1>8, <1>y, <1>g DEF WaitForIntake
<1>9. CASE PreparingForShoot(manual)
  <2>1. CASE Fire /\ mode' = "ShootReady"
    <3>1. job' \in {job, "none"} /\ balls' = balls /\ staged' = staged
      BY <2>1 DEF Fire, SetManip, Cancel, ledger
    <3>2. ~firing' BY <2>1 DEF Fire
    <3>3. "fire" \in staged /\ mode = "PreparingForShoot"
      BY <1>9, <2>1 DEF PreparingForShoot, Stay, Go
    <3> QED BY <2>1, <3>1, <3>2, <3>3
  <2> QED BY <1>9, <1>y, <1>g, <2>1 DEF PreparingForShoot
<1>10. CASE ShootReady(shoot, manual, trigger)
  <2>1. CASE Give("Emit") /\ UNCHANGED <<mode, intakeBusy>> /\ keepManip
    BY <2>1 DEF Give, Assign, keepManip, Empty
  <2> QED BY <1>10, <1>c, <1>y, <2>1 DEF ShootReady
<1> QED BY <1>1, <1>2, <1>3, <1>4, <1>5, <1>6, <1>7, <1>8, <1>9, <1>10 DEF Operate

\* The manipulator's own run: a fire action that loses its target does not count
\* on its emit any more.
LEMMA RunManipInShooting ==
    ASSUME FInv, NEW target \in BOOLEAN, NEW aimed \in BOOLEAN, RunManip(target, aimed)
    PROVE  FInv' /\ (Wanted => Wanted')
<1> USE DEF FInv, OnlyShots, StagedToFire, CountedOn, Firing, Wanted, Shooting
<1>m. mode' = mode BY DEF RunManip
<1>1. CASE RunNone \/ RunCollect \/ RunStop
  <2>1. manip # "fire" /\ manip' = manip /\ UNCHANGED ledger
    BY <1>1 DEF RunNone, RunCollect, RunStop
  <2> QED BY <1>m, <2>1 DEF ledger, Empty
<1>2. CASE FallBack
  <2>1. manip' = "none" /\ job' \in {job, "none"} /\ balls' = balls /\ staged' = staged
    BY <1>2 DEF FallBack, Cancel, ledger
  <2> QED BY <1>m, <2>1 DEF Empty
<1>3. CASE RunFiring(target)
  <2>1. /\ manip = "fire" /\ ~manipDone /\ firing /\ firing' = target
        /\ job' = job /\ balls' = balls /\ staged' = staged
        /\ target => stopping' = stopping
    BY <1>3 DEF RunFiring, AskStop, ledger
  <2> QED BY <1>m, <2>1 DEF Empty
<1>4. CASE RunAiming(target, aimed)
  <2>0. manip' = manip /\ ~firing BY <1>4 DEF RunAiming
  <2>1. CASE manipDone' = TRUE /\ IF job = "Emit" /\ ownEmit THEN Cancel ELSE UNCHANGED ledger
    BY <1>m, <2>0, <2>1 DEF Cancel, ledger, Empty
  <2>2. CASE Assign("Emit", 0)
    BY <1>m, <2>0, <2>2 DEF Assign, Empty
  <2>3. CASE UNCHANGED <<ledger, manipDone, ownEmit, firing>>
    BY <1>m, <2>0, <2>3 DEF ledger, Empty
  <2> QED BY <1>4, <2>1, <2>2, <2>3 DEF RunAiming
<1> QED BY <1>1, <1>2, <1>3, <1>4 DEF RunManip

\* A step keeps what holds in the shooting modes, and does not lose an emit.
LEMMA ShootingStep ==
    IInv /\ FInv /\ [Next]_vars
      => FInv' /\ (mode = "ShootReady" /\ mode' = "ShootReady" /\ Wanted => Wanted')
<1> SUFFICES ASSUME IInv, FInv, [Next]_vars
             PROVE  FInv' /\ (mode = "ShootReady" /\ mode' = "ShootReady" /\ Wanted => Wanted')
  OBVIOUS
<1>1. CASE UNCHANGED vars \/ IntakeDone \/ ChildrenRan
  BY <1>1 DEF vars, ledger, droid, IntakeDone, ChildrenRan, FInv, OnlyShots, StagedToFire,
              CountedOn, Firing, Wanted, Empty
<1>2. CASE ConveyorStep BY <1>2, InternalInShooting DEF ConveyorStep
<1>3. CASE Disable
  BY <1>3 DEF Disable, FInv, OnlyShots, StagedToFire, CountedOn, Firing, Wanted, Empty
<1> QED BY <1>1, <1>2, <1>3, OperateInShooting, RunManipInShooting DEF Next

\* They hold in every state.
LEMMA ShootingInvariance == Spec => [](IInv /\ FInv)
<1>1. Init => FInv
  BY DEF Init, FInv, OnlyShots, StagedToFire, CountedOn, Firing, Shooting
<1> QED BY <1>1, ShootingStep, Inductive, PTL DEF Spec

\* A fire action that is firing keeps its emit or has nothing left, as long as the
\* operator stays in shooting (isFiring_, FireAction.cpp:139-178).
THEOREM EmitsAreNotLost == Spec => EmitIsNotLost
<1>1. IInv /\ FInv /\ [Next]_vars
        => [(mode = "ShootReady" /\ mode' = "ShootReady" /\ (Firing => job = "Emit" \/ Empty))
              => (Firing => job = "Emit" \/ Empty)']_vars
  BY ShootingStep DEF Wanted
<1> QED BY <1>1, ShootingInvariance, PTL DEF Spec, EmitIsNotLost
----------------------------------------------------------------------------
(***************************************************************************)
(* The conveyor and those who use it.                                      *)
(***************************************************************************)
\* A step of the ledger as its users see it.
Lawful == LedgerNext \/ UNCHANGED ledger

\* Giving a class of action that is not the one for presets is an assignment.
LEMMA AssignIsLawful == ASSUME NEW k \in Jobs, Assign(k, 0) PROVE Lawful
BY DEF Lawful, LedgerNext

\* The operator interface asks of the conveyor only what the ledger allows.
LEMMA OperateIsLawful ==
    ASSUME NEW eject \in BOOLEAN, NEW shoot \in BOOLEAN, NEW pressed \in BOOLEAN,
           NEW manual \in BOOLEAN, NEW trigger \in BOOLEAN,
           Operate(eject, shoot, pressed, manual, trigger)
    PROVE  Lawful
<1>j. {"PrepareToReceive", "PrepareToEmit", "Eject", "Emit", "Receive", "Stop"} \subseteq Jobs
  BY LedgerAssumption, DroidAssumption
<1>g. ASSUME NEW m, Go(m) PROVE Lawful BY <1>g DEF Go, idle, Lawful
<1>m. ASSUME NEW k, NEW c \in {"", "Receive", "Stop"}, SetManip(k, c) PROVE Lawful
  BY <1>j, <1>m, AssignIsLawful DEF SetManip, Lawful, LedgerNext
<1>1. ASSUME NEW k \in {"PrepareToReceive", "PrepareToEmit", "Eject", "Emit"}, Give(k)
      PROVE  Lawful
  BY <1>j, <1>1, AssignIsLawful DEF Give
<1> QED
  BY <1>g, <1>m, <1>1
  DEF Operate, StartEject, StopEject, InvalidMode, PreparingForCollect, CollectReady, Collecting,
      FinishingCollect, WaitForIntake, PreparingForShoot, ShootReady, Stay, ShootMode,
      CollectMode, StartCollect, StopCollect, Fire

\* The manipulator's actions do the same, its fall back and its disabling too.
LEMMA ManipIsLawful ==
    ASSUME NEW target \in BOOLEAN, NEW aimed \in BOOLEAN,
           RunManip(target, aimed) \/ Disable
    PROVE  Lawful
<1>1. "Emit" \in Jobs BY LedgerAssumption
<1>2. Cancel \/ AskStop => Lawful BY DEF Lawful, LedgerNext
<1>3. CASE RunManip(target, aimed)
  BY <1>1, <1>2, <1>3, AssignIsLawful
  DEF RunManip, RunNone, FallBack, RunCollect, RunStop, RunFiring, RunAiming, Lawful
<1>4. CASE Disable
  BY <1>2, <1>4 DEF Disable, Cancel, Lawful, ledger
<1> QED BY <1>3, <1>4

\* Operator interface, manipulator and conveyor together go only through the
\* behaviours the conveyor's programs were shown to have (KeepsLedger).
THEOREM LedgerIsRespected == Spec => LedgerSpec
<1>1. Init => LedgerInit BY DEF Init
<1>2. [Next]_vars => [LedgerNext]_ledger
  <2> SUFFICES ASSUME [Next]_vars PROVE Lawful BY DEF Lawful
  <2>1. CASE UNCHANGED vars BY <2>1 DEF vars, Lawful
  <2>2. CASE ConveyorStep BY <2>2 DEF ConveyorStep, Lawful, LedgerNext
  <2>3. CASE IntakeDone \/ ChildrenRan BY <2>3 DEF IntakeDone, ChildrenRan, Lawful
  <2> QED BY <2>1, <2>2, <2>3, OperateIsLawful, ManipIsLawful DEF Next
<1> QED BY <1>1, <1>2, PTL DEF Spec, LedgerSpec
============================================================================
