---------------------------- MODULE ClimbProofs ----------------------------
(***************************************************************************)
(* Proofs about Climb, for every climb height, maximum height and top: the *)
(* lifter stays within its travel, it is only driven while it is asked to, *)
(* and the deploy and the buttons never drive it together.                 *)
(***************************************************************************)
EXTENDS Climb, TLAPS

\* The types the proofs use; heights are bounded by WithinTravel.
Typed ==
    /\ {started, deployed, field} \subseteq BOOLEAN
    /\ asked \in Buttons
    /\ climber \in UpDowns \cup {Idle}
    /\ lifter \in {"none", "hold", "done"} \cup Deploying
    /\ lift \in Powers /\ traverse \in Sides
    /\ height \in Int /\ zero \in Int
    /\ turn \in {"oi", "subsystems", "mechanism", "disabled"}

\* A power of the lifter is a deploy's, or that of the up/down action.
LiftHasAnAction ==
    lift # 0 /\ lifter \notin Deploying =>
        /\ climber.on /\ lifter # "none"
        /\ lift > 0 => climber.lift > 0
        /\ lift < 0 => climber.lift < 0

\* When the mechanism moves, it does not move past the limits.
MovesWithin ==
    turn = "mechanism" =>
        /\ lift > 0 => Reading <= MaxHeight
        /\ lift < 0 => Reading > 0

\* A finished power action on the lifter is one of this very loop.
ButtonHeld == deployed /\ ~asked.lock /\ asked.lift * lift > 0
DoneIsNew ==
    lifter = "done" /\ lift # 0 => turn = "subsystems" /\ ButtonHeld

IInv == Typed /\ WithinTravel /\ OneDriver /\ DrivenOnlyWhileAsked
            /\ LiftHasAnAction /\ MovesWithin /\ DoneIsNew

\* It holds at the start,
LEMMA InitIInv == Init => IInv
<1> SUFFICES ASSUME Init PROVE IInv
    OBVIOUS
<1>1. Typed
    <2>1. Released \in Buttons BY DEF Released, Buttons
    <2>2. field \in BOOLEAN BY ModesAssumption DEF Init
    <2>3. 0 \in Powers /\ 0 \in Sides BY DEF Powers, Sides
    <2>4. /\ started = FALSE /\ deployed = FALSE /\ asked = Released
          /\ climber = Idle /\ lifter = "hold" /\ lift = 0 /\ traverse = 0
          /\ height = 0 /\ zero = 0 /\ turn = "disabled"
        BY DEF Init
    <2>5. {started, deployed, field} \subseteq BOOLEAN BY <2>2, <2>4
    <2>6. lifter \in {"none", "hold", "done"} \cup Deploying BY <2>4
    <2> QED BY <2>1, <2>3, <2>4, <2>5, <2>6 DEF Typed
<1>2. WithinTravel BY HeightsAssumption DEF Init, WithinTravel, Reading
<1>3. OneDriver /\ DrivenOnlyWhileAsked /\ LiftHasAnAction /\ MovesWithin /\ DoneIsNew
    BY DEF Init, OneDriver, DrivenOnlyWhileAsked, LiftHasAnAction, MovesWithin, DoneIsNew,
        Idle, Deploying
<1> QED BY <1>1, <1>2, <1>3 DEF IInv

\* What the clamp does to the powers it is given: it keeps their sign or stops.
LEMMA ClampKeepsSign ==
    ASSUME NEW p \in {Fast, 0, Up}
    PROVE  /\ Clamp(p) \in Powers
           /\ Clamp(p) # 0 => p * Clamp(p) > 0
           /\ Clamp(p) > 0 => p > 0
           /\ Clamp(p) < 0 => p < 0
<1>1. CASE p = Fast BY <1>1 DEF Clamp, Powers, Fast, Slow, Up
<1>2. CASE p = 0 BY <1>2 DEF Clamp, Powers, Fast, Slow, Up
<1>3. CASE p = Up BY <1>3 DEF Clamp, Powers, Fast, Slow, Up
<1> QED BY <1>1, <1>2, <1>3

\* The turn of the operator interface moves nothing.
LEMMA OperateKeeps ==
    ASSUME IInv, NEW b \in Buttons, NEW s \in Sides, NEW crowded \in BOOLEAN,
           Operate(b, s, crowded)
    PROVE  IInv'
<1> USE DEF IInv
<1>0. /\ turn = "oi" /\ turn' = "subsystems" /\ asked' = b
      /\ UNCHANGED <<height, zero, field>>
    BY DEF Operate
<1>a. WithinTravel' /\ MovesWithin' /\ DrivenOnlyWhileAsked'
    BY <1>0 DEF WithinTravel, Reading, MovesWithin, DrivenOnlyWhileAsked
<1>b. b.lift \in {Fast, 0, Up} /\ b.lock \in BOOLEAN BY DEF Buttons
<1>1. ASSUME Nothing, ~(lifter = "done" /\ lift # 0),
             {started', deployed'} \subseteq BOOLEAN, OneDriver'
      PROVE  IInv'
    <2>1. Typed' BY <1>0, <1>1 DEF Typed, Nothing
    <2>2. LiftHasAnAction' /\ DoneIsNew' BY <1>1 DEF LiftHasAnAction, DoneIsNew, Nothing
    <2> QED BY <1>1, <1>a, <2>1, <2>2
<1>2. ~(lifter = "done" /\ lift # 0) BY <1>0 DEF DoneIsNew
<1>3. CASE Locked(b)
    BY <1>1, <1>2, <1>3 DEF Locked, device, Nothing, Typed, OneDriver
<1>4. CASE SkipDeploy(b)
    BY <1>1, <1>2, <1>4 DEF SkipDeploy, Nothing, Typed, OneDriver
<1>5. CASE NoteDeployed(b)
    BY <1>1, <1>2, <1>5 DEF NoteDeployed, Busy, Nothing, Typed, OneDriver
<1>6. CASE Deploy(b, crowded) \/ DeployAgain(b, crowded)
    <2>1. /\ ~Busy /\ started' = TRUE /\ deployed' = FALSE
          /\ Dispatched(StartDeploy, crowded)
        BY <1>6 DEF Deploy, DeployAgain, Typed
    <2>2. CASE Nothing
        <3>1. OneDriver' BY <2>1, <2>2 DEF OneDriver, Busy, Nothing
        <3> QED BY <1>1, <1>2, <2>1, <2>2, <3>1 DEF Typed
    <2>3. CASE StartDeploy
        <3>1. Typed' BY <1>0, <2>1, <2>3 DEF Typed, StartDeploy, Deploying, Powers
        <3>2. OneDriver' BY <2>1, <2>3 DEF OneDriver, Busy, StartDeploy
        <3>3. LiftHasAnAction' /\ DoneIsNew' BY <2>3 DEF StartDeploy, LiftHasAnAction, DoneIsNew
        <3> QED BY <1>a, <3>1, <3>2, <3>3
    <2> QED BY <2>1, <2>2, <2>3 DEF Dispatched
<1>7. CASE Move(b, s, crowded)
    <2>1. CASE Nothing
        BY <1>1, <1>2, <1>7, <2>1 DEF Move, device, Nothing, Typed, OneDriver
    <2>2. CASE StartUpDown(b.lift, s)
        <3>1. Clamp(b.lift) \in Powers BY <1>b, ClampKeepsSign
        <3>2. UpDown(b.lift) \in UpDowns BY <1>b DEF UpDowns
        <3>3. Typed'
            BY <1>0, <1>7, <2>2, <3>1, <3>2 DEF Typed, Move, device, StartUpDown
        <3>4. OneDriver'
            BY <1>7, <2>2 DEF OneDriver, Move, device, StartUpDown, Deploying
        <3>5. LiftHasAnAction'
            BY <1>b, <2>2, ClampKeepsSign DEF StartUpDown, UpDown, LiftHasAnAction
        <3>6. DoneIsNew'
            BY <1>0, <1>b, <1>7, <2>2, ClampKeepsSign
            DEF StartUpDown, Move, device, DoneIsNew, ButtonHeld
        <3> QED BY <1>a, <3>3, <3>4, <3>5, <3>6
    <2> QED BY <1>7, <2>1, <2>2 DEF Move, Dispatched
<1> QED BY <1>3, <1>4, <1>5, <1>6, <1>7 DEF Operate

\* The turn of the subsystems leaves the device and the climber as they are.
LEMMA SubsystemsKeep ==
    ASSUME IInv, Hold \/ Finish \/ Rise \/ Arrive
    PROVE  IInv'
<1> USE DEF IInv
<1>0. /\ turn = "subsystems" /\ turn' = "mechanism"
      /\ UNCHANGED <<started, deployed, asked, climber, traverse, height, zero, field>>
    BY DEF Hold, Finish, Rise, Arrive, Subsystems
<1>1. /\ height \in Int /\ zero \in Int /\ Reading \in Int /\ Reading' = Reading
      /\ climber.lift \in Int
    BY <1>0, HeightsAssumption DEF Typed, Reading, UpDowns, UpDown, Idle, Fast, Up
<1>2. WithinTravel' BY <1>0 DEF WithinTravel, Reading
<1>3. CASE Hold
    <2>1. /\ lifter \in {"hold", "none"} /\ lift' = 0 /\ lifter' \in {"hold", "none"}
        BY <1>3 DEF Hold, Subsystems, LifterHolds, LiftHasAnAction, Deploying
    <2>2. Typed' BY <1>0, <2>1 DEF Typed, Powers
    <2> QED BY <1>0, <1>2, <2>1, <2>2 DEF OneDriver, DrivenOnlyWhileAsked, LiftHasAnAction,
                MovesWithin, DoneIsNew, Deploying
<1>4. CASE Finish
    <2>1. /\ lifter = "done" /\ lifter' \in {"hold", "none"}
          /\ lift' = IF AtLimit THEN 0 ELSE lift
          /\ lift' # 0 => lifter' = "hold"
        BY <1>4 DEF Finish, Subsystems, LifterFinished
    <2>2. lift \in Powers /\ lift' \in Powers BY <2>1 DEF Typed, Powers
    <2>3. Typed' BY <1>0, <2>1, <2>2 DEF Typed
    <2>4. OneDriver' /\ DoneIsNew' BY <1>0, <2>1 DEF OneDriver, DoneIsNew, Deploying
    <2>5. lift' # 0 => lift' = lift /\ ~AtLimit /\ ButtonHeld /\ climber.on
                        /\ (lift > 0 => climber.lift > 0) /\ (lift < 0 => climber.lift < 0)
        BY <2>1 DEF DoneIsNew, LiftHasAnAction, Deploying
    <2>6. DrivenOnlyWhileAsked' BY <1>0, <2>5 DEF DrivenOnlyWhileAsked, ButtonHeld
    <2>7. LiftHasAnAction' BY <1>0, <2>1, <2>5 DEF LiftHasAnAction
    <2>8. MovesWithin'
        <3>1. ~AtLimit /\ climber.on /\ climber.lift > 0 => ~(Reading > MaxHeight)
            BY DEF AtLimit
        <3>2. ~AtLimit /\ climber.on /\ climber.lift < 0 => ~(Reading <= 0)
            BY DEF AtLimit
        <3>3. lift' > 0 => ~(Reading > MaxHeight) BY <2>5, <3>1
        <3>4. lift' < 0 => ~(Reading <= 0) BY <2>5, <3>2
        <3> QED BY <1>1, <3>3, <3>4, HeightsAssumption DEF MovesWithin
    <2> QED BY <1>2, <2>3, <2>4, <2>6, <2>7, <2>8
<1>5. CASE Rise
    <2>1. lifter \in Deploying /\ lifter' = lifter
        BY <1>5 DEF Rise, Subsystems, LifterDeploys
    <2>2. \/ lift' = 0
          \/ Reading <= ClimbHeight /\ lift' = Clamp(Up)
          \/ Reading >= ClimbHeight /\ lift' = Clamp(Fast)
        BY <1>5 DEF Rise, Subsystems, LifterDeploys
    <2>3. lift' \in Powers BY <2>2, ClampKeepsSign DEF Powers
    <2>4. Typed' BY <1>0, <2>1, <2>3 DEF Typed
    <2>5. MovesWithin'
        <3>1. ~(Clamp(Up) < 0) /\ ~(Clamp(Fast) > 0)
            <4>1. ~(Up < 0) /\ ~(Fast > 0) BY DEF Fast, Up
            <4> QED BY <4>1, ClampKeepsSign
        <3>2. lift' > 0 => Reading <= ClimbHeight
            BY <2>2, <3>1
        <3>3. lift' < 0 => Reading >= ClimbHeight
            BY <2>2, <3>1
        <3>4. lift' > 0 => Reading <= MaxHeight BY <1>1, <3>2, HeightsAssumption
        <3>5. lift' < 0 => Reading > 0 BY <1>1, <3>3, HeightsAssumption
        <3> QED BY <1>1, <3>4, <3>5 DEF MovesWithin
    <2> QED BY <1>0, <1>2, <2>1, <2>4, <2>5 DEF OneDriver, DrivenOnlyWhileAsked,
                LiftHasAnAction, DoneIsNew, Deploying
<1>6. CASE Arrive
    <2>1. lifter \in Deploying /\ lifter' = "done" /\ lift' = 0
        BY <1>6 DEF Arrive, Subsystems, DeployEnds
    <2>2. Typed' BY <1>0, <2>1 DEF Typed, Powers
    <2> QED BY <1>0, <1>2, <2>1, <2>2 DEF OneDriver, DrivenOnlyWhileAsked, LiftHasAnAction,
                MovesWithin, DoneIsNew, Deploying
<1> QED BY <1>3, <1>4, <1>5, <1>6

\* The mechanism moves by a band, within the limits.
LEMMA MechanismKeeps == ASSUME IInv, Mechanism PROVE IInv'
<1> USE DEF IInv
<1>1. /\ turn = "mechanism" /\ turn' = "oi"
      /\ UNCHANGED <<device, asked, climber, lifter, lift, traverse, zero, field>>
    BY DEF Mechanism
<1>2. /\ height \in Int /\ zero \in Int /\ MaxHeight \in Int
      /\ lift \in Int
    BY HeightsAssumption DEF Typed, Powers, Fast, Slow, Up
<1>3. \/ height' = height
      \/ lift > 0 /\ height' = height + 1
      \/ lift < 0 /\ height' = height - 1
    BY DEF Mechanism
<1>4. Typed' BY <1>1, <1>2, <1>3 DEF Typed, device
<1>5. WithinTravel'
    BY <1>1, <1>2, <1>3, HeightsAssumption DEF WithinTravel, MovesWithin, Reading
<1> QED BY <1>1, <1>4, <1>5 DEF device, OneDriver, DrivenOnlyWhileAsked, LiftHasAnAction,
            MovesWithin, DoneIsNew

\* A disable stops everything and zeroes the encoder.
LEMMA DisableKeeps == ASSUME IInv, Disable PROVE IInv'
<1> USE DEF IInv
<1>1. Typed'
    BY ModesAssumption DEF Disable, Typed, Powers
<1>2. WithinTravel' BY HeightsAssumption DEF Disable, Typed, WithinTravel, Reading
<1> QED BY <1>1, <1>2 DEF Disable, Idle, OneDriver, DrivenOnlyWhileAsked, LiftHasAnAction,
            MovesWithin, DoneIsNew, Deploying

\* Enabling only looks for the field.
LEMMA EnableKeeps == ASSUME IInv, Enable PROVE IInv'
<1> USE DEF IInv
<1>1. Typed' BY ModesAssumption DEF Enable, Typed, device
<1> QED BY <1>1 DEF Enable, device, WithinTravel, Reading, OneDriver, DrivenOnlyWhileAsked,
            LiftHasAnAction, MovesWithin, DoneIsNew

\* Every step keeps the invariant.
LEMMA StepIInv == IInv /\ [Next]_vars => IInv'
<1> SUFFICES ASSUME IInv, [Next]_vars PROVE IInv'
    OBVIOUS
<1>1. CASE Next
    BY <1>1, OperateKeeps, SubsystemsKeep, MechanismKeeps, DisableKeeps, EnableKeeps DEF Next
<1>2. CASE UNCHANGED vars
    BY <1>2 DEF IInv, vars, device, Typed, WithinTravel, Reading, OneDriver,
        DrivenOnlyWhileAsked, LiftHasAnAction, MovesWithin, DoneIsNew, ButtonHeld
<1> QED BY <1>1, <1>2

\* The inductive invariant holds in every state.
THEOREM Invariance == Spec => []IInv
    BY InitIInv, StepIInv, PTL DEF Spec

\* The lifter stays between its limits, as its encoder reads them.
THEOREM TravelLimited == Spec => []WithinTravel
<1>1. IInv => WithinTravel BY DEF IInv
<1> QED BY <1>1, Invariance, PTL

\* The lifter is driven by a deploy under way or a button held in this loop.
THEOREM DrivenWhileAsked == Spec => []DrivenOnlyWhileAsked
<1>1. IInv => DrivenOnlyWhileAsked BY DEF IInv
<1> QED BY <1>1, Invariance, PTL

\* The deploy and the up/down buttons never drive the lifter together.
THEOREM OneDriverAtATime == Spec => []OneDriver
<1>1. IInv => OneDriver BY DEF IInv
<1> QED BY <1>1, Invariance, PTL
----------------------------------------------------------------------------
\* The heights are those of the mechanism: the encoder is zeroed where the
\* lifter is, and the lifter does not go below where it was zeroed.
OnTheMast == zero >= 0 /\ zero <= Top /\ height <= Top

\* Every step keeps it, given the invariant.
LEMMA StepOnTheMast == IInv /\ OnTheMast /\ [Next]_vars => OnTheMast'
<1> SUFFICES ASSUME IInv, OnTheMast, [Next]_vars PROVE OnTheMast'
    OBVIOUS
<1>1. height \in Int /\ zero \in Int /\ Top \in Int /\ height - zero >= 0
    BY HeightsAssumption DEF IInv, Typed, WithinTravel, Reading
<1>2. CASE Mechanism
    <2>1. zero' = zero /\ (height' = height \/ height' = height - 1
                            \/ (height < Top /\ height' = height + 1))
        BY <1>2 DEF Mechanism
    <2> QED BY <1>1, <2>1 DEF OnTheMast
<1>3. CASE Disable BY <1>1, <1>3 DEF Disable, OnTheMast
<1>4. CASE UNCHANGED <<height, zero>> BY <1>4 DEF OnTheMast
<1> QED BY <1>2, <1>3, <1>4
        DEF Next, Operate, Hold, Finish, Rise, Arrive, Subsystems, Enable, vars

\* Every variable keeps its type.
THEOREM TypeCorrect == Spec => []TypeOK
<1>1. Init => OnTheMast BY HeightsAssumption DEF Init, OnTheMast
<1>2. IInv /\ OnTheMast => TypeOK
    <2> SUFFICES ASSUME IInv, OnTheMast PROVE TypeOK
        OBVIOUS
    <2>1. height \in 0..Top /\ zero \in 0..Top
        BY HeightsAssumption DEF IInv, OnTheMast, Typed, WithinTravel, Reading
    <2> QED BY <2>1 DEF IInv, Typed, TypeOK
<1> QED BY <1>1, <1>2, StepOnTheMast, Invariance, PTL DEF Spec
=============================================================================
