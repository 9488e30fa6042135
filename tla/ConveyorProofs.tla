--------------------------- MODULE ConveyorProofs ---------------------------
(***************************************************************************)
(* Theorems about Conveyor, for every set of preset counts: the programs   *)
(* keep count, staging, clock and belts in order, and the conveyor         *)
(* implements BallLedger.  IInv says, for each program, what is true at    *)
(* which of its states.                                                    *)
(***************************************************************************)
EXTENDS MCConveyor, ConveyorPrograms

Collect == flag["stagedForCollect"]
Fire    == flag["stagedForFire"]
Does(k) == kind = k /\ ~done

\* The fifth ball (states 15 to 20) comes into a conveyor with four, every other
\* one into one with fewer.
ReceivePoint ==
    Does("Receive") =>
        /\ at \in {3, 4, 21, 24, 25} => ~flag["collecting"]
        /\ at \in (7..12) \cup (15..19) => flag["collecting"]
        /\ at \in (4..9) \cup {13} => balls < MAX_BALLS
        /\ at \in 10..12 => balls < FifthBall
        /\ at \in 15..19 => balls = FifthBall
        /\ at \in {20, 21, 24, 25} => balls = MAX_BALLS
        /\ at \in (5..12) \cup (15..19) => Collect

\* The last ball (states 7 to 10) goes another way than the others.
EmitPoint ==
    Does("Emit") =>
        /\ at \in (2..6) \cup (11..13) => balls > 0
        /\ at \in 7..8 => balls = 1
        /\ at = 9 => balls = 0
        /\ at \in (3..9) \cup (11..15) => Fire
        /\ at \in (5..9) \cup (11..15) => ~Collect
        /\ at = 10 => ~Fire
        /\ at = 16 => balls = 0 \/ stop \/ ~Fire

PrepareToEmitPoint ==
    Does("PrepareToEmit") =>
        /\ at \in 2..5 => balls > 0
        /\ at \in 3..5 => ~Fire
        /\ at = 6 => balls = 0 \/ Fire

PrepareToReceivePoint ==
    Does("PrepareToReceive") =>
        /\ at \in 2..9 => balls < MAX_BALLS
        /\ at \in 3..8 => ~Collect
        /\ at \in 4..8 => balls > 0
        /\ at = 10 => balls = MAX_BALLS \/ (Collect /\ ~Fire)

EjectPoint ==
    Does("Eject") =>
        (at \in 3..4 => balls = 0 /\ ~Collect /\ ~Fire /\ ~flag["collecting"])

Points == ReceivePoint /\ EmitPoint /\ PrepareToEmitPoint /\ PrepareToReceivePoint /\ EjectPoint

\* Between two loops a program stands at its start or at a state that waits.
StandsAtAWait ==
    (loop = "control" /\ ~done /\ kind \in DOMAIN Program /\ at > 1)
        => Here.op \in {"wait", "delay", "edge"}

RunsAnAction == (loop = "run") => Working

\* The clock runs for the state that is executed.
ClockHasAnOwner ==
    armed => kind \in DOMAIN Program /\ (Here.op = "delay" \/ (Here.op = "wait" /\ Here.to # ""))

Frame == TypeOK /\ StandsAtAWait /\ RunsAnAction /\ ClockHasAnOwner
IInv == Frame /\ Points
----------------------------------------------------------------------------
\* What all programs have in common: jumps stay inside, an assert is not the last
\* state, and the last one stops the belts.
Fits(n) ==
    /\ Here.op \in {"branch", "wait", "edge", "delay", "increment", "decrement", "motor",
                    "assert", "put", "dump"}
    /\ Here.op = "branch" => Index(Here.to) \in 1..n
    /\ Here.op = "wait" /\ Here.to # "" => Index(Here.to) \in 1..n
    /\ Here.op = "motor" => Here.arg \in MotorStates
    /\ Here.op = "assert" => at < n
    /\ at = n => Here.op = "motor" /\ Here.arg = "Stopped"

\* Receive fits.
LEMMA ReceiveFits ==
    ASSUME kind = "Receive", at \in 1..25
    PROVE  Fits(25)
  <1>1. Here.op = "branch" => Index(Here.to) \in 1..25
    <2>1. Here.op = "branch" => Here.to \in {"done", "fifth", "loop"}
      BY ReceiveBranches
    <2> QED BY <2>1, ReceiveJumps
  <1>2. ASSUME Here.op = "wait", Here.to # "" PROVE Index(Here.to) \in 1..25
    <2>1. Here.to = "timeout"
      BY <1>2, ReceiveWaits
    <2> QED BY <2>1, ReceiveJumps
  <1>3. Here.op = "motor" => Here.arg \in MotorStates
    BY ReceiveMotors DEF MotorStates
  <1>4. Here.op = "assert" => at < 25
    BY ReceiveCode
  <1>5. at = 25 => Here.op = "motor" /\ Here.arg = "Stopped"
    BY ReceiveLast
  <1>6. Here.op \in {"branch", "wait", "edge", "delay", "increment", "decrement", "motor",
                    "assert", "put", "dump"}
    BY ReceiveCode
  <1> QED BY <1>1, <1>2, <1>3, <1>4, <1>5, <1>6 DEF Fits

\* Emit fits.
LEMMA EmitFits ==
    ASSUME kind = "Emit", at \in 1..16
    PROVE  Fits(16)
  <1>1. Here.op = "branch" => Index(Here.to) \in 1..16
    <2>1. Here.op = "branch" => Here.to \in {"done", "next", "loop"}
      BY EmitBranches
    <2> QED BY <2>1, EmitJumps
  <1>2. Here.op = "wait" /\ Here.to # "" => Index(Here.to) \in 1..16
    BY EmitWaits
  <1>3. Here.op = "motor" => Here.arg \in MotorStates
    BY EmitMotors DEF MotorStates
  <1>4. Here.op = "assert" => at < 16
    BY EmitCode
  <1>5. at = 16 => Here.op = "motor" /\ Here.arg = "Stopped"
    BY EmitLast
  <1>6. Here.op \in {"branch", "wait", "edge", "delay", "increment", "decrement", "motor",
                    "assert", "put", "dump"}
    BY EmitCode
  <1> QED BY <1>1, <1>2, <1>3, <1>4, <1>5, <1>6 DEF Fits

\* PrepareToEmit fits.
LEMMA PrepareToEmitFits ==
    ASSUME kind = "PrepareToEmit", at \in 1..6
    PROVE  Fits(6)
  <1>1. Here.op = "branch" => Index(Here.to) \in 1..6
    <2>1. Here.op = "branch" => Here.to \in {"done"}
      BY PrepareToEmitBranches
    <2> QED BY <2>1, PrepareToEmitJumps
  <1>2. Here.op = "wait" /\ Here.to # "" => Index(Here.to) \in 1..6
    BY PrepareToEmitCode
  <1>3. Here.op = "motor" => Here.arg \in MotorStates
    BY PrepareToEmitMotors DEF MotorStates
  <1>4. Here.op = "assert" => at < 6
    BY PrepareToEmitCode
  <1>5. at = 6 => Here.op = "motor" /\ Here.arg = "Stopped"
    BY PrepareToEmitLast
  <1>6. Here.op \in {"branch", "wait", "edge", "delay", "increment", "decrement", "motor",
                    "assert", "put", "dump"}
    BY PrepareToEmitCode
  <1> QED BY <1>1, <1>2, <1>3, <1>4, <1>5, <1>6 DEF Fits

\* PrepareToReceive fits.
LEMMA PrepareToReceiveFits ==
    ASSUME kind = "PrepareToReceive", at \in 1..10
    PROVE  Fits(10)
  <1>1. Here.op = "branch" => Index(Here.to) \in 1..10
    <2>1. Here.op = "branch" => Here.to \in {"done", "staged"}
      BY PrepareToReceiveBranches
    <2> QED BY <2>1, PrepareToReceiveJumps
  <1>2. Here.op = "wait" /\ Here.to # "" => Index(Here.to) \in 1..10
    BY PrepareToReceiveWaits
  <1>3. Here.op = "motor" => Here.arg \in MotorStates
    BY PrepareToReceiveMotors DEF MotorStates
  <1>4. Here.op = "assert" => at < 10
    BY PrepareToReceiveCode
  <1>5. at = 10 => Here.op = "motor" /\ Here.arg = "Stopped"
    BY PrepareToReceiveLast
  <1>6. Here.op \in {"branch", "wait", "edge", "delay", "increment", "decrement", "motor",
                    "assert", "put", "dump"}
    BY PrepareToReceiveCode
  <1> QED BY <1>1, <1>2, <1>3, <1>4, <1>5, <1>6 DEF Fits

\* Eject fits.
LEMMA EjectFits ==
    ASSUME kind = "Eject", at \in 1..4
    PROVE  Fits(4)
  <1>1. Here.op = "branch" => Index(Here.to) \in 1..4
    BY EjectCode
  <1>2. Here.op = "wait" /\ Here.to # "" => Index(Here.to) \in 1..4
    BY EjectCode
  <1>3. Here.op = "motor" => Here.arg \in MotorStates
    BY EjectMotors DEF MotorStates
  <1>4. Here.op = "assert" => at < 4
    BY EjectCode
  <1>5. at = 4 => Here.op = "motor" /\ Here.arg = "Stopped"
    BY EjectLast
  <1>6. Here.op \in {"branch", "wait", "edge", "delay", "increment", "decrement", "motor",
                    "assert", "put", "dump"}
    BY EjectCode
  <1> QED BY <1>1, <1>2, <1>3, <1>4, <1>5, <1>6 DEF Fits

\* The length of the program that is executed.
LEMMA Sizes ==
    /\ kind = "Receive" => Size = 25
    /\ kind = "Emit" => Size = 16
    /\ kind = "PrepareToEmit" => Size = 6
    /\ kind = "PrepareToReceive" => Size = 10
    /\ kind = "Eject" => Size = 4
  BY ProgramIs, ReceiveIs, EmitIs, PrepareToEmitIs, PrepareToReceiveIs, EjectIs DEF Size

\* Every state of every program fits.
LEMMA AllFit ==
    ASSUME kind \in DOMAIN Program, at \in 1..Size
    PROVE  Size \in Nat /\ Fits(Size)
  <1>1. CASE kind = "Receive"
    BY <1>1, Sizes, ReceiveFits
  <1>2. CASE kind = "Emit"
    BY <1>2, Sizes, EmitFits
  <1>3. CASE kind = "PrepareToEmit"
    BY <1>3, Sizes, PrepareToEmitFits
  <1>4. CASE kind = "PrepareToReceive"
    BY <1>4, Sizes, PrepareToReceiveFits
  <1>5. CASE kind = "Eject"
    BY <1>5, Sizes, EjectFits
  <1> QED BY <1>1, <1>2, <1>3, <1>4, <1>5, ProgramIs
----------------------------------------------------------------------------
\* A state of a program is executed: what that says, and what does not change.
ProgramStep ==
    \/ DoBranch \/ DoWait \/ TimeOut \/ DoEdge \/ DoCount \/ DoDump \/ DoMotor \/ DoPut \/ DoAssert
    \/ \E over \in BOOLEAN : DoDelay(over)

\* A running program stands inside its list of states.
LEMMA InsideProgram ==
    ASSUME Frame, ProgramStep
    PROVE  /\ loop = "run" /\ kind \in DOMAIN Program /\ ~done
           /\ at \in 1..Size /\ Size \in Nat /\ Fits(Size)
           /\ kind' = kind /\ sensor' = sensor /\ byDefault' = byDefault /\ Size' = Size
  <1>1. loop = "run" /\ kind \in DOMAIN Program /\ ~done
    BY
      DEF ProgramStep, DoBranch, DoWait, TimeOut, DoEdge, DoCount, DoDump, DoMotor, DoPut, DoAssert,
           DoDelay, Running
  <1>2. kind' = kind /\ sensor' = sensor /\ byDefault' = byDefault
    BY
      DEF ProgramStep, DoBranch, DoWait, TimeOut, DoEdge, DoCount, DoDump, DoMotor, DoPut, DoAssert,
           DoDelay, same
  <1>3. at \in 1..Size
    BY <1>1 DEF Frame, TypeOK
  <1>4. Size' = Size
    BY <1>2 DEF Size
  <1> QED BY <1>1, <1>2, <1>3, <1>4, AllFit

\* How a step of a program ends: at the next state, at the target of a jump, at
\* the end of the action, or where it began, to be run again in the next loop.
Advances == at' = at + 1 /\ at < Size /\ loop' = "run" /\ done' = done
Jumps    == at' = Index(Here.to) /\ loop' = "run" /\ done' = done
Ends     == done' = TRUE /\ loop' = "control" /\ at' \in 1..Size
Stays    == at' = at /\ loop' = "control" /\ done' = done /\ Here.op \in {"wait", "edge", "delay"}

\* What a step of a program does to its index, its end and its clock.
LEMMA Outcome ==
    ASSUME Frame, ProgramStep
    PROVE  /\ Advances \/ Ends \/ Stays
              \/ (Jumps /\ Index(Here.to) \in 1..Size)
           /\ at' \in 1..Size
  <1> USE InsideProgram
  <1>1. Next1 => Advances \/ Ends
    BY DEF Next1, Advances, Ends
  <1>2. ASSUME Jump(Here.to), Here.op = "branch" \/ (Here.op = "wait" /\ Here.to # "")
        PROVE  Jumps /\ Index(Here.to) \in 1..Size
    BY <1>2 DEF Jump, Jumps, Fits
  <1>3. Continue /\ Here.op \in {"wait", "edge", "delay"} => Stays
    BY DEF Continue, Stays
  <1>4. DoBranch => Advances \/ Ends \/ (Jumps /\ Index(Here.to) \in 1..Size)
    BY <1>1, <1>2 DEF DoBranch, Running
  <1>5. DoWait => Advances \/ Ends \/ Stays
    BY <1>1, <1>3 DEF DoWait, Running
  <1>6. TimeOut => Jumps /\ Index(Here.to) \in 1..Size
    BY <1>2 DEF TimeOut, Running
  <1>7. DoEdge => Advances \/ Ends \/ Stays
    BY <1>1, <1>3 DEF DoEdge, Running
  <1>8. DoCount \/ DoDump \/ DoMotor \/ DoPut => Advances \/ Ends
    BY <1>1 DEF DoCount, DoDump, DoMotor, DoPut
  <1>9. DoAssert => Advances \/ Ends
    <2>1. DoAssert /\ ~Holds(Here.arg) => Ends
      BY DEF DoAssert, Ends, Fits, Running
    <2> QED BY <1>1, <2>1 DEF DoAssert
  <1>10. ASSUME NEW over \in BOOLEAN, DoDelay(over) PROVE Advances \/ Ends \/ Stays
    BY <1>1, <1>3, <1>10 DEF DoDelay, Running
  <1>11. Advances \/ Ends \/ Stays \/ (Jumps /\ Index(Here.to) \in 1..Size)
    BY <1>4, <1>5, <1>6, <1>7, <1>8, <1>9, <1>10 DEF ProgramStep
  <1>12. at' \in 1..Size
    BY <1>11 DEF Advances, Ends, Stays, Jumps
  <1> QED BY <1>11, <1>12

\* The belt that Receive stops at its start keeps the motors typed.
LEMMA ReceiveRunTyped ==
    ASSUME TypeOK, ReceiveRun
    PROVE  flag' \in [Flags -> BOOLEAN] /\ motors' \in MotorStates
  BY DEF TypeOK, ReceiveRun, Flags, MotorStates, Sensors

\* A step of a program keeps the types.
LEMMA StepTyped ==
    ASSUME Frame, ProgramStep
    PROVE  TypeOK'
  <1> USE InsideProgram
  <1>1. TypeOK
    BY DEF Frame
  <1>2. Continue => flag' \in [Flags -> BOOLEAN] /\ motors' \in MotorStates
    BY <1>1, ReceiveRunTyped DEF Continue, TypeOK
  <1>3. flag' \in [Flags -> BOOLEAN]
    <2>1. DoDump \/ DoPut => flag' \in [Flags -> BOOLEAN]
      BY <1>1 DEF DoDump, DoPut, TypeOK
    <2> QED BY <1>1, <1>2, <2>1 DEF ProgramStep, DoBranch, DoWait, TimeOut, DoEdge, DoCount, DoMotor,
            DoAssert, DoDelay, TypeOK
  <1>4. motors' \in MotorStates
    <2>1. DoMotor \/ DoAssert => motors' \in MotorStates
      BY <1>1 DEF DoMotor, DoAssert, TypeOK, Fits, Running, MotorStates
    <2> QED BY <1>1, <1>2, <2>1 DEF ProgramStep, DoBranch, DoWait, TimeOut, DoEdge, DoCount, DoDump,
            DoPut, DoDelay, TypeOK
  <1>5. balls' \in 0..MAX_BALLS
    <2>1. DoCount => balls' \in 0..MAX_BALLS
      BY <1>1 DEF DoCount, TypeOK, MAX_BALLS
    <2>2. DoDump => balls' \in 0..MAX_BALLS
      BY DEF DoDump, MAX_BALLS
    <2>3. balls \in 0..MAX_BALLS
      BY <1>1 DEF TypeOK
    <2> QED BY <2>1, <2>2, <2>3 DEF ProgramStep, DoBranch, DoWait, TimeOut, DoEdge, DoMotor, DoPut,
            DoAssert, DoDelay
  <1>6. {armed, edgeReady, stop}' \subseteq BOOLEAN
    BY <1>1 DEF ProgramStep, DoBranch, DoWait, TimeOut, DoEdge, DoCount, DoDump, DoMotor, DoPut,
            DoAssert, DoDelay, TypeOK
  <1>7. done' \in BOOLEAN /\ loop' \in {"control", "run"}
    BY <1>1, Outcome DEF Advances, Jumps, Ends, Stays, TypeOK
  <1>8. kind' \in Kinds \cup {"none"} /\ byDefault' \in BOOLEAN /\ sensor' \in [Sensors -> BOOLEAN]
    BY <1>1 DEF TypeOK
  <1>9. at' \in 1..(IF kind' \in DOMAIN Program THEN Size' ELSE 1)
    BY Outcome
  <1> QED BY <1>3, <1>4, <1>5, <1>6, <1>7, <1>8, <1>9 DEF TypeOK

\* The clock is stopped by every step that leaves the state it was set for.
LEMMA ClockStops ==
    ASSUME Frame, ProgramStep
    PROVE  /\ armed' => at' = at
           /\ armed' => Here.op = "delay" \/ (Here.op = "wait" /\ Here.to # "")
  <1>1. armed' => Here.op = "delay" \/ (Here.op = "wait" /\ Here.to # "")
    BY DEF ProgramStep, DoBranch, DoWait, TimeOut, DoEdge, DoCount, DoDump, DoMotor, DoPut,
           DoAssert, DoDelay, Frame, ClockHasAnOwner, TypeOK, Running
  <1>2. ClockHasAnOwner /\ armed \in BOOLEAN
    BY DEF Frame, TypeOK
  <1>3. DoBranch \/ DoEdge \/ DoCount \/ DoDump \/ DoMotor \/ DoPut \/ DoAssert => ~armed'
    <2>1. Here.op \notin {"wait", "delay"} => ~armed
      BY <1>2 DEF ClockHasAnOwner
    <2>2. DoBranch \/ DoEdge \/ DoCount \/ DoDump \/ DoMotor \/ DoPut \/ DoAssert
              => armed' = armed
      BY DEF DoBranch, DoEdge, DoCount, DoDump, DoMotor, DoPut, DoAssert
    <2>3. DoBranch \/ DoEdge \/ DoCount \/ DoDump \/ DoMotor \/ DoPut \/ DoAssert
              => Here.op \notin {"wait", "delay"}
      BY DEF DoBranch, DoEdge, DoCount, DoDump, DoMotor, DoPut, DoAssert, Running
    <2> QED BY <2>1, <2>2, <2>3
  <1>4. TimeOut => ~armed'
    BY DEF TimeOut
  <1>5. DoWait /\ armed' => at' = at
    <2>1. Here.op = "wait" /\ Here.to = "" => ~armed
      BY <1>2 DEF ClockHasAnOwner
    <2>2. Continue => at' = at
      BY DEF Continue
    <2>3. DoWait => Here.op = "wait"
      BY DEF DoWait, Running
    <2>4. DoWait => (armed' => Continue \/ (Here.to = "" /\ armed))
      BY DEF DoWait
    <2> QED BY <2>1, <2>2, <2>3, <2>4
  <1>6. ASSUME NEW over \in BOOLEAN, DoDelay(over), armed' PROVE at' = at
    BY <1>6 DEF DoDelay, Continue
  <1>7. armed' => at' = at
    BY <1>3, <1>4, <1>5, <1>6 DEF ProgramStep
  <1> QED BY <1>1, <1>7

\* A step of a program keeps the frame.
LEMMA StepFrame ==
    ASSUME Frame, ProgramStep
    PROVE  Frame'
  <1> USE InsideProgram
  <1>1. Stays => Here' = Here
    BY DEF Stays, Here
  <1>2. StandsAtAWait'
    BY <1>1, Outcome DEF StandsAtAWait, Advances, Jumps, Ends, Stays
  <1>3. RunsAnAction'
    BY ProgramIs, Outcome DEF RunsAnAction, Working, Advances, Jumps, Ends, Stays
  <1>4. ClockHasAnOwner'
    <2>1. at' = at => Here' = Here
      BY DEF Here
    <2> QED BY <2>1, ClockStops DEF ClockHasAnOwner
  <1> QED BY <1>2, <1>3, <1>4, StepTyped DEF Frame
----------------------------------------------------------------------------
\* What the operations do to count, flags and position, whatever the program.
LEMMA NextState ==
    ASSUME Next1
    PROVE  done' \/ (at' = at + 1 /\ done' = done)
  BY DEF Next1

\* A branch changes no more than the index.
LEMMA BranchEffect ==
    ASSUME DoBranch
    PROVE  /\ flag' = flag /\ balls' = balls /\ stop' = stop
           /\ Holds(Here.arg) => at' = Index(Here.to) /\ done' = done
           /\ ~Holds(Here.arg) => at' = at + 1 \/ done'
           /\ Here.op = "branch"
  BY NextState DEF DoBranch, Jump, Running

\* A wait goes on when its sensor reads as asked.
LEMMA WaitEffect ==
    ASSUME Frame, DoWait \/ DoEdge \/ \E over \in BOOLEAN : DoDelay(over)
    PROVE  /\ balls' = balls /\ stop' = stop
           /\ at' = at \/ at' = at + 1 \/ done'
           /\ kind # "Receive" => flag' = flag
           /\ \A f \in {"collecting", "stagedForCollect"} : flag'[f] = flag[f]
           /\ flag' # flag => at' = at /\ done' = done /\ (Fire => flag'["stagedForFire"])
           /\ Here.op \in {"wait", "edge", "delay"}
  <1>1. ASSUME Continue
        PROVE  /\ at' = at /\ done' = done
               /\ kind # "Receive" => flag' = flag
               /\ \A f \in {"collecting", "stagedForCollect"} : flag'[f] = flag[f]
               /\ Fire => flag'["stagedForFire"]
    <2>1. flag \in [Flags -> BOOLEAN]
      BY DEF Frame, TypeOK
    <2>2. CASE kind = "Receive"
      BY <1>1, <2>1, <2>2 DEF Continue, ReceiveRun, Flags, Fire
    <2>3. CASE kind # "Receive"
      BY <1>1, <2>3 DEF Continue, Fire
    <2> QED BY <1>1, <2>2, <2>3 DEF Continue
  <1>2. Continue \/ (Next1 /\ flag' = flag)
    BY DEF DoWait, DoEdge, DoDelay
  <1>3. balls' = balls /\ stop' = stop /\ Here.op \in {"wait", "edge", "delay"}
    BY DEF DoWait, DoEdge, DoDelay, Running
  <1> QED BY <1>1, <1>2, <1>3, NextState

\* A wait that runs out jumps.
LEMMA TimeOutEffect ==
    ASSUME TimeOut
    PROVE  /\ flag' = flag /\ balls' = balls /\ stop' = stop
           /\ at' = Index(Here.to) /\ done' = done
           /\ Here.op = "wait" /\ Here.to # ""
  BY DEF TimeOut, Jump, Running

\* A count changes the count alone.
LEMMA CountEffect ==
    ASSUME DoCount, balls \in 0..MAX_BALLS
    PROVE  /\ flag' = flag /\ stop' = stop
           /\ at' = at + 1 \/ done'
           /\ Here.op \in {"increment", "decrement"}
           /\ Here.op = "increment" /\ balls < 5 => balls' = balls + 1
           /\ Here.op = "decrement" /\ balls > 0 => balls' = balls - 1
  <1>1. flag' = flag /\ stop' = stop /\ (at' = at + 1 \/ done') /\ Here.op \in {"increment", "decrement"}
    BY NextState DEF DoCount, Running
  <1>2. Here.op = "increment" /\ balls < 5 => balls' = balls + 1
    BY DEF DoCount, MAX_BALLS
  <1>3. Here.op = "decrement" /\ balls > 0 => balls' = balls - 1
    BY DEF DoCount, MAX_BALLS
  <1> QED BY <1>1, <1>2, <1>3

\* A motor state goes on, an assert only if it holds.
LEMMA MotorEffect ==
    ASSUME DoMotor \/ DoAssert
    PROVE  /\ flag' = flag /\ balls' = balls /\ stop' = stop
           /\ done' \/ (at' = at + 1 /\ (Here.op = "assert" => Holds(Here.arg)))
           /\ Here.op \in {"motor", "assert"}
  BY NextState DEF DoMotor, DoAssert, Running

\* A put changes the flags it names.
LEMMA PutEffect ==
    ASSUME DoPut
    PROVE  /\ balls' = balls /\ stop' = stop
           /\ at' = at + 1 \/ done'
           /\ \A f \in Flags : flag'[f] <=> (f \in Here.arg \/ flag[f]) /\ f \notin Here.value
           /\ Here.op = "put"
  BY NextState DEF DoPut, Running

\* A dump leaves nothing counted or staged.
LEMMA DumpEffect ==
    ASSUME DoDump
    PROVE  /\ balls' = 0 /\ stop' = stop
           /\ at' = at + 1 \/ done'
           /\ \A f \in {"stagedForCollect", "stagedForFire", "collecting"} : ~flag'[f]
           /\ Here.op = "dump"
  BY NextState DEF DoDump, Running, Flags
----------------------------------------------------------------------------
\* Each program keeps what is said of its states.
LEMMA ReceiveStep ==
    ASSUME Frame, ProgramStep, kind = "Receive", ReceivePoint
    PROVE  ReceivePoint'
  <1> USE InsideProgram DEF MAX_BALLS, FifthBall
  <1>1. at \in 1..25 /\ balls \in 0..5
    BY Sizes DEF Frame, TypeOK
  <1>2. CASE DoBranch
    <2>1. \/ done'
          \/ at = 3 /\ balls = 5 /\ at' = 24
          \/ at = 3 /\ balls < 5 /\ at' = 4
          \/ at = 9 /\ balls = 4 /\ at' = 15
          \/ at = 9 /\ balls # 4 /\ at' = 10
          \/ at = 21 /\ at' = 24
          \/ at' = 1
      BY <1>1, <1>2, BranchEffect, ReceiveBranches, ReceiveJumps DEF Holds, Flags
    <2> QED BY <1>1, <1>2, <2>1, BranchEffect DEF ReceivePoint, Does, Collect
  <1>3. CASE DoWait \/ DoEdge \/ \E over \in BOOLEAN : DoDelay(over)
    <2>1. at \in {5, 7, 10, 11, 13, 15, 16, 18}
      BY <1>1, <1>3, WaitEffect, ReceiveCode
    <2> QED BY <1>1, <1>3, <2>1, WaitEffect DEF ReceivePoint, Does, Collect
  <1>4. CASE TimeOut
    <2>1. Here.to = "timeout"
      BY <1>1, <1>4, TimeOutEffect, ReceiveWaits
    <2>2. at' = 22
      BY <1>4, <2>1, TimeOutEffect, ReceiveJumps
    <2>3. flag' = flag /\ balls' = balls /\ done' = done
      BY <1>4, TimeOutEffect
    <2> QED BY <1>1, <2>2, <2>3 DEF ReceivePoint, Does, Collect
  <1>5. CASE DoCount
    <2>1. at \in {12, 19} /\ Here.op = "increment"
      BY <1>1, <1>5, CountEffect, ReceiveCode
    <2> QED BY <1>1, <1>5, <2>1, CountEffect DEF ReceivePoint, Does, Collect
  <1>6. CASE DoMotor \/ DoAssert
    <2>1. done' \/ (at = 4 /\ at' = 5 /\ Collect) \/ (at = 25 /\ at' = 26)
      BY <1>1, <1>6, MotorEffect, ReceiveCode, ReceiveAsserts DEF Holds, Collect, Flags
    <2> QED BY <1>1, <1>6, <2>1, MotorEffect DEF ReceivePoint, Does, Collect
  <1>7. CASE DoPut
    <2>1. at \in {1, 2, 6, 8, 17, 20, 22, 24}
      BY <1>1, <1>7, PutEffect, ReceiveCode
    <2>2. /\ at \in {2, 20} => ~flag'["collecting"]
          /\ at = 6 => flag'["collecting"]
          /\ at \in {1, 8, 17, 24} => (flag'["collecting"] <=> flag["collecting"])
          /\ flag'["stagedForCollect"] <=> flag["stagedForCollect"]
      <3>1. \A f \in {"collecting", "stagedForCollect"} :
                flag'[f] <=> (f \in Here.arg \/ flag[f]) /\ f \notin Here.value
        BY <1>7, PutEffect DEF Flags
      <3> QED BY <1>1, <1>7, <3>1, PutEffect, ReceivePuts
    <2> QED BY <1>1, <1>7, <2>1, <2>2, PutEffect DEF ReceivePoint, Does, Collect
  <1>8. ~DoDump
    BY <1>1, DumpEffect, ReceiveCode
  <1> QED BY <1>2, <1>3, <1>4, <1>5, <1>6, <1>7, <1>8 DEF ProgramStep

\* A step of Emit keeps what holds at each of its states.
LEMMA EmitStep ==
    ASSUME Frame, ProgramStep, kind = "Emit", EmitPoint
    PROVE  EmitPoint'
  <1> USE InsideProgram DEF MAX_BALLS
  <1>1. at \in 1..16 /\ balls \in 0..5
    BY Sizes DEF Frame, TypeOK
  <1>2. CASE DoBranch
    <2>1. \/ done'
          \/ at = 1 /\ balls = 0 /\ at' = 16
          \/ at = 1 /\ balls > 0 /\ at' = 2
          \/ at = 6 /\ balls = 1 /\ at' = 7
          \/ at = 6 /\ balls # 1 /\ at' = 11
          \/ at = 10 /\ at' = 16
          \/ at = 14 /\ stop /\ at' = 16
          \/ at = 14 /\ at' = 15
          \/ at = 15 /\ at' = 1
      BY <1>1, <1>2, BranchEffect, EmitBranches, EmitJumps DEF Holds, Flags
    <2> QED BY <1>1, <1>2, <2>1, BranchEffect DEF EmitPoint, Does, Collect, Fire
  <1>3. CASE DoWait \/ DoEdge \/ \E over \in BOOLEAN : DoDelay(over)
    <2>1. at \in {5, 7, 11, 12}
      BY <1>1, <1>3, WaitEffect, EmitCode
    <2> QED BY <1>1, <1>3, <2>1, WaitEffect DEF EmitPoint, Does, Collect, Fire
  <1>5. CASE DoCount
    <2>1. at \in {8, 13} /\ Here.op = "decrement"
      BY <1>1, <1>5, CountEffect, EmitCode
    <2> QED BY <1>1, <1>5, <2>1, CountEffect DEF EmitPoint, Does, Collect, Fire
  <1>6. CASE DoMotor \/ DoAssert
    <2>1. done' \/ (at = 2 /\ at' = 3 /\ Fire) \/ (at = 3 /\ at' = 4) \/ (at = 16 /\ at' = 17)
      BY <1>1, <1>6, MotorEffect, EmitCode, EmitAsserts DEF Holds, Fire, Flags
    <2> QED BY <1>1, <1>6, <2>1, MotorEffect DEF EmitPoint, Does, Collect, Fire
  <1>7. CASE DoPut
    <2>1. at \in {4, 9}
      BY <1>1, <1>7, PutEffect, EmitCode
    <2>2. /\ at = 4 => ~flag'["stagedForCollect"] /\ (flag'["stagedForFire"] <=> Fire)
          /\ at = 9 => ~flag'["stagedForFire"] /\ (flag'["stagedForCollect"] <=> Collect)
      <3>1. \A f \in {"stagedForFire", "stagedForCollect"} :
                flag'[f] <=> (f \in Here.arg \/ flag[f]) /\ f \notin Here.value
        BY <1>7, PutEffect DEF Flags
      <3> QED BY <1>1, <1>7, <3>1, PutEffect, EmitPuts DEF Collect, Fire
    <2> QED BY <1>1, <1>7, <2>1, <2>2, PutEffect DEF EmitPoint, Does, Collect, Fire
  <1>8. ~DoDump /\ ~TimeOut
    BY <1>1, DumpEffect, TimeOutEffect, EmitCode, EmitWaits
  <1> QED BY <1>2, <1>3, <1>5, <1>6, <1>7, <1>8 DEF ProgramStep

\* A step of PrepareToEmit keeps what holds at each of its states.
LEMMA PrepareToEmitStep ==
    ASSUME Frame, ProgramStep, kind = "PrepareToEmit", PrepareToEmitPoint
    PROVE  PrepareToEmitPoint'
  <1> USE InsideProgram DEF MAX_BALLS
  <1>1. at \in 1..6 /\ balls \in 0..5
    BY Sizes DEF Frame, TypeOK
  <1>2. CASE DoBranch
    <2>1. \/ done'
          \/ at = 1 /\ balls = 0 /\ at' = 6
          \/ at = 1 /\ balls > 0 /\ at' = 2
          \/ at = 2 /\ Fire /\ at' = 6
          \/ at = 2 /\ ~Fire /\ at' = 3
      BY <1>1, <1>2, BranchEffect, PrepareToEmitBranches, PrepareToEmitJumps
        DEF Holds, Flags, Fire
    <2> QED BY <1>1, <1>2, <2>1, BranchEffect DEF PrepareToEmitPoint, Does, Fire
  <1>3. CASE DoWait \/ DoEdge \/ \E over \in BOOLEAN : DoDelay(over)
    <2>1. at = 4
      BY <1>1, <1>3, WaitEffect, PrepareToEmitCode
    <2> QED BY <1>1, <1>3, <2>1, WaitEffect DEF PrepareToEmitPoint, Does, Fire
  <1>4. CASE DoMotor \/ DoAssert
    <2>1. done' \/ (at = 3 /\ at' = 4) \/ (at = 6 /\ at' = 7)
      BY <1>1, <1>4, MotorEffect, PrepareToEmitCode
    <2> QED BY <1>1, <1>4, <2>1, MotorEffect DEF PrepareToEmitPoint, Does, Fire
  <1>5. CASE DoPut
    <2>1. at = 5 /\ flag'["stagedForFire"]
      BY <1>1, <1>5, PutEffect, PrepareToEmitPuts DEF Flags
    <2> QED BY <1>1, <1>5, <2>1, PutEffect DEF PrepareToEmitPoint, Does, Fire
  <1>6. ~DoDump /\ ~TimeOut /\ ~DoCount
    BY <1>1, DumpEffect, TimeOutEffect, CountEffect, PrepareToEmitCode
  <1> QED BY <1>2, <1>3, <1>4, <1>5, <1>6 DEF ProgramStep

\* A step of PrepareToReceive keeps what holds at each of its states.
LEMMA PrepareToReceiveStep ==
    ASSUME Frame, ProgramStep, kind = "PrepareToReceive", PrepareToReceivePoint
    PROVE  PrepareToReceivePoint'
  <1> USE InsideProgram DEF MAX_BALLS
  <1>1. at \in 1..10 /\ balls \in 0..5
    BY Sizes DEF Frame, TypeOK
  <1>2. CASE DoBranch
    <2>1. \/ done'
          \/ at = 1 /\ balls = 5 /\ at' = 10
          \/ at = 1 /\ balls < 5 /\ at' = 2
          \/ at = 2 /\ Collect /\ at' = 9
          \/ at = 2 /\ ~Collect /\ at' = 3
          \/ at = 3 /\ at' = 9
          \/ at = 3 /\ balls > 0 /\ at' = 4
      BY <1>1, <1>2, BranchEffect, PrepareToReceiveBranches, PrepareToReceiveJumps
        DEF Holds, Flags, Collect
    <2> QED BY <1>1, <1>2, <2>1, BranchEffect DEF PrepareToReceivePoint, Does, Collect, Fire
  <1>3. CASE DoWait \/ DoEdge \/ \E over \in BOOLEAN : DoDelay(over)
    <2>1. at \in {5, 7, 8}
      BY <1>1, <1>3, WaitEffect, PrepareToReceiveCode
    <2> QED BY <1>1, <1>3, <2>1, WaitEffect DEF PrepareToReceivePoint, Does, Collect, Fire
  <1>4. CASE DoMotor \/ DoAssert
    <2>1. done' \/ (at = 4 /\ at' = 5) \/ (at = 6 /\ at' = 7) \/ (at = 10 /\ at' = 11)
      BY <1>1, <1>4, MotorEffect, PrepareToReceiveCode
    <2> QED BY <1>1, <1>4, <2>1, MotorEffect DEF PrepareToReceivePoint, Does, Collect, Fire
  <1>5. CASE DoPut
    <2>1. at = 9 /\ flag'["stagedForCollect"] /\ ~flag'["stagedForFire"]
      BY <1>1, <1>5, PutEffect, PrepareToReceivePuts DEF Flags
    <2> QED BY <1>1, <1>5, <2>1, PutEffect DEF PrepareToReceivePoint, Does, Collect, Fire
  <1>6. ~DoDump /\ ~TimeOut /\ ~DoCount
    BY <1>1, DumpEffect, TimeOutEffect, CountEffect, PrepareToReceiveCode, PrepareToReceiveWaits
  <1> QED BY <1>2, <1>3, <1>4, <1>5, <1>6 DEF ProgramStep

\* A step of Eject keeps what holds at each of its states.
LEMMA EjectStep ==
    ASSUME Frame, ProgramStep, kind = "Eject", EjectPoint
    PROVE  EjectPoint'
  <1> USE InsideProgram DEF MAX_BALLS
  <1>1. at \in 1..4 /\ balls \in 0..5
    BY Sizes DEF Frame, TypeOK
  <1>2. CASE DoWait \/ DoEdge \/ \E over \in BOOLEAN : DoDelay(over)
    <2>1. at = 3
      BY <1>1, <1>2, WaitEffect, EjectCode
    <2> QED BY <1>1, <1>2, <2>1, WaitEffect DEF EjectPoint, Does, Collect, Fire
  <1>3. CASE DoMotor \/ DoAssert
    <2>1. done' \/ (at = 1 /\ at' = 2) \/ (at = 4 /\ at' = 5)
      BY <1>1, <1>3, MotorEffect, EjectCode
    <2> QED BY <1>1, <1>3, <2>1, MotorEffect DEF EjectPoint, Does, Collect, Fire
  <1>4. CASE DoDump
    BY <1>1, <1>4, DumpEffect DEF EjectPoint, Does, Collect, Fire
  <1>5. ~DoBranch /\ ~TimeOut /\ ~DoCount /\ ~DoPut
    BY <1>1, BranchEffect, TimeOutEffect, CountEffect, PutEffect, EjectCode
  <1> QED BY <1>2, <1>3, <1>4, <1>5 DEF ProgramStep
----------------------------------------------------------------------------
\* The invariant.
LEMMA InitIInv == Init => IInv
  <1> SUFFICES ASSUME Init PROVE IInv
    OBVIOUS
  <1>1. kind \notin DOMAIN Program /\ kind = "Stop" /\ loop = "control" /\ ~armed /\ ~done
    BY ProgramIs DEF Init
  <1>2. TypeOK
    <2>1. kind \in Kinds \cup {"none"} /\ {done, byDefault, armed, edgeReady, stop} \subseteq BOOLEAN
      BY DEF Init, Kinds
    <2>2. at \in 1..(IF kind \in DOMAIN Program THEN Size ELSE 1)
      BY <1>1 DEF Init
    <2>3. balls \in 0..MAX_BALLS /\ loop \in {"control", "run"}
      BY DEF Init, MAX_BALLS
    <2>4. flag \in [Flags -> BOOLEAN] /\ motors \in MotorStates /\ sensor \in [Sensors -> BOOLEAN]
      BY DEF Init, MotorStates
    <2> QED BY <2>1, <2>2, <2>3, <2>4 DEF TypeOK
  <1>3. StandsAtAWait /\ RunsAnAction /\ ClockHasAnOwner
    BY <1>1 DEF StandsAtAWait, RunsAnAction, ClockHasAnOwner
  <1>4. Points
    BY <1>1
      DEF Points, ReceivePoint, EmitPoint, PrepareToEmitPoint, PrepareToReceivePoint, EjectPoint, Does
  <1> QED BY <1>2, <1>3, <1>4 DEF IInv, Frame

\* A step of any program keeps the invariant.
LEMMA ProgramStepKeeps == ASSUME IInv, ProgramStep PROVE IInv'
  <1>1. Frame /\ Points /\ kind \in DOMAIN Program /\ kind' = kind
    BY InsideProgram DEF IInv
  <1>2. Frame'
    BY <1>1, StepFrame
  <1>3. ReceivePoint'
    BY <1>1, ReceiveStep DEF Points, ReceivePoint, Does
  <1>4. EmitPoint'
    BY <1>1, EmitStep DEF Points, EmitPoint, Does
  <1>5. PrepareToEmitPoint'
    BY <1>1, PrepareToEmitStep DEF Points, PrepareToEmitPoint, Does
  <1>6. PrepareToReceivePoint'
    BY <1>1, PrepareToReceiveStep DEF Points, PrepareToReceivePoint, Does
  <1>7. EjectPoint'
    BY <1>1, EjectStep DEF Points, EjectPoint, Does
  <1> QED BY <1>2, <1>3, <1>4, <1>5, <1>6, <1>7 DEF IInv, Points

\* An action that is started stands at its first state, of which nothing is said.
LEMMA StartKeeps ==
    ASSUME IInv, NEW k \in Kinds, NEW n \in 0..MAX_BALLS, Start(k, n), loop = "control",
           byDefault' \in BOOLEAN, sensor' \in [Sensors -> BOOLEAN], loop' = loop
    PROVE  IInv'
  <1>1. kind' = k /\ done' = FALSE /\ at' = 1 /\ armed' = FALSE /\ loop' = "control"
    BY DEF Start
  <1>2. at' \in 1..(IF kind' \in DOMAIN Program THEN Size' ELSE 1)
    <2>1. kind' \in DOMAIN Program => Size' \in {4, 6, 10, 16, 25}
      BY ProgramIs, ReceiveIs, EmitIs, PrepareToEmitIs, PrepareToReceiveIs, EjectIs DEF Size
    <2> QED BY <1>1, <2>1
  <1>3. TypeOK'
    <2>1. TypeOK
      BY DEF IInv, Frame
    <2>2. kind' \in Kinds \cup {"none"} /\ {done, byDefault, armed, edgeReady, stop}' \subseteq BOOLEAN
      BY <2>1 DEF TypeOK, Start
    <2>3. balls' \in 0..MAX_BALLS
      BY <2>1 DEF TypeOK, Start
    <2>4. flag' \in [Flags -> BOOLEAN]
      BY <2>1 DEF TypeOK, Start
    <2>5. motors' \in MotorStates
      BY <2>1 DEF TypeOK, Start, MotorStates
    <2> QED BY <1>1, <1>2, <2>2, <2>3, <2>4, <2>5 DEF TypeOK
  <1>4. (StandsAtAWait /\ RunsAnAction /\ ClockHasAnOwner)'
    <2>1. StandsAtAWait'
      BY <1>1 DEF StandsAtAWait
    <2>2. RunsAnAction'
      BY <1>1 DEF RunsAnAction
    <2>3. ClockHasAnOwner'
      BY <1>1 DEF ClockHasAnOwner
    <2> QED BY <2>1, <2>2, <2>3
  <1>5. Points'
    BY <1>1
      DEF Points, ReceivePoint, EmitPoint, PrepareToEmitPoint, PrepareToReceivePoint, EjectPoint, Does
  <1> QED BY <1>3, <1>4, <1>5 DEF IInv, Frame

\* A new action keeps the invariant.
LEMMA SetActionKeeps ==
    ASSUME IInv, NEW k \in Kinds, NEW n \in 0..MAX_BALLS, SetAction(k, n)
    PROVE  IInv'
  <1>1. byDefault' \in BOOLEAN /\ sensor' \in [Sensors -> BOOLEAN] /\ loop' = loop
    BY DEF SetAction, IInv, Frame, TypeOK
  <1> QED BY <1>1, StartKeeps DEF SetAction

\* The start of a loop keeps the invariant.
LEMMA BeginRunKeeps ==
    ASSUME IInv, NEW s \in [Sensors -> BOOLEAN], BeginRun(s)
    PROVE  IInv'
  <1>1. CASE Working
    <2>1. /\ loop' = "run" /\ sensor' = s
          /\ UNCHANGED <<kind, done, byDefault, at, armed, edgeReady, stop, balls, flag, motors>>
      BY <1>1 DEF BeginRun
    <2>2. TypeOK'
      BY <2>1 DEF IInv, Frame, TypeOK, Size
    <2>3. (StandsAtAWait /\ RunsAnAction /\ ClockHasAnOwner)'
      BY <1>1, <2>1 DEF IInv, Frame, StandsAtAWait, RunsAnAction, ClockHasAnOwner, Working, Here
    <2>4. Points'
      BY <2>1
        DEF IInv, Points, ReceivePoint, EmitPoint, PrepareToEmitPoint, PrepareToReceivePoint,
                  EjectPoint, Does, Collect, Fire
    <2> QED BY <2>2, <2>3, <2>4 DEF IInv, Frame
  <1>2. CASE ~Working
    <2>1. Start("Stop", 0) /\ byDefault' = TRUE /\ sensor' = s /\ loop' = loop /\ loop = "control"
      BY <1>2 DEF BeginRun
    <2>2. "Stop" \in Kinds /\ 0 \in 0..MAX_BALLS
      BY DEF Kinds, MAX_BALLS
    <2> QED BY <2>1, <2>2, StartKeeps
  <1> QED BY <1>1, <1>2

\* The rest touches no program that goes on.
LEMMA OthersKeep ==
    ASSUME IInv, RunPlain \/ CancelAction \/ StopFiring \/ CancelEmitObject
    PROVE  IInv'
  <1>1. CASE RunPlain
    <2>1. kind \notin DOMAIN Program /\ kind' = kind /\ at' = at /\ loop' = "control" /\ armed' = armed
      BY <1>1, ProgramIs DEF RunPlain
    <2>2. TypeOK'
      BY <1>1, <2>1 DEF RunPlain, IInv, Frame, TypeOK, MotorStates
    <2>3. (StandsAtAWait /\ RunsAnAction /\ ClockHasAnOwner)'
      BY <2>1 DEF IInv, Frame, StandsAtAWait, RunsAnAction, ClockHasAnOwner
    <2>4. Points'
      BY <2>1, ProgramIs DEF Points, ReceivePoint, EmitPoint, PrepareToEmitPoint,
                             PrepareToReceivePoint, EjectPoint, Does
    <2> QED BY <2>2, <2>3, <2>4 DEF IInv, Frame
  <1>2. CASE CancelAction
    <2>1. /\ kind' = "none" /\ kind' \notin DOMAIN Program
          /\ at' = 1 /\ done' = TRUE /\ ~armed' /\ loop' = "control"
      BY <1>2, ProgramIs DEF CancelAction
    <2>2. TypeOK'
      <3>1. at' \in 1..(IF kind' \in DOMAIN Program THEN Size' ELSE 1)
        BY <2>1
      <3>2. armed' = FALSE /\ edgeReady' = FALSE
              /\ UNCHANGED <<byDefault, stop, balls, flag, motors, sensor, loop>>
        BY <1>2 DEF CancelAction
      <3> QED BY <2>1, <3>1, <3>2 DEF IInv, Frame, TypeOK
    <2>3. (StandsAtAWait /\ RunsAnAction /\ ClockHasAnOwner)'
      BY <2>1 DEF StandsAtAWait, RunsAnAction, ClockHasAnOwner
    <2>4. Points'
      BY <2>1 DEF Points, ReceivePoint, EmitPoint, PrepareToEmitPoint, PrepareToReceivePoint,
                  EjectPoint, Does
    <2> QED BY <2>2, <2>3, <2>4 DEF IInv, Frame
  <1>3. CASE StopFiring
    <2>1. /\ stop' = TRUE /\ kind = "Emit" /\ loop' = "control"
          /\ UNCHANGED <<kind, done, byDefault, at, armed, edgeReady, balls, flag, motors, sensor, loop>>
      BY <1>3 DEF StopFiring
    <2>2. TypeOK'
      BY <2>1 DEF IInv, Frame, TypeOK, Size
    <2>3. (StandsAtAWait /\ RunsAnAction /\ ClockHasAnOwner)'
      BY <2>1 DEF IInv, Frame, StandsAtAWait, RunsAnAction, ClockHasAnOwner, Here
    <2>4. Points'
      BY <2>1
        DEF IInv, Points, ReceivePoint, EmitPoint, PrepareToEmitPoint, PrepareToReceivePoint,
                  EjectPoint, Does, Collect, Fire
    <2> QED BY <2>2, <2>3, <2>4 DEF IInv, Frame
  <1>4. CASE CancelEmitObject
    <2>1. /\ done' = TRUE /\ loop' = "control"
          /\ UNCHANGED <<kind, byDefault, at, armed, edgeReady, stop, balls, flag, motors, sensor, loop>>
      BY <1>4 DEF CancelEmitObject
    <2>2. TypeOK'
      BY <2>1 DEF IInv, Frame, TypeOK, Size
    <2>3. (StandsAtAWait /\ RunsAnAction /\ ClockHasAnOwner)'
      BY <2>1 DEF IInv, Frame, StandsAtAWait, RunsAnAction, ClockHasAnOwner, Here
    <2>4. Points'
      BY <2>1 DEF Points, ReceivePoint, EmitPoint, PrepareToEmitPoint, PrepareToReceivePoint,
                  EjectPoint, Does
    <2> QED BY <2>2, <2>3, <2>4 DEF IInv, Frame
  <1> QED BY <1>1, <1>2, <1>3, <1>4

\* Every step is one of a program, the start of a loop, a new action, a plain
\* action or a call.
LEMMA Steps ==
    ASSUME Next
    PROVE  \/ ProgramStep
           \/ \E s \in [Sensors -> BOOLEAN] : BeginRun(s)
           \/ \E k \in Kinds, n \in 0..MAX_BALLS : SetAction(k, n)
           \/ RunPlain \/ CancelAction \/ StopFiring \/ CancelEmitObject
  <1>1. Tick => ProgramStep \/ RunPlain \/ \E s \in [Sensors -> BOOLEAN] : BeginRun(s)
    BY DEF Tick, ProgramStep
  <1>2. 0 \in 0..MAX_BALLS /\ "SetBalls" \in Kinds
    BY DEF MAX_BALLS, Kinds
  <1>3. Calls => \/ \E k \in Kinds, n \in 0..MAX_BALLS : SetAction(k, n)
                 \/ CancelAction \/ StopFiring \/ CancelEmitObject
    BY <1>2, PresetAssumption DEF Calls
  <1> QED BY <1>1, <1>3 DEF Next

\* The invariant is inductive.
LEMMA StepIInv == IInv /\ [Next]_vars => IInv'
  <1> SUFFICES ASSUME IInv, [Next]_vars PROVE IInv'
    OBVIOUS
  <1>1. CASE Next
    BY <1>1, Steps, ProgramStepKeeps, BeginRunKeeps, SetActionKeeps, OthersKeep
  <1>2. CASE UNCHANGED vars
    <2>1. TypeOK'
      BY <1>2 DEF IInv, Frame, TypeOK, Size, vars
    <2>2. (StandsAtAWait /\ RunsAnAction /\ ClockHasAnOwner)'
      BY <1>2 DEF IInv, Frame, StandsAtAWait, RunsAnAction, ClockHasAnOwner, Here, Working, vars
    <2>3. Points'
      BY <1>2
        DEF IInv, Points, ReceivePoint, EmitPoint, PrepareToEmitPoint, PrepareToReceivePoint,
                  EjectPoint, Does, Collect, Fire, vars
    <2> QED BY <2>1, <2>2, <2>3 DEF IInv, Frame
  <1> QED BY <1>1, <1>2

\* What is said of the states of the programs holds in every state of Conveyor,
\* whoever starts, cancels, stops and replaces actions between two loops.
THEOREM Invariance == Spec => []IInv
  BY InitIInv, StepIInv, PTL DEF Spec
----------------------------------------------------------------------------
\* The variables of the conveyor keep their types; no index leaves its program
\* (ConveyorStateAction.cpp:233-268).
THEOREM TypeCorrect == Spec => []TypeOK
  <1>1. IInv => TypeOK
    BY DEF IInv, Frame
  <1> QED BY <1>1, Invariance, PTL

\* Where a ball is counted, and what holds there.
LEMMA AtACount ==
    ASSUME IInv, Running("increment") \/ Running("decrement")
    PROVE  \/ kind = "Receive" /\ ~done /\ Here.op = "increment" /\ at \in {12, 19}
           \/ kind = "Emit" /\ ~done /\ Here.op = "decrement" /\ at \in {8, 13}
  <1>1. kind \in DOMAIN Program /\ ~done /\ Here.op \in {"increment", "decrement"}
    BY DEF Running
  <1>2. at \in 1..Size
    BY <1>1 DEF IInv, Frame, TypeOK
  <1>3. CASE kind = "Receive"
    BY <1>1, <1>2, <1>3, Sizes, ReceiveCode
  <1>4. CASE kind = "Emit"
    BY <1>1, <1>2, <1>4, Sizes, EmitCode
  <1>5. CASE kind = "PrepareToEmit"
    BY <1>1, <1>2, <1>5, Sizes, PrepareToEmitCode
  <1>6. CASE kind = "PrepareToReceive"
    BY <1>1, <1>2, <1>6, Sizes, PrepareToReceiveCode
  <1>7. CASE kind = "Eject"
    BY <1>1, <1>2, <1>7, Sizes, EjectCode
  <1> QED BY <1>1, <1>3, <1>4, <1>5, <1>6, <1>7, ProgramIs

\* A ball is only counted in where there is room and out where there is one, in
\* programs that test this loops before they count (ConveyorReceiveAction.cpp:26,
\* :45, ConveyorEmitAction.cpp:17, :33, ConveyorStateAction.cpp:129-155).
THEOREM CountsInBounds == Spec => []CountsFit
  <1>1. ASSUME IInv, Running("increment") PROVE balls < MAX_BALLS
    <2>1. kind = "Receive" /\ ~done /\ at \in {12, 19}
      BY <1>1, AtACount DEF Running
    <2>2. balls \in Nat /\ (balls < 4 \/ balls = 4)
      BY <1>1, <2>1 DEF IInv, Frame, TypeOK, Points, ReceivePoint, Does, FifthBall, MAX_BALLS
    <2> QED BY <2>2 DEF MAX_BALLS
  <1>2. ASSUME IInv, Running("decrement") PROVE balls > 0
    BY <1>2, AtACount DEF IInv, Points, EmitPoint, Does, Running
  <1>3. IInv => CountsFit
    BY <1>1, <1>2 DEF CountsFit
  <1> QED BY <1>3, Invariance, PTL

\* The staging an assertState tested still holds when the count changes.
THEOREM CountedStaged == Spec => []CountedWhileStaged
  <1>1. ASSUME IInv, Running("increment") PROVE flag["stagedForCollect"]
    BY <1>1, AtACount DEF IInv, Points, ReceivePoint, Does, Collect, Running
  <1>2. ASSUME IInv, Running("decrement") PROVE flag["stagedForFire"]
    BY <1>2, AtACount DEF IInv, Points, EmitPoint, Does, Fire, Running
  <1>3. IInv => CountedWhileStaged
    BY <1>1, <1>2 DEF CountedWhileStaged
  <1> QED BY <1>3, Invariance, PTL

\* The clock all waits of an action share is stopped before another state is
\* entered, whichever way the program goes on (ConveyorStateAction.cpp:79-108, :160-174).
THEOREM ClockFresh == Spec => ClockIsFresh
  <1>1. ASSUME IInv, [Next]_vars, at' # at PROVE ~armed'
    <2>1. Frame
      BY <1>1 DEF IInv
    <2>2. ProgramStep => ~armed'
      BY <1>1, <2>1, ClockStops
    <2>3. ASSUME NEW s \in [Sensors -> BOOLEAN], BeginRun(s) PROVE ~armed'
      BY <1>1, <2>3 DEF BeginRun, Start
    <2>4. ASSUME NEW k \in Kinds, NEW n \in 0..MAX_BALLS, SetAction(k, n) PROVE ~armed'
      BY <2>4 DEF SetAction, Start
    <2>5. RunPlain \/ CancelAction \/ StopFiring \/ CancelEmitObject => ~armed'
      BY <1>1 DEF RunPlain, CancelAction, StopFiring, CancelEmitObject
    <2>6. Next
      BY <1>1 DEF vars
    <2> QED BY <2>2, <2>3, <2>4, <2>5, <2>6, Steps
  <1>2. IInv /\ [Next]_vars => [at' # at => ~armed']_vars
    BY <1>1
  <1> QED BY <1>2, Invariance, PTL DEF Spec, ClockIsFresh

\* Every way a program ends stops the belts: the last state of each list, and
\* assertState (ConveyorStateAction.cpp:176-190).
THEOREM EndsAtRest == Spec => EndsStopped
  <1>1. ASSUME IInv, [Next]_vars, done', ~done, loop = "run", kind # "SetBalls"
        PROVE  motors' = "Stopped"
    <2>1. Frame
      BY <1>1 DEF IInv
    <2>2. ASSUME ProgramStep PROVE motors' = "Stopped"
      <3>1. at = Size => Here.op = "motor" /\ Here.arg = "Stopped"
        BY <2>1, <2>2, InsideProgram DEF Fits
      <3>2. Next1 => at = Size
        BY <1>1 DEF Next1
      <3>3. Next1 => DoMotor /\ motors' = "Stopped"
        BY <2>2, <3>1, <3>2 DEF ProgramStep, DoBranch, DoWait, TimeOut, DoEdge, DoCount, DoDump,
           DoMotor, DoPut, DoAssert, DoDelay, Running
      <3>4. Next1 \/ motors' = "Stopped"
        BY <1>1, <2>2 DEF ProgramStep, DoBranch, DoWait, TimeOut, DoEdge, DoCount, DoDump,
           DoMotor, DoPut, DoAssert, DoDelay, Jump, Continue
      <3> QED BY <3>3, <3>4
    <2>3. ~RunPlain
      BY <1>1 DEF RunPlain
    <2>4. ~\E s \in [Sensors -> BOOLEAN] : BeginRun(s)
      BY <1>1 DEF BeginRun
    <2>5. ~\E k \in Kinds, n \in 0..MAX_BALLS : SetAction(k, n)
      BY <1>1 DEF SetAction
    <2>6. ~CancelAction /\ ~StopFiring /\ ~CancelEmitObject
      BY <1>1 DEF CancelAction, StopFiring, CancelEmitObject
    <2>7. Next
      BY <1>1 DEF vars
    <2> QED BY <2>2, <2>3, <2>4, <2>5, <2>6, <2>7, Steps
  <1>2. IInv /\ [Next]_vars
          => [done' /\ ~done /\ loop = "run" /\ kind # "SetBalls" => motors' = "Stopped"]_vars
    BY <1>1
  <1> QED BY <1>2, Invariance, PTL DEF Spec, EndsStopped

\* A step leaves the staged ball held.
LEMMA HeldStep ==
    ASSUME IInv, StagedBallHeld, [Next]_vars
    PROVE  StagedBallHeld'
  <1>1. Frame
    BY DEF IInv
  <1>2. ASSUME ProgramStep, kind' = "Receive", Working', loop' = "control", flag'["stagedForFire"]
        PROVE  motors' # "MoveTowardsShooter"
    <2>1. kind = "Receive" /\ loop = "run" /\ ~done'
      BY <1>1, <1>2, InsideProgram DEF Working
    <2>2. Next1 => FALSE
      BY <1>2, <2>1 DEF Next1
    <2>3. Jump(Here.to) => FALSE
      BY <1>2, <2>1 DEF Jump
    <2>4. ReceiveRun
      BY <1>2, <2>1, <2>2, <2>3
        DEF ProgramStep, DoBranch, DoWait, TimeOut, DoEdge, DoCount, DoDump,
           DoMotor, DoPut, DoAssert, DoDelay, Continue
    <2> QED BY <1>1, <1>2, <2>4 DEF ReceiveRun, Frame, TypeOK, Flags
  <1>3. ASSUME NEW k \in Kinds, NEW n \in 0..MAX_BALLS, Start(k, n) PROVE StagedBallHeld'
    BY <1>3 DEF Start, StagedBallHeld
  <1>4. ASSUME NEW s \in [Sensors -> BOOLEAN], BeginRun(s) PROVE StagedBallHeld'
    <2>1. "Stop" \in Kinds /\ 0 \in 0..MAX_BALLS
      BY DEF Kinds, MAX_BALLS
    <2> QED BY <1>3, <1>4, <2>1 DEF BeginRun, StagedBallHeld
  <1>5. ASSUME NEW k \in Kinds, NEW n \in 0..MAX_BALLS, SetAction(k, n) PROVE StagedBallHeld'
    BY <1>3, <1>5 DEF SetAction
  <1>6. RunPlain \/ CancelAction \/ StopFiring \/ CancelEmitObject => StagedBallHeld'
    BY DEF RunPlain, CancelAction, StopFiring, CancelEmitObject, StagedBallHeld
  <1>7. UNCHANGED vars => StagedBallHeld'
    BY DEF vars, StagedBallHeld, Working
  <1>8. ProgramStep => StagedBallHeld'
    BY <1>2 DEF StagedBallHeld
  <1> QED BY <1>4, <1>5, <1>6, <1>7, <1>8, Steps

\* The shooter end stands still while a collect goes on with a ball staged for
\* firing (ConveyorReceiveAction.cpp:136-164).
THEOREM StagedBallIsHeld == Spec => []StagedBallHeld
  <1>1. Init => StagedBallHeld
    BY DEF Init, StagedBallHeld
  <1> QED BY <1>1, HeldStep, Invariance, PTL DEF Spec

\* Where a program waits with the belts moving, and for what.
LEMMA AtAWait ==
    ASSUME IInv, loop = "control", Working, at > 1
    PROVE  \/ kind = "Receive" /\ at \in {5, 7, 10, 11, 13, 15, 16, 18}
           \/ kind = "Emit" /\ at \in {5, 7, 11, 12}
           \/ kind = "PrepareToEmit" /\ at = 4
           \/ kind = "PrepareToReceive" /\ at \in {5, 7, 8}
           \/ kind = "Eject" /\ at = 3
  <1>1. kind \in DOMAIN Program
    BY DEF IInv, Frame, TypeOK
  <1>2. Here.op \in {"wait", "delay", "edge"}
    BY <1>1 DEF IInv, Frame, StandsAtAWait, Working
  <1>3. at \in 1..Size
    BY <1>1 DEF IInv, Frame, TypeOK
  <1>4. CASE kind = "Receive"
    BY <1>2, <1>3, <1>4, Sizes, ReceiveCode
  <1>5. CASE kind = "Emit"
    BY <1>2, <1>3, <1>5, Sizes, EmitCode
  <1>6. CASE kind = "PrepareToEmit"
    BY <1>2, <1>3, <1>6, Sizes, PrepareToEmitCode
  <1>7. CASE kind = "PrepareToReceive"
    BY <1>2, <1>3, <1>7, Sizes, PrepareToReceiveCode
  <1>8. CASE kind = "Eject"
    BY <1>2, <1>3, <1>8, Sizes, EjectCode
  <1> QED BY <1>1, <1>4, <1>5, <1>6, <1>7, <1>8, ProgramIs

\* An action that has run and still works has not got what ends it: the tests at
\* the head of each program come before its first wait.
THEOREM WaitsForSomething == Spec => []NeverWaitsInVain
  <1>1. ASSUME IInv, loop = "control", Working, at > 1 PROVE ~Ledger!Overdue(kind)
    <2>1. ~done /\ Points
      BY <1>1 DEF Working, IInv
    <2>2. balls \in 0..5
      BY <1>1 DEF IInv, Frame, TypeOK, MAX_BALLS
    <2>3. CASE kind = "Receive"
      <3>1. at \in {5, 7, 10, 11, 13, 15, 16, 18}
        BY <1>1, <2>3, AtAWait
      <3>2. balls < 5
        BY <2>1, <2>2, <2>3, <3>1 DEF Points, ReceivePoint, Does, MAX_BALLS, FifthBall
      <3> QED BY <2>2, <2>3, <3>2 DEF Ledger!Overdue, Ledger!Full, MAX_BALLS
    <2>4. CASE kind = "Emit"
      <3>1. at \in {5, 7, 11, 12}
        BY <1>1, <2>4, AtAWait
      <3>2. balls > 0
        BY <2>1, <2>2, <2>4, <3>1 DEF Points, EmitPoint, Does
      <3> QED BY <2>4, <3>2 DEF Ledger!Overdue, Ledger!Empty
    <2>5. CASE kind = "PrepareToEmit"
      <3>1. balls > 0 /\ ~Fire
        BY <1>1, <2>1, <2>5, AtAWait DEF Points, PrepareToEmitPoint, Does
      <3> QED BY <2>5, <3>1 DEF Ledger!Overdue, Ledger!Empty, Staged, Fire
    <2>6. CASE kind = "PrepareToReceive"
      <3>1. at \in {5, 7, 8}
        BY <1>1, <2>6, AtAWait
      <3>2. balls > 0 /\ balls < 5 /\ ~Collect
        BY <2>1, <2>2, <2>6, <3>1 DEF Points, PrepareToReceivePoint, Does, MAX_BALLS
      <3> QED BY <2>2, <2>6, <3>2 DEF Ledger!Overdue, Ledger!Empty, Ledger!Full, Staged, Collect, MAX_BALLS
    <2>7. CASE kind = "Eject"
      <3>1. balls = 0 /\ ~Collect /\ ~Fire /\ ~flag["collecting"]
        BY <1>1, <2>1, <2>7, AtAWait DEF Points, EjectPoint, Does
      <3> QED BY <2>7, <3>1 DEF Ledger!Overdue, Ledger!Empty, Staged, Collect, Fire
    <2> QED BY <1>1, <2>3, <2>4, <2>5, <2>6, <2>7, AtAWait
  <1>2. IInv => NeverWaitsInVain
    BY <1>1 DEF NeverWaitsInVain
  <1> QED BY <1>2, Invariance, PTL
----------------------------------------------------------------------------
\* A program ends with its last state or with a failed assert.
LEMMA Ending ==
    ASSUME Frame, ProgramStep, done'
    PROVE  \/ DoMotor /\ at = Size
           \/ DoAssert /\ ~Holds(Here.arg)
  <1>1. ~done /\ (at = Size => Here.op = "motor")
    BY InsideProgram DEF Fits
  <1>2. Next1 => at = Size
    BY <1>1 DEF Next1
  <1>3. Next1 => Here.op = "motor"
    BY <1>1, <1>2
  <1>4. Next1 => DoMotor /\ at = Size
    BY <1>2, <1>3 DEF ProgramStep, DoBranch, DoWait, TimeOut, DoEdge, DoCount, DoDump,
       DoMotor, DoPut, DoAssert, DoDelay, Running
  <1>5. Next1 \/ (DoAssert /\ ~Holds(Here.arg))
    BY <1>1 DEF ProgramStep, DoBranch, DoWait, TimeOut, DoEdge, DoCount, DoDump,
       DoMotor, DoPut, DoAssert, DoDelay, Jump, Continue
  <1> QED BY <1>4, <1>5

\* What a program has achieved when it ends.
LEMMA Achievement ==
    ASSUME IInv, ProgramStep, done'
    PROVE  Ledger!Achieved(kind)
  <1>1. Frame /\ Points /\ ~done /\ kind \in DOMAIN Program /\ at \in 1..Size
    BY InsideProgram DEF IInv
  <1>2. (DoMotor /\ at = Size) \/ (DoAssert /\ Here.op = "assert" /\ ~Holds(Here.arg))
    BY <1>1, Ending DEF DoAssert, Running
  <1>3. CASE kind = "Receive"
    <2>1. at = 25 \/ (at = 4 /\ ~Collect)
      BY <1>1, <1>2, <1>3, Sizes, ReceiveAsserts DEF Holds, Flags, Collect
    <2>2. ~flag["collecting"] /\ (balls = MAX_BALLS \/ ~Collect)
      BY <1>1, <1>3, <2>1 DEF Points, ReceivePoint, Does
    <2> QED BY <1>3, <2>2 DEF Ledger!Achieved, Ledger!Full, Staged, Collect
  <1>4. CASE kind = "Emit"
    <2>1. at = 16 \/ ~Fire
      BY <1>1, <1>2, <1>4, Sizes, EmitAsserts DEF Holds, Flags, Fire
    <2>2. balls = 0 \/ stop \/ ~Fire
      BY <1>1, <1>4, <2>1 DEF Points, EmitPoint, Does
    <2> QED BY <1>4, <2>2 DEF Ledger!Achieved, Ledger!Empty, Staged, Fire
  <1>5. CASE kind = "PrepareToEmit"
    <2>1. at = 6
      BY <1>1, <1>2, <1>5, Sizes, PrepareToEmitCode
    <2>2. balls = 0 \/ Fire
      BY <1>1, <1>5, <2>1 DEF Points, PrepareToEmitPoint, Does
    <2> QED BY <1>5, <2>2 DEF Ledger!Achieved, Ledger!Empty, Staged, Fire
  <1>6. CASE kind = "PrepareToReceive"
    <2>1. at = 10
      BY <1>1, <1>2, <1>6, Sizes, PrepareToReceiveCode
    <2>2. balls = MAX_BALLS \/ (Collect /\ ~Fire)
      BY <1>1, <1>6, <2>1 DEF Points, PrepareToReceivePoint, Does
    <2> QED BY <1>6, <2>2 DEF Ledger!Achieved, Ledger!Full, Staged, Collect, Fire
  <1>7. CASE kind = "Eject"
    <2>1. at = 4
      BY <1>1, <1>2, <1>7, Sizes, EjectCode
    <2>2. balls = 0 /\ ~Collect /\ ~Fire /\ ~flag["collecting"]
      BY <1>1, <1>7, <2>1 DEF Points, EjectPoint, Does
    <2> QED BY <1>7, <2>2 DEF Ledger!Achieved, Ledger!Empty, Staged, Collect, Fire
  <1> QED BY <1>1, <1>3, <1>4, <1>5, <1>6, <1>7, ProgramIs

\* The steps of the programs as the ledger sees them.
LedgerStep == Ledger!LedgerNext \/ UNCHANGED <<balls, Staged, flag["collecting"], Job, stop>>

\* A step that changes nothing of the ledger is a stutter of it.
LEMMA Unseen ==
    ASSUME balls' = balls, stop' = stop, Job' = Job,
           \A f \in {"collecting", "stagedForCollect", "stagedForFire"} : flag'[f] = flag[f]
    PROVE  LedgerStep
  BY DEF LedgerStep, Staged

\* A step of a program is a step of the ledger or a stutter.
LEMMA ProgramStepRefines ==
    ASSUME IInv, ProgramStep
    PROVE  LedgerStep
  <1>1. /\ Frame /\ Points /\ ~done /\ kind \in DOMAIN Program /\ kind # "none" /\ at \in 1..Size
        /\ Job = kind /\ kind' = kind /\ balls \in 0..5
    BY InsideProgram, ProgramIs DEF IInv, Job, Working, Frame, TypeOK, MAX_BALLS
  <1>2. CASE done'
    <2>1. flag' = flag /\ balls' = balls /\ stop' = stop
      BY <1>1, <1>2, Ending, MotorEffect
    <2>2. Job' = "none"
      BY <1>2 DEF Job, Working
    <2>3. Ledger!Achieved(Job)
      BY <1>1, <1>2, Achievement
    <2>4. Staged' = Staged
      BY <2>1 DEF Staged
    <2>5. Ledger!Finish
      BY <1>1, <2>1, <2>2, <2>3, <2>4 DEF Ledger!Finish
    <2> QED BY <2>5 DEF LedgerStep, Ledger!LedgerNext, Ledger!Internal
  <1>3. CASE ~done'
    <2> USE <1>1, <1>3
    <2>1. Job' = kind
      BY DEF Job, Working
    <2>2. DoBranch \/ TimeOut \/ DoMotor \/ DoAssert => LedgerStep
      BY <2>1, BranchEffect, TimeOutEffect, MotorEffect, Unseen
    <2>3. ASSUME DoWait \/ DoEdge \/ \E over \in BOOLEAN : DoDelay(over) PROVE LedgerStep
      <3>1. CASE flag' = flag
        BY <2>1, <2>3, <3>1, WaitEffect, Unseen
      <3>2. CASE flag' # flag
        <4>1. kind = "Receive" /\ (Fire => flag'["stagedForFire"])
          BY <2>3, <3>2, WaitEffect
        <4>2. balls' = balls /\ stop' = stop
              /\ \A f \in {"collecting", "stagedForCollect"} : flag'[f] = flag[f]
          BY <2>3, WaitEffect
        <4>3. CASE flag'["stagedForFire"]
          <5>1. Staged' = Staged \cup {"fire"}
            BY <4>2, <4>3 DEF Staged
          <5>2. Ledger!ReachShooter
            BY <2>1, <4>1, <4>2, <5>1 DEF Ledger!ReachShooter
          <5> QED BY <5>2 DEF LedgerStep, Ledger!LedgerNext, Ledger!Internal
        <4>4. CASE ~flag'["stagedForFire"]
          <5>1. Staged' = Staged
            BY <4>1, <4>2, <4>4 DEF Staged, Fire
          <5> QED BY <2>1, <4>2, <5>1 DEF LedgerStep
        <4> QED BY <4>3, <4>4
      <3> QED BY <3>1, <3>2
    <2>4. ASSUME DoCount PROVE LedgerStep
      <3>1. flag' = flag /\ stop' = stop /\ Staged' = Staged
        BY <2>4, CountEffect DEF MAX_BALLS, Staged
      <3>2. \/ kind = "Receive" /\ Here.op = "increment" /\ at \in {12, 19}
            \/ kind = "Emit" /\ Here.op = "decrement" /\ at \in {8, 13}
        BY <2>4, AtACount DEF DoCount
      <3>3. CASE kind = "Receive"
        <4>1. Collect /\ flag["collecting"] /\ balls < 5
          BY <3>2, <3>3 DEF Points, ReceivePoint, Does, MAX_BALLS, FifthBall
        <4>2. balls' = balls + 1
          BY <2>4, <3>2, <3>3, <4>1, CountEffect DEF MAX_BALLS
        <4>3. Ledger!CollectBall
          BY <2>1, <3>1, <3>3, <4>1, <4>2
            DEF Ledger!CollectBall, Ledger!Full, Staged, Collect, MAX_BALLS
        <4> QED BY <4>3 DEF LedgerStep, Ledger!LedgerNext, Ledger!Internal
      <3>4. CASE kind = "Emit"
        <4>1. Fire /\ ~Collect /\ balls > 0
          BY <3>2, <3>4 DEF Points, EmitPoint, Does
        <4>2. balls' = balls - 1
          BY <2>4, <3>2, <3>4, <4>1, CountEffect DEF MAX_BALLS
        <4>3. Ledger!FireBall
          BY <2>1, <3>1, <3>4, <4>1, <4>2
            DEF Ledger!FireBall, Ledger!Empty, Staged, Collect, Fire
        <4> QED BY <4>3 DEF LedgerStep, Ledger!LedgerNext, Ledger!Internal
      <3> QED BY <3>2, <3>3, <3>4
    <2>5. ASSUME DoPut PROVE LedgerStep
      <3>1. balls' = balls /\ stop' = stop /\ Here.op = "put"
        BY <2>5, PutEffect
      <3>2. \A f \in {"collecting", "stagedForCollect", "stagedForFire"} :
                flag'[f] <=> (f \in Here.arg \/ flag[f]) /\ f \notin Here.value
        BY <2>5, PutEffect DEF Flags
      <3>3. \A f \in {"collecting", "stagedForCollect", "stagedForFire"} :
                flag[f] \in BOOLEAN /\ flag'[f] \in BOOLEAN
        BY StepTyped DEF Frame, TypeOK, Flags
      <3>4. CASE kind = "Receive"
        <4>1. at \in 1..25
          BY <3>4, Sizes
        <4>2. \/ at \in {1, 8, 17, 24} /\ (flag'["collecting"] <=> flag["collecting"])
              \/ at \in {2, 20, 22} /\ ~flag'["collecting"]
              \/ at = 6 /\ flag'["collecting"]
          BY <3>1, <3>2, <3>4, <4>1, ReceivePuts
        <4>3. (flag'["stagedForCollect"] <=> Collect) /\ (flag'["stagedForFire"] <=> Fire)
          BY <3>1, <3>2, <3>4, <4>1, ReceivePuts DEF Collect, Fire
        <4>4. Staged' = Staged
          BY <4>3 DEF Staged, Collect, Fire
        <4>5. CASE flag'["collecting"] <=> flag["collecting"]
          BY <2>1, <3>1, <3>3, <4>4, <4>5 DEF LedgerStep
        <4>6. CASE ~flag'["collecting"]
          <5>1. Ledger!LoseBall
            BY <2>1, <3>1, <3>3, <3>4, <4>4, <4>6 DEF Ledger!LoseBall
          <5> QED BY <5>1 DEF LedgerStep, Ledger!LedgerNext, Ledger!Internal
        <4>7. CASE at = 6 /\ flag'["collecting"]
          <5>1. Collect /\ balls < 5
            BY <3>4, <4>7 DEF Points, ReceivePoint, Does, MAX_BALLS
          <5>2. Ledger!SeeBall
            BY <2>1, <3>1, <3>3, <3>4, <4>4, <4>7, <5>1
               DEF Ledger!SeeBall, Ledger!Full, Staged, Collect, MAX_BALLS
          <5> QED BY <5>2 DEF LedgerStep, Ledger!LedgerNext, Ledger!Internal
        <4> QED BY <4>2, <4>5, <4>6, <4>7
      <3>5. CASE kind = "Emit"
        <4>1. at \in 1..16
          BY <3>5, Sizes
        <4>2. \/ at = 4 /\ Here.arg = {} /\ Here.value = {"stagedForCollect", "collecting"}
              \/ at = 9 /\ Here.arg = {} /\ Here.value = {"stagedForFire"}
          BY <3>1, <3>5, <4>1, EmitPuts
        <4>3. CASE at = 4
          <5>1. ~flag'["stagedForCollect"] /\ ~flag'["collecting"] /\ flag'["stagedForFire"] /\ Fire
            BY <3>2, <3>5, <4>2, <4>3 DEF Points, EmitPoint, Does, Fire
          <5>2. Staged' = Staged \ {"collect"}
            BY <5>1 DEF Staged, Fire
          <5>3. Ledger!BeginFiring
            BY <2>1, <3>1, <3>3, <3>5, <5>1, <5>2 DEF Ledger!BeginFiring, Staged, Fire
          <5> QED BY <5>3 DEF LedgerStep, Ledger!LedgerNext, Ledger!Internal
        <4>4. CASE at = 9
          <5>1. /\ balls = 0 /\ ~flag'["stagedForFire"] /\ (flag'["collecting"] <=> flag["collecting"])
                /\ ~Collect /\ ~flag'["stagedForCollect"]
            BY <3>2, <3>5, <4>2, <4>4 DEF Points, EmitPoint, Does, Collect
          <5>2. Staged' = Staged \ {"fire"}
            BY <5>1 DEF Staged, Collect
          <5>3. Ledger!FiredLast
            BY <2>1, <3>1, <3>3, <3>5, <5>1, <5>2 DEF Ledger!FiredLast, Ledger!Empty
          <5> QED BY <5>3 DEF LedgerStep, Ledger!LedgerNext, Ledger!Internal
        <4> QED BY <4>2, <4>3, <4>4
      <3>6. CASE kind = "PrepareToEmit"
        <4>1. at \in 1..6
          BY <3>6, Sizes
        <4>2. at = 5 /\ flag'["stagedForFire"] /\ ~flag'["stagedForCollect"] /\ ~flag'["collecting"]
          BY <3>1, <3>2, <3>6, <4>1, PrepareToEmitPuts
        <4>3. balls > 0
          BY <3>6, <4>2 DEF Points, PrepareToEmitPoint, Does
        <4>4. Staged' = {"fire"}
          BY <4>2 DEF Staged
        <4>5. Ledger!StageForFire
          BY <2>1, <3>1, <3>3, <3>6, <4>2, <4>3, <4>4 DEF Ledger!StageForFire, Ledger!Empty
        <4> QED BY <4>5 DEF LedgerStep, Ledger!LedgerNext, Ledger!Internal
      <3>7. CASE kind = "PrepareToReceive"
        <4>1. at \in 1..10
          BY <3>7, Sizes
        <4>2. at = 9 /\ flag'["stagedForCollect"] /\ ~flag'["stagedForFire"] /\ ~flag'["collecting"]
          BY <3>1, <3>2, <3>7, <4>1, PrepareToReceivePuts
        <4>3. balls < 5
          BY <3>7, <4>2 DEF Points, PrepareToReceivePoint, Does, MAX_BALLS
        <4>4. Staged' = {"collect"}
          BY <4>2 DEF Staged
        <4>5. Ledger!StageForCollect
          BY <2>1, <3>1, <3>3, <3>7, <4>2, <4>3, <4>4
            DEF Ledger!StageForCollect, Ledger!Full, MAX_BALLS
        <4> QED BY <4>5 DEF LedgerStep, Ledger!LedgerNext, Ledger!Internal
      <3>8. kind # "Eject"
        BY <3>1, Sizes, EjectCode
      <3> QED BY <3>4, <3>5, <3>6, <3>7, <3>8, ProgramIs
    <2>6. ASSUME DoDump PROVE LedgerStep
      <3>1. kind = "Eject"
        BY <2>6, DumpEffect, ProgramIs, Sizes, ReceiveCode, EmitCode, PrepareToEmitCode,
           PrepareToReceiveCode
      <3>2. /\ balls' = 0 /\ stop' = stop
            /\ \A f \in {"stagedForCollect", "stagedForFire", "collecting"} : ~flag'[f]
        BY <2>6, DumpEffect
      <3>3. flag'["collecting"] = FALSE
        BY <3>2, StepTyped DEF TypeOK, Flags
      <3>4. Staged' = {}
        BY <3>2 DEF Staged
      <3>5. Ledger!Dump
        BY <2>1, <3>1, <3>2, <3>3, <3>4 DEF Ledger!Dump
      <3> QED BY <3>5 DEF LedgerStep, Ledger!LedgerNext, Ledger!Internal
    <2> QED BY <2>2, <2>3, <2>4, <2>5, <2>6 DEF ProgramStep
  <1> QED BY <1>2, <1>3

\* A new action is an assignment in the ledger.
LEMMA StartRefines ==
    ASSUME IInv, NEW k \in Kinds, NEW n \in Preset \cup {0}, Start(k, n)
    PROVE  LedgerStep
  <1>1. k # "none"
    BY DEF Kinds
  <1>2. Job' = k
    BY <1>1 DEF Start, Job, Working
  <1>3. stop' = (stop /\ k # "Emit")
    BY DEF IInv, Frame, TypeOK, Start
  <1>4. \A f \in {"collecting", "stagedForCollect", "stagedForFire"} : flag'[f] = flag[f]
    BY DEF IInv, Frame, TypeOK, Start, Flags
  <1>5. Staged' = Staged
    BY <1>4 DEF Staged
  <1>6. balls' = IF k = "SetBalls" THEN n ELSE balls
    BY DEF Start
  <1>7. Ledger!Assign(k, n)
    BY <1>2, <1>3, <1>4, <1>5, <1>6 DEF Ledger!Assign
  <1> QED BY <1>7 DEF LedgerStep, Ledger!LedgerNext

\* Every step of the conveyor is a step of the ledger or a stutter.
LEMMA StepRefines ==
    ASSUME IInv, [Next]_vars
    PROVE  LedgerStep
  <1>1. ASSUME NEW s \in [Sensors -> BOOLEAN], BeginRun(s) PROVE LedgerStep
    <2>1. CASE Working
      <3>1. Job' = Job
        BY <1>1, <2>1 DEF BeginRun, Job, Working
      <3> QED BY <1>1, <2>1, <3>1, Unseen DEF BeginRun
    <2>2. CASE ~Working
      <3>1. "Stop" \in Kinds /\ Start("Stop", 0)
        BY <1>1, <2>2 DEF BeginRun, Kinds
      <3> QED BY <3>1, StartRefines
    <2> QED BY <2>1, <2>2
  <1>2. Tick => LedgerStep
    <2>1. ASSUME RunPlain PROVE LedgerStep
      <3>1. /\ kind' = kind /\ balls' = balls /\ stop' = stop /\ flag' = flag /\ kind # "none"
            /\ done' = (kind = "SetBalls") /\ loop = "run" /\ Staged' = Staged
        BY <2>1 DEF RunPlain, Staged
      <3>2. Working /\ Job = kind
        BY <3>1 DEF IInv, Frame, RunsAnAction, Job
      <3>3. CASE kind = "SetBalls"
        <4>1. Job' = "none"
          BY <3>1, <3>3 DEF Job, Working
        <4>2. Ledger!Achieved(Job)
          BY <3>2, <3>3 DEF Ledger!Achieved
        <4>3. Ledger!Finish
          BY <3>1, <3>2, <4>1, <4>2 DEF Ledger!Finish
        <4> QED BY <4>3 DEF LedgerStep, Ledger!LedgerNext, Ledger!Internal
      <3>4. CASE kind # "SetBalls"
        <4>1. Job' = Job
          BY <3>1, <3>2, <3>4 DEF Job, Working
        <4> QED BY <3>1, <4>1, Unseen
      <3> QED BY <3>3, <3>4
    <2> QED BY <1>1, <2>1, ProgramStepRefines DEF Tick, ProgramStep
  <1>3. Calls => LedgerStep
    <2>1. ASSUME NEW k \in Kinds, NEW n \in Preset \cup {0}, SetAction(k, n) PROVE LedgerStep
      BY <2>1, StartRefines DEF SetAction
    <2>2. ASSUME CancelAction \/ CancelEmitObject PROVE LedgerStep
      <3>1. balls' = balls /\ stop' = stop /\ flag' = flag /\ Working /\ Staged' = Staged
        BY <2>2 DEF CancelAction, CancelEmitObject, Busy, Staged
      <3>2. Job' = "none" /\ Job # "none"
        BY <2>2, <3>1 DEF CancelAction, CancelEmitObject, Job, Working
      <3>3. Ledger!Cancel
        BY <3>1, <3>2 DEF Ledger!Cancel
      <3> QED BY <3>3 DEF LedgerStep, Ledger!LedgerNext
    <2>3. ASSUME StopFiring PROVE LedgerStep
      <3>1. balls' = balls /\ stop' = TRUE /\ flag' = flag /\ Staged' = Staged
        BY <2>3 DEF StopFiring, Staged
      <3>2. Job' = Job /\ Job = "Emit"
        BY <2>3 DEF StopFiring, Job, Working
      <3>3. Ledger!AskStop
        BY <3>1, <3>2 DEF Ledger!AskStop
      <3> QED BY <3>3 DEF LedgerStep, Ledger!LedgerNext
    <2>4. "SetBalls" \in Kinds
      BY DEF Kinds
    <2> QED BY <2>1, <2>2, <2>3, <2>4 DEF Calls
  <1>4. UNCHANGED vars => LedgerStep
    BY Unseen DEF vars, Job, Working
  <1> QED BY <1>2, <1>3, <1>4 DEF Next

\* The conveyor keeps every promise of the ledger, by which the operator interface,
\* the manipulator and the autonomous modes decide.
THEOREM ConveyorKeepsLedger == Spec => KeepsLedger
  <1>1. Init => Ledger!LedgerInit
    <2>1. ASSUME Init PROVE Ledger!LedgerInit
      <3>1. kind = "Stop" /\ ~done /\ balls = 0 /\ stop = FALSE /\ "Stop" \in Kinds
        BY <2>1 DEF Init, Kinds
      <3>2. Job = "Stop"
        BY <3>1 DEF Job, Working
      <3>3. Staged = {} /\ flag["collecting"] \in BOOLEAN
        BY <2>1 DEF Init, Staged, Flags
      <3> QED BY <3>1, <3>2, <3>3 DEF Ledger!LedgerInit
    <2> QED BY <2>1
  <1>2. IInv /\ [Next]_vars => [Ledger!LedgerNext]_(Ledger!ledger)
    BY StepRefines DEF LedgerStep, Ledger!ledger
  <1> QED BY <1>1, <1>2, Invariance, PTL DEF Spec, KeepsLedger, Ledger!LedgerSpec
=============================================================================
