-------------------------- MODULE ConveyorPrograms --------------------------
(***************************************************************************)
(* The conveyor's five programs, read state by state, for the proofs about *)
(* Conveyor.  For each program: which of its states have which operation   *)
(* and name (Ops, Names), where its jumps lead (Jumps), and, of the state  *)
(* that is executed, the operation and its arguments (Code, Last).         *)
(***************************************************************************)
EXTENDS Conveyor, TLAPS

\* The actions that have a program, and which.
LEMMA ProgramIs ==
    /\ DOMAIN Program = {"Receive", "Emit", "PrepareToEmit", "PrepareToReceive", "Eject"}
    /\ Program["Receive"] = ReceiveProgram
    /\ Program["Emit"] = EmitProgram
    /\ Program["PrepareToEmit"] = PrepareToEmitProgram
    /\ Program["PrepareToReceive"] = PrepareToReceiveProgram
    /\ Program["Eject"] = EjectProgram
  BY DEF Program, Programs

USE DEF Named, State, Branch, Goto, Wait, WaitOr, Edge, Delay, Increment, Decrement,
        Motor, AssertState, Put, Dump

\* The 25 states of Receive.
LEMMA ReceiveIs == Len(ReceiveProgram) = 25 /\ DOMAIN ReceiveProgram = 1..25
  <1>1. Len(ReceiveProgram) = 25
    BY DEF ReceiveProgram
  <1>2. DOMAIN ReceiveProgram = 1..25
    BY DEF ReceiveProgram
  <1> QED BY <1>1, <1>2

\* The states of Receive, one by one.
LEMMA ReceiveStates ==
    ASSUME NEW i \in 1..25
    PROVE
      \/ i = 1 \/ i = 2 \/ i = 3 \/ i = 4 \/ i = 5 \/ i = 6 \/ i = 7 \/ i = 8 \/ i = 9
      \/ i = 10 \/ i = 11 \/ i = 12 \/ i = 13 \/ i = 14 \/ i = 15 \/ i = 16 \/ i = 17 \/ i = 18
      \/ i = 19 \/ i = 20 \/ i = 21 \/ i = 22 \/ i = 23 \/ i = 24 \/ i = 25
  OBVIOUS

\* Which states of Receive have which operation.
LEMMA ReceiveOps ==
    ASSUME NEW i \in 1..25
    PROVE  /\ ReceiveProgram[i].op \in {"put", "branch", "assert", "wait", "delay", "increment", "motor"}
           /\ ReceiveProgram[i].op = "put" => i \in {1, 2, 6, 8, 17, 20, 22, 24}
           /\ ReceiveProgram[i].op = "branch" => i \in {3, 9, 14, 21, 23}
           /\ ReceiveProgram[i].op = "assert" => i \in {4}
           /\ ReceiveProgram[i].op = "wait" => i \in {5, 10, 11, 15, 16}
           /\ ReceiveProgram[i].op = "delay" => i \in {7, 13, 18}
           /\ ReceiveProgram[i].op = "increment" => i \in {12, 19}
           /\ ReceiveProgram[i].op = "motor" => i \in {25}
  <1>1.
      /\ ReceiveProgram[1].op = "put" /\ ReceiveProgram[2].op = "put"
      /\ ReceiveProgram[3].op = "branch" /\ ReceiveProgram[4].op = "assert"
      /\ ReceiveProgram[5].op = "wait" /\ ReceiveProgram[6].op = "put"
      /\ ReceiveProgram[7].op = "delay" /\ ReceiveProgram[8].op = "put"
      /\ ReceiveProgram[9].op = "branch" /\ ReceiveProgram[10].op = "wait"
      /\ ReceiveProgram[11].op = "wait" /\ ReceiveProgram[12].op = "increment"
      /\ ReceiveProgram[13].op = "delay" /\ ReceiveProgram[14].op = "branch"
      /\ ReceiveProgram[15].op = "wait" /\ ReceiveProgram[16].op = "wait"
      /\ ReceiveProgram[17].op = "put" /\ ReceiveProgram[18].op = "delay"
      /\ ReceiveProgram[19].op = "increment" /\ ReceiveProgram[20].op = "put"
      /\ ReceiveProgram[21].op = "branch" /\ ReceiveProgram[22].op = "put"
      /\ ReceiveProgram[23].op = "branch" /\ ReceiveProgram[24].op = "put"
      /\ ReceiveProgram[25].op = "motor"
    BY DEF ReceiveProgram
  <1> QED BY <1>1, ReceiveStates

\* The names of the states of Receive.
LEMMA ReceiveNames ==
    ASSUME NEW i \in 1..25
    PROVE  /\ ReceiveProgram[i].name = "loop" <=> i = 1
           /\ ReceiveProgram[i].name = "fifth" <=> i = 15
           /\ ReceiveProgram[i].name = "timeout" <=> i = 22
           /\ ReceiveProgram[i].name = "done" <=> i = 24
  <1>1.
      /\ ReceiveProgram[1].name = "loop" /\ ReceiveProgram[2].name = ""
      /\ ReceiveProgram[3].name = "" /\ ReceiveProgram[4].name = ""
      /\ ReceiveProgram[5].name = "" /\ ReceiveProgram[6].name = ""
      /\ ReceiveProgram[7].name = "" /\ ReceiveProgram[8].name = ""
      /\ ReceiveProgram[9].name = "" /\ ReceiveProgram[10].name = ""
      /\ ReceiveProgram[11].name = "" /\ ReceiveProgram[12].name = ""
      /\ ReceiveProgram[13].name = "" /\ ReceiveProgram[14].name = ""
      /\ ReceiveProgram[15].name = "fifth" /\ ReceiveProgram[16].name = ""
      /\ ReceiveProgram[17].name = "" /\ ReceiveProgram[18].name = ""
      /\ ReceiveProgram[19].name = "" /\ ReceiveProgram[20].name = ""
      /\ ReceiveProgram[21].name = "" /\ ReceiveProgram[22].name = "timeout"
      /\ ReceiveProgram[23].name = "" /\ ReceiveProgram[24].name = "done"
      /\ ReceiveProgram[25].name = ""
    BY DEF ReceiveProgram
  <1> QED BY <1>1, ReceiveStates

\* Where the names that Receive jumps to are.
LEMMA ReceiveJumps ==
    ASSUME kind = "Receive"
    PROVE  Index("loop") = 1 /\ Index("fifth") = 15 /\ Index("timeout") = 22 /\ Index("done") = 24
  BY ReceiveIs, ReceiveNames, ProgramIs DEF Index

\* The last state of Receive stops the belts.
LEMMA ReceiveLast ==
    ASSUME kind = "Receive", at = 25
    PROVE  Here.op = "motor" /\ Here.arg = "Stopped"
  <1>1. ReceiveProgram[25].op = "motor" /\ ReceiveProgram[25].arg = "Stopped"
    BY DEF ReceiveProgram
  <1> QED BY <1>1, ProgramIs DEF Here

\* What Receive puts into the flags, and where.
LEMMA ReceivePuts ==
    ASSUME kind = "Receive", at \in 1..25
    PROVE  Here.op = "put" =>
               \/ at = 1 /\ Here.arg = {} /\ Here.value = {"pulling"}
               \/ at \in {2, 20} /\ Here.arg = {} /\ Here.value = {"collecting"}
               \/ at = 6 /\ Here.arg = {"collecting"} /\ Here.value = {}
               \/ at = 8 /\ Here.arg = {"pulling"} /\ Here.value = {}
               \/ at = 17 /\ Here.arg = {"finishing"} /\ Here.value = {"pulling"}
               \/ at = 22 /\ Here.arg = {} /\ Here.value = {"collecting", "pulling"}
               \/ at = 24 /\ Here.arg = {} /\ Here.value = {"finishing"}
  <1>1. /\ ReceiveProgram[1].arg = {} /\ ReceiveProgram[1].value = {"pulling"}
        /\ ReceiveProgram[2].arg = {} /\ ReceiveProgram[2].value = {"collecting"}
        /\ ReceiveProgram[20].arg = {} /\ ReceiveProgram[20].value = {"collecting"}
        /\ ReceiveProgram[6].arg = {"collecting"} /\ ReceiveProgram[6].value = {}
        /\ ReceiveProgram[8].arg = {"pulling"} /\ ReceiveProgram[8].value = {}
        /\ ReceiveProgram[17].arg = {"finishing"} /\ ReceiveProgram[17].value = {"pulling"}
        /\ ReceiveProgram[22].arg = {} /\ ReceiveProgram[22].value = {"collecting", "pulling"}
        /\ ReceiveProgram[24].arg = {} /\ ReceiveProgram[24].value = {"finishing"}
    BY DEF ReceiveProgram
  <1> QED BY <1>1, ReceiveOps, ProgramIs DEF Here

\* What Receive branches on, and where to.
LEMMA ReceiveBranches ==
    ASSUME kind = "Receive", at \in 1..25
    PROVE  Here.op = "branch" =>
               \/ at = 3 /\ Here.arg = "isFull" /\ Here.to = "done"
               \/ at = 9 /\ Here.arg = "oneLeft" /\ Here.to = "fifth"
               \/ at \in {14, 23} /\ Here.arg = "always" /\ Here.to = "loop"
               \/ at = 21 /\ Here.arg = "always" /\ Here.to = "done"
  <1>1. /\ ReceiveProgram[3].arg = "isFull" /\ ReceiveProgram[3].to = "done"
        /\ ReceiveProgram[9].arg = "oneLeft" /\ ReceiveProgram[9].to = "fifth"
        /\ ReceiveProgram[14].arg = "always" /\ ReceiveProgram[14].to = "loop"
        /\ ReceiveProgram[23].arg = "always" /\ ReceiveProgram[23].to = "loop"
        /\ ReceiveProgram[21].arg = "always" /\ ReceiveProgram[21].to = "done"
    BY DEF ReceiveProgram
  <1> QED BY <1>1, ReceiveOps, ProgramIs DEF Here

\* What Receive asserts.
LEMMA ReceiveAsserts ==
    ASSUME kind = "Receive", at \in 1..25
    PROVE  Here.op = "assert" => at = 4 /\ Here.arg = "stagedForCollect"
  <1>1. /\ ReceiveProgram[4].arg = "stagedForCollect"
    BY DEF ReceiveProgram
  <1> QED BY <1>1, ReceiveOps, ProgramIs DEF Here

\* What Receive waits for.
LEMMA ReceiveWaits ==
    ASSUME kind = "Receive", at \in 1..25
    PROVE  Here.op = "wait" =>
               \/ at \in {5, 10, 15} /\ Here.to = ""
               \/ at \in {11, 16} /\ Here.to = "timeout"
  <1>1. /\ ReceiveProgram[5].to = "" /\ ReceiveProgram[10].to = ""
        /\ ReceiveProgram[15].to = "" /\ ReceiveProgram[11].to = "timeout"
        /\ ReceiveProgram[16].to = "timeout"
    BY DEF ReceiveProgram
  <1> QED BY <1>1, ReceiveOps, ProgramIs DEF Here

\* What Receive tells the motors.
LEMMA ReceiveMotors ==
    ASSUME kind = "Receive", at \in 1..25
    PROVE  Here.op = "motor" => at = 25 /\ Here.arg = "Stopped"
  <1>1. /\ ReceiveProgram[25].arg = "Stopped"
    BY DEF ReceiveProgram
  <1> QED BY <1>1, ReceiveOps, ProgramIs DEF Here

\* The operations of Receive at the state that is executed.
LEMMA ReceiveCode ==
    ASSUME kind = "Receive", at \in 1..25
    PROVE  /\ Here.op \in {"put", "branch", "assert", "wait", "delay", "increment", "motor"}
           /\ Here.op = "put" => at \in {1, 2, 6, 8, 17, 20, 22, 24}
           /\ Here.op = "branch" => at \in {3, 9, 14, 21, 23}
           /\ Here.op = "assert" => at \in {4}
           /\ Here.op = "wait" => at \in {5, 10, 11, 15, 16}
           /\ Here.op = "delay" => at \in {7, 13, 18}
           /\ Here.op = "increment" => at \in {12, 19}
           /\ Here.op = "motor" => at \in {25}
  BY ReceiveOps, ProgramIs DEF Here

\* The 16 states of Emit.
LEMMA EmitIs == Len(EmitProgram) = 16 /\ DOMAIN EmitProgram = 1..16
  <1>1. Len(EmitProgram) = 16
    BY DEF EmitProgram
  <1>2. DOMAIN EmitProgram = 1..16
    BY DEF EmitProgram
  <1> QED BY <1>1, <1>2

\* The states of Emit, one by one.
LEMMA EmitStates ==
    ASSUME NEW i \in 1..16
    PROVE
      \/ i = 1 \/ i = 2 \/ i = 3 \/ i = 4 \/ i = 5 \/ i = 6 \/ i = 7 \/ i = 8 \/ i = 9
      \/ i = 10 \/ i = 11 \/ i = 12 \/ i = 13 \/ i = 14 \/ i = 15 \/ i = 16
  OBVIOUS

\* Which states of Emit have which operation.
LEMMA EmitOps ==
    ASSUME NEW i \in 1..16
    PROVE  /\ EmitProgram[i].op \in {"branch", "assert", "motor", "put", "wait", "delay", "decrement"}
           /\ EmitProgram[i].op = "branch" => i \in {1, 6, 10, 14, 15}
           /\ EmitProgram[i].op = "assert" => i \in {2}
           /\ EmitProgram[i].op = "motor" => i \in {3, 16}
           /\ EmitProgram[i].op = "put" => i \in {4, 9}
           /\ EmitProgram[i].op = "wait" => i \in {5, 11, 12}
           /\ EmitProgram[i].op = "delay" => i \in {7}
           /\ EmitProgram[i].op = "decrement" => i \in {8, 13}
  <1>1.
      /\ EmitProgram[1].op = "branch" /\ EmitProgram[2].op = "assert"
      /\ EmitProgram[3].op = "motor" /\ EmitProgram[4].op = "put" /\ EmitProgram[5].op = "wait"
      /\ EmitProgram[6].op = "branch" /\ EmitProgram[7].op = "delay"
      /\ EmitProgram[8].op = "decrement" /\ EmitProgram[9].op = "put"
      /\ EmitProgram[10].op = "branch" /\ EmitProgram[11].op = "wait"
      /\ EmitProgram[12].op = "wait" /\ EmitProgram[13].op = "decrement"
      /\ EmitProgram[14].op = "branch" /\ EmitProgram[15].op = "branch"
      /\ EmitProgram[16].op = "motor"
    BY DEF EmitProgram
  <1> QED BY <1>1, EmitStates

\* The names of the states of Emit.
LEMMA EmitNames ==
    ASSUME NEW i \in 1..16
    PROVE  /\ EmitProgram[i].name = "loop" <=> i = 1
           /\ EmitProgram[i].name = "next" <=> i = 11
           /\ EmitProgram[i].name = "done" <=> i = 16
  <1>1.
      /\ EmitProgram[1].name = "loop" /\ EmitProgram[2].name = "" /\ EmitProgram[3].name = ""
      /\ EmitProgram[4].name = "" /\ EmitProgram[5].name = "" /\ EmitProgram[6].name = ""
      /\ EmitProgram[7].name = "" /\ EmitProgram[8].name = "" /\ EmitProgram[9].name = ""
      /\ EmitProgram[10].name = "" /\ EmitProgram[11].name = "next"
      /\ EmitProgram[12].name = "" /\ EmitProgram[13].name = "" /\ EmitProgram[14].name = ""
      /\ EmitProgram[15].name = "" /\ EmitProgram[16].name = "done"
    BY DEF EmitProgram
  <1> QED BY <1>1, EmitStates

\* Where the names that Emit jumps to are.
LEMMA EmitJumps ==
    ASSUME kind = "Emit"
    PROVE  Index("loop") = 1 /\ Index("next") = 11 /\ Index("done") = 16
  BY EmitIs, EmitNames, ProgramIs DEF Index

\* The last state of Emit stops the belts.
LEMMA EmitLast ==
    ASSUME kind = "Emit", at = 16
    PROVE  Here.op = "motor" /\ Here.arg = "Stopped"
  <1>1. EmitProgram[16].op = "motor" /\ EmitProgram[16].arg = "Stopped"
    BY DEF EmitProgram
  <1> QED BY <1>1, ProgramIs DEF Here

\* What Emit branches on, and where to.
LEMMA EmitBranches ==
    ASSUME kind = "Emit", at \in 1..16
    PROVE  Here.op = "branch" =>
               \/ at = 1 /\ Here.arg = "isEmpty" /\ Here.to = "done"
               \/ at = 6 /\ Here.arg = "notLast" /\ Here.to = "next"
               \/ at = 10 /\ Here.arg = "always" /\ Here.to = "done"
               \/ at = 14 /\ Here.arg = "shouldStop" /\ Here.to = "done"
               \/ at = 15 /\ Here.arg = "always" /\ Here.to = "loop"
  <1>1. /\ EmitProgram[1].arg = "isEmpty" /\ EmitProgram[1].to = "done"
        /\ EmitProgram[6].arg = "notLast" /\ EmitProgram[6].to = "next"
        /\ EmitProgram[10].arg = "always" /\ EmitProgram[10].to = "done"
        /\ EmitProgram[14].arg = "shouldStop" /\ EmitProgram[14].to = "done"
        /\ EmitProgram[15].arg = "always" /\ EmitProgram[15].to = "loop"
    BY DEF EmitProgram
  <1> QED BY <1>1, EmitOps, ProgramIs DEF Here

\* What Emit asserts.
LEMMA EmitAsserts ==
    ASSUME kind = "Emit", at \in 1..16
    PROVE  Here.op = "assert" => at = 2 /\ Here.arg = "stagedForFire"
  <1>1. /\ EmitProgram[2].arg = "stagedForFire"
    BY DEF EmitProgram
  <1> QED BY <1>1, EmitOps, ProgramIs DEF Here

\* What Emit tells the motors.
LEMMA EmitMotors ==
    ASSUME kind = "Emit", at \in 1..16
    PROVE  Here.op = "motor" =>
               \/ at = 3 /\ Here.arg = "MoveTowardsShooter"
               \/ at = 16 /\ Here.arg = "Stopped"
  <1>1. /\ EmitProgram[3].arg = "MoveTowardsShooter" /\ EmitProgram[16].arg = "Stopped"
    BY DEF EmitProgram
  <1> QED BY <1>1, EmitOps, ProgramIs DEF Here

\* What Emit puts into the flags, and where.
LEMMA EmitPuts ==
    ASSUME kind = "Emit", at \in 1..16
    PROVE  Here.op = "put" =>
               \/ at = 4 /\ Here.arg = {} /\ Here.value = {"stagedForCollect", "collecting"}
               \/ at = 9 /\ Here.arg = {} /\ Here.value = {"stagedForFire"}
  <1>1. /\ EmitProgram[4].arg = {} /\ EmitProgram[4].value = {"stagedForCollect", "collecting"}
        /\ EmitProgram[9].arg = {} /\ EmitProgram[9].value = {"stagedForFire"}
    BY DEF EmitProgram
  <1> QED BY <1>1, EmitOps, ProgramIs DEF Here

\* What Emit waits for.
LEMMA EmitWaits ==
    ASSUME kind = "Emit", at \in 1..16
    PROVE  Here.op = "wait" => at \in {5, 11, 12} /\ Here.to = ""
  <1>1. /\ EmitProgram[5].to = "" /\ EmitProgram[11].to = "" /\ EmitProgram[12].to = ""
    BY DEF EmitProgram
  <1> QED BY <1>1, EmitOps, ProgramIs DEF Here

\* The operations of Emit at the state that is executed.
LEMMA EmitCode ==
    ASSUME kind = "Emit", at \in 1..16
    PROVE  /\ Here.op \in {"branch", "assert", "motor", "put", "wait", "delay", "decrement"}
           /\ Here.op = "branch" => at \in {1, 6, 10, 14, 15}
           /\ Here.op = "assert" => at \in {2}
           /\ Here.op = "motor" => at \in {3, 16}
           /\ Here.op = "put" => at \in {4, 9}
           /\ Here.op = "wait" => at \in {5, 11, 12}
           /\ Here.op = "delay" => at \in {7}
           /\ Here.op = "decrement" => at \in {8, 13}
  BY EmitOps, ProgramIs DEF Here

\* The 6 states of PrepareToEmit.
LEMMA PrepareToEmitIs == Len(PrepareToEmitProgram) = 6 /\ DOMAIN PrepareToEmitProgram = 1..6
  <1>1. Len(PrepareToEmitProgram) = 6
    BY DEF PrepareToEmitProgram
  <1>2. DOMAIN PrepareToEmitProgram = 1..6
    BY DEF PrepareToEmitProgram
  <1> QED BY <1>1, <1>2

\* The states of PrepareToEmit, one by one.
LEMMA PrepareToEmitStates ==
    ASSUME NEW i \in 1..6
    PROVE
      \/ i = 1 \/ i = 2 \/ i = 3 \/ i = 4 \/ i = 5 \/ i = 6
  OBVIOUS

\* Which states of PrepareToEmit have which operation.
LEMMA PrepareToEmitOps ==
    ASSUME NEW i \in 1..6
    PROVE  /\ PrepareToEmitProgram[i].op \in {"branch", "motor", "edge", "put"}
           /\ PrepareToEmitProgram[i].op = "branch" => i \in {1, 2}
           /\ PrepareToEmitProgram[i].op = "motor" => i \in {3, 6}
           /\ PrepareToEmitProgram[i].op = "edge" => i \in {4}
           /\ PrepareToEmitProgram[i].op = "put" => i \in {5}
  <1>1.
      /\ PrepareToEmitProgram[1].op = "branch" /\ PrepareToEmitProgram[2].op = "branch"
      /\ PrepareToEmitProgram[3].op = "motor" /\ PrepareToEmitProgram[4].op = "edge"
      /\ PrepareToEmitProgram[5].op = "put" /\ PrepareToEmitProgram[6].op = "motor"
    BY DEF PrepareToEmitProgram
  <1> QED BY <1>1, PrepareToEmitStates

\* The names of the states of PrepareToEmit.
LEMMA PrepareToEmitNames ==
    ASSUME NEW i \in 1..6
    PROVE  /\ PrepareToEmitProgram[i].name = "done" <=> i = 6
  <1>1.
      /\ PrepareToEmitProgram[1].name = "" /\ PrepareToEmitProgram[2].name = ""
      /\ PrepareToEmitProgram[3].name = "" /\ PrepareToEmitProgram[4].name = ""
      /\ PrepareToEmitProgram[5].name = "" /\ PrepareToEmitProgram[6].name = "done"
    BY DEF PrepareToEmitProgram
  <1> QED BY <1>1, PrepareToEmitStates

\* Where the names that PrepareToEmit jumps to are.
LEMMA PrepareToEmitJumps ==
    ASSUME kind = "PrepareToEmit"
    PROVE  Index("done") = 6
  BY PrepareToEmitIs, PrepareToEmitNames, ProgramIs DEF Index

\* The last state of PrepareToEmit stops the belts.
LEMMA PrepareToEmitLast ==
    ASSUME kind = "PrepareToEmit", at = 6
    PROVE  Here.op = "motor" /\ Here.arg = "Stopped"
  <1>1. PrepareToEmitProgram[6].op = "motor" /\ PrepareToEmitProgram[6].arg = "Stopped"
    BY DEF PrepareToEmitProgram
  <1> QED BY <1>1, ProgramIs DEF Here

\* What PrepareToEmit branches on, and where to.
LEMMA PrepareToEmitBranches ==
    ASSUME kind = "PrepareToEmit", at \in 1..6
    PROVE  Here.op = "branch" =>
               \/ at = 1 /\ Here.arg = "isEmpty" /\ Here.to = "done"
               \/ at = 2 /\ Here.arg = "stagedForFire" /\ Here.to = "done"
  <1>1. /\ PrepareToEmitProgram[1].arg = "isEmpty" /\ PrepareToEmitProgram[1].to = "done"
        /\ PrepareToEmitProgram[2].arg = "stagedForFire" /\ PrepareToEmitProgram[2].to = "done"
    BY DEF PrepareToEmitProgram
  <1> QED BY <1>1, PrepareToEmitOps, ProgramIs DEF Here

\* What PrepareToEmit tells the motors.
LEMMA PrepareToEmitMotors ==
    ASSUME kind = "PrepareToEmit", at \in 1..6
    PROVE  Here.op = "motor" =>
               \/ at = 3 /\ Here.arg = "MoveTowardsShooter"
               \/ at = 6 /\ Here.arg = "Stopped"
  <1>1. /\ PrepareToEmitProgram[3].arg = "MoveTowardsShooter"
        /\ PrepareToEmitProgram[6].arg = "Stopped"
    BY DEF PrepareToEmitProgram
  <1> QED BY <1>1, PrepareToEmitOps, ProgramIs DEF Here

\* What PrepareToEmit puts into the flags, and where.
LEMMA PrepareToEmitPuts ==
    ASSUME kind = "PrepareToEmit", at \in 1..6
    PROVE  Here.op = "put" =>
               /\ at = 5 /\ Here.arg = {"stagedForFire"}
               /\ Here.value = {"stagedForCollect", "collecting"}
  <1>1. /\ PrepareToEmitProgram[5].arg = {"stagedForFire"}
        /\ PrepareToEmitProgram[5].value = {"stagedForCollect", "collecting"}
    BY DEF PrepareToEmitProgram
  <1> QED BY <1>1, PrepareToEmitOps, ProgramIs DEF Here

\* The operations of PrepareToEmit at the state that is executed.
LEMMA PrepareToEmitCode ==
    ASSUME kind = "PrepareToEmit", at \in 1..6
    PROVE  /\ Here.op \in {"branch", "motor", "edge", "put"}
           /\ Here.op = "branch" => at \in {1, 2}
           /\ Here.op = "motor" => at \in {3, 6}
           /\ Here.op = "edge" => at \in {4}
           /\ Here.op = "put" => at \in {5}
  BY PrepareToEmitOps, ProgramIs DEF Here

\* The 10 states of PrepareToReceive.
LEMMA PrepareToReceiveIs ==
    Len(PrepareToReceiveProgram) = 10 /\ DOMAIN PrepareToReceiveProgram = 1..10
  <1>1. Len(PrepareToReceiveProgram) = 10
    BY DEF PrepareToReceiveProgram
  <1>2. DOMAIN PrepareToReceiveProgram = 1..10
    BY DEF PrepareToReceiveProgram
  <1> QED BY <1>1, <1>2

\* The states of PrepareToReceive, one by one.
LEMMA PrepareToReceiveStates ==
    ASSUME NEW i \in 1..10
    PROVE
      \/ i = 1 \/ i = 2 \/ i = 3 \/ i = 4 \/ i = 5 \/ i = 6 \/ i = 7 \/ i = 8 \/ i = 9
      \/ i = 10
  OBVIOUS

\* Which states of PrepareToReceive have which operation.
LEMMA PrepareToReceiveOps ==
    ASSUME NEW i \in 1..10
    PROVE  /\ PrepareToReceiveProgram[i].op \in {"branch", "motor", "wait", "put"}
           /\ PrepareToReceiveProgram[i].op = "branch" => i \in {1, 2, 3}
           /\ PrepareToReceiveProgram[i].op = "motor" => i \in {4, 6, 10}
           /\ PrepareToReceiveProgram[i].op = "wait" => i \in {5, 7, 8}
           /\ PrepareToReceiveProgram[i].op = "put" => i \in {9}
  <1>1.
      /\ PrepareToReceiveProgram[1].op = "branch" /\ PrepareToReceiveProgram[2].op = "branch"
      /\ PrepareToReceiveProgram[3].op = "branch" /\ PrepareToReceiveProgram[4].op = "motor"
      /\ PrepareToReceiveProgram[5].op = "wait" /\ PrepareToReceiveProgram[6].op = "motor"
      /\ PrepareToReceiveProgram[7].op = "wait" /\ PrepareToReceiveProgram[8].op = "wait"
      /\ PrepareToReceiveProgram[9].op = "put" /\ PrepareToReceiveProgram[10].op = "motor"
    BY DEF PrepareToReceiveProgram
  <1> QED BY <1>1, PrepareToReceiveStates

\* The names of the states of PrepareToReceive.
LEMMA PrepareToReceiveNames ==
    ASSUME NEW i \in 1..10
    PROVE  /\ PrepareToReceiveProgram[i].name = "staged" <=> i = 9
           /\ PrepareToReceiveProgram[i].name = "done" <=> i = 10
  <1>1.
      /\ PrepareToReceiveProgram[1].name = "" /\ PrepareToReceiveProgram[2].name = ""
      /\ PrepareToReceiveProgram[3].name = "" /\ PrepareToReceiveProgram[4].name = ""
      /\ PrepareToReceiveProgram[5].name = "" /\ PrepareToReceiveProgram[6].name = ""
      /\ PrepareToReceiveProgram[7].name = "" /\ PrepareToReceiveProgram[8].name = ""
      /\ PrepareToReceiveProgram[9].name = "staged"
      /\ PrepareToReceiveProgram[10].name = "done"
    BY DEF PrepareToReceiveProgram
  <1> QED BY <1>1, PrepareToReceiveStates

\* Where the names that PrepareToReceive jumps to are.
LEMMA PrepareToReceiveJumps ==
    ASSUME kind = "PrepareToReceive"
    PROVE  Index("staged") = 9 /\ Index("done") = 10
  BY PrepareToReceiveIs, PrepareToReceiveNames, ProgramIs DEF Index

\* The last state of PrepareToReceive stops the belts.
LEMMA PrepareToReceiveLast ==
    ASSUME kind = "PrepareToReceive", at = 10
    PROVE  Here.op = "motor" /\ Here.arg = "Stopped"
  <1>1. PrepareToReceiveProgram[10].op = "motor" /\ PrepareToReceiveProgram[10].arg = "Stopped"
    BY DEF PrepareToReceiveProgram
  <1> QED BY <1>1, ProgramIs DEF Here

\* What PrepareToReceive branches on, and where to.
LEMMA PrepareToReceiveBranches ==
    ASSUME kind = "PrepareToReceive", at \in 1..10
    PROVE  Here.op = "branch" =>
               \/ at = 1 /\ Here.arg = "isFull" /\ Here.to = "done"
               \/ at = 2 /\ Here.arg = "stagedForCollect" /\ Here.to = "staged"
               \/ at = 3 /\ Here.arg = "isEmpty" /\ Here.to = "staged"
  <1>1. /\ PrepareToReceiveProgram[1].arg = "isFull" /\ PrepareToReceiveProgram[1].to = "done"
        /\ PrepareToReceiveProgram[2].arg = "stagedForCollect"
        /\ PrepareToReceiveProgram[2].to = "staged"
        /\ PrepareToReceiveProgram[3].arg = "isEmpty" /\ PrepareToReceiveProgram[3].to = "staged"
    BY DEF PrepareToReceiveProgram
  <1> QED BY <1>1, PrepareToReceiveOps, ProgramIs DEF Here

\* What PrepareToReceive tells the motors.
LEMMA PrepareToReceiveMotors ==
    ASSUME kind = "PrepareToReceive", at \in 1..10
    PROVE  Here.op = "motor" =>
               \/ at = 4 /\ Here.arg = "MoveTowardsIntake"
               \/ at = 6 /\ Here.arg = "MoveTowardsShooter"
               \/ at = 10 /\ Here.arg = "Stopped"
  <1>1. /\ PrepareToReceiveProgram[4].arg = "MoveTowardsIntake"
        /\ PrepareToReceiveProgram[6].arg = "MoveTowardsShooter"
        /\ PrepareToReceiveProgram[10].arg = "Stopped"
    BY DEF PrepareToReceiveProgram
  <1> QED BY <1>1, PrepareToReceiveOps, ProgramIs DEF Here

\* What PrepareToReceive waits for.
LEMMA PrepareToReceiveWaits ==
    ASSUME kind = "PrepareToReceive", at \in 1..10
    PROVE  Here.op = "wait" => at \in {5, 7, 8} /\ Here.to = ""
  <1>1. /\ PrepareToReceiveProgram[5].to = "" /\ PrepareToReceiveProgram[7].to = ""
        /\ PrepareToReceiveProgram[8].to = ""
    BY DEF PrepareToReceiveProgram
  <1> QED BY <1>1, PrepareToReceiveOps, ProgramIs DEF Here

\* What PrepareToReceive puts into the flags, and where.
LEMMA PrepareToReceivePuts ==
    ASSUME kind = "PrepareToReceive", at \in 1..10
    PROVE  Here.op = "put" =>
               /\ at = 9 /\ Here.arg = {"stagedForCollect"}
               /\ Here.value = {"stagedForFire", "collecting"}
  <1>1. /\ PrepareToReceiveProgram[9].arg = {"stagedForCollect"}
        /\ PrepareToReceiveProgram[9].value = {"stagedForFire", "collecting"}
    BY DEF PrepareToReceiveProgram
  <1> QED BY <1>1, PrepareToReceiveOps, ProgramIs DEF Here

\* The operations of PrepareToReceive at the state that is executed.
LEMMA PrepareToReceiveCode ==
    ASSUME kind = "PrepareToReceive", at \in 1..10
    PROVE  /\ Here.op \in {"branch", "motor", "wait", "put"}
           /\ Here.op = "branch" => at \in {1, 2, 3}
           /\ Here.op = "motor" => at \in {4, 6, 10}
           /\ Here.op = "wait" => at \in {5, 7, 8}
           /\ Here.op = "put" => at \in {9}
  BY PrepareToReceiveOps, ProgramIs DEF Here

\* The 4 states of Eject.
LEMMA EjectIs == Len(EjectProgram) = 4 /\ DOMAIN EjectProgram = 1..4
  <1>1. Len(EjectProgram) = 4
    BY DEF EjectProgram
  <1>2. DOMAIN EjectProgram = 1..4
    BY DEF EjectProgram
  <1> QED BY <1>1, <1>2

\* The states of Eject, one by one.
LEMMA EjectStates ==
    ASSUME NEW i \in 1..4
    PROVE
      \/ i = 1 \/ i = 2 \/ i = 3 \/ i = 4
  OBVIOUS

\* Which states of Eject have which operation.
LEMMA EjectOps ==
    ASSUME NEW i \in 1..4
    PROVE  /\ EjectProgram[i].op \in {"motor", "dump", "delay"}
           /\ EjectProgram[i].op = "motor" => i \in {1, 4}
           /\ EjectProgram[i].op = "dump" => i \in {2}
           /\ EjectProgram[i].op = "delay" => i \in {3}
  <1>1.
      /\ EjectProgram[1].op = "motor" /\ EjectProgram[2].op = "dump"
      /\ EjectProgram[3].op = "delay" /\ EjectProgram[4].op = "motor"
    BY DEF EjectProgram
  <1> QED BY <1>1, EjectStates

\* The last state of Eject stops the belts.
LEMMA EjectLast ==
    ASSUME kind = "Eject", at = 4
    PROVE  Here.op = "motor" /\ Here.arg = "Stopped"
  <1>1. EjectProgram[4].op = "motor" /\ EjectProgram[4].arg = "Stopped"
    BY DEF EjectProgram
  <1> QED BY <1>1, ProgramIs DEF Here

\* What Eject tells the motors.
LEMMA EjectMotors ==
    ASSUME kind = "Eject", at \in 1..4
    PROVE  Here.op = "motor" =>
               \/ at = 1 /\ Here.arg = "MoveTowardsIntake"
               \/ at = 4 /\ Here.arg = "Stopped"
  <1>1. /\ EjectProgram[1].arg = "MoveTowardsIntake" /\ EjectProgram[4].arg = "Stopped"
    BY DEF EjectProgram
  <1> QED BY <1>1, EjectOps, ProgramIs DEF Here

\* The operations of Eject at the state that is executed.
LEMMA EjectCode ==
    ASSUME kind = "Eject", at \in 1..4
    PROVE  /\ Here.op \in {"motor", "dump", "delay"}
           /\ Here.op = "motor" => at \in {1, 4}
           /\ Here.op = "dump" => at \in {2}
           /\ Here.op = "delay" => at \in {3}
  BY EjectOps, ProgramIs DEF Here

HIDE DEF Named, State, Branch, Goto, Wait, WaitOr, Edge, Delay, Increment, Decrement,
         Motor, AssertState, Put, Dump
=============================================================================
