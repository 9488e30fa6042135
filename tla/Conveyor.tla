------------------------------ MODULE Conveyor ------------------------------
(***************************************************************************)
(* The ball conveyor of the droid robot (gamepiecemanipulator/conveyor).   *)
(* Its actions are small programs: ConveyorStateAction::run executes their *)
(* states until one of them has to wait for the next robot loop.  The      *)
(* programs below are the state lists the constructors pass to setStates;  *)
(* a step of this module is one state of the list.                         *)
(*                                                                         *)
(* The four ball sensors are sampled once per loop and may show anything;  *)
(* a delay or a timeout expires at any tick after the one that armed it.   *)
(***************************************************************************)
EXTENDS Naturals, Sequences, SequencesExt

CONSTANT Preset      \* the counts autonomous modes force with ConveyorSetBallAction

MAX_BALLS == 5
FifthBall == 4       \* the literal of the Receive program, not MAX_BALLS - 1
Sensors == {"A", "B", "C", "D"}

ASSUME PresetAssumption == Preset \subseteq 0..MAX_BALLS

VARIABLES
    kind,        \* the class of action_, "none" for nullptr
    done,        \* action_->isDone()
    byDefault,   \* isRunningDefaultAction_
    at,          \* stateIndex_
    armed,       \* delayEndTime_ holds a time
    edgeReady,   \* readyForSensorEdge_
    stop,        \* shouldStopFiring_ of the emit action
    balls,       \* ballCount_
    flag,        \* the staging flags of the conveyor and the members of Receive
    motors,      \* the last argument of setMotors
    sensor,      \* what computeState sampled
    loop         \* "control": others may call; "run": inside action_->run()

vars == <<kind, done, byDefault, at, armed, edgeReady, stop, balls, flag,
          motors, sensor, loop>>

Flags == {"stagedForCollect", "stagedForFire", "collecting",  \* Conveyor
          "pulling", "finishing", "reached"}                  \* ConveyorReceiveAction
MotorStates == {"Stopped", "MoveTowardsShooter", "MoveTowardsIntake", "MoveCollectMotorOnly"}
Kinds == {"Receive", "Emit", "PrepareToEmit", "PrepareToReceive", "Eject",
          "Stop", "On", "SetBalls"}
----------------------------------------------------------------------------
(***************************************************************************)
(* States.  A state is named when another one jumps to it.                 *)
(***************************************************************************)
State(op, arg, value, to) == [name |-> "", op |-> op, arg |-> arg, value |-> value, to |-> to]
Named(name, s) == [s EXCEPT !.name = name]

Branch(to, cond)    == State("branch", cond, TRUE, to)
Goto(to)            == State("branch", "always", TRUE, to)
Wait(s, v)          == State("wait", s, v, "")
WaitOr(s, v, to)    == State("wait", s, v, to)          \* with a timeout
Edge(s, v)          == State("edge", s, v, "")
Delay               == State("delay", "", TRUE, "")
Increment           == State("increment", "", TRUE, "")
Decrement           == State("decrement", "", TRUE, "")
Motor(m)            == State("motor", m, TRUE, "")
AssertState(cond)   == State("assert", cond, TRUE, "")
Put(on, off)        == State("put", on, off, "")        \* flags := true, false
Dump                == State("dump", "", TRUE, "")      \* ballCount_ := 0, unstage

ReceiveProgram == <<
    Named("loop", Put({}, {"pulling"})),
    Put({}, {"collecting"}),
    Branch("done", "isFull"),
    AssertState("stagedForCollect"),
    Wait("A", TRUE),
    Put({"collecting"}, {}),
    Delay,
    Put({"pulling"}, {}),
    Branch("fifth", "oneLeft"),
    Wait("B", FALSE),
    WaitOr("B", TRUE, "timeout"),
    Increment,
    Delay,
    Goto("loop"),
    Named("fifth", Wait("C", FALSE)),
    WaitOr("C", TRUE, "timeout"),
    Put({"finishing"}, {"pulling"}),
    Delay,
    Increment,
    Put({}, {"collecting"}),
    Goto("done"),
    Named("timeout", Put({}, {"collecting", "pulling"})),
    Goto("loop"),
    Named("done", Put({}, {"finishing"})),
    Motor("Stopped") >>

EmitProgram == <<
    Named("loop", Branch("done", "isEmpty")),
    AssertState("stagedForFire"),
    Motor("MoveTowardsShooter"),
    Put({}, {"stagedForCollect", "collecting"}),
    Wait("D", FALSE),
    Branch("next", "notLast"),
    Delay,
    Decrement,
    Put({}, {"stagedForFire"}),
    Goto("done"),
    Named("next", Wait("D", TRUE)),
    Wait("D", FALSE),
    Decrement,
    Branch("done", "shouldStop"),
    Goto("loop"),
    Named("done", Motor("Stopped")) >>

PrepareToEmitProgram == <<
    Branch("done", "isEmpty"),
    Branch("done", "stagedForFire"),
    Motor("MoveTowardsShooter"),
    Edge("D", FALSE),
    Put({"stagedForFire"}, {"stagedForCollect", "collecting"}),
    Named("done", Motor("Stopped")) >>

PrepareToReceiveProgram == <<
    Branch("done", "isFull"),
    Branch("staged", "stagedForCollect"),
    Branch("staged", "isEmpty"),
    Motor("MoveTowardsIntake"),
    Wait("A", TRUE),
    Motor("MoveTowardsShooter"),
    Wait("A", FALSE),
    Wait("B", TRUE),
    Named("staged", Put({"stagedForCollect"}, {"stagedForFire", "collecting"})),
    Named("done", Motor("Stopped")) >>

EjectProgram == <<
    Motor("MoveTowardsIntake"),
    Dump,
    Delay,
    Motor("Stopped") >>

Programs(receive, emit, toEmit, toReceive, eject) ==
    [k \in {"Receive", "Emit", "PrepareToEmit", "PrepareToReceive", "Eject"} |->
        CASE k = "Receive" -> receive
          [] k = "Emit" -> emit
          [] k = "PrepareToEmit" -> toEmit
          [] k = "PrepareToReceive" -> toReceive
          [] k = "Eject" -> eject]

\* Mutants of Program, each without one state of one list: Receive without the
\* isFull test or without its assert, PrepareToReceive without isFull or isEmpty.
ReceiveWhenFull ==
    Programs(RemoveAt(ReceiveProgram, 3), EmitProgram, PrepareToEmitProgram,
             PrepareToReceiveProgram, EjectProgram)
ReceiveUnasserted ==
    Programs(RemoveAt(ReceiveProgram, 4), EmitProgram, PrepareToEmitProgram,
             PrepareToReceiveProgram, EjectProgram)
PrepareWhenFull ==
    Programs(ReceiveProgram, EmitProgram, PrepareToEmitProgram,
             RemoveAt(PrepareToReceiveProgram, 1), EjectProgram)
PrepareWaitsForNone ==
    Programs(ReceiveProgram, EmitProgram, PrepareToEmitProgram,
             RemoveAt(PrepareToReceiveProgram, 3), EjectProgram)

Program ==
    Programs(ReceiveProgram, EmitProgram, PrepareToEmitProgram,
             PrepareToReceiveProgram, EjectProgram)

Size == Len(Program[kind])
Here == Program[kind][at]
Index(name) == CHOOSE i \in DOMAIN Program[kind] : Program[kind][i].name = name

Holds(cond) ==
    \/ cond = "always"
    \/ cond = "isFull" /\ balls = MAX_BALLS
    \/ cond = "isEmpty" /\ balls = 0
    \/ cond = "oneLeft" /\ balls = FifthBall
    \/ cond = "notLast" /\ balls # 1
    \/ cond = "shouldStop" /\ stop
    \/ cond \in Flags /\ flag[cond]
----------------------------------------------------------------------------
Working == kind # "none" /\ ~done
Busy    == ~byDefault /\ Working

\* start() of an action of class k; n is the count of a ConveyorSetBallAction.
\* The action it replaces is cancelled, which touches only its own isDone.
Start(k, n) ==
    /\ kind' = k /\ done' = FALSE
    /\ at' = 1 /\ armed' = FALSE /\ edgeReady' = FALSE
    /\ stop' = IF k = "Emit" THEN FALSE ELSE stop
    /\ flag' = IF k # "Receive" THEN flag
               ELSE [flag EXCEPT !["pulling"] = FALSE, !["finishing"] = FALSE,
                                 !["reached"] = FALSE]
    /\ motors' = IF k = "Receive" THEN "Stopped" ELSE motors
    /\ balls' = IF k = "SetBalls" THEN n ELSE balls

\* conveyor->setAction(action, true).
SetAction(k, n) ==
    /\ loop = "control"
    /\ Start(k, n)
    /\ byDefault' = FALSE
    /\ UNCHANGED <<sensor, loop>>

\* conveyor->cancelAction(), by StartCollectAction and StopCollectAction.
CancelAction ==
    /\ loop = "control" /\ Busy
    /\ kind' = "none" /\ done' = TRUE
    /\ at' = 1 /\ armed' = FALSE /\ edgeReady' = FALSE   \* nobody holds the object
    /\ UNCHANGED <<byDefault, stop, balls, flag, motors, sensor, loop>>

\* conveyorEmitAction_->stopFiring(), by FireAction.
StopFiring ==
    /\ loop = "control" /\ kind = "Emit" /\ Working
    /\ stop' = TRUE
    /\ UNCHANGED <<kind, done, byDefault, at, armed, edgeReady, balls, flag, motors, sensor, loop>>

\* conveyorEmitAction_->cancel() on the object, by FireAction::stopChildActions:
\* the conveyor still holds the action.
CancelEmitObject ==
    /\ loop = "control" /\ kind = "Emit" /\ Working
    /\ done' = TRUE
    /\ UNCHANGED <<kind, byDefault, at, armed, edgeReady, stop, balls, flag, motors, sensor, loop>>

\* Mutant of BeginRun: only a done action gives way to the default one.
BeginRunIfDone(s) ==
    /\ loop = "control"
    /\ sensor' = s
    /\ IF Working
       THEN /\ loop' = "run"
            /\ UNCHANGED <<kind, done, byDefault, at, armed, edgeReady, stop, balls, flag, motors>>
       ELSE /\ ~byDefault /\ kind # "none"
            /\ Start("Stop", 0) /\ byDefault' = TRUE
            /\ UNCHANGED loop

\* computeState, the controller's turn over, and Subsystem::run up to the call
\* of action_->run(): a finished or missing action gives way to the default one.
BeginRun(s) ==
    /\ loop = "control"
    /\ sensor' = s
    /\ IF Working
       THEN /\ loop' = "run"
            /\ UNCHANGED <<kind, done, byDefault, at, armed, edgeReady, stop, balls, flag, motors>>
       ELSE /\ ~byDefault
            /\ Start("Stop", 0) /\ byDefault' = TRUE
            /\ UNCHANGED loop

\* The actions without a program.
RunPlain ==
    /\ loop = "run" /\ loop' = "control"
    /\ kind \in {"Stop", "On", "SetBalls"}
    /\ done' = (kind = "SetBalls")
    /\ motors' = CASE kind = "Stop" -> "Stopped"
                   [] kind = "On" -> "MoveTowardsShooter"
                   [] kind = "SetBalls" -> motors
    /\ UNCHANGED <<kind, byDefault, at, armed, edgeReady, stop, balls, flag, sensor>>
----------------------------------------------------------------------------
\* Execution is at a state of operation op.
Running(op) == loop = "run" /\ kind \in DOMAIN Program /\ ~done /\ Here.op = op

\* Mutant of Next1: the end of the list is found one state late.
Next1Late ==
    IF at > Size
    THEN done' = TRUE /\ at' = 1 /\ loop' = "control"
    ELSE at' = at + 1 /\ UNCHANGED <<done, loop>>

\* The state is finished: the next one, or the end of the action.
Next1 ==
    IF at = Size
    THEN done' = TRUE /\ at' = 1 /\ loop' = "control"
    ELSE at' = at + 1 /\ UNCHANGED <<done, loop>>
Jump(name) == at' = Index(name) /\ UNCHANGED <<done, loop>>

\* Mutant of ReceiveRun: the belts follow the staging of the loop before.
ReceiveRunStale ==
    LET leaves == flag["reached"] /\ ~sensor["D"]
    IN  /\ flag' = [flag EXCEPT !["reached"] = sensor["D"],
                                !["stagedForFire"] = @ \/ leaves]
        /\ motors' = IF flag["pulling"]
                     THEN IF flag["stagedForFire"] THEN "MoveCollectMotorOnly" ELSE "MoveTowardsShooter"
                     ELSE IF flag["finishing"] THEN "MoveTowardsIntake" ELSE "Stopped"

\* conveyorActionRun of Receive: note the edge of the shooter sensor, drive the belts.
ReceiveRun ==
    LET leaves == flag["reached"] /\ ~sensor["D"]
        fire   == flag["stagedForFire"] \/ leaves
    IN  /\ flag' = [flag EXCEPT !["reached"] = sensor["D"], !["stagedForFire"] = fire]
        /\ motors' = IF flag["pulling"]
                     THEN IF fire THEN "MoveCollectMotorOnly" ELSE "MoveTowardsShooter"
                     ELSE IF flag["finishing"] THEN "MoveTowardsIntake" ELSE "Stopped"

\* The state has to be run again in the next loop: run() returns.
Continue ==
    /\ loop' = "control"
    /\ IF kind = "Receive" THEN ReceiveRun ELSE UNCHANGED <<flag, motors>>
    /\ UNCHANGED <<done, at>>

same == <<kind, byDefault, sensor>>

DoBranch ==
    /\ Running("branch")
    /\ IF Holds(Here.arg) THEN Jump(Here.to) ELSE Next1
    /\ UNCHANGED <<same, armed, edgeReady, stop, balls, flag, motors>>

\* waitForSensorState, and timeoutState around it: the time is looked at first.
DoWait ==
    /\ Running("wait")
    /\ IF sensor[Here.arg] = Here.value
       THEN /\ Next1
            /\ armed' = IF Here.to = "" THEN armed ELSE FALSE
            /\ edgeReady' = IF Here.to = "" THEN edgeReady ELSE FALSE
            /\ UNCHANGED <<flag, motors>>
       ELSE /\ Continue
            /\ armed' = (armed \/ Here.to # "")
            /\ UNCHANGED edgeReady
    /\ UNCHANGED <<same, stop, balls>>

\* Mutant of TimeOut: delayEndTime_ is not reset.
TimeOutKeepsClock ==
    /\ Running("wait") /\ Here.to # "" /\ armed
    /\ Jump(Here.to)
    /\ UNCHANGED <<same, armed, edgeReady, stop, balls, flag, motors>>

TimeOut ==
    /\ Running("wait") /\ Here.to # "" /\ armed
    /\ armed' = FALSE
    /\ Jump(Here.to)
    /\ UNCHANGED <<same, edgeReady, stop, balls, flag, motors>>

\* waitForSensorEdgeState.
DoEdge ==
    /\ Running("edge")
    /\ LET there == sensor[Here.arg] = Here.value
       IN  IF edgeReady /\ there
           THEN edgeReady' = FALSE /\ Next1 /\ UNCHANGED <<flag, motors>>
           ELSE edgeReady' = (edgeReady \/ ~there) /\ Continue
    /\ UNCHANGED <<same, armed, stop, balls>>

DoDelay(over) ==
    /\ Running("delay")
    /\ over => armed
    /\ armed' = ~over
    /\ IF over THEN Next1 /\ UNCHANGED <<flag, motors>> ELSE Continue
    /\ UNCHANGED <<same, edgeReady, stop, balls>>

DoCount ==
    /\ Running("increment") \/ Running("decrement")
    /\ balls' = CASE Here.op = "increment" /\ balls < MAX_BALLS -> balls + 1
                  [] Here.op = "decrement" /\ balls > 0 -> balls - 1
                  [] OTHER -> balls
    /\ Next1
    /\ UNCHANGED <<same, armed, edgeReady, stop, flag, motors>>

DoDump ==
    /\ Running("dump")
    /\ balls' = 0
    /\ flag' = [f \in Flags |-> flag[f]
                   /\ f \notin {"stagedForCollect", "stagedForFire", "collecting"}]
    /\ Next1
    /\ UNCHANGED <<same, armed, edgeReady, stop, motors>>

DoMotor ==
    /\ Running("motor")
    /\ motors' = Here.arg
    /\ Next1
    /\ UNCHANGED <<same, armed, edgeReady, stop, balls, flag>>

DoPut ==
    /\ Running("put")
    /\ flag' = [f \in Flags |-> (f \in Here.arg \/ flag[f]) /\ f \notin Here.value]
    /\ Next1
    /\ UNCHANGED <<same, armed, edgeReady, stop, balls, motors>>

\* Mutant of DoAssert: the motors are left as they are.
DoAssertKeepsMotors ==
    /\ Running("assert")
    /\ IF Holds(Here.arg)
       THEN Next1
       ELSE done' = TRUE /\ at' = at + 1 /\ loop' = "control"
    /\ UNCHANGED <<same, armed, edgeReady, stop, balls, flag, motors>>

\* A failed assertState stops the motors and ends the action where it is; the
\* state still answers Next.
DoAssert ==
    /\ Running("assert")
    /\ IF Holds(Here.arg)
       THEN Next1 /\ UNCHANGED motors
       ELSE /\ motors' = "Stopped"
            /\ done' = TRUE /\ at' = at + 1 /\ loop' = "control"
    /\ UNCHANGED <<same, armed, edgeReady, stop, balls, flag>>
----------------------------------------------------------------------------
\* After postHWInit: the default action is set.  collecting_ is not initialised.
Init ==
    /\ kind = "Stop" /\ done = FALSE /\ byDefault = TRUE
    /\ at = 1 /\ armed = FALSE /\ edgeReady = FALSE /\ stop = FALSE
    /\ balls = 0
    /\ flag \in {[f \in Flags |-> f = "collecting" /\ c] : c \in BOOLEAN}
    /\ motors = "Stopped"
    /\ sensor = [s \in Sensors |-> FALSE]
    /\ loop = "control"

Tick ==
    \/ \E s \in [Sensors -> BOOLEAN] : BeginRun(s)
    \/ RunPlain
    \/ DoBranch \/ DoWait \/ TimeOut \/ DoEdge \/ DoCount \/ DoDump \/ DoMotor \/ DoPut \/ DoAssert
    \/ \E over \in BOOLEAN : DoDelay(over)

Calls ==
    \/ \E k \in Kinds \ {"SetBalls"} : SetAction(k, 0)
    \/ \E n \in Preset : SetAction("SetBalls", n)
    \/ CancelAction \/ StopFiring \/ CancelEmitObject

Next == Tick \/ Calls
Spec == Init /\ [][Next]_vars

\* The timed robot loop keeps ticking.
FairSpec == Spec /\ WF_vars(Tick)
----------------------------------------------------------------------------
TypeOK ==
    /\ kind \in Kinds \cup {"none"} /\ {done, byDefault, armed, edgeReady, stop} \subseteq BOOLEAN
    /\ at \in 1..(IF kind \in DOMAIN Program THEN Size ELSE 1)
    /\ balls \in 0..MAX_BALLS
    /\ flag \in [Flags -> BOOLEAN]
    /\ motors \in MotorStates
    /\ sensor \in [Sensors -> BOOLEAN]
    /\ loop \in {"control", "run"}

\* The overflow and underflow branches of incrementBallsState and
\* decrementBallsState (lines 129-134, 150-155) are never taken: the isFull,
\* isEmpty and "== 4" tests of the programs leave room for every count, however
\* the sensors bounce and whichever calls come between two loops.
CountsFit ==
    /\ Running("increment") => balls < MAX_BALLS
    /\ Running("decrement") => balls > 0

\* A state that waits with a clock never finds the clock of another state
\* (delayEndTime_ is shared by every delay and timeout of an action).
ClockIsFresh ==
    [][at' # at => ~armed']_vars

\* No ball is counted in unless the balls are staged for collecting, and none
\* out unless one is staged for firing: the flags an assertState tested still
\* hold when the count changes, loops later.
CountedWhileStaged ==
    /\ Running("increment") => flag["stagedForCollect"]
    /\ Running("decrement") => flag["stagedForFire"]

\* An action that ends by itself leaves the belts stopped, except the one that
\* only sets the count (the "done" states, the failed asserts).
EndsStopped ==
    [][done' /\ ~done /\ loop = "run" /\ kind # "SetBalls" => motors' = "Stopped"]_vars

\* While balls move past the shooter sensor during a collect, the shooter end of
\* the conveyor stands still once a ball is staged for firing: the staged ball is
\* never run into the shooter (ConveyorReceiveAction.cpp:147-151).
StagedBallHeld ==
    (kind = "Receive" /\ Working /\ loop = "control" /\ flag["stagedForFire"])
        => motors # "MoveTowardsShooter"

\* However an action ends, is cancelled or dropped with the belts running, they
\* stop, or another action takes the conveyor.
BeltsComeToRest ==
    ~Working ~> (motors = "Stopped" \/ Busy)
============================================================================
