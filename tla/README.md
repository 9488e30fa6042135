# Verification of the newarch robot code

This directory holds TLA+ specifications of the robot code in this repository, the
configurations with which TLC checks them on small instances, and proofs of their main
properties, checked by TLAPS for every value of the constants.  Paths below are relative to
`src/`; `xerobase` is `xerolibs/xerobase`, `droid` is `robots/droid/src/main/cpp`.

## 1. The system

The repository is the library (`xerolibs`) and the robots (`robots`) of an FRC team.  A robot is a
tree of *subsystems*.  Each subsystem runs at most one *action*, an object with `start`, `run`,
`cancel` and `isDone`.  Everything happens in one thread, in a timed loop
(`xerobase/Robot.cpp:217-277`): the sensors are sampled (`computeState`), a controller
(autonomous, teleoperated, test) assigns actions, then `run` goes through the tree, children
first.  There are no locks.  What is hard is that many parties assign, replace, cancel
and reset the same few action objects between two parts of one loop, and each acts on what it
believes the others have left behind.

| component | state | operations | interacts by |
|---|---|---|---|
| Subsystem tree (`xerobase/Subsystem.cpp`) | `action_`, `defaultAction_`, `isRunningDefaultAction_` per subsystem | `setAction`, `setDefaultAction`, `cancelAction`, `reset`, `run` | calls `start`/`run`/`cancel` of actions, `isBusy` of ancestors, cancels descendants |
| Action tree (`xerobase/actions`) | index of a sequence, done and cancel flags | `start`, `run`, `cancel` of sequences, parallel sets, dispatches, terminators | a dispatch calls `setAction` of another subsystem |
| Autonomous modes (`droid/automodes`) | a tree of actions per mode | built once, run by the `AutoController` | dispatch actions to drive base, turret, shooter, conveyor and manipulator |
| Robot life cycle, controllers (`Robot.cpp`, `*Controller.cpp`) | mode, controller, autonomous mode, running detector | `AutonomousInit`, `TeleopInit`, `DisabledInit`, one loop each | resets the subsystems, runs sequences |
| Conveyor (`droid/gamepiecemanipulator/conveyor`) | ball count, staging flags, state index, clock, belts | eight action classes, five of them programs of states | given actions by the operator interface and by the manipulator's actions |
| Manipulator actions (`droid/gamepiecemanipulator`) | `isFiring_`, done flags | StartCollect, StopCollect, Fire | give actions to intake, conveyor and shooter |
| Operator interface (`droid/droidoi/DroidOIDevice.cpp`) | collect/shoot mode, climb state | one handler per mode and loop | reads the conveyor and the manipulator, dispatches actions to them |
| Turret, tracker, lime light | lock, angle, `readyToFire_` | follow, goto, hold, `computeState` | read by the fire action |
| Climber and lifter (`droid/climber`) | position, clamped motor, field mode | up/down, deploy, hold | given actions by the operator interface and by each other |
| Tank drive, driver's gamepad (`xerobase/tankdrive`, `xerobase/oi/DriverGamepad.cpp`) | action and motors, cached stick | power, timed power, path, nudge | given actions by the gamepad, a program or a detector |
| Shooter, intake | velocities, positions | control laws | given actions by the above |

What makes each correct, in one line: *Subsystem*: an action that runs was started and not
cancelled since, by whomever; a live action is never forgotten; the default action comes back.  *Conveyor*: the count
and the staging say what is in the conveyor, belts do not run on their own.  *Manipulator and
operator interface*: no collecting outside the collect modes, no shot while the intake is out,
every wait ends.  *Action tree*: every dispatched action is done, cancelled or replaced; a
sequence neither loses nor repeats a step.  *Autonomous modes*: each volley and collect is prepared,
nothing a mode waits for is cancelled, the mode ends.  *Life cycle*: a mode of the robot begins with what
belongs to it.  *Aiming*: a volley starts on target and goes on only with a lock.  *Climber*: the lifter stays
in its travel and moves only while it is asked to.  *Driving*: the motors answer to somebody.

The hazards, each with its line and the properties that look for it, are listed in
`PROJECT.json`.

## 2. Modules

| module | models | form |
|---|---|---|
| `Subsystem` | the subsystem tree | state machine, any tree, any actions |
| `SubsystemProofs` | theorems about it | TLAPS |
| `MCSubsystem` | a parent, a child and five action objects | TLC instance |
| `Conveyor` | the conveyor, its interpreter and its eight action classes | state machine |
| `BallLedger` | what the conveyor promises to its callers | abstract specification |
| `MCConveyor` | the conveyor implements the ledger | TLC instance, refinement mapping |
| `ConveyorPrograms` | the five programs read state by state, as lemmas | TLAPS |
| `ConveyorProofs` | theorems about `Conveyor`, the refinement among them | TLAPS |
| `DroidOI` | operator interface, manipulator actions, and the ledger below them | composition |
| `DroidOIProofs` | theorems about it | TLAPS |
| `AutoMode` | any autonomous mode as a tree of actions, its controller, and the ledger below it | composition |
| `DroidModes` | the modes of the match as trees | TLC instance |
| `AutoModeProofs` | theorems about `AutoMode` | TLAPS |
| `Aiming` | tracker, turret and the robot's movement, with `DroidOI` for all that fires | composition |
| `AimingProofs` | theorems about it | TLAPS |
| `Climb` | the climb controls, the climber, the lifter and its mechanism | composition |
| `ClimbProofs` | theorems about it | TLAPS |
| `Driving` | the robot's modes, its controllers, the driver's gamepad and the tank drive | composition |
| `DrivingProofs` | theorems about it | TLAPS |

`DroidOI` extends `BallLedger`, `AutoMode` instantiates it, `Aiming` instantiates `DroidOI`, and `MCConveyor` shows that `Conveyor`
implements it (`KeepsLedger`): those who give actions to the conveyor are checked against the
promise, the programs against the same promise.  Both halves are proved, the first for the real capacity of five balls, the second for any: `ConveyorKeepsLedger` says that the
programs go through no other behaviours than the ledger's, `LedgerIsRespected`, in
`DroidOIProofs` and in `AutoModeProofs`, that the operator interface, the modes and the manipulator ask for no others.

### Subsystem

`action`, `dflt` and `onDefault` are the three fields of `Subsystem`.  An action object is known by
`phase` (which of `start()` and `cancel()` was called last) and by membership in `finished`
(`isDone()`); whether a class calls `setDone()` in `cancel()` is the constant `CancelSetsDone`.
`setAction` is one handler with four outcomes, each an action: `SetActionRejected`,
`SetActionParentBusy`, `SetActionAccepted` and `SetActionNull`.  All that touches objects in one call
(cancel, detach, attach, start) is `Rewire`.  `Reset` is the recursion over the children in one step,
because no other code runs in between.  `turn` splits the loop into `run()` of one subsystem
each: every call can come between two of them, which is what actions of other subsystems do.
Two calls reach an action object past its subsystem.  `CancelObject` is `cancel()` by the maker of an object, which stays
attached wherever it is: `FireAction::stopChildActions` (`FireAction.cpp:225-228`) does so with its velocity action and
its emit action; the constant `Kept` is the set of such objects.  `CancelDispatch` is `DispatchAction::cancel` (`DispatchAction.cpp:41-47`)
of a blocking dispatch: `cancel()` on the object and `setAction(nullptr)` on the subsystem, in one step.
Therefore `WorkingIsStarted` speaks of actions that *work* (attached and not done), not of all that are attached: after a `CancelObject`
the subsystem holds a cancelled object, which `run()` skips because its class called `setDone()` in `cancel()`.
For a kept object whose class does not, nothing would stop `run()`, and the property excepts exactly that case.
`_canAcceptAction` is a fixed set of objects.

### Conveyor

The five programs are the lists given to `setStates`, one element per state, so that the model can
be read beside the constructors.  `Running(op)` and the `Do...` actions are
`ConveyorStateAction::run`: a step is one state, and `Continue` ends the loop.  `BeginRun` samples the
four sensors with any values.  Delays and timeouts are one bit, `armed`: a clock that is set may
expire at any later loop.  The literal 4 of `ConveyorReceiveAction.cpp:45` is `FifthBall`, next to
`MAX_BALLS`.  `collecting_` is not initialised by the constructor: `Init` takes either value.

### BallLedger and DroidOI

The ledger keeps the count, the staging, `collecting_`, which kind of action is unfinished and
whether an emit was asked to stop.  `DroidOI` adds the mode of the operator interface, the
manipulator's action and the intake's being busy.  A loop is `Operate` (the handler of the mode,
with all buttons as inputs), any number of ledger steps, `ChildrenRan` and `RunManip`.
`ChildrenRan` waits until the conveyor has done what it does without waiting (`Overdue`);
`NeverWaitsInVain` shows that the programs do.  `Disable` is `DisabledInit` followed by `TeleopInit`.
Asserts are compiled out (`NDEBUG`, `makefiles/compiler.mk:62`), as on the robot.

### AutoMode

A mode is a table of nodes in the order in which the constructors write them down; `up` is the parent and `last`
the last node below.  `DroidModes` has one row per node, its depth in front, in the order of the source
(`pushSubActionPair` with `block` is `Await`, without it `Give`), and `Laid` turns rows into a table.  Every node has its own
`done` and `index`, and an action object is known by the dispatch that owns it.  `call` is the top of the call stack:
each `start()` and `run()` of a node is a step (`StartDispatch` ... `RunParallel`), and so is its return to the class of the parent
(`Started`, `Ran`), which decides what is called next.  The rest of the stack need not be kept: a node has one parent,
and what a series or a parallel set remembers of a call is `index` or the place of the kid that returns.
`BeginTurn` is `AutoController::run`; nothing else happens until the call of the root returns.

`TreeAssumption` asks two things of a mode: it is a tree (`IsTree`), and what it waits for is kept apart from the rest
(`Disciplined`): ordered with every action that takes the same subsystem or one above it, and, on a child of the manipulator, not
behind a manipulator action whose end the mode has not waited for, unless another one came in between.  Nothing in the library enforces the second; a mode that
broke it would have its own actions cancelled.  The modes of the droid obey it, the ten ball mode too, as TLC finds when it
evaluates the assumption.  Order (`InOrder`) needs the first part only.

`Attach` is `Subsystem::setAction(.., true)`,
`CancelBelow` its recursion through the children; classes that the modes use are accepted by their
subsystems, so no refusal is modelled.  `ManipRuns` is
`Subsystem::run` of the manipulator with its three actions and its fallback; `MoveDone`, `DelayOver` and
`ConveyorMoves` are what ends in the children in between.  `Disable` is `DisabledInit` followed by
`AutonomousInit`: subsystems reset, a new mode made, the balls stay where they are.  The two variations of the
eight ball mode differ in the paths they drive only.

### Aiming

`DroidOI` takes "the target is ready" and "the wheel and the turret are ready" as free inputs.  `Aiming` is `DroidOI`
with these replaced by what `FireAction::run` reads: `locked` and `desired` of the tracker, `ready` of the turret,
`fast` of the drive base.  A loop is the turns of `DroidOI`, then `Follow`: the turret's run, the movement of turret
and robot, and the tracker's `computeState` of the next loop, in the order of the subsystems' `addChild`.  So
the fire action reads a lock of this loop and a ready flag of the last one, as in the code.  Angles are
bands; being in the same band stands for being within `turret:fire_threshold` and within
`targettracker:turret_lock_threshold`.  A camera sample is there or not in every loop.  `Moves` lets the robot stand, drive, or
turn in place, which moves the bearing of the target without a velocity (`TankDrive.h:122-124`).
`edge` forbids what the ledger does not know: the edge that the preparation to fire waits for takes two runs.

### Climb

One action per branch of `generateClimbActions`: `Locked`, `SkipDeploy`, `Deploy`, `NoteDeployed`,
`DeployAgain`, `Move`.  Each is followed in the same step by the dispatches it makes, unless the loop is `crowded`: the
sequence of the loop is one for all devices, and a blocking dispatch of the collect part
(`DroidOIDevice.cpp:303`) drops what stands behind it.  `LifterHolds`, `LifterFinished`, `LifterDeploys` and
`DeployEnds` are the lifter's turn with the hold, a finished power action, and the goto action before and at the end
of its profile; `AtLimit` is `ClimberUpDownAction::run`, which runs after them since parents run last.  `Clamp` is
`Lifter::setMotor`.  `zero` is where the encoder reads 0: `Disable` moves it
(`MotorEncoderSubsystem.cpp:77`).  The powers are those of `droid.dat`; the hold's are 0 there.

### Driving

`Enter` is `IterativeRobotBase::LoopFunc` as far as the init functions go, in any order of modes, and `Select` turns
the selector or changes the field's message at any moment.  `key` stands for the three values that
`Robot::updateAutoMode` compares (`DisabledInit` resets one of them), `program` for `actionptr_` of the controller: new, begun or gone.
The controller's turn is `Autonomous`, or one of `Detected` (a detector takes over, runs, ends, or is cancelled by
the A button) and `Drives` (a nudge, or the stick against its cache).  The tank drive is its `action_`, known
by who gave it, and its motors; `Give` is `setAction` with `start()`, and `TimeIsUp` the end of all actions that end.
The droid installs no detector, the library and an earlier robot
(`robots/deprecated/phaser`) do; the constant `TakeOver` says which.

## 3. Runs

| run | states | shows |
|---|---|---|
| `subsystem` | 97 381 | `TypeOK`, `WorkingIsStarted`, `DropsOnlyForDefault`, `TakeoverClearsBelow`; under fairness `DefaultComesBack` |
| `conveyor` | 282 016 | count, staging, clock and belts; the ledger is implemented; under fairness `BeltsComeToRest` |
| `droidoi` | 8 166 | modes, actions and count fit together; under fairness `IntakeComesBack` |
| `automode` | 109 921 | `InOrder`, `AwaitedIsNotCut`, `BeginsPrepared` in the three, five and eight ball modes; under fairness `ModeEnds` |
| `aiming` | 422 280 | a volley is aimed and locked; under fairness `SteadyAimIsReady` |
| `climb` | 39 612 | travel, power and the two drivers of the lifter; under fairness `DeployCompletes` |
| `driving` | 53 992 | motors, stick, takeover and the choice of the program; under fairness `TimedDrivesEnd` |

The other five runs end in a counterexample each; they state what a comment of the code says (section 6).

*Bounds.*  Two subsystems are enough for every clause of `Subsystem`: the code looks at "an
ancestor", "a child" and "itself" only, never at siblings or at two levels at once; the
theorems do without the bound.  Five actions give the child two objects that differ in
`CancelSetsDone`, both a default, the parent an accepted one, and one that is refused; the child's accepted
one is kept by its maker, as the emit action is, and the parent's does not call `setDone()` in `cancel()`, as a timed drive does not.  `Conveyor` runs with its real
capacity, five, since the fifth ball is special, and with one preset count (3); no counter is
capped by a bound of the model.  `DroidOI` runs with capacity five and without preset counts, which only
autonomous modes use; `AutoMode` has both.  The trees of `DroidModes` are those of the code, so nothing is bounded
there; the theorems are for any trees.  `Aiming` has two bands, on target and off it, and capacity one: the tracker and the turret know nothing of
the balls, and with more bands the turret only takes longer; the theorems are for any range and capacity.  `Climb` has
the limited zone, a deploy height above it, a maximum above that and a band beyond each end, so that every comparison is met
from both sides; `Driving` has powers within and beyond the tolerance of each other and three settings, two of them with a program.
No symmetry is used.

*Fairness.*  `Subsystem`: `WF(Loop)`, because the loop is timed and no call can hold it up.
`Conveyor`: `WF(Tick)`, the same.  `DroidOI`: `WF` of the three parts of the loop and of the conveyor's steps,
`SF(IntakeDone)`, because the intake follows a timed profile and reports done even when loops come
between, and `SF(BallPasses)`, because the receive program's timeout gives up a ball that never comes
in.  `AutoMode`: `WF` of the three parts of the loop, `SF(DelayOver)` and `SF(MoveDone)`, because both look at the clock
only, `SF` of what the conveyor's programs do without waiting for a new ball, with `SF` of their firing apart,
because an emit that is asked to stop still fires the ball it has begun with (`ConveyorEmitAction.cpp:56-60`), and
`SF(ChildrenRan("ready"))`: the target is found again and again, without which a fire action rightly waits.
`Aiming`: `WF(Next)`, since every turn is part of the loop, and `SF(FollowsOn)`: a turret that is driven
towards its target gets there (`FollowTargetAction.cpp:41-44` has a least output for that).  `Climb`:
`WF(Next)` and `SF(Arrive)`, because the profile of a deploy ends at its time.  `Driving`: `WF(Loop)`
and `SF(EndAction)`, because a timed drive looks at the clock only.  Nothing else is assumed of the operator, the target or the sensors.

## 4. Proofs

`SubsystemProofs`, for every tree, every set of actions, every home and acceptance relation
(assumptions: the ancestors are transitive and irreflexive, parents run after their children).
`WorkingIsStarted` is not inductive: a step that cancels the object of one subsystem
could cancel one attached to another.  The strengthening is `AttachedAtHome`, every object is only ever
attached to its own subsystem.  No assumption ties `Kept` to `CancelSetsDone`: the theorem `NeverRunsStale` holds of any classes,
with the exception the property names; where `Kept` lies within `CancelSetsDone`, as on the droid, it says that `run()` only drives what
was started and not cancelled since.  `RewireTyped` and `RewireStarted` are proved once about `Rewire`, and
every action of the module is an instance of them.  `DropsAreCancelled` proves the action property
`DropsOnlyForDefault` from the same invariant, and `TakeoversClear` that a subsystem that takes over finds nothing
running below it: the cancel goes through the whole tree below, and the new object is attached above.

`ConveyorPrograms` and `ConveyorProofs`, for every set of preset counts.  The invariant is what one would write in the
margin of each program: `Points` says what holds at which of its states (five conjuncts, one per program:
where there is a ball, where there is room, what is staged), and `Frame` what holds in all of them: types,
`StandsAtAWait` (between two loops a program stands at its start or at a state that waits), `ClockHasAnOwner` (the
clock runs for the state that is executed).  `CountsFit`, `CountedWhileStaged` and `StagedBallHeld` are read off it, the first
because the literal 4 (`FifthBall`) is `MAX_BALLS - 1`.  The action properties follow because the
clock is stopped at every way out of a wait and because each program's last state stops the belts.  For the refinement
(`ConveyorKeepsLedger`) each operation of the interpreter is mapped at each state that has it: a count to `CollectBall` or
`FireBall`, a put to one of the staging actions, the end of a program to `Finish`, all else to a stutter; `Points` says
that the ledger's guard holds there.  `ConveyorPrograms` looks the lists of states up, one lemma for each question about a program,
so that no proof about a step has to expand a list of 25 states.

`DroidOIProofs`, for every capacity and with or without disabling.  `ReceiveOnlyWhenCollecting` and
`NoOrphanShot` support each other and need nothing more; `NoShotWhileIntakeOut` needs
`NoFireWhileOut`: in the three modes with the intake out the fire action is gone and the conveyor has
a receive action, the stop action or none.  One lemma per operator of the ledger says what it keeps, one per
handler of the operator interface uses them.  `EmitsAreNotLost` needs three more parts, together `FInv`: in the shooting
modes the conveyor prepares to fire or fires (`OnlyShots`), what is there was staged to fire (`StagedToFire`), and the emit
of a fire action that counts on it was not asked to stop (`CountedOn`).  `LedgerIsRespected` maps each step to a step of `LedgerSpec` or a stutter.

`AimingProofs`, for every range of the turret and every capacity.  `LockIsCurrent` is inductive with the types of
its variables (`TypeCorrect`, which is proved only: a run would check nothing more).  `VolleyIsAimed` needs `ReadyIsTrue`: a ready flag together with a lock means, while the turret follows and
it is not the loop that gave the follow action, that the turret stands where the tracker points.  `NoShotWithoutLock` needs
`ShotIsKnown`: outside the manipulator's turn an emit of the fire action that is not told to stop belongs to
`firing`.  The lemmas say which step of `DroidOI` can give a shot: none of the operator's and none of the conveyor's.

`ClimbProofs`, for all heights with `1 < ClimbHeight <= MaxHeight < Top`.  `WithinTravel` and
`DrivenOnlyWhileAsked` need three more parts: a motor that is on belongs to a deploy or a fresh power action
(`LiftHasAnAction`, `DoneIsNew`), and before the mechanism moves its direction has room (`MovesWithin`).

`DrivingProofs`, for all powers, tolerances and settings.  `StickIsFollowed` needs `CacheIsMotor`: while the driver's action
is at work the cache of the gamepad is the power of the motors; the stick is then near it or is sent.
`TakeoverLeavesNothing` needs `DetectorKnows`, which relates the detector's sequence to the action of the tank drive.

`AutoModeProofs`, for every set of modes that are trees and `Disciplined`, every capacity and load.  The inductive invariant `IInv` says
where the walk can be.  Begun nodes have begun parents (`Opened`), a node that is done has all below it done (`Closed`); in a
series what is in front of `index` is done and what is behind it untouched (`InSeries`); a parallel set that has begun has begun all its kids, but for the one
and those behind it while its `start()` is at work (`InParallel`); and every node above the one on top of the call stack is begun, not done, and has
its `index` there (`OnPath`).  To this come the objects: a dispatch the mode waits for is done only when its object is finished (`Waited`), and what is
attached was given by a dispatch that has begun (`Attached`).  One lemma per way to move (`LeafStarts`, `StartedAll`,
`NodeRan`, `GoesOn`, `RunsOn`, `ParallelStarts`, `KidStarted`) keeps the walk, whatever happens to the objects.  `SequencesKeepOrder` reads the order off it; it holds for trees of every depth without
an induction, because `Opened` and `Closed` speak of all that is above or below.

`WaitsAreHonoured` takes the discipline and four facts that hold each other up (`Alone`): behind the dispatch that gave the manipulator its action no other
manipulator action has begun (`HolderIsLast`); while the mode waits for a child of the manipulator the latter has no action, whose end
would cancel the child (`ChildIsAlone`); and when the mode has seen a manipulator action end, nothing behind it begins before the
manipulator has dropped it (`SeenIsDropped`), because a series stops after each run.  That last stop is what the mutant
of the run takes away.

`BeginsArePrepared` is a theorem about modes in which every volley and collect is `Primed`: an awaited preparation stands before it, and
every other dispatch that the conveyor feels before the preparation or behind what it is for.  `StaysPrepared` then follows the pair:
from the one to the other the manipulator has no action, the conveyor none but the preparation, and once that is over
its result stays.  That the preparation was not cut short is `WaitsAreHonoured`.  `PrimedModes`, which TLC
evaluates, says that the modes of the match are primed and the ten ball mode is not; the finding of `automode_ten` is that its
second volley has no preparation.  For `LedgerIsRespected` each request (`Asks`) is one of three: the conveyor goes on or loses its action,
is given one, or its emit is asked to stop.

Only model-checked: all liveness; fairness and `ENABLED` are out of the prover's reach.  So are the mapping of the real trees to tables
(`Laid`) and the two assumptions on the droid's own modes, which are evaluated for these modes rather than proved.

## 5. Mutants

Each property of a passing run has a mutant, an operator just before the one it changes, with a
comment that names the bug: a forgotten cancel, a lost reset, a test dropped from a program.  TLC
finds the property violated with the mutant in place of the original.

## 6. Where comments, asserts and code differ

| run | what the code does | what it says |
|---|---|---|
| `droidoi_queue` | the manipulator's fallback cancels the action queued on the conveyor | "Queue the conveyor to prepare to fire." (`DroidOIDevice.cpp:201`) |
| `droidoi_finish` | a disable in mid-ball leaves `FinishingCollect` waiting for ever | "let it finish" (`DroidOIDevice.cpp:292`) |
| `automode_ten` | the series with the preparation of the second volley is never added to the mode | "Then, fire all five balls" (`DroidTenAutomode.cpp:116`) |
| `aiming_stale` | a lock survives a turn in place | "Returns true if we have up-to-date valid data." (`TargetTracker.h:32`) |
| `aiming_ready` | the ready flag survives the follow action; a volley starts at turret zero | "Returns true if the turret is aligned for a shot." (`Turret.h:20`) |

Others, seen while modelling and in traces of the runs, without a run of their own:

- `setAction(nullptr)` and `reset` drop a live action without `cancel()` ("Cancel any currently-running actions",
  `Subsystem.cpp:170`); a refused action makes a running default action count as busy ("do nothing else",
  `Subsystem.cpp:120`); `cancelAction` leaves the children alone ("It also cancels the actions for any children",
  `Subsystem.h:125`); a default action that is cancelled never runs again (`Subsystem.cpp:52-56`, `:64`).
- An object that is cancelled while it stays attached is only kept from running by `setDone()` in its class's `cancel()`.
  Those that do not call it: `DispatchAction`, `SequenceAction`, `ParallelAction`, `TankDriveTimedPowerAction`,
  `DriverGamepadRumbleAction`, `OIOutputAction`, `SmartDashboardAction`, and, since they inherit `Action::cancel`,
  `ConveyorOnAction`, `ConveyorStopAction`, `SetHoodAction`, `StartShootAction`, `ShootTestingAction`,
  `ClimberUpDownAction`, `LifterCalibrateAction`, `ControlPanelArmAction` and `BlinkyAction`.  The droid cancels none of
  these while it stays attached: its two kept objects are a `ShooterVelocityAction` and a `ConveyorStateAction`, and a
  dispatch is followed by `setAction(nullptr)`.
- The asserts of `DroidOIDevice.cpp:233-234` fail in legal histories; `CollectReady` starts a receive action on balls that
  another action has unstaged since (`:274`); `Turret`'s and `Intake`'s `canAcceptAction` are never asked, since generic
  actions are accepted first.
- The wheel of the ten ball mode, started at `DroidTenAutomode.cpp:49`, is cut long before its volley.
- Disabling the robot zeroes the lifter's encoder wherever the lifter stands, so that all its limits move up with it,
  although "If we're above the max height, don't allow movement at all" (`Lifter.h:37`); "In pit mode, the downwards
  position limit is disabled" (`Climber.h:34`), but `ClimberUpDownAction.cpp:49` stops at 0 in both modes; a deploy
  whose dispatch is dropped counts as deployed in the next loop; the lock leaves the traverser at its last power; once a
  button was used the up/down action stays attached, so that "they may want to try and deploy again"
  (`DroidOIDevice.cpp:511`) only works after a disable; `Climber::init` does not call `Subsystem::init`.
- A stick that is held still after a nudge or a disable is ignored until it moves; a takeover cut by a
  disable keeps the gamepad until A is pressed; going from autonomous to teleop without a disable keeps the
  program's drive action running.

## 7. Not modelled, and the plan

Control laws, paths, profiles and PID loops are real arithmetic; plots, dashboard and logging are
output; simulators, vision code, earlier robots and vendored libraries are outside the droid robot's
logic.  Most of the repository's lines are
of that kind: vendored WPI and simulator libraries, several copies of them, and the robots of earlier seasons.

Left out of what is modelled: `TerminateAction` and the cancel of a whole action tree (`SequenceAction.cpp:59` would index one
past the end, if anybody cancelled a sequence after its last step); the gamepad interrupt of `AutoController.cpp:23-27`,
which uses a pointer it has just set to null, but which no robot here asks for; the test mode, whose controller is null on
the droid (`Robot.cpp:573-574`); `LifterCalibrateAction` and the control panel spinner, which nobody starts;
the distance the tracker measures, hood and wheel of the shooter (one condition), lime light LED and camera switch.

Still worth doing: the shooter with its hood timing, so that the two ready flags of a volley come from the model; what becomes of
the three hazards that have no property yet.
