------------------------------ MODULE Driving ------------------------------
(***************************************************************************)
(* Who drives the robot: the modes the driver station puts it in           *)
(* (xerobase/Robot.cpp), the autonomous program made for the selector      *)
(* (Robot::updateAutoMode, AutoController), the teleop controller with a   *)
(* detector that may take over (TeleopController.cpp), the driver's        *)
(* gamepad with its nudges and its cached stick (oi/DriverGamepad.cpp),    *)
(* and the action and the motors of the tank drive (tankdrive/).           *)
(*                                                                         *)
(* The two sides of the tank drive are one power.  A loop is a turn of the *)
(* driver station, one of the controller and one of the tank drive.        *)
(***************************************************************************)
EXTENDS Integers

CONSTANTS
    Powers,     \* what the sticks, the nudges and the programs may ask for
    Tolerance,  \* driver:power:tolerance
    MaxDouble,  \* std::numeric_limits<double>::max()
    Settings,   \* what the selector and the field may say
    Runnable,   \* the settings there is an autonomous program for
    NoSetting,  \* automode_ is -1
    TakeOver    \* a detector is installed

ASSUME PowersAssumption ==
    /\ Powers \subseteq Int /\ 0 \in Powers
    /\ Tolerance \in Nat /\ MaxDouble \in Int
    /\ \A p \in Powers : MaxDouble - p > Tolerance
ASSUME SettingsAssumption ==
    Runnable \subseteq Settings /\ NoSetting \notin Settings /\ TakeOver \in BOOLEAN

VARIABLES
    phase,      \* the mode of the robot, and with it controller_
    turn,       \* whose part of the loop comes next
    setting,    \* what the selector and the field say now
    key,        \* automode_, gamedata_ and fms_connection_
    program,    \* actionptr_ of the autonomous controller
    made,       \* history: what the program was made for
    detector,   \* the detector and its sequence
    pad,        \* how the gamepad was read in this loop
    asked,      \* the power of the stick when it was last read
    cache,      \* left_ and right_ of the gamepad
    drive,      \* whose action is action_ of the tank drive
    driveDone,  \* its isDone()
    motor       \* the power of the motors

auto == <<key, program, made>>
gamepad == <<pad, asked, cache>>
tank == <<drive, driveDone, motor>>
vars == <<phase, turn, setting, auto, detector, gamepad, tank>>

TakenOver == detector \in {"starting", "driving", "finished"}
Moving == drive # "none" /\ ~driveDone

Init ==
    /\ phase = "disabled" /\ turn = "loop"
    /\ setting \in Settings /\ key = NoSetting
    /\ program = "null" /\ made = NoSetting
    /\ detector = IF TakeOver THEN "watching" ELSE "gone"
    /\ pad = "unread" /\ asked = 0 /\ cache = MaxDouble
    /\ drive = "none" /\ driveDone = FALSE /\ motor = 0
----------------------------------------------------------------------------
(***************************************************************************)
(* The tank drive's action.  A power action is only over when cancelled;   *)
(* the others stop the motors at their end.                                *)
(***************************************************************************)
\* Subsystem::setAction with an action that is started
Give(owner, p) == drive' = owner /\ driveDone' = FALSE /\ motor' = p

Drop == drive' = "none" /\ driveDone' = FALSE

\* Mutant of Reset: the motors are left to the actions' cancel.
ResetActions == Drop /\ UNCHANGED motor

\* TankDrive::reset
Reset == Drop /\ motor' = 0
----------------------------------------------------------------------------
(***************************************************************************)
(* The driver station.                                                     *)
(***************************************************************************)
\* Mutant of Make: there is a program for everything.
MakeAny == "new"

\* DroidAutoModeController::updateAutoMode
Make == IF setting \in Runnable THEN "new" ELSE "null"

\* Robot::updateAutoMode
UpdateAutoMode ==
    IF setting = key THEN UNCHANGED auto
    ELSE key' = setting /\ program' = Make /\ made' = setting

\* Mutant of DisabledInit: automode_ is not reset.
DisabledKeepsKey == Reset /\ UNCHANGED auto

DisabledInit == Reset /\ key' = NoSetting /\ UNCHANGED <<program, made>>

AutonomousInit == UpdateAutoMode /\ UNCHANGED tank

TeleopInit == UNCHANGED <<auto, tank>>

Enter(m) ==
    /\ turn = "station" /\ turn' = "loop"
    /\ phase' = m
    /\ IF phase = m THEN UNCHANGED <<auto, tank>>
       ELSE \/ m = "disabled" /\ DisabledInit
            \/ m = "autonomous" /\ AutonomousInit
            \/ m = "teleop" /\ TeleopInit
    /\ UNCHANGED <<setting, detector, gamepad>>

\* The selector is turned, the field sends its message, the FMS connects.
Select(s) ==
    /\ turn = "station" /\ s # setting
    /\ setting' = s
    /\ UNCHANGED <<phase, turn, auto, detector, gamepad, tank>>
----------------------------------------------------------------------------
(***************************************************************************)
(* The turn of the controller.                                             *)
(***************************************************************************)
Turn(m) == phase = m /\ turn = "loop" /\ turn' = "tank" /\ UNCHANGED <<phase, setting>>

DisabledLoop ==
    /\ phase = "disabled" /\ turn = "loop" /\ turn' = "station"
    /\ UpdateAutoMode
    /\ UNCHANGED <<phase, setting, detector, gamepad, tank>>

\* AutoController::run.  A program waits for the paths it gives to the tank drive.
NoProgram == program = "null" /\ UNCHANGED <<auto, tank>>
ProgramGoesOn ==
    /\ program # "null" /\ program' = "begun" /\ UNCHANGED <<key, made>>
    /\ \/ UNCHANGED tank
       \/ \E p \in Powers : Give("program", p)
ProgramEnds ==
    /\ program = "begun" /\ ~(drive = "program" /\ Moving)
    /\ program' = "null" /\ UNCHANGED <<key, made, tank>>

Autonomous ==
    /\ Turn("autonomous")
    /\ NoProgram \/ ProgramGoesOn \/ ProgramEnds
    /\ pad' = "unread" /\ UNCHANGED <<asked, cache, detector>>

\* Mutant of CancelTakeover: the sequence is dropped without its cancel.
RemoveOnly == TakenOver /\ detector' = "gone" /\ UNCHANGED tank

\* The A button: a sequence that has not run yet has nothing to cancel; the
\* cancel of its dispatch stops the motors and whatever the tank drive does.
CancelTakeover ==
    /\ TakenOver /\ detector' = "gone"
    /\ IF detector = "starting" THEN UNCHANGED tank ELSE Reset

\* Mutant of RunTakeover: the end of the sequence goes unnoticed.
RunsOn ==
    \/ /\ detector = "starting" /\ detector' = "driving"
       /\ \E p \in Powers : Give("detector", p)
    \/ detector \in {"driving", "finished"} /\ UNCHANGED <<detector, tank>>

\* The run of the detector's sequence: one timed drive, waited for.
RunTakeover ==
    \/ /\ detector = "starting" /\ detector' = "driving"
       /\ \E p \in Powers : Give("detector", p)
    \/ detector = "driving" /\ UNCHANGED <<detector, tank>>
    \/ detector = "finished" /\ detector' = "gone" /\ UNCHANGED tank

TakesOver == detector = "watching" /\ detector' = "starting" /\ UNCHANGED tank

Detected ==
    /\ Turn("teleop")
    /\ CancelTakeover \/ RunTakeover \/ TakesOver
    /\ pad' = "unread" /\ UNCHANGED <<asked, cache, auto>>

\* DriverGamepad::generateActions, and the run of the sequence it fills
Differs(p) == cache - p > Tolerance \/ p - cache > Tolerance

Nudge(p) == pad' = "pov" /\ Give("nudge", p) /\ UNCHANGED <<asked, cache>>

\* Mutant of Stick: what was read is cached, whether it was used or not.
StickCached(p) ==
    /\ pad' = "stick" /\ asked' = p /\ cache' = p
    /\ IF Differs(p) THEN Give("driver", p) ELSE UNCHANGED tank

Stick(p) ==
    /\ pad' = "stick" /\ asked' = p
    /\ IF Differs(p) THEN Give("driver", p) /\ cache' = p ELSE UNCHANGED <<tank, cache>>

Drives ==
    /\ Turn("teleop") /\ ~TakenOver
    /\ \E p \in Powers : Nudge(p) \/ Stick(p)
    /\ UNCHANGED <<auto, detector>>
----------------------------------------------------------------------------
(***************************************************************************)
(* The turn of the tank drive: Subsystem::run.                             *)
(***************************************************************************)
\* the default action, which is null
FallBack == drive # "none" /\ driveDone /\ Drop /\ UNCHANGED <<motor, detector>>

\* TankDriveFollowPathAction::run sets the motors, the timed power action waits.
RunAction ==
    \/ ~(drive # "none" /\ driveDone) /\ UNCHANGED <<tank, detector>>
    \/ drive = "program" /\ Moving /\ motor' \in Powers /\ UNCHANGED <<drive, driveDone, detector>>

TimeIsUp ==
    /\ drive \in {"program", "nudge", "detector"} /\ ~driveDone
    /\ driveDone' = TRUE /\ motor' = 0 /\ UNCHANGED drive
    /\ detector' = IF drive = "detector" THEN "finished" ELSE detector

Tank(Run) ==
    /\ turn = "tank" /\ turn' = "station"
    /\ Run
    /\ UNCHANGED <<phase, setting, auto, gamepad>>

RunTank == Tank(FallBack \/ RunAction)
EndAction == Tank(TimeIsUp)

Next ==
    \/ \E m \in {"disabled", "autonomous", "teleop"} : Enter(m)
    \/ \E s \in Settings : Select(s)
    \/ DisabledLoop \/ Autonomous \/ Detected \/ Drives
    \/ RunTank \/ EndAction

Spec == Init /\ [][Next]_vars

\* The robot loop is timed, and so are the nudges and the detector's drive.
Loop ==
    \/ \E m \in {"disabled", "autonomous", "teleop"} : Enter(m)
    \/ DisabledLoop \/ Autonomous \/ Detected \/ Drives
    \/ RunTank \/ EndAction
FairSpec == Spec /\ WF_vars(Loop) /\ SF_vars(EndAction)
----------------------------------------------------------------------------
(***************************************************************************)
(* Properties.                                                             *)
(***************************************************************************)
TypeOK ==
    /\ phase \in {"disabled", "autonomous", "teleop"}
    /\ turn \in {"station", "loop", "tank"}
    /\ setting \in Settings /\ key \in Settings \cup {NoSetting}
    /\ program \in {"null", "new", "begun"}
    /\ made \in Settings \cup {NoSetting}
    /\ program # "null" => made \in Runnable
    /\ detector \in {"watching", "starting", "driving", "finished", "gone"}
    /\ pad \in {"unread", "pov", "stick"}
    /\ asked \in Powers /\ cache \in Powers \cup {MaxDouble}
    /\ drive \in {"none", "program", "driver", "nudge", "detector"}
    /\ driveDone \in BOOLEAN /\ motor \in Powers

(***************************************************************************)
(* The motors are only on for an action that is attached and not over:     *)
(* no end, cancel, replacement, takeover, change of mode or disable leaves *)
(* a power behind that nobody answers for, although the cancel of a power  *)
(* action and of a path leaves the motors as they are                      *)
(* (TankDrivePowerAction.cpp:35-38, TankDriveFollowPathAction.cpp:201-206, *)
(* TankDrive.cpp:83-89).                                                   *)
(***************************************************************************)
PowerHasAnOwner == motor # 0 => Moving

(***************************************************************************)
(* While the driver's power action is at work, the motors are within the   *)
(* tolerance of what the stick asked for last, however slowly it creeps    *)
(* and whatever happened in between (DriverGamepad.cpp:262-267).           *)
(***************************************************************************)
StickIsFollowed ==
    pad = "stick" /\ drive = "driver" =>
        motor - asked <= Tolerance /\ asked - motor <= Tolerance

(***************************************************************************)
(* When the driver has the gamepad again after a takeover, nothing of the  *)
(* takeover drives: the cancel works without the run that the sequence     *)
(* does not get any more (TeleopController.cpp:51-56).                     *)
(***************************************************************************)
TakeoverLeavesNothing == ~TakenOver /\ drive = "detector" => driveDone

(***************************************************************************)
(* Autonomous starts with the program made for what the selector and the   *)
(* field say at that moment; after a disable it starts from the beginning, *)
(* with a program that has not run before, and with one whenever there is  *)
(* one (Robot.cpp:531-542 and 585-606).                                    *)
(***************************************************************************)
Begins == phase # "autonomous" /\ phase' = "autonomous"
IsCurrent == program' # "null" => made' = setting
IsFresh   == phase = "disabled" => program' = Make
ProgramIsFresh == [][Begins => IsCurrent /\ IsFresh]_vars

(***************************************************************************)
(* The drives on a clock end: a nudge, unless the driver keeps asking for  *)
(* it, and a takeover, which gives the gamepad back to the driver unless   *)
(* the robot leaves teleop.                                                *)
(***************************************************************************)
NudgeEnds == drive = "nudge" ~> drive # "nudge" \/ pad = "pov"
TakeoverEnds ==
    phase = "teleop" /\ detector = "driving" /\ drive = "detector"
        ~> detector = "gone" \/ phase # "teleop"
TimedDrivesEnd == NudgeEnds /\ TakeoverEnds
=============================================================================
