----------------------------- MODULE BallLedger -----------------------------
(***************************************************************************)
(* What the conveyor promises to those who give it actions, without its    *)
(* motors, sensors, delays and states: how each action may change the      *)
(* count and the staging of the balls, and what is true when it ends.      *)
(* The operator interface and FireAction decide by this alone.             *)
(***************************************************************************)
EXTENDS Naturals

CONSTANTS MaxBalls, Jobs, Preset

ASSUME LedgerAssumption ==
    /\ MaxBalls \in Nat \ {0}
    /\ Preset \subseteq 0..MaxBalls
    /\ {"Receive", "Emit", "PrepareToEmit", "PrepareToReceive", "Eject", "SetBalls"} \subseteq Jobs

VARIABLES
    balls,      \* ballCount_
    staged,     \* which of "collect" and "fire" the balls are staged for
    collecting, \* collecting_: a ball is on its way in
    job,        \* the kind of the unfinished action, "none" if there is none
    stopping    \* the emit action was asked to stop after the current shot

ledger == <<balls, staged, collecting, job, stopping>>

Empty == balls = 0
Full  == balls = MaxBalls
----------------------------------------------------------------------------
\* Any action may be replaced by another one at any time.
Assign(k, n) ==
    /\ job' = k
    /\ balls' = IF k = "SetBalls" THEN n ELSE balls
    /\ stopping' = (stopping /\ k # "Emit")
    /\ UNCHANGED <<staged, collecting>>

\* What an action has achieved when it ends by itself.
Achieved(k) ==
    CASE k = "Receive" -> ~collecting /\ (Full \/ "collect" \notin staged)
      [] k = "PrepareToReceive" -> Full \/ staged = {"collect"}
      [] k = "PrepareToEmit" -> Empty \/ "fire" \in staged
      [] k = "Emit" -> Empty \/ stopping \/ "fire" \notin staged
      [] k = "Eject" -> Empty /\ staged = {} /\ ~collecting
      [] k = "SetBalls" -> TRUE
      [] OTHER -> FALSE

Finish ==
    /\ job # "none" /\ Achieved(job)
    /\ job' = "none"
    /\ UNCHANGED <<balls, staged, collecting, stopping>>

Cancel ==
    /\ job # "none"
    /\ job' = "none"
    /\ UNCHANGED <<balls, staged, collecting, stopping>>

AskStop ==
    /\ job = "Emit"
    /\ stopping' = TRUE
    /\ UNCHANGED <<balls, staged, collecting, job>>

\* A ball at the intake, and one that is in or has slipped away.
SeeBall ==
    /\ job = "Receive" /\ "collect" \in staged /\ ~Full
    /\ collecting' = TRUE
    /\ UNCHANGED <<balls, staged, job, stopping>>

LoseBall ==
    /\ job = "Receive"
    /\ collecting' = FALSE
    /\ UNCHANGED <<balls, staged, job, stopping>>

\* Mutant of CollectBall: the conveyor is not asked whether it is full.
CollectUnbounded ==
    /\ job = "Receive" /\ "collect" \in staged /\ collecting
    /\ balls' = balls + 1
    /\ UNCHANGED <<staged, collecting, job, stopping>>

CollectBall ==
    /\ job = "Receive" /\ "collect" \in staged /\ collecting /\ ~Full
    /\ balls' = balls + 1
    /\ UNCHANGED <<staged, collecting, job, stopping>>

\* The first ball of a collect reaches the shooter end.
ReachShooter ==
    /\ job = "Receive"
    /\ staged' = staged \cup {"fire"}
    /\ UNCHANGED <<balls, collecting, job, stopping>>

StageForCollect ==
    /\ job = "PrepareToReceive" /\ ~Full
    /\ staged' = {"collect"} /\ collecting' = FALSE
    /\ UNCHANGED <<balls, job, stopping>>

StageForFire ==
    /\ job = "PrepareToEmit" /\ ~Empty
    /\ staged' = {"fire"} /\ collecting' = FALSE
    /\ UNCHANGED <<balls, job, stopping>>

BeginFiring ==
    /\ job = "Emit" /\ "fire" \in staged
    /\ staged' = staged \ {"collect"} /\ collecting' = FALSE
    /\ UNCHANGED <<balls, job, stopping>>

\* Firing starts by giving up the staging for a collect.
FireBall ==
    /\ job = "Emit" /\ staged = {"fire"} /\ ~Empty
    /\ balls' = balls - 1
    /\ UNCHANGED <<staged, collecting, job, stopping>>

FiredLast ==
    /\ job = "Emit" /\ Empty
    /\ staged' = staged \ {"fire"}
    /\ UNCHANGED <<balls, collecting, job, stopping>>

Dump ==
    /\ job = "Eject"
    /\ balls' = 0 /\ staged' = {} /\ collecting' = FALSE
    /\ UNCHANGED <<job, stopping>>

\* What action k does without waiting is still to be done: an action that has
\* run is never found like this.
Overdue(k) ==
    \/ k = "Receive" /\ Full
    \/ k = "Emit" /\ Empty
    \/ k = "PrepareToReceive" /\ (Full \/ Empty \/ "collect" \in staged)
    \/ k = "PrepareToEmit" /\ (Empty \/ "fire" \in staged)
    \/ k = "Eject" /\ (~Empty \/ staged # {} \/ collecting)
    \/ k = "SetBalls"

\* What the conveyor does of its own accord.
Internal ==
    \/ Finish \/ SeeBall \/ LoseBall \/ CollectBall \/ ReachShooter
    \/ StageForCollect \/ StageForFire \/ BeginFiring \/ FireBall \/ FiredLast \/ Dump

LedgerInit ==
    /\ balls = 0 /\ staged = {} /\ collecting \in BOOLEAN
    /\ job \in Jobs \cup {"none"} /\ stopping = FALSE

LedgerNext ==
    \/ \E k \in Jobs, n \in Preset \cup {0} : Assign(k, n)
    \/ Cancel \/ AskStop
    \/ Internal

LedgerSpec == LedgerInit /\ [][LedgerNext]_ledger
----------------------------------------------------------------------------
LedgerTypeOK ==
    /\ balls \in 0..MaxBalls
    /\ staged \subseteq {"collect", "fire"}
    /\ job \in Jobs \cup {"none"}
    /\ collecting \in BOOLEAN /\ stopping \in BOOLEAN
============================================================================
