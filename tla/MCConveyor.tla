----------------------------- MODULE MCConveyor -----------------------------
\* The conveyor implements the ball ledger: its programs change the count and the
\* staging only as the ledger says, and end having achieved what it promises.
EXTENDS Conveyor

Staged == (IF flag["stagedForCollect"] THEN {"collect"} ELSE {})
          \cup (IF flag["stagedForFire"] THEN {"fire"} ELSE {})

Job == IF Working THEN kind ELSE "none"

Ledger == INSTANCE BallLedger WITH
    MaxBalls <- MAX_BALLS, Jobs <- Kinds, stopping <- stop, collecting <- flag["collecting"],
    staged <- Staged, job <- Job

\* Every step of the conveyor's programs (conveyor/*.cpp) is a ledger step or
\* invisible to the callers.
KeepsLedger == Ledger!LedgerSpec

\* An action never waits for what has already come: whatever was done to the
\* conveyor before, one that has run and is still working (conveyor/*.cpp, the
\* branchStates of every program) has not got what ends it.
NeverWaitsInVain ==
    (loop = "control" /\ Working /\ at > 1) => ~Ledger!Overdue(kind)
============================================================================
