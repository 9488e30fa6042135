----------------------------- MODULE DroidModes -----------------------------
(***************************************************************************)
(* The autonomous modes of the droid (automodes/Droid*Automode.cpp) as     *)
(* trees for AutoMode: a row is a node with its depth, below its parent.   *)
(***************************************************************************)
EXTENDS AutoMode, FiniteSetsExt, TLC

Series   == [type |-> "series"]
Parallel == [type |-> "parallel"]
Delay    == [type |-> "delay"]
Dispatch(s, a, wait) == [type |-> "dispatch", sub |-> s, act |-> a, wait |-> wait]
Await(s, a) == Dispatch(s, a, TRUE)
Give(s, a)  == Dispatch(s, a, FALSE)

SetBalls == Give("conveyor", "SetBalls")
Stage    == Await("conveyor", "PrepareToEmit")
Unstage  == Await("conveyor", "PrepareToReceive")
Collect  == Give("manip", "StartCollect")
Retract  == Await("manip", "StopCollect")
Shoot    == Await("manip", "Fire")
Drive    == Await("db", "Path")
Point    == Await("turret", "GoTo")
Follow   == Give("turret", "Follow")
SpinUp   == Give("shooter", "Velocity")

\* The tree of the rows.
Laid(rows) ==
    LET Above(n)  == {m \in 1..n - 1 : rows[m][1] < rows[n][1]}
        Beyond(n) == {m \in n + 1..Len(rows) : rows[m][1] <= rows[n][1]}
    IN  [n \in DOMAIN rows |->
            rows[n][2] @@ [up   |-> Max(Above(n) \cup {0}),
                           last |-> Min(Beyond(n) \cup {Len(rows) + 1}) - 1]]
----------------------------------------------------------------------------
Three == Laid(<<
    <<0, Series>>,
    <<1,   SetBalls>>,
    <<1,   Parallel>>,
    <<2,     SpinUp>>,
    <<2,     Stage>>,
    <<2,     Series>>,
    <<3,       Point>>,
    <<3,       Follow>>,
    <<1,   Shoot>>,
    <<1,   Drive>> >>)

Five == Laid(<<
    <<0, Series>>,
    <<1,   SetBalls>>,
    <<1,   Unstage>>,
    <<1,   Parallel>>,
    <<2,     Collect>>,
    <<2,     Drive>>,
    <<2,     Point>>,
    <<1,   Parallel>>,
    <<2,     Drive>>,
    <<2,     SpinUp>>,
    <<2,     Series>>,
    <<3,       Delay>>,
    <<3,       Follow>>,
    <<3,       Retract>>,
    <<3,       Stage>>,
    <<1,   Shoot>> >>)

Eight == Laid(<<
    <<0, Series>>,
    <<1,   SetBalls>>,
    <<1,   Parallel>>,
    <<2,     Series>>,
    <<3,       Point>>,
    <<3,       Follow>>,
    <<2,     Stage>>,
    <<2,     Drive>>,
    <<2,     SpinUp>>,
    <<1,   Shoot>>,
    <<1,   Parallel>>,
    <<2,     Drive>>,
    <<2,     Series>>,
    <<3,       Unstage>>,
    <<3,       Collect>>,
    <<1,   Retract>>,
    <<1,   Parallel>>,
    <<2,     Stage>>,
    <<2,     Series>>,
    <<3,       Point>>,
    <<3,       Follow>>,
    <<2,     Drive>>,
    <<2,     SpinUp>>,
    <<1,   Shoot>> >>)

\* The series of lines 105-109 is made and never added to anything.
Ten == Laid(<<
    <<0, Series>>,
    <<1,   Parallel>>,
    <<2,     Point>>,
    <<2,     SpinUp>>,
    <<2,     Series>>,
    <<3,       SetBalls>>,
    <<3,       Unstage>>,
    <<3,       Collect>>,
    <<2,     Drive>>,
    <<1,   Parallel>>,
    <<2,     Series>>,
    <<3,       Follow>>,
    <<3,       Retract>>,
    <<3,       Stage>>,
    <<2,     Drive>>,
    <<1,   Shoot>>,
    <<1,   Parallel>>,
    <<2,     Series>>,
    <<3,       Unstage>>,
    <<3,       Collect>>,
    <<2,     Drive>>,
    <<1,   Parallel>>,
    <<2,     Drive>>,
    <<1,   Shoot>> >>)

\* DroidAutoModeController::updateAutoMode.
MatchModes == [three |-> Three, five |-> Five, eight |-> Eight]
TenOnly    == [ten |-> Ten]

\* The ten ball mode has nothing that prepares for its second volley.
ASSUME PrimedModes ==
    /\ \A m \in DOMAIN MatchModes : Primed(MatchModes[m])
    /\ ~Primed(Ten)
============================================================================
