---------------------------- MODULE MCSubsystem ----------------------------
\* A parent and its child (the climber and its lifter, or the game piece
\* manipulator and its conveyor), two levels of the droid's tree.
EXTENDS Subsystem

CONSTANTS parent, child, p1, pd, c1, c2, cd

MCSubs == {parent, child}
MCAbove == [s \in MCSubs |-> IF s = child THEN {parent} ELSE {}]
MCRunOrder == <<child, parent>>
MCAct == {p1, pd, c1, c2, cd}
MCHome == [a \in MCAct |-> IF a \in {p1, pd} THEN parent ELSE child]
MCAsAction == {p1, c1}
MCAsDefault == {pd, cd}
MCCancelSetsDone == {c1}
\* c1: the emit action, which the fire action keeps and cancels itself.
MCKept == {c1}
============================================================================
