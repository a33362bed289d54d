----------------------- MODULE MCLowerBoundCoordinator -----------------------
(***************************************************************************)
(* A short budget and schedules in which the slices alternate, are cut off *)
(* by the budget, or have no length.                                       *)
(***************************************************************************)
EXTENDS LowerBoundCoordinator

Branch(t) == [actor |-> "Branch", seconds |-> t]
Sat(t) == [actor |-> "Sat", seconds |-> t]

SomeMultipliers == {100, 115, 150}

SomeSchedules ==
    {<<Branch(1), Sat(1), Branch(2)>>, <<Sat(1), Sat(0), Branch(9)>>}
=============================================================================
