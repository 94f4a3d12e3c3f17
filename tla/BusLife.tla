------------------------------- MODULE BusLife -------------------------------
(***************************************************************************)
(* What the wedge recovery promises about one driver instance: its bus is  *)
(* alive from probe until it is declared hung; a hung bus is never declared*)
(* alive again, the instance is torn down, and only a new probe starts a   *)
(* new life.                                                               *)
(***************************************************************************)
VARIABLE status

Init == status = "none"

Probe    == status = "none"  /\ status' = "alive"
Hang     == status = "alive" /\ status' = "hung"
Teardown == status # "none"  /\ status' = "none"

Next == Probe \/ Hang \/ Teardown

Spec == Init /\ [][Next]_status

(* A hung instance is eventually torn down; a live one may live forever. *)
FairSpec == Spec /\ WF_status(status = "hung" /\ Teardown)
=============================================================================
