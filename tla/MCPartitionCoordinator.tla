------------------------- MODULE MCPartitionCoordinator -------------------------
(* PartitionCoordinator on small sets, for TLC. *)
EXTENDS PartitionCoordinator

CONSTANTS a1, a2, a3, k1, k2

\* The replicas of the agents alternate on the ring; k1 falls between two of
\* them, k2 comes after the last and so goes to the first.
MCHash ==
    [x \in (Nodes \X Replicas) \cup Keys |->
        CASE x = <<a1, 0>> -> 1
          [] x = <<a1, 1>> -> 5
          [] x = <<a2, 0>> -> 2
          [] x = <<a2, 1>> -> 6
          [] x = <<a3, 0>> -> 4
          [] x = <<a3, 1>> -> 8
          [] x = k1 -> 3
          [] x = k2 -> 9
          [] OTHER -> 0]
================================================================================
