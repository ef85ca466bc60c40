---------------------------- MODULE MCAuditPages ----------------------------
(***************************************************************************)
(* Instances of AuditPages for TLC: four rows at first and one more to     *)
(* come, logged after, between or at the same instant as the others.       *)
(***************************************************************************)
EXTENDS AuditPages

MCRow == 1..5
MCTime == 2..7
MCInitLog == [x \in 1..4 |-> IF x <= 2 THEN x + 1 ELSE x + 2]
=============================================================================
