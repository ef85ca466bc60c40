---------------------------- MODULE MCWebSession ----------------------------
(***************************************************************************)
(* Instances of WebSession for TLC: a manager and a viewer at one browser. *)
(***************************************************************************)
EXTENDS WebSession, TLC

CONSTANTS max, vic, s1, s2, s3

MCAccount == {max, vic}
MCRoleOf == max :> "MANAGER" @@ vic :> "VIEWER"
MCSession == {s1, s2, s3}
SessionSymmetry == Permutations(MCSession)
=============================================================================
