----------------------------- MODULE MCLifecycle -----------------------------
(***************************************************************************)
(* An instance of Lifecycle for TLC: db-init and a run by hand, with       *)
(* another address; an address that belongs to somebody is one the portal  *)
(* gave out, before or between.                                            *)
(***************************************************************************)
EXTENDS Lifecycle, TLC

CONSTANTS dbInit, byHand, r1

MCBoot == {dbInit, byHand}
MCEmail == {"first@", "second@"}
MCEmailOf == dbInit :> "first@" @@ byHand :> "second@"
=============================================================================
