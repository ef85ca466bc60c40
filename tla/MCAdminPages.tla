----------------------------- MODULE MCAdminPages -----------------------------
(* An instance of AdminPages for TLC. *)
EXTENDS AdminPages

CONSTANTS nothing, name

\* The tab is loaded on the list of users; the other pages are moves away.
MCStarts == {nothing}
=============================================================================
