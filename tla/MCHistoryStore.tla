--------------------------- MODULE MCHistoryStore ---------------------------
(* HistoryStore on a small instance. *)
EXTENDS HistoryStore
=============================================================================
