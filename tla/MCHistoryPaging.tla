--------------------------- MODULE MCHistoryPaging ---------------------------
(* Instances of HistoryPaging for TLC. *)
EXTENDS HistoryPaging
=============================================================================
