----------------------------- MODULE MCSendQueue -----------------------------
(* Instances of SendQueue for TLC: plain and TLS connections. *)
EXTENDS SendQueue
=============================================================================
