------------------------------ MODULE MCDelivery ------------------------------
(* Instances of Delivery for TLC: message 1 is private, message 2 goes to the
   sender's room. *)
EXTENDS Delivery
=============================================================================
