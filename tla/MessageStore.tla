---------------------------- MODULE MessageStore ----------------------------
(***************************************************************************)
(* What the message table promises its callers, whatever batching is used  *)
(* underneath: a call is answered once, a positive answer is given only    *)
(* for a row already on disk, and a refused row is not on disk and never   *)
(* gets there, alone or in a group, unless the refusal was unsure.  Stated *)
(* by the header of src/src/database.cpp, lines 16 to 24, which knows no   *)
(* unsure refusals.                                                        *)
(***************************************************************************)
CONSTANT Items     \* everything a caller may ask to store

VARIABLES
  stored,    \* what is on disk
  accepted,  \* what callers were told is stored
  refused,   \* what callers were told is not
  unsure     \* the refused items of which nobody can say

svars == <<stored, accepted, refused, unsure>>

Init == stored = {} /\ accepted = {} /\ refused = {} /\ unsure = {}

Answered == accepted \cup refused

\* A group of rows reaches the disk as one, none of them refused for sure.
Persist ==
  /\ stored \subseteq stored' /\ stored' \subseteq Items
  /\ (stored' \ stored) \cap (refused \ unsure) = {}
  /\ UNCHANGED <<accepted, refused, unsure>>

Accept(r) ==
  /\ r \in stored \ Answered
  /\ accepted' = accepted \cup {r}
  /\ UNCHANGED <<stored, refused, unsure>>

\* The caller may send again: the row is not there and will not appear.
Refuse(r) ==
  /\ r \notin Answered \cup stored
  /\ refused' = refused \cup {r}
  /\ UNCHANGED <<stored, accepted, unsure>>

\* A refusal that says nothing about the row.
RefuseUnsure(r) ==
  /\ r \notin Answered
  /\ refused' = refused \cup {r} /\ unsure' = unsure \cup {r}
  /\ stored' \in {stored, stored \cup {r}}
  /\ UNCHANGED accepted

\* A write outside any batch: stored and answered under one hold of the mutex.
PersistAndAccept(r) ==
  /\ r \notin Answered \cup stored
  /\ stored' = stored \cup {r}
  /\ accepted' = accepted \cup {r}
  /\ UNCHANGED <<refused, unsure>>

Next ==
  \/ Persist
  \/ \E r \in Items : Accept(r) \/ Refuse(r) \/ RefuseUnsure(r) \/ PersistAndAccept(r)

Spec == Init /\ [][Next]_svars
=============================================================================
