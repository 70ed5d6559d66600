---------------------------- MODULE DeliveryProofs ----------------------------
(***************************************************************************)
(* Theorems about Delivery, for any number of messages, connections,       *)
(* retries, sessions and crashes, any size of the window and any faults.   *)
(*                                                                         *)
(* They are about the server.  Its handlers take frames out of up and put  *)
(* answers into down; nothing here depends on what the client put there,   *)
(* so the theorems hold for any client that sends MESSAGE frames.          *)
(***************************************************************************)
EXTENDS Delivery, FiniteSetTheorems, SequenceTheorems, WellFoundedInduction, TLAPS

-----------------------------------------------------------------------------
(* The inductive invariant.                                                *)

\* The server's part of TypeOK; a handler that waits for a frame has no message.
ServerTypes ==
  /\ inRoom \in BOOLEAN /\ window \subseteq Msgs
  /\ pc \in [Links -> {"recv", "route", "broadcast", "lookup", "relay", "store"}]
  /\ cur \in [Links -> 0..NumMsgs] /\ tgt \in [Links -> 0..MaxSessions]
  /\ \A l \in Links : pc[l] = "recv" <=> cur[l] = 0
  /\ stored \in [Msgs -> Nat]
  /\ offline \in [Msgs -> {"none", "pending", "delivered"}]
  /\ onl \in 0..MaxSessions /\ open \in 0..MaxSessions /\ session \in 0..MaxSessions
  /\ rpc \in {"idle", "query", "push", "mark"}
  /\ rlist \subseteq Private /\ rcur \in 0..NumMsgs
  /\ acked \subseteq Msgs /\ refused \subseteq Msgs /\ relayed \subseteq Msgs
  /\ caught \subseteq Msgs /\ unfiled \subseteq Msgs /\ denied \subseteq Msgs
  /\ forgotten \in [Msgs -> Nat]

\* Past the insert, a handler's message has a row, and is where its kind goes.
HandInv ==
  \A l \in Links :
    /\ pc[l] \in {"lookup", "relay", "store"} => cur[l] \in Private /\ stored[cur[l]] > 0
    /\ pc[l] = "broadcast" => cur[l] \in Group /\ stored[cur[l]] > 0

\* The row of a private message leads somewhere, or a handler is past its insert.
RoutedInv ==
  \A m \in Private : stored[m] > 0
     => \/ m \in relayed \/ offline[m] # "none" \/ m \in caught \/ m \in unfiled
        \/ m \in denied
        \/ \E l \in Links : cur[l] = m /\ pc[l] \in {"lookup", "relay", "store"}

\* A row about to be marked has been relayed.
PushInv == RetiredWasRelayed /\ (rpc = "mark" => rcur \in relayed)

IInv ==
  /\ ServerTypes /\ HandInv /\ SlotMeansRouted /\ RowlessAckIsRepeat /\ RoutedInv
  /\ PushInv

\* The handlers that took m's slot and have not got as far as its insert.
Routing(m) == {l \in Links : cur[l] = m /\ pc[l] = "route"}

\* Rows and inserts to come are paid for by slots, the present one and those lost.
OnceInv ==
  \A m \in Msgs :
    stored[m] + Cardinality(Routing(m)) <= forgotten[m] + IF m \in window THEN 1 ELSE 0

-----------------------------------------------------------------------------
(* The actions, sorted by whose they are.                                  *)

ClientNext ==
  \/ \E m \in Msgs : ClientSend(m) \/ Retransmit(m) \/ Retry(m)
  \/ Connect \/ Disconnect \/ ClientReply \/ Quiet

\* Whatever the client does, the server stays as it is.
LEMMA ClientLeavesServer ==
  ASSUME ClientNext \/ UNCHANGED vars
  PROVE  UNCHANGED serverVars
  <1> USE DEF serverVars, vars, threadVars, tableVars, recvVars, replyVars
  <1>1. CASE \E m \in Msgs : ClientSend(m) \/ Retransmit(m) \/ Retry(m)
    BY <1>1 DEF ClientSend, Retransmit, Retry
  <1>2. CASE Connect \/ Disconnect \/ ClientReply \/ Quiet \/ UNCHANGED vars
    BY <1>2 DEF Connect, Disconnect, ClientReply, Quiet
  <1> QED
    BY <1>1, <1>2 DEF ClientNext

LEMMA NextIsOneOf ==
  ASSUME [Next]_vars
  PROVE  \/ ClientNext \/ UNCHANGED vars
         \/ \E l \in Links, m \in Msgs : Handle(l, m)
         \/ Receiver \/ Roam \/ Crash
  BY DEF Next, ClientNext

-----------------------------------------------------------------------------
(* Type correctness.                                                       *)

LEMMA InitTypes == Init => ServerTypes /\ HandInv
  <1> SUFFICES ASSUME Init PROVE ServerTypes /\ HandInv
    OBVIOUS
  <1>1. HandInv
    BY DEF Init, HandInv
  <1>2. /\ pc \in [Links -> {"recv", "route", "broadcast", "lookup", "relay", "store"}]
        /\ cur \in [Links -> 0..NumMsgs] /\ tgt \in [Links -> 0..MaxSessions]
        /\ \A l \in Links : pc[l] = "recv" <=> cur[l] = 0
    BY DeliveryAssumption DEF Init
  <1>3. /\ stored \in [Msgs -> Nat] /\ forgotten \in [Msgs -> Nat]
        /\ offline \in [Msgs -> {"none", "pending", "delivered"}]
    BY DEF Init
  <1>4. /\ onl \in 0..MaxSessions /\ open \in 0..MaxSessions
        /\ session \in 0..MaxSessions /\ rcur \in 0..NumMsgs
    BY DeliveryAssumption DEF Init
  <1> QED
    BY <1>1, <1>2, <1>3, <1>4 DEF Init, ServerTypes

\* A handler's step moves one handler, with its message.
LEMMA StepTypes ==
  ASSUME ServerTypes, NEW l \in Links, NEW m \in Msgs, NEW from,
         NEW to \in {"recv", "route", "broadcast", "lookup", "relay", "store"},
         Step(l, m, from, to), from # "recv"
  PROVE  /\ pc' \in [Links -> {"recv", "route", "broadcast", "lookup", "relay", "store"}]
         /\ cur' \in [Links -> 0..NumMsgs]
         /\ \A k \in Links : pc'[k] = "recv" <=> cur'[k] = 0
  BY DeliveryAssumption DEF ServerTypes, Step, Msgs

LEMMA HandleTypes ==
  ASSUME ServerTypes, NEW l \in Links, NEW m \in Msgs, Handle(l, m)
  PROVE  ServerTypes'
  <1> USE DeliveryAssumption DEF ServerTypes, recvVars, replyVars, tableVars, threadVars
  <1>1. CASE Limited(l, m)      BY <1>1 DEF Limited, Frame
  <1>2. CASE Duplicate(l, m)    BY <1>2 DEF Duplicate, Frame, Ack
  <1>3. CASE First(l, m)
    <2>1. /\ pc' = [pc EXCEPT ![l] = "route"] /\ cur' = [cur EXCEPT ![l] = m]
          /\ window' \subseteq Msgs
          /\ forgotten' = [k \in Msgs |-> forgotten[k] + IF k \in window \ window' THEN 1 ELSE 0]
          /\ UNCHANGED <<inRoom, tgt, tableVars, recvVars, relayed, caught, replyVars>>
      BY <1>3 DEF First, Frame
    <2>2. /\ cur' \in [Links -> 0..NumMsgs] /\ m # 0
          /\ forgotten' \in [Msgs -> Nat]
      BY <2>1, SMTT(60) DEF Msgs
    <2> QED
      BY <2>1, <2>2
  <1>4. CASE RouteRefused(l, m)
    BY <1>4, StepTypes DEF RouteRefused, Refuse, Step
  <1>12. CASE RouteDenied(l, m)
    <2>1. /\ pc' \in [Links -> {"recv", "route", "broadcast", "lookup", "relay", "store"}]
          /\ cur' \in [Links -> 0..NumMsgs]
          /\ \A k \in Links : pc'[k] = "recv" <=> cur'[k] = 0
      BY <1>12, StepTypes DEF RouteDenied
    <2> QED
      BY <1>12, <2>1 DEF RouteDenied, Refuse, Step
  <1>5. CASE RoutePrivate(l, m)
    <2>1. /\ pc' \in [Links -> {"recv", "route", "broadcast", "lookup", "relay", "store"}]
          /\ cur' \in [Links -> 0..NumMsgs]
          /\ \A k \in Links : pc'[k] = "recv" <=> cur'[k] = 0
      BY <1>5, StepTypes DEF RoutePrivate
    <2> QED
      BY <1>5, <2>1 DEF RoutePrivate, Ack, Step
  <1>6. CASE RouteGroup(l, m)
    <2>1. /\ pc' \in [Links -> {"recv", "route", "broadcast", "lookup", "relay", "store"}]
          /\ cur' \in [Links -> 0..NumMsgs]
          /\ \A k \in Links : pc'[k] = "recv" <=> cur'[k] = 0
      BY <1>6, StepTypes DEF RouteGroup
    <2> QED
      BY <1>6, <2>1 DEF RouteGroup, Step
  <1>7. CASE Broadcast(l, m)
    BY <1>7, StepTypes DEF Broadcast, Ack, Step
  <1>8. CASE Lookup(l, m)
    <2>1. Step(l, m, "lookup", IF onl = 0 THEN "store" ELSE "relay")
      BY <1>8 DEF Lookup
    <2>2. /\ pc' \in [Links -> {"recv", "route", "broadcast", "lookup", "relay", "store"}]
          /\ cur' \in [Links -> 0..NumMsgs]
          /\ \A k \in Links : pc'[k] = "recv" <=> cur'[k] = 0
      BY <2>1, StepTypes
    <2> QED
      BY <1>8, <2>2 DEF Lookup, Step
  <1>9. CASE Relayed(l, m)
    <2>1. /\ pc' \in [Links -> {"recv", "route", "broadcast", "lookup", "relay", "store"}]
          /\ cur' \in [Links -> 0..NumMsgs]
          /\ \A k \in Links : pc'[k] = "recv" <=> cur'[k] = 0
      BY <1>9, StepTypes DEF Relayed
    <2> QED
      BY <1>9, <2>1 DEF Relayed, Step
  <1>10. CASE RelayFails(l, m)
    BY <1>10, StepTypes DEF RelayFails, Step
  <1>11. CASE StoreOffline(l, m)
    <2>1. /\ pc' \in [Links -> {"recv", "route", "broadcast", "lookup", "relay", "store"}]
          /\ cur' \in [Links -> 0..NumMsgs]
          /\ \A k \in Links : pc'[k] = "recv" <=> cur'[k] = 0
      BY <1>11, StepTypes DEF StoreOffline
    <2> QED
      BY <1>11, <2>1 DEF StoreOffline, Step
  <1> QED
    BY <1>1, <1>2, <1>3, <1>4, <1>5, <1>6, <1>7, <1>8, <1>9, <1>10, <1>11,
       <1>12 DEF Handle

LEMMA ReceiverTypes ==
  ASSUME ServerTypes, Receiver
  PROVE  ServerTypes'
  <1> USE DeliveryAssumption DEF ServerTypes, envVars, threadVars, replyVars
  <1>1. CASE Online       BY <1>1 DEF Online
  <1>2. CASE PushQuery    BY <1>2 DEF PushQuery
  <1>3. CASE PushMark     BY <1>3 DEF PushMark
  <1>4. CASE PushEnd      BY <1>4 DEF PushEnd
  <1>5. CASE Offline      BY <1>5 DEF Offline
  <1>6. CASE CloseSocket  BY <1>6 DEF CloseSocket
  <1>7. ASSUME NEW m \in Private, PushRow(m)
        PROVE  ServerTypes'
    <2>1. m \in Msgs /\ m \in 0..NumMsgs
      BY DEF Msgs
    <2> QED
      BY <1>7, <2>1 DEF PushRow
  <1> QED
    BY <1>1, <1>2, <1>3, <1>4, <1>5, <1>6, <1>7 DEF Receiver

LEMMA CrashTypes ==
  ASSUME ServerTypes, Crash
  PROVE  ServerTypes'
  <1>1. caught' \subseteq Msgs
    <2>1. \A l \in Links : pc[l] # "recv" => cur[l] \in Msgs
      BY DeliveryAssumption DEF ServerTypes, Msgs
    <2>2. caught' = caught \cup {cur[l] : l \in {k \in Links : pc[k] # "recv"}}
      BY DEF Crash
    <2> QED
      BY <2>1, <2>2 DEF ServerTypes
  <1>2. forgotten' \in [Msgs -> Nat]
    BY DEF ServerTypes, Crash
  <1>3. /\ pc' \in [Links -> {"recv", "route", "broadcast", "lookup", "relay", "store"}]
        /\ cur' \in [Links -> 0..NumMsgs] /\ tgt' \in [Links -> 0..MaxSessions]
        /\ \A l \in Links : pc'[l] = "recv" <=> cur'[l] = 0
    BY DeliveryAssumption DEF Crash
  <1>4. /\ onl' \in 0..MaxSessions /\ open' \in 0..MaxSessions
        /\ session' \in 0..MaxSessions /\ rcur' \in 0..NumMsgs
    BY DeliveryAssumption DEF Crash, ServerTypes
  <1>5. UNCHANGED <<tableVars, acked, refused, relayed>>
        /\ inRoom' = FALSE /\ window' = {} /\ rpc' = "idle" /\ rlist' = {}
    BY DEF Crash, replyVars
  <1> QED
    BY <1>1, <1>2, <1>3, <1>4, <1>5 DEF ServerTypes, tableVars

LEMMA NextTypes == ServerTypes /\ [Next]_vars => ServerTypes'
  <1> SUFFICES ASSUME ServerTypes, [Next]_vars PROVE ServerTypes'
    OBVIOUS
  <1>1. CASE ClientNext \/ UNCHANGED vars
    BY <1>1, ClientLeavesServer
    DEF ServerTypes, serverVars, threadVars, tableVars, recvVars, replyVars
  <1>2. CASE Roam
    BY <1>2 DEF ServerTypes, Roam, threadVars, tableVars, recvVars, replyVars
  <1> QED
    BY <1>1, <1>2, NextIsOneOf, HandleTypes, ReceiverTypes, CrashTypes

-----------------------------------------------------------------------------
(* The server's steps and the invariant.                                   *)

LEMMA InitInv == Init => IInv
  <1> SUFFICES ASSUME Init PROVE IInv
    OBVIOUS
  <1>1. RetiredWasRelayed /\ rpc # "mark"
    BY DEF Init, RetiredWasRelayed
  <1>2. SlotMeansRouted /\ RowlessAckIsRepeat
    BY DEF Init, SlotMeansRouted, RowlessAckIsRepeat
  <1>3. RoutedInv
    BY DeliveryAssumption DEF Init, RoutedInv
  <1> QED
    BY <1>1, <1>2, <1>3, InitTypes DEF IInv, PushInv

\* A handler goes to the next place with a row in the table.
LEMMA HandleHand ==
  ASSUME ServerTypes, HandInv, NEW l \in Links, NEW m \in Msgs, Handle(l, m)
  PROVE  HandInv'
  <1> USE DeliveryAssumption DEF ServerTypes, HandInv, Group, threadVars, tableVars, recvVars, replyVars
  <1>1. CASE Limited(l, m)      BY <1>1 DEF Limited, Frame
  <1>2. CASE Duplicate(l, m)    BY <1>2 DEF Duplicate, Frame, Ack
  <1>3. CASE First(l, m)        BY <1>3 DEF First, Frame
  <1>4. CASE RouteRefused(l, m) BY <1>4 DEF RouteRefused, Refuse, Step
  <1>12. CASE RouteDenied(l, m) BY <1>12 DEF RouteDenied, Refuse, Step
  <1>5. CASE RoutePrivate(l, m) BY <1>5 DEF RoutePrivate, Ack, Step
  <1>6. CASE RouteGroup(l, m)   BY <1>6 DEF RouteGroup, Step
  <1>7. CASE Broadcast(l, m)    BY <1>7 DEF Broadcast, Ack, Step
  <1>8. CASE Lookup(l, m)       BY <1>8 DEF Lookup, Step
  <1>9. CASE Relayed(l, m)      BY <1>9 DEF Relayed, Step
  <1>10. CASE RelayFails(l, m)  BY <1>10 DEF RelayFails, Step
  <1>11. CASE StoreOffline(l, m) BY <1>11 DEF StoreOffline, Step
  <1> QED
    BY <1>1, <1>2, <1>3, <1>4, <1>5, <1>6, <1>7, <1>8, <1>9, <1>10, <1>11,
       <1>12 DEF Handle

\* A handler that lets go of a slot leaves a row or a refusal.
LEMMA HandleSlot ==
  ASSUME ServerTypes, HandInv, SlotMeansRouted, NEW l \in Links, NEW m \in Msgs, Handle(l, m)
  PROVE  SlotMeansRouted'
  <1> USE DeliveryAssumption DEF ServerTypes, HandInv, SlotMeansRouted, InHand, threadVars, tableVars, recvVars, replyVars
  <1>1. CASE Limited(l, m)      BY <1>1 DEF Limited, Frame
  <1>2. CASE Duplicate(l, m)    BY <1>2 DEF Duplicate, Frame, Ack
  <1>3. CASE First(l, m)
    <2>1. /\ window' \subseteq window \cup {m} /\ UNCHANGED <<stored, refused, acked, caught>>
          /\ cur[l] = 0 /\ cur' = [cur EXCEPT ![l] = m]
      BY <1>3 DEF First, Frame
    <2>2. InHand(m)' /\ \A k \in Msgs : InHand(k) => InHand(k)'
      BY <2>1 DEF Msgs
    <2> QED
      BY <2>1, <2>2
  <1>4. CASE RouteRefused(l, m) BY <1>4 DEF RouteRefused, Refuse, Step
  <1>12. CASE RouteDenied(l, m) BY <1>12 DEF RouteDenied, Refuse, Step
  <1>5. CASE RoutePrivate(l, m) BY <1>5 DEF RoutePrivate, Ack, Step
  <1>6. CASE RouteGroup(l, m)   BY <1>6 DEF RouteGroup, Step
  <1>7. CASE Broadcast(l, m)    BY <1>7 DEF Broadcast, Ack, Step
  <1>8. CASE Lookup(l, m)       BY <1>8 DEF Lookup, Step
  <1>9. CASE Relayed(l, m)      BY <1>9 DEF Relayed, Step
  <1>10. CASE RelayFails(l, m)  BY <1>10 DEF RelayFails, Step
  <1>11. CASE StoreOffline(l, m) BY <1>11 DEF StoreOffline, Step
  <1> QED
    BY <1>1, <1>2, <1>3, <1>4, <1>5, <1>6, <1>7, <1>8, <1>9, <1>10, <1>11,
       <1>12 DEF Handle

\* The ACK of a repetition comes from the window, any other from a row.
LEMMA HandleAck ==
  ASSUME ServerTypes, HandInv, SlotMeansRouted, RowlessAckIsRepeat, NEW l \in Links, NEW m \in Msgs, Handle(l, m)
  PROVE  RowlessAckIsRepeat'
  <1> USE DeliveryAssumption DEF ServerTypes, HandInv, SlotMeansRouted, RowlessAckIsRepeat, InHand, threadVars, tableVars, recvVars, replyVars
  <1>1. CASE Limited(l, m)      BY <1>1 DEF Limited, Frame
  <1>2. CASE Duplicate(l, m)    BY <1>2 DEF Duplicate, Frame, Ack
  <1>3. CASE First(l, m)
    <2>1. /\ window' \subseteq window \cup {m} /\ UNCHANGED <<stored, refused, acked, caught>>
          /\ cur[l] = 0 /\ cur' = [cur EXCEPT ![l] = m]
      BY <1>3 DEF First, Frame
    <2>2. InHand(m)' /\ \A k \in Msgs : InHand(k) => InHand(k)'
      BY <2>1 DEF Msgs
    <2> QED
      BY <2>1, <2>2
  <1>4. CASE RouteRefused(l, m) BY <1>4 DEF RouteRefused, Refuse, Step
  <1>12. CASE RouteDenied(l, m) BY <1>12 DEF RouteDenied, Refuse, Step
  <1>5. CASE RoutePrivate(l, m) BY <1>5 DEF RoutePrivate, Ack, Step
  <1>6. CASE RouteGroup(l, m)   BY <1>6 DEF RouteGroup, Step
  <1>7. CASE Broadcast(l, m)    BY <1>7 DEF Broadcast, Ack, Step
  <1>8. CASE Lookup(l, m)       BY <1>8 DEF Lookup, Step
  <1>9. CASE Relayed(l, m)      BY <1>9 DEF Relayed, Step
  <1>10. CASE RelayFails(l, m)  BY <1>10 DEF RelayFails, Step
  <1>11. CASE StoreOffline(l, m) BY <1>11 DEF StoreOffline, Step
  <1> QED
    BY <1>1, <1>2, <1>3, <1>4, <1>5, <1>6, <1>7, <1>8, <1>9, <1>10, <1>11,
       <1>12 DEF Handle

\* A handler parts with a private message's row by a relay or an offline row.
LEMMA HandleRouted ==
  ASSUME ServerTypes, HandInv, RoutedInv, NEW l \in Links, NEW m \in Msgs, Handle(l, m)
  PROVE  RoutedInv'
  <1> USE DeliveryAssumption DEF ServerTypes, HandInv, RoutedInv, Group, threadVars, tableVars, recvVars, replyVars
  <1>1. CASE Limited(l, m)      BY <1>1 DEF Limited, Frame
  <1>2. CASE Duplicate(l, m)    BY <1>2 DEF Duplicate, Frame, Ack
  <1>3. CASE First(l, m)        BY <1>3, ZenonT(60) DEF First, Frame
  <1>4. CASE RouteRefused(l, m) BY <1>4 DEF RouteRefused, Refuse, Step
  <1>12. CASE RouteDenied(l, m) BY <1>12 DEF RouteDenied, Refuse, Step
  <1>5. CASE RoutePrivate(l, m) BY <1>5 DEF RoutePrivate, Ack, Step
  <1>6. CASE RouteGroup(l, m)   BY <1>6 DEF RouteGroup, Step
  <1>7. CASE Broadcast(l, m)    BY <1>7 DEF Broadcast, Ack, Step
  <1>8. CASE Lookup(l, m)       BY <1>8 DEF Lookup, Step
  <1>9. CASE Relayed(l, m)      BY <1>9 DEF Relayed, Step
  <1>10. CASE RelayFails(l, m)  BY <1>10 DEF RelayFails, Step
  <1>11. CASE StoreOffline(l, m) BY <1>11 DEF StoreOffline, Step
  <1> QED
    BY <1>1, <1>2, <1>3, <1>4, <1>5, <1>6, <1>7, <1>8, <1>9, <1>10, <1>11,
       <1>12 DEF Handle

\* What a handler does to an offline row is to make it pending.
LEMMA HandlePush ==
  ASSUME ServerTypes, PushInv, NEW l \in Links, NEW m \in Msgs, Handle(l, m)
  PROVE  PushInv'
  <1> USE DeliveryAssumption DEF ServerTypes, PushInv, RetiredWasRelayed, threadVars, tableVars, recvVars, replyVars
  <1>1. CASE Limited(l, m)      BY <1>1 DEF Limited, Frame
  <1>2. CASE Duplicate(l, m)    BY <1>2 DEF Duplicate, Frame, Ack
  <1>3. CASE First(l, m)        BY <1>3 DEF First, Frame
  <1>4. CASE RouteRefused(l, m) BY <1>4 DEF RouteRefused, Refuse, Step
  <1>12. CASE RouteDenied(l, m) BY <1>12 DEF RouteDenied, Refuse, Step
  <1>5. CASE RoutePrivate(l, m) BY <1>5 DEF RoutePrivate, Ack, Step
  <1>6. CASE RouteGroup(l, m)   BY <1>6 DEF RouteGroup, Step
  <1>7. CASE Broadcast(l, m)    BY <1>7 DEF Broadcast, Ack, Step
  <1>8. CASE Lookup(l, m)       BY <1>8 DEF Lookup, Step
  <1>9. CASE Relayed(l, m)      BY <1>9 DEF Relayed, Step
  <1>10. CASE RelayFails(l, m)  BY <1>10 DEF RelayFails, Step
  <1>11. CASE StoreOffline(l, m) BY <1>11 DEF StoreOffline, Step
  <1> QED
    BY <1>1, <1>2, <1>3, <1>4, <1>5, <1>6, <1>7, <1>8, <1>9, <1>10, <1>11,
       <1>12 DEF Handle

\* The receiver's thread retires a row only after its relay, and no relay is
\* taken back.
LEMMA ReceiverInv ==
  ASSUME IInv, Receiver
  PROVE  /\ HandInv' /\ SlotMeansRouted' /\ RowlessAckIsRepeat' /\ RoutedInv'
         /\ PushInv'
  <1>1. UNCHANGED <<window, pc, cur, stored, unfiled, denied, acked, refused, caught>>
    BY DEF Receiver, Online, PushQuery, PushMark, PushEnd, Offline, CloseSocket,
           PushRow, envVars, threadVars, replyVars
  <1>2. HandInv' /\ SlotMeansRouted' /\ RowlessAckIsRepeat'
    BY <1>1 DEF IInv, HandInv, SlotMeansRouted, RowlessAckIsRepeat, InHand
  <1>3. /\ relayed \subseteq relayed'
        /\ \A m \in Msgs : offline[m] # "none" => offline'[m] # "none"
    BY DEF Receiver, Online, PushQuery, PushMark, PushEnd, Offline, CloseSocket,
           PushRow, IInv, ServerTypes
  <1>4. RoutedInv'
    <2>1. Private \subseteq Msgs
      BY DeliveryAssumption
    <2> QED
      BY <1>1, <1>3, <2>1 DEF IInv, RoutedInv
  <1>5. PushInv'
    <2> USE DEF IInv, ServerTypes, PushInv, RetiredWasRelayed
    <2>1. CASE Online       BY <2>1 DEF Online
    <2>2. CASE PushQuery    BY <2>2 DEF PushQuery
    <2>3. CASE PushMark     BY <2>3 DEF PushMark
    <2>4. CASE PushEnd      BY <2>4 DEF PushEnd
    <2>5. CASE Offline      BY <2>5 DEF Offline
    <2>6. CASE CloseSocket  BY <2>6 DEF CloseSocket
    <2>7. CASE \E m \in Private : PushRow(m)
      BY <2>7 DEF PushRow
    <2> QED
      BY <2>1, <2>2, <2>3, <2>4, <2>5, <2>6, <2>7 DEF Receiver
  <1> QED
    BY <1>2, <1>4, <1>5

\* A crash leaves the rows, and remembers whose handlers it caught.
LEMMA CrashInv ==
  ASSUME IInv, Crash
  PROVE  /\ HandInv' /\ SlotMeansRouted' /\ RowlessAckIsRepeat' /\ RoutedInv'
         /\ PushInv'
  <1>1. /\ pc' = [l \in Links |-> "recv"] /\ window' = {} /\ rpc' = "idle"
        /\ UNCHANGED <<stored, offline, unfiled, denied, acked, refused, relayed>>
        /\ caught' = caught \cup {cur[l] : l \in {k \in Links : pc[k] # "recv"}}
    BY DEF Crash, tableVars, replyVars
  <1>2. \A l \in Links : pc[l] # "recv" => cur[l] \in caught'
    BY <1>1
  <1>3. \A m \in Msgs : InHand(m) => m \in caught'
    BY <1>2 DEF IInv, ServerTypes, InHand, Msgs
  <1>4. HandInv' /\ SlotMeansRouted'
    BY <1>1 DEF HandInv, SlotMeansRouted
  <1>5. RowlessAckIsRepeat'
    BY <1>1, <1>3 DEF IInv, ServerTypes, RowlessAckIsRepeat
  <1>6. RoutedInv'
    BY <1>1, <1>2 DEF IInv, RoutedInv
  <1>7. PushInv'
    BY <1>1 DEF IInv, PushInv, RetiredWasRelayed
  <1> QED
    BY <1>4, <1>5, <1>6, <1>7

LEMMA NextInv == IInv /\ [Next]_vars => IInv'
  <1> SUFFICES ASSUME IInv, [Next]_vars PROVE IInv'
    OBVIOUS
  <1>1. CASE ClientNext \/ UNCHANGED vars \/ Roam
    <2>1. UNCHANGED <<window, threadVars, tableVars, recvVars, replyVars, relayed, caught>>
      <3>1. CASE Roam
        BY <3>1 DEF Roam
      <3>2. CASE ClientNext \/ UNCHANGED vars
        BY <3>2, ClientLeavesServer DEF serverVars
      <3> QED
        BY <1>1, <3>1, <3>2
    <2>2. UNCHANGED <<pc, cur, stored, offline, unfiled, denied, rpc, rcur, acked, refused>>
      BY <2>1 DEF threadVars, tableVars, recvVars, replyVars
    <2>3. HandInv' /\ SlotMeansRouted' /\ RowlessAckIsRepeat'
      BY <2>1, <2>2 DEF IInv, HandInv, SlotMeansRouted, RowlessAckIsRepeat, InHand
    <2>4. RoutedInv' /\ PushInv'
      BY <2>1, <2>2 DEF IInv, RoutedInv, PushInv, RetiredWasRelayed
    <2> QED
      BY <2>3, <2>4, NextTypes DEF IInv
  <1>2. CASE \E l \in Links, m \in Msgs : Handle(l, m)
    BY <1>2, HandleTypes, HandleHand, HandleSlot, HandleAck, HandleRouted, HandlePush
    DEF IInv
  <1>3. CASE Receiver
    BY <1>3, NextTypes, ReceiverInv DEF IInv
  <1>4. CASE Crash
    BY <1>4, NextTypes, CrashInv DEF IInv
  <1> QED
    BY <1>1, <1>2, <1>3, <1>4, NextIsOneOf

\* Whatever the client, the receiver and crashes do, the parts of the invariant
\* hold together (doMessage, pushOffline).
LEMMA InvariantHolds == Spec => []IInv
  BY InitInv, NextInv, PTL DEF Spec

LEMMA ServerTypesHold == Spec => []ServerTypes
  <1>1. IInv => ServerTypes
    BY DEF IInv
  <1> QED
    BY <1>1, InvariantHolds, PTL

-----------------------------------------------------------------------------
(* The client's variables.                                                 *)

\* The least-number principle.
LEMMA LeastNumber ==
  ASSUME NEW T \in SUBSET Nat, T # {}
  PROVE  \E x \in T : \A y \in T : x <= y
  <1>1. PICK x \in T : \A y \in T : ~(<<y, x>> \in OpToRel(<, Nat))
    BY WFMin, NatLessThanWellFounded
  <1>2. ASSUME NEW y \in T
        PROVE  x <= y
    <2>1. ~(<<y, x>> \in OpToRel(<, Nat))
      BY <1>1
    <2>2. <<y, x>> \in Nat \X Nat /\ <<y, x>>[1] = y /\ <<y, x>>[2] = x
      OBVIOUS
    <2>3. ~(y < x)
      BY <2>1, <2>2 DEF OpToRel
    <2> QED
      BY <2>3
  <1> QED
    BY <1>2

\* Induction, for a property of numbers that is given as the set that has it.
LEMMA NumbersInduction ==
  ASSUME NEW T, 0 \in T, \A n \in Nat : n \in T => n + 1 \in T
  PROVE  Nat \subseteq T
  <1> SUFFICES ASSUME Nat \ T # {} PROVE FALSE
    OBVIOUS
  <1>1. PICK x \in Nat \ T : \A y \in Nat \ T : x <= y
    BY LeastNumber
  <1>2. x # 0 /\ x - 1 \in Nat /\ (x - 1) + 1 = x /\ ~(x <= x - 1)
    BY <1>1
  <1>3. x - 1 \in T
    BY <1>1, <1>2
  <1> QED
    BY <1>1, <1>2, <1>3

\* f lists the states of a loop over 1..n that starts with c and whose step
\* takes the state k - 1 to the state k.
IsLoop(f, n, S, c, step) ==
  /\ f \in [0..n -> S]
  /\ f[0] = c
  /\ \A k \in 1..n : f[k] = step[<<k, f[k - 1]>>]

\* There is one.
LEMMA LoopExists ==
  ASSUME NEW n \in Nat, NEW S, NEW c \in S, NEW step \in [(1..n) \X S -> S]
  PROVE  \E f : IsLoop(f, n, S, c, step)
  <1> DEFINE P(m) == \E f \in [0..m -> S] :
                       /\ f[0] = c
                       /\ \A k \in 1..m : f[k] = step[<<k, f[k - 1]>>]
             T == {m \in Nat : m <= n => P(m)}
  <1>1. 0 \in T
    <2>1. P(0)
      <3> DEFINE f == [k \in 0..0 |-> c]
      <3>1. f \in [0..0 -> S] /\ f[0] = c /\ 1..0 = {}
        OBVIOUS
      <3> QED
        BY <3>1
    <2> QED
      BY <2>1
  <1>2. ASSUME NEW m \in Nat, m \in T, m + 1 <= n
        PROVE  P(m + 1)
    <2>1. m <= n
      BY <1>2
    <2>2. PICK f \in [0..m -> S] : /\ f[0] = c
                                   /\ \A k \in 1..m : f[k] = step[<<k, f[k - 1]>>]
      BY <1>2, <2>1
    <2> DEFINE g == [k \in 0..m + 1 |-> IF k = m + 1 THEN step[<<m + 1, f[m]>>] ELSE f[k]]
    <2>3. step[<<m + 1, f[m]>>] \in S
      <3>1. m + 1 \in 1..n /\ f[m] \in S
        BY <1>2, <2>2
      <3>2. <<m + 1, f[m]>> \in (1..n) \X S
        BY <3>1
      <3> QED
        BY <3>2
    <2>4. g \in [0..m + 1 -> S] /\ g[0] = c
      BY <2>2, <2>3
    <2>5. ASSUME NEW k \in 1..m + 1 PROVE g[k] = step[<<k, g[k - 1]>>]
      <3>1. CASE k = m + 1
        <4>1. k - 1 = m /\ m \in 0..m + 1 /\ m # m + 1 /\ k \in 0..m + 1
          BY <3>1
        <4>2. g[k - 1] = f[m] /\ g[k] = step[<<m + 1, f[m]>>]
          BY <3>1, <4>1
        <4> QED
          BY <3>1, <4>2
      <3>2. CASE k # m + 1
        <4>1. k \in 1..m /\ k \in 0..m + 1 /\ k - 1 \in 0..m + 1 /\ k - 1 # m + 1
          BY <3>2
        <4>2. g[k - 1] = f[k - 1] /\ g[k] = f[k]
          BY <3>2, <4>1
        <4> QED
          BY <2>2, <4>1, <4>2
      <3> QED
        BY <3>1, <3>2
    <2> HIDE DEF g
    <2> QED
      BY <2>4, <2>5
  <1>3. \A m \in Nat : m \in T => m + 1 \in T
    <2> SUFFICES ASSUME NEW m \in Nat, m \in T PROVE m + 1 \in T
      OBVIOUS
    <2>1. m + 1 <= n => P(m + 1)
      BY <1>2
    <2> HIDE DEF P
    <2> QED
      BY <2>1
  <1> HIDE DEF T
  <1>4. n \in T
    BY <1>1, <1>3, NumbersInduction
  <1> QED
    BY <1>4 DEF T, IsLoop

\* The loop of _flush_pending makes a sequence of messages (Flushed).
LEMMA FlushedIsASequence == Flushed[NumMsgs] \in Seq(Msgs)
  <1> DEFINE S == {m \in Msgs : Sendable(m)}
             step == [x \in (1..NumMsgs) \X Seq(Msgs) |->
                        IF x[1] \in S THEN Append(x[2], x[1]) ELSE x[2]]
             T == {n \in Nat : n <= NumMsgs => Flushed[n] \in Seq(Msgs)}
  <1>1. NumMsgs \in Nat /\ Msgs = 1..NumMsgs
    BY DeliveryAssumption DEF Msgs
  <1>2. /\ << >> \in Seq(Msgs)
        /\ step \in [(1..NumMsgs) \X Seq(Msgs) -> Seq(Msgs)]
        /\ \A k \in 1..NumMsgs, q \in Seq(Msgs) :
             step[<<k, q>>] = IF Sendable(k) THEN Append(q, k) ELSE q
    <2> HIDE DEF S
    <2>1. ASSUME NEW x \in (1..NumMsgs) \X Seq(Msgs)
          PROVE  (IF x[1] \in S THEN Append(x[2], x[1]) ELSE x[2]) \in Seq(Msgs)
      <3>1. x[1] \in Msgs /\ x[2] \in Seq(Msgs)
        BY <1>1
      <3>2. Append(x[2], x[1]) \in Seq(Msgs)
        BY <3>1, AppendProperties
      <3> QED
        BY <3>1, <3>2
    <2>2. \A k \in 1..NumMsgs : k \in S <=> Sendable(k)
      BY <1>1 DEF S
    <2> QED
      BY <1>1, <2>1, <2>2
  <1> HIDE DEF step
  <1>3. PICK f \in [0..NumMsgs -> Seq(Msgs)] :
          f[0] = << >> /\ \A k \in 1..NumMsgs : f[k] = step[<<k, f[k - 1]>>]
    <2> DEFINE Q == Seq(Msgs)
               empty == << >>
    <2>1. empty \in Q /\ step \in [(1..NumMsgs) \X Q -> Q] /\ NumMsgs \in Nat
      BY <1>1, <1>2
    <2> HIDE DEF Q, empty
    <2>2. \E f : IsLoop(f, NumMsgs, Q, empty, step)
      BY <2>1, LoopExists
    <2> QED
      BY <2>2 DEF Q, empty, IsLoop
  <1>4. f = [m \in 0..NumMsgs |->
               IF m = 0 THEN << >>
               ELSE IF Sendable(m) THEN Append(f[m - 1], m) ELSE f[m - 1]]
    <2>1. ASSUME NEW m \in 0..NumMsgs
          PROVE  f[m] = IF m = 0 THEN << >>
                        ELSE IF Sendable(m) THEN Append(f[m - 1], m) ELSE f[m - 1]
      <3>1. CASE m = 0
        BY <1>3, <3>1
      <3>2. CASE m # 0
        <4>1. m \in 1..NumMsgs /\ m - 1 \in 0..NumMsgs
          BY <1>1, <3>2
        <4>2. f[m - 1] \in Seq(Msgs)
          BY <1>3, <4>1
        <4> QED
          BY <1>2, <1>3, <3>2, <4>1, <4>2
      <3> QED
        BY <3>1, <3>2
    <2> QED
      BY <1>3, <2>1
  <1>5. Flushed = [m \in 0..NumMsgs |->
               IF m = 0 THEN << >>
               ELSE IF Sendable(m) THEN Append(Flushed[m - 1], m) ELSE Flushed[m - 1]]
    BY <1>4 DEF Flushed
  <1>6. \A m \in 0..NumMsgs :
          Flushed[m] = IF m = 0 THEN << >>
                       ELSE IF Sendable(m) THEN Append(Flushed[m - 1], m) ELSE Flushed[m - 1]
    BY <1>5
  <1>7. 0 \in T
    <2>1. 0 \in 0..NumMsgs
      BY <1>1
    <2>2. Flushed[0] = << >>
      BY <1>6, <2>1
    <2> QED
      BY <1>2, <2>2
  <1>8. \A n \in Nat : n \in T => n + 1 \in T
    <2> SUFFICES ASSUME NEW n \in Nat, n \in T, n + 1 <= NumMsgs
                 PROVE  Flushed[n + 1] \in Seq(Msgs)
      OBVIOUS
    <2>1. Flushed[n] \in Seq(Msgs) /\ n + 1 \in Msgs
          /\ n + 1 \in 0..NumMsgs /\ (n + 1) - 1 = n /\ n + 1 # 0
      BY <1>1
    <2>2. Append(Flushed[n], n + 1) \in Seq(Msgs)
      BY <2>1
    <2> QED
      BY <1>6, <2>1, <2>2
  <1> HIDE DEF T
  <1>9. NumMsgs \in T
    BY <1>1, <1>7, <1>8, NumbersInduction
  <1> QED
    BY <1>1, <1>9 DEF T

Answers == [type : {"ACK", "NACK"}, msg : Msgs]

ClientTypes ==
  /\ pend \in [Msgs -> {"none", "sending", "failed", "acked"}]
  /\ attempts \in [Msgs -> 0..MaxAttempts]
  /\ link \in 0..MaxLinks /\ links \in 0..MaxLinks /\ retries \in 0..MaxRetries
  /\ up \in [Links -> Seq(Msgs)] /\ down \in [Links -> Seq(Answers)]
  /\ crashes \in 0..MaxCrashes

\* One more frame on the client's connection.
LEMMA FrameGoesUp ==
  ASSUME ClientTypes, NEW m \in Msgs, link # 0,
         up' = [up EXCEPT ![link] = Append(@, m)]
  PROVE  up' \in [Links -> Seq(Msgs)]
  <1>1. link \in Links
    BY DeliveryAssumption DEF ClientTypes, Links
  <1>2. Append(up[link], m) \in Seq(Msgs)
    BY <1>1 DEF ClientTypes
  <1> QED
    BY <1>1, <1>2 DEF ClientTypes

LEMMA TrySendTypes ==
  ASSUME ClientTypes, NEW m \in Msgs, TrySend(m)
  PROVE  /\ pend' \in [Msgs -> {"none", "sending", "failed", "acked"}]
         /\ attempts' \in [Msgs -> 0..MaxAttempts]
         /\ up' \in [Links -> Seq(Msgs)]
  <1>1. CASE attempts[m] >= MaxAttempts
    BY <1>1 DEF TrySend, ClientTypes
  <1>2. CASE ~(attempts[m] >= MaxAttempts) /\ link = 0
    BY <1>2 DEF TrySend, ClientTypes
  <1>3. CASE ~(attempts[m] >= MaxAttempts) /\ link # 0
    <2>1. /\ pend' = [pend EXCEPT ![m] = "sending"]
          /\ attempts' = [attempts EXCEPT ![m] = @ + 1]
          /\ up' = [up EXCEPT ![link] = Append(@, m)]
      BY <1>3 DEF TrySend
    <2>2. attempts[m] + 1 \in 0..MaxAttempts
      BY <1>3, DeliveryAssumption DEF ClientTypes
    <2> QED
      BY <1>3, <2>1, <2>2, FrameGoesUp DEF ClientTypes
  <1> QED
    BY <1>1, <1>2, <1>3

\* What an answer does to down.
LEMMA AnswerTypes ==
  ASSUME ClientTypes, NEW l \in Links, NEW m \in Msgs, NEW type \in {"ACK", "NACK"},
         Answer(l, m, type)
  PROVE  down' \in [Links -> Seq(Answers)]
  <1>1. [type |-> type, msg |-> m] \in Answers
    BY DEF Answers
  <1>2. Append(down[l], [type |-> type, msg |-> m]) \in Seq(Answers)
    BY <1>1 DEF ClientTypes
  <1> QED
    BY <1>2 DEF Answer, ClientTypes

LEMMA ClientStepTypes ==
  ASSUME ClientTypes, ClientNext
  PROVE  ClientTypes'
  <1> USE DEF serverVars
  <1>1. ASSUME NEW m \in Msgs, ClientSend(m) \/ Retransmit(m)
        PROVE  ClientTypes'
    BY <1>1, TrySendTypes DEF ClientSend, Retransmit, ClientTypes
  <1>2. ASSUME NEW m \in Msgs, Retry(m)
        PROVE  ClientTypes'
    <2>1. up' \in [Links -> Seq(Msgs)]
      BY <1>2, FrameGoesUp DEF Retry, ClientTypes
    <2>2. attempts' \in [Msgs -> 0..MaxAttempts]
      <3>1. 0 \in 0..MaxAttempts /\ 1 \in 0..MaxAttempts
        BY DeliveryAssumption
      <3>2. \/ attempts' = [attempts EXCEPT ![m] = 0]
            \/ attempts' = [attempts EXCEPT ![m] = 1]
        BY <1>2 DEF Retry
      <3> QED
        BY <3>1, <3>2 DEF ClientTypes
    <2>3. retries' \in 0..MaxRetries
      BY <1>2, DeliveryAssumption DEF Retry, ClientTypes
    <2> QED
      BY <1>2, <2>1, <2>2, <2>3 DEF Retry, ClientTypes
  <1>3. CASE Connect
    <2>1. links + 1 \in 0..MaxLinks /\ links + 1 \in Links
      BY <1>3, DeliveryAssumption DEF Connect, ClientTypes, Links
    <2>2. up' \in [Links -> Seq(Msgs)]
      BY <1>3, <2>1, FlushedIsASequence DEF Connect, ClientTypes
    <2>3. attempts' \in [Msgs -> 0..MaxAttempts]
      <3>1. \A m \in Msgs : attempts[m] + (IF Sendable(m) THEN 1 ELSE 0) \in 0..MaxAttempts
        BY DeliveryAssumption DEF Sendable, ClientTypes
      <3> QED
        BY <1>3, <3>1 DEF Connect
    <2>4. pend' \in [Msgs -> {"none", "sending", "failed", "acked"}]
      BY <1>3 DEF Connect, ClientTypes
    <2> QED
      BY <1>3, <2>1, <2>2, <2>3, <2>4 DEF Connect, ClientTypes
  <1>4. CASE Disconnect
    <2>1. link \in Links
      BY <1>4, DeliveryAssumption DEF Disconnect, ClientTypes, Links
    <2>2. PICK k \in 0..Len(up[link]) : up' = [up EXCEPT ![link] = SubSeq(@, 1, k)]
      BY <1>4 DEF Disconnect
    <2>3. SubSeq(up[link], 1, k) \in Seq(Msgs)
      <3>1. up[link] \in Seq(Msgs) /\ Len(up[link]) \in Nat
        BY <2>1 DEF ClientTypes
      <3>2. \A i \in 1..k : up[link][i] \in Msgs
        BY <3>1, ElementOfSeq
      <3> QED
        BY <3>1, <3>2, SubSeqProperties
    <2>4. up' \in [Links -> Seq(Msgs)] /\ down' \in [Links -> Seq(Answers)]
      BY <1>4, <2>1, <2>2, <2>3 DEF Disconnect, ClientTypes
    <2> QED
      BY <1>4, <2>4, DeliveryAssumption DEF Disconnect, ClientTypes
  <1>5. CASE ClientReply
    <2>1. link \in Links
      BY <1>5, DeliveryAssumption DEF ClientReply, ClientTypes, Links
    <2>2. /\ down[link] \in Seq(Answers) /\ down[link] # << >>
          /\ Head(down[link]) \in Answers /\ Tail(down[link]) \in Seq(Answers)
      BY <1>5, <2>1, HeadTailProperties DEF ClientReply, ClientTypes
    <2>3. Head(down[link]).msg \in Msgs
      BY <2>2 DEF Answers
    <2>4. down' \in [Links -> Seq(Answers)]
      BY <1>5, <2>1, <2>2 DEF ClientReply, ClientTypes
    <2>5. pend' \in [Msgs -> {"none", "sending", "failed", "acked"}]
      BY <1>5, <2>3 DEF ClientReply, ClientTypes
    <2> QED
      BY <1>5, <2>4, <2>5 DEF ClientReply, ClientTypes
  <1>6. CASE Quiet
    BY <1>6 DEF Quiet, vars, clientVars, ClientTypes
  <1> QED
    BY <1>1, <1>2, <1>3, <1>4, <1>5, <1>6 DEF ClientNext

LEMMA HandlerLeavesClient ==
  ASSUME ClientTypes, NEW l \in Links, NEW m \in Msgs, Handle(l, m)
  PROVE  ClientTypes'
  <1>1. UNCHANGED <<clientVars, crashes>>
    <2> USE DEF Frame, Step, clientVars
    <2>1. CASE Limited(l, m) \/ Duplicate(l, m) \/ First(l, m)
      BY <2>1 DEF Limited, Duplicate, First
    <2>2. CASE \/ RouteRefused(l, m) \/ RouteDenied(l, m) \/ RoutePrivate(l, m)
               \/ RouteGroup(l, m) \/ Broadcast(l, m)
      BY <2>2 DEF RouteRefused, RouteDenied, RoutePrivate, RouteGroup, Broadcast
    <2>3. CASE Lookup(l, m) \/ Relayed(l, m) \/ RelayFails(l, m) \/ StoreOffline(l, m)
      BY <2>3 DEF Lookup, Relayed, RelayFails, StoreOffline
    <2> QED
      BY <2>1, <2>2, <2>3 DEF Handle
  <1>2. up' \in [Links -> Seq(Msgs)]
    <2>1. CASE Frame(l, m)
      <3>1. up[l] \in Seq(Msgs) /\ up[l] # << >>
        BY <2>1 DEF Frame, ClientTypes
      <3>2. Tail(up[l]) \in Seq(Msgs)
        BY <3>1, HeadTailProperties
      <3> QED
        BY <2>1, <3>2 DEF Frame, ClientTypes
    <2>2. CASE UNCHANGED up
      BY <2>2 DEF ClientTypes
    <2> QED
      BY <2>1, <2>2 DEF Handle, Limited, Duplicate, First, RouteRefused, RouteDenied, RoutePrivate,
         RouteGroup, Broadcast, Lookup, Relayed, RelayFails, StoreOffline, Step
  <1>3. down' \in [Links -> Seq(Answers)]
    <2>1. CASE Limited(l, m) \/ Duplicate(l, m) \/ First(l, m)
      BY <2>1, AnswerTypes DEF Limited, Duplicate, First, Ack, ClientTypes
    <2>2. CASE \/ RouteRefused(l, m) \/ RouteDenied(l, m) \/ RoutePrivate(l, m)
               \/ RouteGroup(l, m) \/ Broadcast(l, m)
      BY <2>2, AnswerTypes
      DEF RouteRefused, RouteDenied, RoutePrivate, RouteGroup, Broadcast, Ack, Refuse, ClientTypes
    <2>3. CASE Lookup(l, m) \/ Relayed(l, m) \/ RelayFails(l, m) \/ StoreOffline(l, m)
      BY <2>3 DEF Lookup, Relayed, RelayFails, StoreOffline, ClientTypes
    <2> QED
      BY <2>1, <2>2, <2>3 DEF Handle
  <1> QED
    BY <1>1, <1>2, <1>3 DEF ClientTypes, clientVars

LEMMA CrashLeavesClient ==
  ASSUME ClientTypes, Crash
  PROVE  ClientTypes'
  <1>1. /\ link' = 0 /\ crashes' = crashes + 1 /\ crashes < MaxCrashes
        /\ up' = [l \in Links |-> << >>] /\ down' = [l \in Links |-> << >>]
        /\ UNCHANGED <<pend, attempts, links, retries>>
    BY DEF Crash
  <1>2. /\ up' \in [Links -> Seq(Msgs)] /\ down' \in [Links -> Seq(Answers)]
    BY <1>1
  <1>3. link' \in 0..MaxLinks /\ crashes' \in 0..MaxCrashes
    BY <1>1, DeliveryAssumption DEF ClientTypes
  <1> QED
    BY <1>1, <1>2, <1>3 DEF ClientTypes

\* Every variable keeps its type, on the server's side and on the client's,
\* whatever is sent again, cut off or lost (_try_send_item, _flush_pending,
\* _dispatch, doMessage, pushOffline).
THEOREM TypeCorrect == Spec => []TypeOK
  <1>1. Init => ClientTypes
    <2> SUFFICES ASSUME Init PROVE ClientTypes
      OBVIOUS
    <2>1. /\ up \in [Links -> Seq(Msgs)] /\ down \in [Links -> Seq(Answers)]
          /\ attempts \in [Msgs -> 0..MaxAttempts]
      BY DeliveryAssumption DEF Init
    <2>2. 0 \in 0..MaxLinks /\ 0 \in 0..MaxRetries /\ 0 \in 0..MaxCrashes
      BY DeliveryAssumption
    <2> QED
      BY <2>1, <2>2 DEF Init, ClientTypes
  <1>2. ClientTypes /\ [Next]_vars => ClientTypes'
    <2> SUFFICES ASSUME ClientTypes, [Next]_vars PROVE ClientTypes'
      OBVIOUS
    <2>1. CASE UNCHANGED vars
      BY <2>1 DEF vars, clientVars, ClientTypes
    <2>2. CASE Receiver
      <3>1. UNCHANGED <<clientVars, up, down, crashes>>
        BY <2>2 DEF Receiver, Online, PushQuery, PushMark, PushEnd, Offline, CloseSocket,
           PushRow, envVars
      <3> QED
        BY <3>1 DEF ClientTypes, clientVars
    <2>3. CASE Roam
      BY <2>3 DEF Roam, ClientTypes, clientVars
    <2> QED
      BY <2>1, <2>2, <2>3, NextIsOneOf, ClientStepTypes, HandlerLeavesClient,
         CrashLeavesClient
  <1>3. ServerTypes /\ ClientTypes => TypeOK
    BY DEF ServerTypes, ClientTypes, TypeOK, Answers
  <1>4. IInv => ServerTypes
    BY DEF IInv
  <1> QED
    BY <1>1, <1>2, <1>3, <1>4, InvariantHolds, PTL DEF Spec

-----------------------------------------------------------------------------
(* The properties.                                                         *)

\* A slot of the window is backed by a row, a handler at work or a refusal: a
\* rejection by the limiter or the filter takes none (doMessage, check_and_add).
THEOREM SlotsAreRouted == Spec => []SlotMeansRouted
  <1>1. IInv => SlotMeansRouted
    BY DEF IInv
  <1> QED
    BY <1>1, InvariantHolds, PTL

\* An ACK without a row answers a repetition, of a message refused after it took
\* its slot, at work or caught by a crash: of nothing else (doMessage).
THEOREM RowlessAcksAreRepeats == Spec => []RowlessAckIsRepeat
  <1>1. IInv => RowlessAckIsRepeat
    BY DEF IInv
  <1> QED
    BY <1>1, InvariantHolds, PTL

\* A private message that has a row reaches a session or offline_messages, but
\* for a crash in its handler, a failing insert_offline and an insert that
\* answered -1 for a row it had made (doMessage).
THEOREM StoredMessagesAreRouted == Spec => []StoredIsRouted
  <1>1. IInv => StoredIsRouted
    BY DEF IInv, RoutedInv, StoredIsRouted, InHand
  <1> QED
    BY <1>1, InvariantHolds, PTL

\* Of any number of interrupted pushes, none retires a row it has not relayed
\* (pushOffline, mark_delivered).
THEOREM RetiredRowsWereRelayed == Spec => []RetiredWasRelayed
  <1>1. IInv => RetiredWasRelayed
    BY DEF IInv, PushInv
  <1> QED
    BY <1>1, InvariantHolds, PTL

-----------------------------------------------------------------------------
(* One row per slot.                                                       *)

LEMMA RoutingIsFinite ==
  ASSUME NEW m
  PROVE  IsFiniteSet(Routing(m)) /\ Cardinality(Routing(m)) \in Nat
  <1>1. IsFiniteSet(Links)
    BY DeliveryAssumption, FS_Interval DEF Links
  <1>2. Routing(m) \in SUBSET Links
    BY DEF Routing
  <1>3. IsFiniteSet(Routing(m))
    BY <1>1, <1>2, FS_Subset
  <1> QED
    BY <1>3, FS_CardinalityType

\* A handler that leaves "route" leaves Routing.
LEMMA RouteEnds ==
  ASSUME ServerTypes, NEW l \in Links, NEW m \in Msgs, NEW to, to # "route",
         Step(l, m, "route", to)
  PROVE  /\ Cardinality(Routing(m)') = Cardinality(Routing(m)) - 1
         /\ \A k \in Msgs \ {m} : Routing(k)' = Routing(k)
  <1>1. /\ pc[l] = "route" /\ cur[l] = m /\ pc'[l] = to
        /\ \A k \in Links \ {l} : pc'[k] = pc[k] /\ cur'[k] = cur[k]
    BY DEF ServerTypes, Step
  <1>2. l \in Routing(m) /\ Routing(m)' = Routing(m) \ {l}
    BY <1>1 DEF Routing
  <1>3. \A k \in Msgs \ {m} : Routing(k)' = Routing(k)
    BY <1>1 DEF Routing
  <1>4. Cardinality(Routing(m) \ {l}) = Cardinality(Routing(m)) - 1
    BY <1>2, RoutingIsFinite, FS_RemoveElement
  <1> QED
    BY <1>2, <1>3, <1>4

\* A step that neither enters nor leaves "route", nor loses a slot.
LEMMA OnceQuietStep ==
  ASSUME OnceInv, UNCHANGED <<stored, forgotten, window>>,
         \A m \in Msgs : Routing(m)' = Routing(m)
  PROVE  OnceInv'
  BY DEF OnceInv

LEMMA FirstOnce ==
  ASSUME ServerTypes, OnceInv, NEW l \in Links, NEW m \in Msgs, First(l, m)
  PROVE  OnceInv'
  <1>1. /\ pc[l] = "recv" /\ m \notin window /\ m \in window'
        /\ pc' = [pc EXCEPT ![l] = "route"] /\ cur' = [cur EXCEPT ![l] = m]
        /\ window' \subseteq window \cup {m}
        /\ forgotten' = [k \in Msgs |-> forgotten[k] + IF k \in window \ window' THEN 1 ELSE 0]
        /\ stored' = stored
    BY DEF First, Frame, tableVars
  <1>2. /\ pc'[l] = "route" /\ cur'[l] = m
        /\ \A k \in Links \ {l} : pc'[k] = pc[k] /\ cur'[k] = cur[k]
    BY <1>1 DEF ServerTypes
  <1>3. l \notin Routing(m) /\ Routing(m)' = Routing(m) \cup {l}
        /\ \A k \in Msgs \ {m} : Routing(k)' = Routing(k)
    BY <1>1, <1>2 DEF Routing
  <1>4. Cardinality(Routing(m) \cup {l}) = Cardinality(Routing(m)) + 1
    BY <1>3, RoutingIsFinite, FS_AddElement
  <1>5. stored[m] \in Nat /\ forgotten[m] \in Nat /\ Cardinality(Routing(m)) \in Nat
    BY RoutingIsFinite DEF ServerTypes
  <1>6. stored[m] + Cardinality(Routing(m)) <= forgotten[m]
    BY <1>1, <1>5 DEF OnceInv
  <1>7. stored'[m] + Cardinality(Routing(m)') <= forgotten'[m] + IF m \in window' THEN 1 ELSE 0
    BY <1>1, <1>3, <1>4, <1>5, <1>6
  <1>8. ASSUME NEW k \in Msgs \ {m}
        PROVE  stored'[k] + Cardinality(Routing(k)') <= forgotten'[k] + IF k \in window' THEN 1 ELSE 0
    <2>1. stored[k] + Cardinality(Routing(k)) <= forgotten[k] + IF k \in window THEN 1 ELSE 0
      BY DEF OnceInv
    <2>2. stored[k] \in Nat /\ forgotten[k] \in Nat /\ Cardinality(Routing(k)) \in Nat
      BY RoutingIsFinite DEF ServerTypes
    <2>3. Routing(k)' = Routing(k)
      BY <1>3
    <2> QED
      BY <1>1, <2>1, <2>2, <2>3
  <1> QED
    BY <1>7, <1>8 DEF OnceInv

LEMMA RouteOnce ==
  ASSUME ServerTypes, OnceInv, NEW l \in Links, NEW m \in Msgs, NEW to, to # "route",
         Step(l, m, "route", to),
         stored' \in {stored, [stored EXCEPT ![m] = @ + 1]}
  PROVE  OnceInv'
  <1>1. UNCHANGED <<forgotten, window>>
    BY DEF Step
  <1>2. stored[m] \in Nat /\ forgotten[m] \in Nat /\ Cardinality(Routing(m)) \in Nat
    BY RoutingIsFinite DEF ServerTypes
  <1>3. stored'[m] <= stored[m] + 1 /\ stored'[m] \in Nat
        /\ \A k \in Msgs \ {m} : stored'[k] = stored[k]
    BY <1>2 DEF ServerTypes
  <1>4. stored[m] + Cardinality(Routing(m)) <= forgotten[m] + IF m \in window THEN 1 ELSE 0
    BY DEF OnceInv
  <1>5. Cardinality(Routing(m)') = Cardinality(Routing(m)) - 1
    BY RouteEnds
  <1>6. stored'[m] + Cardinality(Routing(m)') <= forgotten'[m] + IF m \in window' THEN 1 ELSE 0
    BY <1>1, <1>2, <1>3, <1>4, <1>5
  <1>7. ASSUME NEW k \in Msgs \ {m}
        PROVE  stored'[k] + Cardinality(Routing(k)') <= forgotten'[k] + IF k \in window' THEN 1 ELSE 0
    BY <1>1, <1>3, RouteEnds DEF OnceInv
  <1> QED
    BY <1>6, <1>7 DEF OnceInv

LEMMA HandleOnce ==
  ASSUME ServerTypes, OnceInv, NEW l \in Links, NEW m \in Msgs, Handle(l, m)
  PROVE  OnceInv'
  <1> USE DEF tableVars
  <1>1. CASE Limited(l, m) \/ Duplicate(l, m)
    <2>1. UNCHANGED <<stored, forgotten, window, pc, cur>>
      BY <1>1 DEF Limited, Duplicate, Frame
    <2> QED
      BY <2>1, OnceQuietStep DEF Routing
  <1>2. CASE First(l, m)
    BY <1>2, FirstOnce
  <1>3. CASE RouteRefused(l, m)   BY <1>3, RouteOnce DEF RouteRefused
  <1>12. CASE RouteDenied(l, m)   BY <1>12, RouteOnce DEF RouteDenied
  <1>4. CASE RoutePrivate(l, m)   BY <1>4, RouteOnce DEF RoutePrivate
  <1>5. CASE RouteGroup(l, m)     BY <1>5, RouteOnce DEF RouteGroup
  <1>6. ASSUME NEW from, NEW to, from # "route", to # "route", Step(l, m, from, to),
               UNCHANGED stored
        PROVE  OnceInv'
    <2>1. UNCHANGED <<forgotten, window>>
      BY <1>6 DEF Step
    <2>2. /\ pc[l] # "route" /\ pc'[l] # "route"
          /\ \A k \in Links \ {l} : pc'[k] = pc[k] /\ cur'[k] = cur[k]
      BY <1>6 DEF ServerTypes, Step
    <2>3. \A k \in Msgs : Routing(k)' = Routing(k)
      BY <2>2 DEF Routing
    <2> QED
      BY <1>6, <2>1, <2>3, OnceQuietStep
  <1>7. CASE Broadcast(l, m)      BY <1>6, <1>7 DEF Broadcast
  <1>8. CASE Lookup(l, m)         BY <1>6, <1>8 DEF Lookup
  <1>9. CASE Relayed(l, m)        BY <1>6, <1>9 DEF Relayed
  <1>10. CASE RelayFails(l, m)    BY <1>6, <1>10 DEF RelayFails
  <1>11. CASE StoreOffline(l, m)  BY <1>6, <1>11 DEF StoreOffline
  <1> QED
    BY <1>1, <1>2, <1>3, <1>4, <1>5, <1>7, <1>8, <1>9, <1>10, <1>11, <1>12 DEF Handle

LEMMA CrashOnce ==
  ASSUME ServerTypes, OnceInv, Crash
  PROVE  OnceInv'
  <1>1. /\ pc' = [l \in Links |-> "recv"] /\ window' = {} /\ stored' = stored
        /\ forgotten' = [m \in Msgs |-> forgotten[m] + IF m \in window THEN 1 ELSE 0]
    BY DEF Crash, tableVars
  <1> SUFFICES ASSUME NEW m \in Msgs
               PROVE  stored[m] + Cardinality(Routing(m)') <= forgotten'[m] + 0
    BY <1>1 DEF OnceInv
  <1>2. Routing(m)' = {}
    BY <1>1 DEF Routing
  <1>3. Cardinality(Routing(m)') = 0
    BY <1>2, FS_EmptySet
  <1>4. stored[m] + Cardinality(Routing(m)) <= forgotten[m] + IF m \in window THEN 1 ELSE 0
    BY DEF OnceInv
  <1>5. stored[m] \in Nat /\ forgotten[m] \in Nat /\ Cardinality(Routing(m)) \in Nat
    BY RoutingIsFinite DEF ServerTypes
  <1> QED
    BY <1>1, <1>3, <1>4, <1>5

LEMMA NextOnce == ServerTypes /\ OnceInv /\ [Next]_vars => OnceInv'
  <1> SUFFICES ASSUME ServerTypes, OnceInv, [Next]_vars PROVE OnceInv'
    OBVIOUS
  <1>1. CASE ClientNext \/ UNCHANGED vars \/ Roam \/ Receiver
    <2>1. UNCHANGED <<stored, forgotten, window, pc, cur>>
      <3>1. CASE Roam
        BY <3>1 DEF Roam, threadVars, tableVars
      <3>2. CASE ClientNext \/ UNCHANGED vars
        BY <3>2, ClientLeavesServer DEF serverVars, threadVars, tableVars
      <3>3. CASE Receiver
        BY <3>3 DEF Receiver, Online, PushQuery, PushMark, PushEnd, Offline, CloseSocket,
                    PushRow, envVars, threadVars
      <3> QED
        BY <1>1, <3>1, <3>2, <3>3
    <2> QED
      BY <2>1, OnceQuietStep DEF Routing
  <1> QED
    BY <1>1, NextIsOneOf, HandleOnce, CrashOnce

LEMMA InitOnce == Init => OnceInv
  <1> SUFFICES ASSUME Init, NEW m \in Msgs
               PROVE  stored[m] + Cardinality(Routing(m)) <=
                        forgotten[m] + IF m \in window THEN 1 ELSE 0
    BY DEF OnceInv
  <1>1. Routing(m) = {}
    BY DEF Init, Routing
  <1>2. Cardinality(Routing(m)) = 0
    BY <1>1, FS_EmptySet
  <1> QED
    BY <1>2 DEF Init

\* However often and on however many connections a message is sent, it has one
\* row, and one more for each time the window lost it (SeqDeduper, doMessage).
THEOREM StoredOnce == Spec => []StoredOncePerWindow
  <1>1. ServerTypes /\ OnceInv => StoredOncePerWindow
    <2> SUFFICES ASSUME ServerTypes, OnceInv, NEW m \in Msgs
                 PROVE  stored[m] <= 1 + forgotten[m]
      BY DEF StoredOncePerWindow
    <2>1. stored[m] + Cardinality(Routing(m)) <= forgotten[m] + IF m \in window THEN 1 ELSE 0
      BY DEF OnceInv
    <2>2. stored[m] \in Nat /\ forgotten[m] \in Nat /\ Cardinality(Routing(m)) \in Nat
      BY RoutingIsFinite DEF ServerTypes
    <2> QED
      BY <2>1, <2>2
  <1> QED
    BY <1>1, ServerTypesHold, InitOnce, NextOnce, PTL DEF Spec
=============================================================================
