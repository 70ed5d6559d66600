--------------------------- MODULE SendQueueProofs ---------------------------
(***************************************************************************)
(* Theorems about SendQueue: no byte of any frame is lost, repeated or     *)
(* swapped on its way, and none is written to a closed socket, for any     *)
(* frames, any cap and any room in the socket.                             *)
(***************************************************************************)
EXTENDS SendQueue, SequenceTheorems, TLAPS

-----------------------------------------------------------------------------
(* Sequences of bytes.                                                     *)

Byte == Nat \X Nat

\* A part of a sequence, and two that lie side by side.
LEMMA Cut ==
  ASSUME NEW s \in Seq(Byte), NEW m \in Nat, NEW n \in Nat, m <= n, n <= Len(s)
  PROVE  SubSeq(s, m + 1, n) \in Seq(Byte) /\ Len(SubSeq(s, m + 1, n)) = n - m
  <1>1. \A i \in m + 1 .. n : s[i] \in Byte
    BY ElementOfSeq
  <1>2. m + 1 \in Int /\ n \in Int
    OBVIOUS
  <1>3. /\ SubSeq(s, m + 1, n) \in Seq(Byte)
        /\ Len(SubSeq(s, m + 1, n)) = IF m + 1 <= n THEN n - (m + 1) + 1 ELSE 0
    BY <1>1, <1>2, SubSeqProperties
  <1> QED
    BY <1>3

LEMMA CutInTwo ==
  ASSUME NEW s \in Seq(Byte), NEW m \in Nat, NEW k \in Nat, NEW n \in Nat,
         m <= k, k <= n, n <= Len(s)
  PROVE  SubSeq(s, m + 1, k) \o SubSeq(s, k + 1, n) = SubSeq(s, m + 1, n)
  <1>1. Len(s) \in Nat
    BY LenProperties
  <1>2. m + 1 \in 1 .. Len(s) + 1 /\ k \in m + 1 - 1 .. Len(s) /\ n \in k .. Len(s)
    BY <1>1
  <1> QED
    BY <1>2, ConcatAdjacentSubSeq

LEMMA CutAtStart ==
  ASSUME NEW s \in Seq(Byte), NEW n \in Nat, n <= Len(s)
  PROVE  /\ SubSeq(s, 1, n) \in Seq(Byte) /\ Len(SubSeq(s, 1, n)) = n
         /\ SubSeq(s, n + 1, Len(s)) \in Seq(Byte)
         /\ Len(SubSeq(s, n + 1, Len(s))) = Len(s) - n
         /\ SubSeq(s, 1, n) \o SubSeq(s, n + 1, Len(s)) = s
  <1>1. Len(s) \in Nat /\ 0 \in Nat /\ 0 <= n /\ n - 0 = n /\ 0 + 1 = 1
    BY LenProperties
  <1>2. SubSeq(s, 1, n) \in Seq(Byte) /\ Len(SubSeq(s, 1, n)) = n
    BY <1>1, Cut
  <1>3. SubSeq(s, n + 1, Len(s)) \in Seq(Byte) /\ Len(SubSeq(s, n + 1, Len(s))) = Len(s) - n
    BY <1>1, Cut
  <1>4. SubSeq(s, 1, n) \o SubSeq(s, n + 1, Len(s)) = SubSeq(s, 1, Len(s))
    <2>1. Len(s) <= Len(s)
      BY <1>1
    <2>2. SubSeq(s, 0 + 1, n) \o SubSeq(s, n + 1, Len(s)) = SubSeq(s, 0 + 1, Len(s))
      BY <1>1, <2>1, CutInTwo, Zenon
    <2> QED
      BY <1>1, <2>2, Zenon
  <1> QED
    BY <1>2, <1>3, <1>4, SubSeqFull

LEMMA Assoc ==
  \A s, t, u \in Seq(Byte) : (s \o t) \o u = s \o (t \o u)
  <1> SUFFICES ASSUME NEW s \in Seq(Byte), NEW t \in Seq(Byte), NEW u \in Seq(Byte)
               PROVE  (s \o t) \o u = s \o (t \o u)
    OBVIOUS
  <1> QED
    BY ConcatAssociative

LEMMA Constants ==
  /\ Cap \in Nat /\ MaxBody \in Nat /\ KernelCap \in Nat /\ NoticeLen \in Nat
  /\ Sizes \subseteq Nat /\ MaxSends \in Nat
  BY SendQueueAssumption

\* The bytes of a frame.
LEMMA BytesAreBytes ==
  ASSUME NEW k \in Nat, NEW n \in Nat
  PROVE  /\ Bytes(k, n) \in Seq(Byte) /\ Len(Bytes(k, n)) = n
         /\ \A i \in 1..n : Bytes(k, n)[i] = <<k, i>>
  <1>1. Bytes(k, n) \in [1..n -> Byte]
    BY DEF Bytes, Byte
  <1>2. Bytes(k, n) \in Seq(Byte)
    BY <1>1
  <1> QED
    BY <1>1, <1>2 DEF Bytes

-----------------------------------------------------------------------------
(* The inductive invariant.                                                *)

Queue == [out : Seq(Byte), wpend : Nat, retry : BOOLEAN, moved : BOOLEAN,
          kernel : Seq(Byte), got : Seq(Byte)]

\* SSL_write owes bytes of outbuf under TLS only; the socket holds what it can.
GoodQueue(b) ==
  /\ b \in Queue
  /\ b.wpend <= Len(b.out) /\ Len(b.kernel) <= KernelCap
  /\ b.wpend > 0 => tls /\ b.retry

Parts(b) == /\ b.out \in Seq(Byte) /\ b.kernel \in Seq(Byte) /\ b.got \in Seq(Byte)
            /\ b.wpend \in Nat /\ Len(b.out) \in Nat /\ Len(b.kernel) \in Nat
            /\ Len(b.got) \in Nat

LEMMA QueueParts ==
  ASSUME NEW b, GoodQueue(b)
  PROVE  Parts(b) /\ b.wpend <= Len(b.out) /\ Len(b.kernel) <= KernelCap
  BY LenProperties DEF GoodQueue, Queue, Parts

WithOut(p, out) == [p EXCEPT !.out = out, !.wpend = 0, !.retry = FALSE, !.moved = FALSE]

LEMMA WithOutIsQueue ==
  ASSUME NEW p \in Queue, NEW out \in Seq(Byte)
  PROVE  LET e == WithOut(p, out)
         IN e \in Queue /\ e.out = out /\ e.wpend = 0 /\ e.got = p.got /\ e.kernel = p.kernel
  BY DEF Queue, WithOut

-----------------------------------------------------------------------------
(* Writing moves bytes and keeps the stream.                               *)

\* Bytes that are poured follow what is in the socket.
LEMMA PourMoves ==
  ASSUME NEW b, GoodQueue(b), NEW bytes \in Seq(Byte)
  PROVE  LET p == Pour(b, bytes)
         IN /\ p \in Queue /\ Len(p.kernel) <= KernelCap
            /\ p.out = b.out /\ p.wpend = b.wpend /\ p.retry = b.retry /\ p.moved = b.moved
            /\ p.got \o p.kernel = (b.got \o b.kernel) \o bytes
  <1> DEFINE all == b.kernel \o bytes
             read == IF Len(all) > KernelCap THEN Len(all) - KernelCap ELSE 0
             p == Pour(b, bytes)
  <1>1. Parts(b) /\ b \in Queue
    BY QueueParts DEF GoodQueue
  <1>2. all \in Seq(Byte)
    BY <1>1, ConcatProperties DEF Parts
  <1>3. Len(all) \in Nat /\ read \in Nat /\ read <= Len(all) /\ Len(all) - read <= KernelCap
    <2>1. Len(all) \in Nat
      BY <1>2, LenProperties
    <2> HIDE DEF all
    <2> QED
      BY <2>1, Constants
  <1>4. p = [b EXCEPT !.kernel = SubSeq(all, read + 1, Len(all)),
                      !.got = b.got \o SubSeq(all, 1, read)]
    BY DEF Pour
  <1> HIDE DEF all, read, p
  <1>5. /\ SubSeq(all, 1, read) \in Seq(Byte) /\ SubSeq(all, read + 1, Len(all)) \in Seq(Byte)
        /\ Len(SubSeq(all, read + 1, Len(all))) = Len(all) - read
        /\ SubSeq(all, 1, read) \o SubSeq(all, read + 1, Len(all)) = all
    BY <1>2, <1>3, CutAtStart
  <1>6. b.got \o SubSeq(all, 1, read) \in Seq(Byte)
    BY <1>1, <1>5, ConcatProperties DEF Parts
  <1>7. /\ p \in Queue
        /\ p.kernel = SubSeq(all, read + 1, Len(all)) /\ p.got = b.got \o SubSeq(all, 1, read)
        /\ p.out = b.out /\ p.wpend = b.wpend /\ p.retry = b.retry /\ p.moved = b.moved
    BY <1>1, <1>4, <1>5, <1>6 DEF Queue
  <1>8. Len(p.kernel) <= KernelCap
    BY <1>3, <1>5, <1>7
  <1>9. p.got \o p.kernel = b.got \o all
    <2>1. b.got \in Seq(Byte)
      BY <1>1 DEF Parts
    <2> QED
      <3>1. (b.got \o SubSeq(all, 1, read)) \o SubSeq(all, read + 1, Len(all))
              = b.got \o (SubSeq(all, 1, read) \o SubSeq(all, read + 1, Len(all)))
        BY <1>5, <2>1, Assoc, Zenon
      <3> QED
        BY <1>5, <1>7, <3>1, Zenon
  <1>10. b.got \o all = (b.got \o b.kernel) \o bytes
    <2>1. b.got \in Seq(Byte) /\ b.kernel \in Seq(Byte)
      BY <1>1 DEF Parts
    <2> QED
      BY <2>1, Assoc DEF all
  <1> QED
    BY <1>7, <1>8, <1>9, <1>10 DEF p

\* sock_send_nb takes bytes off the front of outbuf.
LEMMA PlainDrainsKeep ==
  ASSUME NEW b, GoodQueue(b), b.wpend = 0, NEW d \in PlainDrains(b)
  PROVE  GoodQueue(d.q) /\ Stream(d.q) = Stream(b)
  <1>1. PICK m \in Accepts(b, Len(b.out)) :
          d = [q |-> [Pour(b, SubSeq(b.out, 1, m)) EXCEPT !.out = SubSeq(@, m + 1, Len(@))],
               ok |-> TRUE]
    BY DEF PlainDrains
  <1> DEFINE p == Pour(b, SubSeq(b.out, 1, m))
             left == SubSeq(b.out, m + 1, Len(b.out))
  <1>2. Parts(b) /\ m \in Nat /\ m <= Len(b.out)
    BY QueueParts DEF Accepts, Parts
  <1>3. /\ SubSeq(b.out, 1, m) \in Seq(Byte) /\ left \in Seq(Byte)
        /\ SubSeq(b.out, 1, m) \o left = b.out
    BY <1>2, CutAtStart DEF Parts
  <1>4. /\ p \in Queue /\ Len(p.kernel) <= KernelCap
        /\ p.out = b.out /\ p.wpend = 0
        /\ p.got \o p.kernel = (b.got \o b.kernel) \o SubSeq(b.out, 1, m)
    BY <1>3, PourMoves
  <1>5. d.q = [p EXCEPT !.out = left]
    BY <1>1, <1>4
  <1> HIDE DEF p, left
  <1>6. /\ d.q \in Queue /\ d.q.out = left /\ d.q.wpend = 0
        /\ d.q.got = p.got /\ d.q.kernel = p.kernel
    BY <1>3, <1>4, <1>5 DEF Queue
  <1>7. GoodQueue(d.q)
    <2>1. Len(left) \in Nat
      BY <1>3, LenProperties
    <2> QED
      BY <1>4, <1>6, <2>1 DEF GoodQueue
  <1>8. /\ Stream(d.q) = (p.got \o p.kernel) \o left
        /\ Stream(b) = (b.got \o b.kernel) \o b.out
    <2>1. SubSeq(left, 0 + 1, Len(left)) = left /\ SubSeq(b.out, 0 + 1, Len(b.out)) = b.out
      BY <1>2, <1>3, SubSeqFull DEF Parts
    <2> QED
      BY <1>6, <2>1 DEF Stream
  <1>9. b.got \o b.kernel \in Seq(Byte)
    BY <1>2, ConcatProperties DEF Parts
  <1>10. ((b.got \o b.kernel) \o SubSeq(b.out, 1, m)) \o left = (b.got \o b.kernel) \o b.out
    <2>1. ((b.got \o b.kernel) \o SubSeq(b.out, 1, m)) \o left
            = (b.got \o b.kernel) \o (SubSeq(b.out, 1, m) \o left)
      BY <1>3, <1>9, Assoc, Zenon
    <2> QED
      BY <1>3, <2>1, Zenon
  <1> QED
    BY <1>4, <1>7, <1>8, <1>10

\* SSL_write keeps outbuf until it has all of it.
LEMMA TlsDrainsKeep ==
  ASSUME NEW b, GoodQueue(b), tls, NEW d \in TlsDrains(b)
  PROVE  GoodQueue(d.q) /\ Stream(d.q) = Stream(b)
  <1>1. CASE d = [q |-> b, ok |-> FALSE]
    BY <1>1
  <1>2. ASSUME NEW m \in Accepts(b, Len(b.out) - b.wpend),
               d = LET sent == b.wpend + m
                       poured == Pour(b, SubSeq(b.out, b.wpend + 1, sent))
                   IN [q |-> IF sent = Len(b.out)
                             THEN [poured EXCEPT !.out = <<>>, !.wpend = 0,
                                                 !.retry = FALSE, !.moved = FALSE]
                             ELSE [poured EXCEPT !.wpend = sent, !.retry = TRUE],
                       ok |-> TRUE]
        PROVE  GoodQueue(d.q) /\ Stream(d.q) = Stream(b)
    <2> DEFINE sent == b.wpend + m
               now == SubSeq(b.out, b.wpend + 1, sent)
               left == SubSeq(b.out, sent + 1, Len(b.out))
               p == Pour(b, now)
    <2>1. /\ Parts(b) /\ b.wpend <= Len(b.out) /\ m \in Nat
          /\ sent \in Nat /\ b.wpend <= sent /\ sent <= Len(b.out)
      BY QueueParts DEF Accepts, Parts
    <2>2. d.q = IF sent = Len(b.out)
                THEN [p EXCEPT !.out = <<>>, !.wpend = 0, !.retry = FALSE, !.moved = FALSE]
                ELSE [p EXCEPT !.wpend = sent, !.retry = TRUE]
      BY <1>2
    <2> HIDE DEF sent
    <2>3. now \in Seq(Byte) /\ left \in Seq(Byte)
      BY <2>1, Cut DEF Parts
    <2>4. now \o left = SubSeq(b.out, b.wpend + 1, Len(b.out))
      <3>1. /\ b.out \in Seq(Byte) /\ b.wpend \in Nat /\ Len(b.out) \in Nat
            /\ Len(b.out) <= Len(b.out)
        BY <2>1 DEF Parts
      <3> QED
        BY <2>1, <3>1, CutInTwo, Zenon DEF now, left
    <2>5. /\ p \in Queue /\ Len(p.kernel) <= KernelCap /\ p.out = b.out
          /\ p.got \o p.kernel = (b.got \o b.kernel) \o now
      BY <2>3, PourMoves
    <2> HIDE DEF now, left, p
    <2>6. (p.got \o p.kernel) \o left = Stream(b)
      <3>1. b.got \o b.kernel \in Seq(Byte)
        BY <2>1, ConcatProperties DEF Parts
      <3>2. ((b.got \o b.kernel) \o now) \o left = (b.got \o b.kernel) \o (now \o left)
        BY <2>3, <3>1, Assoc
      <3> QED
        BY <2>4, <2>5, <3>2 DEF Stream
    <2>7. CASE sent = Len(b.out)
      <3>1. /\ d.q \in Queue /\ d.q.out = <<>> /\ d.q.wpend = 0
            /\ d.q.got = p.got /\ d.q.kernel = p.kernel
        <4>1. <<>> \in Seq(Byte)
          BY EmptySeq
        <4>2. d.q = [p EXCEPT !.out = <<>>, !.wpend = 0, !.retry = FALSE, !.moved = FALSE]
          BY <2>2, <2>7
        <4> DEFINE none == <<>>
                   e == d.q
        <4>3. none \in Seq(Byte) /\ p \in Queue
          BY <2>5, <4>1
        <4>4. e = WithOut(p, none)
          BY <4>2, Zenon DEF WithOut
        <4> HIDE DEF none, e
        <4>5. e \in Queue /\ e.out = none /\ e.wpend = 0 /\ e.got = p.got /\ e.kernel = p.kernel
          BY <4>3, <4>4, WithOutIsQueue
        <4> QED
          BY <4>5 DEF none, e
      <3>2. left = <<>> /\ SubSeq(<<>>, 0 + 1, Len(<<>>)) = <<>>
        <4>1. Len(b.out) + 1 \in Int /\ Len(b.out) \in Int /\ Len(b.out) < Len(b.out) + 1
          BY <2>1 DEF Parts
        <4>2. SubSeq(b.out, Len(b.out) + 1, Len(b.out)) = <<>>
          BY <4>1, SubSeqEmpty
        <4>3. Len(<<>>) = 0 /\ 0 + 1 \in Int /\ 0 \in Int /\ 0 < 0 + 1
          OBVIOUS
        <4>4. SubSeq(<<>>, 0 + 1, 0) = <<>>
          BY <4>3, SubSeqEmpty
        <4> QED
          BY <2>7, <4>2, <4>3, <4>4 DEF left
      <3>3. Stream(d.q) = Stream(b)
        BY <2>6, <3>1, <3>2 DEF Stream
      <3>4. GoodQueue(d.q)
        BY <2>5, <3>1, EmptySeq DEF GoodQueue
      <3> QED
        BY <3>3, <3>4
    <2>8. CASE sent # Len(b.out)
      <3>1. /\ d.q \in Queue /\ d.q.out = b.out /\ d.q.wpend = sent /\ d.q.retry
            /\ d.q.got = p.got /\ d.q.kernel = p.kernel
        <4>1. d.q = [p EXCEPT !.wpend = sent, !.retry = TRUE]
          BY <2>2, <2>8
        <4> QED
          BY <2>1, <2>5, <4>1 DEF Queue
      <3>2. Stream(d.q) = Stream(b)
        BY <2>6, <3>1 DEF Stream, left
      <3>3. GoodQueue(d.q)
        BY <2>1, <2>5, <3>1 DEF GoodQueue
      <3> QED
        BY <3>2, <3>3
    <2> QED
      BY <2>7, <2>8
  <1> QED
    BY <1>1, <1>2 DEF TlsDrains

\* drainOutLocked moves bytes along, and none once the socket is shut.
LEMMA DrainsKeep ==
  ASSUME NEW b, GoodQueue(b), NEW d \in Drains(b)
  PROVE  /\ GoodQueue(d.q) /\ Stream(d.q) = Stream(b)
         /\ fd # "open" => d.q = b
  <1>1. CASE b.out = <<>> \/ fd # "open"
    BY <1>1 DEF Drains
  <1>2. CASE b.out # <<>> /\ fd = "open" /\ tls
    BY <1>2, TlsDrainsKeep DEF Drains
  <1>3. CASE b.out # <<>> /\ fd = "open" /\ ~tls
    <2>1. b.wpend = 0
      BY <1>3, QueueParts DEF GoodQueue, Parts
    <2> QED
      BY <1>3, <2>1, PlainDrainsKeep DEF Drains
  <1> QED
    BY <1>1, <1>2, <1>3

-----------------------------------------------------------------------------
(* Notices are put between, frames behind.                                 *)

Notices(s) == \A p \in 1..Len(s) : s[p][1] = 0

\* Bytes of notices, wherever they are put, leave the stream whole.
LEMMA NoticeIsBetween ==
  ASSUME NEW s1 \in Seq(Byte), NEW s2 \in Seq(Byte), NEW n \in Seq(Byte),
         Notices(n), NEW frames, WholeStream(s1 \o s2, frames)
  PROVE  WholeStream((s1 \o n) \o s2, frames)
  <1> DEFINE s == s1 \o s2
             t == (s1 \o n) \o s2
             From(p) == IF p <= Len(s1) THEN p ELSE p - Len(n)
             To(p) == IF p <= Len(s1) THEN p ELSE p + Len(n)
  <1>1. Len(s1) \in Nat /\ Len(s2) \in Nat /\ Len(n) \in Nat
    BY LenProperties
  <1>2. /\ s \in Seq(Byte) /\ DOMAIN s = 1..(Len(s1) + Len(s2))
        /\ \A i \in 1..(Len(s1) + Len(s2)) :
             s[i] = IF i <= Len(s1) THEN s1[i] ELSE s2[i - Len(s1)]
    BY <1>1, ConcatProperties, LenProperties
  <1>3. /\ s1 \o n \in Seq(Byte) /\ Len(s1 \o n) = Len(s1) + Len(n)
        /\ \A i \in 1..(Len(s1) + Len(n)) :
             (s1 \o n)[i] = IF i <= Len(s1) THEN s1[i] ELSE n[i - Len(s1)]
    BY <1>1, ConcatProperties
  <1>4. /\ DOMAIN t = 1..(Len(s1) + Len(n) + Len(s2))
        /\ \A i \in 1..(Len(s1) + Len(n) + Len(s2)) :
             t[i] = IF i <= Len(s1) + Len(n) THEN (s1 \o n)[i]
                    ELSE s2[i - (Len(s1) + Len(n))]
    BY <1>1, <1>3, ConcatProperties, LenProperties
  <1> HIDE DEF s, t
  <1>5. ASSUME NEW p \in DOMAIN s
        PROVE  To(p) \in DOMAIN t /\ t[To(p)] = s[p]
    <2>1. CASE p <= Len(s1)
      BY <1>1, <1>2, <1>3, <1>4, <2>1, SMTT(60)
    <2>2. CASE ~(p <= Len(s1))
      <3>1. /\ p + Len(n) \in 1..(Len(s1) + Len(n) + Len(s2))
            /\ ~(p + Len(n) <= Len(s1) + Len(n))
            /\ p + Len(n) - (Len(s1) + Len(n)) = p - Len(s1)
        BY <1>1, <1>2, <2>2
      <3> QED
        BY <1>2, <1>4, <2>2, <3>1
    <2> QED
      BY <2>1, <2>2
  <1>6. ASSUME NEW p \in DOMAIN t, t[p][1] # 0
        PROVE  /\ From(p) \in DOMAIN s /\ s[From(p)] = t[p]
               /\ p <= Len(s1) \/ p > Len(s1) + Len(n)
    <2>1. CASE p <= Len(s1)
      BY <1>1, <1>2, <1>3, <1>4, <2>1
    <2>2. CASE ~(p <= Len(s1)) /\ p <= Len(s1) + Len(n)
      <3>1. t[p] = n[p - Len(s1)] /\ p - Len(s1) \in 1..Len(n)
        BY <1>1, <1>3, <1>4, <2>2
      <3> QED
        BY <1>6, <3>1 DEF Notices
    <2>3. CASE ~(p <= Len(s1)) /\ ~(p <= Len(s1) + Len(n))
      <3>1. /\ p - Len(n) \in 1..(Len(s1) + Len(s2)) /\ ~(p - Len(n) <= Len(s1))
            /\ p - (Len(s1) + Len(n)) = p - Len(n) - Len(s1)
            /\ p > Len(s1) + Len(n)
        BY <1>1, <1>4, <2>3
      <3> QED
        BY <1>2, <1>4, <2>3, <3>1
    <2> QED
      BY <2>1, <2>2, <2>3
  <1>7. \A k \in DOMAIN frames : \A i \in 1..frames[k] :
          \E p \in DOMAIN t : t[p] = <<k, i>>
    <2> SUFFICES ASSUME NEW k \in DOMAIN frames, NEW i \in 1..frames[k]
                 PROVE  \E p \in DOMAIN t : t[p] = <<k, i>>
      OBVIOUS
    <2>1. PICK p \in DOMAIN s : s[p] = <<k, i>>
      BY DEF WholeStream, s
    <2> QED
      BY <1>5, <2>1
  <1>8. \A p \in DOMAIN t : t[p][1] # 0 =>
          t[p][1] \in DOMAIN frames /\ t[p][2] \in 1..frames[t[p][1]]
    <2> SUFFICES ASSUME NEW p \in DOMAIN t, t[p][1] # 0
                 PROVE  t[p][1] \in DOMAIN frames /\ t[p][2] \in 1..frames[t[p][1]]
      OBVIOUS
    <2>1. From(p) \in DOMAIN s /\ s[From(p)] = t[p]
      BY <1>6
    <2> HIDE DEF From
    <2> QED
      BY <2>1 DEF WholeStream, s
  <1>9. \A p, r \in DOMAIN t :
          p < r /\ t[p][1] # 0 /\ t[r][1] # 0 =>
            \/ t[p][1] < t[r][1]
            \/ t[p][1] = t[r][1] /\ t[p][2] < t[r][2]
    <2> SUFFICES ASSUME NEW p \in DOMAIN t, NEW r \in DOMAIN t,
                        p < r, t[p][1] # 0, t[r][1] # 0
                 PROVE  \/ t[p][1] < t[r][1]
                        \/ t[p][1] = t[r][1] /\ t[p][2] < t[r][2]
      OBVIOUS
    <2>1. /\ From(p) \in DOMAIN s /\ s[From(p)] = t[p]
          /\ p <= Len(s1) \/ p > Len(s1) + Len(n)
      BY <1>6
    <2>2. /\ From(r) \in DOMAIN s /\ s[From(r)] = t[r]
          /\ r <= Len(s1) \/ r > Len(s1) + Len(n)
      BY <1>6
    <2>3. From(p) < From(r)
      BY <1>1, <1>4, <2>1, <2>2
    <2> HIDE DEF From
    <2>4. \A a, c \in DOMAIN s :
            a < c /\ s[a][1] # 0 /\ s[c][1] # 0 =>
              \/ s[a][1] < s[c][1]
              \/ s[a][1] = s[c][1] /\ s[a][2] < s[c][2]
      BY DEF WholeStream, s
    <2> QED
      BY <2>1, <2>2, <2>3, <2>4
  <1> QED
    BY <1>7, <1>8, <1>9 DEF WholeStream, t

\* A frame behind the stream makes it the stream of one frame more.
LEMMA FrameIsBehind ==
  ASSUME NEW s \in Seq(Byte), NEW frames \in Seq(Nat), NEW n \in Nat,
         WholeStream(s, frames)
  PROVE  WholeStream(s \o Bytes(Len(frames) + 1, n), Append(frames, n))
  <1> DEFINE f == Len(frames) + 1
             more == Append(frames, n)
             t == s \o Bytes(f, n)
  <1>1. Len(s) \in Nat /\ DOMAIN s = 1..Len(s) /\ Len(frames) \in Nat
        /\ DOMAIN frames = 1..Len(frames) /\ f \in Nat /\ f # 0
    BY LenProperties
  <1>2. /\ DOMAIN more = 1..f /\ more[f] = n
        /\ \A k \in 1..Len(frames) : more[k] = frames[k]
    BY <1>1, AppendProperties, LenProperties
  <1>3. /\ Bytes(f, n) \in Seq(Byte) /\ Len(Bytes(f, n)) = n
        /\ \A i \in 1..n : Bytes(f, n)[i] = <<f, i>>
    BY <1>1, BytesAreBytes
  <1>4. /\ DOMAIN t = 1..(Len(s) + n)
        /\ \A i \in 1..(Len(s) + n) : t[i] = IF i <= Len(s) THEN s[i] ELSE <<f, i - Len(s)>>
    <2>1. t \in Seq(Byte) /\ Len(t) = Len(s) + n
          /\ \A i \in 1..(Len(s) + n) : t[i] = IF i <= Len(s) THEN s[i]
                                               ELSE Bytes(f, n)[i - Len(s)]
      BY <1>3, ConcatProperties, ZenonT(60)
    <2>2. \A i \in 1..(Len(s) + n) : ~(i <= Len(s)) => i - Len(s) \in 1..n
      BY <1>1
    <2>3. DOMAIN t = 1..(Len(s) + n)
      BY <2>1, LenProperties
    <2> HIDE DEF t, f
    <2> QED
      BY <1>3, <2>1, <2>2, <2>3
  <1> HIDE DEF t, f, more
  <1>5. \A k \in DOMAIN more : \A i \in 1..more[k] : \E p \in DOMAIN t : t[p] = <<k, i>>
    <2> SUFFICES ASSUME NEW k \in DOMAIN more, NEW i \in 1..more[k]
                 PROVE  \E p \in DOMAIN t : t[p] = <<k, i>>
      OBVIOUS
    <2>1. CASE k = f
      <3>1. i \in 1..n /\ Len(s) + i \in 1..(Len(s) + n) /\ ~(Len(s) + i <= Len(s))
            /\ Len(s) + i - Len(s) = i
        BY <1>1, <1>2, <2>1
      <3>2. t[Len(s) + i] = <<f, i>>
        BY <1>4, <3>1
      <3> DEFINE j == Len(s) + i
      <3>3. j \in DOMAIN t /\ t[j] = <<k, i>>
        BY <1>4, <2>1, <3>1, <3>2
      <3> HIDE DEF j
      <3> QED
        BY <3>3
    <2>2. CASE k # f
      <3>1. k \in DOMAIN frames /\ i \in 1..frames[k]
        BY <1>1, <1>2, <2>2 DEF f
      <3>2. PICK p \in DOMAIN s : s[p] = <<k, i>>
        BY <3>1 DEF WholeStream
      <3>3. p \in DOMAIN t /\ t[p] = s[p]
        BY <1>1, <1>4
      <3> QED
        BY <3>2, <3>3
    <2> QED
      BY <2>1, <2>2
  <1>6. \A p \in DOMAIN t : t[p][1] # 0 => t[p][1] \in DOMAIN more /\ t[p][2] \in 1..more[t[p][1]]
    <2> SUFFICES ASSUME NEW p \in DOMAIN t, t[p][1] # 0
                 PROVE  t[p][1] \in DOMAIN more /\ t[p][2] \in 1..more[t[p][1]]
      OBVIOUS
    <2>1. CASE p <= Len(s)
      <3>1. p \in DOMAIN s /\ t[p] = s[p]
        BY <1>1, <1>4, <2>1
      <3>2. s[p][1] \in DOMAIN frames /\ s[p][2] \in 1..frames[s[p][1]]
        BY <3>1 DEF WholeStream
      <3>3. s[p][1] \in DOMAIN more /\ more[s[p][1]] = frames[s[p][1]]
        BY <1>1, <1>2, <3>2 DEF f
      <3> QED
        BY <3>1, <3>2, <3>3
    <2>2. CASE ~(p <= Len(s))
      <3>1. t[p] = <<f, p - Len(s)>> /\ p - Len(s) \in 1..n
        BY <1>1, <1>4, <2>2
      <3> QED
        BY <1>1, <1>2, <3>1
    <2> QED
      BY <2>1, <2>2
  <1>7. \A p, r \in DOMAIN t :
          p < r /\ t[p][1] # 0 /\ t[r][1] # 0 =>
            \/ t[p][1] < t[r][1]
            \/ t[p][1] = t[r][1] /\ t[p][2] < t[r][2]
    <2> SUFFICES ASSUME NEW p \in DOMAIN t, NEW r \in DOMAIN t,
                        p < r, t[p][1] # 0, t[r][1] # 0
                 PROVE  \/ t[p][1] < t[r][1]
                        \/ t[p][1] = t[r][1] /\ t[p][2] < t[r][2]
      OBVIOUS
    <2>1. CASE r <= Len(s)
      <3>1. p \in DOMAIN s /\ t[p] = s[p] /\ r \in DOMAIN s /\ t[r] = s[r]
        BY <1>1, <1>4, <2>1
      <3> QED
        BY <3>1 DEF WholeStream
    <2>2. CASE p <= Len(s) /\ ~(r <= Len(s))
      <3>1. p \in DOMAIN s /\ t[p] = s[p] /\ t[r] = <<f, r - Len(s)>>
        BY <1>1, <1>4, <2>2
      <3>2. s[p][1] \in DOMAIN frames
        BY <3>1 DEF WholeStream
      <3>3. s[p][1] < f
        BY <1>1, <3>2 DEF f
      <3> QED
        BY <3>1, <3>3
    <2>3. CASE ~(p <= Len(s)) /\ ~(r <= Len(s))
      <3>1. t[p] = <<f, p - Len(s)>> /\ t[r] = <<f, r - Len(s)>> /\ p - Len(s) < r - Len(s)
        BY <1>1, <1>4, <2>3
      <3> QED
        BY <3>1
    <2> QED
      BY <1>1, <1>4, <2>1, <2>2, <2>3
  <1> QED
    BY <1>5, <1>6, <1>7 DEF WholeStream, t, more, f

\* A part of two sequences that reaches into the second.
LEMMA CutOfBoth ==
  ASSUME NEW s \in Seq(Byte), NEW t \in Seq(Byte), NEW w \in Nat, w <= Len(s)
  PROVE  SubSeq(s \o t, w + 1, Len(s \o t)) = SubSeq(s, w + 1, Len(s)) \o t
  <1> DEFINE all == s \o t
             l == SubSeq(all, w + 1, Len(all))
             c == SubSeq(s, w + 1, Len(s))
  <1>1. Len(s) \in Nat /\ Len(t) \in Nat /\ w + 1 \in Int
    BY LenProperties
  <1>2. /\ all \in Seq(Byte) /\ Len(all) = Len(s) + Len(t)
        /\ \A i \in 1..(Len(s) + Len(t)) : all[i] = IF i <= Len(s) THEN s[i] ELSE t[i - Len(s)]
    BY <1>1, ConcatProperties
  <1> HIDE DEF all
  <1>3. /\ l \in Seq(Byte) /\ Len(l) = Len(s) + Len(t) - w
        /\ \A i \in 1..(Len(s) + Len(t) - w) : l[i] = all[w + i]
    <2>1. /\ Len(all) \in Int /\ w + 1 <= Len(all) + 1 /\ Len(all) \in Nat
          /\ \A i \in w + 1 .. Len(all) : all[i] \in Byte
      BY <1>1, <1>2, ElementOfSeq
    <2>2. /\ l \in Seq(Byte)
          /\ Len(l) = IF w + 1 <= Len(all) THEN Len(all) - (w + 1) + 1 ELSE 0
          /\ \A i \in 1..(Len(all) - (w + 1) + 1) : l[i] = all[w + 1 + i - 1]
      BY <1>1, <2>1, SubSeqProperties, SMTT(60)
    <2> HIDE DEF l
    <2>3. Len(all) - (w + 1) + 1 = Len(s) + Len(t) - w
      BY <1>1, <1>2
    <2>4. \A i \in 1..(Len(s) + Len(t) - w) : w + 1 + i - 1 = w + i
      BY <1>1
    <2> QED
      BY <1>1, <1>2, <2>1, <2>2, <2>3, <2>4
  <1>4. /\ c \in Seq(Byte) /\ Len(c) = Len(s) - w
        /\ \A i \in 1..(Len(s) - w) : c[i] = s[w + i]
    <2>1. Len(s) \in Int /\ \A i \in w + 1 .. Len(s) : s[i] \in Byte
      BY <1>1, ElementOfSeq
    <2>2. /\ c \in Seq(Byte)
          /\ Len(c) = IF w + 1 <= Len(s) THEN Len(s) - (w + 1) + 1 ELSE 0
          /\ \A i \in 1..(Len(s) - (w + 1) + 1) : c[i] = s[w + 1 + i - 1]
      BY <1>1, <2>1, SubSeqProperties
    <2> HIDE DEF c
    <2>3. Len(s) - (w + 1) + 1 = Len(s) - w
      BY <1>1
    <2>4. \A i \in 1..(Len(s) - w) : w + 1 + i - 1 = w + i
      BY <1>1
    <2>5. Len(c) = Len(s) - w
      BY <1>1, <2>2
    <2>6. \A i \in 1..(Len(s) - w) : c[i] = s[w + i]
      BY <2>2, <2>3, <2>4
    <2> QED
      BY <2>2, <2>5, <2>6
  <1> HIDE DEF l, c
  <1>5. /\ c \o t \in Seq(Byte) /\ Len(c \o t) = Len(s) - w + Len(t)
        /\ \A i \in 1..(Len(s) - w + Len(t)) :
             (c \o t)[i] = IF i <= Len(s) - w THEN c[i] ELSE t[i - (Len(s) - w)]
    <2>1. /\ c \o t \in Seq(Byte) /\ Len(c \o t) = Len(c) + Len(t)
          /\ \A i \in 1..(Len(c) + Len(t)) :
               (c \o t)[i] = IF i <= Len(c) THEN c[i] ELSE t[i - Len(c)]
      BY <1>4, ConcatProperties
    <2>2. Len(c) = Len(s) - w
      BY <1>4
    <2> QED
      BY <2>1, <2>2, Zenon
  <1>6. Len(l) = Len(c \o t)
    BY <1>1, <1>3, <1>5
  <1>7. ASSUME NEW i \in 1..Len(l)
        PROVE  l[i] = (c \o t)[i]
    <2>1. /\ i \in 1..(Len(s) + Len(t) - w) /\ i \in 1..(Len(s) - w + Len(t))
          /\ w + i \in 1..(Len(s) + Len(t)) /\ w + i - Len(s) = i - (Len(s) - w)
      BY <1>1, <1>3
    <2>2. CASE i <= Len(s) - w
      <3>1. i \in 1..(Len(s) - w) /\ w + i <= Len(s)
        BY <1>1, <2>1, <2>2
      <3> QED
        BY <1>2, <1>3, <1>4, <1>5, <2>1, <2>2, <3>1
    <2>3. CASE ~(i <= Len(s) - w)
      <3>1. ~(w + i <= Len(s))
        BY <1>1, <2>1, <2>3
      <3> QED
        BY <1>2, <1>3, <1>5, <2>1, <2>3, <3>1, SMTT(60)
    <2> QED
      BY <2>2, <2>3
  <1>8. l = c \o t
    BY <1>3, <1>5, <1>6, <1>7, SeqEqual
  <1> QED
    BY <1>8 DEF l, c, all

\* A byte that the client reads goes from one sequence to the other.
LEMMA ReadMoves ==
  ASSUME NEW got \in Seq(Byte), NEW kernel \in Seq(Byte), kernel # <<>>
  PROVE  /\ Append(got, Head(kernel)) \in Seq(Byte) /\ Tail(kernel) \in Seq(Byte)
         /\ Len(Append(got, Head(kernel))) = Len(got) + 1
         /\ Len(Tail(kernel)) = Len(kernel) - 1
         /\ Append(got, Head(kernel)) \o Tail(kernel) = got \o kernel
  <1> DEFINE a == Append(got, Head(kernel))
  <1>1. /\ Head(kernel) \in Byte /\ Tail(kernel) \in Seq(Byte)
        /\ Len(Tail(kernel)) = Len(kernel) - 1
        /\ \A i \in 1..Len(Tail(kernel)) : Tail(kernel)[i] = kernel[i + 1]
        /\ Head(kernel) = kernel[1]
    BY HeadTailProperties
  <1>2. Len(got) \in Nat /\ Len(kernel) \in Nat /\ Len(kernel) > 0
    BY LenProperties, EmptySeq
  <1>3. /\ a \in Seq(Byte) /\ Len(a) = Len(got) + 1
        /\ \A i \in 1..Len(got) : a[i] = got[i]
        /\ a[Len(got) + 1] = kernel[1]
    BY <1>1, AppendProperties
  <1> HIDE DEF a
  <1>4. /\ a \o Tail(kernel) \in Seq(Byte)
        /\ Len(a \o Tail(kernel)) = Len(got) + 1 + (Len(kernel) - 1)
        /\ \A i \in 1..(Len(got) + 1 + (Len(kernel) - 1)) :
             (a \o Tail(kernel))[i] = IF i <= Len(got) + 1 THEN a[i]
                                      ELSE Tail(kernel)[i - (Len(got) + 1)]
    <2> DEFINE t == Tail(kernel)
    <2>1. t \in Seq(Byte) /\ Len(t) = Len(kernel) - 1 /\ Len(a) = Len(got) + 1
      BY <1>1, <1>3
    <2>2. /\ a \o t \in Seq(Byte) /\ Len(a \o t) = Len(a) + Len(t)
          /\ \A i \in 1..(Len(a) + Len(t)) :
               (a \o t)[i] = IF i <= Len(a) THEN a[i] ELSE t[i - Len(a)]
      BY <1>3, <2>1, ConcatProperties
    <2> QED
      BY <2>1, <2>2, Zenon
  <1>5. /\ got \o kernel \in Seq(Byte) /\ Len(got \o kernel) = Len(got) + Len(kernel)
        /\ \A i \in 1..(Len(got) + Len(kernel)) :
             (got \o kernel)[i] = IF i <= Len(got) THEN got[i] ELSE kernel[i - Len(got)]
    BY ConcatProperties
  <1>6. Len(a \o Tail(kernel)) = Len(got \o kernel)
    BY <1>2, <1>4, <1>5
  <1>7. ASSUME NEW i \in 1..Len(a \o Tail(kernel))
        PROVE  (a \o Tail(kernel))[i] = (got \o kernel)[i]
    <2>1. /\ i \in 1..(Len(got) + 1 + (Len(kernel) - 1)) /\ i \in 1..(Len(got) + Len(kernel))
      BY <1>2, <1>4
    <2>2. CASE i <= Len(got)
      BY <1>2, <1>3, <1>4, <1>5, <2>1, <2>2
    <2>3. CASE i = Len(got) + 1
      <3>1. i - Len(got) = 1 /\ ~(i <= Len(got)) /\ i <= Len(got) + 1
        BY <1>2, <2>3
      <3> QED
        BY <1>3, <1>4, <1>5, <2>1, <2>3, <3>1
    <2>4. CASE i > Len(got) + 1
      <3>1. /\ ~(i <= Len(got)) /\ ~(i <= Len(got) + 1)
            /\ i - (Len(got) + 1) \in 1..(Len(kernel) - 1)
            /\ i - (Len(got) + 1) + 1 = i - Len(got)
        BY <1>2, <2>1, <2>4
      <3> QED
        BY <1>1, <1>4, <1>5, <2>1, <3>1
    <2> QED
      BY <1>2, <2>1, <2>2, <2>3, <2>4, SMTT(60)
  <1>8. a \o Tail(kernel) = got \o kernel
    BY <1>4, <1>5, <1>6, <1>7, SeqEqual
  <1> QED
    BY <1>1, <1>3, <1>8 DEF a

-----------------------------------------------------------------------------
(* The steps.                                                              *)

\* notifyOverpressure puts bytes between those that are written, or none.
LEMMA NoticeKeeps ==
  ASSUME NEW b, GoodQueue(b), NEW frames, WholeStream(Stream(b), frames)
  PROVE  /\ GoodQueue(Notice(b)) /\ WholeStream(Stream(Notice(b)), frames)
         /\ fd # "open" => Notice(b) = b
  <1> DEFINE m == Least(Room(b), NoticeLen)
             n == SubSeq(Bytes(0, NoticeLen), 1, m)
             c == [b EXCEPT !.kernel = b.kernel \o n]
             rest == SubSeq(b.out, b.wpend + 1, Len(b.out))
  <1>1. /\ Parts(b) /\ b \in Queue /\ b.wpend <= Len(b.out) /\ Len(b.kernel) <= KernelCap
        /\ b.wpend > 0 => tls /\ b.retry
    BY QueueParts DEF GoodQueue
  <1>2. m \in Nat /\ m <= NoticeLen /\ Len(b.kernel) + m <= KernelCap
    <2>1. Len(b.kernel) \in Nat /\ Len(b.kernel) <= KernelCap
      BY <1>1 DEF Parts
    <2> DEFINE k == Len(b.kernel)
    <2>2. m = IF KernelCap - k < NoticeLen THEN KernelCap - k ELSE NoticeLen
      BY DEF Least, Room
    <2>3. k \in Nat /\ k <= KernelCap
      BY <2>1
    <2> HIDE DEF k, m
    <2>4. m \in Nat /\ m <= NoticeLen /\ k + m <= KernelCap
      BY <2>2, <2>3, Constants
    <2> QED
      BY <2>4 DEF k
  <1>3. Notice(b) = (IF fd # "open" THEN b ELSE c)
    BY DEF Notice
  <1> HIDE DEF m
  <1>4. n \in Seq(Byte) /\ Len(n) = m /\ Notices(n)
    <2>1. /\ Bytes(0, NoticeLen) \in Seq(Byte) /\ Len(Bytes(0, NoticeLen)) = NoticeLen
          /\ \A i \in 1..NoticeLen : Bytes(0, NoticeLen)[i] = <<0, i>>
      BY Constants, BytesAreBytes
    <2>2. n \in Seq(Byte) /\ Len(n) = m
      BY <1>2, <2>1, CutAtStart
    <2>3. ASSUME NEW p \in 1..m
          PROVE  n[p] = Bytes(0, NoticeLen)[p]
      <3>1. 1 \in Int /\ m \in Int /\ \A i \in 1..m : Bytes(0, NoticeLen)[i] \in Byte
        BY <1>2, <2>1, Constants DEF Byte
      <3>2. \A i \in 1..(m - 1 + 1) : n[i] = Bytes(0, NoticeLen)[1 + i - 1]
        BY <3>1, SubSeqProperties
      <3>3. p \in 1..(m - 1 + 1) /\ 1 + p - 1 = p
        BY <1>2
      <3> HIDE DEF n
      <3> QED
        BY <3>2, <3>3
    <2> HIDE DEF n
    <2>4. \A p \in 1..m : n[p] = <<0, p>>
      BY <1>2, <2>1, <2>3, Constants
    <2> QED
      BY <2>2, <2>4 DEF Notices
  <1> HIDE DEF n
  <1>5. b.kernel \o n \in Seq(Byte) /\ Len(b.kernel \o n) = Len(b.kernel) + m
    <2>1. b.kernel \in Seq(Byte)
      BY <1>1 DEF Parts
    <2>2. b.kernel \o n \in Seq(Byte) /\ Len(b.kernel \o n) = Len(b.kernel) + Len(n)
      BY <1>4, <2>1, ConcatProperties
    <2> QED
      BY <1>4, <2>2
  <1>6. /\ c \in Queue /\ c.kernel = b.kernel \o n /\ c.got = b.got /\ c.out = b.out
        /\ c.wpend = b.wpend /\ c.retry = b.retry
    BY <1>1, <1>5 DEF Queue
  <1> HIDE DEF c
  <1>7. GoodQueue(c)
    BY <1>1, <1>2, <1>5, <1>6 DEF GoodQueue
  <1>8. WholeStream(Stream(c), frames)
    <2>1. rest \in Seq(Byte) /\ b.got \o b.kernel \in Seq(Byte)
      <3>1. b.out \in Seq(Byte) /\ b.wpend \in Nat /\ Len(b.out) \in Nat /\ Len(b.out) <= Len(b.out)
            /\ b.got \in Seq(Byte) /\ b.kernel \in Seq(Byte)
        BY <1>1 DEF Parts
      <3> QED
        BY <1>1, <3>1, Cut, ConcatProperties
    <2>2. Stream(b) = (b.got \o b.kernel) \o rest
      BY DEF Stream
    <2> HIDE DEF rest
    <2>3. WholeStream(((b.got \o b.kernel) \o n) \o rest, frames)
      BY <1>4, <2>1, <2>2, NoticeIsBetween
    <2>4. (b.got \o b.kernel) \o n = b.got \o (b.kernel \o n)
      <3>1. b.got \in Seq(Byte) /\ b.kernel \in Seq(Byte)
        BY <1>1 DEF Parts
      <3> QED
        BY <1>4, <3>1, Assoc, Zenon
    <2>5. Stream(c) = (b.got \o (b.kernel \o n)) \o rest
      BY <1>6 DEF Stream, rest
    <2> QED
      BY <2>3, <2>4, <2>5
  <1> QED
    BY <1>3, <1>7, <1>8

\* A frame is put behind outbuf.
LEMMA AppendedKeeps ==
  ASSUME GoodQueue(q), sizes \in Seq(Nat), StreamIsWhole, NEW n \in Nat
  PROVE  /\ GoodQueue(Appended(n))
         /\ WholeStream(Stream(Appended(n)), Append(sizes, n))
         /\ Appended(n).got = q.got /\ Appended(n).kernel = q.kernel
  <1> DEFINE B == Bytes(Len(sizes) + 1, n)
             b == Appended(n)
  <1>1. /\ Parts(q) /\ q \in Queue /\ q.wpend <= Len(q.out) /\ Len(q.kernel) <= KernelCap
        /\ q.wpend > 0 => tls /\ q.retry
    BY QueueParts DEF GoodQueue
  <1>2. B \in Seq(Byte)
    BY LenProperties, BytesAreBytes
  <1>3. b = [q EXCEPT !.out = q.out \o B, !.moved = q.retry]
    BY DEF Appended
  <1> HIDE DEF B, b
  <1>4. q.out \o B \in Seq(Byte) /\ Len(q.out) <= Len(q.out \o B)
    <2>1. /\ q.out \o B \in Seq(Byte) /\ Len(q.out \o B) = Len(q.out) + Len(B)
          /\ Len(B) \in Nat /\ Len(q.out) \in Nat
      BY <1>1, <1>2, ConcatProperties, LenProperties DEF Parts
    <2> QED
      BY <2>1
  <1>5. /\ b \in Queue /\ b.out = q.out \o B /\ b.wpend = q.wpend /\ b.retry = q.retry
        /\ b.got = q.got /\ b.kernel = q.kernel
    <2>1. q.retry \in BOOLEAN
      BY <1>1 DEF Queue
    <2> QED
      BY <1>1, <1>3, <1>4, <2>1 DEF Queue
  <1>6. GoodQueue(b)
    <2>1. Len(q.out \o B) \in Nat
      BY <1>4, LenProperties
    <2> QED
      BY <1>1, <1>4, <1>5, <2>1 DEF GoodQueue, Parts
  <1>7. Stream(b) = Stream(q) \o B
    <2> DEFINE rest == SubSeq(q.out, q.wpend + 1, Len(q.out))
    <2>1. /\ q.out \in Seq(Byte) /\ q.wpend \in Nat /\ Len(q.out) \in Nat
          /\ Len(q.out) <= Len(q.out) /\ q.got \in Seq(Byte) /\ q.kernel \in Seq(Byte)
      BY <1>1 DEF Parts
    <2>2. rest \in Seq(Byte) /\ q.got \o q.kernel \in Seq(Byte)
      BY <1>1, <2>1, Cut, ConcatProperties
    <2>3. SubSeq(q.out \o B, q.wpend + 1, Len(q.out \o B)) = rest \o B
      BY <1>1, <1>2, <2>1, CutOfBoth
    <2>4. Stream(b) = (q.got \o q.kernel) \o (rest \o B)
      BY <1>5, <2>3 DEF Stream
    <2>5. Stream(q) = (q.got \o q.kernel) \o rest
      BY DEF Stream
    <2> HIDE DEF rest
    <2>6. ((q.got \o q.kernel) \o rest) \o B = (q.got \o q.kernel) \o (rest \o B)
      BY <1>2, <2>2, Assoc, Zenon
    <2> QED
      BY <2>4, <2>5, <2>6, Zenon
  <1>8. Stream(q) \in Seq(Byte)
    <2>1. /\ q.out \in Seq(Byte) /\ q.wpend \in Nat /\ Len(q.out) \in Nat
          /\ Len(q.out) <= Len(q.out) /\ q.got \in Seq(Byte) /\ q.kernel \in Seq(Byte)
      BY <1>1 DEF Parts
    <2>2. SubSeq(q.out, q.wpend + 1, Len(q.out)) \in Seq(Byte) /\ q.got \o q.kernel \in Seq(Byte)
      BY <1>1, <2>1, Cut, ConcatProperties
    <2> QED
      BY <2>2, ConcatProperties DEF Stream
  <1>9. WholeStream(Stream(q) \o B, Append(sizes, n))
    BY <1>8, FrameIsBehind DEF StreamIsWhole, B
  <1> QED
    BY <1>5, <1>6, <1>7, <1>9 DEF b

\* Every way a send can end: refused at once, or the frame is in the stream.
LEMMA SendKeeps ==
  ASSUME GoodQueue(q), sizes \in Seq(Sizes), StreamIsWhole,
         NEW n \in Sizes, NEW ok, Send(n, ok)
  PROVE  /\ GoodQueue(q)' /\ StreamIsWhole' /\ sizes' \in Seq(Sizes)
         /\ fd # "open" => q'.got = q.got /\ q'.kernel = q.kernel
  <1>1. PICK r \in Sends(n) : q' = r.q
    BY DEF Send
  <1>2. /\ tls' = tls
        /\ sizes' = IF fd = "closed" \/ n > MaxBody THEN sizes ELSE Append(sizes, n)
    BY DEF Send
  <1>3. sizes \in Seq(Nat) /\ n \in Nat
    BY Constants, SeqMonotonic
  <1>4. sizes' \in Seq(Sizes)
    BY <1>2, AppendProperties
  <1> DEFINE b == Appended(n)
  <1>5. /\ GoodQueue(b) /\ WholeStream(Stream(b), Append(sizes, n))
        /\ b.got = q.got /\ b.kernel = q.kernel
    BY <1>3, AppendedKeeps
  <1>6. Sends(n) = IF fd = "closed" \/ n > MaxBody THEN {[q |-> q, ok |-> FALSE]}
                   ELSE IF Len(b.out) > Cap THEN {[q |-> Notice(b), ok |-> FALSE]}
                   ELSE IF tls /\ q.out # <<>> THEN {[q |-> b, ok |-> TRUE]}
                   ELSE Drains(b)
    BY DEF Sends
  <1> HIDE DEF b
  <1>7. GoodQueue(q') => GoodQueue(q)'
    BY <1>2 DEF GoodQueue, Queue
  <1>8. CASE fd = "closed" \/ n > MaxBody
    <2>1. q' = q /\ sizes' = sizes
      BY <1>1, <1>2, <1>6, <1>8
    <2> QED
      BY <1>4, <1>7, <2>1 DEF StreamIsWhole
  <1>9. CASE ~(fd = "closed" \/ n > MaxBody)
    <2>1. sizes' = Append(sizes, n)
      BY <1>2, <1>9
    <2>2. q' = b \/ q' = Notice(b) \/ r \in Drains(b)
      BY <1>1, <1>6, <1>9
    <2>3. /\ GoodQueue(q') /\ WholeStream(Stream(q'), Append(sizes, n))
          /\ fd # "open" => q' = b
      <3>1. CASE q' = b
        BY <1>5, <3>1
      <3>2. CASE q' = Notice(b)
        BY <1>5, <3>2, NoticeKeeps
      <3>3. CASE r \in Drains(b)
        <4>1. GoodQueue(r.q) /\ Stream(r.q) = Stream(b) /\ (fd # "open" => r.q = b)
          BY <1>5, <3>3, DrainsKeep
        <4> QED
          BY <1>1, <1>5, <4>1
      <3> QED
        BY <2>2, <3>1, <3>2, <3>3
    <2>4. StreamIsWhole'
      BY <2>1, <2>3 DEF StreamIsWhole
    <2> QED
      BY <1>4, <1>5, <1>7, <2>3, <2>4
  <1> QED
    BY <1>8, <1>9

-----------------------------------------------------------------------------
(* The theorems.                                                           *)

\* All but the queue.
Types ==
  /\ tls \in BOOLEAN /\ served \in BOOLEAN /\ stalled \in BOOLEAN
  /\ fd \in {"open", "shut", "closed"}
  /\ sizes \in Seq(Sizes)
  /\ pc \in [Threads -> {"recv", "idle", "held", "sleep", "drop", "shut",
                         "close", "ended"}]

Inv == Types /\ GoodQueue(q) /\ StreamIsWhole

\* Bytes that have been written, by whomever.
Grows == Len(q'.got) + Len(q'.kernel) > Len(q.got) + Len(q.kernel)

LEMMA SameLengths ==
  ASSUME Parts(q), q'.got = q.got, q'.kernel = q.kernel
  PROVE  ~Grows
  <1> DEFINE g == Len(q.got)
             k == Len(q.kernel)
             g2 == Len(q'.got)
             k2 == Len(q'.kernel)
  <1>1. g \in Nat /\ k \in Nat
    BY DEF Parts
  <1>2. g2 = g /\ k2 = k
    BY Zenon
  <1>3. Grows <=> g2 + k2 > g + k
    BY DEF Grows
  <1> HIDE DEF g, k, g2, k2
  <1> QED
    BY <1>1, <1>2, <1>3

LEMMA InitInv == Init => Inv
  <1> SUFFICES ASSUME Init PROVE Inv
    OBVIOUS
  <1> DEFINE e == <<>>
  <1>1. e \in Seq(Byte) /\ e \in Seq(Sizes) /\ Len(e) = 0
    BY EmptySeq
  <1>2. q = [out |-> e, wpend |-> 0, retry |-> FALSE, moved |-> FALSE, kernel |-> e, got |-> e]
        /\ sizes = e
    BY DEF Init
  <1>3. Stream(q) = e
    <2>1. SubSeq(e, 0 + 1, Len(e)) = e
      BY <1>1, SubSeqFull
    <2>2. e \o e = e
      BY <1>1, ConcatEmptySeq
    <2> HIDE DEF e
    <2>3. q.out = e /\ q.wpend = 0 /\ q.kernel = e /\ q.got = e
      BY <1>2
    <2> QED
      BY <2>1, <2>2, <2>3, Zenon DEF Stream
  <1>4. DOMAIN e = {}
    OBVIOUS
  <1> HIDE DEF e
  <1>5. GoodQueue(q)
    BY <1>1, <1>2, Constants DEF GoodQueue, Queue
  <1>6. StreamIsWhole
    BY <1>2, <1>3, <1>4 DEF StreamIsWhole, WholeStream
  <1>7. Types
    <2>1. sizes \in Seq(Sizes)
      BY <1>1, <1>2
    <2>2. pc \in [Threads -> {"recv", "idle", "held", "sleep", "drop", "shut",
                             "close", "ended"}]
      BY DEF Init, Threads
    <2> QED
      BY <2>1, <2>2 DEF Init, Types
  <1> QED
    BY <1>5, <1>6, <1>7 DEF Inv

LEMMA QueueStays ==
  ASSUME Inv, UNCHANGED <<q, sizes, tls>>
  PROVE  GoodQueue(q)' /\ StreamIsWhole' /\ sizes' \in Seq(Sizes) /\ ~Grows
  <1>1. Parts(q) /\ q' = q
    BY QueueParts DEF Inv
  <1>2. ~Grows
    BY <1>1, SameLengths
  <1> QED
    BY <1>2 DEF Inv, Types, GoodQueue, Queue, StreamIsWhole

\* Every step keeps the stream whole, and none writes once the socket is shut.
LEMMA NextInv ==
  ASSUME Inv, [Next]_vars
  PROVE  Inv' /\ (Grows => fd = "open")
  <1>1. ASSUME NEW n \in Sizes, NEW ok \in BOOLEAN, Send(n, ok),
               pc' \in [Threads -> {"recv", "idle", "held", "sleep", "drop", "shut",
                                    "close", "ended"}]
        PROVE  Inv' /\ (Grows => fd = "open")
    <2>1. /\ GoodQueue(q)' /\ StreamIsWhole' /\ sizes' \in Seq(Sizes)
          /\ fd # "open" => q'.got = q.got /\ q'.kernel = q.kernel
      BY <1>1, SendKeeps DEF Inv, Types
    <2>2. Grows => fd = "open"
      <3>1. Parts(q)
        BY QueueParts DEF Inv
      <3> QED
        BY <2>1, <3>1, SameLengths
    <2>3. UNCHANGED <<tls, served, fd, stalled>>
      BY <1>1 DEF Send
    <2> QED
      BY <1>1, <2>1, <2>2, <2>3 DEF Inv, Types
  <1>2. CASE Reply
    BY <1>1, <1>2 DEF Reply, Inv, Types
  <1>3. CASE Relay
    <2>1. PICK n \in Sizes, ok \in BOOLEAN :
            Send(n, ok) /\ pc' = [pc EXCEPT !["relay"] = IF ok THEN "idle" ELSE "drop"]
      BY <1>3 DEF Relay, Goto
    <2> QED
      BY <1>1, <2>1 DEF Inv, Types
  <1>4. CASE Broadcast
    <2>1. PICK n \in Sizes, ok \in BOOLEAN :
            Send(n, ok) /\ pc' = [pc EXCEPT !["relay"] = "idle"]
      BY <1>4 DEF Broadcast, Goto
    <2> QED
      BY <1>1, <2>1 DEF Inv, Types
  <1>5. CASE MonDrain
    <2>1. PICK d \in Drains(q) :
            LET ok == d.ok /\ Len(d.q.out) <= Cap
            IN /\ q' = IF ok THEN d.q ELSE Notice(d.q)
               /\ pc' = [pc EXCEPT !["mon"] = IF ok THEN "sleep" ELSE "drop"]
      BY <1>5 DEF MonDrain, Goto
    <2>2. UNCHANGED <<tls, served, fd, stalled, sizes>>
      BY <1>5 DEF MonDrain
    <2>3. /\ GoodQueue(d.q) /\ Stream(d.q) = Stream(q)
          /\ fd # "open" => d.q = q
      BY DrainsKeep DEF Inv
    <2>4. WholeStream(Stream(d.q), sizes)
      BY <2>3 DEF Inv, StreamIsWhole
    <2>5. /\ GoodQueue(Notice(d.q)) /\ WholeStream(Stream(Notice(d.q)), sizes)
          /\ fd # "open" => Notice(d.q) = d.q
      BY <2>3, <2>4, NoticeKeeps
    <2>6. /\ GoodQueue(q') /\ WholeStream(Stream(q'), sizes)
          /\ fd # "open" => q' = q
      BY <2>1, <2>3, <2>4, <2>5
    <2>7. GoodQueue(q)' /\ StreamIsWhole'
      BY <2>2, <2>6 DEF GoodQueue, Queue, StreamIsWhole
    <2>8. Types'
      BY <2>1, <2>2 DEF Inv, Types
    <2>9. Grows => fd = "open"
      <3>1. Parts(q)
        BY QueueParts DEF Inv
      <3> QED
        BY <2>6, <3>1, SameLengths
    <2> QED
      BY <2>7, <2>8, <2>9 DEF Inv
  <1>6. CASE ClientRead
    <2> DEFINE got == Append(q.got, Head(q.kernel))
               left == Tail(q.kernel)
    <2>1. /\ q' = [q EXCEPT !.kernel = left, !.got = got] /\ q.kernel # <<>>
          /\ UNCHANGED <<tls, served, sizes, pc>>
          /\ \/ stalled' = TRUE /\ fd' \in {fd, "shut"}
             \/ UNCHANGED <<stalled, fd>>
      BY <1>6 DEF ClientRead
    <2>2. /\ Parts(q) /\ q \in Queue /\ Len(q.kernel) <= KernelCap /\ q.wpend <= Len(q.out)
          /\ q.wpend > 0 => tls /\ q.retry
      BY QueueParts DEF Inv, GoodQueue
    <2>3. /\ got \in Seq(Byte) /\ left \in Seq(Byte)
          /\ Len(got) = Len(q.got) + 1 /\ Len(left) = Len(q.kernel) - 1
          /\ got \o left = q.got \o q.kernel
      BY <2>1, <2>2, ReadMoves DEF Parts
    <2> HIDE DEF got, left
    <2>4. /\ q' \in Queue /\ q'.got = got /\ q'.kernel = left /\ q'.out = q.out
          /\ q'.wpend = q.wpend /\ q'.retry = q.retry
      BY <2>1, <2>2, <2>3 DEF Queue
    <2>5. GoodQueue(q)'
      <3>1. Len(left) <= KernelCap
        BY <2>2, <2>3, Constants DEF Parts
      <3> QED
        BY <2>1, <2>2, <2>4, <3>1 DEF GoodQueue, Queue
    <2>6. StreamIsWhole'
      <3>1. Stream(q') = Stream(q)
        BY <2>3, <2>4, Zenon DEF Stream
      <3> QED
        BY <2>1, <3>1 DEF Inv, StreamIsWhole
    <2>7. ~Grows
      <3> DEFINE g == Len(q.got)
                 k == Len(q.kernel)
                 g2 == Len(q'.got)
                 k2 == Len(q'.kernel)
      <3>1. g \in Nat /\ k \in Nat
        BY <2>2 DEF Parts
      <3>2. g2 = Len(got) /\ k2 = Len(left)
        BY <2>4, Zenon
      <3>3. g2 = g + 1 /\ k2 = k - 1
        BY <2>3, <3>2
      <3>4. Grows <=> g2 + k2 > g + k
        BY DEF Grows
      <3> HIDE DEF g, k, g2, k2
      <3> QED
        BY <3>1, <3>3, <3>4
    <2>8. Types'
      BY <2>1 DEF Inv, Types
    <2> QED
      BY <2>5, <2>6, <2>7, <2>8 DEF Inv
  <1>7. ASSUME UNCHANGED <<q, sizes, tls>>, Types'
        PROVE  Inv' /\ (Grows => fd = "open")
    BY <1>7, QueueStays DEF Inv
  <1>8. CASE \/ Lookup \/ Collect \/ HandshakeFails \/ OwnEnd \/ Close \/ Stall \/ HangUp
             \/ Quiet \/ UNCHANGED vars
    <2>1. UNCHANGED <<q, sizes, tls>>
      BY <1>8 DEF Lookup, Collect, HandshakeFails, OwnEnd, Close, Stall, HangUp, Quiet, vars
    <2>2. Types'
      BY <1>8 DEF Lookup, Collect, HandshakeFails, OwnEnd, Close, Stall, HangUp, Quiet, vars,
                  Goto, Inv, Types
    <2> QED
      BY <1>7, <2>1, <2>2
  <1>9. ASSUME NEW t \in Threads, Kick(t)
        PROVE  Inv' /\ (Grows => fd = "open")
    <2>1. UNCHANGED <<q, sizes, tls>>
      BY <1>9 DEF Kick, KickDrop, KickShut
    <2>2. Types'
      BY <1>9 DEF Kick, KickDrop, KickShut, Goto, Inv, Types
    <2> QED
      BY <1>7, <2>1, <2>2
  <1> QED
    BY <1>2, <1>3, <1>4, <1>5, <1>6, <1>8, <1>9 DEF Next

LEMMA InvariantHolds == Spec => []Inv
  <1>1. Inv /\ [Next]_vars => Inv'
    BY NextInv
  <1> QED
    BY <1>1, InitInv, PTL DEF Spec

\* Every variable keeps its type; SSL_write only owes bytes under TLS, and only
\* bytes that are still in outbuf (write_progress, erase).
THEOREM TypeCorrect == Spec => []TypeOK
  <1>1. Inv => TypeOK
    <2> SUFFICES ASSUME Inv PROVE TypeOK
      OBVIOUS
    <2>1. /\ q.wpend \in Nat /\ Len(q.out) \in Nat /\ q.wpend <= Len(q.out)
          /\ Len(q.kernel) <= KernelCap
      BY QueueParts DEF Inv, Parts
    <2>2. q.wpend > 0 => tls /\ q.retry
      BY DEF Inv, GoodQueue
    <2> QED
      BY <2>1, <2>2 DEF Inv, Types, TypeOK
  <1> QED
    BY <1>1, InvariantHolds, PTL

\* What the client has read, what is in flight and what waits in outbuf are all
\* the bytes of all frames appended, once and in order, among the notices: no
\* short write, retry, notice or slow state loses, repeats or swaps a byte
\* (sendLocked, drainOutLocked, write_progress, notifyOverpressure), for frames,
\* caps and socket buffers of any size.
THEOREM StreamStaysWhole == Spec => []StreamIsWhole
  <1>1. Inv => StreamIsWhole
    BY DEF Inv
  <1> QED
    BY <1>1, InvariantHolds, PTL

\* No byte is written to a socket number that closeConn has given back
\* (drainOutLocked, notifyOverpressure).
THEOREM ClosedFdIsLeftAlone == Spec => NeverWritesClosedFd
  <1>1. Inv /\ [Next]_vars => [Grows => fd = "open"]_vars
    BY NextInv
  <1> QED
    BY <1>1, InvariantHolds, PTL DEF Spec, NeverWritesClosedFd, Grows
=============================================================================
