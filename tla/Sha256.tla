------------------------------- MODULE Sha256 -------------------------------
(***************************************************************************)
(* The block layer of pwd_hash.h's sha256: update and final.  compress is  *)
(* ideal: the chaining value is the sequence of the blocks it has taken,   *)
(* so that two digests are equal exactly when their blocks are.            *)
(***************************************************************************)
EXTENDS Integers, SequencesExt

CONSTANTS
  BlockSize, LengthSize,     \* 64 and 8 bytes
  MessageBytes, MaxMessage   \* bound of the model: what is hashed

ASSUME Sha256Assumption ==
  /\ {BlockSize, LengthSize} \subseteq Nat /\ LengthSize \in 1..BlockSize - 1
  /\ MaxMessage \in Nat /\ 8 * MaxMessage < 256 ^ LengthSize

VARIABLES
  message,   \* history: the bytes update was given
  ctx,       \* Ctx: h, block and bitlen
  digest     \* the digest, <<>> before final

shaVars == <<message, ctx, digest>>

ShaInit ==
  /\ message = <<>> /\ digest = <<>>
  /\ ctx = [h |-> <<>>, block |-> <<>>, bitlen |-> 0]

\* update, one byte; compress for a full block.
Absorb(c, byte) ==
  IF Len(c.block) + 1 < BlockSize THEN [c EXCEPT !.block = Append(@, byte)]
  ELSE [h |-> Append(c.h, Append(c.block, byte)), block |-> <<>>,
        bitlen |-> c.bitlen + 8 * BlockSize]

\* ... and byte after byte: the context after k of them, for each k.
AbsorbAll(c, bytes) ==
  LET after[k \in 0..Len(bytes)] ==
        IF k = 0 THEN c ELSE Absorb(after[k - 1], bytes[k])
  IN after[Len(bytes)]

\* update.
Update(bytes) ==
  /\ digest = <<>> /\ Len(message) + Len(bytes) <= MaxMessage
  /\ message' = message \o bytes
  /\ ctx' = AbsorbAll(ctx, bytes)
  /\ UNCHANGED digest

Zeros(n) == [k \in 1..n |-> 0]

\* The zeros final adds until the length fits the block exactly.
Gap(c) == (BlockSize - LengthSize - Len(c.block)) % BlockSize

LengthBytes(n) ==
  [k \in 1..LengthSize |-> (n \div 256 ^ (LengthSize - k)) % 256]

\* Bug: the length is taken after the padding.
Bug_Final(c) ==
  LET padded == Absorb(c, 128)
      filled == AbsorbAll(padded, Zeros(Gap(padded)))
  IN AbsorbAll(filled, LengthBytes(filled.bitlen + 8 * Len(filled.block))).h

\* final: the length is that of the message.
Final(c) ==
  LET padded == Absorb(c, 128)
      filled == AbsorbAll(padded, Zeros(Gap(padded)))
  IN AbsorbAll(filled, LengthBytes(c.bitlen + 8 * Len(c.block))).h

Finish ==
  /\ digest = <<>>
  /\ digest' = Final(ctx)
  /\ UNCHANGED <<message, ctx>>

ShaNext ==
  \/ \E n \in 1..MaxMessage : \E bytes \in [1..n -> MessageBytes] : Update(bytes)
  \/ Finish

-----------------------------------------------------------------------------
(* Properties                                                              *)

\* The digest is a function of the message alone, however update was called,
\* and of nothing shorter: it hashes the message, the mark, the fewest zeros
\* and the message's length (FIPS 180-4, 5.1.1), in whole blocks.
DigestIsOfTheMessage ==
  digest # <<>> =>
    LET text == FlattenSeq(digest)
        n == Len(message)
        zeros == Len(text) - n - 1 - LengthSize
    IN /\ \A k \in DOMAIN digest : Len(digest[k]) = BlockSize
       /\ zeros \in 0..BlockSize - 1
       /\ text = message \o <<128>> \o Zeros(zeros) \o LengthBytes(8 * n)
=============================================================================
