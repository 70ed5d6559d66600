------------------------------- MODULE Framing -------------------------------
(***************************************************************************)
(* The frame layer, src/src/frame.cpp, and the loop of handleClient around *)
(* it: bodies with a length in front, on a stream that cuts anywhere.  A   *)
(* byte is a number below Base; the length is four of them, high byte first. *)
(***************************************************************************)
EXTENDS Integers, SequencesExt

CONSTANTS
  Base,          \* 256
  MaxFrame,      \* kMaxFrame
  Chunk,         \* 4096, the buffer of recv
  MaxBody, MaxSent   \* bounds of the model: bytes of a body, frames

ASSUME FramingAssumption ==
  /\ {Base, MaxFrame, Chunk, MaxBody, MaxSent} \subseteq Nat \ {0}
  /\ MaxBody < Base * (Base * (Base * Base))

VARIABLES
  sent,      \* history: the bodies the peer has sent
  wire,      \* bytes sent and not yet received
  buf,       \* FrameReader::buf_
  failed,    \* failed_
  got,       \* the bodies handled
  at         \* handleClient: "recv", "next" or "end"

framingVars == <<sent, wire, buf, failed, got, at>>

HeadLen == 4

\* A number without its last byte, n >> 8.
High(n) == n \div Base

\* Bug: low byte first.
Bug_Wire(body) ==
  LET n == Len(body)
  IN <<n % Base, High(n) % Base, High(High(n)) % Base,
       High(High(High(n))) % Base>> \o body

\* The length in front of a body of n bytes.
Header(n) ==
  <<High(High(High(n))) % Base, High(High(n)) % Base, High(n) % Base, n % Base>>

\* make_wire_frame.
Wire(body) == Header(Len(body)) \o body

FramingInit ==
  /\ sent = <<>> /\ wire = <<>> /\ buf = <<>> /\ failed = FALSE /\ got = <<>>
  /\ at = "recv"

PeerSends(body) ==
  /\ Len(sent) < MaxSent
  /\ sent' = Append(sent, body) /\ wire' = wire \o Wire(body)
  /\ UNCHANGED <<buf, failed, got, at>>

\* recvLocked and feed: what has arrived, or a part of it.
Feed(n) ==
  /\ at = "recv" /\ n <= Len(wire) /\ n <= Chunk
  /\ buf' = IF failed THEN buf ELSE buf \o SubSeq(wire, 1, n)
  /\ wire' = SubSeq(wire, n + 1, Len(wire))
  /\ at' = "next"
  /\ UNCHANGED <<sent, failed, got>>

HasHead(b) == Len(b) >= HeadLen
BodyLen(b) == ((b[1] * Base + b[2]) * Base + b[3]) * Base + b[4]
Complete(b) == Len(b) >= HeadLen + BodyLen(b)

\* next: a length that is too large fails the reader for good ...
TooLong ==
  /\ at = "next" /\ ~failed /\ HasHead(buf) /\ BodyLen(buf) > MaxFrame
  /\ failed' = TRUE
  /\ UNCHANGED <<sent, wire, buf, got, at>>

\* Bug: the rest of the buffer goes with the frame.
Bug_Next ==
  /\ at = "next" /\ ~failed
  /\ HasHead(buf) /\ BodyLen(buf) <= MaxFrame /\ Complete(buf)
  /\ got' = Append(got, SubSeq(buf, HeadLen + 1, HeadLen + BodyLen(buf)))
  /\ buf' = <<>>
  /\ UNCHANGED <<sent, wire, failed, at>>

\* ... a complete body is handled ...
NextBody ==
  /\ at = "next" /\ ~failed
  /\ HasHead(buf) /\ BodyLen(buf) <= MaxFrame /\ Complete(buf)
  /\ got' = Append(got, SubSeq(buf, HeadLen + 1, HeadLen + BodyLen(buf)))
  /\ buf' = SubSeq(buf, HeadLen + 1 + BodyLen(buf), Len(buf))
  /\ UNCHANGED <<sent, wire, failed, at>>

\* ... and the loop ends when there is none, the connection when the reader
\* has failed.
NoBody ==
  /\ at = "next"
  /\ \/ failed \/ ~HasHead(buf)
     \/ HasHead(buf) /\ BodyLen(buf) <= MaxFrame /\ ~Complete(buf)
  /\ at' = IF failed THEN "end" ELSE "recv"
  /\ UNCHANGED <<sent, wire, buf, failed, got>>

FramingNext ==
  \/ \E n \in 0..MaxBody : \E body \in [1..n -> 0..Base - 1] : PeerSends(body)
  \/ \E n \in 1..Chunk : Feed(n)
  \/ TooLong \/ NextBody \/ NoBody

-----------------------------------------------------------------------------
(* Properties                                                              *)

\* Wherever the stream is cut, the bodies handled are those that were sent, in
\* order and whole; one that is too long, and what follows it, is never among
\* them (FrameReader).
FramesAsSent ==
  /\ IsPrefix(got, sent)
  /\ \A n \in DOMAIN got : Len(got[n]) <= MaxFrame

\* No complete frame waits for bytes that come after it: when everything sent
\* has been received, all bodies are handled up to one that is too long, which
\* ends the connection (the inner loop of handleClient).
NothingWaits ==
  at = "recv" /\ wire = <<>> => got = sent /\ buf = <<>>

\* The frames handled are the frames sent, as soon as they have arrived and as
\* long as the stream is sound (FrameReader, handleClient).
StreamIsFrames == FramesAsSent /\ NothingWaits
=============================================================================
