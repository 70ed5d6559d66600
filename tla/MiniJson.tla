------------------------------ MODULE MiniJson ------------------------------
(***************************************************************************)
(* src/include/chat/minijson.h: a frame as an object, and as text.         *)
(*                                                                         *)
(* Texts are sequences of bytes.  Numbers have W bits; the parser's        *)
(* product wraps, as it does in the build (the language leaves an overflow *)
(* open, so no property is about a number that does not fit).              *)
(***************************************************************************)
EXTENDS Integers, SequencesExt

CONSTANTS
  W,                      \* 64
  FieldNames,             \* keys the handlers use
  FieldValues,            \* what they set
  CodePoints,             \* characters a peer may escape
  MaxFields               \* bound of the model: fields of a frame

ASSUME MiniJsonAssumption ==
  W \in Nat \ {0} /\ MaxFields \in Nat /\ CodePoints \subseteq 0..1114111

Str(s)  == [type |-> "str", str |-> s]
Num(n)  == [type |-> "num", num |-> n]
List(l) == [type |-> "list", list |-> l]
Obj(fs) == [type |-> "obj", fields |-> fs]

-----------------------------------------------------------------------------
(* Object                                                                  *)

\* Object::set.
SetField(fs, key, v) ==
  IF \E n \in DOMAIN fs : fs[n][1] = key
  THEN [fs EXCEPT ![SelectInSeq(fs, LAMBDA f : f[1] = key)] = <<key, v>>]
  ELSE Append(fs, <<key, v>>)

\* get_str, get_num: the first field of this key and type.
GetField(fs, key, type, default) ==
  LET n == SelectInSeq(fs, LAMBDA f : f[1] = key /\ f[2].type = type)
  IN IF n = 0 THEN default ELSE fs[n][2]

-----------------------------------------------------------------------------
(* Writing                                                                 *)

\* The escapes of one letter: what is written behind the backslash.
Letter == (34 :> 34) @@ (92 :> 92) @@ (8 :> 98) @@ (12 :> 102) @@ (10 :> 110)
          @@ (13 :> 114) @@ (9 :> 116)
HexDigit(n) == IF n < 10 THEN 48 + n ELSE 87 + n

\* Bug: a backslash is not escaped.
Bug_Escape(s) ==
  FlattenSeq([n \in DOMAIN s |->
    IF s[n] # 92 /\ s[n] \in DOMAIN Letter THEN <<92, Letter[s[n]]>>
    ELSE <<s[n]>>])

\* escape_string.
Escape(s) ==
  FlattenSeq([n \in DOMAIN s |->
    IF s[n] \in DOMAIN Letter THEN <<92, Letter[s[n]]>>
    ELSE IF s[n] < 32
         THEN <<92, 117, 48, 48, HexDigit(s[n] \div 16), HexDigit(s[n] % 16)>>
         ELSE <<s[n]>>])

Quoted(s) == <<34>> \o Escape(s) \o <<34>>

RECURSIVE Decimal(_)
Decimal(n) ==
  IF n < 0 THEN <<45>> \o Decimal(-n)
  ELSE IF n < 10 THEN <<48 + n>> ELSE Append(Decimal(n \div 10), 48 + (n % 10))

\* The parts, with commas between them.
Joined(parts) ==
  FlattenSeq([n \in DOMAIN parts |->
                IF n = 1 THEN parts[n] ELSE <<44>> \o parts[n]])

\* serialize_value, and serialize for an object.
RECURSIVE Serialize(_)
Serialize(v) ==
  CASE v.type = "str"  -> Quoted(v.str)
    [] v.type = "num"  -> Decimal(v.num)
    [] v.type = "list" ->
         <<91>> \o Joined([n \in DOMAIN v.list |-> Serialize(v.list[n])])
         \o <<93>>
    [] v.type = "obj"  ->
         <<123>> \o Joined([n \in DOMAIN v.fields |->
             Quoted(v.fields[n][1]) \o <<58>> \o Serialize(v.fields[n][2])])
         \o <<125>>

-----------------------------------------------------------------------------
(* Reading: a result is where the reader stands and what it has read, or   *)
(* Bad                                                                     *)

Bad == [ok |-> FALSE]
Ok(at, v) == [ok |-> TRUE, at |-> at, v |-> v]

\* t[i], and no byte behind the end.
At(t, i) == IF i \in DOMAIN t THEN t[i] ELSE -1

RECURSIVE SkipWs(_, _)
SkipWs(t, i) == IF At(t, i) \in {32, 9, 10, 13} THEN SkipWs(t, i + 1) ELSE i

HexValue(b) == CASE b \in 48..57  -> b - 48
                 [] b \in 97..102 -> b - 87
                 [] b \in 65..70  -> b - 55
                 [] OTHER         -> -1

\* hex4: the number in the four digits at i, or -1.
Hex4(t, i) ==
  IF \E k \in 0..3 : HexValue(At(t, i + k)) = -1 THEN -1
  ELSE FoldLeft(LAMBDA n, k : 16 * n + HexValue(t[i + k]), 0, <<0, 1, 2, 3>>)

\* append_utf8.
Utf8(cp) ==
  LET tail(k) == 128 + ((cp \div 64 ^ k) % 64)
  IN CASE cp < 128   -> <<cp>>
       [] cp \in 128..2047 -> <<192 + cp \div 64, tail(0)>>
       [] cp \in 2048..65535 -> <<224 + cp \div 4096, tail(1), tail(0)>>
       [] OTHER -> <<240 + cp \div 262144, tail(2), tail(1), tail(0)>>

\* The \u branch of parse_string, from the first digit on.
Unicode(t, i) ==
  LET cu == Hex4(t, i)
      lo == Hex4(t, i + 6)
  IN IF cu = -1 \/ cu \in 56320..57343 THEN Bad
     ELSE IF cu \notin 55296..56319 THEN Ok(i + 4, Utf8(cu))
     ELSE IF At(t, i + 4) = 92 /\ At(t, i + 5) = 117 /\ lo \in 56320..57343
          THEN Ok(i + 10, Utf8(65536 + 1024 * (cu - 55296) + lo - 56320))
          ELSE Bad

\* The rest of parse_string, behind the first quote and what has been read.
RECURSIVE ReadRest(_, _, _)
ReadRest(t, i, out) ==
  LET c == At(t, i)
      e == At(t, i + 1)
      u == Unicode(t, i + 2)
  IN CASE c = 34 -> Ok(i + 1, out)
       [] c = 92 /\ e = 117 -> IF u.ok THEN ReadRest(t, u.at, out \o u.v) ELSE Bad
       [] c = 92 /\ e = 47  -> ReadRest(t, i + 2, Append(out, 47))
       [] c = 92 /\ e \in Range(Letter) ->
            ReadRest(t, i + 2, Append(out, CHOOSE b \in DOMAIN Letter : Letter[b] = e))
       [] c = 92 /\ e \notin {117, 47} \cup Range(Letter) -> Bad
       [] c < 32 -> Bad
       [] OTHER -> ReadRest(t, i + 1, Append(out, c))

ReadString(t, i) == IF At(t, i) = 34 THEN ReadRest(t, i + 1, <<>>) ELSE Bad

RECURSIVE SkipDigits(_, _)
SkipDigits(t, i) == IF At(t, i) \in 48..57 THEN SkipDigits(t, i + 1) ELSE i

Wrap(n) == ((n + 2 ^ (W - 1)) % 2 ^ W) - 2 ^ (W - 1)

\* parse_number: fraction and exponent are read over.
ReadNumber(t, i) ==
  LET from == IF At(t, i) = 45 THEN i + 1 ELSE i
      end  == SkipDigits(t, from)
      n    == FoldLeft(LAMBDA v, b : Wrap(v * 10 + b - 48), 0,
                       SubSeq(t, from, end - 1))
      frac == IF At(t, end) = 46 THEN SkipDigits(t, end + 1) ELSE end
      expo == IF At(t, frac) \notin {69, 101} THEN frac
              ELSE SkipDigits(t, IF At(t, frac + 1) \in {43, 45}
                                 THEN frac + 2 ELSE frac + 1)
  IN IF end = from THEN Bad
     ELSE Ok(expo, Num(IF from > i THEN Wrap(-n) ELSE n))

RECURSIVE ReadFields(_, _, _), ReadItems(_, _, _), ReadValue(_, _)

\* parse_object_body behind the value v of a field.
FieldRead(t, fs, key, v) ==
  LET next == SkipWs(t, v.at)
  IN IF ~v.ok THEN Bad
     ELSE IF At(t, next) = 44 THEN ReadFields(t, next + 1, SetField(fs, key, v.v))
     ELSE IF At(t, next) = 125 THEN Ok(next + 1, Obj(SetField(fs, key, v.v)))
     ELSE Bad

\* parse_object_body behind the key of a field.
KeyRead(t, fs, key) ==
  IF ~key.ok THEN Bad
  ELSE IF At(t, SkipWs(t, key.at)) # 58 THEN Bad
  ELSE FieldRead(t, fs, key.v, ReadValue(t, SkipWs(t, key.at) + 1))

\* parse_object_body, from a field on.
ReadFields(t, i, fs) == KeyRead(t, fs, ReadString(t, SkipWs(t, i)))

\* The list branch of parse_value, behind the item v.
ItemRead(t, items, v) ==
  LET next == SkipWs(t, v.at)
  IN IF ~v.ok THEN Bad
     ELSE IF At(t, next) = 44 THEN ReadItems(t, next + 1, Append(items, v.v))
     ELSE IF At(t, next) = 93 THEN Ok(next + 1, List(Append(items, v.v))) ELSE Bad

\* The list branch of parse_value, from an item on.
ReadItems(t, i, items) == ItemRead(t, items, ReadValue(t, SkipWs(t, i)))

\* parse_object_body from the brace on.
ReadObject(t, i) ==
  IF At(t, SkipWs(t, i + 1)) = 125 THEN Ok(SkipWs(t, i + 1) + 1, Obj(<<>>))
  ELSE ReadFields(t, i + 1, <<>>)

StringValue(s) == IF s.ok THEN Ok(s.at, Str(s.v)) ELSE Bad

\* parse_value.
ReadValue(t, from) ==
  LET i == SkipWs(t, from)
      c == At(t, i)
  IN CASE c = 34 -> StringValue(ReadString(t, i))
       [] c = 45 \/ c \in 48..57 -> ReadNumber(t, i)
       [] c = 123 -> ReadObject(t, i)
       [] c = 91 -> IF At(t, SkipWs(t, i + 1)) = 93
                    THEN Ok(SkipWs(t, i + 1) + 1, List(<<>>))
                    ELSE ReadItems(t, i + 1, <<>>)
       [] c = 110 /\ SubSeq(t, i, i + 3) = <<110, 117, 108, 108>> ->
            Ok(i + 4, Str(<<>>))
       [] OTHER -> Bad

\* Bug: what follows the object is not looked at.
Bug_Parse(t) ==
  IF At(t, SkipWs(t, 1)) # 123 THEN Bad ELSE ReadObject(t, SkipWs(t, 1))

\* parse behind the object.
NothingElse(t, r) == IF r.ok /\ SkipWs(t, r.at) = Len(t) + 1 THEN r ELSE Bad

\* parse.
Parse(t) ==
  IF At(t, SkipWs(t, 1)) # 123 THEN Bad
  ELSE NothingElse(t, ReadObject(t, SkipWs(t, 1)))

-----------------------------------------------------------------------------
(* A handler builds a frame                                                *)

VARIABLES frame    \* the fields of the object

JsonInit == frame = <<>>

SetCall(key, v) ==
  /\ Len(frame) < MaxFields
  /\ frame' = SetField(frame, key, v)

JsonNext == \E key \in FieldNames, v \in FieldValues : SetCall(key, v)

-----------------------------------------------------------------------------
(* Properties                                                              *)

\* A character as a peer escapes it that writes plain ASCII, in UTF-16.
Escaped(cp) ==
  LET unit(n) == <<92, 117>> \o [k \in 1..4 |-> HexDigit((n \div 16 ^ (4 - k)) % 16)]
  IN IF cp < 65536 THEN unit(cp)
     ELSE unit(55296 + (cp - 65536) \div 1024) \o unit(56320 + ((cp - 65536) % 1024))

\* The result r is the frame, and the getters find its fields.
IsFrame(r) ==
  /\ r.ok /\ r.v = Obj(frame)
  /\ \A n \in DOMAIN frame :
       GetField(r.v.fields, frame[n][1], frame[n][2].type, <<>>) = frame[n][2]

\* What one side serializes the other parses to the same frame, field by field
\* and byte by byte (serialize, parse), and the getters find what was set last;
\* a key that comes escaped is read whole or, half a pair, not at all.
JsonRoundTrips ==
  /\ IsFrame(Parse(Serialize(Obj(frame))))
  /\ frame # <<>> => \A cp \in CodePoints :
       ReadString(<<34>> \o Escaped(cp) \o <<34>>, 1) =
         IF cp \in 55296..57343 THEN Bad
         ELSE Ok(Len(Escaped(cp)) + 3, Utf8(cp))

\* A frame that is cut short or has bytes left over is refused: parse never
\* takes a part for the whole.
OnlyWholeFramesParse ==
  LET t == Serialize(Obj(frame))
  IN /\ \A n \in 0..Len(t) - 1 : ~Parse(SubSeq(t, 1, n)).ok
     /\ \A b \in {0, 34, 44, 123, 125} : ~Parse(Append(t, b)).ok

\* A frame's text stands for that frame and for no other, and no part of it
\* stands for one (serialize, parse).
TextIsTheFrame == JsonRoundTrips /\ OnlyWholeFramesParse
=============================================================================
