----------------------------- MODULE WordFilter -----------------------------
(***************************************************************************)
(* The word filter, src/src/word_filter.cpp: a trie that load_file builds  *)
(* word by word, and the scan for the longest match from left to right.    *)
(* Words and texts are sequences of bytes in UTF-8.                        *)
(***************************************************************************)
EXTENDS Integers, FiniteSets, SequencesExt

CONSTANTS
  Candidates,       \* the words a file may hold
  TextBytes, MaxText   \* bound of the model: the texts that are filtered

Mask == 42
Continues(b) == b \in 128..191     \* (b & 0xC0) == 0x80

ASSUME WordFilterAssumption ==
  /\ TextBytes \subseteq 0..255 /\ MaxText \in Nat
  /\ Candidates \subseteq Seq(0..255)   \* any bytes, * and half characters too

VARIABLES
  nodes,    \* nodes_: for each node its next map and whether it ends a word
  added     \* history: the words of the file so far

filterVars == <<nodes, added>>

\* ascii_lower.
Lower(text) ==
  [i \in DOMAIN text |-> IF text[i] \in 65..90 THEN text[i] + 32 ELSE text[i]]

Node == [next |-> [b \in {} |-> 0], terminal |-> FALSE]

FilterInit == nodes = <<Node>> /\ added = {}

\* add_word, one byte: the node that is reached and the nodes there are.
Descend(r, b) ==
  LET next == r.nodes[r.cur].next
      new  == Len(r.nodes) + 1
  IN IF b \in DOMAIN next THEN [r EXCEPT !.cur = next[b]]
     ELSE [cur |-> new, nodes |-> Append(
            [r.nodes EXCEPT ![r.cur].next =
               [c \in DOMAIN next \cup {b} |-> IF c = b THEN new ELSE next[c]]],
            Node)]

\* Bug: a word is only marked where no longer one goes on.
Bug_Mark(r) ==
  [r.nodes EXCEPT ![r.cur].terminal = @ \/ r.nodes[r.cur].next = Node.next]

\* add_word, its end.
MarkWord(r) == [r.nodes EXCEPT ![r.cur].terminal = TRUE]

\* add_word, its loop: where it is after each byte of the word.
Grow(word) ==
  LET after[k \in 0..Len(word)] ==
        IF k = 0 THEN [cur |-> 1, nodes |-> nodes] ELSE Descend(after[k - 1], word[k])
  IN after[Len(word)]

\* add_word for a line of load_file.
AddWord(w) ==
  /\ w # <<>>
  /\ nodes' = MarkWord(Grow(Lower(w)))
  /\ added' = added \cup {w}

FilterNext == \E w \in Candidates \ added : AddWord(w)

\* The inner loop of scan, one byte: the node that the j-th byte b leads to, 0
\* where the loop breaks off, and the end of the longest word found so far.
Follow(r, b, j) ==
  LET to == IF r.cur # 0 /\ b \in DOMAIN nodes[r.cur].next
            THEN nodes[r.cur].next[b] ELSE 0
  IN [cur |-> to, end |-> IF to # 0 /\ nodes[to].terminal THEN j ELSE r.end]

\* The inner loop: the end of the longest word from i on, 0 if there is none.
Longest(text, i) ==
  LET at[j \in i - 1..Len(text)] ==
        IF j = i - 1 THEN [cur |-> 1, end |-> 0] ELSE Follow(at[j - 1], text[j], j)
  IN at[Len(text)].end

\* scan goes on behind a match.
After(end) == end + 1

\* scan: the matches, each from its first byte to its last; for each i those that
\* are found from i on.
Scan(text) ==
  LET from[i \in 1..Len(text) + 1] ==
        IF i > Len(text) THEN <<>>
        ELSE LET end == Longest(text, i)
             IN IF end > 0 THEN <<[start |-> i, end |-> end]>> \o from[After(end)]
                           ELSE from[i + 1]
  IN from[1]

\* contains.
HasWord(text) == Scan(Lower(text)) # <<>>

\* utf8_chars.
Chars(text) == Cardinality({i \in DOMAIN text : ~Continues(text[i])})

\* Bug: one * for every byte.
Bug_Stars(text) == [i \in DOMAIN text |-> Mask]

\* As many * as the match has characters.
Stars(text) ==
  [i \in 1..(IF Chars(text) = 0 THEN 1 ELSE Chars(text)) |-> Mask]

\* filter, its loop: what comes before the match, and the *s in its place.
Replace(r, text, m) ==
  [out |-> (r.out \o SubSeq(text, r.pos, m.start - 1))
             \o Stars(SubSeq(text, m.start, m.end)),
   pos |-> After(m.end)]

\* filter.
Filter(text) ==
  LET ms == Scan(Lower(text))
      done[k \in 0..Len(ms)] ==
        IF k = 0 THEN [out |-> <<>>, pos |-> 1] ELSE Replace(done[k - 1], text, ms[k])
      r == done[Len(ms)]
  IN r.out \o SubSeq(text, r.pos, Len(text))

-----------------------------------------------------------------------------
(* Properties, for every text and every table of words that is not empty:  *)
(* doMessage scans only then.                                              *)

Texts == UNION {[1..n -> TextBytes] : n \in 0..MaxText}

\* Where a word stands in a text, whatever the case of its letters.
StandsAt(w, text, i, j) ==
  i \in 1..j /\ j \in 1..Len(text) /\ Lower(w) = SubSeq(Lower(text), i, j)

\* Where some word of the table does.
Occurs(text, i, j) == \E w \in added : StandsAt(w, text, i, j)

\* The scan finds words only, each the longest at its place; they do not overlap,
\* and every occurrence of a word meets one that starts no later (scan: "从左到右
\* 扫描，取最长匹配后整段跳过").
MatchesAreLeftmostLongest ==
  added # {} => \A text \in Texts : LET ms == Scan(Lower(text)) IN
    /\ \A k \in DOMAIN ms :
         /\ Occurs(text, ms[k].start, ms[k].end)
         /\ \A j \in ms[k].end + 1..Len(text) : ~Occurs(text, ms[k].start, j)
         /\ k < Len(ms) => ms[k].end < ms[k + 1].start
    /\ \A i, j \in 1..Len(text) : Occurs(text, i, j) =>
         \E k \in DOMAIN ms : ms[k].start <= i /\ i <= ms[k].end

\* Masking leaves no word behind and puts none together, but one with a * in it:
\* {f**k, uc} makes f**k of fuck.  Without such words a text that was filtered
\* would not be refused.  And where every word begins a character, the text is as
\* many characters long as before: none is cut in two (filter, utf8_chars).
FilteredIsClean ==
  added # {} => \A text \in Texts : LET clean == Filter(text) IN
    /\ \A w \in added, i, j \in 1..Len(clean) :
         StandsAt(w, clean, i, j) => Mask \in Range(w)
    /\ HasWord(clean) => \E w \in added : Mask \in Range(w)
    /\ (\A w \in added : ~Continues(w[1])) => Chars(clean) = Chars(text)

\* The filter finds what the list says and leaves nothing of it (scan, filter).
FilterIsExact == MatchesAreLeftmostLongest /\ FilteredIsClean
=============================================================================
