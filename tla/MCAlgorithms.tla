---------------------------- MODULE MCAlgorithms ----------------------------
EXTENDS Algorithms

\* Three messages of two threads, so that a percentile lies between samples.
MCSends == <<2, 1>>

\* Words that contain and begin each other, one with a capital, one with a
\* character of two bytes, one that is half of it, one that masking can put
\* together; and the bytes of the texts.
MCWords == {<<97>>, <<97, 98>>, <<65, 97>>, <<200, 130>>, <<130>>, <<98, 42>>}
MCBytes == {65, 97, 98, 200, 130}

\* Keys and values with every kind of escape, the least and the greatest
\* number, lists and objects, empty and nested.
MCNames == {<<116>>, <<34, 92>>}
MCValues ==
  {Str(<<>>), Str(<<92, 34, 8, 1, 31, 195, 169, 127, 10>>),
   Num(-128), Num(127), Num(0), List(<<>>), List(<<Num(-1), Str(<<93>>)>>),
   List(<<Obj(<<>>), Obj(<<<<<<105>>, Num(7)>>, <<<<>>, Str(<<44>>)>>>>)>>),
   Obj(<<<<<<123>>, List(<<>>)>>>>)}

\* The boundaries of UTF-8's and UTF-16's forms, and two halves of pairs.
MCPoints ==
  {0, 65, 127, 128, 2047, 2048, 20013, 55357, 56832, 57344, 65535, 65536,
   128512, 1114111}
=============================================================================
