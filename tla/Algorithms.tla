----------------------------- MODULE Algorithms -----------------------------
(***************************************************************************)
(* The parts of the server that are algorithms on data of their own: the   *)
(* rate limiter, the word filter, the frame reader, the JSON text, the     *)
(* block layer of SHA-256 and the log's files; and the load generator's    *)
(* count.  They share no state, so that a behaviour of one of them at a    *)
(* time is all there is to check.                                          *)
(***************************************************************************)
EXTENDS RateLimiter, WordFilter, Framing, MiniJson, Sha256, Log, Bench

VARIABLE part    \* the part this behaviour is about

Parts == {"limiter", "filter", "framing", "json", "sha256", "log", "bench"}

Init ==
  /\ part \in Parts
  /\ LimiterInit /\ FilterInit /\ FramingInit /\ JsonInit /\ ShaInit /\ LogInit
  /\ BenchInit

\* The other parts stay as they are.
Others(p) ==
  /\ part = p /\ UNCHANGED part
  /\ p # "limiter" => UNCHANGED limiterVars
  /\ p # "filter"  => UNCHANGED filterVars
  /\ p # "framing" => UNCHANGED framingVars
  /\ p # "json"    => UNCHANGED frame
  /\ p # "sha256"  => UNCHANGED shaVars
  /\ p # "log"     => UNCHANGED logVars
  /\ p # "bench"   => UNCHANGED benchVars

Next ==
  \/ Others("limiter") /\ LimiterNext
  \/ Others("filter") /\ FilterNext
  \/ Others("framing") /\ FramingNext
  \/ Others("json") /\ JsonNext
  \/ Others("sha256") /\ ShaNext
  \/ Others("log") /\ LogNext
  \/ Others("bench") /\ BenchNext

Spec == Init /\ [][Next]_<<part, limiterVars, filterVars, framingVars, frame,
                           shaVars, logVars, benchVars>>
=============================================================================
