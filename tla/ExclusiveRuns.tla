--------------------------- MODULE ExclusiveRuns ---------------------------
(***************************************************************************)
(* What SingleFlight promises of the jobs: of the runs of one key, at most *)
(* one is under way at any time.                                           *)
(***************************************************************************)
CONSTANTS
  Callers,  \* callbacks that start runs
  Keys      \* single-flight keys

VARIABLE
  running   \* pairs of a caller and the key its run is for

Init == running = {}

Begin(c, k) ==
  /\ \A d \in Callers : <<d, k>> \notin running
  /\ running' = running \cup {<<c, k>>}

End(c, k) ==
  /\ <<c, k>> \in running
  /\ running' = running \ {<<c, k>>}

\* The process dies and takes every run along.
Crash == running' = {}

Next == Crash \/ \E c \in Callers, k \in Keys : Begin(c, k) \/ End(c, k)

Spec == Init /\ [][Next]_running
=============================================================================
