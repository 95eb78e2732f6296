---------------------------- MODULE SlidingWindow ----------------------------
(***************************************************************************)
(* The deque of api/middleware.py's SlidingWindowLimiter: the times at     *)
(* which one client was let through, oldest first.  `edge` is the present  *)
(* less the width of the window: what is not after it does not count.      *)
(***************************************************************************)
EXTENDS Integers, Sequences

\* How many of the times, from the left, are stale.
Stale(times, edge) ==
  CHOOSE n \in 0 .. Len(times) :
    /\ \A i \in 1 .. n : times[i] <= edge
    /\ n < Len(times) => times[n + 1] > edge

\* What popleft leaves of them.
InWindow(times, edge) == SubSeq(times, Stale(times, edge) + 1, Len(times))
==============================================================================
