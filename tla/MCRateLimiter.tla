--------------------------- MODULE MCRateLimiter ---------------------------
(* A small instance of the limiter for TLC: two processes' requests, two    *)
(* hits to a window of two seconds, two ticks to a second.                   *)
EXTENDS RateLimiter, TLC

CONSTANTS q1, q2, none

\* RecentHits is the filter of the code on every sequence, ascending or not.
ASSUME RecentHitsIsAFilter ==
    \A seq \in UNION {[1 .. n -> 0 .. 6] : n \in 0 .. 4}, now \in 0 .. 8 :
        LET Recent(hit) == hit > now - Window
        IN  RecentHits(seq, now) = SelectSeq(seq, Recent)

=============================================================================
