------------------------------- MODULE MCSeries -------------------------------
(* Instances of Series for TLC: two ticks make a second, two seconds a     *)
(* minute.                                                                 *)
EXTENDS Series

MCEndOffset   == [readings_1s |-> 2, readings_1m |-> 3]
MCStartOffset == [readings_1s |-> 7, readings_1m |-> 8]
Q(a, b, k, u) == [from |-> a, to |-> b, step |-> [n |-> k, unit |-> u]]
MCQueries == {Q(0, 8, 1, "s"), Q(2, 6, 1, "s"), Q(0, 8, 1, "m"), Q(0, 8, 2, "m")}

(* 90 s of a minute of 60 are 3 s of a minute of 2.                        *)
CoarserQueries == MCQueries \cup {Q(0, 8, 3, "s")}
=============================================================================
