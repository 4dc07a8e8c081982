---------------------------- MODULE Subsequences ----------------------------
(* Sequences put together part by part, and selections from a sequence by       *)
(* position: what SelectSeq computes, in a form that can be reasoned about.     *)
EXTENDS Integers, Sequences

\* Part(1) to Part(n), one after the other.
Joined(n, Part(_)) ==
    LET joined[k \in 0..n] == IF k = 0 THEN <<>> ELSE joined[k - 1] \o Part(k)
    IN joined[n]

\* The elements of s at the positions in at, in their order.
Sub(s, at) == Joined(Len(s), LAMBDA k : IF k \in at THEN <<s[k]>> ELSE <<>>)

\* The elements of s of which Test holds.
Filter(s, Test(_)) == Sub(s, {i \in DOMAIN s : Test(s[i])})
=============================================================================
