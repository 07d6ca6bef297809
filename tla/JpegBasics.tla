----------------------------- MODULE JpegBasics -----------------------------
(***************************************************************************)
(* Arithmetic that several parts of libjpeg-turbo-1.3.0 share.             *)
(***************************************************************************)
EXTENDS Integers

\* jdiv_round_up
CeilDiv(a, b) == (a + b - 1) \div b
\* jmemmgr.c: to a multiple of b
round_up_pow2(a, b) == ((a + b - 1) \div b) * b

Abs(v) == IF v < 0 THEN -v ELSE v
Least(S) == CHOOSE n \in S : \A k \in S : n <= k

\* How many bits a magnitude takes, and the value that so many bits stand for.
NBits(v) == CHOOSE n \in 0..16 : 2^n > v /\ (n = 0 \/ 2^(n - 1) <= v)
HUFF_EXTEND(v, n) == IF n > 0 /\ v < 2^(n - 1) THEN v - 2^n + 1 ELSE v

\* Restart markers are numbered from 0 to 7; here the number is 0 or 1.
RestartNumbers == 2
=============================================================================
