---------------------------- MODULE MCBoundTokens ----------------------------
(* An instance of BoundTokens for TLC: a secret, a key, and the next key.      *)
EXTENDS BoundTokens

CONSTANTS i1, i2, k1, k2

MCFirst == [i \in Isolate |-> IF i = i1 THEN Secret ELSE k1]

\* Both extremes: one isolate uses a token to its very end, the other never
\* again once it has aged.
MCRefreshSkew == [i \in Isolate |-> IF i = i1 THEN 0 ELSE TokenTtl]

MCOlder(k) == IF k = k2 THEN {k1} ELSE {}
=============================================================================
