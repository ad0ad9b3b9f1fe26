------------------------ MODULE MCDiscoveryRegistry ------------------------
(* Instances of DiscoveryRegistry for TLC. *)
EXTENDS DiscoveryRegistry, TLC

CONSTANTS a, b, q1, q2, k1

\* One lookup per request, all of one key: the token endpoint.
Issuing == [q \in Request |-> <<k1>>]

OwnId == [e \in Endpoint |-> {e}]

\* a may be deployed with a document that claims to be b.
AMayClaimB == [e \in Endpoint |-> IF e = a THEN {a, b} ELSE {}]

Symmetric == Permutations(Request)

(***************************************************************************)
(* Two states with the same View have the same future: instants are taken  *)
(* relative to the clock, and what is too old for any guard or property is *)
(* one value.  With it the runs need no bound on the clock.                *)
(***************************************************************************)
Ago(t) == IF t - clock < LongAgo THEN LongAgo ELSE t - clock

View ==
  <<deployed, [q \in Request |-> Len(catalogs[q])],
    [e \in Endpoint |->
      <<IF clock - edge[e].at < MaxAge + SWR THEN <<edge[e].doc, edge[e].at - clock>> ELSE <<>>,
        [n \in 1..Releases |-> Ago(lastServed[e][n])], Ago(lastFailed[e])>>],
    [k \in Key |->
      <<cache[k].snapshot, IF Live(cache[k]) THEN cache[k].expiresAt - clock ELSE 0,
        flight[k].pc, Ago(flight[k].since), flight[k].previous,
        flight[k].awaiting, flight[k].found>>],
    [q \in Request |-> <<lookup[q].pc, Ago(lookup[q].since), lookup[q].snapshot>>]>>

=============================================================================
