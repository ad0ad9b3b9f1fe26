--------------------------- MODULE MCKeyRotation ---------------------------
(***************************************************************************)
(* Instances of KeyRotation for TLC: the rotation of docs/auth.md from the *)
(* key "old" to the key "new".                                             *)
(***************************************************************************)
EXTENDS KeyRotation

CONSTANTS old, new, r1, r2, s1, s2

RotationLists == {<<old>>, <<old, new>>, <<new, old>>, <<new>>}
Unrotated == <<old>>

\* The worst drift: the first replica and the first service run ahead.
FirstAhead == [x \in Replica \cup Service |-> IF x \in {r1, s1} THEN Skew ELSE 0]

\* The sum of the table in docs/auth.md.
Documented == DocumentedWindow

(***************************************************************************)
(* Two states with the same View have the same future: instants are taken  *)
(* relative to the clock, and what is too old to be read by any guard or   *)
(* property is one value.  With it the runs need no bound on the clock.    *)
(***************************************************************************)
Ago(t, limit) == IF t - clock < limit THEN limit ELSE t - clock
LiveOnly(entry, now) ==
  IF Live(entry, now) THEN <<entry.doc, entry.expiresAt - clock>> ELSE <<>>

View ==
  <<keys, revoked,
    {<<x.replica, x.kid, x.opened - clock>> : x \in sessions},
    [k \in Kid |-> <<Ago(outstanding[k], 0), Ago(lastIn[k], LongAgo),
                     Ago(lastOut[k], LongAgo), Ago(lastSign[k], LongAgo)>>],
    [p \in PoP |-> IF Servable(edge[p]) THEN <<edge[p].doc, edge[p].at - clock>>
                                        ELSE <<>>],
    LiveOnly(shared, clock),
    [s \in Service |->
      <<LiveOnly(cached[s], Now(s)),
        reading[s].pc, Ago(reading[s].now, LongAgo),
        LiveOnly(reading[s].entry, reading[s].now),
        fetch[s].pc, Ago(fetch[s].now, LongAgo), fetch[s].doc>>]>>

=============================================================================
