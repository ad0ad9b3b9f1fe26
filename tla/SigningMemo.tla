---------------------------- MODULE SigningMemo ----------------------------
(***************************************************************************)
(* The two single-slot memos of ServicePlaneControlPlane: signingMaterial  *)
(* (private JWKs derived from a key list, held as a promise) and           *)
(* signingAuthority (the JWKS answer built from them), under concurrent    *)
(* requests, rotations, failed derivations, and a signingKeys resolver     *)
(* that may hand out one array and rotate by mutating it in place.         *)
(*                                                                         *)
(* A request runs alone from one await to the next: each action is one     *)
(* such segment.  Derived material is identified with the list it was      *)
(* derived from.                                                           *)
(***************************************************************************)
EXTENDS Naturals

CONSTANTS
  Request,
  KeyList,       \* values signingKeys resolves to
  Underivable,   \* lists whose derivation or key-pair proof rejects
  Ambiguous,     \* lists that derive but repeat a kid
  Error, None,
  MaxRotations   \* BOUND: rotations

ASSUME SigningMemoAssumption ==
  /\ Underivable \subseteq KeyList /\ Ambiguous \subseteq KeyList
  /\ Error \notin KeyList /\ None \notin KeyList \cup {Error} \cup Request
  /\ MaxRotations \in Nat

VARIABLES
  current,     \* the contents of the resolver's array
  rotations,
  state,       \* [Request -> "idle", "waiting" or "answered"]
  pc,          \* [Request -> where it stands in resolving its key material]
  copied,      \* [Request -> the copy the resolver returned, None for its array]
  snap,        \* [Request -> the list read after the resolver's await]
  job,         \* [Request -> the derivation it awaits, named for its starter]
  catalog,     \* [Request -> the catalog half of issuerFor, none for the JWKS]
  result,      \* [Request -> what it is answered with]
  derivation,  \* [Request -> the derivation q started: its list and status]
  authority,   \* the signingAuthority memo
  material     \* the signingMaterial memo

vars == <<current, rotations, state, pc, copied, snap, job, catalog, result,
          derivation, authority, material>>

NoDerivation == [keys |-> None, status |-> "none"]
NoAuthority == [keys |-> None, derived |-> None]
NoMaterial == [keys |-> None, job |-> None]

Init ==
  /\ current \in KeyList
  /\ rotations = 0
  /\ state = [q \in Request |-> "idle"]
  /\ pc = [q \in Request |-> "idle"]
  /\ copied = [q \in Request |-> None]
  /\ snap = [q \in Request |-> None]
  /\ job = [q \in Request |-> None]
  /\ catalog = [q \in Request |-> "none"]
  /\ result = [q \in Request |-> None]
  /\ derivation = [q \in Request |-> NoDerivation]
  /\ authority = NoAuthority
  /\ material = NoMaterial

\* The array is mutated in place, or the resolver reads a new secret.
Rotate(k) ==
  /\ rotations < MaxRotations
  /\ k # current
  /\ current' = k
  /\ rotations' = rotations + 1
  /\ UNCHANGED <<state, pc, copied, snap, job, catalog, result, derivation,
                 authority, material>>

\* A request arrives, for the JWKS or for an issuer, and calls the resolver;
\* issuance starts both of its halves.
Arrive(q) ==
  /\ state[q] = "idle"
  /\ state' = [state EXCEPT ![q] = "waiting"]
  /\ pc' = [pc EXCEPT ![q] = "resolving"]
  /\ catalog' \in {[catalog EXCEPT ![q] = half] : half \in {"none", "pending"}}
  /\ UNCHANGED <<current, rotations, copied, snap, job, result, derivation,
                 authority, material>>

memos == <<derivation, authority, material>>

\* q is answered by signingAuthorityFor, the others through issuerFor.
ForJwks(q) == catalog[q] = "none"

\* The resolver settles with its array, or with a copy made now.
Resolve(q) ==
  /\ pc[q] = "resolving"
  /\ copied' \in {[copied EXCEPT ![q] = c] : c \in {None, current}}
  /\ pc' = [pc EXCEPT ![q] = "resolved"]
  /\ UNCHANGED <<current, rotations, state, snap, job, catalog, result, memos>>

\* The first outcome of a request is its answer; issuance has two halves.
Outcome(q, value) ==
  result' = IF result[q] = None THEN [result EXCEPT ![q] = value] ELSE result

ResolverThrows(q) ==
  /\ pc[q] = "resolving"
  /\ Outcome(q, Error)
  /\ pc' = [pc EXCEPT ![q] = "finished"]
  /\ UNCHANGED <<current, rotations, state, copied, snap, job, catalog, memos>>

\* What the array, or the copy, holds when the request resumes.
Resolved(q) == IF copied[q] = None THEN current ELSE copied[q]

\* signingMaterialFor: join the remembered derivation or start another one.
MaterialFor(q, keys) ==
  IF material.keys = keys
  THEN /\ job' = [job EXCEPT ![q] = material.job]
       /\ UNCHANGED <<derivation, material>>
  ELSE /\ job' = [job EXCEPT ![q] = q]
       /\ derivation' = [derivation EXCEPT ![q] = [keys |-> keys, status |-> "pending"]]
       /\ material' = [keys |-> keys, job |-> q]

\* Fault: the remembered authority is served without comparing key lists.
AuthorityHitUnchecked(q) ==
  /\ pc[q] = "resolved" /\ ForJwks(q)
  /\ authority.keys # None
  /\ snap' = [snap EXCEPT ![q] = Resolved(q)]
  /\ Outcome(q, authority.derived)
  /\ pc' = [pc EXCEPT ![q] = "finished"]
  /\ UNCHANGED <<current, rotations, state, copied, job, catalog, memos>>

AuthorityHit(q) ==
  /\ pc[q] = "resolved" /\ ForJwks(q)
  /\ authority.keys = Resolved(q)
  /\ snap' = [snap EXCEPT ![q] = Resolved(q)]
  /\ Outcome(q, authority.derived)
  /\ pc' = [pc EXCEPT ![q] = "finished"]
  /\ UNCHANGED <<current, rotations, state, copied, job, catalog, memos>>

AskMaterial(q) ==
  /\ pc[q] = "resolved"
  /\ ForJwks(q) => authority.keys # Resolved(q)
  /\ snap' = [snap EXCEPT ![q] = Resolved(q)]
  /\ MaterialFor(q, Resolved(q))
  /\ pc' = [pc EXCEPT ![q] = "deriving"]
  /\ UNCHANGED <<current, rotations, state, copied, catalog, result, authority>>

\* The key-pair proof of the derivation q started completes.
Settle(q) ==
  /\ derivation[q].status = "pending"
  /\ derivation' = [derivation EXCEPT ![q].status =
       IF derivation[q].keys \in Underivable THEN "rejected" ELSE "fulfilled"]
  /\ UNCHANGED <<current, rotations, state, pc, copied, snap, job, catalog,
                 result, authority, material>>

\* Fault: whatever the memo holds by then is forgotten.
ForgetAnything(q) ==
  /\ derivation[q].status = "rejected"
  /\ derivation' = [derivation EXCEPT ![q].status = "reported"]
  /\ material' = NoMaterial
  /\ UNCHANGED <<current, rotations, state, pc, copied, snap, job, catalog,
                 result, authority>>

\* The catch attached when the derivation began runs before any waiter.
Forget(q) ==
  /\ derivation[q].status = "rejected"
  /\ derivation' = [derivation EXCEPT ![q].status = "reported"]
  /\ material' = IF material.job = q THEN NoMaterial ELSE material
  /\ UNCHANGED <<current, rotations, state, pc, copied, snap, job, catalog,
                 result, authority>>

\* Fault: the catch that avoids an unhandled rejection swallows it.
MaterialFailsSilently(q) ==
  /\ pc[q] = "deriving"
  /\ derivation[job[q]].status = "reported"
  /\ pc' = [pc EXCEPT ![q] = "finished"]
  /\ UNCHANGED <<current, rotations, state, copied, snap, job, catalog,
                 result, memos>>

\* The awaited derivation failed.
MaterialFails(q) ==
  /\ pc[q] = "deriving"
  /\ derivation[job[q]].status = "reported"
  /\ Outcome(q, Error)
  /\ pc' = [pc EXCEPT ![q] = "finished"]
  /\ UNCHANGED <<current, rotations, state, copied, snap, job, catalog, memos>>

\* Discovery answers the catalog half, or fails it and with it the request.
CatalogSettles(q) ==
  /\ catalog[q] = "pending"
  /\ \/ /\ catalog' = [catalog EXCEPT ![q] = "ready"]
        /\ UNCHANGED result
     \/ /\ catalog' = [catalog EXCEPT ![q] = "failed"]
        /\ Outcome(q, Error)
  /\ UNCHANGED <<current, rotations, state, pc, copied, snap, job, memos>>

\* Fault: the memo is labelled with the list as it is after the await.
BuildAuthorityRereading(q) ==
  /\ pc[q] = "deriving" /\ ForJwks(q)
  /\ derivation[job[q]].status = "fulfilled"
  /\ Outcome(q, derivation[job[q]].keys)
  /\ authority' = [keys |-> Resolved(q), derived |-> derivation[job[q]].keys]
  /\ pc' = [pc EXCEPT ![q] = "finished"]
  /\ UNCHANGED <<current, rotations, state, copied, snap, job, catalog,
                 derivation, material>>

\* signingAuthorityFor after its await: build, remember, answer.
BuildAuthority(q) ==
  /\ pc[q] = "deriving" /\ ForJwks(q)
  /\ derivation[job[q]].status = "fulfilled"
  /\ LET derived == derivation[job[q]].keys
     IN IF derived \in Ambiguous
        THEN Outcome(q, Error) /\ UNCHANGED authority
        ELSE /\ Outcome(q, derived)
             /\ authority' = [keys |-> snap[q], derived |-> derived]
  /\ pc' = [pc EXCEPT ![q] = "finished"]
  /\ UNCHANGED <<current, rotations, state, copied, snap, job, catalog,
                 derivation, material>>

\* issuerFor after Promise.all: an issuer for this request alone.
BuildIssuer(q) ==
  /\ pc[q] = "deriving" /\ ~ForJwks(q)
  /\ derivation[job[q]].status = "fulfilled"
  /\ catalog[q] # "pending"
  /\ LET derived == derivation[job[q]].keys
     IN Outcome(q, IF derived \in Ambiguous THEN Error ELSE derived)
  /\ pc' = [pc EXCEPT ![q] = "finished"]
  /\ UNCHANGED <<current, rotations, state, copied, snap, job, catalog, memos>>

Reply(q) ==
  /\ state[q] = "waiting" /\ result[q] # None
  /\ state' = [state EXCEPT ![q] = "answered"]
  /\ UNCHANGED <<current, rotations, pc, copied, snap, job, catalog, result, memos>>

Step(q) ==
  \/ Resolve(q) \/ ResolverThrows(q) \/ AuthorityHit(q) \/ AskMaterial(q)
  \/ Settle(q) \/ Forget(q) \/ MaterialFails(q) \/ CatalogSettles(q)
  \/ BuildAuthority(q) \/ BuildIssuer(q) \/ Reply(q)

Next ==
  \/ \E k \in KeyList : Rotate(k)
  \/ \E q \in Request : Arrive(q) \/ Step(q)

\* The resolver, the key-pair proof and discovery settle; the runtime runs
\* every continuation that is ready.
Fairness == \A q \in Request : WF_vars(Step(q))

Spec == Init /\ [][Next]_vars /\ Fairness

-----------------------------------------------------------------------------
\* The list a request took: the copy it was given, or what it read on resuming.
Taken(q) == IF copied[q] # None THEN copied[q] ELSE snap[q]

KeyService == INSTANCE KeyService WITH
  taken <- [q \in Request |-> Taken(q)],
  answer <- [q \in Request |-> IF state[q] = "answered" THEN result[q] ELSE None]

Some(S) == S \cup {None}

TypeOK ==
  /\ current \in KeyList
  /\ rotations \in 0..MaxRotations
  /\ state \in [Request -> {"idle", "waiting", "answered"}]
  /\ pc \in [Request -> {"idle", "resolving", "resolved", "deriving", "finished"}]
  /\ copied \in [Request -> Some(KeyList)]
  /\ snap \in [Request -> Some(KeyList)]
  /\ job \in [Request -> Some(Request)]
  /\ catalog \in [Request -> {"none", "pending", "ready", "failed"}]
  /\ result \in [Request -> Some(KeyList \cup {Error})]
  /\ derivation \in [Request ->
       [keys : Some(KeyList),
        status : {"none", "pending", "fulfilled", "rejected", "reported"}]]
  /\ authority \in [keys : Some(KeyList), derived : Some(KeyList)]
  /\ material \in [keys : Some(KeyList), job : Some(Request)]

\* A memo describes the material it holds: whatever rotates while a derivation
\* is awaited, JWKS is never published from a key list other than the one the
\* memo is compared by (the comment in signingAuthorityFor).  No request that
\* looks the memo up after a waiter was told of a rejection meets that rejection
\* again: it retries on its own merits.  And every variable keeps its type.
MemosAreCoherent ==
  /\ TypeOK
  /\ authority.keys = authority.derived
  /\ material.job # None =>
       /\ derivation[material.job].keys = material.keys
       /\ derivation[material.job].status # "reported"

\* A late rejection forgets its own derivation only, never the newer one that
\* replaced it in the memo.
ForgetsOnlyItsOwn ==
  [][material # NoMaterial /\ material' = NoMaterial =>
       derivation[material.job].status = "rejected"]_vars

\* Seen from its callers the plane has no memo: every answer is made from the
\* key list that was current at one instant of the request, or is an error.
ImplementsKeyService == KeyService!Spec

\* A request that is not answered has its outcome, or awaits a step that gives it
\* one: the resolver's, or a derivation somebody began.  A rejection it shares
\* reaches it though another's catch, or an earlier waiter, saw it first.
NoRequestIsForgotten ==
  \A q \in Request : state[q] = "waiting" =>
    \/ result[q] # None
    \/ pc[q] \in {"resolving", "resolved"}
    \/ pc[q] = "deriving" /\ derivation[job[q]].status # "none"

\* Every request is answered: no rotation, failure or shared derivation leaves
\* a caller of the JWKS or token endpoint waiting.
EveryRequestIsAnswered ==
  \A q \in Request : state[q] = "waiting" ~> state[q] = "answered"

=============================================================================
