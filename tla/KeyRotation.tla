---------------------------- MODULE KeyRotation ----------------------------
(***************************************************************************)
(* Signing-key rotation, end to end: the replicas of a control plane sign  *)
(* capability tokens with the first of their signingKeys and publish all   *)
(* of them as a JWKS; HTTP edges hold copies of that document for max-age  *)
(* plus stale-while-revalidate; every service resolves it through          *)
(* jwksFromUrl (a local copy, a cache shared by the fleet, one fetch in    *)
(* flight) and verifies tokens by the kid in their header.                 *)
(*                                                                         *)
(* Time is the variable clock; offset[x] is how far the clock of process x *)
(* runs ahead of it.  A deploy waits Window ticks where docs/auth.md says  *)
(* to wait one overlap window.  A key list is a sequence of key ids; what  *)
(* a token carries is abstracted to its kid and its exp, and of the tokens *)
(* signed with a kid only the one that lives longest is kept.              *)
(***************************************************************************)
EXTENDS Integers, Sequences, FiniteSets

CONSTANTS
  Kid, Replica, Service, PoP,
  KeyLists,     \* the values signingKeys may take
  InitKeys,     \* the list every replica starts with
  TokenTTL, MaxAge, SWR, JwksTTL,
  Skew,         \* worst clock drift of the fleet
  offset,       \* the drift of each replica and service
  Latency,      \* BOUND: longest a cache read or a JWKS fetch takes
  SessionLife,  \* BOUND: longest a broker session lives
  SessionCap,   \* BOUND: broker sessions open at once
  Window,       \* how long a deploy waits before it activates or drops a key
  MayRevoke,    \* BOUND: the keys an emergency may strike
  Horizon       \* BOUND: the last instant

Signer(ks) == Head(ks)
Published(ks) == {ks[i] : i \in DOMAIN ks}

ASSUME KeyListsAssumption ==
  /\ KeyLists \subseteq Seq(Kid) \ {<<>>}
  /\ \A ks \in KeyLists : \A i, j \in DOMAIN ks : ks[i] = ks[j] => i = j
  /\ InitKeys \in KeyLists
  /\ MayRevoke \subseteq Kid

ASSUME TimesAssumption ==
  /\ TokenTTL \in Nat \ {0} /\ JwksTTL \in Nat \ {0}
  /\ MaxAge \in Nat /\ SWR \in Nat /\ Latency \in Nat /\ Skew \in Nat
  /\ SessionLife \in Nat /\ SessionCap \in Nat /\ Horizon \in Nat
  /\ offset \in [Replica \cup Service -> 0..Skew]

\* How old a document a service may still verify with can be.
StaleBound == MaxAge + SWR + JwksTTL + Skew + Latency

\* The sum docs/auth.md tells operators to wait.
DocumentedWindow == TokenTTL + MaxAge + SWR + JwksTTL + Skew

ASSUME WindowAssumption == Window \in Nat /\ Window >= StaleBound

VARIABLES
  clock,
  keys,         \* [Replica -> KeyLists]: what signingKeys resolves to
  sessions,     \* broker sessions, each holding the issuer it was opened with
  outstanding,  \* [Kid -> exp of the longest-lived token signed with it]
  edge,         \* [PoP -> the copy of the JWKS response held there]
  shared,       \* the CapabilityJwksCache the services share
  cached,       \* [Service -> the resolver's local copy]
  reading,      \* [Service -> a request awaiting the shared cache]
  fetch,        \* [Service -> the resolver's inFlight]
  revoked,      \* keys being revoked in an emergency
  lastIn,       \* history: last instant some replica published the key
  lastOut,      \* history: last instant some replica did not publish it
  lastSign      \* history: last instant some replica signed with it

caches == <<edge, shared, cached, reading, fetch>>
history == <<lastIn, lastOut, lastSign>>
vars == <<clock, keys, sessions, outstanding, caches, revoked, history>>

-----------------------------------------------------------------------------
LongAgo == 0 - Window

NoCopy == [doc |-> {}, at |-> LongAgo]
NoEntry == [doc |-> {}, expiresAt |-> LongAgo]
NoRead == [pc |-> "idle", now |-> LongAgo, entry |-> NoEntry]
NoFetch == [pc |-> "idle", now |-> LongAgo, doc |-> {}]

Now(x) == clock + offset[x]

\* Brings the deployment log up to instant t, the replicas holding ks.
Log(ks, t) ==
  /\ lastIn' = [k \in Kid |->
       IF \E r \in Replica : k \in Published(ks[r]) THEN t ELSE lastIn[k]]
  /\ lastOut' = [k \in Kid |->
       IF \E r \in Replica : k \notin Published(ks[r]) THEN t ELSE lastOut[k]]
  /\ lastSign' = [k \in Kid |->
       IF \E r \in Replica : k = Signer(ks[r]) THEN t ELSE lastSign[k]]

Init ==
  /\ clock = 0
  /\ keys = [r \in Replica |-> InitKeys]
  /\ sessions = {}
  /\ outstanding = [k \in Kid |-> LongAgo]
  /\ edge = [p \in PoP |-> NoCopy]
  /\ shared = NoEntry
  /\ cached = [s \in Service |-> NoEntry]
  /\ reading = [s \in Service |-> NoRead]
  /\ fetch = [s \in Service |-> NoFetch]
  /\ revoked = {}
  /\ lastIn = [k \in Kid |-> IF k \in Published(InitKeys) THEN 0 ELSE LongAgo]
  /\ lastOut = [k \in Kid |-> IF k \in Published(InitKeys) THEN LongAgo ELSE 0]
  /\ lastSign = [k \in Kid |-> IF k = Signer(InitKeys) THEN 0 ELSE LongAgo]

\* Time passes, but not beyond the life of a session or the latency of a call.
Tick ==
  /\ clock < Horizon
  /\ \A x \in sessions : clock < x.opened + SessionLife
  /\ \A s \in Service :
       /\ reading[s].pc # "idle" => Now(s) < reading[s].now + Latency
       /\ fetch[s].pc # "idle" => Now(s) < fetch[s].now + Latency
  /\ clock' = clock + 1
  /\ Log(keys, clock + 1)
  /\ UNCHANGED <<keys, sessions, outstanding, caches, revoked>>

-----------------------------------------------------------------------------
(* The operator: a rolling deploy, one replica at a time. *)

\* Fault: the new key is put first straight away.
DeployAtOnce(r, ks) ==
  /\ ks # keys[r]
  /\ Published(ks) \cap revoked = {}
  /\ keys' = [keys EXCEPT ![r] = ks]
  /\ Log(keys', clock)
  /\ UNCHANGED <<clock, sessions, outstanding, caches, revoked>>

\* A key signs only a window after its last absence from the fleet, and is
\* dropped only a window after it last signed: prepare, activate, complete
\* and roll back are all steps of this form.
Deploy(r, ks) ==
  /\ ks # keys[r]
  /\ Published(ks) \cap revoked = {}
  /\ clock >= lastOut[Signer(ks)] + Window
  /\ \A k \in Published(keys[r]) \ (Published(ks) \cup revoked) :
       clock >= lastSign[k] + Window
  /\ keys' = [keys EXCEPT ![r] = ks]
  /\ Log(keys', clock)
  /\ UNCHANGED <<clock, sessions, outstanding, caches, revoked>>

\* Emergency revocation: k is dropped by the next deploys without waiting.
Revoke(k) ==
  /\ k \in MayRevoke \ revoked
  /\ revoked' = revoked \cup {k}
  /\ UNCHANGED <<clock, keys, sessions, outstanding, caches, history>>

\* The operator purges the service-plane:jwks tag and the shared cache.
Purge ==
  /\ revoked # {}
  /\ edge' = [p \in PoP |-> NoCopy]
  /\ shared' = NoEntry
  /\ UNCHANGED <<clock, keys, sessions, outstanding, cached, reading, fetch,
                 revoked, history>>

-----------------------------------------------------------------------------
(* The control plane. *)

\* signCapabilityToken, on replica r with the active key k of an issuer.
Mint(k, r) ==
  /\ clock + offset[r] + TokenTTL > outstanding[k]
  /\ outstanding' = [outstanding EXCEPT ![k] = clock + offset[r] + TokenTTL]
  /\ UNCHANGED <<clock, keys, sessions, caches, revoked, history>>

\* Fault: the newest key of the list signs, not the first.
IssueTokenWithLast(r) == Mint(keys[r][Len(keys[r])], r)

\* A token request: the issuer is built for it from the current key list.
IssueToken(r) == Mint(Signer(keys[r]), r)

\* A WebSocket reaches /rpc: the broker root keeps the issuer of this request.
OpenSession(r) ==
  /\ Cardinality(sessions) < SessionCap
  /\ sessions' = sessions \cup
       {[replica |-> r, kid |-> Signer(keys[r]), opened |-> clock]}
  /\ UNCHANGED <<clock, keys, outstanding, caches, revoked, history>>

\* A brokered session asks its captured issuer for a token.
SessionIssuesToken(x) == Mint(x.kid, x.replica)

CloseSession(x) ==
  /\ sessions' = sessions \ {x}
  /\ UNCHANGED <<clock, keys, outstanding, caches, revoked, history>>
-----------------------------------------------------------------------------
(* The HTTP edge, which honours the Cache-Control of the JWKS response. *)

\* Fault: the header bounds neither freshness nor staleness.
ServableUnbounded(copy) == copy.at # LongAgo

\* An edge serves its copy while it is fresh, and stale while it revalidates.
Servable(copy) == clock - copy.at < MaxAge + SWR

Origin(r) == [doc |-> Published(keys[r]), at |-> clock]

\* An edge (re)validates its copy with whichever replica it reaches.
EdgeRefresh(p, r) ==
  /\ edge' = [edge EXCEPT ![p] = Origin(r)]
  /\ UNCHANGED <<clock, keys, sessions, outstanding, shared, cached, reading,
                 fetch, revoked, history>>

-----------------------------------------------------------------------------
(* The resolver of a service: createRemoteJwksResolver. *)

resolver == <<shared, cached, reading, fetch>>
elsewhere == <<clock, keys, sessions, outstanding, edge, revoked, history>>

Live(entry, now) == entry.expiresAt > now

\* A verification finds no live local copy and asks the shared cache.
AskShared(s) ==
  /\ ~Live(cached[s], Now(s))
  /\ reading[s].pc = "idle"
  /\ reading' = [reading EXCEPT ![s] =
       [pc |-> "asked", now |-> Now(s), entry |-> shared]]
  /\ UNCHANGED <<shared, cached, fetch, elsewhere>>

\* The shared entry is still live by the instant the verification began.
SharedHit(s) ==
  /\ reading[s].pc = "asked"
  /\ Live(reading[s].entry, reading[s].now)
  /\ cached' = [cached EXCEPT ![s] = reading[s].entry]
  /\ reading' = [reading EXCEPT ![s] = NoRead]
  /\ UNCHANGED <<shared, fetch, elsewhere>>

\* Nothing usable, or the cache threw: join the fetch in flight or start one.
SharedMiss(s) ==
  /\ reading[s].pc = "asked"
  /\ fetch' = IF fetch[s].pc # "idle" THEN fetch
              ELSE [fetch EXCEPT ![s] =
                     [NoFetch EXCEPT !.pc = "sent", !.now = reading[s].now]]
  /\ reading' = [reading EXCEPT ![s] = NoRead]
  /\ UNCHANGED <<shared, cached, elsewhere>>

\* The response: a copy some edge may serve, or straight from a replica.
Responses == {edge[p] : p \in {q \in PoP : Servable(edge[q])}}
               \cup {Origin(r) : r \in Replica}

FetchAnswered(s) ==
  /\ fetch[s].pc = "sent"
  /\ \E copy \in Responses :
       fetch' = [fetch EXCEPT ![s].pc = "answered", ![s].doc = copy.doc]
  /\ UNCHANGED <<shared, cached, reading, elsewhere>>

\* A network error, a refusal or an unreadable body rejects every waiter.
FetchFails(s) ==
  /\ fetch[s].pc = "sent"
  /\ fetch' = [fetch EXCEPT ![s] = NoFetch]
  /\ UNCHANGED <<shared, cached, reading, elsewhere>>

\* The entry a fetch fills in expires a TTL after the fetch began.
Filled(f) == [doc |-> f.doc, expiresAt |-> f.now + JwksTTL]

StoreLocal(s) ==
  /\ fetch[s].pc = "answered"
  /\ cached' = [cached EXCEPT ![s] = Filled(fetch[s])]
  /\ fetch' = [fetch EXCEPT ![s].pc = "storing"]
  /\ UNCHANGED <<shared, reading, elsewhere>>

\* The write to the shared cache; one that throws is swallowed.
StoreShared(s) ==
  /\ fetch[s].pc = "storing"
  /\ shared' \in {shared, Filled(fetch[s])}
  /\ fetch' = [fetch EXCEPT ![s] = NoFetch]
  /\ UNCHANGED <<cached, reading, elsewhere>>

\* The isolate of s is replaced: the new one begins with an empty closure and
\* finds what the shared cache holds.
Restart(s) ==
  /\ cached' = [cached EXCEPT ![s] = NoEntry]
  /\ reading' = [reading EXCEPT ![s] = NoRead]
  /\ fetch' = [fetch EXCEPT ![s] = NoFetch]
  /\ UNCHANGED <<shared, elsewhere>>

\* A verification on s may be handed doc in this state.
MayResolve(s, doc) ==
  \/ Live(cached[s], Now(s)) /\ doc = cached[s].doc
  \/ Live(reading[s].entry, reading[s].now) /\ doc = reading[s].entry.doc
  \/ fetch[s].pc \in {"answered", "storing"} /\ doc = fetch[s].doc

-----------------------------------------------------------------------------
Next ==
  \/ Tick
  \/ Purge
  \/ \E k \in Kid : Revoke(k)
  \/ \E r \in Replica :
       \/ \E ks \in KeyLists : Deploy(r, ks)
       \/ IssueToken(r)
       \/ OpenSession(r)
       \/ \E p \in PoP : EdgeRefresh(p, r)
  \/ \E x \in sessions : SessionIssuesToken(x) \/ CloseSession(x)
  \/ \E s \in Service :
       \/ AskShared(s) \/ SharedHit(s) \/ SharedMiss(s)
       \/ FetchAnswered(s) \/ FetchFails(s) \/ StoreLocal(s) \/ StoreShared(s)
       \/ Restart(s)

Spec == Init /\ [][Next]_vars

-----------------------------------------------------------------------------
Copy == [doc : SUBSET Kid, at : Int]
Entry == [doc : SUBSET Kid, expiresAt : Int]
Read == [pc : {"idle", "asked"}, now : Int, entry : Entry]
Fetch == [pc : {"idle", "sent", "answered", "storing"}, now : Int, doc : SUBSET Kid]

\* Every variable holds what the code can put there.
TypeOK ==
  /\ clock \in Nat
  /\ keys \in [Replica -> KeyLists]
  /\ sessions \subseteq [replica : Replica, kid : Kid, opened : Nat]
  /\ outstanding \in [Kid -> Int]
  /\ edge \in [PoP -> Copy]
  /\ shared \in Entry
  /\ cached \in [Service -> Entry]
  /\ reading \in [Service -> Read]
  /\ fetch \in [Service -> Fetch]
  /\ revoked \subseteq Kid
  /\ lastIn \in [Kid -> Int]
  /\ lastOut \in [Kid -> Int]
  /\ lastSign \in [Kid -> Int]

\* A token that has not expired at a service never meets a key set that lacks
\* its kid there, whatever deploys, edge copies, cache entries and fetches are
\* under way: rotation rejects no valid token ("Unknown Service-Plane
\* capability key id" in verifyCapabilityToken).
OutstandingTokensVerify ==
  \A s \in Service, k \in Kid \ revoked, doc \in SUBSET Kid :
    outstanding[k] > Now(s) /\ MayResolve(s, doc) => k \in doc

\* No service verifies with a key later than StaleBound after the last replica
\* stopped publishing it: copying an entry between the edge, the shared cache
\* and the local cache never renews it.
RetiredKeysExpire ==
  \A s \in Service, k \in Kid, doc \in SUBSET Kid :
    MayResolve(s, doc) /\ k \in doc => clock < lastIn[k] + StaleBound

-----------------------------------------------------------------------------
(* Why they hold: the parts of the inductive invariant. *)

\* The history variables are the deployment log, up to date.
LogIsCurrent ==
  \A k \in Kid :
    /\ lastIn[k] \in LongAgo..clock
    /\ lastOut[k] \in LongAgo..clock
    /\ lastSign[k] \in LongAgo..clock
    /\ \A r \in Replica :
         /\ k \in Published(keys[r]) => lastIn[k] = clock
         /\ k \notin Published(keys[r]) => lastOut[k] = clock
         /\ k = Signer(keys[r]) => lastSign[k] = clock

\* For a whole window, every replica has published k.
Prepared(k) == k \in revoked \/ lastOut[k] + Window <= clock

SignersArePrepared == \A r \in Replica : Prepared(Signer(keys[r]))

SessionsArePrepared ==
  \A x \in sessions :
    /\ Prepared(x.kid)
    /\ x.opened <= lastSign[x.kid]
    /\ clock <= x.opened + SessionLife

TokensArePrepared ==
  \A k \in Kid :
    /\ outstanding[k] <= lastSign[k] + SessionLife + TokenTTL + Skew
    /\ outstanding[k] > clock => Prepared(k)

\* doc is what some replica published at t or later.
Dated(doc, t) ==
  \A k \in Kid : IF k \in doc THEN t <= lastIn[k] ELSE t <= lastOut[k]

EntryIsDated(entry) ==
  Dated(entry.doc, entry.expiresAt - (MaxAge + SWR + JwksTTL + Skew))

CopiesAreDated ==
  /\ \A p \in PoP : Dated(edge[p].doc, edge[p].at)
  /\ EntryIsDated(shared)
  /\ \A s \in Service : EntryIsDated(cached[s])

ReadsAreDated ==
  \A s \in Service :
    /\ EntryIsDated(reading[s].entry)
    /\ IF reading[s].pc = "idle" THEN reading[s] = NoRead
       ELSE reading[s].now <= Now(s) /\ Now(s) <= reading[s].now + Latency

FetchesAreDated ==
  \A s \in Service : fetch[s].pc # "idle" =>
    /\ fetch[s].now <= Now(s) /\ Now(s) <= fetch[s].now + Latency
    /\ fetch[s].pc # "sent" =>
         Dated(fetch[s].doc, fetch[s].now - (MaxAge + SWR + Skew))

\* The inductive invariant: a key signs only when every document that any
\* cache may still serve has it, and leaves only when its tokens are spent.
RotationInv ==
  /\ LogIsCurrent
  /\ SignersArePrepared
  /\ SessionsArePrepared
  /\ TokensArePrepared
  /\ CopiesAreDated
  /\ ReadsAreDated
  /\ FetchesAreDated

\* The window also covers the tokens a broker session still mints.
WindowCoversSessions == Window >= SessionLife + TokenTTL + Skew

=============================================================================
