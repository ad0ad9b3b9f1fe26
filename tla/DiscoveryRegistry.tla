------------------------- MODULE DiscoveryRegistry -------------------------
(***************************************************************************)
(* The control plane's catalog of services: createServiceRegistry over one *)
(* RegistryCache.  A request performs the lookups its route performs (one  *)
(* to issue a token; one for the issuer and one for the ability on a       *)
(* brokered call).  A lookup reads the cache; on a miss it joins or starts *)
(* the fan-out of its cache key, revalidating the expired snapshot with    *)
(* ETags; every waiter of a complete fan-out writes it to the cache.       *)
(*                                                                         *)
(* A discovery document is abstracted to who serves it, the id it claims   *)
(* and its release; the release is also its ETag.                          *)
(***************************************************************************)
EXTENDS Integers, Sequences, FiniteSets

CONSTANTS
  Endpoint,    \* the configured services
  Tagged,      \* those that answer with an ETag (the others: inline discovery)
  Edged,       \* those with an HTTP cache in front of their discovery route
  Request, Key,
  Lookups,     \* [Request -> the cache keys its lookups use, in order]
  CacheTTL, MaxAge, SWR,
  Latency,     \* BOUND: longest one await of a lookup takes
  Releases,    \* BOUND: releases of a service
  Claims,      \* the ids a deployed document may claim
  Horizon      \* BOUND: the last instant

ASSUME RegistryAssumption ==
  /\ Endpoint # {} /\ IsFiniteSet(Endpoint)
  /\ Tagged \subseteq Endpoint /\ Edged \subseteq Endpoint
  /\ Claims \in [Endpoint -> SUBSET Endpoint]
  /\ Lookups \in [Request -> Seq(Key) \ {<<>>}]
  /\ CacheTTL \in Nat /\ MaxAge \in Nat /\ SWR \in Nat /\ Latency \in Nat
  /\ Releases \in Nat \ {0} /\ Horizon \in Nat

VARIABLES
  clock,
  deployed,    \* [Endpoint -> the document it serves]
  edge,        \* [Endpoint -> the copy of its document in the HTTP cache]
  cache,       \* [Key -> the RegistryCache entry]
  flight,      \* [Key -> the running discovery, in inFlightDiscovery]
  lookup,      \* [Request -> the lookup under way]
  catalogs,    \* [Request -> what its finished lookups answered]
  lastServed,  \* history: [Endpoint -> [release -> last instant it was served]]
  lastFailed   \* history: [Endpoint -> last instant a fetch of it failed]

vars == <<clock, deployed, edge, cache, flight, lookup, catalogs,
          lastServed, lastFailed>>

LongAgo == 0 - (CacheTTL + MaxAge + SWR + 3 * Latency + 1)

Document == [by : Endpoint, id : Endpoint, release : 1..Releases]
First(e) == [by |-> e, id |-> e, release |-> 1]

NoTags == [e \in Endpoint |-> 0]
NoSnapshot == [services |-> {}, etags |-> NoTags]
NoEntry == [snapshot |-> NoSnapshot, expiresAt |-> LongAgo]
NoFlight == [pc |-> "none", since |-> LongAgo, previous |-> NoSnapshot,
             awaiting |-> {}, found |-> NoSnapshot]
NoLookup == [pc |-> "idle", since |-> LongAgo, snapshot |-> NoSnapshot]

Init ==
  /\ clock = 0
  /\ deployed = [e \in Endpoint |-> First(e)]
  /\ edge = [e \in Endpoint |-> [doc |-> First(e), at |-> LongAgo]]
  /\ cache = [k \in Key |-> NoEntry]
  /\ flight = [k \in Key |-> NoFlight]
  /\ lookup = [q \in Request |-> NoLookup]
  /\ catalogs = [q \in Request |-> <<>>]
  /\ lastServed = [e \in Endpoint |-> [n \in 1..Releases |-> IF n = 1 THEN 0 ELSE LongAgo]]
  /\ lastFailed = [e \in Endpoint |-> LongAgo]

Overdue(since) == clock >= since + Latency

Tick ==
  /\ clock < Horizon
  /\ \A k \in Key : flight[k].pc # "none" => ~Overdue(flight[k].since)
  /\ \A q \in Request : lookup[q].pc # "idle" => ~Overdue(lookup[q].since)
  /\ clock' = clock + 1
  /\ lastServed' = [e \in Endpoint |->
       [lastServed[e] EXCEPT ![deployed[e].release] = clock + 1]]
  /\ UNCHANGED <<deployed, edge, cache, flight, lookup, catalogs, lastFailed>>

-----------------------------------------------------------------------------
(* The services, and the HTTP cache in front of them. *)

Deploy(e, id) ==
  /\ deployed[e].release < Releases
  /\ deployed' = [deployed EXCEPT ![e] =
       [by |-> e, id |-> id, release |-> deployed[e].release + 1]]
  /\ lastServed' = [lastServed EXCEPT ![e][deployed[e].release + 1] = clock]
  /\ UNCHANGED <<clock, edge, cache, flight, lookup, catalogs, lastFailed>>

EdgeRefresh(e) ==
  /\ e \in Edged
  /\ edge' = [edge EXCEPT ![e] = [doc |-> deployed[e], at |-> clock]]
  /\ UNCHANGED <<clock, deployed, cache, flight, lookup, catalogs,
                 lastServed, lastFailed>>

\* What a fetch of e may be answered with: an edge serves its copy while it is
\* fresh, and stale while it revalidates.
Served(e) ==
  {deployed[e]} \cup
    (IF clock - edge[e].at < MaxAge + SWR THEN {edge[e].doc} ELSE {})

-----------------------------------------------------------------------------
(* A lookup: discover(). *)

services == <<clock, deployed, edge, lastServed>>
Live(entry) == entry.expiresAt > clock
Used(snapshot) == snapshot.services # {}

\* Fault: the cache answers with an expired entry.
AskCacheIgnoringExpiry(q) ==
  /\ lookup[q].pc = "idle"
  /\ Len(catalogs[q]) < Len(Lookups[q])
  /\ lookup' = [lookup EXCEPT ![q] =
       [pc |-> "asked", since |-> clock,
        snapshot |-> cache[Lookups[q][Len(catalogs[q]) + 1]].snapshot]]
  /\ UNCHANGED <<services, cache, flight, catalogs, lastFailed>>

\* The next lookup begins by asking the cache, which answers from this instant.
AskCache(q) ==
  /\ lookup[q].pc = "idle"
  /\ Len(catalogs[q]) < Len(Lookups[q])
  /\ LET entry == cache[Lookups[q][Len(catalogs[q]) + 1]]
     IN lookup' = [lookup EXCEPT ![q] =
          [pc |-> "asked", since |-> clock,
           snapshot |-> IF Live(entry) THEN entry.snapshot ELSE NoSnapshot]]
  /\ UNCHANGED <<services, cache, flight, catalogs, lastFailed>>

\* The key of the lookup q is in.
KeyOf(q) == Lookups[q][Len(catalogs[q]) + 1]

Answer(q, snapshot) ==
  /\ catalogs' = [catalogs EXCEPT ![q] = Append(@, snapshot.services)]
  /\ lookup' = [lookup EXCEPT ![q] = NoLookup]

\* A request that fails, or has been answered, makes room for another one.
Finish(q) ==
  /\ catalogs' = [catalogs EXCEPT ![q] = <<>>]
  /\ lookup' = [lookup EXCEPT ![q] = NoLookup]

NextRequest(q) ==
  /\ lookup[q].pc = "idle"
  /\ Len(catalogs[q]) = Len(Lookups[q])
  /\ Finish(q)
  /\ UNCHANGED <<services, cache, flight, lastFailed>>

Hit(q) ==
  /\ lookup[q].pc = "asked" /\ Used(lookup[q].snapshot)
  /\ Answer(q, lookup[q].snapshot)
  /\ UNCHANGED <<services, cache, flight, lastFailed>>

\* A miss: await the running discovery of this key, or start one.
Miss(q) ==
  /\ lookup[q].pc = "asked" /\ ~Used(lookup[q].snapshot)
  /\ lookup' = [lookup EXCEPT ![q].pc = "waiting", ![q].since = clock]
  /\ flight' = IF flight[KeyOf(q)].pc # "none" THEN flight
               ELSE [flight EXCEPT ![KeyOf(q)] =
                      [NoFlight EXCEPT !.pc = "reading", !.since = clock]]
  /\ UNCHANGED <<services, cache, catalogs, lastFailed>>

\* cache.get rejects.
CacheThrows(q) ==
  /\ lookup[q].pc = "asked"
  /\ Finish(q)
  /\ UNCHANGED <<services, cache, flight, lastFailed>>

-----------------------------------------------------------------------------
(* The fan-out: discoverServices. *)

\* The snapshot to revalidate, expired or not; a store may keep none.
ReadStale(k) ==
  /\ flight[k].pc = "reading"
  /\ \E previous \in {cache[k].snapshot, NoSnapshot} :
       flight' = [flight EXCEPT ![k].pc = "fetching", ![k].previous = previous,
                                ![k].awaiting = Endpoint]
  /\ UNCHANGED <<services, cache, lookup, catalogs, lastFailed>>

\* Fault: any answer to a conditional request is taken for a 304.
DocumentsAlwaysUnmodified(e, doc, previous) ==
  IF previous.etags[e] # 0
  THEN {d \in previous.services : d.id = e}
  ELSE {d \in {doc} : d.id = e}

\* Fault: the id a document claims is not compared with the endpoint's.
DocumentsUnattributed(e, doc, previous) ==
  IF previous.etags[e] = doc.release
  THEN {d \in previous.services : d.id = e}
  ELSE {doc}

\* The document of a response: the previous one on 304, else the one received,
\* if it is e's own (isDiscoveryForEndpoint).
Documents(e, doc, previous) ==
  IF previous.etags[e] = doc.release
  THEN {d \in previous.services : d.id = e}
  ELSE {d \in {doc} : d.id = e}

\* The fetch of e ended with these documents: one, or none.
Collect(k, e, docs) ==
  LET tag == {d.release : d \in IF e \in Tagged THEN docs ELSE {}}
  IN flight' = [flight EXCEPT
       ![k].awaiting = @ \ {e},
       ![k].found.services = @ \cup docs,
       ![k].found.etags[e] = IF tag = {} THEN 0 ELSE CHOOSE n \in tag : TRUE]

Missed(e, docs) ==
  lastFailed' = IF docs = {} THEN [lastFailed EXCEPT ![e] = clock] ELSE lastFailed

FetchAnswered(k, e) ==
  /\ flight[k].pc = "fetching" /\ e \in flight[k].awaiting
  /\ \E doc \in Served(e) :
       LET docs == Documents(e, doc, flight[k].previous)
       IN Collect(k, e, docs) /\ Missed(e, docs)
  /\ UNCHANGED <<services, cache, lookup, catalogs>>

\* Unreachable, not ok, or not JSON: the service is left out.
FetchFails(k, e) ==
  /\ flight[k].pc = "fetching" /\ e \in flight[k].awaiting
  /\ Collect(k, e, {}) /\ Missed(e, {})
  /\ UNCHANGED <<services, cache, lookup, catalogs>>

\* Fault: only one of those who coalesced is told.
WaitersButOne(k) ==
  LET waiting == {q \in Request : lookup[q].pc = "waiting" /\ KeyOf(q) = k}
  IN IF waiting = {} THEN {} ELSE {CHOOSE q \in waiting : TRUE}

Waiters(k) == {q \in Request : lookup[q].pc = "waiting" /\ KeyOf(q) = k}

\* The discovery resolves: it leaves inFlight, and every waiter resumes.
Settle(k) ==
  /\ flight[k].pc = "fetching" /\ flight[k].awaiting = {}
  /\ lookup' = [q \in Request |->
       IF q \in Waiters(k)
       THEN [pc |-> "writing", since |-> clock, snapshot |-> flight[k].found]
       ELSE lookup[q]]
  /\ flight' = [flight EXCEPT ![k] = NoFlight]
  /\ UNCHANGED <<services, cache, catalogs, lastFailed>>

\* getStale rejects, and with it the discovery and every waiter.
StaleReadThrows(k) ==
  /\ flight[k].pc = "reading"
  /\ lookup' = [q \in Request |-> IF q \in Waiters(k) THEN NoLookup ELSE lookup[q]]
  /\ catalogs' = [q \in Request |-> IF q \in Waiters(k) THEN <<>> ELSE catalogs[q]]
  /\ flight' = [flight EXCEPT ![k] = NoFlight]
  /\ UNCHANGED <<services, cache, lastFailed>>

\* Fault: what a partial discovery found is remembered like a complete one.
CompleteOrNot(snapshot) == TRUE

Complete(snapshot) == Cardinality(snapshot.services) = Cardinality(Endpoint)

Write(q) ==
  cache' = [cache EXCEPT ![KeyOf(q)] =
    [snapshot |-> lookup[q].snapshot, expiresAt |-> clock + CacheTTL]]

\* A complete discovery is written by each waiter, which answers once the
\* write is done.
WriteAndAnswer(q) ==
  /\ lookup[q].pc = "writing" /\ Complete(lookup[q].snapshot)
  /\ Write(q)
  /\ Answer(q, lookup[q].snapshot)
  /\ UNCHANGED <<services, flight, lastFailed>>

\* cache.set rejects, applied or not: the request fails.
WriteThrows(q) ==
  /\ lookup[q].pc = "writing" /\ Complete(lookup[q].snapshot)
  /\ Write(q) \/ UNCHANGED cache
  /\ Finish(q)
  /\ UNCHANGED <<services, flight, lastFailed>>

\* An incomplete discovery is used for this request and not written.
AnswerPartial(q) ==
  /\ lookup[q].pc = "writing" /\ ~Complete(lookup[q].snapshot)
  /\ Answer(q, lookup[q].snapshot)
  /\ UNCHANGED <<services, cache, flight, lastFailed>>

-----------------------------------------------------------------------------
Discovering(k) ==
  \/ ReadStale(k) \/ StaleReadThrows(k) \/ Settle(k)
  \/ \E e \in Endpoint : FetchAnswered(k, e) \/ FetchFails(k, e)

Looking(q) ==
  \/ AskCache(q) \/ Hit(q) \/ Miss(q) \/ CacheThrows(q)
  \/ WriteAndAnswer(q) \/ WriteThrows(q) \/ AnswerPartial(q)

Next ==
  \/ Tick
  \/ \E e \in Endpoint : EdgeRefresh(e) \/ \E id \in Claims[e] : Deploy(e, id)
  \/ \E k \in Key : Discovering(k)
  \/ \E q \in Request : Looking(q) \/ NextRequest(q)

Spec == Init /\ [][Next]_vars

\* The cache and every fetch settle, and the runtime resumes who awaits them.
Fairness ==
  /\ \A k \in Key : WF_vars(Discovering(k))
  /\ \A q \in Request : WF_vars(Looking(q))

FairSpec == Spec /\ Fairness

-----------------------------------------------------------------------------
Snapshot == [services : SUBSET Document, etags : [Endpoint -> 0..Releases]]

TypeOK ==
  /\ clock \in Nat
  /\ deployed \in [Endpoint -> Document]
  /\ edge \in [Endpoint -> [doc : Document, at : Int]]
  /\ cache \in [Key -> [snapshot : Snapshot, expiresAt : Int]]
  /\ flight \in [Key ->
       [pc : {"none", "reading", "fetching"}, since : Int, previous : Snapshot,
        awaiting : SUBSET Endpoint, found : Snapshot]]
  /\ lookup \in [Request ->
       [pc : {"idle", "asked", "waiting", "writing"}, since : Int, snapshot : Snapshot]]
  /\ catalogs \in [Request -> Seq(SUBSET Document)]
  /\ lastServed \in [Endpoint -> [1..Releases -> Int]]
  /\ lastFailed \in [Endpoint -> Int]

\* A lookup may be answered with this snapshot.
MayAnswer(q, snapshot) ==
  /\ lookup[q].snapshot = snapshot
  /\ \/ lookup[q].pc = "writing"
     \/ lookup[q].pc = "asked" /\ Used(snapshot)

\* How long after a deploy the plane may still answer from the old release.
StaleBound(e) ==
  CacheTTL + 3 * Latency + (IF e \in Edged THEN MaxAge + SWR ELSE 0)

\* The plane converges after a deploy: whichever of the expired snapshot, the
\* 304, the shared fan-out and the late write an answer came through, no
\* request is given a release of a service that was replaced that long ago.
CatalogConverges ==
  \A q \in Request, d \in Document :
    d \in lookup[q].snapshot.services /\ MayAnswer(q, lookup[q].snapshot) =>
      clock < lastServed[d.by][d.release] + StaleBound(d.by)

\* "A momentary outage" never becomes "a catalog gap that outlives it": a
\* service is missing from an answer only if a fetch of it failed just now.
GapsAreRecent ==
  \A q \in Request, e \in Endpoint :
    /\ MayAnswer(q, lookup[q].snapshot)
    /\ ~\E d \in lookup[q].snapshot.services : d.by = e
    => clock <= lastFailed[e] + 2 * Latency

\* The services listed under an id are the configured endpoint of that id, and
\* the ETag kept for it is that of the document kept with it: discovery cannot
\* redirect metadata onto another endpoint, nor a 304 revive another release.
\* And every variable keeps its type.
SnapshotsAreCoherent ==
  LET Coherent(s) == \A d \in s.services :
        d.id = d.by /\ s.etags[d.id] \in {0, d.release}
  IN /\ TypeOK
     /\ \A k \in Key : Coherent(cache[k].snapshot) /\ Coherent(flight[k].found)
     /\ \A q \in Request : Coherent(lookup[q].snapshot)

\* Who waits for a discovery waits for one that is running: it leaves inFlight for
\* all who joined it or for none, whether it resolved or the cache threw.
WaitersHaveADiscovery ==
  \A q \in Request : lookup[q].pc = "waiting" => flight[KeyOf(q)].pc # "none"

\* No lookup is left waiting: it is answered, or it fails.
EveryLookupEnds ==
  \A q \in Request : lookup[q].pc = "asked" ~> lookup[q].pc = "idle"

=============================================================================
