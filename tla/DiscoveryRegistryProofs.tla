----------------------- MODULE DiscoveryRegistryProofs -----------------------
(***************************************************************************)
(* Proofs about the catalog of services: what a lookup is answered with is *)
(* no older than the caches and awaits on its way allow, misses a service  *)
(* only because a fetch of it failed just now, and lists under an id the   *)
(* endpoint of that id.                                                    *)
(*                                                                         *)
(* The argument dates every snapshot by the instant its fetches began: the *)
(* fan-out, the lookups it resolves, the cache entry they write and the    *)
(* lookups that hit it each know that instant to within the awaits that    *)
(* separate them from it.  A snapshot that is in the cache is complete, as *)
(* it lists one document of each endpoint at most.                         *)
(***************************************************************************)
EXTENDS DiscoveryRegistry, FiniteSetTheorems, TLAPS

IsCoherent(s) == \A d \in s.services : d.id = d.by /\ s.etags[d.id] \in {0, d.release}

OneEach(s) == \A d, f \in s.services : d.by = f.by => d = f

Lists(s, e) == \E d \in s.services : d.by = e

\* How long a document may be served after it was replaced.
Edging(e) == IF e \in Edged THEN MaxAge + SWR ELSE 0

\* Each document of s was served, by its endpoint or the cache in front of it,
\* at t or later.
IsOf(s, t, served) ==
  \A d \in s.services : t <= served[d.by][d.release] + Edging(d.by)

ServiceIs(e) ==
  /\ deployed[e].by = e /\ edge[e].doc.by = e
  /\ lastServed[e][deployed[e].release] = clock
  /\ \A n \in 1..Releases : lastServed[e][n] <= clock
  /\ edge[e].at <= lastServed[e][edge[e].doc.release]
  /\ e \notin Edged => edge[e].at = LongAgo
  /\ lastFailed[e] <= clock

IsInTime(since) == since <= clock /\ clock <= since + Latency

EntryIs(k) ==
  /\ IsCoherent(cache[k].snapshot) /\ OneEach(cache[k].snapshot)
  /\ Used(cache[k].snapshot) => \A e \in Endpoint : Lists(cache[k].snapshot, e)
  /\ IsOf(cache[k].snapshot, cache[k].expiresAt - CacheTTL - 2 * Latency, lastServed)

FlightIs(k) ==
  /\ IsCoherent(flight[k].previous)
  /\ IsCoherent(flight[k].found) /\ OneEach(flight[k].found)
  /\ flight[k].pc # "none" => IsInTime(flight[k].since)
  /\ flight[k].pc # "fetching" => flight[k].found.services = {}
  /\ \A d \in flight[k].found.services : d.by \notin flight[k].awaiting
  /\ IsOf(flight[k].found, flight[k].since, lastServed)
  /\ flight[k].pc = "fetching" =>
       \A e \in Endpoint \ flight[k].awaiting :
         Lists(flight[k].found, e) \/ flight[k].since <= lastFailed[e]

LookupIs(q) ==
  /\ IsCoherent(lookup[q].snapshot) /\ OneEach(lookup[q].snapshot)
  /\ lookup[q].pc # "idle" =>
       IsInTime(lookup[q].since) /\ Len(catalogs[q]) < Len(Lookups[q])
  /\ lookup[q].pc = "asked" /\ Used(lookup[q].snapshot) =>
       /\ \A e \in Endpoint : Lists(lookup[q].snapshot, e)
       /\ IsOf(lookup[q].snapshot, lookup[q].since + 1 - CacheTTL - 2 * Latency, lastServed)
  /\ lookup[q].pc = "writing" =>
       /\ IsOf(lookup[q].snapshot, lookup[q].since - Latency, lastServed)
       /\ \A e \in Endpoint :
            Lists(lookup[q].snapshot, e) \/ lookup[q].since <= lastFailed[e] + Latency

RegistryInv ==
  /\ TypeOK
  /\ \A e \in Endpoint : ServiceIs(e)
  /\ \A k \in Key : EntryIs(k)
  /\ \A k \in Key : FlightIs(k)
  /\ \A q \in Request : LookupIs(q)

-----------------------------------------------------------------------------
(* Types, by the names the steps below use for them. *)

EdgeRecord == [doc : Document, at : Int]

EntryRecord == [snapshot : Snapshot, expiresAt : Int]

FlightRecord ==
  [pc : {"none", "reading", "fetching"}, since : Int, previous : Snapshot,
   awaiting : SUBSET Endpoint, found : Snapshot]

LookupRecord ==
  [pc : {"idle", "asked", "waiting", "writing"}, since : Int, snapshot : Snapshot]

Instants == [Endpoint -> [1..Releases -> Int]]

LEMMA TypedIs ==
  TypeOK <=>
    /\ clock \in Nat
    /\ deployed \in [Endpoint -> Document]
    /\ edge \in [Endpoint -> EdgeRecord]
    /\ cache \in [Key -> EntryRecord]
    /\ flight \in [Key -> FlightRecord]
    /\ lookup \in [Request -> LookupRecord]
    /\ catalogs \in [Request -> Seq(SUBSET Document)]
    /\ lastServed \in Instants
    /\ lastFailed \in [Endpoint -> Int]
BY DEF TypeOK, EdgeRecord, EntryRecord, FlightRecord, LookupRecord, Instants

LEMMA Typed ==
  ASSUME TypeOK
  PROVE  /\ clock \in Nat
         /\ deployed \in [Endpoint -> Document]
         /\ edge \in [Endpoint -> EdgeRecord]
         /\ cache \in [Key -> EntryRecord]
         /\ flight \in [Key -> FlightRecord]
         /\ lookup \in [Request -> LookupRecord]
         /\ catalogs \in [Request -> Seq(SUBSET Document)]
         /\ lastServed \in Instants
         /\ lastFailed \in [Endpoint -> Int]
BY TypedIs

LEMMA TypedAgain ==
  ASSUME clock' \in Nat,
         deployed' \in [Endpoint -> Document],
         edge' \in [Endpoint -> EdgeRecord],
         cache' \in [Key -> EntryRecord],
         flight' \in [Key -> FlightRecord],
         lookup' \in [Request -> LookupRecord],
         catalogs' \in [Request -> Seq(SUBSET Document)],
         lastServed' \in Instants,
         lastFailed' \in [Endpoint -> Int]
  PROVE  TypeOK'
BY DEF TypeOK, EdgeRecord, EntryRecord, FlightRecord, LookupRecord, Instants

LEMMA Numbers ==
  /\ CacheTTL \in Nat /\ MaxAge \in Nat /\ SWR \in Nat /\ Latency \in Nat
  /\ Releases \in Nat \ {0} /\ LongAgo \in Int /\ LongAgo < 0 - (MaxAge + SWR)
BY RegistryAssumption DEF LongAgo

LEMMA EdgingIsTime == \A e \in Endpoint : Edging(e) \in Nat
BY Numbers DEF Edging

LEMMA EmptyIs ==
  /\ NoSnapshot \in Snapshot /\ NoSnapshot.services = {}
  /\ IsCoherent(NoSnapshot) /\ OneEach(NoSnapshot)
  /\ NoFlight \in FlightRecord /\ NoLookup \in LookupRecord /\ NoEntry \in EntryRecord
<1>1. NoSnapshot \in Snapshot /\ NoSnapshot.services = {}
  BY Numbers DEF NoSnapshot, NoTags, Snapshot
<1>2. IsCoherent(NoSnapshot) /\ OneEach(NoSnapshot)
  BY <1>1 DEF IsCoherent, OneEach
<1>3. NoFlight \in FlightRecord
  BY <1>1, Numbers DEF NoFlight, FlightRecord
<1>4. NoLookup \in LookupRecord /\ NoEntry \in EntryRecord
  BY <1>1, Numbers DEF NoLookup, NoEntry, LookupRecord, EntryRecord
<1> QED
  BY <1>1, <1>2, <1>3, <1>4

LEMMA InitRegistry == Init => RegistryInv
<1> SUFFICES ASSUME Init PROVE RegistryInv
  OBVIOUS
<1>1. \A e \in Endpoint : First(e) \in Document /\ First(e).by = e /\ First(e).release = 1
  BY Numbers DEF First, Document
<1>2. TypeOK
  <2>1. deployed \in [Endpoint -> Document]
    BY <1>1 DEF Init
  <2>2. edge \in [Endpoint -> EdgeRecord]
    BY <1>1, Numbers DEF Init, EdgeRecord
  <2>3. /\ cache \in [Key -> EntryRecord] /\ flight \in [Key -> FlightRecord]
        /\ lookup \in [Request -> LookupRecord]
    BY EmptyIs DEF Init
  <2>4. catalogs \in [Request -> Seq(SUBSET Document)]
    BY DEF Init
  <2>5. lastServed \in Instants /\ lastFailed \in [Endpoint -> Int] /\ clock \in Nat
    BY Numbers DEF Init, Instants
  <2> QED
    BY <2>1, <2>2, <2>3, <2>4, <2>5, TypedIs
<1>3. ASSUME NEW e \in Endpoint PROVE ServiceIs(e)
  <2>1. /\ deployed[e] = First(e) /\ edge[e] = [doc |-> First(e), at |-> LongAgo]
        /\ clock = 0 /\ lastFailed[e] = LongAgo /\ 1 \in 1..Releases
        /\ lastServed[e] = [n \in 1..Releases |-> IF n = 1 THEN 0 ELSE LongAgo]
    BY Numbers DEF Init
  <2> QED
    BY <1>1, <2>1, Numbers DEF ServiceIs
<1>4. ASSUME NEW k \in Key PROVE EntryIs(k)
  <2>1. cache[k].snapshot = NoSnapshot
    BY DEF Init, NoEntry
  <2> QED
    BY <2>1, EmptyIs DEF EntryIs, Used, IsOf
<1>5. ASSUME NEW k \in Key PROVE FlightIs(k)
  <2>1. flight[k].previous = NoSnapshot /\ flight[k].found = NoSnapshot /\ flight[k].pc = "none"
    BY DEF Init, NoFlight
  <2> QED
    BY <2>1, EmptyIs DEF FlightIs, IsOf
<1>6. ASSUME NEW q \in Request PROVE LookupIs(q)
  <2>1. lookup[q].snapshot = NoSnapshot /\ lookup[q].pc = "idle"
    BY DEF Init, NoLookup
  <2> QED
    BY <2>1, EmptyIs DEF LookupIs
<1> QED
  BY <1>2, <1>3, <1>4, <1>5, <1>6 DEF RegistryInv

-----------------------------------------------------------------------------
(* Snapshots. *)

\* What was served at t was served since any earlier instant, and stays so.
LEMMA IsOfEarlier ==
  ASSUME NEW s \in Snapshot, NEW t \in Int, NEW u \in Int, u <= t,
         NEW served \in Instants, NEW later \in Instants,
         \A e \in Endpoint : \A n \in 1..Releases : served[e][n] <= later[e][n],
         IsOf(s, t, served)
  PROVE  IsOf(s, u, later)
<1> SUFFICES ASSUME NEW d \in s.services
             PROVE  u <= later[d.by][d.release] + Edging(d.by)
  BY DEF IsOf
<1>1. d.by \in Endpoint /\ d.release \in 1..Releases
  BY DEF Snapshot, Document
<1>2. served[d.by][d.release] \in Int /\ later[d.by][d.release] \in Int
  BY <1>1 DEF Instants
<1>3. t <= served[d.by][d.release] + Edging(d.by) /\ Edging(d.by) \in Nat
  BY <1>1, EdgingIsTime DEF IsOf
<1>4. served[d.by][d.release] <= later[d.by][d.release]
  BY <1>1
<1> QED
  BY <1>2, <1>3, <1>4

\* A snapshot that lists one document each of as many endpoints as there are
\* lists them all.
LEMMA CompleteListsAll ==
  ASSUME NEW s \in Snapshot, OneEach(s), Complete(s), NEW e \in Endpoint
  PROVE  Lists(s, e)
<1> SUFFICES ASSUME ~Lists(s, e) PROVE FALSE
  OBVIOUS
<1> DEFINE others == Endpoint \ {e}
<1>1. /\ IsFiniteSet(others) /\ Cardinality(Endpoint) \in Nat
      /\ Cardinality(others) = Cardinality(Endpoint) - 1
  BY RegistryAssumption, FS_RemoveElement, FS_CardinalityType
<1> DEFINE by == [d \in s.services |-> d.by]
<1>2. by \in [s.services -> others]
  BY DEF Lists, Snapshot, Document
<1>3. \A d, f \in s.services : by[d] = by[f] => d = f
  BY DEF OneEach
<1> HIDE DEF others, by
<1>4. by \in Injection(s.services, others)
  BY <1>2, <1>3 DEF Injection, IsInjective
<1>5. Cardinality(s.services) <= Cardinality(others)
  BY <1>1, <1>4, FS_Injection
<1> QED
  BY <1>1, <1>5 DEF Complete

-----------------------------------------------------------------------------
(* What a step leaves alone stays as it is while the histories grow. *)

Grows ==
  /\ \A e \in Endpoint : \A n \in 1..Releases : lastServed[e][n] <= lastServed'[e][n]
  /\ \A e \in Endpoint : lastFailed[e] <= lastFailed'[e]

LEMMA GrowsOrStays ==
  ASSUME TypeOK, UNCHANGED <<lastServed, lastFailed>>
  PROVE  Grows
<1>1. lastServed \in [Endpoint -> [1..Releases -> Int]] /\ lastFailed \in [Endpoint -> Int]
  BY Typed DEF Instants
<1>2. ASSUME NEW e \in Endpoint, NEW n \in 1..Releases
      PROVE  lastServed[e][n] <= lastServed'[e][n] /\ lastFailed[e] <= lastFailed'[e]
  <2>1. lastServed[e][n] \in Int /\ lastFailed[e] \in Int
    BY <1>1
  <2> QED
    BY <2>1
<1> QED
  BY <1>1, <1>2 DEF Grows

LEMMA EntryKeeps ==
  ASSUME TypeOK, TypeOK', Grows, NEW k \in Key, EntryIs(k), cache'[k] = cache[k]
  PROVE  EntryIs(k)'
<1>1. cache[k].snapshot \in Snapshot /\ cache[k].expiresAt \in Int
  BY Typed DEF EntryRecord
<1>2. lastServed \in Instants /\ lastServed' \in Instants
  BY Typed DEF TypeOK, Instants
<1> DEFINE t == cache[k].expiresAt - CacheTTL - 2 * Latency
<1>3. t \in Int
  BY <1>1, Numbers
<1>4. IsOf(cache[k].snapshot, t, lastServed)
  BY DEF EntryIs
<1> HIDE DEF t
<1>5. IsOf(cache[k].snapshot, t, lastServed')
  BY <1>1, <1>2, <1>3, <1>4, IsOfEarlier DEF Grows
<1> QED
  BY <1>5 DEF EntryIs, t

LEMMA FlightKeeps ==
  ASSUME TypeOK, TypeOK', Grows, NEW k \in Key, FlightIs(k), flight'[k] = flight[k],
         flight[k].pc # "none" => IsInTime(flight[k].since)'
  PROVE  FlightIs(k)'
<1>1. flight[k].found \in Snapshot /\ flight[k].since \in Int
  BY Typed DEF FlightRecord
<1>2. /\ lastServed \in Instants /\ lastServed' \in Instants
      /\ lastFailed \in [Endpoint -> Int] /\ lastFailed' \in [Endpoint -> Int]
  BY Typed DEF TypeOK, Instants
<1>3. IsOf(flight[k].found, flight[k].since, lastServed')
  BY <1>1, <1>2, IsOfEarlier DEF FlightIs, Grows
<1>4. ASSUME flight[k].pc = "fetching", NEW e \in Endpoint \ flight[k].awaiting
      PROVE  Lists(flight[k].found, e) \/ flight[k].since <= lastFailed'[e]
  <2>1. Lists(flight[k].found, e) \/ flight[k].since <= lastFailed[e]
    BY <1>4 DEF FlightIs
  <2>2. lastFailed[e] \in Int /\ lastFailed'[e] \in Int /\ lastFailed[e] <= lastFailed'[e]
    BY <1>2 DEF Grows
  <2> QED
    BY <1>1, <2>1, <2>2
<1> QED
  BY <1>3, <1>4 DEF FlightIs, IsInTime

LEMMA LookupKeeps ==
  ASSUME TypeOK, TypeOK', Grows, NEW q \in Request, LookupIs(q),
         lookup'[q] = lookup[q], catalogs'[q] = catalogs[q],
         lookup[q].pc # "idle" => IsInTime(lookup[q].since)'
  PROVE  LookupIs(q)'
<1>1. lookup[q].snapshot \in Snapshot /\ lookup[q].since \in Int
  BY Typed DEF LookupRecord
<1>2. /\ lastServed \in Instants /\ lastServed' \in Instants
      /\ lastFailed \in [Endpoint -> Int] /\ lastFailed' \in [Endpoint -> Int]
  BY Typed DEF TypeOK, Instants
<1>3. ASSUME NEW t \in Int, IsOf(lookup[q].snapshot, t, lastServed)
      PROVE  IsOf(lookup[q].snapshot, t, lastServed')
  BY <1>1, <1>2, <1>3, IsOfEarlier DEF Grows
<1> DEFINE t == lookup[q].since + 1 - CacheTTL - 2 * Latency
<1> DEFINE u == lookup[q].since - Latency
<1>4. t \in Int /\ u \in Int
  BY <1>1, Numbers
<1>5. CASE lookup[q].pc = "asked"
  <2>1. Used(lookup[q].snapshot) => /\ \A e \in Endpoint : Lists(lookup[q].snapshot, e)
                                    /\ IsOf(lookup[q].snapshot, t, lastServed)
    BY <1>5 DEF LookupIs
  <2> HIDE DEF t
  <2>2. Used(lookup[q].snapshot) => IsOf(lookup[q].snapshot, t, lastServed')
    BY <1>3, <1>4, <2>1
  <2> QED
    BY <1>5, <2>1, <2>2 DEF LookupIs, t
<1>6. CASE lookup[q].pc = "writing"
  <2>1. /\ IsOf(lookup[q].snapshot, u, lastServed)
        /\ \A e \in Endpoint :
             Lists(lookup[q].snapshot, e) \/ lookup[q].since <= lastFailed[e] + Latency
    BY <1>6 DEF LookupIs
  <2> HIDE DEF u
  <2>2. IsOf(lookup[q].snapshot, u, lastServed')
    BY <1>3, <1>4, <2>1
  <2>3. ASSUME NEW e \in Endpoint
        PROVE  Lists(lookup[q].snapshot, e) \/ lookup[q].since <= lastFailed'[e] + Latency
    <3>1. lastFailed[e] \in Int /\ lastFailed'[e] \in Int /\ lastFailed[e] <= lastFailed'[e]
      BY <1>2 DEF Grows
    <3> QED
      BY <1>1, <2>1, <3>1, Numbers
  <2> QED
    BY <1>6, <2>2, <2>3 DEF LookupIs, u
<1>7. CASE lookup[q].pc \notin {"asked", "writing"}
  BY <1>7 DEF LookupIs
<1> QED
  BY <1>5, <1>6, <1>7

-----------------------------------------------------------------------------
(* One lemma per step.  Time, the services and the caches in front of them: *)

LEMMA ServicesMove ==
  ASSUME RegistryInv, UNCHANGED <<cache, flight, lookup, catalogs, lastFailed>>,
         TypeOK', clock <= clock',
         \A e \in Endpoint : \A n \in 1..Releases : lastServed[e][n] <= lastServed'[e][n],
         \A k \in Key : flight[k].pc # "none" => clock' <= flight[k].since + Latency,
         \A q \in Request : lookup[q].pc # "idle" => clock' <= lookup[q].since + Latency,
         \A e \in Endpoint : ServiceIs(e)'
  PROVE  RegistryInv'
<1>0. TypeOK /\ clock \in Nat /\ clock' \in Nat /\ lastFailed \in [Endpoint -> Int]
  BY Typed DEF RegistryInv, TypeOK
<1>1. Grows
  <2>1. ASSUME NEW e \in Endpoint PROVE lastFailed[e] <= lastFailed'[e]
    <3>1. lastFailed[e] \in Int
      BY <1>0
    <3> QED
      BY <3>1
  <2> QED
    BY <2>1 DEF Grows
<1>2. ASSUME NEW k \in Key PROVE EntryIs(k)'
  BY <1>0, <1>1, EntryKeeps DEF RegistryInv
<1>3. ASSUME NEW k \in Key PROVE FlightIs(k)'
  <2>1. flight[k].since \in Int /\ FlightIs(k)
    BY Typed DEF RegistryInv, FlightRecord
  <2>2. flight[k].pc # "none" => IsInTime(flight[k].since)'
    BY <1>0, <2>1 DEF FlightIs, IsInTime
  <2> QED
    BY <1>0, <1>1, <2>1, <2>2, FlightKeeps
<1>4. ASSUME NEW q \in Request PROVE LookupIs(q)'
  <2>1. lookup[q].since \in Int /\ LookupIs(q)
    BY Typed DEF RegistryInv, LookupRecord
  <2>2. lookup[q].pc # "idle" => IsInTime(lookup[q].since)'
    BY <1>0, <2>1 DEF LookupIs, IsInTime
  <2> QED
    BY <1>0, <1>1, <2>1, <2>2, LookupKeeps
<1> QED
  BY <1>2, <1>3, <1>4 DEF RegistryInv

\* A lookup or a fan-out that is overdue waits for no tick.
LEMMA TickKeeps ==
  ASSUME RegistryInv, Tick
  PROVE  RegistryInv'
<1>0. /\ clock \in Nat /\ clock' = clock + 1 /\ deployed \in [Endpoint -> Document]
      /\ lastServed \in [Endpoint -> [1..Releases -> Int]] /\ edge \in [Endpoint -> EdgeRecord]
      /\ lastFailed \in [Endpoint -> Int]
      /\ UNCHANGED <<deployed, edge, cache, flight, lookup, catalogs, lastFailed>>
  BY Typed DEF RegistryInv, Tick, Instants
<1>1. ASSUME NEW e \in Endpoint
      PROVE  /\ deployed[e].release \in 1..Releases
             /\ lastServed'[e] \in [1..Releases -> Int]
             /\ lastServed'[e][deployed[e].release] = clock + 1
             /\ \A n \in 1..Releases : lastServed[e][n] <= lastServed'[e][n] /\ lastServed'[e][n] <= clock + 1
  <2>1. deployed[e].release \in 1..Releases /\ lastServed[e] \in [1..Releases -> Int]
    BY <1>0 DEF Document
  <2>2. lastServed'[e] = [lastServed[e] EXCEPT ![deployed[e].release] = clock + 1]
    BY DEF Tick
  <2>3. ASSUME NEW n \in 1..Releases
        PROVE  lastServed[e][n] <= lastServed'[e][n] /\ lastServed'[e][n] <= clock + 1
    <3>1. lastServed[e][n] <= clock /\ lastServed[e][n] \in Int
      BY <2>1 DEF RegistryInv, ServiceIs
    <3> QED
      BY <1>0, <2>1, <2>2, <3>1
  <2> QED
    BY <1>0, <2>1, <2>2, <2>3
<1>2. TypeOK'
  <2>1. lastServed' \in Instants
    BY <1>1 DEF Tick, Instants
  <2> QED
    BY <1>0, <2>1, Typed, TypedAgain DEF RegistryInv
<1>3. ASSUME NEW e \in Endpoint PROVE ServiceIs(e)'
  <2>1. ServiceIs(e) /\ edge[e].at \in Int /\ edge[e].doc.release \in 1..Releases
    BY <1>0 DEF RegistryInv, EdgeRecord, Document
  <2>2. /\ lastServed[e][edge[e].doc.release] \in Int /\ lastServed'[e][edge[e].doc.release] \in Int
        /\ lastFailed[e] \in Int
    BY <1>0, <1>1, <2>1
  <2>3. edge[e].at <= lastServed'[e][edge[e].doc.release]
    BY <1>1, <2>1, <2>2 DEF ServiceIs
  <2>4. lastFailed[e] <= clock + 1
    BY <1>0, <2>1, <2>2 DEF ServiceIs
  <2> QED
    BY <1>0, <1>1, <2>1, <2>3, <2>4 DEF ServiceIs
<1>4. ASSUME NEW k \in Key, flight[k].pc # "none" PROVE clock + 1 <= flight[k].since + Latency
  <2>1. flight[k].since \in Int /\ ~(clock >= flight[k].since + Latency)
    BY <1>4, Typed DEF RegistryInv, FlightRecord, Tick, Overdue
  <2> QED
    BY <1>0, <2>1, Numbers
<1>5. ASSUME NEW q \in Request, lookup[q].pc # "idle" PROVE clock + 1 <= lookup[q].since + Latency
  <2>1. lookup[q].since \in Int /\ ~(clock >= lookup[q].since + Latency)
    BY <1>5, Typed DEF RegistryInv, LookupRecord, Tick, Overdue
  <2> QED
    BY <1>0, <2>1, Numbers
<1> QED
  BY <1>0, <1>1, <1>2, <1>3, <1>4, <1>5, ServicesMove

LEMMA InTime ==
  ASSUME RegistryInv
  PROVE  /\ \A k \in Key : flight[k].pc # "none" => clock <= flight[k].since + Latency
         /\ \A q \in Request : lookup[q].pc # "idle" => clock <= lookup[q].since + Latency
BY DEF RegistryInv, FlightIs, LookupIs, IsInTime

LEMMA ExceptTyped ==
  ASSUME NEW S, NEW T, NEW f \in [S -> T], NEW x, NEW y \in T
  PROVE  [f EXCEPT ![x] = y] \in [S -> T]
OBVIOUS

LEMMA DeployKeeps ==
  ASSUME RegistryInv, NEW e \in Endpoint, NEW id \in Claims[e], Deploy(e, id)
  PROVE  RegistryInv'
<1> DEFINE n == deployed[e].release + 1
<1>0. /\ clock \in Nat /\ deployed \in [Endpoint -> Document]
      /\ lastServed \in [Endpoint -> [1..Releases -> Int]] /\ edge \in [Endpoint -> EdgeRecord]
      /\ lastFailed \in [Endpoint -> Int]
      /\ UNCHANGED <<clock, edge, cache, flight, lookup, catalogs, lastFailed>>
  BY Typed DEF RegistryInv, Deploy, Instants
<1>1. n \in 1..Releases /\ id \in Endpoint
  <2>1. deployed[e].release \in 1..Releases /\ deployed[e].release < Releases
    BY <1>0 DEF Deploy, Document
  <2>2. id \in Endpoint
    BY RegistryAssumption
  <2> QED
    BY <2>1, <2>2, Numbers
<1> DEFINE doc == [by |-> e, id |-> id, release |-> n]
<1>2. doc \in Document /\ deployed' = [deployed EXCEPT ![e] = doc]
  BY <1>1 DEF Deploy, Document
<1>3. lastServed' = [lastServed EXCEPT ![e][n] = clock]
  BY DEF Deploy
<1>4. doc.by = e /\ doc.release = n
  OBVIOUS
<1> HIDE DEF n, doc
<1>5. ASSUME NEW f \in Endpoint
      PROVE  /\ lastServed'[f] \in [1..Releases -> Int]
             /\ \A m \in 1..Releases :
                  /\ lastServed'[f][m] = IF f = e /\ m = n THEN clock ELSE lastServed[f][m]
                  /\ lastServed[f][m] \in Int /\ lastServed[f][m] <= clock
                  /\ lastServed[f][m] <= lastServed'[f][m] /\ lastServed'[f][m] <= clock
  <2>1. \A m \in 1..Releases : lastServed[f][m] <= clock /\ lastServed[f][m] \in Int
    BY <1>0 DEF RegistryInv, ServiceIs
  <2>2. lastServed[f] \in [1..Releases -> Int]
    BY <1>0
  <2>3. lastServed'[f] = IF f = e THEN [lastServed[f] EXCEPT ![n] = clock] ELSE lastServed[f]
    BY <1>0, <1>3
  <2>4. ASSUME NEW m \in 1..Releases
        PROVE  lastServed'[f][m] = IF f = e /\ m = n THEN clock ELSE lastServed[f][m]
    BY <2>2, <2>3
  <2>5. [lastServed[f] EXCEPT ![n] = clock] \in [1..Releases -> Int]
    <3>1. clock \in Int
      BY <1>0
    <3> QED
      BY <2>2, <3>1, ExceptTyped
  <2>6. lastServed'[f] \in [1..Releases -> Int]
    BY <2>2, <2>3, <2>5
  <2> QED
    BY <1>0, <2>1, <2>4, <2>6
<1>6. TypeOK'
  <2>1. lastServed' \in Instants
    BY <1>0, <1>3, <1>5 DEF Instants
  <2>2. deployed' \in [Endpoint -> Document]
    BY <1>0, <1>2
  <2> QED
    BY <1>0, <2>1, <2>2, Typed, TypedAgain DEF RegistryInv
<1>7. ASSUME NEW f \in Endpoint PROVE ServiceIs(f)'
  <2>1. ServiceIs(f) /\ edge[f].at \in Int /\ edge[f].doc.release \in 1..Releases
    BY <1>0 DEF RegistryInv, EdgeRecord, Document
  <2>2. edge[f].at <= lastServed'[f][edge[f].doc.release]
    <3>1. lastServed[f][edge[f].doc.release] \in Int /\ lastServed'[f][edge[f].doc.release] \in Int
      BY <1>5, <2>1
    <3> QED
      BY <1>5, <2>1, <3>1 DEF ServiceIs
  <2>3. deployed'[f].by = f /\ lastServed'[f][deployed'[f].release] = clock
    <3>1. CASE f = e
      BY <1>0, <1>1, <1>2, <1>4, <1>5, <3>1
    <3>2. CASE f # e
      <4>1. deployed'[f] = deployed[f] /\ deployed[f].release \in 1..Releases
        BY <1>0, <1>2, <3>2 DEF Document
      <4> QED
        BY <1>5, <2>1, <3>2, <4>1 DEF ServiceIs
    <3> QED
      BY <3>1, <3>2
  <2> QED
    BY <1>0, <1>5, <2>1, <2>2, <2>3 DEF ServiceIs
<1>8. clock <= clock'
  BY <1>0
<1> QED
  BY <1>0, <1>5, <1>6, <1>7, <1>8, InTime, ServicesMove

LEMMA EdgeRefreshKeeps ==
  ASSUME RegistryInv, NEW e \in Endpoint, EdgeRefresh(e)
  PROVE  RegistryInv'
<1>0. /\ clock \in Nat /\ deployed \in [Endpoint -> Document]
      /\ lastServed \in [Endpoint -> [1..Releases -> Int]] /\ edge \in [Endpoint -> EdgeRecord]
      /\ UNCHANGED <<clock, deployed, lastServed, cache, flight, lookup, catalogs, lastFailed>>
  BY Typed DEF RegistryInv, EdgeRefresh, Instants
<1> DEFINE copy == [doc |-> deployed[e], at |-> clock]
<1>1. copy \in EdgeRecord /\ copy.doc = deployed[e] /\ copy.at = clock
  BY <1>0 DEF EdgeRecord
<1>2. edge' = [edge EXCEPT ![e] = copy] /\ e \in Edged
  BY DEF EdgeRefresh
<1> HIDE DEF copy
<1>3. TypeOK'
  BY <1>0, <1>1, <1>2, Typed, TypedAgain DEF RegistryInv
<1>4. ASSUME NEW f \in Endpoint PROVE ServiceIs(f)'
  <2>1. CASE f = e
    BY <1>0, <1>1, <1>2, <2>1 DEF RegistryInv, ServiceIs
  <2>2. CASE f # e
    BY <1>0, <1>2, <2>2 DEF RegistryInv, ServiceIs
  <2> QED
    BY <2>1, <2>2
<1>5. ASSUME NEW f \in Endpoint, NEW n \in 1..Releases PROVE lastServed[f][n] <= lastServed'[f][n]
  <2>1. lastServed[f][n] \in Int
    BY <1>0
  <2> QED
    BY <1>0, <2>1
<1> QED
  BY <1>0, <1>3, <1>4, <1>5, InTime, ServicesMove

-----------------------------------------------------------------------------
(* Steps of the plane itself take no time, and replace no release. *)

LEMMA PlaneMoves ==
  ASSUME RegistryInv, TypeOK', UNCHANGED services,
         \A e \in Endpoint : lastFailed[e] <= lastFailed'[e] /\ lastFailed'[e] <= clock,
         \A k \in Key : cache'[k] = cache[k] \/ EntryIs(k)',
         \A k \in Key : flight'[k] = flight[k] \/ FlightIs(k)',
         \A q \in Request :
           (lookup'[q] = lookup[q] /\ catalogs'[q] = catalogs[q]) \/ LookupIs(q)'
  PROVE  RegistryInv'
<1>0. TypeOK /\ UNCHANGED <<clock, deployed, edge, lastServed>>
  BY DEF services, RegistryInv
<1>1. Grows
  <2>1. ASSUME NEW e \in Endpoint, NEW n \in 1..Releases
        PROVE  lastServed[e][n] <= lastServed'[e][n]
    <3>1. lastServed[e][n] \in Int
      BY <1>0, Typed DEF Instants
    <3> QED
      BY <1>0, <3>1
  <2> QED
    BY <2>1 DEF Grows
<1>2. ASSUME NEW e \in Endpoint PROVE ServiceIs(e)'
  BY <1>0 DEF RegistryInv, ServiceIs
<1>3. ASSUME NEW k \in Key PROVE EntryIs(k)'
  BY <1>0, <1>1, EntryKeeps DEF RegistryInv
<1>4. ASSUME NEW k \in Key PROVE FlightIs(k)'
  <2>1. SUFFICES ASSUME flight'[k] = flight[k]
                 PROVE  FlightIs(k)'
    OBVIOUS
  <2>2. FlightIs(k)
    BY DEF RegistryInv
  <2>3. flight[k].pc # "none" => IsInTime(flight[k].since)'
    BY <1>0, <2>1, <2>2 DEF FlightIs, IsInTime
  <2> QED
    BY <1>0, <1>1, <2>1, <2>2, <2>3, FlightKeeps
<1>5. ASSUME NEW q \in Request PROVE LookupIs(q)'
  <2>1. SUFFICES ASSUME lookup'[q] = lookup[q] /\ catalogs'[q] = catalogs[q]
                 PROVE  LookupIs(q)'
    OBVIOUS
  <2>2. LookupIs(q)
    BY DEF RegistryInv
  <2>3. lookup[q].pc # "idle" => IsInTime(lookup[q].since)'
    BY <1>0, <2>1, <2>2 DEF LookupIs, IsInTime
  <2> QED
    BY <1>0, <1>1, <2>1, <2>2, <2>3, LookupKeeps
<1> QED
  BY <1>2, <1>3, <1>4, <1>5 DEF RegistryInv

\* Most of them see no fetch fail.
LEMMA FailuresStay ==
  ASSUME RegistryInv, UNCHANGED lastFailed
  PROVE  \A e \in Endpoint : lastFailed[e] <= lastFailed'[e] /\ lastFailed'[e] <= clock
<1> SUFFICES ASSUME NEW e \in Endpoint
             PROVE  lastFailed[e] <= lastFailed'[e] /\ lastFailed'[e] <= clock
  OBVIOUS
<1>1. lastFailed[e] \in Int /\ lastFailed[e] <= clock
  BY Typed DEF RegistryInv, ServiceIs
<1> QED
  BY <1>1

\* A step of the fan-out of k.
LEMMA FlightMoves ==
  ASSUME RegistryInv, UNCHANGED <<services, cache, lookup, catalogs>>,
         NEW k \in Key, NEW r \in FlightRecord, flight' = [flight EXCEPT ![k] = r],
         lastFailed' \in [Endpoint -> Int],
         \A e \in Endpoint : lastFailed[e] <= lastFailed'[e] /\ lastFailed'[e] <= clock,
         FlightIs(k)'
  PROVE  RegistryInv'
<1>1. flight \in [Key -> FlightRecord]
  BY Typed DEF RegistryInv
<1>2. flight' \in [Key -> FlightRecord] /\ \A j \in Key \ {k} : flight'[j] = flight[j]
  BY <1>1
<1>3. TypeOK'
  BY <1>2, Typed, TypedAgain DEF RegistryInv, services
<1> QED
  BY <1>2, <1>3, PlaneMoves

-----------------------------------------------------------------------------
(* The fan-out. *)

LEMMA ReadStaleKeeps ==
  ASSUME RegistryInv, NEW k \in Key, ReadStale(k)
  PROVE  RegistryInv'
<1>0. /\ flight \in [Key -> FlightRecord] /\ flight[k] \in FlightRecord /\ flight[k].pc = "reading"
      /\ UNCHANGED <<services, cache, lookup, catalogs, lastFailed>>
      /\ UNCHANGED <<clock, lastServed>>
      /\ FlightIs(k) /\ EntryIs(k) /\ cache[k].snapshot \in Snapshot
  BY Typed DEF RegistryInv, ReadStale, EntryRecord, services
<1>1. PICK previous \in {cache[k].snapshot, NoSnapshot} :
        flight' = [flight EXCEPT ![k].pc = "fetching", ![k].previous = previous,
                                 ![k].awaiting = Endpoint]
  BY DEF ReadStale
<1>2. previous \in Snapshot /\ IsCoherent(previous)
  BY <1>0, EmptyIs DEF EntryIs
<1> DEFINE r == [flight[k] EXCEPT !.pc = "fetching", !.previous = previous, !.awaiting = Endpoint]
<1>3. /\ r \in FlightRecord /\ r.pc = "fetching" /\ r.previous = previous /\ r.awaiting = Endpoint
      /\ r.since = flight[k].since /\ r.found = flight[k].found
  BY <1>0, <1>2 DEF FlightRecord
<1>4. flight' = [flight EXCEPT ![k] = r]
  BY <1>0, <1>1 DEF FlightRecord
<1> HIDE DEF r
<1>5. flight'[k] = r
  BY <1>0, <1>4
<1>6. FlightIs(k)'
  BY <1>0, <1>2, <1>3, <1>5 DEF FlightIs, IsInTime, IsOf
<1>7. lastFailed' \in [Endpoint -> Int]
  BY <1>0, Typed DEF RegistryInv
<1> QED
  BY <1>0, <1>3, <1>4, <1>6, <1>7, FailuresStay, FlightMoves

\* What is served under e is e's own document, and no older than the HTTP cache
\* in front of it allows.
LEMMA ServedIs ==
  ASSUME RegistryInv, NEW e \in Endpoint, NEW doc \in Served(e)
  PROVE  /\ doc \in Document /\ doc.by = e
         /\ clock <= lastServed[e][doc.release] + Edging(e)
<1>0. /\ ServiceIs(e) /\ clock \in Nat /\ deployed[e] \in Document /\ edge[e].doc \in Document
      /\ edge[e].at \in Int /\ lastServed[e] \in [1..Releases -> Int] /\ Edging(e) \in Nat
  BY Typed, EdgingIsTime DEF RegistryInv, EdgeRecord, Instants
<1>1. CASE doc = deployed[e]
  BY <1>0, <1>1 DEF ServiceIs
<1>2. CASE doc = edge[e].doc /\ clock - edge[e].at < MaxAge + SWR
  <2>1. e \in Edged
    BY <1>0, <1>2, Numbers DEF ServiceIs
  <2>2. edge[e].at <= lastServed[e][doc.release] /\ lastServed[e][doc.release] \in Int
    BY <1>0, <1>2 DEF ServiceIs, Document
  <2>3. Edging(e) = MaxAge + SWR
    BY <2>1 DEF Edging
  <2> QED
    BY <1>0, <1>2, <2>2, <2>3, Numbers DEF ServiceIs
<1> QED
  BY <1>1, <1>2 DEF Served

\* What a fetch of e ends with is one document at most, e's own; one that was
\* kept is the release that was served now.
LEMMA DocumentsAre ==
  ASSUME RegistryInv, NEW k \in Key, NEW e \in Endpoint, NEW doc \in Served(e),
         NEW d \in Documents(e, doc, flight[k].previous)
  PROVE  /\ d \in Document /\ d.by = e /\ d.id = e
         /\ d = [by |-> e, id |-> e, release |-> doc.release]
         /\ clock <= lastServed[e][d.release] + Edging(e)
<1>0. /\ doc \in Document /\ doc.by = e /\ clock <= lastServed[e][doc.release] + Edging(e)
      /\ flight[k].previous \in Snapshot /\ IsCoherent(flight[k].previous)
  BY ServedIs, Typed DEF RegistryInv, FlightIs, FlightRecord
<1>1. d \in Document /\ d.by = e /\ d.id = e /\ d.release = doc.release
  <2>1. CASE flight[k].previous.etags[e] = doc.release
    <3>1. d \in flight[k].previous.services /\ d.id = e
      BY <2>1 DEF Documents
    <3>2. d \in Document /\ d.by = e /\ flight[k].previous.etags[e] \in {0, d.release}
      BY <1>0, <3>1 DEF Snapshot, IsCoherent
    <3>3. doc.release \in 1..Releases
      BY <1>0 DEF Document
    <3>4. doc.release # 0
      BY <3>3, Numbers
    <3> QED
      BY <2>1, <3>1, <3>2, <3>4
  <2>2. CASE flight[k].previous.etags[e] # doc.release
    BY <1>0, <2>2 DEF Documents
  <2> QED
    BY <2>1, <2>2
<1>2. d = [by |-> e, id |-> e, release |-> doc.release]
  BY <1>1 DEF Document
<1> QED
  BY <1>0, <1>1, <1>2

\* A fetch of e ended: with its document, or with none and as a failure.
LEMMA CollectKeeps ==
  ASSUME RegistryInv, UNCHANGED <<services, cache, lookup, catalogs>>,
         NEW k \in Key, NEW e \in Endpoint,
         flight[k].pc = "fetching", e \in flight[k].awaiting,
         NEW docs \in SUBSET Document,
         \A d \in docs : d.by = e /\ d.id = e /\ clock <= lastServed[e][d.release] + Edging(e),
         \A d, f \in docs : d = f,
         Collect(k, e, docs), Missed(e, docs)
  PROVE  RegistryInv'
<1>0. /\ flight \in [Key -> FlightRecord] /\ flight[k] \in FlightRecord
      /\ UNCHANGED <<clock, lastServed>> /\ clock \in Nat
      /\ lastServed \in Instants /\ lastFailed \in [Endpoint -> Int]
      /\ FlightIs(k)
  BY Typed DEF RegistryInv, services
<1> DEFINE was == flight[k].found
<1> DEFINE tags == {d.release : d \in IF e \in Tagged THEN docs ELSE {}}
<1> DEFINE tag == IF tags = {} THEN 0 ELSE CHOOSE n \in tags : TRUE
<1>1. was \in Snapshot /\ flight[k].since \in Int
  BY <1>0 DEF FlightRecord
<1>2. tag \in 0..Releases /\ \A d \in docs : tag \in {0, d.release}
  <2>1. CASE tags = {}
    BY <2>1, Numbers
  <2>2. CASE tags # {}
    <3>1. tag \in tags
      BY <2>2
    <3>2. PICK d \in docs : tag = d.release
      BY <3>1
    <3>3. d.release \in 1..Releases
      BY DEF Document
    <3>4. tag \in 0..Releases
      BY <3>2, <3>3, Numbers
    <3> QED
      BY <3>2, <3>4
  <2> QED
    BY <2>1, <2>2
<1> DEFINE etags == [was.etags EXCEPT ![e] = tag]
<1> DEFINE found == [services |-> was.services \union docs, etags |-> etags]
<1> DEFINE r == [flight[k] EXCEPT !.awaiting = flight[k].awaiting \ {e}, !.found = found]
<1>3. flight' = [flight EXCEPT ![k].awaiting = flight[k].awaiting \ {e},
                               ![k].found.services = was.services \union docs,
                               ![k].found.etags[e] = tag]
  BY <1>0, <1>1 DEF Collect, FlightRecord, Snapshot
<1> HIDE DEF tag, tags
<1>4. found \in Snapshot
  BY <1>1, <1>2 DEF Snapshot
<1>5. /\ r \in FlightRecord /\ r.pc = "fetching" /\ r.since = flight[k].since
      /\ r.previous = flight[k].previous /\ r.awaiting = flight[k].awaiting \ {e} /\ r.found = found
  BY <1>0, <1>4 DEF FlightRecord
<1>6. flight' = [flight EXCEPT ![k] = r]
  <2> DEFINE one == [flight EXCEPT ![k] = [flight[k] EXCEPT !.awaiting = flight[k].awaiting \ {e}]]
  <2> DEFINE two == [one EXCEPT ![k] = [one[k] EXCEPT !.found =
                      [one[k].found EXCEPT !.services = was.services \union docs]]]
  <2>1. flight' = [two EXCEPT ![k] = [two[k] EXCEPT !.found =
                    [two[k].found EXCEPT !.etags = [two[k].found.etags EXCEPT ![e] = tag]]]]
    BY <1>3
  <2>2. /\ one[k] = [flight[k] EXCEPT !.awaiting = flight[k].awaiting \ {e}]
        /\ \A x : [one EXCEPT ![k] = x] = [flight EXCEPT ![k] = x]
    BY <1>0
  <2>3. one[k].found = was
    BY <1>0, <2>2 DEF FlightRecord
  <2> HIDE DEF one
  <2>4. two = [flight EXCEPT ![k] = [one[k] EXCEPT !.found =
                [was EXCEPT !.services = was.services \union docs]]]
    BY <2>2, <2>3
  <2>5. /\ two[k] = [one[k] EXCEPT !.found = [was EXCEPT !.services = was.services \union docs]]
        /\ \A x : [two EXCEPT ![k] = x] = [flight EXCEPT ![k] = x]
    BY <1>0, <2>4
  <2> HIDE DEF two
  <2>6. two[k].found = [was EXCEPT !.services = was.services \union docs]
    BY <1>0, <2>2, <2>5 DEF FlightRecord
  <2>7. two[k].found.etags = was.etags
    BY <1>1, <2>6 DEF Snapshot
  <2>8. [two[k].found EXCEPT !.etags = etags] = found
    <3>1. was = [services |-> was.services, etags |-> was.etags]
      BY <1>1 DEF Snapshot
    <3>2. two[k].found = [services |-> was.services \union docs, etags |-> was.etags]
      BY <2>6, <3>1
    <3>3. \A s, t, u : [[services |-> s, etags |-> t] EXCEPT !.etags = u] = [services |-> s, etags |-> u]
      OBVIOUS
    <3> HIDE DEF etags
    <3> DEFINE all == was.services \union docs
    <3>4. [[services |-> all, etags |-> was.etags] EXCEPT !.etags = etags] = [services |-> all, etags |-> etags]
      <4> HIDE DEF all, was
      <4> QED
        BY ONLY <3>3
    <3>5. two[k].found = [services |-> all, etags |-> was.etags]
      BY ONLY <3>2
    <3> QED
      BY ONLY <3>4, <3>5
  <2> HIDE DEF found
  <2>9. [two[k] EXCEPT !.found = found] = r
    BY <1>0, <2>2, <2>5 DEF FlightRecord
  <2> HIDE DEF r
  <2> QED
    BY <2>1, <2>5, <2>7, <2>8, <2>9
<1>7. flight'[k] = r
  BY <1>0, <1>6
<1>8. /\ lastFailed' \in [Endpoint -> Int]
      /\ docs = {} => lastFailed'[e] = clock
      /\ \A f \in Endpoint : /\ lastFailed[f] \in Int /\ lastFailed'[f] \in Int
                             /\ lastFailed[f] <= lastFailed'[f] /\ lastFailed'[f] <= clock
  <2>1. \A f \in Endpoint : lastFailed[f] \in Int /\ lastFailed[f] <= clock
    BY <1>0 DEF RegistryInv, ServiceIs
  <2>2. CASE docs = {}
    BY <1>0, <2>1, <2>2 DEF Missed
  <2>3. CASE docs # {}
    BY <1>0, <2>1, <2>3 DEF Missed
  <2> QED
    BY <2>2, <2>3
<1>9. FlightIs(k)'
  <2>0. found.services = was.services \union docs /\ found.etags = etags
    OBVIOUS
  <2> HIDE DEF found
  <2> HIDE DEF r
  <2>1. ASSUME NEW d \in was.services PROVE d.by # e /\ d.id = d.by /\ was.etags[d.by] \in {0, d.release}
    BY <1>0, <2>1 DEF FlightIs, IsCoherent
  <2>2. IsCoherent(found)
    <3>1. ASSUME NEW d \in found.services PROVE d.id = d.by /\ found.etags[d.id] \in {0, d.release}
      <4>1. CASE d \in docs
        <5>1. d.id = e /\ d.by = e /\ tag \in {0, d.release}
          BY <1>2, <4>1
        <5>2. etags[e] = tag
          BY <1>1 DEF Snapshot
        <5> QED
          BY <2>0, <5>1, <5>2
      <4>2. CASE d \in was.services
        <5>1. d.by \in Endpoint
          BY <1>1, <4>2 DEF Snapshot, Document
        <5>2. etags[d.by] = was.etags[d.by]
          BY <1>1, <2>1, <4>2, <5>1 DEF Snapshot
        <5> QED
          BY <2>0, <2>1, <4>2, <5>2
      <4> QED
        BY <2>0, <4>1, <4>2
    <3> QED
      BY <3>1 DEF IsCoherent
  <2> HIDE DEF etags
  <2>3. OneEach(found)
    <3>1. OneEach(was)
      BY <1>0 DEF FlightIs
    <3> QED
      BY <2>0, <2>1, <3>1 DEF OneEach
  <2>4. \A d \in found.services : d.by \notin r.awaiting
    BY <1>0, <1>5, <2>0 DEF FlightIs
  <2>5. IsInTime(flight[k].since)
    BY <1>0 DEF FlightIs
  <2>6. IsOf(found, flight[k].since, lastServed)
    <3>1. ASSUME NEW d \in docs
          PROVE  flight[k].since <= lastServed[d.by][d.release] + Edging(d.by)
      <4>1. d.by = e /\ clock <= lastServed[e][d.release] + Edging(e) /\ d.release \in 1..Releases
        BY DEF Document
      <4>2. lastServed[e][d.release] \in Int /\ Edging(e) \in Nat
        BY <1>0, <4>1, EdgingIsTime DEF Instants
      <4> QED
        BY <1>0, <1>1, <2>5, <4>1, <4>2 DEF IsInTime
    <3>2. IsOf(was, flight[k].since, lastServed)
      BY <1>0 DEF FlightIs
    <3> QED
      BY <2>0, <3>1, <3>2 DEF IsOf
  <2>7. ASSUME NEW f \in Endpoint \ r.awaiting
        PROVE  Lists(found, f) \/ flight[k].since <= lastFailed'[f]
    <3>1. CASE f = e /\ docs = {}
      BY <1>0, <1>1, <1>8, <2>5, <3>1 DEF IsInTime
    <3>2. CASE f = e /\ docs # {}
      BY <2>0, <3>2 DEF Lists
    <3>3. CASE f # e
      <4>1. Lists(was, f) \/ flight[k].since <= lastFailed[f]
        BY <1>0, <1>5, <2>7, <3>3 DEF FlightIs
      <4>2. Lists(was, f) => Lists(found, f)
        BY <2>0 DEF Lists
      <4> QED
        BY <1>1, <1>8, <4>1, <4>2
    <3> QED
      BY <3>1, <3>2, <3>3
  <2> HIDE DEF was
  <2> QED
    BY <1>0, <1>5, <1>7, <2>2, <2>3, <2>4, <2>5, <2>6, <2>7 DEF FlightIs, IsInTime
<1> QED
  BY <1>0, <1>5, <1>6, <1>8, <1>9, FlightMoves
LEMMA FetchAnsweredKeeps ==
  ASSUME RegistryInv, NEW k \in Key, NEW e \in Endpoint, FetchAnswered(k, e)
  PROVE  RegistryInv'
<1>1. PICK doc \in Served(e) : LET docs == Documents(e, doc, flight[k].previous)
                               IN Collect(k, e, docs) /\ Missed(e, docs)
  BY DEF FetchAnswered
<1> DEFINE docs == Documents(e, doc, flight[k].previous)
<1>2. /\ docs \in SUBSET Document
      /\ \A d \in docs : d.by = e /\ d.id = e /\ clock <= lastServed[e][d.release] + Edging(e)
      /\ \A d \in docs : d = [by |-> e, id |-> e, release |-> doc.release]
  BY DocumentsAre
<1>3. Collect(k, e, docs) /\ Missed(e, docs)
  BY <1>1
<1> HIDE DEF docs
<1>4. \A d, f \in docs : d = f
  BY <1>2
<1> QED
  BY <1>2, <1>3, <1>4, CollectKeeps DEF FetchAnswered

LEMMA FetchFailsKeeps ==
  ASSUME RegistryInv, NEW k \in Key, NEW e \in Endpoint, FetchFails(k, e)
  PROVE  RegistryInv'
BY CollectKeeps DEF FetchFails

\* Who waited for a fan-out that is over resumes with what it found.
LEMMA SettleKeeps ==
  ASSUME RegistryInv, NEW k \in Key, Settle(k)
  PROVE  RegistryInv'
<1>0. /\ flight \in [Key -> FlightRecord] /\ flight[k] \in FlightRecord
      /\ lookup \in [Request -> LookupRecord]
      /\ flight[k].pc = "fetching" /\ flight[k].awaiting = {}
      /\ UNCHANGED <<services, cache, catalogs, lastFailed>> /\ UNCHANGED <<clock, lastServed>>
      /\ clock \in Nat /\ lastFailed \in [Endpoint -> Int] /\ lastServed \in Instants /\ FlightIs(k)
  BY Typed DEF RegistryInv, Settle, services
<1>1. flight[k].found \in Snapshot /\ flight[k].since \in Int
  BY <1>0 DEF FlightRecord
<1> DEFINE r == [pc |-> "writing", since |-> clock, snapshot |-> flight[k].found]
<1>2. /\ r \in LookupRecord /\ r.pc = "writing" /\ r.since = clock /\ r.snapshot = flight[k].found
  BY <1>0, <1>1 DEF LookupRecord
<1>3. /\ lookup' = [q \in Request |-> IF q \in Waiters(k) THEN r ELSE lookup[q]]
      /\ flight' = [flight EXCEPT ![k] = NoFlight]
  BY DEF Settle
<1> HIDE DEF r
<1>4. TypeOK'
  <2>1. lookup' \in [Request -> LookupRecord] /\ flight' \in [Key -> FlightRecord]
    BY <1>0, <1>2, <1>3, EmptyIs
  <2> QED
    BY <1>0, <2>1, Typed, TypedAgain DEF RegistryInv, services
<1>5. ASSUME NEW j \in Key PROVE flight'[j] = flight[j] \/ FlightIs(j)'
  <2>1. CASE j = k
    <3>1. flight'[j] = NoFlight
      BY <1>0, <1>3, <2>1
    <3> QED
      BY <3>1, EmptyIs DEF FlightIs, IsOf, NoFlight
  <2>2. CASE j # k
    BY <1>0, <1>3, <2>2
  <2> QED
    BY <2>1, <2>2
<1>6. ASSUME NEW q \in Request
      PROVE  (lookup'[q] = lookup[q] /\ catalogs'[q] = catalogs[q]) \/ LookupIs(q)'
  <2>1. SUFFICES ASSUME q \in Waiters(k) PROVE LookupIs(q)'
    BY <1>0, <1>3
  <2>2. lookup'[q] = r
    BY <1>3, <2>1
  <2>3. Len(catalogs'[q]) < Len(Lookups[q])
    BY <1>0, <2>1 DEF Waiters, RegistryInv, LookupIs
  <2>4. /\ IsInTime(flight[k].since) /\ IsCoherent(flight[k].found) /\ OneEach(flight[k].found)
        /\ IsOf(flight[k].found, flight[k].since, lastServed)
    BY <1>0 DEF FlightIs
  <2>5. IsOf(flight[k].found, clock - Latency, lastServed)
    <3>1. ASSUME NEW e \in Endpoint, NEW n \in 1..Releases
          PROVE  lastServed[e][n] <= lastServed[e][n]
      <4>1. lastServed[e][n] \in Int
        BY <1>0 DEF Instants
      <4> QED
        BY <4>1
    <3>2. clock - Latency \in Int /\ clock - Latency <= flight[k].since
      BY <1>0, <1>1, <2>4, Numbers DEF IsInTime
    <3> QED
      BY <1>0, <1>1, <2>4, <3>1, <3>2, IsOfEarlier
  <2>6. ASSUME NEW e \in Endpoint
        PROVE  Lists(flight[k].found, e) \/ clock <= lastFailed[e] + Latency
    <3>1. Lists(flight[k].found, e) \/ flight[k].since <= lastFailed[e]
      BY <1>0 DEF FlightIs
    <3>2. lastFailed[e] \in Int
      BY <1>0
    <3> QED
      BY <1>0, <1>1, <2>4, <3>1, <3>2, Numbers DEF IsInTime
  <2>7. IsInTime(clock)
    BY <1>0, Numbers DEF IsInTime
  <2> QED
    BY <1>0, <1>2, <2>2, <2>3, <2>4, <2>5, <2>6, <2>7 DEF LookupIs, IsInTime
<1> QED
  BY <1>0, <1>4, <1>5, <1>6, FailuresStay, PlaneMoves

LEMMA StaleReadThrowsKeeps ==
  ASSUME RegistryInv, NEW k \in Key, StaleReadThrows(k)
  PROVE  RegistryInv'
<1>0. /\ flight \in [Key -> FlightRecord] /\ lookup \in [Request -> LookupRecord]
      /\ catalogs \in [Request -> Seq(SUBSET Document)]
      /\ UNCHANGED <<services, cache, lastFailed>>
      /\ lookup' = [q \in Request |-> IF q \in Waiters(k) THEN NoLookup ELSE lookup[q]]
      /\ catalogs' = [q \in Request |-> IF q \in Waiters(k) THEN <<>> ELSE catalogs[q]]
      /\ flight' = [flight EXCEPT ![k] = NoFlight]
  BY Typed DEF RegistryInv, StaleReadThrows
<1>1. TypeOK'
  <2>1. lookup' \in [Request -> LookupRecord] /\ flight' \in [Key -> FlightRecord]
    BY <1>0, EmptyIs
  <2>2. catalogs' \in [Request -> Seq(SUBSET Document)]
    BY <1>0
  <2> QED
    BY <1>0, <2>1, <2>2, Typed, TypedAgain DEF RegistryInv, services
<1>2. ASSUME NEW j \in Key PROVE flight'[j] = flight[j] \/ FlightIs(j)'
  <2>1. flight'[j] = NoFlight \/ flight'[j] = flight[j]
    BY <1>0
  <2> QED
    BY <2>1, EmptyIs DEF FlightIs, IsOf, NoFlight
<1>3. ASSUME NEW q \in Request
      PROVE  (lookup'[q] = lookup[q] /\ catalogs'[q] = catalogs[q]) \/ LookupIs(q)'
  <2>1. lookup'[q] = NoLookup \/ (lookup'[q] = lookup[q] /\ catalogs'[q] = catalogs[q])
    BY <1>0
  <2> QED
    BY <2>1, EmptyIs DEF LookupIs, NoLookup
<1> QED
  BY <1>0, <1>1, <1>2, <1>3, FailuresStay, PlaneMoves

LEMMA DiscoveringKeeps ==
  ASSUME RegistryInv, NEW k \in Key, Discovering(k)
  PROVE  RegistryInv'
BY ReadStaleKeeps, StaleReadThrowsKeeps, SettleKeeps, FetchAnsweredKeeps, FetchFailsKeeps
DEF Discovering

-----------------------------------------------------------------------------
(* Lookups. *)

\* A step of the lookup q, which may write the cache or start a fan-out.
LEMMA LookupMoves ==
  ASSUME RegistryInv, UNCHANGED <<services, lastFailed>>,
         NEW q \in Request, NEW r \in LookupRecord, lookup' = [lookup EXCEPT ![q] = r],
         catalogs' \in [Request -> Seq(SUBSET Document)],
         \A p \in Request \ {q} : catalogs'[p] = catalogs[p],
         cache' \in [Key -> EntryRecord], \A k \in Key : cache'[k] = cache[k] \/ EntryIs(k)',
         flight' \in [Key -> FlightRecord], \A k \in Key : flight'[k] = flight[k] \/ FlightIs(k)',
         LookupIs(q)'
  PROVE  RegistryInv'
<1>1. lookup \in [Request -> LookupRecord]
  BY Typed DEF RegistryInv
<1>2. lookup' \in [Request -> LookupRecord] /\ \A p \in Request \ {q} : lookup'[p] = lookup[p]
  BY <1>1
<1>3. TypeOK'
  BY <1>2, Typed, TypedAgain DEF RegistryInv, services
<1> QED
  BY <1>2, <1>3, FailuresStay, PlaneMoves

LEMMA NoLookupIs ==
  ASSUME NEW q \in Request, lookup'[q] = NoLookup
  PROVE  LookupIs(q)'
BY EmptyIs DEF LookupIs, NoLookup

\* A cache entry that is live when it is asked for may be answered.
LEMMA AskCacheKeeps ==
  ASSUME RegistryInv, NEW q \in Request, AskCache(q)
  PROVE  RegistryInv'
<1> DEFINE k == Lookups[q][Len(catalogs[q]) + 1]
<1> DEFINE snapshot == IF Live(cache[k]) THEN cache[k].snapshot ELSE NoSnapshot
<1> DEFINE r == [pc |-> "asked", since |-> clock, snapshot |-> snapshot]
<1>0. /\ UNCHANGED <<services, cache, flight, catalogs, lastFailed>> /\ UNCHANGED <<clock, lastServed>>
      /\ lookup \in [Request -> LookupRecord] /\ catalogs \in [Request -> Seq(SUBSET Document)]
      /\ clock \in Nat /\ lastServed \in Instants /\ Len(catalogs[q]) < Len(Lookups[q])
      /\ cache \in [Key -> EntryRecord] /\ flight \in [Key -> FlightRecord]
  BY Typed DEF RegistryInv, AskCache, services
<1>1. k \in Key
  <2>1. Lookups[q] \in Seq(Key) /\ catalogs[q] \in Seq(SUBSET Document)
    BY <1>0, RegistryAssumption
  <2>2. Len(catalogs[q]) \in Nat /\ Len(Lookups[q]) \in Nat
    BY <2>1
  <2>3. Len(catalogs[q]) + 1 \in 1..Len(Lookups[q])
    BY <1>0, <2>2
  <2> QED
    BY <2>1, <2>3
<1>2. lookup' = [lookup EXCEPT ![q] = r]
  BY DEF AskCache
<1> HIDE DEF k
<1>3. EntryIs(k) /\ cache[k].snapshot \in Snapshot /\ cache[k].expiresAt \in Int
  BY <1>1, Typed DEF RegistryInv, EntryRecord
<1>4. /\ snapshot \in Snapshot /\ IsCoherent(snapshot) /\ OneEach(snapshot)
      /\ Used(snapshot) => Live(cache[k]) /\ snapshot = cache[k].snapshot
  BY <1>3, EmptyIs DEF EntryIs, Used
<1> HIDE DEF snapshot
<1>5. r \in LookupRecord /\ r.pc = "asked" /\ r.since = clock /\ r.snapshot = snapshot
  BY <1>0, <1>4 DEF LookupRecord
<1> HIDE DEF r
<1>6. lookup'[q] = r
  BY <1>0, <1>2
<1>7. ASSUME Used(snapshot)
      PROVE  /\ \A e \in Endpoint : Lists(snapshot, e)
             /\ IsOf(snapshot, clock + 1 - CacheTTL - 2 * Latency, lastServed)
  <2>1. /\ \A e \in Endpoint : Lists(snapshot, e)
        /\ IsOf(snapshot, cache[k].expiresAt - CacheTTL - 2 * Latency, lastServed)
        /\ cache[k].expiresAt > clock
    BY <1>3, <1>4, <1>7 DEF EntryIs, Live
  <2> DEFINE t == cache[k].expiresAt - CacheTTL - 2 * Latency
  <2> DEFINE u == clock + 1 - CacheTTL - 2 * Latency
  <2>2. t \in Int /\ u \in Int /\ u <= t
    BY <1>0, <1>3, <2>1, Numbers
  <2>3. ASSUME NEW e \in Endpoint, NEW n \in 1..Releases
        PROVE  lastServed[e][n] <= lastServed[e][n]
    <3>1. lastServed[e][n] \in Int
      BY <1>0 DEF Instants
    <3> QED
      BY <3>1
  <2>4. IsOf(snapshot, t, lastServed)
    BY <2>1
  <2> HIDE DEF t, u
  <2>5. IsOf(snapshot, u, lastServed)
    BY <1>0, <1>4, <2>2, <2>3, <2>4, IsOfEarlier
  <2> QED
    BY <2>1, <2>5 DEF u
<1>8. IsInTime(clock)
  BY <1>0, Numbers DEF IsInTime
<1>9. LookupIs(q)'
  BY <1>0, <1>4, <1>5, <1>6, <1>7, <1>8 DEF LookupIs, IsInTime
<1> QED
  BY <1>0, <1>2, <1>5, <1>9, LookupMoves

\* A miss joins the fan-out of its key or begins it.
LEMMA MissKeeps ==
  ASSUME RegistryInv, NEW q \in Request, Miss(q)
  PROVE  RegistryInv'
<1> DEFINE k == KeyOf(q)
<1> DEFINE r == [lookup[q] EXCEPT !.pc = "waiting", !.since = clock]
<1> DEFINE begun == [NoFlight EXCEPT !.pc = "reading", !.since = clock]
<1>0. /\ UNCHANGED <<services, cache, catalogs, lastFailed>> /\ UNCHANGED <<clock, lastServed>>
      /\ lookup \in [Request -> LookupRecord] /\ catalogs \in [Request -> Seq(SUBSET Document)]
      /\ clock \in Nat /\ cache \in [Key -> EntryRecord] /\ flight \in [Key -> FlightRecord]
      /\ lookup[q].pc = "asked" /\ LookupIs(q) /\ lookup[q] \in LookupRecord /\ clock \in Int
  BY Typed DEF RegistryInv, Miss, services
<1>1. /\ r \in LookupRecord /\ r.pc = "waiting" /\ r.since = clock /\ r.snapshot = lookup[q].snapshot
  BY <1>0 DEF LookupRecord
<1>2. lookup' = [lookup EXCEPT ![q] = r]
  BY <1>0 DEF Miss, LookupRecord
<1> HIDE DEF r
<1>3. lookup'[q] = r
  BY <1>0, <1>2
<1>4. IsInTime(clock)
  BY <1>0, Numbers DEF IsInTime
<1>5. LookupIs(q)'
  BY <1>0, <1>1, <1>3, <1>4 DEF LookupIs, IsInTime
<1>6. /\ begun \in FlightRecord /\ begun.pc = "reading" /\ begun.since = clock
      /\ begun.previous = NoSnapshot /\ begun.found = NoSnapshot
  <2>1. /\ NoFlight \in FlightRecord
        /\ NoFlight.previous = NoSnapshot /\ NoFlight.found = NoSnapshot
    BY EmptyIs DEF NoFlight
  <2> QED
    BY <1>0, <2>1 DEF FlightRecord
<1>7. flight' = flight \/ flight' = [flight EXCEPT ![k] = begun]
  BY DEF Miss
<1> HIDE DEF begun, k
<1>8. flight' \in [Key -> FlightRecord] /\ \A j \in Key : flight'[j] = flight[j] \/ flight'[j] = begun
  BY <1>0, <1>6, <1>7
<1>9. ASSUME NEW j \in Key PROVE flight'[j] = flight[j] \/ FlightIs(j)'
  <2>1. SUFFICES ASSUME flight'[j] = begun PROVE FlightIs(j)'
    BY <1>8
  <2> QED
    BY <1>0, <1>4, <1>6, <2>1, EmptyIs DEF FlightIs, IsInTime, IsOf
<1> QED
  BY <1>0, <1>1, <1>2, <1>5, <1>8, <1>9, LookupMoves

LEMMA AppendTyped ==
  ASSUME NEW S, NEW s \in Seq(S), NEW x \in S
  PROVE  Append(s, x) \in Seq(S)
OBVIOUS

\* A lookup is over, and answered or not.
LEMMA EndsKeeps ==
  ASSUME RegistryInv, UNCHANGED <<services, flight, lastFailed>>, NEW q \in Request,
         lookup' = [lookup EXCEPT ![q] = NoLookup],
         catalogs' = [catalogs EXCEPT ![q] = <<>>]
           \/ catalogs' = [catalogs EXCEPT ![q] = Append(@, lookup[q].snapshot.services)],
         cache' \in [Key -> EntryRecord], \A k \in Key : cache'[k] = cache[k] \/ EntryIs(k)'
  PROVE  RegistryInv'
<1>0. /\ lookup \in [Request -> LookupRecord] /\ catalogs \in [Request -> Seq(SUBSET Document)]
      /\ flight \in [Key -> FlightRecord]
  BY Typed DEF RegistryInv
<1>1. lookup'[q] = NoLookup
  BY <1>0
<1>2. lookup[q].snapshot.services \in SUBSET Document /\ catalogs[q] \in Seq(SUBSET Document)
  BY <1>0 DEF LookupRecord, Snapshot
<1>3. Append(catalogs[q], lookup[q].snapshot.services) \in Seq(SUBSET Document)
  <2> DEFINE Answers == SUBSET Document
  <2>1. lookup[q].snapshot.services \in Answers /\ catalogs[q] \in Seq(Answers)
    BY <1>2
  <2> HIDE DEF Answers
  <2>2. Append(catalogs[q], lookup[q].snapshot.services) \in Seq(Answers)
    BY <2>1, AppendTyped
  <2> QED
    BY <2>2 DEF Answers
<1>4. catalogs' \in [Request -> Seq(SUBSET Document)] /\ \A p \in Request \ {q} : catalogs'[p] = catalogs[p]
  <2> DEFINE all == Seq(SUBSET Document)
  <2>1. PICK answers \in all : catalogs' = [catalogs EXCEPT ![q] = answers]
    <3>1. <<>> \in all
      OBVIOUS
    <3> QED
      BY <1>3, <3>1
  <2> HIDE DEF all
  <2>2. catalogs \in [Request -> all]
    BY <1>0 DEF all
  <2>3. catalogs' \in [Request -> all] /\ \A p \in Request \ {q} : catalogs'[p] = catalogs[p]
    BY <2>1, <2>2, ExceptTyped
  <2> QED
    BY <2>3 DEF all
<1> QED
  BY <1>0, <1>1, <1>4, EmptyIs, NoLookupIs, LookupMoves

LEMMA HitKeeps ==
  ASSUME RegistryInv, NEW q \in Request, Hit(q) \/ CacheThrows(q) \/ AnswerPartial(q) \/ NextRequest(q)
  PROVE  RegistryInv'
<1>1. UNCHANGED <<services, cache, flight, lastFailed>> /\ cache \in [Key -> EntryRecord]
  BY Typed DEF RegistryInv, Hit, CacheThrows, AnswerPartial, NextRequest
<1> QED
  BY <1>1, EndsKeeps DEF Hit, CacheThrows, AnswerPartial, NextRequest, Answer, Finish

\* What is written is complete, and dated by the fan-out it came from.
LEMMA WriteKeeps ==
  ASSUME RegistryInv, NEW q \in Request, WriteAndAnswer(q) \/ WriteThrows(q)
  PROVE  RegistryInv'
<1>0. /\ UNCHANGED <<services, flight, lastFailed>> /\ UNCHANGED <<clock, lastServed>>
      /\ lookup[q] \in LookupRecord /\ cache \in [Key -> EntryRecord]
      /\ clock \in Nat /\ lastServed \in Instants /\ LookupIs(q)
      /\ lookup[q].pc = "writing" /\ Complete(lookup[q].snapshot)
  BY Typed DEF RegistryInv, WriteAndAnswer, WriteThrows, services
<1> DEFINE s == lookup[q].snapshot
<1> DEFINE entry == [snapshot |-> s, expiresAt |-> clock + CacheTTL]
<1>1. s \in Snapshot /\ lookup[q].since \in Int
  BY <1>0 DEF LookupRecord
<1>2. \A e \in Endpoint : Lists(s, e)
  BY <1>0, <1>1, CompleteListsAll DEF LookupIs
<1>3. IsOf(s, clock - 2 * Latency, lastServed)
  <2>1. IsOf(s, lookup[q].since - Latency, lastServed) /\ IsInTime(lookup[q].since)
    BY <1>0 DEF LookupIs
  <2>2. /\ lookup[q].since - Latency \in Int /\ clock - 2 * Latency \in Int
        /\ clock - 2 * Latency <= lookup[q].since - Latency
    BY <1>0, <1>1, <2>1, Numbers DEF IsInTime
  <2>3. ASSUME NEW e \in Endpoint, NEW n \in 1..Releases
        PROVE  lastServed[e][n] <= lastServed[e][n]
    <3>1. lastServed[e][n] \in Int
      BY <1>0 DEF Instants
    <3> QED
      BY <3>1
  <2> QED
    BY <1>0, <1>1, <2>1, <2>2, <2>3, IsOfEarlier
<1>4. /\ entry \in EntryRecord /\ entry.snapshot = s
      /\ entry.expiresAt - CacheTTL - 2 * Latency = clock - 2 * Latency
  BY <1>0, <1>1, Numbers DEF EntryRecord
<1>5. cache' = cache \/ cache' = [cache EXCEPT ![KeyOf(q)] = entry]
  BY DEF WriteAndAnswer, WriteThrows, Write
<1> HIDE DEF entry
<1>6. cache' \in [Key -> EntryRecord] /\ \A k \in Key : cache'[k] = cache[k] \/ cache'[k] = entry
  BY <1>0, <1>4, <1>5
<1>7. ASSUME NEW k \in Key PROVE cache'[k] = cache[k] \/ EntryIs(k)'
  <2>1. SUFFICES ASSUME cache'[k] = entry PROVE EntryIs(k)'
    BY <1>6
  <2>2. IsCoherent(s) /\ OneEach(s)
    BY <1>0 DEF LookupIs
  <2> HIDE DEF s
  <2> QED
    BY <1>0, <1>2, <1>3, <1>4, <2>1, <2>2 DEF EntryIs
<1> QED
  BY <1>0, <1>6, <1>7, EndsKeeps DEF WriteAndAnswer, WriteThrows, Answer, Finish

LEMMA LookingKeeps ==
  ASSUME RegistryInv, NEW q \in Request, Looking(q) \/ NextRequest(q)
  PROVE  RegistryInv'
BY AskCacheKeeps, HitKeeps, MissKeeps, WriteKeeps DEF Looking

-----------------------------------------------------------------------------
(* The invariant, and what it is for. *)

LEMMA NextKeeps ==
  ASSUME RegistryInv, [Next]_vars
  PROVE  RegistryInv'
<1>1. CASE Tick
  BY <1>1, TickKeeps
<1>2. ASSUME NEW e \in Endpoint, EdgeRefresh(e) PROVE RegistryInv'
  BY <1>2, EdgeRefreshKeeps
<1>3. ASSUME NEW e \in Endpoint, NEW id \in Claims[e], Deploy(e, id) PROVE RegistryInv'
  BY <1>3, DeployKeeps
<1>4. ASSUME NEW k \in Key, Discovering(k) PROVE RegistryInv'
  BY <1>4, DiscoveringKeeps
<1>5. ASSUME NEW q \in Request, Looking(q) \/ NextRequest(q) PROVE RegistryInv'
  BY <1>5, LookingKeeps
<1>6. CASE UNCHANGED vars
  <2>1. UNCHANGED <<services, cache, flight, lookup, catalogs, lastFailed>>
    BY <1>6 DEF vars, services
  <2>2. TypeOK'
    BY <2>1, Typed, TypedAgain DEF RegistryInv, services
  <2> QED
    BY <2>1, <2>2, FailuresStay, PlaneMoves
<1> QED
  BY <1>1, <1>2, <1>3, <1>4, <1>5, <1>6 DEF Next

LEMMA RegistryInvariance == Spec => []RegistryInv
<1>1. Init => RegistryInv
  BY InitRegistry
<1>2. RegistryInv /\ [Next]_vars => RegistryInv'
  BY NextKeeps
<1> QED
  BY <1>1, <1>2, PTL DEF Spec

\* Discovery lists under an id the endpoint of that id, whatever ids deployed
\* documents claim, and the ETag it revalidates a document with is that
\* document's: for any set of services, releases, cache keys and requests.
\* Every variable keeps its type.
THEOREM CatalogIsCoherent == Spec => []SnapshotsAreCoherent
<1>1. RegistryInv => SnapshotsAreCoherent
  BY DEF RegistryInv, EntryIs, FlightIs, LookupIs, IsCoherent, SnapshotsAreCoherent
<1> QED
  BY <1>1, RegistryInvariance, PTL

\* A service is missing from an answer only if a fetch of it failed within the
\* two awaits before it, though the failure was in another request's fan-out.
THEOREM GapsDoNotLast == Spec => []GapsAreRecent
<1>1. RegistryInv => GapsAreRecent
  <2> SUFFICES ASSUME RegistryInv, NEW q \in Request, NEW e \in Endpoint,
                      MayAnswer(q, lookup[q].snapshot),
                      ~Lists(lookup[q].snapshot, e)
               PROVE  clock <= lastFailed[e] + 2 * Latency
    BY DEF GapsAreRecent, Lists
  <2>1. LookupIs(q) /\ lookup[q].since \in Int /\ clock \in Nat /\ lastFailed[e] \in Int
    BY Typed DEF RegistryInv, LookupRecord
  <2>2. lookup[q].pc = "writing"
    BY <2>1 DEF MayAnswer, LookupIs
  <2>3. IsInTime(lookup[q].since) /\ lookup[q].since <= lastFailed[e] + Latency
    BY <2>1, <2>2 DEF LookupIs
  <2> QED
    BY <2>1, <2>3, Numbers DEF IsInTime
<1> QED
  BY <1>1, RegistryInvariance, PTL

\* After a deploy the old release is answered for the time the caches and the
\* awaits on its way allow and no longer, if any of them takes time at all.
THEOREM PlaneConverges ==
  ASSUME CacheTTL + Latency > 0
  PROVE  Spec => []CatalogConverges
<1>1. RegistryInv => CatalogConverges
  <2> SUFFICES ASSUME RegistryInv, NEW q \in Request, NEW d \in Document,
                      d \in lookup[q].snapshot.services, MayAnswer(q, lookup[q].snapshot)
               PROVE  clock < lastServed[d.by][d.release] + StaleBound(d.by)
    BY DEF CatalogConverges
  <2>1. /\ LookupIs(q) /\ lookup[q].since \in Int /\ clock \in Nat
        /\ lastServed \in Instants /\ d.by \in Endpoint /\ d.release \in 1..Releases
    BY Typed DEF RegistryInv, LookupRecord, Document
  <2>2. lastServed[d.by][d.release] \in Int /\ Edging(d.by) \in Nat
    BY <2>1, EdgingIsTime DEF Instants
  <2>3. StaleBound(d.by) = CacheTTL + 3 * Latency + Edging(d.by)
    BY DEF StaleBound, Edging
  <2>4. CASE lookup[q].pc = "writing"
    <3>1. /\ IsInTime(lookup[q].since)
          /\ lookup[q].since - Latency <= lastServed[d.by][d.release] + Edging(d.by)
      BY <2>1, <2>4 DEF LookupIs, IsOf
    <3> QED
      BY <2>1, <2>2, <2>3, <3>1, Numbers DEF IsInTime
  <2>5. CASE lookup[q].pc = "asked" /\ Used(lookup[q].snapshot)
    <3>1. /\ IsInTime(lookup[q].since)
          /\ lookup[q].since + 1 - CacheTTL - 2 * Latency
               <= lastServed[d.by][d.release] + Edging(d.by)
      BY <2>1, <2>5 DEF LookupIs, IsOf
    <3> QED
      BY <2>1, <2>2, <2>3, <3>1, Numbers DEF IsInTime
  <2> QED
    BY <2>4, <2>5 DEF MayAnswer
<1> QED
  BY <1>1, RegistryInvariance, PTL

-----------------------------------------------------------------------------
(* Who waits, and for what. *)

LEMMA KeyOfIsKey ==
  ASSUME RegistryInv, NEW q \in Request, lookup[q].pc # "idle"
  PROVE  KeyOf(q) \in Key
<1>1. Lookups[q] \in Seq(Key) /\ catalogs[q] \in Seq(SUBSET Document)
  BY RegistryAssumption, Typed DEF RegistryInv
<1>2. Len(catalogs[q]) < Len(Lookups[q])
  BY DEF RegistryInv, LookupIs
<1>3. Len(catalogs[q]) + 1 \in 1..Len(Lookups[q])
  BY <1>1, <1>2
<1> QED
  BY <1>1, <1>3 DEF KeyOf

\* Who keeps waiting does so for a discovery that goes on.
LEMMA WaitersStay ==
  ASSUME WaitersHaveADiscovery,
         \A q \in Request : lookup'[q].pc = "waiting" =>
           \/ flight'[KeyOf(q)'].pc # "none"
           \/ /\ lookup'[q] = lookup[q] /\ catalogs'[q] = catalogs[q]
              /\ flight'[KeyOf(q)].pc = "none" => flight[KeyOf(q)].pc = "none"
  PROVE  WaitersHaveADiscovery'
BY DEF WaitersHaveADiscovery, KeyOf

LEMMA DiscoveringAttends ==
  ASSUME RegistryInv, WaitersHaveADiscovery, NEW k \in Key, Discovering(k)
  PROVE  WaitersHaveADiscovery'
<1>0. /\ flight \in [Key -> FlightRecord] /\ lookup \in [Request -> LookupRecord]
      /\ \A q \in Request : lookup[q].pc = "waiting" => KeyOf(q) \in Key
  BY Typed, KeyOfIsKey DEF RegistryInv
<1>1. CASE Settle(k) \/ StaleReadThrows(k)
  <2>1. SUFFICES ASSUME NEW q \in Request, lookup'[q].pc = "waiting"
                 PROVE  /\ lookup'[q] = lookup[q] /\ catalogs'[q] = catalogs[q]
                        /\ flight'[KeyOf(q)].pc = "none" => flight[KeyOf(q)].pc = "none"
    BY WaitersStay
  <2>2. q \notin Waiters(k)
    BY <1>0, <1>1, <2>1 DEF Settle, StaleReadThrows, NoLookup
  <2>3. lookup'[q] = lookup[q] /\ catalogs'[q] = catalogs[q]
    <3>1. CASE Settle(k)
      BY <2>2, <3>1 DEF Settle
    <3>2. CASE StaleReadThrows(k)
      BY <2>2, <3>2 DEF StaleReadThrows
    <3> QED
      BY <1>1, <3>1, <3>2
  <2>4. KeyOf(q) # k /\ KeyOf(q) \in Key
    BY <1>0, <2>1, <2>2, <2>3 DEF Waiters
  <2>5. flight'[KeyOf(q)] = flight[KeyOf(q)]
    BY <1>0, <1>1, <2>4 DEF Settle, StaleReadThrows
  <2> QED
    BY <2>3, <2>5
<1>2. CASE ReadStale(k) \/ \E e \in Endpoint : FetchAnswered(k, e) \/ FetchFails(k, e)
  <2>1. UNCHANGED <<lookup, catalogs>>
    BY <1>2 DEF ReadStale, FetchAnswered, FetchFails
  <2>2. \A j \in Key : flight'[j].pc = "none" => flight[j].pc = "none"
    <3>1. CASE ReadStale(k)
      BY <1>0, <3>1 DEF ReadStale, FlightRecord
    <3>2. ASSUME NEW e \in Endpoint, NEW docs, Collect(k, e, docs), flight[k].pc = "fetching"
          PROVE  \A j \in Key : flight'[j].pc = flight[j].pc
      BY <1>0, <3>2 DEF Collect, FlightRecord
    <3> QED
      BY <1>2, <3>1, <3>2 DEF FetchAnswered, FetchFails
  <2> QED
    BY <1>0, <2>1, <2>2, WaitersStay
<1> QED
  BY <1>1, <1>2 DEF Discovering

LEMMA LookingAttends ==
  ASSUME RegistryInv, WaitersHaveADiscovery, NEW p \in Request, Looking(p) \/ NextRequest(p)
  PROVE  WaitersHaveADiscovery'
<1>0. /\ flight \in [Key -> FlightRecord] /\ lookup \in [Request -> LookupRecord]
      /\ catalogs \in [Request -> Seq(SUBSET Document)]
      /\ \A q \in Request : lookup[q].pc # "idle" => KeyOf(q) \in Key
  BY Typed, KeyOfIsKey DEF RegistryInv
<1>1. CASE Miss(p)
  <2>1. KeyOf(p) \in Key /\ catalogs' = catalogs
    BY <1>0, <1>1 DEF Miss
  <2>2. flight'[KeyOf(p)].pc # "none" /\ \A k \in Key \ {KeyOf(p)} : flight'[k] = flight[k]
    BY <1>0, <1>1, <2>1 DEF Miss, NoFlight
  <2>3. \A q \in Request \ {p} : lookup'[q] = lookup[q]
    BY <1>0, <1>1 DEF Miss
  <2>4. KeyOf(p)' = KeyOf(p)
    BY <2>1 DEF KeyOf
  <2>5. ASSUME NEW q \in Request \ {p}, lookup'[q].pc = "waiting"
        PROVE  flight'[KeyOf(q)].pc = "none" => flight[KeyOf(q)].pc = "none"
    BY <1>0, <2>2, <2>3, <2>5
  <2> QED
    BY <2>1, <2>2, <2>3, <2>4, <2>5, WaitersStay
<1>2. CASE ~Miss(p)
  <2>1. flight' = flight
    BY <1>2 DEF Looking, AskCache, Hit, CacheThrows, WriteAndAnswer, WriteThrows, AnswerPartial,
                NextRequest
  <2>2. lookup'[p].pc # "waiting" /\ \A q \in Request \ {p} : lookup'[q] = lookup[q]
    BY <1>0, <1>2 DEF Looking, AskCache, Hit, CacheThrows, WriteAndAnswer, WriteThrows,
                      AnswerPartial, NextRequest, Answer, Finish, NoLookup
  <2>3. \A q \in Request \ {p} : catalogs'[q] = catalogs[q]
    BY <1>0, <1>2 DEF Looking, AskCache, Hit, CacheThrows, WriteAndAnswer, WriteThrows,
                      AnswerPartial, NextRequest, Answer, Finish
  <2> QED
    BY <2>1, <2>2, <2>3, WaitersStay
<1> QED
  BY <1>1, <1>2

\* Whoever joins a discovery joins one that runs, and it is not over for one of
\* those who joined it before it is over for all: for any number of requests, and
\* though the cache may throw between them.
THEOREM NobodyWaitsForNothing == Spec => []WaitersHaveADiscovery
<1>1. Init => WaitersHaveADiscovery
  BY DEF Init, WaitersHaveADiscovery, NoLookup
<1>2. ASSUME RegistryInv, WaitersHaveADiscovery, [Next]_vars
      PROVE  WaitersHaveADiscovery'
  <2>1. CASE UNCHANGED <<flight, lookup, catalogs>>
    BY <1>2, <2>1, WaitersStay
  <2>2. CASE \E k \in Key : Discovering(k)
    BY <1>2, <2>2, DiscoveringAttends
  <2>3. CASE \E q \in Request : Looking(q) \/ NextRequest(q)
    BY <1>2, <2>3, LookingAttends
  <2> QED
    BY <1>2, <2>1, <2>2, <2>3 DEF Next, vars, Tick, EdgeRefresh, Deploy
<1> QED
  BY <1>1, <1>2, RegistryInvariance, PTL DEF Spec

=============================================================================
