------------------------- MODULE KeyRotationProofs -------------------------
(***************************************************************************)
(* Proofs about KeyRotation, for every fleet, every key lists and every    *)
(* choice of the times: its type invariant, its inductive invariant, and   *)
(* from it the two properties the runs check.                              *)
(***************************************************************************)
EXTENDS KeyRotation, TLAPS

(* The first key of a list is a key, and it is published.                  *)
LEMMA SignerIsPublished ==
  ASSUME NEW ks \in KeyLists
  PROVE  Signer(ks) \in Kid /\ Signer(ks) \in Published(ks) /\ Published(ks) \subseteq Kid
<1>1. ks \in Seq(Kid) /\ ks # <<>>
  BY KeyListsAssumption
<1>2. Len(ks) \in Nat /\ Len(ks) > 0 /\ DOMAIN ks = 1..Len(ks) /\ ks \in [1..Len(ks) -> Kid]
  BY <1>1
<1>3. Head(ks) = ks[1] /\ 1 \in DOMAIN ks
  BY <1>1, <1>2
<1> QED
  BY <1>2, <1>3 DEF Signer, Published

(* Local clocks read integers between the true time and Skew beyond it.    *)
LEMMA LocalClock ==
  ASSUME TypeOK, NEW x \in Replica \cup Service
  PROVE  Now(x) \in Nat /\ clock <= Now(x) /\ Now(x) <= clock + Skew
<1>1. offset[x] \in 0..Skew /\ clock \in Nat
  BY TimesAssumption DEF TypeOK
<1> QED
  BY <1>1, TimesAssumption DEF Now

(* The empty slots are values of their types.                              *)
LEMMA EmptySlots ==
  /\ LongAgo \in Int
  /\ NoCopy \in Copy
  /\ NoEntry \in Entry
  /\ NoRead \in Read
  /\ NoFetch \in Fetch
BY WindowAssumption DEF LongAgo, NoCopy, NoEntry, NoRead, NoFetch, Copy, Entry, Read, Fetch

(* Writing the deployment log keeps its type.                              *)
LEMMA LogTyped ==
  ASSUME TypeOK, NEW ks \in [Replica -> KeyLists], NEW t \in Nat, Log(ks, t)
  PROVE  lastIn' \in [Kid -> Int] /\ lastOut' \in [Kid -> Int] /\ lastSign' \in [Kid -> Int]
BY DEF TypeOK, Log

-----------------------------------------------------------------------------
(* The resolver of a service keeps the types of the variables it owns.     *)
LEMMA ResolverTyped ==
  ASSUME TypeOK, NEW s \in Service,
         AskShared(s) \/ SharedHit(s) \/ SharedMiss(s) \/ FetchAnswered(s)
           \/ FetchFails(s) \/ StoreLocal(s) \/ StoreShared(s) \/ Restart(s)
  PROVE  TypeOK'
<1>0. /\ Now(s) \in Nat
      /\ cached[s] \in Entry /\ reading[s] \in Read /\ fetch[s] \in Fetch
      /\ reading[s].entry \in Entry /\ reading[s].now \in Int
      /\ fetch[s].now \in Int /\ fetch[s].doc \in SUBSET Kid
  BY LocalClock DEF TypeOK, Read, Fetch
<1>1. CASE AskShared(s)
  <2>1. [pc |-> "asked", now |-> Now(s), entry |-> shared] \in Read
    BY <1>0 DEF TypeOK, Read
  <2> QED
    BY <1>1, <2>1 DEF TypeOK, AskShared, elsewhere, history
<1>2. CASE SharedHit(s)
  BY <1>0, <1>2, EmptySlots DEF TypeOK, SharedHit, elsewhere, history
<1>3. CASE SharedMiss(s)
  <2>1. [NoFetch EXCEPT !.pc = "sent", !.now = reading[s].now] \in Fetch
    BY <1>0, EmptySlots DEF NoFetch, Fetch
  <2> QED
    BY <1>3, <2>1, EmptySlots DEF TypeOK, SharedMiss, elsewhere, history
<1>4. CASE FetchAnswered(s)
  <2>1. PICK copy \in Responses :
          fetch' = [fetch EXCEPT ![s].pc = "answered", ![s].doc = copy.doc]
    BY <1>4 DEF FetchAnswered
  <2>2. copy.doc \in SUBSET Kid
    <3>1. CASE copy \in {Origin(r) : r \in Replica}
      <4>1. PICK r \in Replica : copy = Origin(r)
        BY <3>1
      <4>2. keys[r] \in KeyLists /\ copy.doc = Published(keys[r])
        BY <4>1 DEF Origin, TypeOK
      <4> QED
        BY <4>2, SignerIsPublished
    <3>2. CASE \E p \in PoP : copy = edge[p]
      BY <3>2 DEF TypeOK, Copy
    <3> QED
      BY <3>1, <3>2 DEF Responses
  <2>3. [fetch[s] EXCEPT !.pc = "answered", !.doc = copy.doc] \in Fetch
    BY <1>0, <2>2 DEF Fetch
  <2>4. fetch' = [fetch EXCEPT ![s] = [fetch[s] EXCEPT !.pc = "answered", !.doc = copy.doc]]
    BY <2>1 DEF TypeOK
  <2>5. fetch' \in [Service -> Fetch]
    BY <2>3, <2>4 DEF TypeOK
  <2> QED
    BY <1>4, <2>5 DEF TypeOK, FetchAnswered, elsewhere, history
<1>5. CASE FetchFails(s)
  BY <1>5, EmptySlots DEF TypeOK, FetchFails, elsewhere, history
<1>6. CASE StoreLocal(s)
  <2>1. Filled(fetch[s]) \in Entry
    BY <1>0, TimesAssumption DEF Filled, Entry
  <2>2. [fetch[s] EXCEPT !.pc = "storing"] \in Fetch
    BY <1>0 DEF Fetch
  <2>3. cached' \in [Service -> Entry]
    BY <1>6, <2>1 DEF TypeOK, StoreLocal
  <2>4. fetch' = [fetch EXCEPT ![s] = [fetch[s] EXCEPT !.pc = "storing"]]
    BY <1>6 DEF TypeOK, StoreLocal
  <2>5. fetch' \in [Service -> Fetch]
    BY <2>2, <2>4 DEF TypeOK
  <2> QED
    BY <1>6, <2>3, <2>5 DEF TypeOK, StoreLocal, elsewhere, history
<1>7. CASE StoreShared(s)
  <2>1. Filled(fetch[s]) \in Entry
    BY <1>0, TimesAssumption DEF Filled, Entry
  <2> QED
    BY <1>7, <2>1, EmptySlots DEF TypeOK, StoreShared, elsewhere, history
<1>8. CASE Restart(s)
  BY <1>8, EmptySlots DEF TypeOK, Restart, elsewhere, history
<1> QED
  BY <1>1, <1>2, <1>3, <1>4, <1>5, <1>6, <1>7, <1>8

(* Signing a token keeps the type invariant.                               *)
LEMMA MintTyped ==
  ASSUME TypeOK, NEW k \in Kid, NEW r \in Replica, Mint(k, r)
  PROVE  TypeOK'
<1>1. clock + offset[r] + TokenTTL \in Int
  BY TimesAssumption DEF TypeOK
<1> QED
  BY <1>1 DEF TypeOK, Mint, caches, history

(* Every variable always holds what the code can put there: the type       *)
(* invariant of the rotation, for every fleet.                             *)
THEOREM TypeCorrect == Spec => []TypeOK
<1>1. Init => TypeOK
  <2> SUFFICES ASSUME Init PROVE TypeOK
    OBVIOUS
  <2> QED
    BY EmptySlots, KeyListsAssumption DEF Init, TypeOK
<1>2. TypeOK /\ [Next]_vars => TypeOK'
  <2> SUFFICES ASSUME TypeOK, [Next]_vars PROVE TypeOK'
    OBVIOUS
  <2>1. CASE Tick
    <3>1. clock + 1 \in Nat /\ keys \in [Replica -> KeyLists] /\ Log(keys, clock + 1)
      BY <2>1 DEF TypeOK, Tick
    <3>2. lastIn' \in [Kid -> Int] /\ lastOut' \in [Kid -> Int] /\ lastSign' \in [Kid -> Int]
      BY <3>1, LogTyped
    <3> QED
      BY <2>1, <3>1, <3>2 DEF TypeOK, Tick, caches
  <2>2. CASE Purge
    BY <2>2, EmptySlots DEF TypeOK, Purge, history
  <2>3. ASSUME NEW k \in Kid, Revoke(k) PROVE TypeOK'
    BY <2>3 DEF TypeOK, Revoke, caches, history
  <2>4. ASSUME NEW r \in Replica, NEW ks \in KeyLists, Deploy(r, ks) PROVE TypeOK'
    <3>1. keys' \in [Replica -> KeyLists]
      BY <2>4 DEF TypeOK, Deploy
    <3>2. lastIn' \in [Kid -> Int] /\ lastOut' \in [Kid -> Int] /\ lastSign' \in [Kid -> Int]
      <4>1. Log(keys', clock) /\ clock \in Nat
        BY <2>4 DEF TypeOK, Deploy
      <4> QED
        BY <3>1, <4>1, LogTyped DEF TypeOK, Log
    <3> QED
      BY <2>4, <3>1, <3>2 DEF TypeOK, Deploy, caches
  <2>5. ASSUME NEW r \in Replica, IssueToken(r) PROVE TypeOK'
    BY <2>5, MintTyped, SignerIsPublished DEF TypeOK, IssueToken
  <2>6. ASSUME NEW r \in Replica, OpenSession(r) PROVE TypeOK'
    <3>1. [replica |-> r, kid |-> Signer(keys[r]), opened |-> clock]
            \in [replica : Replica, kid : Kid, opened : Nat]
      BY SignerIsPublished DEF TypeOK
    <3> QED
      BY <2>6, <3>1 DEF TypeOK, OpenSession, caches, history
  <2>7. ASSUME NEW r \in Replica, NEW p \in PoP, EdgeRefresh(p, r) PROVE TypeOK'
    <3>1. Origin(r) \in Copy
      BY SignerIsPublished DEF TypeOK, Origin, Copy
    <3> QED
      BY <2>7, <3>1 DEF TypeOK, EdgeRefresh, history
  <2>8. ASSUME NEW x \in sessions, SessionIssuesToken(x) \/ CloseSession(x) PROVE TypeOK'
    <3>1. CASE SessionIssuesToken(x)
      BY <3>1, MintTyped DEF TypeOK, SessionIssuesToken
    <3>2. CASE CloseSession(x)
      BY <3>2 DEF TypeOK, CloseSession, caches, history
    <3> QED
      BY <2>8, <3>1, <3>2
  <2>9. CASE UNCHANGED vars
    BY <2>9 DEF TypeOK, vars, caches, history
  <2> QED
    BY <2>1, <2>2, <2>3, <2>4, <2>5, <2>6, <2>7, <2>8, <2>9, ResolverTyped DEF Next
<1> QED
  BY <1>1, <1>2, PTL DEF Spec

-----------------------------------------------------------------------------
(* The invariant, first the part about the fleet. *)

(* Bringing the log up to date keeps it current, and history only advances. *)
LEMMA LogStep ==
  ASSUME TypeOK, LogIsCurrent, NEW t \in Nat, clock <= t,
         keys' \in [Replica -> KeyLists], clock' = t, Log(keys', t)
  PROVE  /\ LogIsCurrent'
         /\ \A k \in Kid : /\ lastIn[k] <= lastIn'[k]
                           /\ lastOut[k] <= lastOut'[k]
                           /\ lastSign[k] <= lastSign'[k]
<1>1. LongAgo \in Int /\ clock \in Nat /\ LongAgo' = LongAgo
  BY EmptySlots DEF TypeOK, LongAgo
<1>2. ASSUME NEW k \in Kid
      PROVE  /\ lastIn[k] \in LongAgo..clock
             /\ lastOut[k] \in LongAgo..clock
             /\ lastSign[k] \in LongAgo..clock
  BY DEF LogIsCurrent
<1>3. ASSUME NEW k \in Kid
      PROVE  /\ lastIn'[k] \in LongAgo..t /\ lastIn[k] <= lastIn'[k]
             /\ lastOut'[k] \in LongAgo..t /\ lastOut[k] <= lastOut'[k]
             /\ lastSign'[k] \in LongAgo..t /\ lastSign[k] <= lastSign'[k]
  BY <1>1, <1>2, WindowAssumption DEF Log, LongAgo
<1>4. ASSUME NEW k \in Kid, NEW r \in Replica
      PROVE  /\ k \in Published(keys'[r]) => lastIn'[k] = t
             /\ k \notin Published(keys'[r]) => lastOut'[k] = t
             /\ k = Signer(keys'[r]) => lastSign'[k] = t
  BY DEF Log
<1>5. LogIsCurrent'
  BY <1>1, <1>3, <1>4 DEF LogIsCurrent
<1> QED
  BY <1>3, <1>5

(* A key published by all for a window stays so while time passes.         *)
LEMMA TickKeepsPrepared ==
  ASSUME TypeOK, LogIsCurrent, Tick, NEW k \in Kid, Prepared(k)
  PROVE  Prepared(k)'
<1>1. CASE k \in revoked
  BY <1>1 DEF Prepared, Tick
<1>2. CASE lastOut[k] + Window <= clock
  <2>1. clock \in Nat /\ lastOut[k] \in Int /\ Window \in Nat /\ Window > 0
    BY WindowAssumption, TimesAssumption DEF TypeOK, StaleBound
  <2>2. \A r \in Replica : k \in Published(keys[r])
    BY <1>2, <2>1 DEF LogIsCurrent
  <2>3. lastOut'[k] = lastOut[k] /\ clock' = clock + 1
    BY <2>2 DEF Tick, Log
  <2> QED
    BY <1>2, <2>1, <2>3 DEF Prepared
<1> QED
  BY <1>1, <1>2 DEF Prepared

(* So it does through a deploy that keeps it, or comes too early to drop it. *)
LEMMA DeployKeepsPrepared ==
  ASSUME TypeOK, LogIsCurrent, NEW r \in Replica, NEW ks \in KeyLists, Deploy(r, ks),
         NEW k \in Kid, Prepared(k),
         k \in Published(ks) \/ clock < lastSign[k] + Window
  PROVE  Prepared(k)'
<1>1. CASE k \in revoked
  BY <1>1 DEF Prepared, Deploy
<1>2. CASE k \notin revoked /\ lastOut[k] + Window <= clock
  <2>1. /\ clock \in Nat /\ lastOut[k] \in Int /\ lastSign[k] \in Int
        /\ Window \in Nat /\ Window > 0
    BY WindowAssumption, TimesAssumption DEF TypeOK, StaleBound
  <2>2. \A q \in Replica : k \in Published(keys[q])
    BY <1>2, <2>1 DEF LogIsCurrent
  <2>3. k \in Published(ks)
    BY <1>2, <2>1, <2>2 DEF Deploy
  <2>4. \A q \in Replica : k \in Published(keys'[q])
    BY <2>2, <2>3 DEF Deploy, TypeOK
  <2>5. lastOut'[k] = lastOut[k] /\ clock' = clock
    BY <2>4 DEF Deploy, Log
  <2> QED
    BY <1>2, <2>5 DEF Prepared
<1> QED
  BY <1>1, <1>2 DEF Prepared

FleetInv ==
  LogIsCurrent /\ SignersArePrepared /\ SessionsArePrepared /\ TokensArePrepared

(* Minting with a prepared key, not too long after it last signed.         *)
LEMMA MintStep ==
  ASSUME TypeOK, FleetInv, NEW k \in Kid, NEW r \in Replica, Mint(k, r), Prepared(k),
         clock <= lastSign[k] + SessionLife
  PROVE  FleetInv'
<1>1. /\ clock \in Nat /\ offset[r] \in 0..Skew /\ TokenTTL \in Nat
      /\ Skew \in Nat /\ SessionLife \in Nat /\ lastSign \in [Kid -> Int]
      /\ outstanding \in [Kid -> Int]
  BY TimesAssumption DEF TypeOK
<1>2. outstanding' = [outstanding EXCEPT ![k] = clock + offset[r] + TokenTTL]
  BY DEF Mint
<1>3. UNCHANGED <<clock, keys, sessions, revoked, lastIn, lastOut, lastSign>>
  BY DEF Mint, history
<1>4. LogIsCurrent' /\ SignersArePrepared' /\ SessionsArePrepared'
  BY <1>3 DEF FleetInv, LogIsCurrent, SignersArePrepared, SessionsArePrepared, Prepared, LongAgo
<1>5. ASSUME NEW j \in Kid
      PROVE  /\ outstanding'[j] <= lastSign'[j] + SessionLife + TokenTTL + Skew
             /\ outstanding'[j] > clock' => Prepared(j)'
  <2>1. CASE j = k
    BY <1>1, <1>2, <1>3, <2>1 DEF Prepared
  <2>2. CASE j # k
    <3>1. outstanding'[j] = outstanding[j]
      BY <1>1, <1>2, <2>2
    <3> QED
      BY <1>3, <3>1 DEF Prepared, FleetInv, TokensArePrepared
  <2> QED
    BY <2>1, <2>2
<1>6. TokensArePrepared'
  BY <1>5 DEF TokensArePrepared
<1> QED
  BY <1>4, <1>6 DEF FleetInv

(* Steps that touch neither keys, tokens, sessions nor the log.            *)
LEMMA FleetUntouched ==
  ASSUME FleetInv,
         UNCHANGED <<clock, keys, sessions, outstanding, lastIn, lastOut, lastSign>>,
         revoked \subseteq revoked'
  PROVE  FleetInv'
BY DEF FleetInv, LogIsCurrent, SignersArePrepared, SessionsArePrepared,
       TokensArePrepared, Prepared, LongAgo

(* Every step keeps the fleet's part of the invariant: in particular, by   *)
(* the time a deploy drops a key, the sessions and tokens it has signed    *)
(* for are spent.                                                          *)
LEMMA FleetStep ==
  ASSUME TypeOK, TypeOK', FleetInv, WindowCoversSessions, [Next]_vars
  PROVE  FleetInv'
<1> USE TimesAssumption, WindowAssumption
<1>0. /\ clock \in Nat /\ outstanding \in [Kid -> Int] /\ lastSign \in [Kid -> Int]
      /\ lastOut \in [Kid -> Int] /\ keys \in [Replica -> KeyLists]
      /\ \A x \in sessions : x.kid \in Kid /\ x.replica \in Replica /\ x.opened \in Nat
      /\ \A r \in Replica : Signer(keys[r]) \in Kid
      /\ Window > 0
      /\ LogIsCurrent /\ SignersArePrepared /\ SessionsArePrepared /\ TokensArePrepared
  BY SignerIsPublished DEF TypeOK, FleetInv, StaleBound
<1>1. CASE Tick
  <2>1. /\ keys' = keys /\ sessions' = sessions /\ outstanding' = outstanding
        /\ clock' = clock + 1 /\ clock' \in Nat /\ Log(keys', clock + 1)
    BY <1>0, <1>1 DEF Tick
  <2>2. LogIsCurrent' /\ \A k \in Kid : lastSign[k] <= lastSign'[k]
    BY <1>0, <2>1, LogStep
  <2>3. SignersArePrepared'
    BY <1>0, <1>1, <2>1, TickKeepsPrepared DEF SignersArePrepared
  <2>4. SessionsArePrepared'
    <3> SUFFICES ASSUME NEW x \in sessions
                 PROVE  Prepared(x.kid)' /\ x.opened <= lastSign'[x.kid]
                          /\ clock + 1 <= x.opened + SessionLife
      BY <2>1 DEF SessionsArePrepared
    <3>1. Prepared(x.kid) /\ x.opened <= lastSign[x.kid] /\ x.kid \in Kid
      BY <1>0 DEF SessionsArePrepared
    <3>2. Prepared(x.kid)'
      BY <1>0, <1>1, <3>1, TickKeepsPrepared
    <3>3. clock < x.opened + SessionLife
      BY <1>1 DEF Tick
    <3>4. x.opened <= lastSign'[x.kid]
      BY <1>0, <2>2, <3>1 DEF TypeOK
    <3> QED
      BY <1>0, <3>2, <3>3, <3>4
  <2>5. TokensArePrepared'
    <3> SUFFICES ASSUME NEW k \in Kid
                 PROVE  /\ outstanding[k] <= lastSign'[k] + SessionLife + TokenTTL + Skew
                        /\ outstanding[k] > clock + 1 => Prepared(k)'
      BY <2>1 DEF TokensArePrepared
    <3>1. outstanding[k] <= lastSign[k] + SessionLife + TokenTTL + Skew
      BY <1>0 DEF TokensArePrepared
    <3>2. outstanding[k] > clock + 1 => Prepared(k)
      BY <1>0 DEF TokensArePrepared
    <3>3. outstanding[k] > clock + 1 => Prepared(k)'
      BY <1>0, <1>1, <3>2, TickKeepsPrepared
    <3>4. lastSign[k] <= lastSign'[k] /\ lastSign[k] \in Int /\ lastSign'[k] \in Int
      BY <1>0, <2>2 DEF TypeOK
    <3> QED
      BY <1>0, <3>1, <3>3, <3>4
  <2> QED
    BY <2>2, <2>3, <2>4, <2>5 DEF FleetInv
<1>2. ASSUME NEW r \in Replica, NEW ks \in KeyLists, Deploy(r, ks) PROVE FleetInv'
  <2>1. /\ sessions' = sessions /\ outstanding' = outstanding /\ clock' = clock
        /\ revoked' = revoked /\ keys' = [keys EXCEPT ![r] = ks] /\ Log(keys', clock)
        /\ keys' \in [Replica -> KeyLists]
    BY <1>0, <1>2 DEF Deploy
  <2>2. LogIsCurrent' /\ \A k \in Kid : lastSign[k] <= lastSign'[k]
    <3>1. clock \in Nat /\ clock <= clock
      BY <1>0
    <3> QED
      BY <1>0, <2>1, <3>1, LogStep
  <2>3. SignersArePrepared'
    <3> SUFFICES ASSUME NEW q \in Replica, NEW k \in Kid, k = Signer(keys'[q])
                 PROVE  Prepared(k)'
      BY <2>1, SignerIsPublished DEF SignersArePrepared, Prepared
    <3>1. CASE q = r
      <4>1. k = Signer(ks) /\ k \in Published(ks)
        BY <1>0, <2>1, <3>1, SignerIsPublished
      <4>2. Prepared(k)
        BY <1>2, <4>1 DEF Deploy, Prepared
      <4> QED
        BY <1>0, <1>2, <4>1, <4>2, DeployKeepsPrepared
    <3>2. CASE q # r
      <4>1. k = Signer(keys[q])
        BY <1>0, <2>1, <3>2
      <4>2. Prepared(k) /\ lastSign[k] = clock
        BY <1>0, <4>1 DEF SignersArePrepared, LogIsCurrent
      <4>3. clock < lastSign[k] + Window
        BY <1>0, <4>2
      <4> QED
        BY <1>0, <1>2, <4>2, <4>3, DeployKeepsPrepared
    <3> QED
      BY <3>1, <3>2
  <2>4. SessionsArePrepared'
    <3> SUFFICES ASSUME NEW x \in sessions
                 PROVE  Prepared(x.kid)' /\ x.opened <= lastSign'[x.kid]
                          /\ clock <= x.opened + SessionLife
      BY <2>1 DEF SessionsArePrepared
    <3>1. /\ Prepared(x.kid) /\ x.opened <= lastSign[x.kid] /\ x.kid \in Kid
          /\ clock <= x.opened + SessionLife
      BY <1>0 DEF SessionsArePrepared
    <3>2. clock < lastSign[x.kid] + Window
      BY <1>0, <3>1 DEF WindowCoversSessions
    <3>3. Prepared(x.kid)'
      BY <1>0, <1>2, <3>1, <3>2, DeployKeepsPrepared DEF FleetInv
    <3>4. x.opened <= lastSign'[x.kid]
      BY <1>0, <2>2, <3>1 DEF TypeOK
    <3> QED
      BY <3>1, <3>3, <3>4
  <2>5. TokensArePrepared'
    <3> SUFFICES ASSUME NEW k \in Kid
                 PROVE  /\ outstanding[k] <= lastSign'[k] + SessionLife + TokenTTL + Skew
                        /\ outstanding[k] > clock => Prepared(k)'
      BY <2>1 DEF TokensArePrepared
    <3>1. outstanding[k] <= lastSign[k] + SessionLife + TokenTTL + Skew
      BY <1>0 DEF TokensArePrepared
    <3>2. lastSign[k] <= lastSign'[k] /\ lastSign[k] \in Int /\ lastSign'[k] \in Int
      BY <1>0, <2>2 DEF TypeOK
    <3>3. ASSUME outstanding[k] > clock PROVE Prepared(k)'
      <4>1. Prepared(k)
        BY <1>0, <3>3 DEF TokensArePrepared
      <4>2. clock < lastSign[k] + Window
        BY <1>0, <3>1, <3>2, <3>3 DEF WindowCoversSessions
      <4> QED
        BY <1>0, <1>2, <4>1, <4>2, DeployKeepsPrepared
    <3> QED
      BY <1>0, <3>1, <3>2, <3>3
  <2> QED
    BY <2>2, <2>3, <2>4, <2>5 DEF FleetInv
<1>3. ASSUME NEW r \in Replica, IssueToken(r) PROVE FleetInv'
  <2>1. /\ Signer(keys[r]) \in Kid /\ Prepared(Signer(keys[r]))
        /\ lastSign[Signer(keys[r])] = clock
    BY <1>0 DEF SignersArePrepared, LogIsCurrent
  <2> QED
    BY <1>0, <1>3, <2>1, MintStep DEF IssueToken
<1>4. ASSUME NEW r \in Replica, OpenSession(r) PROVE FleetInv'
  <2> DEFINE x == [replica |-> r, kid |-> Signer(keys[r]), opened |-> clock]
  <2>1. /\ sessions' = sessions \cup {x}
        /\ UNCHANGED <<clock, keys, outstanding, revoked, lastIn, lastOut, lastSign>>
    BY <1>4 DEF OpenSession, history
  <2>2. /\ Prepared(x.kid) /\ x.opened <= lastSign[x.kid] /\ clock <= x.opened + SessionLife
    BY <1>0 DEF SignersArePrepared, LogIsCurrent
  <2>3. SessionsArePrepared'
    BY <1>0, <2>1, <2>2 DEF SessionsArePrepared, Prepared
  <2> QED
    BY <1>0, <2>1, <2>3 DEF FleetInv, LogIsCurrent, SignersArePrepared, TokensArePrepared,
                            Prepared, LongAgo
<1>5. ASSUME NEW x \in sessions, SessionIssuesToken(x) PROVE FleetInv'
  <2>1. Prepared(x.kid) /\ clock <= lastSign[x.kid] + SessionLife
    BY <1>0 DEF SessionsArePrepared
  <2> QED
    BY <1>0, <1>5, <2>1, MintStep DEF SessionIssuesToken
<1>6. ASSUME NEW x \in sessions, CloseSession(x) PROVE FleetInv'
  <2>1. /\ sessions' \subseteq sessions
        /\ UNCHANGED <<clock, keys, outstanding, revoked, lastIn, lastOut, lastSign>>
    BY <1>6 DEF CloseSession, history
  <2> QED
    BY <1>0, <2>1 DEF FleetInv, LogIsCurrent, SignersArePrepared, SessionsArePrepared,
                      TokensArePrepared, Prepared, LongAgo
<1>7. CASE Purge \/ \E k \in Kid : Revoke(k)
  BY <1>7, FleetUntouched DEF Purge, Revoke, history
<1>8. CASE \E r \in Replica, p \in PoP : EdgeRefresh(p, r)
  BY <1>8, FleetUntouched DEF EdgeRefresh, history
<1>9. CASE \E s \in Service : AskShared(s) \/ SharedHit(s) \/ SharedMiss(s)
             \/ FetchAnswered(s) \/ FetchFails(s) \/ StoreLocal(s) \/ StoreShared(s) \/ Restart(s)
  BY <1>9, FleetUntouched DEF AskShared, SharedHit, SharedMiss, FetchAnswered,
     FetchFails, StoreLocal, StoreShared, Restart, elsewhere, history
<1>10. CASE UNCHANGED vars
  BY <1>10, FleetUntouched DEF vars, history
<1> QED
  BY <1>1, <1>2, <1>3, <1>4, <1>5, <1>6, <1>7, <1>8, <1>9, <1>10 DEF Next

-----------------------------------------------------------------------------
(* The part about the copies of the JWKS. *)

CachesInv == CopiesAreDated /\ ReadsAreDated /\ FetchesAreDated

(* Every step keeps the log current and only advances the history.         *)
LEMMA HistoryAdvances ==
  ASSUME TypeOK, TypeOK', LogIsCurrent, [Next]_vars
  PROVE  /\ clock <= clock'
         /\ LogIsCurrent'
         /\ \A k \in Kid : lastIn[k] <= lastIn'[k] /\ lastOut[k] <= lastOut'[k]
<1>0. /\ clock \in Nat /\ lastIn \in [Kid -> Int] /\ lastOut \in [Kid -> Int]
      /\ keys' \in [Replica -> KeyLists]
  BY DEF TypeOK
<1>1. CASE Tick
  <2>1. Log(keys', clock + 1) /\ clock' = clock + 1 /\ clock + 1 \in Nat /\ clock <= clock + 1
    BY <1>0, <1>1 DEF Tick
  <2> QED
    BY <1>0, <2>1, LogStep
<1>2. CASE \E r \in Replica, ks \in KeyLists : Deploy(r, ks)
  <2>1. Log(keys', clock) /\ clock' = clock /\ clock <= clock
    BY <1>0, <1>2 DEF Deploy
  <2> QED
    BY <1>0, <2>1, LogStep
<1>3. CASE UNCHANGED <<clock, keys, lastIn, lastOut, lastSign>>
  BY <1>0, <1>3 DEF LogIsCurrent, LongAgo
<1>4. CASE \/ Purge \/ \E k \in Kid : Revoke(k)
           \/ \E r \in Replica : \/ IssueToken(r) \/ OpenSession(r)
                                 \/ \E p \in PoP : EdgeRefresh(p, r)
           \/ \E x \in sessions : SessionIssuesToken(x) \/ CloseSession(x)
           \/ \E s \in Service : AskShared(s) \/ SharedHit(s) \/ SharedMiss(s)
                \/ FetchAnswered(s) \/ FetchFails(s) \/ StoreLocal(s) \/ StoreShared(s) \/ Restart(s)
           \/ UNCHANGED vars
  <2>1. UNCHANGED <<clock, keys, lastIn, lastOut, lastSign>>
    BY <1>4 DEF Purge, Revoke, IssueToken, OpenSession, EdgeRefresh, SessionIssuesToken,
       CloseSession, Mint, AskShared, SharedHit, SharedMiss, FetchAnswered, FetchFails,
       StoreLocal, StoreShared, Restart, elsewhere, history, vars
  <2> QED
    BY <1>3, <2>1
<1> QED
  BY <1>1, <1>2, <1>4 DEF Next

(* So what was published at t or later still was.                          *)
LEMMA DatedStays ==
  ASSUME TypeOK, TypeOK', NEW doc, NEW t \in Int, NEW u \in Int, u <= t, Dated(doc, t),
         \A k \in Kid : lastIn[k] <= lastIn'[k] /\ lastOut[k] <= lastOut'[k]
  PROVE  Dated(doc, u)'
<1>1. /\ lastIn \in [Kid -> Int] /\ lastOut \in [Kid -> Int]
      /\ lastIn' \in [Kid -> Int] /\ lastOut' \in [Kid -> Int]
  BY DEF TypeOK
<1>2. ASSUME NEW k \in Kid PROVE IF k \in doc THEN u <= lastIn'[k] ELSE u <= lastOut'[k]
  <2>1. IF k \in doc THEN t <= lastIn[k] ELSE t <= lastOut[k]
    BY DEF Dated
  <2>2. /\ lastIn[k] \in Int /\ lastOut[k] \in Int /\ lastIn'[k] \in Int /\ lastOut'[k] \in Int
        /\ lastIn[k] <= lastIn'[k] /\ lastOut[k] <= lastOut'[k]
    BY <1>1
  <2> QED
    BY <2>1, <2>2
<1> QED
  BY <1>2 DEF Dated

(* The empty slots are dated long ago.                                     *)
LEMMA EmptyIsDated ==
  ASSUME TypeOK, LogIsCurrent
  PROVE  /\ Dated({}, LongAgo)
         /\ EntryIsDated(NoEntry)
<1>1. \A k \in Kid : LongAgo <= lastOut[k] /\ lastOut[k] \in Int
  BY EmptySlots DEF LogIsCurrent, TypeOK
<1>2. LongAgo - (MaxAge + SWR + JwksTTL + Skew) \in Int
      /\ LongAgo - (MaxAge + SWR + JwksTTL + Skew) <= LongAgo
  BY TimesAssumption, EmptySlots
<1> QED
  BY <1>1, <1>2, EmptySlots DEF Dated, EntryIsDated, NoEntry

(* What a replica publishes now is dated now.                              *)
LEMMA OriginIsDated ==
  ASSUME TypeOK, LogIsCurrent, NEW r \in Replica
  PROVE  Dated(Origin(r).doc, Origin(r).at) /\ Origin(r).at = clock
<1>1. Origin(r).doc = Published(keys[r]) /\ Origin(r).at = clock
  BY DEF Origin
<1>2. Dated(Published(keys[r]), clock)
  BY DEF Dated, LogIsCurrent, TypeOK
<1> QED
  BY <1>1, <1>2

(* A response is never older than max-age plus stale-while-revalidate.     *)
LEMMA ResponseIsDated ==
  ASSUME TypeOK, LogIsCurrent, CopiesAreDated, NEW copy \in Responses
  PROVE  copy.at \in Int /\ clock - (MaxAge + SWR) <= copy.at /\ Dated(copy.doc, copy.at)
<1>1. CASE \E r \in Replica : copy = Origin(r)
  <2>1. copy.at = clock /\ clock \in Nat /\ Dated(copy.doc, copy.at)
    BY <1>1, OriginIsDated DEF TypeOK
  <2> QED
    BY <2>1, TimesAssumption
<1>2. CASE \E p \in PoP : copy = edge[p] /\ Servable(edge[p])
  <2>1. copy \in Copy /\ Servable(copy) /\ Dated(copy.doc, copy.at)
    BY <1>2 DEF TypeOK, CopiesAreDated
  <2>2. copy.at \in Int /\ clock \in Nat
    BY <2>1 DEF TypeOK, Copy
  <2> QED
    BY <2>1, <2>2, TimesAssumption DEF Servable
<1> QED
  BY <1>1, <1>2 DEF Responses

(* Copies that are carried over, and copies taken from the empty slots.    *)
LEMMA EntryStays ==
  ASSUME TypeOK, TypeOK', NEW entry \in Entry, EntryIsDated(entry),
         \A k \in Kid : lastIn[k] <= lastIn'[k] /\ lastOut[k] <= lastOut'[k]
  PROVE  EntryIsDated(entry)'
<1> DEFINE t == entry.expiresAt - (MaxAge + SWR + JwksTTL + Skew)
<1>1. t \in Int /\ t <= t
  BY TimesAssumption DEF Entry
<1>2. Dated(entry.doc, t)'
  BY <1>1, DatedStays DEF EntryIsDated
<1> QED
  BY <1>2 DEF EntryIsDated

ReadIsDated(s) ==
  /\ EntryIsDated(reading[s].entry)
  /\ IF reading[s].pc = "idle" THEN reading[s] = NoRead
     ELSE reading[s].now <= Now(s) /\ Now(s) <= reading[s].now + Latency

FetchIsDated(s) ==
  fetch[s].pc # "idle" =>
    /\ fetch[s].now <= Now(s) /\ Now(s) <= fetch[s].now + Latency
    /\ fetch[s].pc # "sent" =>
         Dated(fetch[s].doc, fetch[s].now - (MaxAge + SWR + Skew))

(* A service whose clock did not move keeps what it has in flight.         *)
LEMMA InFlightStays ==
  ASSUME TypeOK, TypeOK', NEW s \in Service, Now(s)' = Now(s),
         \A k \in Kid : lastIn[k] <= lastIn'[k] /\ lastOut[k] <= lastOut'[k]
  PROVE  /\ ReadIsDated(s) /\ reading'[s] = reading[s] => ReadIsDated(s)'
         /\ FetchIsDated(s) /\ fetch'[s] = fetch[s] => FetchIsDated(s)'
<1>1. ASSUME ReadIsDated(s), reading'[s] = reading[s] PROVE ReadIsDated(s)'
  <2>1. reading[s].entry \in Entry
    BY DEF TypeOK, Read
  <2>2. EntryIsDated(reading[s].entry)'
    BY <1>1, <2>1, EntryStays DEF ReadIsDated, EntryIsDated, Dated
  <2> QED
    BY <1>1, <2>2 DEF ReadIsDated, EntryIsDated, Dated, NoRead, NoEntry, LongAgo
<1>2. ASSUME FetchIsDated(s), fetch'[s] = fetch[s] PROVE FetchIsDated(s)'
  <2>1. fetch[s].now - (MaxAge + SWR + Skew) \in Int
    BY TimesAssumption DEF TypeOK, Fetch
  <2>2. ASSUME fetch[s].pc # "idle", fetch[s].pc # "sent"
        PROVE  Dated(fetch[s].doc, fetch[s].now - (MaxAge + SWR + Skew))'
    <3> DEFINE t == fetch[s].now - (MaxAge + SWR + Skew)
    <3>1. Dated(fetch[s].doc, t) /\ t \in Int /\ t <= t
      BY <1>2, <2>1, <2>2 DEF FetchIsDated
    <3>2. \A k \in Kid : IF k \in fetch[s].doc THEN t <= lastIn'[k] ELSE t <= lastOut'[k]
      BY <3>1 DEF Dated, TypeOK
    <3> QED
      BY <1>2, <3>2 DEF Dated
  <2> QED
    BY <1>2, <2>2 DEF FetchIsDated
<1> QED
  BY <1>1, <1>2

(* The caches change in one place at a time; the rest is carried over.     *)
LEMMA CachesFrom ==
  ASSUME TypeOK, TypeOK', CachesInv,
         \A k \in Kid : lastIn[k] <= lastIn'[k] /\ lastOut[k] <= lastOut'[k],
         \A p \in PoP : edge'[p] = edge[p] \/ Dated(edge[p].doc, edge[p].at)',
         shared' = shared \/ EntryIsDated(shared)',
         \A s \in Service : cached'[s] = cached[s] \/ EntryIsDated(cached[s])',
         \A s \in Service : ReadIsDated(s)',
         \A s \in Service : FetchIsDated(s)'
  PROVE  CachesInv'
<1>1. ASSUME NEW p \in PoP PROVE Dated(edge[p].doc, edge[p].at)'
  <2>1. CASE edge'[p] = edge[p]
    <3> DEFINE t == edge[p].at
    <3>1. Dated(edge[p].doc, t) /\ t \in Int /\ t <= t
      BY DEF CachesInv, CopiesAreDated, TypeOK, Copy
    <3>2. \A k \in Kid : IF k \in edge[p].doc THEN t <= lastIn'[k] ELSE t <= lastOut'[k]
      BY <3>1 DEF Dated, TypeOK
    <3> QED
      BY <2>1, <3>2 DEF Dated
  <2> QED
    BY <2>1
<1>2. EntryIsDated(shared)'
  <2>1. CASE shared' = shared
    <3>1. shared \in Entry /\ EntryIsDated(shared)
      BY DEF TypeOK, CachesInv, CopiesAreDated
    <3>2. Dated(shared.doc, shared.expiresAt - (MaxAge + SWR + JwksTTL + Skew))
          /\ shared.expiresAt - (MaxAge + SWR + JwksTTL + Skew) \in Int
      BY <3>1, TimesAssumption DEF EntryIsDated, Entry
    <3> QED
      BY <2>1, <3>2 DEF EntryIsDated, Dated, TypeOK
  <2> QED
    BY <2>1
<1>3. ASSUME NEW s \in Service PROVE EntryIsDated(cached[s])'
  <2>1. CASE cached'[s] = cached[s]
    <3>1. cached[s] \in Entry /\ EntryIsDated(cached[s])
      BY DEF TypeOK, CachesInv, CopiesAreDated
    <3>2. Dated(cached[s].doc, cached[s].expiresAt - (MaxAge + SWR + JwksTTL + Skew))
          /\ cached[s].expiresAt - (MaxAge + SWR + JwksTTL + Skew) \in Int
      BY <3>1, TimesAssumption DEF EntryIsDated, Entry
    <3> QED
      BY <2>1, <3>2 DEF EntryIsDated, Dated, TypeOK
  <2> QED
    BY <2>1
<1>4. CopiesAreDated'
  BY <1>1, <1>2, <1>3 DEF CopiesAreDated
<1>5. ReadsAreDated' /\ FetchesAreDated'
  BY DEF ReadsAreDated, FetchesAreDated, ReadIsDated, FetchIsDated
<1> QED
  BY <1>4, <1>5 DEF CachesInv

(* Every step keeps the caches' part of the invariant.                     *)
LEMMA CachesStep ==
  ASSUME TypeOK, TypeOK', LogIsCurrent, CachesInv, [Next]_vars
  PROVE  CachesInv'
<1>0. /\ clock <= clock' /\ clock \in Nat /\ clock' \in Nat /\ LogIsCurrent'
      /\ \A k \in Kid : lastIn[k] <= lastIn'[k] /\ lastOut[k] <= lastOut'[k]
      /\ \A s \in Service : ReadIsDated(s) /\ FetchIsDated(s)
  BY HistoryAdvances
  DEF TypeOK, CachesInv, ReadsAreDated, FetchesAreDated, ReadIsDated, FetchIsDated
<1>1. CASE UNCHANGED <<clock, reading, fetch>>
           /\ \/ UNCHANGED <<edge, shared, cached>>
              \/ Purge
              \/ \E r \in Replica, p \in PoP : EdgeRefresh(p, r)
  <2>1. \A s \in Service : Now(s)' = Now(s)
    BY <1>1 DEF Now
  <2>2. \A s \in Service : ReadIsDated(s)' /\ FetchIsDated(s)'
    BY <1>0, <1>1, <2>1, InFlightStays
  <2>3. \A s \in Service : cached'[s] = cached[s]
    BY <1>1 DEF Purge, EdgeRefresh
  <2>4. shared' = shared \/ EntryIsDated(shared)'
    <3>1. CASE Purge
      <4>1. EntryIsDated(NoEntry)'
        BY EmptyIsDated, EmptySlots, EntryStays, <1>0
      <4>2. shared' = NoEntry
        BY <3>1 DEF Purge
      <4> QED
        BY <4>1, <4>2 DEF EntryIsDated, Dated, NoEntry, LongAgo
    <3> QED
      BY <1>1, <3>1 DEF EdgeRefresh
  <2>5. ASSUME NEW p \in PoP
        PROVE  edge'[p] = edge[p] \/ Dated(edge[p].doc, edge[p].at)'
    <3>1. CASE Purge
      <4>1. edge'[p] = NoCopy
        BY <3>1 DEF Purge
      <4>2. Dated({}, LongAgo)'
        <5>1. \A k \in Kid : LongAgo <= lastOut'[k]
          BY <1>0, EmptySlots DEF LogIsCurrent, LongAgo
        <5> QED
          BY <5>1 DEF Dated, LongAgo
      <4> QED
        BY <4>1, <4>2 DEF NoCopy, Dated, LongAgo
    <3>2. ASSUME NEW r \in Replica, NEW q \in PoP, EdgeRefresh(q, r)
          PROVE  edge'[p] = edge[p] \/ Dated(edge[p].doc, edge[p].at)'
      <4>1. CASE p # q
        BY <3>2, <4>1 DEF EdgeRefresh, TypeOK
      <4>2. CASE p = q
        <5>1. edge'[p] = Origin(r)
          BY <3>2, <4>2 DEF EdgeRefresh, TypeOK
        <5>2. Dated(Origin(r).doc, Origin(r).at)
          BY OriginIsDated
        <5>3. UNCHANGED <<lastIn, lastOut>>
          BY <3>2 DEF EdgeRefresh, history
        <5> QED
          BY <5>1, <5>2, <5>3 DEF Dated
      <4> QED
        BY <4>1, <4>2
    <3> QED
      BY <1>1, <3>1, <3>2
  <2> QED
    BY <1>0, <2>2, <2>3, <2>4, <2>5, CachesFrom
<1>2. CASE Tick
  <2>1. /\ UNCHANGED <<edge, shared, cached, reading, fetch>> /\ clock' = clock + 1
        /\ \A s \in Service :
             /\ reading[s].pc # "idle" => Now(s) < reading[s].now + Latency
             /\ fetch[s].pc # "idle" => Now(s) < fetch[s].now + Latency
    BY <1>2 DEF Tick, caches
  <2>2. ASSUME NEW s \in Service PROVE ReadIsDated(s)' /\ FetchIsDated(s)'
    <3>1. /\ Now(s)' = Now(s) + 1 /\ Now(s) \in Nat /\ Latency \in Nat
          /\ reading[s].now \in Int /\ fetch[s].now \in Int /\ reading[s].entry \in Entry
      <4>1. offset[s] \in Nat
        BY TimesAssumption
      <4> QED
        BY <1>0, <2>1, <4>1, LocalClock, TimesAssumption DEF Now, TypeOK, Read, Fetch
    <3>2. ReadIsDated(s)'
      <4>1. EntryIsDated(reading[s].entry)'
        BY <1>0, <2>1, <3>1, EntryStays DEF ReadIsDated, EntryIsDated, Dated
      <4>2. reading'[s] = reading[s] /\ NoRead' = NoRead
        BY <2>1 DEF NoRead, NoEntry, LongAgo
      <4>3. IF reading[s].pc = "idle" THEN reading[s] = NoRead
            ELSE reading[s].now <= Now(s) + 1 /\ Now(s) + 1 <= reading[s].now + Latency
        BY <1>0, <2>1, <3>1 DEF ReadIsDated
      <4> QED
        BY <3>1, <4>1, <4>2, <4>3 DEF ReadIsDated
    <3>3. FetchIsDated(s)'
      <4> DEFINE t == fetch[s].now - (MaxAge + SWR + Skew)
      <4>1. t \in Int
        BY <3>1, TimesAssumption
      <4>2. ASSUME fetch[s].pc # "idle"
            PROVE  fetch[s].now <= Now(s) + 1 /\ Now(s) + 1 <= fetch[s].now + Latency
        BY <1>0, <2>1, <3>1, <4>2 DEF FetchIsDated
      <4>3. ASSUME fetch[s].pc # "idle", fetch[s].pc # "sent"
            PROVE  \A k \in Kid : IF k \in fetch[s].doc THEN t <= lastIn'[k]
                                                        ELSE t <= lastOut'[k]
        <5>1. Dated(fetch[s].doc, t)
          BY <1>0, <4>3 DEF FetchIsDated
        <5> QED
          BY <1>0, <4>1, <5>1 DEF Dated, TypeOK
      <4> QED
        BY <2>1, <3>1, <4>2, <4>3 DEF FetchIsDated, Dated
    <3> QED
      BY <3>2, <3>3
  <2> QED
    BY <1>0, <2>1, <2>2, CachesFrom
<1>3. ASSUME NEW s \in Service,
             AskShared(s) \/ SharedHit(s) \/ SharedMiss(s) \/ FetchAnswered(s)
               \/ FetchFails(s) \/ StoreLocal(s) \/ StoreShared(s) \/ Restart(s)
      PROVE  CachesInv'
  <2>0. /\ UNCHANGED <<clock, edge, lastIn, lastOut>>
        /\ \A q \in Service : Now(q)' = Now(q)
        /\ \A q \in Service \ {s} :
             cached'[q] = cached[q] /\ reading'[q] = reading[q] /\ fetch'[q] = fetch[q]
        /\ \A q \in Service \ {s} : ReadIsDated(q)' /\ FetchIsDated(q)'
    <3>1. UNCHANGED <<clock, edge, lastIn, lastOut>>
      BY <1>3 DEF AskShared, SharedHit, SharedMiss, FetchAnswered, FetchFails,
         StoreLocal, StoreShared, Restart, elsewhere, history
    <3>2. \A q \in Service : Now(q)' = Now(q)
      BY <3>1 DEF Now
    <3>3. \A q \in Service \ {s} :
            cached'[q] = cached[q] /\ reading'[q] = reading[q] /\ fetch'[q] = fetch[q]
      BY <1>3 DEF AskShared, SharedHit, SharedMiss, FetchAnswered, FetchFails,
         StoreLocal, StoreShared, Restart, TypeOK
    <3> QED
      BY <1>0, <3>1, <3>2, <3>3, InFlightStays
  <2>1. /\ Now(s) \in Nat /\ clock <= Now(s) /\ Now(s) <= clock + Skew
        /\ reading[s] \in Read /\ fetch[s] \in Fetch /\ reading[s].entry \in Entry
        /\ reading[s].now \in Int /\ fetch[s].now \in Int
        /\ MaxAge \in Nat /\ SWR \in Nat /\ Skew \in Nat /\ Latency \in Nat /\ JwksTTL \in Nat
        /\ LongAgo \in Int
    BY LocalClock, TimesAssumption, EmptySlots DEF TypeOK, Read, Fetch
  <2>2. ASSUME NEW entry, EntryIsDated(entry) PROVE EntryIsDated(entry)'
    BY <2>0, <2>2 DEF EntryIsDated, Dated
  <2>3. ASSUME reading'[s] = reading[s] PROVE ReadIsDated(s)'
    BY <1>0, <2>0, <2>3, InFlightStays
  <2>4. ASSUME fetch'[s] = fetch[s] PROVE FetchIsDated(s)'
    BY <1>0, <2>0, <2>4, InFlightStays
  <2>5. ASSUME reading'[s] = NoRead PROVE ReadIsDated(s)'
    <3>1. EntryIsDated(NoEntry)
      BY EmptyIsDated
    <3> QED
      BY <2>0, <2>5, <3>1 DEF ReadIsDated, NoRead, NoEntry, LongAgo, EntryIsDated, Dated
  <2>6. ASSUME fetch'[s].pc = "idle" PROVE FetchIsDated(s)'
    BY <2>6 DEF FetchIsDated
  <2>7. CASE AskShared(s)
    <3>1. /\ reading'[s] = [pc |-> "asked", now |-> Now(s), entry |-> shared]
          /\ UNCHANGED <<shared, cached, fetch>>
      BY <2>7 DEF AskShared, TypeOK
    <3>2. EntryIsDated(shared)
      BY DEF CachesInv, CopiesAreDated
    <3>3. ReadIsDated(s)'
      BY <2>0, <2>1, <3>1, <3>2 DEF ReadIsDated, EntryIsDated, Dated
    <3> QED
      BY <1>0, <2>0, <2>4, <3>1, <3>3, CachesFrom
  <2>8. CASE SharedHit(s)
    <3>1. /\ cached'[s] = reading[s].entry /\ reading'[s] = NoRead
          /\ UNCHANGED <<shared, fetch>>
      BY <2>8 DEF SharedHit, TypeOK
    <3>2. EntryIsDated(reading[s].entry)
      BY <1>0 DEF ReadIsDated
    <3>3. EntryIsDated(cached[s])'
      BY <2>0, <3>1, <3>2 DEF EntryIsDated, Dated
    <3> QED
      BY <1>0, <2>0, <2>4, <2>5, <3>1, <3>3, CachesFrom
  <2>9. CASE SharedMiss(s)
    <3>1. /\ reading'[s] = NoRead /\ UNCHANGED <<shared, cached>> /\ reading[s].pc = "asked"
          /\ \/ fetch'[s] = fetch[s]
             \/ fetch'[s] = [NoFetch EXCEPT !.pc = "sent", !.now = reading[s].now]
      BY <2>9 DEF SharedMiss, TypeOK
    <3>2. FetchIsDated(s)'
      <4>1. CASE fetch'[s] = [NoFetch EXCEPT !.pc = "sent", !.now = reading[s].now]
        <5>1. fetch'[s].pc = "sent" /\ fetch'[s].now = reading[s].now
          BY <4>1 DEF NoFetch
        <5>2. reading[s].now <= Now(s) /\ Now(s) <= reading[s].now + Latency
          BY <1>0, <3>1 DEF ReadIsDated
        <5> QED
          BY <2>0, <5>1, <5>2 DEF FetchIsDated
      <4> QED
        BY <2>4, <3>1, <4>1
    <3> QED
      BY <1>0, <2>0, <2>5, <3>1, <3>2, CachesFrom
  <2>10. CASE FetchAnswered(s)
    <3>1. PICK copy \in Responses :
            fetch' = [fetch EXCEPT ![s].pc = "answered", ![s].doc = copy.doc]
      BY <2>10 DEF FetchAnswered
    <3>2. /\ fetch'[s].pc = "answered" /\ fetch'[s].doc = copy.doc
          /\ fetch'[s].now = fetch[s].now /\ fetch[s].pc = "sent"
          /\ UNCHANGED <<shared, cached, reading>>
      BY <2>10, <3>1 DEF FetchAnswered, TypeOK, Fetch
    <3>3. copy.at \in Int /\ clock - (MaxAge + SWR) <= copy.at /\ Dated(copy.doc, copy.at)
      BY ResponseIsDated DEF CachesInv
    <3>4. fetch[s].now <= Now(s) /\ Now(s) <= fetch[s].now + Latency
      BY <1>0, <3>2 DEF FetchIsDated
    <3>5. fetch[s].now - (MaxAge + SWR + Skew) <= copy.at
          /\ fetch[s].now - (MaxAge + SWR + Skew) \in Int
      BY <1>0, <2>1, <3>3, <3>4
    <3>6. Dated(copy.doc, fetch[s].now - (MaxAge + SWR + Skew))
      BY <3>3, <3>5 DEF Dated, TypeOK
    <3>7. FetchIsDated(s)'
      BY <2>0, <3>2, <3>4, <3>6 DEF FetchIsDated, Dated
    <3> QED
      BY <1>0, <2>0, <2>3, <3>2, <3>7, CachesFrom
  <2>11. CASE FetchFails(s)
    <3>1. fetch'[s].pc = "idle" /\ UNCHANGED <<shared, cached, reading>>
      BY <2>11 DEF FetchFails, TypeOK, NoFetch
    <3> QED
      BY <1>0, <2>0, <2>3, <2>6, <3>1, CachesFrom
  <2>12. ASSUME fetch[s].pc \in {"answered", "storing"} PROVE EntryIsDated(Filled(fetch[s]))
    <3>1. Dated(fetch[s].doc, fetch[s].now - (MaxAge + SWR + Skew))
      BY <1>0, <2>12 DEF FetchIsDated
    <3>2. fetch[s].now + JwksTTL - (MaxAge + SWR + JwksTTL + Skew)
            = fetch[s].now - (MaxAge + SWR + Skew)
      BY <2>1
    <3>3. /\ Filled(fetch[s]).doc = fetch[s].doc
          /\ Filled(fetch[s]).expiresAt = fetch[s].now + JwksTTL
      BY DEF Filled
    <3>4. ASSUME NEW k \in Kid
          PROVE  IF k \in fetch[s].doc
                 THEN fetch[s].now + JwksTTL - (MaxAge + SWR + JwksTTL + Skew) <= lastIn[k]
                 ELSE fetch[s].now + JwksTTL - (MaxAge + SWR + JwksTTL + Skew) <= lastOut[k]
      BY <3>1, <3>2 DEF Dated
    <3> QED
      BY <2>1, <3>3, <3>4 DEF EntryIsDated, Dated
  <2>13. CASE StoreLocal(s)
    <3>1. /\ cached'[s] = Filled(fetch[s]) /\ UNCHANGED <<shared, reading>>
          /\ fetch'[s].pc = "storing" /\ fetch'[s].doc = fetch[s].doc
          /\ fetch'[s].now = fetch[s].now /\ fetch[s].pc = "answered"
      BY <2>13 DEF StoreLocal, TypeOK, Fetch
    <3>2. EntryIsDated(cached[s])'
      BY <2>0, <2>12, <3>1 DEF EntryIsDated, Dated
    <3>3. FetchIsDated(s)'
      BY <1>0, <2>0, <3>1 DEF FetchIsDated, Dated
    <3> QED
      BY <1>0, <2>0, <2>3, <3>1, <3>2, <3>3, CachesFrom
  <2>14. CASE StoreShared(s)
    <3>1. /\ shared' = shared \/ shared' = Filled(fetch[s])
          /\ fetch'[s].pc = "idle" /\ fetch[s].pc = "storing" /\ UNCHANGED <<cached, reading>>
      BY <2>14 DEF StoreShared, TypeOK, NoFetch
    <3>2. shared' = shared \/ EntryIsDated(shared)'
      BY <2>0, <2>12, <3>1 DEF EntryIsDated, Dated
    <3> QED
      BY <1>0, <2>0, <2>3, <2>6, <3>1, <3>2, CachesFrom
  <2>15. CASE Restart(s)
    <3>1. /\ cached'[s] = NoEntry /\ reading'[s] = NoRead
          /\ fetch'[s].pc = "idle" /\ UNCHANGED shared
      BY <2>15 DEF Restart, TypeOK, NoFetch
    <3>2. EntryIsDated(cached[s])'
      BY <2>0, <3>1, EmptyIsDated DEF EntryIsDated, Dated, NoEntry, LongAgo
    <3> QED
      BY <1>0, <2>0, <2>5, <2>6, <3>1, <3>2, CachesFrom
  <2> QED
    BY <1>3, <2>7, <2>8, <2>9, <2>10, <2>11, <2>13, <2>14, <2>15
<1>4. CASE \/ \E k \in Kid : Revoke(k)
           \/ \E r \in Replica : \/ \E ks \in KeyLists : Deploy(r, ks)
                                 \/ IssueToken(r) \/ OpenSession(r)
           \/ \E x \in sessions : SessionIssuesToken(x) \/ CloseSession(x)
           \/ UNCHANGED vars
  <2>1. UNCHANGED <<clock, edge, shared, cached, reading, fetch>>
    BY <1>4 DEF Revoke, Deploy, IssueToken, OpenSession, SessionIssuesToken, CloseSession,
                Mint, caches, vars
  <2> QED
    BY <1>1, <2>1
<1>5. CASE Purge \/ \E r \in Replica, p \in PoP : EdgeRefresh(p, r)
  <2>1. UNCHANGED <<clock, reading, fetch>>
    BY <1>5 DEF Purge, EdgeRefresh
  <2> QED
    BY <1>1, <1>5, <2>1
<1> QED
  BY <1>2, <1>3, <1>4, <1>5 DEF Next

-----------------------------------------------------------------------------
(* The first state has empty caches and one key list everywhere.           *)
LEMMA InitInv ==
  ASSUME Init
  PROVE  RotationInv
<1> USE TimesAssumption, WindowAssumption
<1>0. /\ LongAgo \in Int /\ LongAgo <= 0 /\ LongAgo + Window = 0
      /\ InitKeys \in KeyLists /\ Signer(InitKeys) \in Kid
      /\ Signer(InitKeys) \in Published(InitKeys)
  BY KeyListsAssumption, SignerIsPublished DEF LongAgo
<1>1. LogIsCurrent
  BY <1>0 DEF Init, LogIsCurrent
<1>2. SignersArePrepared
  BY <1>0 DEF Init, SignersArePrepared, Prepared
<1>3. SessionsArePrepared
  BY DEF Init, SessionsArePrepared
<1>4. TokensArePrepared
  <2> SUFFICES ASSUME NEW k \in Kid
               PROVE  /\ outstanding[k] <= lastSign[k] + SessionLife + TokenTTL + Skew
                      /\ ~(outstanding[k] > clock)
    BY DEF TokensArePrepared
  <2>1. outstanding[k] = LongAgo /\ (lastSign[k] = 0 \/ lastSign[k] = LongAgo) /\ clock = 0
    BY DEF Init
  <2> QED
    BY <1>0, <2>1
<1>5. TypeOK
  BY EmptySlots, KeyListsAssumption DEF Init, TypeOK
<1>6. Dated({}, LongAgo) /\ EntryIsDated(NoEntry)
  BY <1>1, <1>5, EmptyIsDated
<1>7. CopiesAreDated
  BY <1>6 DEF Init, CopiesAreDated, NoCopy
<1>8. ReadsAreDated
  BY <1>6 DEF Init, ReadsAreDated, NoRead
<1>9. FetchesAreDated
  BY DEF Init, FetchesAreDated, NoFetch
<1> QED
  BY <1>1, <1>2, <1>3, <1>4, <1>7, <1>8, <1>9 DEF RotationInv

(* The inductive invariant: provided the window also covers what broker    *)
(* sessions still mint, a key signs only when no cache can still serve a   *)
(* document without it, and is dropped only when its tokens are spent.     *)
THEOREM RotationInvariant ==
  ASSUME WindowCoversSessions
  PROVE  Spec => []RotationInv
<1>1. Init => RotationInv
  BY InitInv
<1>2. TypeOK /\ TypeOK' /\ RotationInv /\ [Next]_vars => RotationInv'
  <2> SUFFICES ASSUME TypeOK, TypeOK', RotationInv, [Next]_vars PROVE RotationInv'
    OBVIOUS
  <2>1. FleetInv'
    BY FleetStep DEF RotationInv, FleetInv
  <2>2. CachesInv'
    BY <2>1, CachesStep DEF RotationInv, FleetInv, CachesInv
  <2> QED
    BY <2>1, <2>2 DEF RotationInv, FleetInv, CachesInv
<1> QED
  BY <1>1, <1>2, TypeCorrect, PTL DEF Spec

(* A document any resolver may hand out is dated within StaleBound.        *)
LEMMA ResolvedIsDated ==
  ASSUME TypeOK, CachesInv, NEW s \in Service, NEW doc, MayResolve(s, doc), NEW k \in Kid
  PROVE  IF k \in doc THEN clock < lastIn[k] + StaleBound ELSE clock < lastOut[k] + StaleBound
<1> DEFINE age == MaxAge + SWR + JwksTTL + Skew
<1>0. /\ clock \in Nat /\ Now(s) \in Nat /\ clock <= Now(s)
      /\ lastIn[k] \in Int /\ lastOut[k] \in Int
      /\ MaxAge \in Nat /\ SWR \in Nat /\ JwksTTL \in Nat \ {0} /\ Skew \in Nat /\ Latency \in Nat
      /\ StaleBound = age + Latency
      /\ reading[s] \in Read /\ reading[s].entry \in Entry /\ cached[s] \in Entry
      /\ fetch[s].now \in Int
  BY LocalClock, TimesAssumption DEF TypeOK, StaleBound, Read, Fetch
<1>1. CASE Live(cached[s], Now(s)) /\ doc = cached[s].doc
  <2>1. cached[s].expiresAt > Now(s) /\ cached[s].expiresAt \in Int
    BY <1>0, <1>1 DEF Live, Entry
  <2>2. Dated(cached[s].doc, cached[s].expiresAt - age)
    BY DEF CachesInv, CopiesAreDated, EntryIsDated
  <2>3. IF k \in doc THEN cached[s].expiresAt - age <= lastIn[k]
                     ELSE cached[s].expiresAt - age <= lastOut[k]
    BY <1>1, <2>2 DEF Dated
  <2> QED
    BY <1>0, <2>1, <2>3
<1>2. CASE Live(reading[s].entry, reading[s].now) /\ doc = reading[s].entry.doc
  <2>1. reading[s].entry.expiresAt > reading[s].now
        /\ reading[s].entry.expiresAt \in Int /\ reading[s].now \in Int
    BY <1>0, <1>2 DEF Live, Entry, Read
  <2>2. Dated(reading[s].entry.doc, reading[s].entry.expiresAt - age)
    BY DEF CachesInv, ReadsAreDated, EntryIsDated
  <2>3. IF k \in doc THEN reading[s].entry.expiresAt - age <= lastIn[k]
                     ELSE reading[s].entry.expiresAt - age <= lastOut[k]
    BY <1>2, <2>2 DEF Dated
  <2>4. reading[s].pc # "idle"
    BY <2>1 DEF CachesInv, ReadsAreDated, NoRead, NoEntry
  <2>5. Now(s) <= reading[s].now + Latency
    BY <2>4 DEF CachesInv, ReadsAreDated
  <2> QED
    BY <1>0, <2>1, <2>3, <2>5
<1>3. CASE fetch[s].pc \in {"answered", "storing"} /\ doc = fetch[s].doc
  <2>1. /\ Now(s) <= fetch[s].now + Latency
        /\ Dated(fetch[s].doc, fetch[s].now - (MaxAge + SWR + Skew))
    BY <1>3 DEF CachesInv, FetchesAreDated
  <2>2. IF k \in doc THEN fetch[s].now - (MaxAge + SWR + Skew) <= lastIn[k]
                     ELSE fetch[s].now - (MaxAge + SWR + Skew) <= lastOut[k]
    BY <1>3, <2>1 DEF Dated
  <2> QED
    BY <1>0, <2>1, <2>2
<1> QED
  BY <1>1, <1>2, <1>3 DEF MayResolve

(* Rotation rejects no valid token: with a window longer than StaleBound   *)
(* that also covers broker sessions, a token that has not expired at a     *)
(* service never meets a key set without its kid there.                    *)
THEOREM RotationRejectsNoValidToken ==
  ASSUME WindowCoversSessions
  PROVE  Spec => []OutstandingTokensVerify
<1>1. TypeOK /\ RotationInv => OutstandingTokensVerify
  <2> SUFFICES ASSUME TypeOK, RotationInv,
                      NEW s \in Service, NEW k \in Kid \ revoked, NEW doc \in SUBSET Kid,
                      outstanding[k] > Now(s), MayResolve(s, doc), k \notin doc
               PROVE  FALSE
    BY DEF OutstandingTokensVerify
  <2>1. clock < lastOut[k] + StaleBound
    BY ResolvedIsDated DEF RotationInv, CachesInv
  <2>2. outstanding[k] > clock
    <3>1. outstanding[k] \in Int /\ clock \in Nat /\ Now(s) \in Nat /\ clock <= Now(s)
      BY LocalClock DEF TypeOK
    <3> QED
      BY <3>1
  <2>3. lastOut[k] + Window <= clock
    BY <2>2 DEF RotationInv, TokensArePrepared, Prepared
  <2>4. /\ Window >= StaleBound /\ Window \in Int /\ StaleBound \in Int
        /\ lastOut[k] \in Int /\ clock \in Int
    BY WindowAssumption, TimesAssumption DEF TypeOK, StaleBound
  <2> QED
    BY <2>1, <2>3, <2>4
<1> QED
  BY <1>1, TypeCorrect, RotationInvariant, PTL

(* Trust in a key ends StaleBound after the last replica published it, at  *)
(* every service and whichever copies lie between: with any window, for    *)
(* this needs no discipline of the operator.                               *)
THEOREM TrustInRetiredKeysEnds == Spec => []RetiredKeysExpire
<1> DEFINE Inv == LogIsCurrent /\ CachesInv
<1>1. Init => Inv
  BY InitInv DEF RotationInv, CachesInv
<1>2. TypeOK /\ TypeOK' /\ Inv /\ [Next]_vars => Inv'
  BY HistoryAdvances, CachesStep
<1>3. TypeOK /\ Inv => RetiredKeysExpire
  BY ResolvedIsDated DEF RetiredKeysExpire
<1> QED
  BY <1>1, <1>2, <1>3, TypeCorrect, PTL DEF Spec

=============================================================================
