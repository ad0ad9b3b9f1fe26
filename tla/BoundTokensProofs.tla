-------------------------- MODULE BoundTokensProofs --------------------------
(***************************************************************************)
(* Proofs about the tokens a service calls with while its credential is    *)
(* rotated: a withdrawn key gets no tokens for long, a session is opened   *)
(* with a proof by the key that signed for its token, and who can prove    *)
(* possession never falls back to a token that needs no proof.             *)
(*                                                                         *)
(* The argument follows the tokens: wherever one is (in the answer, the    *)
(* provider, the shared cache, or the session being opened), what it is    *)
(* bound to is what it was asked with; and whatever an isolate that can    *)
(* prove has come by is bound, because the request it waits on is signed   *)
(* with a key and its partition of the cache holds bound tokens only.  The *)
(* plane's discovery is at most as stale as it is old.                     *)
(***************************************************************************)
EXTENDS BoundTokens, TLAPS

PublishedAreCurrent == \A k \in published : gone[k] = 0

RegistryIsAsStaleAsOld == \A k \in registry.keys : gone[k] + registry.left <= RegistryTtl

\* The token is bound to what it was asked with, and not at all to a secret.
IsTrue(token) ==
  token # None => token.jkt = IF token.asked = Secret THEN None ELSE token.asked

IsBound(token) == token # None => token.jkt # None

SharedAreTrue ==
  /\ \A bound \in BOOLEAN : IsTrue(shared[bound])
  /\ IsBound(shared[TRUE])

HoldsAToken(i) ==
  caller[i].at \in {"writing", "proving", "presenting"} => caller[i].token # None

TokensAreTrue(i) == IsTrue(kept[i]) /\ IsTrue(caller[i].token)

ProversAreBound(i) ==
  credential[i] \in Key =>
    /\ IsBound(kept[i]) /\ IsBound(caller[i].token)
    /\ caller[i].at = "asking" => caller[i].signed \in Key

PerIsolate(i) == HoldsAToken(i) /\ TokensAreTrue(i) /\ ProversAreBound(i)

TokenInv ==
  /\ TypeOK
  /\ PublishedAreCurrent
  /\ RegistryIsAsStaleAsOld
  /\ SharedAreTrue
  /\ \A i \in Isolate : PerIsolate(i)

-----------------------------------------------------------------------------
(* Types, by the names the steps below use for them. *)

Place == {"idle", "resting", "reading", "asking", "writing", "proving", "presenting"}

Caller == [at : Place, waited : 0..Patience, token : Token \union {None},
           signed : Credential \union {None}]

Assertion == [from : Isolate, id : Credential, key : Credential, age : 0..AssertionTtl]

LEMMA Constants ==
  /\ Secret \notin Key /\ None \notin Key /\ None # Secret /\ None \notin Token
  /\ TokenTtl \in Nat \ {0} /\ AssertionTtl \in Nat \ {0} /\ RegistryTtl \in Nat \ {0}
  /\ Patience \in Nat
BY CredentialAssumption, TimeAssumption DEF Credential

LEMMA Typed ==
  ASSUME TypeOK
  PROVE  /\ credential \in [Isolate -> Credential] /\ keyId \in [Isolate -> Credential]
         /\ published \subseteq Key
         /\ gone \in [Key -> 0..Horizon]
         /\ registry.keys \subseteq Key /\ registry.left \in 0..RegistryTtl
         /\ kept \in [Isolate -> Token \union {None}]
         /\ shared \in [BOOLEAN -> Token \union {None}]
         /\ caller \in [Isolate -> Caller]
         /\ wire \subseteq Assertion
BY DEF TypeOK, Caller, Place, Assertion

LEMMA AgedIsAToken ==
  ASSUME NEW token \in Token
  PROVE  /\ Aged(token) \in Token
         /\ Aged(token).jkt = token.jkt /\ Aged(token).asked = token.asked
BY Constants DEF Aged, Token

\* A token keeps what it is bound to as it ages.
LEMMA AgedIsAsTrue ==
  ASSUME NEW token \in Token
  PROVE  /\ IsTrue(token) => IsTrue(Aged(token))
         /\ IsBound(token) => IsBound(Aged(token))
BY AgedIsAToken, Constants DEF IsTrue, IsBound

LEMMA NoneIsTrue == IsTrue(None) /\ IsBound(None)
BY DEF IsTrue, IsBound

LEMMA PlacesAreCallers ==
  /\ Idle \in Caller /\ Resting \in Caller
  /\ \A at \in Place, token \in Token \union {None}, signed \in Credential \union {None} :
       [at |-> at, waited |-> 0, token |-> token, signed |-> signed] \in Caller
  /\ Idle.at = "idle" /\ Resting.at = "resting"
  /\ Idle.token = None /\ Resting.token = None
BY Constants DEF Idle, Resting, Caller, Place

-----------------------------------------------------------------------------
LEMMA InitToken == Init => TokenInv
<1> SUFFICES ASSUME Init PROVE TokenInv
  OBVIOUS
<1>1. /\ credential \in [Isolate -> Credential] /\ keyId \in [Isolate -> Credential]
      /\ published \subseteq Key
      /\ registry.keys = {} /\ registry.left = 0
      /\ kept = [i \in Isolate |-> None]
      /\ shared = [bound \in BOOLEAN |-> None]
      /\ caller = [i \in Isolate |-> Idle]
      /\ wire = {}
  BY CredentialAssumption DEF Init
<1>2. gone \in [Key -> 0..Horizon] /\ PublishedAreCurrent
  BY <1>1, Constants DEF Init, Horizon, PublishedAreCurrent
<1>3. caller \in [Isolate -> Caller]
  BY <1>1, PlacesAreCallers
<1>4. TypeOK
  BY <1>1, <1>2, <1>3, Constants DEF TypeOK, Caller, Place
<1>5. RegistryIsAsStaleAsOld /\ SharedAreTrue
  BY <1>1, NoneIsTrue DEF RegistryIsAsStaleAsOld, SharedAreTrue
<1>6. ASSUME NEW i \in Isolate PROVE PerIsolate(i)
  BY <1>1, NoneIsTrue, PlacesAreCallers DEF PerIsolate, HoldsAToken, TokensAreTrue,
     ProversAreBound
<1> QED
  BY <1>2, <1>4, <1>5, <1>6 DEF TokenInv

-----------------------------------------------------------------------------
(* What steps have in common. *)

\* What the plane and the fleet know of published keys, over a step that leaves
\* them alone.
LEMMA KeysKeep ==
  ASSUME TokenInv, UNCHANGED <<published, gone, registry>>
  PROVE  PublishedAreCurrent' /\ RegistryIsAsStaleAsOld'
BY DEF TokenInv, PublishedAreCurrent, RegistryIsAsStaleAsOld

LEMMA SharedKeeps ==
  ASSUME TokenInv, UNCHANGED shared
  PROVE  SharedAreTrue'
BY DEF TokenInv, SharedAreTrue

\* What is true of an isolate stays true if a step leaves it alone.
LEMMA OthersKeep ==
  ASSUME TokenInv, NEW i \in Isolate,
         credential'[i] = credential[i], kept'[i] = kept[i], caller'[i] = caller[i]
  PROVE  PerIsolate(i)'
BY DEF TokenInv, PerIsolate, HoldsAToken, TokensAreTrue, ProversAreBound

\* Or if the step leaves it without a session.
LEMMA EndedKeeps ==
  ASSUME TokenInv, NEW i \in Isolate,
         credential'[i] = credential[i], kept'[i] = kept[i],
         caller'[i] = Idle \/ caller'[i] = Resting
  PROVE  PerIsolate(i)'
BY PlacesAreCallers, NoneIsTrue DEF TokenInv, PerIsolate, HoldsAToken, TokensAreTrue,
   ProversAreBound

\* The step of a caller, and the answer to it, keep what is known if they keep
\* what is shared.
fleet == <<credential, keyId, published, gone>>

LEMMA CallerSteps ==
  ASSUME TokenInv, UNCHANGED fleet,
         registry'.keys \subseteq Key, registry'.left \in 0..RegistryTtl,
         RegistryIsAsStaleAsOld',
         shared' \in [BOOLEAN -> Token \union {None}], SharedAreTrue',
         wire' \subseteq Assertion,
         NEW i \in Isolate, NEW c \in Caller, NEW k \in Token \union {None},
         caller' = [caller EXCEPT ![i] = c], kept' = [kept EXCEPT ![i] = k],
         IsTrue(k), IsTrue(c.token),
         credential[i] \in Key =>
           IsBound(k) /\ IsBound(c.token) /\ (c.at = "asking" => c.signed \in Key),
         c.at \in {"writing", "proving", "presenting"} => c.token # None
  PROVE  TokenInv'
<1>0. kept \in [Isolate -> Token \union {None}] /\ caller \in [Isolate -> Caller]
  BY Typed DEF TokenInv
<1>1. TypeOK'
  <2>1. kept' \in [Isolate -> Token \union {None}] /\ caller' \in [Isolate -> Caller]
    BY <1>0
  <2> QED
    BY <2>1 DEF TokenInv, TypeOK, fleet, Caller, Place, Assertion
<1>2. PublishedAreCurrent'
  BY DEF TokenInv, PublishedAreCurrent, fleet
<1>3. ASSUME NEW p \in Isolate PROVE PerIsolate(p)'
  <2>1. CASE p = i
    <3>1. caller'[i] = c /\ kept'[i] = k /\ credential'[i] = credential[i]
      BY <1>0 DEF fleet
    <3> QED
      BY <2>1, <3>1 DEF PerIsolate, HoldsAToken, TokensAreTrue, ProversAreBound
  <2>2. CASE p # i
    BY <1>0, <2>2, OthersKeep DEF fleet
  <2> QED
    BY <2>1, <2>2
<1> QED
  BY <1>1, <1>2, <1>3 DEF TokenInv

\* Of the caller alone.
outside == <<fleet, registry, shared>>

LEMMA CallerAlone ==
  ASSUME TokenInv, UNCHANGED outside, wire' \subseteq Assertion,
         NEW i \in Isolate, NEW c \in Caller, NEW k \in Token \union {None},
         caller' = [caller EXCEPT ![i] = c], kept' = [kept EXCEPT ![i] = k],
         IsTrue(k), IsTrue(c.token),
         credential[i] \in Key =>
           IsBound(k) /\ IsBound(c.token) /\ (c.at = "asking" => c.signed \in Key),
         c.at \in {"writing", "proving", "presenting"} => c.token # None
  PROVE  TokenInv'
<1>1. TypeOK
  BY DEF TokenInv
<1>2. RegistryIsAsStaleAsOld' /\ SharedAreTrue'
  BY KeysKeep, SharedKeeps DEF outside, fleet
<1>3. /\ registry'.keys \subseteq Key /\ registry'.left \in 0..RegistryTtl
      /\ shared' \in [BOOLEAN -> Token \union {None}]
  BY <1>1, Typed DEF outside
<1> QED
  BY <1>2, <1>3, CallerSteps DEF outside

\* A caller that ends, keeping its token.
LEMMA EndsKeeps ==
  ASSUME TokenInv, NEW i \in Isolate, Ends(i), UNCHANGED <<outside, kept, wire>>
  PROVE  TokenInv'
<1>1. TypeOK
  BY DEF TokenInv
<1>2. kept' = [kept EXCEPT ![i] = kept[i]] /\ kept[i] \in Token \union {None}
      /\ wire' \subseteq Assertion
  BY <1>1, Typed
<1>3. IsTrue(kept[i]) /\ (credential[i] \in Key => IsBound(kept[i]))
  BY DEF TokenInv, PerIsolate, TokensAreTrue, ProversAreBound
<1> QED
  BY <1>2, <1>3, PlacesAreCallers, NoneIsTrue, CallerAlone DEF Ends

\* A caller that goes on with a token that is as good as its own.
LEMMA GoesKeeps ==
  ASSUME TokenInv, NEW i \in Isolate, NEW at \in {"reading", "proving"},
         NEW token \in Token \union {None}, NEW k \in Token \union {None},
         kept' = [kept EXCEPT ![i] = k], Goes(i, at, token),
         UNCHANGED <<outside, wire>>,
         IsTrue(k), IsTrue(token),
         credential[i] \in Key => IsBound(k) /\ IsBound(token),
         at = "proving" => token # None
  PROVE  TokenInv'
<1> DEFINE c == [at |-> at, waited |-> 0, token |-> token, signed |-> None]
<1>1. at \in Place
  BY DEF Place
<1>2. c \in Caller /\ c.at = at /\ c.token = token /\ caller' = [caller EXCEPT ![i] = c]
  BY <1>1, PlacesAreCallers DEF Goes
<1>3. wire' \subseteq Assertion
  BY Typed DEF TokenInv
<1> HIDE DEF c
<1> QED
  BY <1>2, <1>3, CallerAlone

-----------------------------------------------------------------------------
(* One lemma per step of a caller. *)

LEMMA AskKeeps ==
  ASSUME TokenInv, NEW i \in Isolate, Ask(i)
  PROVE  TokenInv'
<1>1. kept \in [Isolate -> Token \union {None}]
  BY Typed DEF TokenInv
<1>2. kept' = [kept EXCEPT ![i] = kept[i]] /\ kept[i] \in Token \union {None}
      /\ UNCHANGED <<outside, wire>>
  BY <1>1 DEF Ask, outside, fleet
<1>3. IsTrue(kept[i]) /\ (credential[i] \in Key => IsBound(kept[i]))
  BY DEF TokenInv, PerIsolate, TokensAreTrue, ProversAreBound
<1>4. CASE kept[i] # None
  BY <1>2, <1>3, <1>4, GoesKeeps DEF Ask
<1>5. CASE kept[i] = None
  BY <1>2, <1>3, <1>5, NoneIsTrue, GoesKeeps DEF Ask
<1> QED
  BY <1>4, <1>5

\* What an isolate finds in its partition of the shared cache it may use.
LEMMA PartitionIsTrue ==
  ASSUME TokenInv, NEW i \in Isolate
  PROVE  /\ Partition(i) \in BOOLEAN
         /\ shared[Partition(i)] \in Token \union {None}
         /\ IsTrue(shared[Partition(i)])
         /\ credential[i] \in Key => IsBound(shared[Partition(i)])
<1>1. shared \in [BOOLEAN -> Token \union {None}]
  BY Typed DEF TokenInv
<1>2. Partition(i) \in BOOLEAN /\ (credential[i] \in Key => Partition(i) = TRUE)
  BY DEF Partition
<1> QED
  BY <1>1, <1>2 DEF TokenInv, SharedAreTrue

LEMMA ReadSharedKeeps ==
  ASSUME TokenInv, NEW i \in Isolate, ReadShared(i)
  PROVE  TokenInv'
<1>1. shared[Partition(i)] # None
  BY DEF ReadShared, IsUsable
<1>2. kept' = [kept EXCEPT ![i] = shared[Partition(i)]] /\ Goes(i, "proving", shared[Partition(i)])
      /\ UNCHANGED <<outside, wire>>
  BY DEF ReadShared, outside, fleet
<1> QED
  BY <1>1, <1>2, PartitionIsTrue, GoesKeeps

LEMMA SendRequestKeeps ==
  ASSUME TokenInv, NEW i \in Isolate, SendRequest(i)
  PROVE  TokenInv'
<1> DEFINE c == [at |-> "asking", waited |-> 0, token |-> None, signed |-> credential[i]]
<1>1. TypeOK
  BY DEF TokenInv
<1>2. credential[i] \in Credential /\ keyId[i] \in Credential
      /\ kept \in [Isolate -> Token \union {None}]
  BY <1>1, Typed
<1>3. Signed(i) \in Assertion
  BY <1>2, Constants DEF Signed, Assertion
<1>4. c \in Caller
  BY <1>2, PlacesAreCallers DEF Place
<1>5. c.token = None /\ c.at = "asking" /\ c.signed = credential[i]
  OBVIOUS
<1>6. /\ kept' = [kept EXCEPT ![i] = kept[i]] /\ kept[i] \in Token \union {None}
      /\ caller' = [caller EXCEPT ![i] = c]
      /\ wire' = {Signed(i)} /\ UNCHANGED outside
  BY <1>2 DEF SendRequest, outside, fleet
<1>7. IsTrue(kept[i]) /\ (credential[i] \in Key => IsBound(kept[i]))
  BY DEF TokenInv, PerIsolate, TokensAreTrue, ProversAreBound
<1> HIDE DEF c
<1> QED
  BY <1>3, <1>4, <1>5, <1>6, <1>7, NoneIsTrue, CallerAlone

LEMMA GiveUpKeeps ==
  ASSUME TokenInv, NEW i \in Isolate, GiveUp(i)
  PROVE  TokenInv'
BY EndsKeeps DEF GiveUp, outside, fleet

LEMMA PresentKeeps ==
  ASSUME TokenInv, NEW i \in Isolate, Present(i)
  PROVE  TokenInv'
BY EndsKeeps DEF Present, outside, fleet

\* The token an isolate goes on with is its own, so it may be shared where only
\* those look for it who could have asked for it.
LEMMA WriteSharedKeeps ==
  ASSUME TokenInv, NEW i \in Isolate, WriteShared(i)
  PROVE  TokenInv'
<1> DEFINE token == caller[i].token
           c == [at |-> "proving", waited |-> 0, token |-> token, signed |-> None]
<1>1. TypeOK /\ kept \in [Isolate -> Token \union {None}] /\ caller \in [Isolate -> Caller]
      /\ shared \in [BOOLEAN -> Token \union {None}] /\ wire \subseteq Assertion
      /\ registry.keys \subseteq Key /\ registry.left \in 0..RegistryTtl
  BY Typed DEF TokenInv
<1>2. token \in Token \union {None} /\ token # None /\ IsTrue(token)
      /\ (credential[i] \in Key => IsBound(token))
  BY <1>1 DEF Caller, TokenInv, PerIsolate, HoldsAToken, TokensAreTrue, ProversAreBound,
     WriteShared
<1>3. c \in Caller /\ c.at = "proving" /\ c.token = token /\ caller' = [caller EXCEPT ![i] = c]
  BY <1>2, PlacesAreCallers DEF Place, WriteShared, Goes
<1>4. /\ kept' = [kept EXCEPT ![i] = kept[i]] /\ kept[i] \in Token \union {None}
      /\ UNCHANGED <<fleet, registry, wire>>
      /\ shared' \in {shared, [shared EXCEPT ![Partition(i)] = token]}
  BY <1>1 DEF WriteShared, fleet
<1>5. IsTrue(kept[i]) /\ (credential[i] \in Key => IsBound(kept[i]))
  BY DEF TokenInv, PerIsolate, TokensAreTrue, ProversAreBound
<1>6. Partition(i) \in BOOLEAN /\ (Partition(i) = TRUE => credential[i] \in Key)
  BY DEF Partition
<1>7. shared' \in [BOOLEAN -> Token \union {None}]
  BY <1>1, <1>2, <1>4
<1> HIDE DEF token, c
<1>8. SharedAreTrue'
  <2>1. ASSUME NEW bound \in BOOLEAN
        PROVE  shared'[bound] = shared[bound] \/ (bound = Partition(i) /\ shared'[bound] = token)
    BY <1>1, <1>4, <1>6
  <2>2. ASSUME NEW bound \in BOOLEAN PROVE IsTrue(shared'[bound])
    BY <1>2, <2>1 DEF TokenInv, SharedAreTrue
  <2>3. IsBound(shared'[TRUE])
    BY <1>2, <1>6, <2>1 DEF TokenInv, SharedAreTrue
  <2> QED
    BY <2>2, <2>3 DEF SharedAreTrue, IsTrue, IsBound
<1>9. RegistryIsAsStaleAsOld'
  BY <1>4, KeysKeep DEF fleet
<1> QED
  BY <1>1, <1>2, <1>3, <1>4, <1>5, <1>7, <1>8, <1>9, CallerSteps

LEMMA ProveKeeps ==
  ASSUME TokenInv, NEW i \in Isolate, Prove(i)
  PROVE  TokenInv'
<1> DEFINE token == caller[i].token
           proves == token.jkt # None /\ credential[i] \in Key
           proof == IF proves THEN credential[i] ELSE None
           c == [at |-> "presenting", waited |-> 0, token |-> token, signed |-> proof]
<1>1. TypeOK /\ kept \in [Isolate -> Token \union {None}] /\ caller \in [Isolate -> Caller]
      /\ wire \subseteq Assertion /\ credential \in [Isolate -> Credential]
  BY Typed DEF TokenInv
<1>2. token \in Token \union {None} /\ token # None /\ IsTrue(token)
      /\ (credential[i] \in Key => IsBound(token))
  BY <1>1 DEF Caller, TokenInv, PerIsolate, HoldsAToken, TokensAreTrue, ProversAreBound, Prove
<1>3. UNCHANGED <<outside, kept, wire>>
  BY DEF Prove, outside, fleet
<1>4. CASE Ends(i)
  BY <1>3, <1>4, EndsKeeps
<1>5. CASE caller' = [caller EXCEPT ![i] = c]
  <2>1. proof \in Credential \union {None}
    BY <1>1
  <2>2. c \in Caller /\ c.at = "presenting" /\ c.token = token
    BY <1>2, <2>1, PlacesAreCallers DEF Place
  <2>3. kept' = [kept EXCEPT ![i] = kept[i]] /\ kept[i] \in Token \union {None}
    BY <1>1, <1>3
  <2>4. IsTrue(kept[i]) /\ (credential[i] \in Key => IsBound(kept[i]))
    BY DEF TokenInv, PerIsolate, TokensAreTrue, ProversAreBound
  <2> HIDE DEF token, c
  <2> QED
    BY <1>1, <1>2, <1>3, <1>5, <2>2, <2>3, <2>4, CallerAlone
<1> QED
  BY <1>4, <1>5 DEF Prove

-----------------------------------------------------------------------------
(* The plane.  What it knows of the caller's keys it discovered no longer   *)
(* ago than it may keep a discovery, and it issues to whom it authenticates.*)

LEMMA KnownAreKeys ==
  ASSUME TokenInv
  PROVE  /\ Known \subseteq Key
         /\ \A k \in Known : gone[k] <= RegistryTtl
<1>1. TypeOK /\ published \subseteq Key /\ registry.keys \subseteq Key
      /\ registry.left \in 0..RegistryTtl /\ gone \in [Key -> 0..Horizon]
  BY Typed DEF TokenInv
<1>2. \A k \in published : gone[k] <= RegistryTtl
  BY Constants DEF TokenInv, PublishedAreCurrent
<1>3. \A k \in registry.keys : gone[k] <= RegistryTtl
  BY <1>1, Constants DEF TokenInv, RegistryIsAsStaleAsOld, Horizon
<1> QED
  BY <1>1, <1>2, <1>3 DEF Known

LEMMA DiscoverKeeps ==
  ASSUME TokenInv, NEW assertion, Discover(assertion), UNCHANGED gone
  PROVE  /\ registry'.keys \subseteq Key /\ registry'.left \in 0..RegistryTtl
         /\ RegistryIsAsStaleAsOld'
<1>1. published \subseteq Key /\ registry.keys \subseteq Key
      /\ registry.left \in 0..RegistryTtl
  BY Typed DEF TokenInv
<1>2. CASE registry' = registry
  BY <1>1, <1>2 DEF TokenInv, RegistryIsAsStaleAsOld
<1>3. CASE registry' = [keys |-> published, left |-> RegistryTtl]
  BY <1>1, <1>3, Constants DEF TokenInv, PublishedAreCurrent, RegistryIsAsStaleAsOld
<1> QED
  BY <1>2, <1>3 DEF Discover

\* A token is bound to the credential that its request is signed with, if that is
\* a key.
LEMMA IssuedIsTrue ==
  ASSUME TokenInv, NEW assertion \in wire, Authenticates(assertion)
  PROVE  /\ Issue(assertion) \in Token /\ IsTrue(Issue(assertion))
         /\ assertion.key \in Key => IsBound(Issue(assertion))
<1>1. assertion \in Assertion
  BY Typed DEF TokenInv
<1>2. assertion.key \in Credential
  BY <1>1 DEF Assertion
<1>3. CASE assertion.key = Secret
  BY <1>2, <1>3, Constants DEF Issue, Confirmation, Token, IsTrue, IsBound, Credential
<1>4. CASE assertion.key # Secret
  <2>1. assertion.id \in Key /\ assertion.key = assertion.id
    BY <1>4, KnownAreKeys DEF Authenticates, AcceptsHmac, AcceptsJwk
  <2> QED
    BY <1>2, <1>4, <2>1, Constants DEF Issue, Confirmation, Token, IsTrue, IsBound
<1> QED
  BY <1>3, <1>4

LEMMA AuthenticateKeeps ==
  ASSUME TokenInv, NEW i \in Isolate, Authenticate(i)
  PROVE  TokenInv'
<1>1. PICK assertion \in wire :
        /\ Authenticates(assertion)
        /\ Discover(assertion)
        /\ IF Awaits(i, assertion)
           THEN /\ kept' = [kept EXCEPT ![i] = Issue(assertion)]
                /\ Goes(i, "writing", Issue(assertion))
           ELSE UNCHANGED <<kept, caller>>
  BY DEF Authenticate
<1>2. UNCHANGED <<fleet, shared, wire>>
  BY DEF Authenticate, fleet
<1>3. TypeOK /\ kept \in [Isolate -> Token \union {None}] /\ caller \in [Isolate -> Caller]
      /\ shared \in [BOOLEAN -> Token \union {None}] /\ wire \subseteq Assertion
  BY Typed DEF TokenInv
<1>4. /\ registry'.keys \subseteq Key /\ registry'.left \in 0..RegistryTtl
      /\ RegistryIsAsStaleAsOld' /\ SharedAreTrue'
  BY <1>1, <1>2, DiscoverKeeps, SharedKeeps DEF fleet
<1>5. CASE Awaits(i, assertion)
  <2> DEFINE token == Issue(assertion)
             c == [at |-> "writing", waited |-> 0, token |-> token, signed |-> None]
  <2>1. token \in Token /\ IsTrue(token) /\ token # None
        /\ (assertion.key \in Key => IsBound(token))
    BY <1>1, IssuedIsTrue, Constants
  <2>2. credential[i] \in Key => assertion.key \in Key
    BY <1>5 DEF Awaits, TokenInv, PerIsolate, ProversAreBound
  <2>3. c \in Caller /\ c.at = "writing" /\ c.token = token
    BY <2>1, PlacesAreCallers DEF Place
  <2>4. caller' = [caller EXCEPT ![i] = c] /\ kept' = [kept EXCEPT ![i] = token]
    BY <1>1, <1>5 DEF Goes
  <2> HIDE DEF token, c
  <2> QED
    BY <1>2, <1>3, <1>4, <2>1, <2>2, <2>3, <2>4, CallerSteps
<1>6. CASE ~Awaits(i, assertion)
  <2>1. UNCHANGED <<kept, caller>>
    BY <1>1, <1>6
  <2>2. TypeOK'
    BY <1>2, <1>3, <1>4, <2>1 DEF TypeOK, fleet
  <2>3. PublishedAreCurrent'
    BY <1>2 DEF TokenInv, PublishedAreCurrent, fleet
  <2>4. \A p \in Isolate : PerIsolate(p)'
    BY <1>2, <2>1, OthersKeep DEF fleet
  <2> QED
    BY <1>4, <2>2, <2>3, <2>4 DEF TokenInv
<1> QED
  BY <1>5, <1>6

LEMMA RefuseKeeps ==
  ASSUME TokenInv, NEW i \in Isolate, Refuse(i)
  PROVE  TokenInv'
<1>1. PICK assertion \in wire :
        Discover(assertion) /\ IF Awaits(i, assertion) THEN Ends(i) ELSE UNCHANGED caller
  BY DEF Refuse
<1>2. UNCHANGED <<fleet, kept, shared, wire>>
  BY DEF Refuse, fleet
<1>3. TypeOK /\ caller \in [Isolate -> Caller]
  BY Typed DEF TokenInv
<1>4. /\ registry'.keys \subseteq Key /\ registry'.left \in 0..RegistryTtl
      /\ RegistryIsAsStaleAsOld' /\ SharedAreTrue'
  BY <1>1, <1>2, DiscoverKeeps, SharedKeeps DEF fleet
<1>5. caller' \in {caller, [caller EXCEPT ![i] = Resting]}
  BY <1>1 DEF Ends
<1>6. TypeOK'
  <2>1. caller' \in [Isolate -> Caller]
    BY <1>3, <1>5, PlacesAreCallers
  <2> QED
    BY <1>2, <1>3, <1>4, <2>1 DEF TypeOK, fleet, Caller, Place
<1>7. PublishedAreCurrent'
  BY <1>2 DEF TokenInv, PublishedAreCurrent, fleet
<1>8. ASSUME NEW p \in Isolate PROVE PerIsolate(p)'
  <2>1. caller'[p] = caller[p] \/ caller'[p] = Resting
    BY <1>3, <1>5
  <2> QED
    BY <1>2, <2>1, OthersKeep, EndedKeeps DEF fleet
<1> QED
  BY <1>4, <1>6, <1>7, <1>8 DEF TokenInv

-----------------------------------------------------------------------------
(* Rotation and time. *)

LEMMA PublishKeeps ==
  ASSUME TokenInv, NEW k \in Key, Publish(k)
  PROVE  TokenInv'
<1>1. TypeOK /\ published \subseteq Key /\ gone \in [Key -> 0..Horizon]
      /\ registry.keys \subseteq Key /\ registry.left \in 0..RegistryTtl
  BY Typed DEF TokenInv
<1>2. /\ published' = published \union {k} /\ gone' = [gone EXCEPT ![k] = 0]
      /\ UNCHANGED <<credential, keyId, registry, kept, shared, caller, wire>>
  BY DEF Publish
<1>3. gone' \in [Key -> 0..Horizon] /\ \A o \in Key : gone'[o] = gone[o] \/ gone'[o] = 0
  BY <1>1, <1>2, Constants DEF Horizon
<1>4. TypeOK'
  BY <1>1, <1>2, <1>3 DEF TypeOK
<1>5. PublishedAreCurrent'
  BY <1>1, <1>2 DEF TokenInv, PublishedAreCurrent
<1>6. RegistryIsAsStaleAsOld'
  BY <1>1, <1>2, <1>3, Constants DEF TokenInv, RegistryIsAsStaleAsOld, Horizon
<1>7. SharedAreTrue' /\ \A p \in Isolate : PerIsolate(p)'
  BY <1>2, SharedKeeps, OthersKeep
<1> QED
  BY <1>4, <1>5, <1>6, <1>7 DEF TokenInv

LEMMA WithdrawKeeps ==
  ASSUME TokenInv, NEW k \in Key, Withdraw(k)
  PROVE  TokenInv'
<1>1. TypeOK'
  BY DEF Withdraw, TokenInv, TypeOK
<1>2. PublishedAreCurrent' /\ RegistryIsAsStaleAsOld'
  BY DEF Withdraw, TokenInv, PublishedAreCurrent, RegistryIsAsStaleAsOld
<1>3. SharedAreTrue' /\ \A p \in Isolate : PerIsolate(p)'
  BY SharedKeeps, OthersKeep DEF Withdraw
<1> QED
  BY <1>1, <1>2, <1>3 DEF TokenInv

LEMMA ReleaseKeeps ==
  ASSUME TokenInv, NEW i \in Isolate, Release(i)
  PROVE  TokenInv'
<1>1. TypeOK /\ credential \in [Isolate -> Credential] /\ keyId \in [Isolate -> Credential]
      /\ kept \in [Isolate -> Token \union {None}] /\ caller \in [Isolate -> Caller]
  BY Typed DEF TokenInv
<1>2. PICK new \in Key : credential' = [credential EXCEPT ![i] = new]
  BY DEF Release
<1>3. /\ keyId' = [keyId EXCEPT ![i] = credential'[i]]
      /\ kept' = [kept EXCEPT ![i] = None] /\ caller' = [caller EXCEPT ![i] = Idle]
      /\ UNCHANGED <<published, gone, registry, shared, wire>>
  BY DEF Release
<1>4. TypeOK'
  <2>1. credential' \in [Isolate -> Credential] /\ keyId' \in [Isolate -> Credential]
    BY <1>1, <1>2, <1>3 DEF Credential
  <2>2. kept' \in [Isolate -> Token \union {None}] /\ caller' \in [Isolate -> Caller]
    BY <1>1, <1>3, PlacesAreCallers
  <2> QED
    BY <1>1, <1>3, <2>1, <2>2 DEF TypeOK, Caller, Place
<1>5. PublishedAreCurrent' /\ RegistryIsAsStaleAsOld' /\ SharedAreTrue'
  BY <1>3, KeysKeep, SharedKeeps
<1>6. ASSUME NEW p \in Isolate PROVE PerIsolate(p)'
  <2>1. CASE p = i
    <3>1. kept'[i] = None /\ caller'[i] = Idle
      BY <1>1, <1>3
    <3> QED
      BY <2>1, <3>1, PlacesAreCallers, NoneIsTrue DEF PerIsolate, HoldsAToken,
         TokensAreTrue, ProversAreBound
  <2>2. CASE p # i
    BY <1>1, <1>2, <1>3, <2>2, OthersKeep
  <2> QED
    BY <2>1, <2>2
<1> QED
  BY <1>4, <1>5, <1>6 DEF TokenInv

\* The key under a running provider changes for another key only.
LEMMA RotateKeeps ==
  ASSUME TokenInv, NEW i \in Isolate, Rotate(i)
  PROVE  TokenInv'
<1>1. TypeOK /\ credential \in [Isolate -> Credential] /\ credential[i] \in Key
  BY Typed DEF TokenInv, Rotate
<1>2. PICK new \in Key : credential' = [credential EXCEPT ![i] = new]
  BY DEF Rotate
<1>3. UNCHANGED <<keyId, published, gone, registry, kept, shared, caller, wire>>
  BY DEF Rotate
<1>4. TypeOK'
  <2>1. credential' \in [Isolate -> Credential]
    BY <1>1, <1>2 DEF Credential
  <2> QED
    BY <1>1, <1>3, <2>1 DEF TypeOK
<1>5. PublishedAreCurrent' /\ RegistryIsAsStaleAsOld' /\ SharedAreTrue'
  BY <1>3, KeysKeep, SharedKeeps
<1>6. ASSUME NEW p \in Isolate PROVE PerIsolate(p)'
  <2>1. credential'[p] \in Key => credential[p] \in Key
    BY <1>1, <1>2
  <2> QED
    BY <1>3, <2>1 DEF TokenInv, PerIsolate, HoldsAToken, TokensAreTrue, ProversAreBound
<1> QED
  BY <1>4, <1>5, <1>6 DEF TokenInv

LEMMA TickKeeps ==
  ASSUME TokenInv, Tick
  PROVE  TokenInv'
<1>1. TypeOK /\ published \subseteq Key /\ gone \in [Key -> 0..Horizon]
      /\ registry.keys \subseteq Key /\ registry.left \in 0..RegistryTtl
      /\ kept \in [Isolate -> Token \union {None}]
      /\ shared \in [BOOLEAN -> Token \union {None}]
      /\ caller \in [Isolate -> Caller]
      /\ wire \subseteq Assertion
  BY Typed DEF TokenInv
<1>2. UNCHANGED <<credential, keyId, published>>
  BY DEF Tick
<1>3. /\ gone' \in [Key -> 0..Horizon]
      /\ \A k \in Key : gone'[k] <= gone[k] + 1
      /\ \A k \in published : gone'[k] = gone[k]
  <2>1. gone' = [k \in Key |-> IF k \in published \/ gone[k] = Horizon THEN gone[k] ELSE gone[k] + 1]
    BY DEF Tick
  <2> QED
    BY <1>1, <2>1, Constants DEF Horizon
<1>4. PublishedAreCurrent'
  BY <1>2, <1>3 DEF TokenInv, PublishedAreCurrent
<1>5. \/ registry' = [keys |-> {}, left |-> 0]
      \/ registry' = [registry EXCEPT !.left = @ - 1] /\ registry.left > 1
  BY <1>1, Constants DEF Tick
<1>6. registry'.keys \subseteq Key /\ registry'.left \in 0..RegistryTtl /\ RegistryIsAsStaleAsOld'
  <2>1. CASE registry' = [keys |-> {}, left |-> 0]
    BY <2>1, Constants DEF RegistryIsAsStaleAsOld
  <2>2. CASE registry' = [registry EXCEPT !.left = @ - 1] /\ registry.left > 1
    <3>1. registry'.keys \subseteq registry.keys
          /\ (registry'.keys # {} => registry'.left = registry.left - 1)
          /\ registry'.left \in 0..RegistryTtl
      BY <1>1, <2>2, Constants
    <3>2. ASSUME NEW k \in registry'.keys
          PROVE  gone'[k] + registry'.left <= RegistryTtl
      <4>1. k \in Key /\ gone[k] + registry.left <= RegistryTtl
        BY <1>1, <3>1, <3>2 DEF TokenInv, RegistryIsAsStaleAsOld
      <4>2. gone[k] \in Nat /\ gone'[k] \in Nat /\ gone'[k] <= gone[k] + 1
        BY <1>1, <1>3, <4>1, Constants DEF Horizon
      <4> QED
        BY <1>1, <3>1, <4>1, <4>2, Constants
    <3> QED
      BY <1>1, <3>1, <3>2 DEF RegistryIsAsStaleAsOld
  <2> QED
    BY <1>5, <2>1, <2>2
<1>7. ASSUME NEW i \in Isolate
      PROVE  kept'[i] = None \/ (kept[i] \in Token /\ kept'[i] = Aged(kept[i]))
  BY <1>1 DEF Tick
<1>8. kept' \in [Isolate -> Token \union {None}]
  <2>1. kept' = [i \in Isolate |->
                  IF kept[i] # None /\ IsFresh(i, Aged(kept[i])) THEN Aged(kept[i]) ELSE None]
    BY DEF Tick
  <2> QED
    BY <1>1, <2>1, AgedIsAToken
<1>9. /\ shared' \in [BOOLEAN -> Token \union {None}]
      /\ \A bound \in BOOLEAN :
           shared'[bound] = None
             \/ (shared[bound] \in Token /\ shared'[bound] = Aged(shared[bound]))
  <2>1. shared' = [bound \in BOOLEAN |->
                    IF shared[bound] # None /\ Lasts(Aged(shared[bound])) THEN Aged(shared[bound])
                    ELSE None]
    BY DEF Tick
  <2> QED
    BY <1>1, <2>1, AgedIsAToken
<1>10. SharedAreTrue'
  <2>1. ASSUME NEW bound \in BOOLEAN
        PROVE  /\ IsTrue(shared[bound]) => IsTrue(shared'[bound])
               /\ IsBound(shared[bound]) => IsBound(shared'[bound])
    BY <1>9, NoneIsTrue, AgedIsAsTrue
  <2> QED
    BY <2>1 DEF TokenInv, SharedAreTrue, IsTrue, IsBound
<1>11. ASSUME NEW i \in Isolate
       PROVE  /\ caller'[i] \in Caller
              /\ caller'[i] = Idle
                   \/ (/\ caller'[i].at = caller[i].at
                       /\ caller'[i].token = caller[i].token
                       /\ caller'[i].signed = caller[i].signed)
  <2>1. caller'[i] = IF caller[i].at = "reading" THEN [caller[i] EXCEPT !.waited = @ + 1]
                     ELSE IF caller[i] = Resting THEN Idle ELSE caller[i]
    BY DEF Tick
  <2>2. caller[i].at = "reading" => caller[i].waited < Patience
    BY DEF Tick
  <2>3. caller[i] \in Caller
    BY <1>1
  <2>4. CASE caller[i].at = "reading"
    BY <2>1, <2>2, <2>3, <2>4, Constants DEF Caller
  <2>5. CASE caller[i].at # "reading"
    BY <2>1, <2>3, <2>5, PlacesAreCallers
  <2> QED
    BY <2>4, <2>5
<1>12. caller' \in [Isolate -> Caller]
  BY <1>11 DEF Tick
<1>13. wire' \subseteq Assertion
  BY <1>1, Constants DEF Tick, Arrives, Assertion
<1>14. TypeOK'
  BY <1>1, <1>2, <1>3, <1>6, <1>8, <1>9, <1>12, <1>13 DEF TypeOK, Caller, Place, Assertion
<1>15. ASSUME NEW i \in Isolate PROVE PerIsolate(i)'
  <2>1. /\ IsTrue(kept[i]) => IsTrue(kept'[i])
        /\ IsBound(kept[i]) => IsBound(kept'[i])
    BY <1>7, NoneIsTrue, AgedIsAsTrue
  <2>2. PerIsolate(i)
    BY DEF TokenInv
  <2>3. HoldsAToken(i)'
    BY <1>11, <2>2, PlacesAreCallers DEF PerIsolate, HoldsAToken
  <2>4. TokensAreTrue(i)'
    BY <1>11, <2>1, <2>2, PlacesAreCallers, NoneIsTrue DEF PerIsolate, TokensAreTrue
  <2>5. ProversAreBound(i)'
    BY <1>2, <1>11, <2>1, <2>2, PlacesAreCallers, NoneIsTrue DEF PerIsolate, ProversAreBound
  <2> QED
    BY <2>3, <2>4, <2>5 DEF PerIsolate
<1> QED
  BY <1>4, <1>6, <1>10, <1>14, <1>15 DEF TokenInv

LEMMA NextKeeps == TokenInv /\ [Next]_vars => TokenInv'
<1> SUFFICES ASSUME TokenInv, [Next]_vars PROVE TokenInv'
  OBVIOUS
<1>1. ASSUME NEW k \in Key, Publish(k) \/ Withdraw(k) PROVE TokenInv'
  BY <1>1, PublishKeeps, WithdrawKeeps
<1>2. ASSUME NEW i \in Isolate,
             \/ Release(i) \/ Rotate(i)
             \/ Ask(i) \/ ReadShared(i) \/ SendRequest(i) \/ GiveUp(i)
             \/ WriteShared(i) \/ Prove(i) \/ Present(i)
             \/ Authenticate(i) \/ Refuse(i)
      PROVE  TokenInv'
  BY <1>2, ReleaseKeeps, RotateKeeps, AskKeeps, ReadSharedKeeps, SendRequestKeeps,
     GiveUpKeeps, WriteSharedKeeps, ProveKeeps, PresentKeeps, AuthenticateKeeps, RefuseKeeps
<1>3. CASE UNCHANGED vars
  <2>1. TypeOK'
    BY <1>3 DEF vars, TokenInv, TypeOK
  <2>2. PublishedAreCurrent' /\ RegistryIsAsStaleAsOld' /\ SharedAreTrue'
    BY <1>3, KeysKeep, SharedKeeps DEF vars
  <2>3. \A p \in Isolate : PerIsolate(p)'
    BY <1>3, OthersKeep DEF vars
  <2> QED
    BY <2>1, <2>2, <2>3 DEF TokenInv
<1> QED
  BY <1>1, <1>2, <1>3, TickKeeps DEF Next

LEMMA TokenInvariance == Spec => []TokenInv
BY InitToken, NextKeeps, PTL DEF Spec

-----------------------------------------------------------------------------
(* What the service and the plane rely on. *)

\* A request the plane would accept, however delayed or repeated, is signed by a
\* secret or by a key that its service published no longer ago than the plane may
\* keep a discovery: a key that was withdrawn gets no tokens for long.
THEOREM WithdrawnKeysGetNoTokens == Spec => []AcceptedIsRecent
<1>1. TokenInv => AcceptedIsRecent
  BY KnownAreKeys, Constants DEF AcceptedIsRecent, Authenticates, AcceptsHmac, AcceptsJwk
<1> QED
  BY TokenInvariance, <1>1, PTL

\* A session under a bound token is opened with a proof by the very key that
\* signed for the token, whichever isolate got it and whichever uses it.
THEOREM ProofIsBySigner == Spec => []BoundToTheSigner
<1>1. TokenInv => BoundToTheSigner
  <2> SUFFICES ASSUME TokenInv, NEW i \in Isolate, Opens(i), caller[i].token.jkt # None
               PROVE  caller[i].token.asked = caller[i].signed
    BY DEF TokenInv, BoundToTheSigner
  <2>1. caller[i].token # None /\ IsTrue(caller[i].token)
    BY DEF TokenInv, PerIsolate, HoldsAToken, TokensAreTrue, Opens
  <2> QED
    BY <2>1 DEF IsTrue, Opens, IsProved
<1> QED
  BY TokenInvariance, <1>1, PTL

\* An isolate that can prove possession never opens a session with a token that
\* needs no proof, though it shares a cache with isolates that cannot.
THEOREM ProversUseBoundTokens == Spec => []NeverUnbound
<1>1. TokenInv => NeverUnbound
  BY DEF TokenInv, PerIsolate, HoldsAToken, ProversAreBound, IsBound, NeverUnbound, Opens
<1> QED
  BY TokenInvariance, <1>1, PTL

=============================================================================
