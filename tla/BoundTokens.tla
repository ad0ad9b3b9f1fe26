----------------------------- MODULE BoundTokens -----------------------------
(***************************************************************************)
(* How a service comes by the tokens it calls with, while its credential   *)
(* is rotated: from a shared secret to a key, from a key to the next.  Its *)
(* isolates sign token requests, share a cache of the tokens they get, and *)
(* prove possession of the key a token is bound to when they open a        *)
(* session with it.  The control plane authenticates the requests with the *)
(* keys the service publishes, which it caches; a request may be slow, get *)
(* lost before or after it was answered, or arrive twice.  The credential  *)
(* is all that sets requests apart, so caller, target, scopes and ability  *)
(* are one each, and a key and its id are the same.  What the plane does   *)
(* with a request is one step: how it discovers is DiscoveryRegistry's,    *)
(* how it signs SigningMemo's.                                             *)
(*                                                                         *)
(* Time is kept as what is left of a lifetime, or as an age.               *)
(***************************************************************************)
EXTENDS Integers, FiniteSets

CONSTANTS
  Isolate,
  Key,          \* asymmetric keys; Older(k) are those that k replaces
  Older(_),
  Secret,       \* the HMAC secret, older than any key
  First,        \* [Isolate -> its first credential]
  None,
  TokenTtl,
  RefreshSkew,  \* [Isolate -> how close to its end it uses a token no more]
  AssertionTtl, \* how long a signed request is accepted
  RegistryTtl,  \* how long the plane keeps what it discovered
  Patience      \* BOUND: how long reading the shared cache takes at most

Credential == Key \union {Secret}

\* What a token is bound to, the credential it was asked with, and what is left
\* of it.
Token == [jkt : Key \union {None}, asked : Credential, left : 0..TokenTtl]

ASSUME CredentialAssumption ==
  /\ Secret \notin Key /\ None \notin Credential \union Token
  /\ First \in [Isolate -> Credential]

ASSUME TimeAssumption ==
  /\ {TokenTtl, AssertionTtl, RegistryTtl} \subseteq Nat \ {0}
  /\ RefreshSkew \in [Isolate -> Nat] /\ Patience \in Nat

VARIABLES
  credential, \* [Isolate -> what it signs with]
  keyId,      \* [Isolate -> the id it signs under], from its configuration
  published,  \* the keys in the service's discovery document
  gone,       \* [Key -> how long it has not been published]
  registry,   \* the plane's cached discovery
  kept,       \* [Isolate -> the token its provider holds]
  shared,     \* [partition -> the token in the shared cache]
  caller,     \* [Isolate -> the session it is opening]
  wire        \* signed token requests that may yet arrive, or arrive again

vars == <<credential, keyId, published, gone, registry, kept, shared, caller, wire>>

\* BOUND: this long is for ever.
Horizon == RegistryTtl + 1

Idle == [at |-> "idle", waited |-> 0, token |-> None, signed |-> None]

\* BOUND: an isolate opens one session at a time, and then rests till the clock
\* moves: retries do not stop time.
Resting == [Idle EXCEPT !.at = "resting"]

Init ==
  /\ credential = First
  /\ keyId = First
  /\ published = {k \in Key : Older(k) = {}}
  /\ gone = [k \in Key |-> IF k \in published THEN 0 ELSE Horizon]
  /\ registry = [keys |-> {}, left |-> 0]
  /\ kept = [i \in Isolate |-> None]
  /\ shared = [bound \in BOOLEAN |-> None]
  /\ caller = [i \in Isolate |-> Idle]
  /\ wire = {}

-----------------------------------------------------------------------------
(* Time and rotation. *)

Aged(token) == [token EXCEPT !.left = IF @ = 0 THEN 0 ELSE @ - 1]

\* Fault: the provider uses its token as long as it has one.
IsFreshEver(i, token) == TRUE

\* The provider looks for another token before its own ends.
IsFresh(i, token) == token.left > RefreshSkew[i]

\* A cache drops an entry at its end.
Lasts(token) == token.left > 0

\* How far a request can get before nobody accepts it.
Arrives(assertion) == assertion.age < AssertionTtl

\* The shared cache and the plane take time; the rest is quick.
Tick ==
  /\ \A i \in Isolate :
       \/ caller[i].at \in {"idle", "resting", "asking"}
       \/ caller[i].at = "reading" /\ caller[i].waited < Patience
  /\ gone' = [k \in Key |-> IF k \in published \/ gone[k] = Horizon THEN gone[k] ELSE gone[k] + 1]
  /\ registry' = IF registry.left <= 1 THEN [keys |-> {}, left |-> 0]
                 ELSE [registry EXCEPT !.left = @ - 1]
  /\ kept' = [i \in Isolate |->
               IF kept[i] # None /\ IsFresh(i, Aged(kept[i])) THEN Aged(kept[i]) ELSE None]
  /\ shared' = [bound \in BOOLEAN |->
                 IF shared[bound] # None /\ Lasts(Aged(shared[bound])) THEN Aged(shared[bound]) ELSE None]
  /\ caller' = [i \in Isolate |->
                 IF caller[i].at = "reading" THEN [caller[i] EXCEPT !.waited = @ + 1]
                 ELSE IF caller[i] = Resting THEN Idle ELSE caller[i]]
  /\ wire' = {[assertion EXCEPT !.age = @ + 1] : assertion \in {a \in wire : Arrives(a)}}
  /\ UNCHANGED <<credential, keyId, published>>

Publish(k) ==
  /\ k \notin published /\ Older(k) # {}
  /\ published' = published \union {k}
  /\ gone' = [gone EXCEPT ![k] = 0]
  /\ UNCHANGED <<credential, keyId, registry, kept, shared, caller, wire>>

\* A key is withdrawn once another is published.
Withdraw(k) ==
  /\ k \in published /\ \E other \in published : k \in Older(other)
  /\ published' = published \ {k}
  /\ UNCHANGED <<credential, keyId, gone, registry, kept, shared, caller, wire>>

Replaces(new, old) == old \in {Secret} \union Older(new)

\* A release starts the isolate anew.
Release(i) ==
  /\ \E new \in Key :
       /\ Replaces(new, credential[i]) \/ (new = credential[i] /\ new # keyId[i])
       /\ credential' = [credential EXCEPT ![i] = new]
  /\ keyId' = [keyId EXCEPT ![i] = credential'[i]]
  /\ kept' = [kept EXCEPT ![i] = None]
  /\ caller' = [caller EXCEPT ![i] = Idle]
  /\ UNCHANGED <<published, gone, registry, shared, wire>>

\* Where privateJwk is a function, the key changes under a running provider;
\* its keyId is a constant.
Rotate(i) ==
  /\ credential[i] \in Key
  /\ \E new \in Key :
       /\ Replaces(new, credential[i])
       /\ credential' = [credential EXCEPT ![i] = new]
  /\ UNCHANGED <<keyId, published, gone, registry, kept, shared, caller, wire>>

-----------------------------------------------------------------------------
(* The caller: token provider and session. *)

\* Fault: tokens are shared whether they are bound or not.
OnePartition(i) == FALSE

\* Which shared entries a provider uses: with a requester that can prove
\* possession only those of such requesters.
Partition(i) == credential[i] \in Key

Goes(i, at, token) ==
  caller' = [caller EXCEPT ![i] = [at |-> at, waited |-> 0, token |-> token, signed |-> None]]

Ends(i) == caller' = [caller EXCEPT ![i] = Resting]

\* A call needs a token: the one kept, or else first the shared one.
Ask(i) ==
  /\ caller[i].at = "idle"
  /\ IF kept[i] # None THEN Goes(i, "proving", kept[i]) ELSE Goes(i, "reading", None)
  /\ UNCHANGED <<credential, keyId, published, gone, registry, kept, shared, wire>>

\* By the clock read before the cache was asked.
IsUsable(i) ==
  LET entry == shared[Partition(i)]
  IN entry # None /\ entry.left + caller[i].waited > RefreshSkew[i]

ReadShared(i) ==
  /\ caller[i].at = "reading"
  /\ IsUsable(i)
  /\ kept' = [kept EXCEPT ![i] = shared[Partition(i)]]
  /\ Goes(i, "proving", shared[Partition(i)])
  /\ UNCHANGED <<credential, keyId, published, gone, registry, shared, wire>>

Signed(i) == [from |-> i, id |-> keyId[i], key |-> credential[i], age |-> 0]

\* BOUND: with the next request the last one is lost, if it has not arrived.
SendRequest(i) ==
  /\ caller[i].at = "reading"
  /\ ~IsUsable(i)
  /\ wire' = {Signed(i)}
  /\ caller' = [caller EXCEPT ![i] =
       [at |-> "asking", waited |-> 0, token |-> None, signed |-> credential[i]]]
  /\ UNCHANGED <<credential, keyId, published, gone, registry, kept, shared>>

\* The request is lost, or its answer is.
GiveUp(i) ==
  /\ caller[i].at = "asking"
  /\ Ends(i)
  /\ UNCHANGED <<credential, keyId, published, gone, registry, kept, shared, wire>>

\* The write is an attempt.
WriteShared(i) ==
  /\ caller[i].at = "writing"
  /\ shared' \in {shared, [shared EXCEPT ![Partition(i)] = caller[i].token]}
  /\ Goes(i, "proving", caller[i].token)
  /\ UNCHANGED <<credential, keyId, published, gone, registry, kept, wire>>

\* jwkCapabilityProofSigner refuses a token bound to another key; a token that
\* is not bound, or a caller that cannot prove, gets no proof.
Prove(i) ==
  /\ caller[i].at = "proving"
  /\ LET token == caller[i].token
         proves == token.jkt # None /\ credential[i] \in Key
     IN IF proves /\ token.jkt # credential[i]
        THEN Ends(i)
        ELSE caller' = [caller EXCEPT ![i] =
               [at |-> "presenting", waited |-> 0, token |-> token,
                signed |-> IF proves THEN credential[i] ELSE None]]
  /\ UNCHANGED <<credential, keyId, published, gone, registry, kept, shared, wire>>

\* The service: a bound token with a proof by its key, any other as it is.
IsProved(token, proof) == token.jkt # None => proof = token.jkt

Opens(i) ==
  /\ caller[i].at = "presenting"
  /\ Lasts(caller[i].token)
  /\ IsProved(caller[i].token, caller[i].signed)

\* The session is opened or refused; what becomes of it is AbilitySession's.
Present(i) ==
  /\ caller[i].at = "presenting"
  /\ Ends(i)
  /\ UNCHANGED <<credential, keyId, published, gone, registry, kept, shared, wire>>

-----------------------------------------------------------------------------
(* The plane: authentication and issuance. *)

\* The keys of the caller, from a registry made for this request over the cache.
Known == IF registry.left > 0 THEN registry.keys ELSE published

\* validateHmacTimestamp and validateJwkAssertionTimestamps; either is checked
\* after the request's binding to method, path and body.
IsTimely(assertion) == assertion.age < AssertionTtl

\* By the secret the plane is configured with.
AcceptsHmac(assertion) == assertion.key = Secret /\ IsTimely(assertion)

\* Fault: an assertion is verified with the key it names, whoever published that.
AcceptsJwkOfAnybody(assertion) ==
  assertion.key \in Key /\ assertion.key = assertion.id /\ IsTimely(assertion)

\* By the key the assertion names, which has to be known.
AcceptsJwk(assertion) ==
  assertion.id \in Known /\ assertion.key = assertion.id /\ IsTimely(assertion)

Authenticates(assertion) == AcceptsHmac(assertion) \/ AcceptsJwk(assertion)

\* Fault: the token is bound to a key the caller has published, if not this one.
ConfirmationOfAny(assertion) ==
  IF assertion.key = Secret THEN None ELSE CHOOSE k \in Known : TRUE

\* The key that verified the assertion, none for a secret.
Confirmation(assertion) == IF assertion.key = Secret THEN None ELSE assertion.id

Issue(assertion) ==
  [jkt |-> Confirmation(assertion), asked |-> assertion.key, left |-> TokenTtl]

\* Only an assertion by a key needs the caller's keys.
Discover(assertion) ==
  registry' = IF assertion.key = Secret \/ registry.left > 0 THEN registry
              ELSE [keys |-> published, left |-> RegistryTtl]

Awaits(i, assertion) == caller[i].at = "asking" /\ caller[i].signed = assertion.key

\* The answer finds the caller waiting, or not any more.
Authenticate(i) ==
  /\ \E assertion \in {a \in wire : a.from = i /\ Authenticates(a)} :
       /\ Discover(assertion)
       /\ IF Awaits(i, assertion)
          THEN /\ kept' = [kept EXCEPT ![i] = Issue(assertion)]
               /\ Goes(i, "writing", Issue(assertion))
          ELSE UNCHANGED <<kept, caller>>
  /\ UNCHANGED <<credential, keyId, published, gone, shared, wire>>

Refuse(i) ==
  /\ \E assertion \in {a \in wire : a.from = i /\ ~Authenticates(a)} :
       /\ Discover(assertion)
       /\ IF Awaits(i, assertion) THEN Ends(i) ELSE UNCHANGED caller
  /\ UNCHANGED <<credential, keyId, published, gone, kept, shared, wire>>

Next ==
  \/ Tick
  \/ \E k \in Key : Publish(k) \/ Withdraw(k)
  \/ \E i \in Isolate :
       \/ Release(i) \/ Rotate(i)
       \/ Ask(i) \/ ReadShared(i) \/ SendRequest(i) \/ GiveUp(i) \/ WriteShared(i) \/ Prove(i) \/ Present(i)
       \/ Authenticate(i) \/ Refuse(i)

\* Callers work off what they have and time goes on; a request that is sent
\* again and again is answered some time, one that is lost is given up.
Fairness ==
  /\ SF_vars(Tick)
  /\ \A i \in Isolate :
       /\ WF_vars(Ask(i) \/ ReadShared(i) \/ SendRequest(i) \/ WriteShared(i) \/ Prove(i))
       /\ WF_vars(Present(i))
       /\ WF_vars(caller[i].at = "asking" /\ (Authenticate(i) \/ Refuse(i) \/ GiveUp(i)))
       /\ SF_vars(caller[i].at = "asking" /\ Authenticate(i))

Spec == Init /\ [][Next]_vars

FairSpec == Spec /\ Fairness

-----------------------------------------------------------------------------
(* Properties. *)

\* Every variable keeps its type.
TypeOK ==
  /\ {credential, keyId} \subseteq [Isolate -> Credential]
  /\ published \subseteq Key
  /\ gone \in [Key -> 0..Horizon]
  /\ registry.keys \subseteq Key /\ registry.left \in 0..RegistryTtl
  /\ kept \in [Isolate -> Token \union {None}]
  /\ shared \in [BOOLEAN -> Token \union {None}]
  /\ caller \in [Isolate -> [at : {"idle", "resting", "reading", "asking", "writing", "proving", "presenting"},
                             waited : 0..Patience, token : Token \union {None}, signed : Credential \union {None}]]
  /\ wire \subseteq [from : Isolate, id : Credential, key : Credential, age : 0..AssertionTtl]

\* A request the plane would accept, however delayed or repeated, is signed by a
\* secret or by a key its service published no longer ago than the plane may
\* keep a discovery (jwkServiceClientAuth, resolveJwkServiceClient): a key that
\* was withdrawn gets no tokens for long.
AcceptedIsRecent ==
  \A assertion \in wire :
    Authenticates(assertion) /\ assertion.key \in Key => gone[assertion.key] <= RegistryTtl

\* A session under a bound token is opened with a proof by the very key that
\* signed for the token, whichever isolate got it and whichever uses it (the
\* comment at caller-auth.ts:258); and every variable keeps its type.
BoundToTheSigner ==
  /\ TypeOK
  /\ \A i \in Isolate : Opens(i) /\ caller[i].token.jkt # None =>
       caller[i].token.asked = caller[i].signed

\* An isolate that can prove possession never falls back to a token that needs
\* no proof, though others of its service put such tokens into the cache it
\* shares with them (the comment at service/capabilities.ts:431).
NeverUnbound ==
  \A i \in Isolate : Opens(i) /\ credential[i] \in Key => caller[i].token.jkt # None

Newest(k) == k \in Key /\ \A other \in Key : k \notin Older(other)

\* The rotation is over: in the plane's sight, and in every isolate, which was
\* released at least once to learn the new id.
Rotated ==
  /\ \A i \in Isolate : Newest(keyId[i])
  /\ published # {} /\ \A k \in published : Newest(k)

\* However the rotation went, once it is over every isolate gets to open a
\* session by its new key: what the old one left in caches does not keep
\* failing its proofs (the comment at service/capabilities.ts:765).
RotationEnds ==
  \A i \in Isolate : Rotated ~> Opens(i) /\ caller[i].signed = keyId[i]
=============================================================================
