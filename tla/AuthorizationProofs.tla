------------------------- MODULE AuthorizationProofs -------------------------
(***************************************************************************)
(* What Authorization promises, for every set of services, users, targets  *)
(* and requests, every choice of definitions and of grant tables.  The     *)
(* invariant says what a token says of the request it was minted for, and  *)
(* what a session says of its token.                                       *)
(***************************************************************************)
EXTENDS Authorization, TLAPS

PerRequest(r) ==
  /\ NothingBeforeItsTime(r)
  /\ IssuersAreWithin(r)
  /\ TokenRouteKnowsNoAbility(r)
  /\ TokensAreTrue(r)
  /\ SessionsAreTrue(r)

-----------------------------------------------------------------------------
(* Facts about who asks. *)

\* Every authenticated request acts as a service or as the plane, for a user or
\* for nobody.
LEMMA OriginFacts ==
  ASSUME NEW o \in Origin, Authenticated(o)
  PROVE  /\ ActingService(o) \in Caller
         /\ Subject(o) \in User \union {None}
         /\ CallerAccess(o) \in {"plane", "service"}
         /\ o.target \in Target /\ o.at \in Target
         /\ o.scopes \in SUBSET Scope
         /\ o.surface = "projection" => o.method \in Method
  BY SMT DEF Origin, Authenticated, ActingService, Subject, CallerAccess, Caller

\* What may be deployed is a definition.
LEMMA DefinitionFacts ==
  ASSUME NEW t \in Target, NEW d \in Definitions[t]
  PROVE  /\ d \in Definition
         /\ d # None
  BY DefinitionsAssumption, NamesAssumption

\* An issuer honours no grant of another target, and none that is not configured.
LEMMA HonouredGrantsAreConfigured ==
  ASSUME NEW snapshot, NEW table \in SUBSET Grant
  PROVE  /\ Honoured(snapshot, table) \in [Target -> SUBSET Grant]
         /\ \A t \in Target : Honoured(snapshot, table)[t] \subseteq {g \in table : g.target = t}
  BY SMT DEF Honoured

\* More grants grant no less.
LEMMA GrantedByMore ==
  ASSUME NEW some, NEW more, some \subseteq more, NEW caller, NEW scopes,
         IsGranted(some, caller, scopes)
  PROVE  IsGranted(more, caller, scopes)
  BY DEF IsGranted

-----------------------------------------------------------------------------
(* The invariant holds initially. *)

LEMMA InitInv == Init => AuthorizationInv
<1> SUFFICES ASSUME Init PROVE AuthorizationInv
  OBVIOUS
<1>1. \A t \in Target : definition[t] \in Definitions[t] /\ definition[t] \in Definition
  BY DefinitionFacts DEF Init
<1>2. definition \in [Target -> Definition]
  BY <1>1 DEF Init
<1>3. NoToken \in Token /\ NoSession \in Session
  BY SMT DEF NoToken, NoSession, Token, Session
<1>4. TypeOK
  <2>1. /\ catalog \in [Target -> Definition \union {None}]
        /\ \A t \in Target : catalog[t] \in Definitions[t] \union {None}
    BY DEF Init
  <2>2. grants \in SUBSET Grant
    BY GrantsAssumption DEF Init
  <2>3. /\ pc \in [Request -> Stage]
        /\ \A r \in Request : pc[r] = "idle"
    BY DEF Init, Stage
  <2>4. /\ origin \in [Request -> Origin \union {NoRequest}]
        /\ configured \in [Request -> SUBSET Grant]
        /\ issuer \in [Request -> [Target -> SUBSET Grant]]
        /\ ability \in [Request -> Definition \union {None}]
    BY DEF Init
  <2>5. token \in [Request -> Token] /\ session \in [Request -> Session]
    BY <1>3 DEF Init
  <2> QED
    BY <1>1, <1>2, <2>1, <2>2, <2>3, <2>4, <2>5 DEF TypeOK
<1>5. ASSUME NEW r \in Request PROVE PerRequest(r)
  BY SMT DEF Init, PerRequest, NothingBeforeItsTime, IssuersAreWithin,
     TokenRouteKnowsNoAbility, TokensAreTrue, SessionsAreTrue
<1> QED
  BY <1>4, <1>5 DEF AuthorizationInv, PerRequest

-----------------------------------------------------------------------------
(* Steps that only move a request on. *)

\* What is true of a request stays true if a step leaves it alone.
LEMMA OthersKeep ==
  ASSUME AuthorizationInv, NEW q \in Request,
         pc'[q] = pc[q], origin'[q] = origin[q], configured'[q] = configured[q],
         issuer'[q] = issuer[q], ability'[q] = ability[q],
         token'[q] = token[q], session'[q] = session[q]
  PROVE  PerRequest(q)'
<1>1. \A t : GrantsFor(q, t)' = GrantsFor(q, t)
  BY DEF GrantsFor
<1>2. NothingBeforeItsTime(q)'
  BY DEF AuthorizationInv, NothingBeforeItsTime
<1>3. IssuersAreWithin(q)'
  BY <1>1 DEF AuthorizationInv, IssuersAreWithin
<1>4. TokenRouteKnowsNoAbility(q)'
  BY DEF AuthorizationInv, TokenRouteKnowsNoAbility
<1>5. TokensAreTrue(q)'
  BY <1>1 DEF AuthorizationInv, TokensAreTrue
<1>6. SessionsAreTrue(q)'
  BY DEF AuthorizationInv, SessionsAreTrue
<1> QED
  BY <1>2, <1>3, <1>4, <1>5, <1>6 DEF PerRequest

\* The step of a request keeps the types if it keeps those of the variables it
\* assigns.
LEMMA RequestTyped ==
  ASSUME TypeOK, UNCHANGED outside,
         NEW r \in Request, NEW to \in Stage, Goto(r, to),
         origin' \in [Request -> Origin \union {NoRequest}],
         \A q \in Request : pc'[q] # "idle" => origin'[q] \in Origin /\ Authenticated(origin'[q]),
         configured' \in [Request -> SUBSET Grant],
         issuer' \in [Request -> [Target -> SUBSET Grant]],
         ability' \in [Request -> Definition \union {None}],
         token' \in [Request -> Token],
         session' \in [Request -> Session]
  PROVE  TypeOK'
<1>1. definition' = definition /\ catalog' = catalog /\ grants' = grants
  BY DEF outside
<1>2. pc' \in [Request -> Stage]
  BY DEF TypeOK, Goto
<1> QED
  BY <1>1, <1>2 DEF TypeOK

\* As it does after it was asked, since who asks stays who asked.
LEMMA AskedTyped ==
  ASSUME TypeOK, UNCHANGED <<outside, origin, configured>>,
         NEW r \in Request, NEW to \in Stage, Goto(r, to), pc[r] # "idle",
         issuer' \in [Request -> [Target -> SUBSET Grant]],
         ability' \in [Request -> Definition \union {None}],
         token' \in [Request -> Token],
         session' \in [Request -> Session]
  PROVE  TypeOK'
<1>1. origin' = origin /\ configured' = configured /\ UNCHANGED outside
  OBVIOUS
<1>2. \A q \in Request : pc'[q] # "idle" => pc[q] # "idle"
  BY DEF TypeOK, Goto
<1>3. \A q \in Request : pc'[q] # "idle" => origin'[q] \in Origin /\ Authenticated(origin'[q])
  BY <1>1, <1>2 DEF TypeOK
<1>4. /\ origin' \in [Request -> Origin \union {NoRequest}]
      /\ configured' \in [Request -> SUBSET Grant]
  BY <1>1 DEF TypeOK
<1> QED
  BY <1>1, <1>3, <1>4, RequestTyped

\* A request that stops, or goes on to ask its issuer, holds nothing yet that
\* the invariant speaks of.
LEMMA OnlyTheStageMoves ==
  ASSUME AuthorizationInv, NEW r \in Request, pc[r] \notin {"idle", "asked", "open"},
         \/ pc'[r] \in {"refused", "timed-out"}
         \/ pc'[r] = "asking" /\ (origin[r].surface # "token" => ability[r] # None),
         UNCHANGED <<origin, configured, issuer, ability, token, session>>
  PROVE  PerRequest(r)'
<1>1. NothingBeforeItsTime(r)'
  BY DEF AuthorizationInv, NothingBeforeItsTime
<1>2. IssuersAreWithin(r)'
  BY DEF AuthorizationInv, IssuersAreWithin, GrantsFor
<1>3. TokenRouteKnowsNoAbility(r)'
  BY DEF AuthorizationInv, TokenRouteKnowsNoAbility
<1>4. TokensAreTrue(r)' /\ SessionsAreTrue(r)'
  BY DEF TokensAreTrue, SessionsAreTrue
<1> QED
  BY <1>1, <1>2, <1>3, <1>4 DEF PerRequest

LEMMA StageInv ==
  ASSUME AuthorizationInv, NEW r \in Request, pc[r] \notin {"idle", "asked", "open"},
         NEW to \in {"refused", "timed-out", "asking"}, Goto(r, to),
         to = "asking" => (origin[r].surface # "token" => ability[r] # None),
         UNCHANGED <<outside, origin, configured, issuer, ability, token, session>>
  PROVE  AuthorizationInv'
<1>1. TypeOK'
  BY AskedTyped DEF AuthorizationInv, TypeOK, Stage
<1>2. ASSUME NEW q \in Request PROVE PerRequest(q)'
  <2>1. CASE q = r
    <3>1. pc'[r] = to
      BY DEF Goto, AuthorizationInv, TypeOK
    <3> QED BY <2>1, <3>1, OnlyTheStageMoves
  <2>2. CASE q # r
    BY <2>2, OthersKeep DEF Goto, AuthorizationInv, TypeOK
  <2> QED BY <2>1, <2>2
<1> QED
  BY <1>1, <1>2 DEF AuthorizationInv, PerRequest

LEMMA ProceedInv ==
  ASSUME AuthorizationInv, NEW r \in Request, pc[r] \in {"resolved", "selected"},
         Proceed(r), origin[r].surface # "token" => ability[r] # None
  PROVE  AuthorizationInv'
  BY StageInv DEF Proceed

LEMMA RefuseInv ==
  ASSUME AuthorizationInv, NEW r \in Request, Refuse(r),
         pc[r] # "idle", pc[r] # "asked", pc[r] # "open"
  PROVE  AuthorizationInv'
  BY StageInv DEF Refuse

-----------------------------------------------------------------------------
(* One lemma per action. *)

LEMMA AskInv ==
  ASSUME AuthorizationInv, NEW r \in Request, Ask(r)
  PROVE  AuthorizationInv'
<1>1. PICK o \in Origin : Authenticated(o) /\ origin' = [origin EXCEPT ![r] = o]
  BY DEF Ask
<1>2. TypeOK'
  <2>1. origin' \in [Request -> Origin \union {NoRequest}]
    BY <1>1 DEF AuthorizationInv, TypeOK
  <2>2. \A q \in Request : pc'[q] # "idle" => origin'[q] \in Origin /\ Authenticated(origin'[q])
    <3> SUFFICES ASSUME NEW q \in Request, pc'[q] # "idle"
                 PROVE  origin'[q] \in Origin /\ Authenticated(origin'[q])
      OBVIOUS
    <3>1. CASE q = r
      BY <1>1, <3>1 DEF AuthorizationInv, TypeOK
    <3>2. CASE q # r
      BY <1>1, <3>2 DEF AuthorizationInv, TypeOK, Ask, Goto
    <3> QED BY <3>1, <3>2
  <2>3. configured' \in [Request -> SUBSET Grant]
    BY DEF AuthorizationInv, TypeOK, Ask
  <2> QED
    BY <2>1, <2>2, <2>3, RequestTyped DEF AuthorizationInv, TypeOK, Ask, Stage
<1>3. ASSUME NEW q \in Request PROVE PerRequest(q)'
  <2>1. CASE q = r
    BY <2>1, SMT DEF AuthorizationInv, TypeOK, Ask, Goto, PerRequest, NothingBeforeItsTime,
       IssuersAreWithin, TokenRouteKnowsNoAbility, TokensAreTrue, SessionsAreTrue
  <2>2. CASE q # r
    BY <2>2, <1>1, OthersKeep DEF Ask, Goto, AuthorizationInv, TypeOK
  <2> QED BY <2>1, <2>2
<1> QED
  BY <1>2, <1>3 DEF AuthorizationInv, PerRequest

LEMMA ResolveIssuerInv ==
  ASSUME AuthorizationInv, NEW r \in Request, ResolveIssuer(r)
  PROVE  AuthorizationInv'
<1> DEFINE honoured == Honoured(catalog, configured[r])
<1>0. configured[r] \in SUBSET Grant
  BY DEF AuthorizationInv, TypeOK
<1>1. /\ honoured \in [Target -> SUBSET Grant]
      /\ \A t \in Target : honoured[t] \subseteq GrantsFor(r, t)
  BY <1>0, HonouredGrantsAreConfigured DEF GrantsFor
<1>2. origin[r] \in Origin /\ Authenticated(origin[r])
  BY DEF AuthorizationInv, TypeOK, ResolveIssuer
<1>3. catalog[origin[r].target] \in Definition \union {None}
  BY <1>2, OriginFacts DEF AuthorizationInv, TypeOK
<1> HIDE DEF honoured
<1>4. issuer' = [issuer EXCEPT ![r] = honoured]
  BY DEF ResolveIssuer, honoured
<1>5. ability' \in [Request -> Definition \union {None}]
  BY <1>3 DEF ResolveIssuer, AuthorizationInv, TypeOK
<1>6. TypeOK'
  <2>1. issuer' \in [Request -> [Target -> SUBSET Grant]]
    BY <1>1, <1>4 DEF AuthorizationInv, TypeOK
  <2> QED
    BY <1>5, <2>1, AskedTyped DEF AuthorizationInv, TypeOK, ResolveIssuer, Stage
<1>7. ASSUME NEW q \in Request PROVE PerRequest(q)'
  <2>1. CASE q = r
    <3>1. IssuersAreWithin(r)'
      BY <1>1, <1>4 DEF IssuersAreWithin, GrantsFor, ResolveIssuer, AuthorizationInv, TypeOK
    <3>2. TokenRouteKnowsNoAbility(r)' /\ NothingBeforeItsTime(r)'
      BY SMT DEF AuthorizationInv, TypeOK, ResolveIssuer, Goto, NothingBeforeItsTime,
         TokenRouteKnowsNoAbility
    <3>3. TokensAreTrue(r)' /\ SessionsAreTrue(r)'
      BY SMT DEF AuthorizationInv, TypeOK, ResolveIssuer, Goto, TokensAreTrue, SessionsAreTrue
    <3> QED BY <2>1, <3>1, <3>2, <3>3 DEF PerRequest
  <2>2. CASE q # r
    BY <2>2, OthersKeep DEF ResolveIssuer, Goto, AuthorizationInv, TypeOK
  <2> QED BY <2>1, <2>2
<1> QED
  BY <1>6, <1>7 DEF AuthorizationInv, PerRequest

LEMMA TokenRequestInv ==
  ASSUME AuthorizationInv, NEW r \in Request, TokenRequest(r)
  PROVE  AuthorizationInv'
<1>1. CASE Proceed(r)
  BY <1>1, ProceedInv DEF TokenRequest
<1>2. CASE Refuse(r)
  BY <1>2, RefuseInv DEF TokenRequest
<1> QED
  BY <1>1, <1>2 DEF TokenRequest

LEMMA SelectAbilityInv ==
  ASSUME AuthorizationInv, NEW r \in Request, SelectAbility(r)
  PROVE  AuthorizationInv'
<1> DEFINE found == catalog[origin[r].target]
<1>1. CASE Refuse(r)
  BY <1>1, RefuseInv DEF SelectAbility
<1>2. CASE /\ found # None
           /\ ability' = [ability EXCEPT ![r] = found]
           /\ Goto(r, "selected")
           /\ UNCHANGED <<outside, origin, configured, issuer, token, session>>
  <2>1. origin[r] \in Origin /\ Authenticated(origin[r])
    BY DEF AuthorizationInv, TypeOK, SelectAbility
  <2>2. found \in Definition
    BY <1>2, <2>1, OriginFacts DEF AuthorizationInv, TypeOK
  <2>3. TypeOK'
    <3>1. ability' \in [Request -> Definition \union {None}]
      BY <1>2, <2>2 DEF AuthorizationInv, TypeOK
    <3>2. pc[r] # "idle"
      BY DEF SelectAbility
    <3> QED
      BY <1>2, <3>1, <3>2, AskedTyped DEF AuthorizationInv, TypeOK, Stage
  <2>4. ASSUME NEW q \in Request PROVE PerRequest(q)'
    <3>1. CASE q = r
      <4>1. pc'[r] = "selected" /\ ability'[r] # None
        BY <1>2 DEF AuthorizationInv, TypeOK, Goto
      <4>2. pc[r] = "resolved" /\ origin[r].surface # "token"
        BY DEF SelectAbility
      <4>3. NothingBeforeItsTime(r)'
        BY <1>2, <4>1, <4>2 DEF AuthorizationInv, NothingBeforeItsTime
      <4>4. IssuersAreWithin(r)'
        BY <1>2, <4>2 DEF AuthorizationInv, IssuersAreWithin, GrantsFor
      <4>5. TokenRouteKnowsNoAbility(r)'
        BY <1>2, <4>2 DEF TokenRouteKnowsNoAbility
      <4>6. TokensAreTrue(r)' /\ SessionsAreTrue(r)'
        BY <4>1 DEF TokensAreTrue, SessionsAreTrue
      <4> QED BY <3>1, <4>3, <4>4, <4>5, <4>6 DEF PerRequest
    <3>2. CASE q # r
      BY <1>2, <3>2, OthersKeep DEF Goto, AuthorizationInv, TypeOK
    <3> QED BY <3>1, <3>2
  <2> QED
    BY <2>3, <2>4 DEF AuthorizationInv, PerRequest
<1> QED
  BY <1>1, <1>2 DEF SelectAbility

LEMMA ConnectInv ==
  ASSUME AuthorizationInv, NEW r \in Request, Connect(r)
  PROVE  AuthorizationInv'
<1>1. CASE Proceed(r)
  <2>1. origin[r].surface # "token" => ability[r] # None
    BY DEF AuthorizationInv, NothingBeforeItsTime, Connect
  <2> QED BY <1>1, <2>1, ProceedInv DEF Connect
<1>2. CASE Refuse(r)
  BY <1>2, RefuseInv DEF Connect
<1> QED
  BY <1>1, <1>2 DEF Connect

LEMMA InvokeProjectedInv ==
  ASSUME AuthorizationInv, NEW r \in Request, InvokeProjected(r)
  PROVE  AuthorizationInv'
<1>1. CASE Proceed(r) /\ ability[r] # None
  BY <1>1, ProceedInv DEF InvokeProjected
<1>2. CASE Refuse(r)
  BY <1>2, RefuseInv DEF InvokeProjected
<1> QED
  BY <1>1, <1>2 DEF InvokeProjected

LEMMA BudgetSpentInv ==
  ASSUME AuthorizationInv, NEW r \in Request, BudgetSpent(r)
  PROVE  AuthorizationInv'
  BY StageInv DEF BudgetSpent

-----------------------------------------------------------------------------
(* Minting and what comes of it. *)

LEMMA MintInv ==
  ASSUME AuthorizationInv, NEW r \in Request, NEW attested \in BOOLEAN, Mint(r, attested)
  PROVE  AuthorizationInv'
<1> DEFINE minted == [caller |-> ActingService(origin[r]),
                      subject |-> Subject(origin[r]),
                      class |-> IF attested THEN CallerAccess(origin[r]) ELSE "none",
                      broker |-> Broker(r),
                      scopes |-> RequestedScopes(r),
                      aud |-> origin[r].target]
<1>1. CASE Refuse(r)
  BY <1>1, RefuseInv DEF Mint
<1>2. CASE /\ IsGranted(issuer[r][origin[r].target], ActingService(origin[r]), RequestedScopes(r))
           /\ token' = [token EXCEPT ![r] = minted]
           /\ Goto(r, "holding")
           /\ UNCHANGED <<outside, origin, configured, issuer, ability, session>>
  <2>1. origin[r] \in Origin /\ Authenticated(origin[r]) /\ pc[r] = "asking"
    BY DEF AuthorizationInv, TypeOK, Mint
  <2>2. RequestedScopes(r) \in SUBSET Scope
    <3>1. CASE origin[r].surface = "projection"
      <4>1. ability[r] \in Definition /\ origin[r].method \in Method
        BY <2>1, <3>1, OriginFacts DEF AuthorizationInv, NothingBeforeItsTime, TypeOK
      <4> QED BY <3>1, <4>1, SMT DEF RequestedScopes, Definition
    <3>2. CASE origin[r].surface # "projection"
      BY <2>1, <3>2, OriginFacts DEF RequestedScopes
    <3> QED BY <3>1, <3>2
  <2>3. Broker(r) \in {Plane, None} /\ (Broker(r) # None => origin[r].surface # "token")
    BY DEF Broker, AuthorizationInv, TokenRouteKnowsNoAbility
  <2>4. minted \in Token
    BY <2>1, <2>2, <2>3, OriginFacts, SMT DEF Token
  <2>5. IsGranted(GrantsFor(r, origin[r].target), ActingService(origin[r]), RequestedScopes(r))
    <3>1. issuer[r][origin[r].target] \subseteq GrantsFor(r, origin[r].target)
      BY <2>1, OriginFacts DEF AuthorizationInv, IssuersAreWithin
    <3> QED BY <1>2, <3>1, GrantedByMore
  <2>6. TypeOK'
    <3>1. token' \in [Request -> Token]
      BY <1>2, <2>4 DEF AuthorizationInv, TypeOK
    <3> QED
      BY <1>2, <2>1, <3>1, AskedTyped DEF AuthorizationInv, TypeOK, Stage
  <2>7. token'[r] = minted
    BY <1>2 DEF AuthorizationInv, TypeOK
  <2>8. ASSUME NEW q \in Request PROVE PerRequest(q)'
    <3>1. CASE q = r
      <4>1. TokensAreTrue(r)'
        <5>1. /\ token'[r].caller = ActingService(origin[r])
              /\ token'[r].subject = Subject(origin[r])
              /\ token'[r].class \in {CallerAccess(origin[r]), "none"}
              /\ token'[r].broker = Broker(r)
              /\ token'[r].scopes = RequestedScopes(r)
              /\ token'[r].aud = origin[r].target
          BY <2>7
        <5>2. origin' = origin /\ configured' = configured
          BY <1>2
        <5>3. IsGranted(GrantsFor(r, token'[r].aud), ActingService(origin[r]), token'[r].scopes)
          BY <2>5, <5>1
        <5> HIDE DEF minted
        <5> QED
          BY <2>3, <5>1, <5>2, <5>3, SMT DEF TokensAreTrue, GrantsFor
      <4>2. NothingBeforeItsTime(r)' /\ IssuersAreWithin(r)' /\ TokenRouteKnowsNoAbility(r)'
            /\ SessionsAreTrue(r)'
        BY <1>2, <2>1, SMT DEF AuthorizationInv, TypeOK, Goto, NothingBeforeItsTime, GrantsFor,
           IssuersAreWithin, TokenRouteKnowsNoAbility, SessionsAreTrue
      <4> QED BY <3>1, <4>1, <4>2 DEF PerRequest
    <3>2. CASE q # r
      BY <1>2, <3>2, OthersKeep DEF Goto, AuthorizationInv, TypeOK
    <3> QED BY <3>1, <3>2
  <2> QED
    BY <2>6, <2>8 DEF AuthorizationInv, PerRequest
<1> QED
  BY <1>1, <1>2 DEF Mint

LEMMA PresentInv ==
  ASSUME AuthorizationInv, NEW r \in Request, NEW sent \in BOOLEAN, Present(r, sent)
  PROVE  AuthorizationInv'
<1> DEFINE t == origin[r].at
           admitted == [at |-> t, rule |-> definition[t],
                        serviceId |-> token[r].caller, subject |-> token[r].subject,
                        class |-> ClassOf(token[r]), scopes |-> token[r].scopes,
                        connInfo |-> ConnInfo(r, definition[t], sent), ran |-> {}]
<1>1. CASE Refuse(r)
  BY <1>1, RefuseInv DEF Present
<1>2. CASE /\ token[r].aud = t
           /\ IngressAdmits(definition[t], token[r])
           /\ AccessAdmits(definition[t], token[r])
           /\ session' = [session EXCEPT ![r] = admitted]
           /\ Goto(r, "open")
           /\ UNCHANGED <<outside, origin, configured, issuer, ability, token>>
  <2>1. origin[r] \in Origin /\ Authenticated(origin[r]) /\ pc[r] = "holding"
    BY DEF AuthorizationInv, TypeOK, Present
  <2>2. t \in Target /\ definition[t] \in Definition /\ definition[t] # None
    BY <2>1, OriginFacts, DefinitionFacts DEF AuthorizationInv, TypeOK
  <2>3. token[r] \in Token
    BY DEF AuthorizationInv, TypeOK
  <2>4. ClassOf(token[r]) \in {"plane", "service"}
    BY <2>3, SMT DEF ClassOf, Token
  <2>5. /\ ConnInfo(r, definition[t], sent) \in {"none", "plane's", "caller's"}
        /\ ConnInfo(r, definition[t], sent) # "none" => token[r].broker # None
        /\ ConnInfo(r, definition[t], sent) = "caller's" => origin[r].surface = "token"
    BY SMT DEF ConnInfo
  <2> HIDE DEF t
  <2>6. admitted \in Session
    BY <2>2, <2>3, <2>4, <2>5, SMT DEF Session, Token
  <2>7. TypeOK'
    <3>1. session' \in [Request -> Session]
      BY <1>2, <2>6 DEF AuthorizationInv, TypeOK
    <3> QED
      BY <1>2, <2>1, <3>1, AskedTyped DEF AuthorizationInv, TypeOK, Stage
  <2>8. session'[r] = admitted /\ pc'[r] = "open"
    BY <1>2 DEF AuthorizationInv, TypeOK, Goto
  <2>9. ASSUME NEW q \in Request PROVE PerRequest(q)'
    <3>1. CASE q = r
      <4>1. SessionsAreTrue(r)'
        BY <1>2, <2>2, <2>5, <2>8, SMT DEF SessionsAreTrue, AccessAdmits, IngressAdmits, ClassOf
      <4>2. NothingBeforeItsTime(r)' /\ IssuersAreWithin(r)' /\ TokenRouteKnowsNoAbility(r)'
            /\ TokensAreTrue(r)'
        <5>1. NothingBeforeItsTime(r)'
          BY <2>8 DEF NothingBeforeItsTime
        <5>2. IssuersAreWithin(r)'
          BY <1>2, <2>1 DEF AuthorizationInv, IssuersAreWithin, GrantsFor
        <5>3. TokenRouteKnowsNoAbility(r)'
          BY <1>2 DEF AuthorizationInv, TokenRouteKnowsNoAbility
        <5>4. TokensAreTrue(r)'
          BY <1>2, <2>1 DEF AuthorizationInv, TokensAreTrue, GrantsFor
        <5> QED BY <5>1, <5>2, <5>3, <5>4
      <4> QED BY <3>1, <4>1, <4>2 DEF PerRequest
    <3>2. CASE q # r
      BY <1>2, <3>2, OthersKeep DEF Goto, AuthorizationInv, TypeOK
    <3> QED BY <3>1, <3>2
  <2> QED
    BY <2>7, <2>9 DEF AuthorizationInv, PerRequest
<1> QED
  BY <1>1, <1>2 DEF Present, Admit

LEMMA CallInv ==
  ASSUME AuthorizationInv, NEW r \in Request, NEW m \in Method, Call(r, m)
  PROVE  AuthorizationInv'
<1>1. session[r] \in Session
  BY DEF AuthorizationInv, TypeOK
<1>2. [session[r] EXCEPT !.ran = @ \union {m}] \in Session
  BY <1>1, SMT DEF Session
<1>3. session' = [session EXCEPT ![r] = [session[r] EXCEPT !.ran = @ \union {m}]]
  BY DEF Call, AuthorizationInv, TypeOK
<1>4. TypeOK'
  BY <1>2, <1>3, SMT DEF AuthorizationInv, TypeOK, Call, outside
<1>5. ASSUME NEW q \in Request PROVE PerRequest(q)'
  <2>1. CASE q = r
    <3>1. /\ session'[r] = [session[r] EXCEPT !.ran = @ \union {m}]
          /\ pc' = pc /\ origin' = origin /\ token' = token
      BY <1>3 DEF AuthorizationInv, TypeOK, Call
    <3>2. SessionsAreTrue(r)'
      BY <1>1, <3>1, SMT DEF AuthorizationInv, SessionsAreTrue, Call, Session, AccessAdmits,
         IngressAdmits, ClassOf
    <3>3. NothingBeforeItsTime(r)' /\ IssuersAreWithin(r)' /\ TokenRouteKnowsNoAbility(r)'
          /\ TokensAreTrue(r)'
      <4>1. /\ pc' = pc /\ pc[r] = "open" /\ ability' = ability /\ issuer' = issuer
            /\ configured' = configured /\ origin' = origin /\ token' = token
        BY DEF Call
      <4>2. NothingBeforeItsTime(r)'
        BY <4>1 DEF NothingBeforeItsTime
      <4>3. IssuersAreWithin(r)'
        BY <4>1 DEF AuthorizationInv, IssuersAreWithin, GrantsFor
      <4>4. TokenRouteKnowsNoAbility(r)'
        BY <4>1 DEF AuthorizationInv, TokenRouteKnowsNoAbility
      <4>5. TokensAreTrue(r)'
        BY <4>1 DEF AuthorizationInv, TokensAreTrue, GrantsFor
      <4> QED BY <4>2, <4>3, <4>4, <4>5
    <3> QED BY <2>1, <3>2, <3>3 DEF PerRequest
  <2>2. CASE q # r
    BY <1>3, <2>2, OthersKeep DEF Call, AuthorizationInv, TypeOK
  <2> QED BY <2>1, <2>2
<1> QED
  BY <1>4, <1>5 DEF AuthorizationInv, PerRequest

LEMMA CloseInv ==
  ASSUME AuthorizationInv, NEW r \in Request, Close(r)
  PROVE  AuthorizationInv'
<1>1. NoSession \in Session
  BY SMT DEF NoSession, Session
<1>2. TypeOK'
  <2>1. session' \in [Request -> Session]
    BY <1>1 DEF AuthorizationInv, TypeOK, Close
  <2>2. PICK to \in {"done", "holding"} : Goto(r, to)
    BY DEF Close
  <2> QED
    BY <2>1, <2>2, AskedTyped DEF AuthorizationInv, TypeOK, Close, Stage
<1>3. ASSUME NEW q \in Request PROVE PerRequest(q)'
  <2>1. CASE q = r
    <3>1. pc'[r] \in {"done", "holding"} /\ session'[r] = NoSession /\ pc[r] = "open"
      BY DEF AuthorizationInv, TypeOK, Close, Goto
    <3>2. NothingBeforeItsTime(r)' /\ SessionsAreTrue(r)'
      BY <3>1 DEF NothingBeforeItsTime, SessionsAreTrue
    <3>3. IssuersAreWithin(r)'
      BY <3>1 DEF AuthorizationInv, Close, IssuersAreWithin, GrantsFor
    <3>4. TokenRouteKnowsNoAbility(r)'
      BY DEF AuthorizationInv, Close, TokenRouteKnowsNoAbility
    <3>5. TokensAreTrue(r)'
      BY <3>1 DEF AuthorizationInv, Close, TokensAreTrue, GrantsFor
    <3> QED BY <2>1, <3>2, <3>3, <3>4, <3>5 DEF PerRequest
  <2>2. CASE q # r
    BY <2>2, OthersKeep DEF Close, Goto, AuthorizationInv, TypeOK
  <2> QED BY <2>1, <2>2
<1> QED
  BY <1>2, <1>3 DEF AuthorizationInv, PerRequest

-----------------------------------------------------------------------------
(* Steps around the requests. *)

LEMMA OutsideInv ==
  ASSUME AuthorizationInv, UNCHANGED requests, TypeOK'
  PROVE  AuthorizationInv'
<1>1. ASSUME NEW q \in Request PROVE PerRequest(q)'
  BY OthersKeep DEF requests
<1> QED
  BY <1>1 DEF AuthorizationInv, PerRequest

LEMMA DeployInv ==
  ASSUME AuthorizationInv, NEW t \in Target, Deploy(t)
  PROVE  AuthorizationInv'
<1>1. PICK d \in Definitions[t] : definition' = [definition EXCEPT ![t] = d]
  BY DEF Deploy
<1>2. TypeOK'
  BY <1>1, DefinitionFacts DEF AuthorizationInv, TypeOK, Deploy, requests
<1> QED
  BY <1>2, OutsideInv DEF Deploy

LEMMA DiscoverInv ==
  ASSUME AuthorizationInv, NEW t \in Target, Discover(t)
  PROVE  AuthorizationInv'
<1>1. TypeOK'
  BY DEF AuthorizationInv, TypeOK, Discover, requests
<1> QED
  BY <1>1, OutsideInv DEF Discover

LEMMA ConfigureInv ==
  ASSUME AuthorizationInv, Configure
  PROVE  AuthorizationInv'
<1>1. TypeOK'
  BY GrantsAssumption DEF AuthorizationInv, TypeOK, Configure, requests
<1> QED
  BY <1>1, OutsideInv DEF Configure

LEMMA NextInv == AuthorizationInv /\ [Next]_vars => AuthorizationInv'
<1> SUFFICES ASSUME AuthorizationInv, [Next]_vars PROVE AuthorizationInv'
  OBVIOUS
<1>1. CASE UNCHANGED vars
  <2>1. TypeOK'
    BY <1>1 DEF AuthorizationInv, TypeOK, vars
  <2> QED BY <1>1, <2>1, OutsideInv DEF vars, requests
<1>2. CASE Next
  BY <1>2, AskInv, ResolveIssuerInv, TokenRequestInv, SelectAbilityInv, ConnectInv,
     InvokeProjectedInv, BudgetSpentInv, MintInv, PresentInv, CallInv, CloseInv,
     DeployInv, DiscoverInv, ConfigureInv DEF Next
<1> QED
  BY <1>1, <1>2

-----------------------------------------------------------------------------
(* The theorems. *)

\* Tokens say the truth about the requests they were minted for, and sessions
\* about their tokens.
THEOREM AuthorizationInvariant == Spec => []AuthorizationInv
  BY InitInv, NextInv, PTL DEF Spec

\* Every variable keeps its type.
THEOREM AuthorizationTypes == Spec => []TypeOK
<1>1. AuthorizationInv => TypeOK
  BY DEF AuthorizationInv
<1> QED BY <1>1, AuthorizationInvariant, PTL

\* An ability for services is never open to a user, however stale the plane's
\* snapshot and whether or not the token names a class.
THEOREM OnlyServicesReachServiceAbilities == Spec => []ServiceOnlyMeansService
<1>1. AuthorizationInv => ServiceOnlyMeansService
  <2> SUFFICES ASSUME AuthorizationInv, NEW r \in Request, pc[r] = "open",
                      session[r].rule.access = "service"
               PROVE  origin[r].kind = "service"
    BY DEF ServiceOnlyMeansService
  <2>1. ClassOf(token[r]) = "service"
    BY DEF AuthorizationInv, SessionsAreTrue, AccessAdmits
  <2>2. token[r].class \in {CallerAccess(origin[r]), "none"}
    BY DEF AuthorizationInv, TokensAreTrue
  <2> QED BY <2>1, <2>2, SMT DEF ClassOf, CallerAccess
<1> QED BY <1>1, AuthorizationInvariant, PTL

\* The identity a handler sees is the caller the plane authenticated.
THEOREM IdentitiesAreTrue == Spec => []AttributionIsTrue
<1>1. AuthorizationInv => AttributionIsTrue
  BY DEF AuthorizationInv, AttributionIsTrue, SessionsAreTrue, TokensAreTrue, ActingService, Subject
<1> QED BY <1>1, AuthorizationInvariant, PTL

\* Behind ingress there is only the plane, and connection info is the plane's.
THEOREM IngressIsThePlanes == Spec => []IngressMeansThePlane
<1>1. AuthorizationInv => IngressMeansThePlane
  <2> SUFFICES ASSUME AuthorizationInv, NEW r \in Request, pc[r] = "open"
               PROVE  /\ session[r].rule.brokers # {} =>
                           origin[r].surface # "token" /\ Plane \in session[r].rule.brokers
                      /\ session[r].connInfo # "caller's"
    BY DEF IngressMeansThePlane
  <2>1. token[r].broker # None => origin[r].surface # "token"
    BY DEF AuthorizationInv, TokensAreTrue
  <2>2. /\ session[r].connInfo # "none" => token[r].broker # None
        /\ session[r].connInfo = "caller's" => origin[r].surface = "token"
        /\ session[r].rule.brokers # {} => token[r].broker \in session[r].rule.brokers
    BY DEF AuthorizationInv, SessionsAreTrue, IngressAdmits
  <2>3. token[r].broker \in {Plane, None}
    BY SMT DEF AuthorizationInv, TypeOK, Token
  <2>4. session[r].rule \in Definition
    BY SMT DEF AuthorizationInv, TypeOK, Session, SessionsAreTrue
  <2>5. session[r].rule.brokers \subseteq Caller
    BY <2>4, SMT DEF Definition
  <2>6. None \notin Caller
    BY NamesAssumption
  <2> QED BY <2>1, <2>2, <2>3, <2>5, <2>6
<1> QED BY <1>1, AuthorizationInvariant, PTL

\* A method runs only by scopes that were granted to its caller for its target.
THEOREM CallsAreGranted == Spec => []CallsWithinGrants
<1>1. AuthorizationInv => CallsWithinGrants
  <2> SUFFICES ASSUME AuthorizationInv, NEW r \in Request, NEW m \in session[r].ran
               PROVE  IsGranted(GrantsFor(r, session[r].at), ActingService(origin[r]),
                                session[r].rule.needs[m])
    BY DEF CallsWithinGrants, GrantsFor
  <2>1. pc[r] = "open"
    BY SMT DEF AuthorizationInv, NothingBeforeItsTime, NoSession
  <2>2. /\ session[r].at = token[r].aud
        /\ session[r].rule.needs[m] \subseteq token[r].scopes
    BY <2>1 DEF AuthorizationInv, SessionsAreTrue
  <2>3. IsGranted(GrantsFor(r, token[r].aud), ActingService(origin[r]), token[r].scopes)
    BY <2>1 DEF AuthorizationInv, TokensAreTrue
  <2> QED BY <2>2, <2>3 DEF IsGranted
<1> QED BY <1>1, AuthorizationInvariant, PTL
-----------------------------------------------------------------------------
(* The verdict of the two ends.  What was decided of a request is kept with *)
(* it: by what it was let through, and what its token was minted for.       *)

Decided(r) ==
  /\ pc[r] = "selected" => origin[r].surface \in {"broker", "in-process"}
  /\ pc[r] \notin {"idle", "asked"} /\ origin[r].surface = "projection" /\ ability[r] = None =>
       issuer[r][origin[r].target] = {}
  /\ pc[r] \in {"asking", "holding", "open"} =>
       /\ origin[r].surface = "token" => AssertsNoOther(origin[r])
       /\ origin[r].surface # "token" => ability[r] # None
       /\ origin[r].surface = "projection" => ability[r].exposure = "published"
       /\ origin[r].surface \in {"broker", "in-process"} => origin[r].scopes \subseteq ability[r].scopes
  /\ pc[r] \in {"holding", "open"} =>
       /\ token[r].aud = origin[r].target
       /\ token[r].scopes = RequestedScopes(r) /\ RequestedScopes(r) # {}
       /\ token[r].broker = Broker(r)
       /\ IsGranted(issuer[r][origin[r].target], ActingService(origin[r]), RequestedScopes(r))

VerdictInv == AuthorizationInv /\ \A r \in Request : Decided(r)

LEMMA MovesOn ==
  ASSUME AuthorizationInv, NEW r \in Request, NEW to, Goto(r, to)
  PROVE  pc'[r] = to /\ \A q \in Request \ {r} : pc'[q] = pc[q]
BY DEF Goto, AuthorizationInv, TypeOK

\* A step that decides nothing new of a request.
LEMMA DecidedBefore ==
  ASSUME NEW r \in Request, Decided(r), origin'[r] = origin[r], issuer'[r] = issuer[r],
         ability'[r] = ability[r], token'[r] = token[r],
         \/ pc'[r] = pc[r]
         \/ pc[r] \notin {"idle", "asked"} /\ pc'[r] \in {"refused", "timed-out", "done"}
         \/ pc[r] \in {"holding", "open"} /\ pc'[r] \in {"holding", "open"}
  PROVE  Decided(r)'
<1>1. RequestedScopes(r)' = RequestedScopes(r) /\ Broker(r)' = Broker(r)
  BY DEF RequestedScopes, Broker
<1>2. /\ pc'[r] = "selected" => pc[r] = "selected"
      /\ pc'[r] \notin {"idle", "asked"} => pc[r] \notin {"idle", "asked"}
      /\ pc'[r] \in {"asking", "holding", "open"} => pc[r] \in {"asking", "holding", "open"}
      /\ pc'[r] \in {"holding", "open"} => pc[r] \in {"holding", "open"}
  OBVIOUS
<1> QED
  BY <1>1, <1>2 DEF Decided, AssertsNoOther, IsGranted, ActingService

\* It decides nothing of the others either.
LEMMA OthersDecided ==
  ASSUME VerdictInv, NEW r \in Request, NEW to, Goto(r, to), Decided(r)',
         \A q \in Request \ {r} :
           /\ origin'[q] = origin[q] /\ issuer'[q] = issuer[q]
           /\ ability'[q] = ability[q] /\ token'[q] = token[q]
  PROVE  \A q \in Request : Decided(q)'
<1> SUFFICES ASSUME NEW q \in Request PROVE Decided(q)'
  OBVIOUS
<1>1. CASE q = r
  BY <1>1
<1>2. CASE q # r
  BY <1>2, MovesOn, DecidedBefore DEF VerdictInv
<1> QED
  BY <1>1, <1>2

\* The steps that stop a request, or leave what it holds as it is.
LEMMA StaysDecided ==
  ASSUME VerdictInv, NEW r \in Request, NEW to \in {"refused", "timed-out", "done", "holding", "open"},
         Goto(r, to), pc[r] \notin {"idle", "asked"},
         to \in {"holding", "open"} => pc[r] \in {"holding", "open"},
         UNCHANGED <<origin, issuer, ability, token>>
  PROVE  \A q \in Request : Decided(q)'
<1>1. pc'[r] = to
  BY MovesOn DEF VerdictInv
<1>2. Decided(r)'
  BY <1>1, DecidedBefore DEF VerdictInv
<1> QED
  BY <1>2, OthersDecided

LEMMA RefuseDecides ==
  ASSUME VerdictInv, NEW r \in Request, Refuse(r), pc[r] \notin {"idle", "asked"}
  PROVE  \A q \in Request : Decided(q)'
BY StaysDecided DEF Refuse

LEMMA ProceedDecides ==
  ASSUME VerdictInv, NEW r \in Request, Proceed(r), pc[r] \notin {"idle", "asked"},
         origin[r].surface = "token" => AssertsNoOther(origin[r]),
         origin[r].surface # "token" => ability[r] # None,
         origin[r].surface = "projection" => ability[r].exposure = "published",
         origin[r].surface \in {"broker", "in-process"} => origin[r].scopes \subseteq ability[r].scopes
  PROVE  \A q \in Request : Decided(q)'
<1>1. Goto(r, "asking") /\ UNCHANGED <<origin, issuer, ability, token>>
  BY DEF Proceed
<1>2. pc'[r] = "asking"
  BY <1>1, MovesOn DEF VerdictInv
<1>3. Decided(r)'
  BY <1>1, <1>2 DEF Decided, AssertsNoOther
<1> QED
  BY <1>1, <1>3, OthersDecided

LEMMA AskDecides ==
  ASSUME VerdictInv, NEW r \in Request, Ask(r)
  PROVE  \A q \in Request : Decided(q)'
<1>1. /\ Goto(r, "asked") /\ UNCHANGED <<issuer, ability, token>>
      /\ \E o \in Origin : origin' = [origin EXCEPT ![r] = o]
  BY DEF Ask
<1>2. pc'[r] = "asked"
  BY <1>1, MovesOn DEF VerdictInv
<1>3. Decided(r)'
  BY <1>2 DEF Decided
<1>4. \A q \in Request \ {r} : origin'[q] = origin[q]
  BY <1>1 DEF VerdictInv, AuthorizationInv, TypeOK
<1> QED
  BY <1>1, <1>3, <1>4, OthersDecided

\* An issuer that was resolved while the target was unknown honours nothing for it.
LEMMA ResolveIssuerDecides ==
  ASSUME VerdictInv, NEW r \in Request, ResolveIssuer(r)
  PROVE  \A q \in Request : Decided(q)'
<1> DEFINE honoured == Honoured(catalog, configured[r])
           t == origin[r].target
<1>1. /\ Goto(r, "resolved") /\ UNCHANGED <<origin, token>>
      /\ issuer' = [issuer EXCEPT ![r] = honoured]
      /\ ability' = IF origin[r].surface = "projection" THEN [ability EXCEPT ![r] = catalog[t]] ELSE ability
  BY DEF ResolveIssuer
<1>2. /\ issuer \in [Request -> [Target -> SUBSET Grant]]
      /\ ability \in [Request -> Definition \union {None}]
      /\ t \in Target
  <2>1. origin[r] \in Origin /\ Authenticated(origin[r])
    BY DEF VerdictInv, AuthorizationInv, TypeOK, ResolveIssuer
  <2> QED
    BY <2>1, OriginFacts DEF VerdictInv, AuthorizationInv, TypeOK
<1>3. catalog[t] = None => honoured[t] = {}
  BY <1>2 DEF Honoured
<1> HIDE DEF honoured
<1>4. /\ pc'[r] = "resolved" /\ issuer'[r] = honoured
      /\ origin[r].surface = "projection" => ability'[r] = catalog[t]
  BY <1>1, <1>2, MovesOn DEF VerdictInv
<1>5. Decided(r)'
  BY <1>1, <1>3, <1>4 DEF Decided
<1>6. \A q \in Request \ {r} : issuer'[q] = issuer[q] /\ ability'[q] = ability[q]
  BY <1>1, <1>2
<1> QED
  BY <1>1, <1>5, <1>6, OthersDecided

LEMMA TokenRequestDecides ==
  ASSUME VerdictInv, NEW r \in Request, TokenRequest(r)
  PROVE  \A q \in Request : Decided(q)'
<1>1. CASE AssertsNoOther(origin[r]) /\ Proceed(r)
  BY <1>1, ProceedDecides DEF TokenRequest
<1>2. CASE Refuse(r)
  BY <1>2, RefuseDecides DEF TokenRequest
<1> QED
  BY <1>1, <1>2 DEF TokenRequest

LEMMA SelectAbilityDecides ==
  ASSUME VerdictInv, NEW r \in Request, SelectAbility(r)
  PROVE  \A q \in Request : Decided(q)'
<1> DEFINE found == catalog[origin[r].target]
<1>1. CASE /\ ability' = [ability EXCEPT ![r] = found] /\ Goto(r, "selected")
           /\ UNCHANGED <<outside, origin, configured, issuer, token, session>>
  <2>1. ability \in [Request -> Definition \union {None}]
    BY DEF VerdictInv, AuthorizationInv, TypeOK
  <2>2. pc'[r] = "selected" /\ origin[r].surface \in {"broker", "in-process"}
    BY <1>1, MovesOn DEF VerdictInv, SelectAbility
  <2>3. Decided(r)'
    BY <1>1, <2>2 DEF Decided
  <2>4. \A q \in Request \ {r} : ability'[q] = ability[q]
    BY <1>1, <2>1
  <2> QED
    BY <1>1, <2>3, <2>4, OthersDecided
<1>2. CASE Refuse(r)
  BY <1>2, RefuseDecides DEF SelectAbility
<1> QED
  BY <1>1, <1>2 DEF SelectAbility

LEMMA ConnectDecides ==
  ASSUME VerdictInv, NEW r \in Request, Connect(r)
  PROVE  \A q \in Request : Decided(q)'
<1>1. origin[r].surface \in {"broker", "in-process"} /\ ability[r] # None
  BY DEF VerdictInv, Decided, AuthorizationInv, NothingBeforeItsTime, Connect
<1>2. CASE origin[r].scopes \subseteq ability[r].scopes /\ Proceed(r)
  BY <1>1, <1>2, ProceedDecides DEF Connect
<1>3. CASE Refuse(r)
  BY <1>3, RefuseDecides DEF Connect
<1> QED
  BY <1>2, <1>3 DEF Connect

LEMMA InvokeProjectedDecides ==
  ASSUME VerdictInv, NEW r \in Request, InvokeProjected(r)
  PROVE  \A q \in Request : Decided(q)'
<1>1. CASE ability[r] # None /\ ability[r].exposure = "published" /\ Proceed(r)
  BY <1>1, ProceedDecides DEF InvokeProjected
<1>2. CASE Refuse(r)
  BY <1>2, RefuseDecides DEF InvokeProjected
<1> QED
  BY <1>1, <1>2 DEF InvokeProjected

\* What was asked for was granted, and the token is for it.
LEMMA MintDecides ==
  ASSUME VerdictInv, NEW r \in Request, NEW attested \in BOOLEAN, Mint(r, attested)
  PROVE  \A q \in Request : Decided(q)'
<1> DEFINE minted == [caller |-> ActingService(origin[r]),
                      subject |-> Subject(origin[r]),
                      class |-> IF attested THEN CallerAccess(origin[r]) ELSE "none",
                      broker |-> Broker(r),
                      scopes |-> RequestedScopes(r),
                      aud |-> origin[r].target]
<1>1. CASE Refuse(r)
  BY <1>1, RefuseDecides DEF Mint
<1>2. CASE /\ RequestedScopes(r) # {}
           /\ IsGranted(issuer[r][origin[r].target], ActingService(origin[r]), RequestedScopes(r))
           /\ token' = [token EXCEPT ![r] = minted]
           /\ Goto(r, "holding")
           /\ UNCHANGED <<outside, origin, configured, issuer, ability, session>>
  <2>1. token \in [Request -> Token]
    BY DEF VerdictInv, AuthorizationInv, TypeOK
  <2>2. /\ minted.aud = origin[r].target /\ minted.scopes = RequestedScopes(r)
        /\ minted.broker = Broker(r)
    OBVIOUS
  <2> HIDE DEF minted
  <2>3. token'[r] = minted /\ \A q \in Request \ {r} : token'[q] = token[q]
    BY <1>2, <2>1
  <2>4. pc'[r] = "holding" /\ pc[r] = "asking"
    BY <1>2, MovesOn DEF VerdictInv, Mint
  <2>5. RequestedScopes(r)' = RequestedScopes(r) /\ Broker(r)' = Broker(r)
    BY <1>2 DEF RequestedScopes, Broker
  <2>6. Decided(r)
    BY DEF VerdictInv
  <2>7. UNCHANGED <<origin, issuer, ability>>
    BY <1>2
  <2>8. Decided(r)'
    <3>1. /\ pc'[r] # "selected"
          /\ origin'[r].surface = "projection" /\ ability'[r] = None => issuer'[r][origin'[r].target] = {}
      BY <2>4, <2>6, <2>7 DEF Decided
    <3>2. /\ origin'[r].surface = "token" => AssertsNoOther(origin[r])'
          /\ origin'[r].surface # "token" => ability'[r] # None
          /\ origin'[r].surface = "projection" => ability'[r].exposure = "published"
          /\ origin'[r].surface \in {"broker", "in-process"} => origin'[r].scopes \subseteq ability'[r].scopes
      BY <2>4, <2>6, <2>7 DEF Decided, AssertsNoOther
    <3>3. /\ token'[r].aud = origin'[r].target
          /\ token'[r].scopes = RequestedScopes(r)' /\ RequestedScopes(r)' # {}
          /\ token'[r].broker = Broker(r)'
      BY <1>2, <2>2, <2>3, <2>5, <2>7
    <3>4. IsGranted(issuer[r][origin[r].target], ActingService(origin[r]), RequestedScopes(r))'
      BY <1>2, <2>5, <2>7 DEF IsGranted, ActingService
    <3> QED
      BY <3>1, <3>2, <3>3, <3>4 DEF Decided
  <2> QED
    BY <1>2, <2>3, <2>7, <2>8, OthersDecided
<1> QED
  BY <1>1, <1>2 DEF Mint

LEMMA PresentDecides ==
  ASSUME VerdictInv, NEW r \in Request, NEW sent \in BOOLEAN, Present(r, sent)
  PROVE  \A q \in Request : Decided(q)'
<1>1. CASE Refuse(r)
  BY <1>1, RefuseDecides DEF Present
<1>2. CASE Goto(r, "open") /\ UNCHANGED <<outside, origin, configured, issuer, ability, token>>
  BY <1>2, StaysDecided DEF Present
<1> QED
  BY <1>1, <1>2 DEF Present

LEMMA CloseDecides ==
  ASSUME VerdictInv, NEW r \in Request, Close(r)
  PROVE  \A q \in Request : Decided(q)'
<1>1. PICK to \in {"done", "holding"} : Goto(r, to)
  BY DEF Close
<1> QED
  BY <1>1, StaysDecided DEF Close

LEMMA NothingDecided ==
  ASSUME VerdictInv, UNCHANGED <<pc, origin, issuer, ability, token>>
  PROVE  \A q \in Request : Decided(q)'
BY DecidedBefore DEF VerdictInv

LEMMA NextDecides == VerdictInv /\ [Next]_vars => VerdictInv'
<1> SUFFICES ASSUME VerdictInv, [Next]_vars PROVE VerdictInv'
  OBVIOUS
<1>1. AuthorizationInv'
  BY NextInv DEF VerdictInv
<1>2. \A q \in Request : Decided(q)'
  <2>1. CASE UNCHANGED vars
    BY <2>1, NothingDecided DEF vars
  <2>2. ASSUME NEW r \in Request, BudgetSpent(r) PROVE \A q \in Request : Decided(q)'
    BY <2>2, StaysDecided DEF BudgetSpent
  <2>3. ASSUME NEW r \in Request, NEW m \in Method, Call(r, m) PROVE \A q \in Request : Decided(q)'
    BY <2>3, NothingDecided DEF Call
  <2>4. CASE Configure \/ \E t \in Target : Deploy(t) \/ Discover(t)
    BY <2>4, NothingDecided DEF Configure, Deploy, Discover, requests
  <2>5. CASE Next
    BY <2>2, <2>3, <2>4, <2>5, AskDecides, ResolveIssuerDecides, TokenRequestDecides,
       SelectAbilityDecides, ConnectDecides, InvokeProjectedDecides, MintDecides,
       PresentDecides, CloseDecides DEF Next
  <2> QED
    BY <2>1, <2>5
<1> QED
  BY <1>1, <1>2 DEF VerdictInv

LEMMA VerdictInvariance == Spec => []VerdictInv
<1>1. Init => VerdictInv
  <2> SUFFICES ASSUME Init PROVE VerdictInv
    OBVIOUS
  <2>1. \A r \in Request : pc[r] = "idle"
    BY DEF Init
  <2> QED
    BY <2>1, InitInv DEF VerdictInv, Decided
<1> QED
  BY <1>1, NextDecides, PTL DEF Spec

-----------------------------------------------------------------------------
(* What plane and service see when they look at the same. *)

Home(r) == definition[origin[r].target]

GrantsNow(r) == {g \in grants : g.target = origin[r].target}

\* What is wanted of the target, by its own definition.
Wanted(r) ==
  IF origin[r].surface = "projection" THEN Home(r).needs[origin[r].method] ELSE origin[r].scopes

LEMMA EntitledMeans ==
  ASSUME NEW r \in Request
  PROVE  Entitled(r) <=>
           /\ Wanted(r) # {}
           /\ origin[r].surface # "token" => Wanted(r) \subseteq Home(r).scopes
           /\ IsGranted(GrantsNow(r), ActingService(origin[r]), Wanted(r))
           /\ \A g \in GrantsNow(r) : g.scopes \subseteq Home(r).declared
           /\ Home(r).access = "service" => origin[r].kind = "service"
           /\ origin[r].surface = "projection" => Home(r).exposure = "published"
           /\ Home(r).brokers # {} => origin[r].surface # "token" /\ Plane \in Home(r).brokers
           /\ origin[r].at = origin[r].target
           /\ AssertsNoOther(origin[r])
BY DEF Entitled, Wanted, Home, GrantsNow

LEMMA FreshMeans ==
  ASSUME VerdictInv, NEW r \in Request, pc[r] # "idle", Fresh(r)
  PROVE  /\ origin[r] \in Origin /\ Authenticated(origin[r]) /\ origin[r].target \in Target
         /\ Home(r) \in Definition /\ Home(r) # None /\ Home(r) \in Definitions[origin[r].target]
         /\ catalog[origin[r].target] = Home(r)
         /\ issuer[r][origin[r].target] =
              IF \A g \in GrantsNow(r) : g.scopes \subseteq Home(r).declared THEN GrantsNow(r) ELSE {}
         /\ ability[r] # None => ability[r] = Home(r)
         /\ origin[r].surface # "projection" \/ ability[r] # None => RequestedScopes(r) = Wanted(r)
<1>1. origin[r] \in Origin /\ Authenticated(origin[r]) /\ origin[r].target \in Target
  BY OriginFacts DEF VerdictInv, AuthorizationInv, TypeOK
<1>2. Home(r) \in Definition /\ Home(r) # None /\ Home(r) \in Definitions[origin[r].target]
  BY <1>1, DefinitionFacts DEF VerdictInv, AuthorizationInv, TypeOK, Home
<1>3. /\ catalog[origin[r].target] = Home(r) /\ ability[r] \in {None, Home(r)}
      /\ issuer[r][origin[r].target] = Honoured(catalog, grants)[origin[r].target]
  BY DEF Fresh, Home
<1>4. Honoured(catalog, grants)[origin[r].target] =
        IF \A g \in GrantsNow(r) : g.scopes \subseteq Home(r).declared THEN GrantsNow(r) ELSE {}
  <2> DEFINE t == origin[r].target
  <2>1. Honoured(catalog, grants)[t] =
          IF \A g \in GrantsNow(r) : catalog[t] # None /\ g.scopes \subseteq catalog[t].declared
          THEN GrantsNow(r) ELSE {}
    BY <1>1 DEF Honoured, GrantsNow
  <2> QED
    BY <1>2, <1>3, <2>1
<1>5. origin[r].surface # "projection" \/ ability[r] # None => RequestedScopes(r) = Wanted(r)
  BY <1>3 DEF RequestedScopes, Wanted
<1> QED
  BY <1>1, <1>2, <1>3, <1>4, <1>5

\* The class the plane signs is of how the caller was authenticated.
LEMMA ClassOfTheCaller ==
  ASSUME VerdictInv, NEW r \in Request, pc[r] \in {"holding", "open"}, Fresh(r)
  PROVE  ClassOf(token[r]) = "service" <=> origin[r].kind = "service"
<1>1. origin[r] \in Origin /\ Authenticated(origin[r])
  BY FreshMeans
<1>2. token[r].caller = ActingService(origin[r]) /\ ActingService(origin[r]) \in Caller
  BY <1>1, OriginFacts DEF VerdictInv, AuthorizationInv, TokensAreTrue
<1>3. token[r] # NoToken
  BY <1>2, NamesAssumption DEF NoToken
<1>4. token[r].class = CallerAccess(origin[r])
  BY <1>3 DEF Fresh
<1> QED
  BY <1>4 DEF ClassOf, CallerAccess

-----------------------------------------------------------------------------
(* Each refusal has its reason, and an admission has all of them. *)

LEMMA TokenRequestVerdict ==
  ASSUME VerdictInv, NEW r \in Request, TokenRequest(r), pc'[r] = "refused", Fresh(r)
  PROVE  ~Entitled(r)
<1>1. ~AssertsNoOther(origin[r])
  BY MovesOn DEF TokenRequest, Proceed, VerdictInv
<1> QED
  BY <1>1, EntitledMeans

LEMMA SelectAbilityVerdict ==
  ASSUME VerdictInv, NEW r \in Request, SelectAbility(r), pc'[r] = "refused", Fresh(r)
  PROVE  ~Entitled(r)
<1>1. pc[r] = "resolved"
  BY DEF SelectAbility
<1>2. ~(catalog[origin[r].target] # None /\ Admits(catalog[origin[r].target], origin[r]))
  BY MovesOn DEF SelectAbility, VerdictInv
<1>3. Home(r).access = "service" /\ origin[r].kind # "service"
  BY <1>1, <1>2, FreshMeans DEF Admits, CallerAccess
<1> QED
  BY <1>3, EntitledMeans

LEMMA ConnectVerdict ==
  ASSUME VerdictInv, NEW r \in Request, Connect(r), pc'[r] = "refused", Fresh(r)
  PROVE  ~Entitled(r)
<1>1. pc[r] = "selected" /\ origin[r].surface \in {"broker", "in-process"} /\ ability[r] # None
  BY DEF Connect, VerdictInv, Decided, AuthorizationInv, NothingBeforeItsTime
<1>2. ~(origin[r].scopes # {} /\ origin[r].scopes \subseteq ability[r].scopes)
  BY MovesOn DEF Connect, Proceed, VerdictInv
<1>3. Wanted(r) = origin[r].scopes /\ ability[r] = Home(r)
  BY <1>1, FreshMeans DEF Wanted
<1> QED
  BY <1>1, <1>2, <1>3, EntitledMeans

\* A projection whose target is unknown has an issuer that honours nothing.
LEMMA InvokeProjectedVerdict ==
  ASSUME VerdictInv, NEW r \in Request, InvokeProjected(r), pc'[r] = "refused", Fresh(r)
  PROVE  ~Entitled(r)
<1>1. pc[r] = "resolved" /\ origin[r].surface = "projection"
  BY DEF InvokeProjected
<1>2. ~(ability[r] # None /\ ability[r].exposure = "published" /\ Admits(ability[r], origin[r]))
  BY MovesOn DEF InvokeProjected, Proceed, VerdictInv
<1>3. CASE ability[r] = None
  <2>1. issuer[r][origin[r].target] = {}
    BY <1>1, <1>3 DEF VerdictInv, Decided
  <2>2. ~((\A g \in GrantsNow(r) : g.scopes \subseteq Home(r).declared) /\ GrantsNow(r) # {})
    BY <1>1, <2>1, FreshMeans
  <2>3. Wanted(r) # {} /\ IsGranted(GrantsNow(r), ActingService(origin[r]), Wanted(r)) => GrantsNow(r) # {}
    BY DEF IsGranted
  <2> QED
    BY <2>2, <2>3, EntitledMeans
<1>4. CASE ability[r] # None
  <2>1. ability[r] = Home(r)
    BY <1>1, <1>4, FreshMeans
  <2> QED
    BY <1>1, <1>2, <1>4, <2>1, EntitledMeans DEF Admits, CallerAccess
<1> QED
  BY <1>3, <1>4

LEMMA MintVerdict ==
  ASSUME VerdictInv, NEW r \in Request, NEW attested \in BOOLEAN, Mint(r, attested),
         pc'[r] = "refused", Fresh(r)
  PROVE  ~Entitled(r)
<1>1. pc[r] = "asking"
  BY DEF Mint
<1>2. ~/\ RequestedScopes(r) # {}
       /\ IsGranted(issuer[r][origin[r].target], ActingService(origin[r]), RequestedScopes(r))
       /\ ~(Subject(origin[r]) # None /\ CallerAccess(origin[r]) = "service")
  BY MovesOn DEF Mint, VerdictInv
<1>3. ~(Subject(origin[r]) # None /\ CallerAccess(origin[r]) = "service")
  BY DEF Subject, CallerAccess
<1>4. RequestedScopes(r) = Wanted(r)
  <2>1. origin[r].surface = "projection" => ability[r] # None
    BY <1>1 DEF VerdictInv, Decided
  <2> QED
    BY <1>1, <2>1, FreshMeans
<1>5. (\A g \in GrantsNow(r) : g.scopes \subseteq Home(r).declared)
        => issuer[r][origin[r].target] = GrantsNow(r)
  BY <1>1, FreshMeans
<1> QED
  BY <1>2, <1>3, <1>4, <1>5, EntitledMeans

\* Both ends are at hand when a token is presented where it is for.
LEMMA HoldingMeans ==
  ASSUME VerdictInv, NEW r \in Request, pc[r] = "holding", Fresh(r)
  PROVE  /\ token[r].aud = origin[r].target /\ token[r].scopes = Wanted(r) /\ Wanted(r) # {}
         /\ IsGranted(issuer[r][origin[r].target], ActingService(origin[r]), Wanted(r))
         /\ token[r].broker = IF origin[r].surface # "token" /\ Home(r).brokers # {} THEN Plane ELSE None
         /\ AssertsNoOther(origin[r])
         /\ origin[r].surface # "token" => Wanted(r) \subseteq Home(r).scopes
         /\ origin[r].surface = "projection" => Home(r).exposure = "published"
<1>1. /\ origin[r] \in Origin /\ Authenticated(origin[r])
      /\ Home(r) # None /\ Home(r) \in Definitions[origin[r].target] /\ origin[r].target \in Target
      /\ ability[r] # None => ability[r] = Home(r)
      /\ origin[r].surface # "projection" \/ ability[r] # None => RequestedScopes(r) = Wanted(r)
  BY FreshMeans
<1>2. /\ origin[r].surface = "token" => AssertsNoOther(origin[r]) /\ ability[r] = None
      /\ origin[r].surface # "token" => ability[r] # None
      /\ origin[r].surface = "projection" => ability[r].exposure = "published"
      /\ origin[r].surface \in {"broker", "in-process"} => origin[r].scopes \subseteq ability[r].scopes
      /\ token[r].aud = origin[r].target
      /\ token[r].scopes = RequestedScopes(r) /\ RequestedScopes(r) # {}
      /\ token[r].broker = Broker(r)
      /\ IsGranted(issuer[r][origin[r].target], ActingService(origin[r]), RequestedScopes(r))
  BY DEF VerdictInv, Decided, AuthorizationInv, TokenRouteKnowsNoAbility
<1>3. RequestedScopes(r) = Wanted(r)
  BY <1>1, <1>2
<1>4. token[r].broker = IF origin[r].surface # "token" /\ Home(r).brokers # {} THEN Plane ELSE None
  BY <1>1, <1>2 DEF Broker
<1>5. /\ origin[r].surface \in {"token", "broker", "in-process", "projection"}
      /\ origin[r].surface # "token" => origin[r].asserts = None
      /\ origin[r].surface = "projection" => origin[r].method \in Method
  BY <1>1, SMT DEF Origin
<1>6. AssertsNoOther(origin[r])
  BY <1>2, <1>5 DEF AssertsNoOther
<1>7. origin[r].surface # "token" => Wanted(r) \subseteq Home(r).scopes
  <2>1. CASE origin[r].surface = "projection"
    BY <1>1, <1>5, <2>1, DefinitionsAssumption DEF Wanted
  <2>2. CASE origin[r].surface \in {"broker", "in-process"}
    BY <1>1, <1>2, <2>2 DEF Wanted
  <2> QED
    BY <1>5, <2>1, <2>2
<1> QED
  BY <1>1, <1>2, <1>3, <1>4, <1>6, <1>7

LEMMA PresentVerdict ==
  ASSUME VerdictInv, NEW r \in Request, NEW sent \in BOOLEAN, Present(r, sent), Fresh(r)
  PROVE  /\ pc'[r] = "refused" => ~Entitled(r)
         /\ pc'[r] = "open" => Entitled(r)
<1> DEFINE d == definition[origin[r].at]
           admits == /\ token[r].aud = origin[r].at
                     /\ IngressAdmits(d, token[r])
                     /\ AccessAdmits(d, token[r])
<1>1. pc[r] = "holding"
  BY DEF Present
<1>2. /\ admits => pc'[r] = "open"
      /\ ~admits => pc'[r] = "refused"
  <2>1. admits => Goto(r, "open")
    BY DEF Present
  <2>2. ~admits => Goto(r, "refused")
    BY DEF Present, Refuse
  <2> HIDE DEF admits
  <2> QED
    BY <2>1, <2>2, MovesOn DEF VerdictInv
<1>3. /\ token[r].aud = origin[r].target /\ token[r].scopes = Wanted(r) /\ Wanted(r) # {}
      /\ IsGranted(issuer[r][origin[r].target], ActingService(origin[r]), Wanted(r))
      /\ token[r].broker = IF origin[r].surface # "token" /\ Home(r).brokers # {} THEN Plane ELSE None
      /\ AssertsNoOther(origin[r])
      /\ origin[r].surface # "token" => Wanted(r) \subseteq Home(r).scopes
      /\ origin[r].surface = "projection" => Home(r).exposure = "published"
  BY <1>1, HoldingMeans
<1>4. /\ Home(r) \in Definition
      /\ issuer[r][origin[r].target] =
           IF \A g \in GrantsNow(r) : g.scopes \subseteq Home(r).declared THEN GrantsNow(r) ELSE {}
  BY <1>1, FreshMeans
<1>5. Home(r).brokers \subseteq Caller /\ None \notin Caller
  BY <1>4, NamesAssumption, SMT DEF Definition
<1>6. ClassOf(token[r]) = "service" <=> origin[r].kind = "service"
  BY <1>1, ClassOfTheCaller
<1>7. ASSUME origin[r].at = origin[r].target
      PROVE  /\ IngressAdmits(d, token[r]) <=>
                  (Home(r).brokers # {} => origin[r].surface # "token" /\ Plane \in Home(r).brokers)
             /\ AccessAdmits(d, token[r]) <=>
                  (Home(r).access = "service" => origin[r].kind = "service")
  <2>1. d = Home(r)
    BY <1>7 DEF Home
  <2> HIDE DEF d
  <2>2. AccessAdmits(d, token[r]) <=> (Home(r).access = "service" => origin[r].kind = "service")
    BY <1>6, <2>1 DEF AccessAdmits
  <2>3. IngressAdmits(d, token[r]) <=> (Home(r).brokers # {} => token[r].broker \in Home(r).brokers)
    BY <2>1 DEF IngressAdmits
  <2>4. Home(r).brokers # {} =>
          (token[r].broker \in Home(r).brokers <=>
             origin[r].surface # "token" /\ Plane \in Home(r).brokers)
    BY <1>3, <1>5
  <2> QED
    BY <2>2, <2>3, <2>4
<1>8. /\ IsGranted(GrantsNow(r), ActingService(origin[r]), Wanted(r))
      /\ \A g \in GrantsNow(r) : g.scopes \subseteq Home(r).declared
  <2>1. issuer[r][origin[r].target] # {}
    BY <1>3 DEF IsGranted
  <2> QED
    BY <1>3, <1>4, <2>1
<1>9. admits <=> Entitled(r)
  <2>1. admits => origin[r].at = origin[r].target
    BY <1>3
  <2> HIDE DEF d
  <2>2. CASE origin[r].at # origin[r].target
    BY <2>1, <2>2, EntitledMeans
  <2>3. CASE origin[r].at = origin[r].target
    <3>1. admits <=> IngressAdmits(d, token[r]) /\ AccessAdmits(d, token[r])
      BY <1>3, <2>3
    <3> HIDE DEF admits
    <3> QED
      BY <1>3, <1>7, <1>8, <2>3, <3>1, EntitledMeans
  <2> QED
    BY <2>2, <2>3
<1> HIDE DEF admits
<1> QED
  BY <1>2, <1>9

\* The steps that give no verdict.
LEMMA NoVerdict ==
  ASSUME VerdictInv, NEW r \in Request, NEW to, Goto(r, to), to \notin {"open", "refused"},
         NEW q \in Request, pc[q] # pc'[q]
  PROVE  pc'[q] \notin {"open", "refused"}
BY MovesOn DEF VerdictInv

Verdict(r) ==
  pc[r] # pc'[r] /\ pc'[r] \in {"open", "refused"} =>
    (Fresh(r) => (Entitled(r) <=> pc'[r] = "open"))

LEMMA NextVerdict ==
  ASSUME VerdictInv, [Next]_vars, NEW q \in Request
  PROVE  Verdict(q)
<1> SUFFICES ASSUME pc[q] # pc'[q], pc'[q] \in {"open", "refused"}, Fresh(q)
             PROVE  Entitled(q) <=> pc'[q] = "open"
  BY DEF Verdict
<1>1. \A r \in Request : \A to : Goto(r, to) => r = q /\ pc'[q] = to
  <2> SUFFICES ASSUME NEW r \in Request, NEW to, Goto(r, to) PROVE r = q /\ pc'[q] = to
    OBVIOUS
  <2> QED
    BY MovesOn DEF VerdictInv
<1>2. ASSUME NEW r \in Request, Ask(r) \/ ResolveIssuer(r) \/ BudgetSpent(r) \/ Close(r)
      PROVE  FALSE
  <2>1. PICK to \in {"asked", "resolved", "timed-out", "done", "holding"} : Goto(r, to)
    BY <1>2 DEF Ask, ResolveIssuer, BudgetSpent, Close
  <2> QED
    BY <1>1, <2>1
<1>3. ASSUME NEW r \in Request,
             TokenRequest(r) \/ SelectAbility(r) \/ Connect(r) \/ InvokeProjected(r)
             \/ \E attested \in BOOLEAN : Mint(r, attested)
      PROVE  pc'[q] = "refused" /\ ~Entitled(q)
  <2>1. PICK to \in {"refused", "asking", "selected", "holding"} : Goto(r, to)
    BY <1>3 DEF TokenRequest, SelectAbility, Connect, InvokeProjected, Mint, Refuse, Proceed
  <2>2. r = q /\ pc'[q] = "refused"
    BY <1>1, <2>1
  <2> QED
    BY <1>3, <2>2, TokenRequestVerdict, SelectAbilityVerdict, ConnectVerdict,
       InvokeProjectedVerdict, MintVerdict
<1>4. ASSUME NEW r \in Request, NEW sent \in BOOLEAN, Present(r, sent)
      PROVE  Entitled(q) <=> pc'[q] = "open"
  <2>1. PICK to \in {"refused", "open"} : Goto(r, to)
    BY <1>4 DEF Present, Refuse
  <2>2. r = q
    BY <1>1, <2>1
  <2> QED
    BY <1>4, <2>2, PresentVerdict
<1>5. ~UNCHANGED pc
  OBVIOUS
<1>6. CASE Next
  BY <1>2, <1>3, <1>4, <1>5, <1>6 DEF Next, Call, Configure, Deploy, Discover, requests
<1> QED
  BY <1>5, <1>6 DEF vars

\* For every set of definitions and of grants: of a request whose plane and
\* service look at the same, the verdict is the rule (the capability issuer, the
\* surfaces and AuthRoot.authenticate refuse no one else, and admit no one else).
THEOREM EndsAgree == Spec => VerdictIsEntitlement
<1> DEFINE Rule == \A r \in Request :
                     pc[r] # pc'[r] /\ pc'[r] \in {"open", "refused"} =>
                       (Fresh(r) => (Entitled(r) <=> pc'[r] = "open"))
<1>1. VerdictInv /\ [Next]_vars => [Rule]_vars
  BY NextVerdict DEF Verdict
<1> HIDE DEF Rule
<1>2. Spec => [][Rule]_vars
  BY <1>1, VerdictInvariance, PTL DEF Spec
<1> QED
  BY <1>2 DEF Rule, VerdictIsEntitlement

=============================================================================
