---------------------------- MODULE Authorization ----------------------------
(***************************************************************************)
(* Who may do what, from the surface of the control plane a request        *)
(* arrives at to the method that runs in a service.  A service asks the    *)
(* token route for a token and calls with it; or the plane calls for a     *)
(* service or a user, as its RPC broker, as a REST or MCP projection, or   *)
(* in process.  The two ends decide apart and at different times: the      *)
(* plane from a discovery snapshot, the service from what it has deployed. *)
(*                                                                         *)
(* A request is a function argument of every variable of the plane: what   *)
(* one request resolves, no other uses.  A step runs from one await to the *)
(* next.  Signatures, keys and expiry are KeyRotation's matter, snapshots  *)
(* DiscoveryRegistry's.  A service is taken to offer one ability.          *)
(***************************************************************************)
CONSTANTS
  Service,      \* the services that call
  User,         \* the principals a surface may authenticate besides services
  Plane,        \* the plane's own service id, also its issuer
  Target,       \* the services that are called
  Scope, Method,
  Definitions,  \* [Target -> what it may deploy]
  GrantTables,  \* the grants the plane may be configured with
  Request,
  None

Caller == Service \union {Plane}

Definition ==
  [access : {"plane", "service"}, exposure : {"private", "published"},
   brokers : SUBSET Caller,   \* of its ingress; none: it has no ingress
   declared : SUBSET Scope,   \* by its capability catalog
   scopes : SUBSET Scope,     \* of its ability
   needs : [Method -> SUBSET Scope]]

Grant == [caller : Caller, target : Target, scopes : SUBSET Scope]

\* What defineAbilityService lets through (ServiceDefinition): a method needs
\* scopes its ability has, and those its service declares.
ASSUME DefinitionsAssumption ==
  /\ Definitions \in [Target -> SUBSET Definition]
  /\ \A t \in Target : \A d \in Definitions[t] :
       /\ d.scopes \subseteq d.declared
       /\ \A m \in Method : d.needs[m] # {} /\ d.needs[m] \subseteq d.scopes

ASSUME GrantsAssumption == GrantTables \subseteq SUBSET Grant

ASSUME NamesAssumption ==
  /\ Plane \notin Service
  /\ None \notin Caller \union User \union Target \union Method
  /\ \A t \in Target : None \notin Definitions[t]

VARIABLES
  definition,  \* [Target -> what it has deployed]
  catalog,     \* [Target -> what the plane last discovered of it, None if nothing]
  grants,      \* the plane's configured grants
  pc,          \* [Request -> how far it has come]
  origin,      \* [Request -> who asks, where, for what]
  configured,  \* [Request -> the grants that were configured when it arrived]
  issuer,      \* [Request -> the grants its issuer honours, per target]
  ability,     \* [Request -> the definition the plane calls by, None if it does not]
  token,       \* [Request -> its capability token]
  session      \* [Request -> the session the service admitted]

outside == <<definition, catalog, grants>>
vars == <<definition, catalog, grants, pc, origin, configured, issuer, ability, token, session>>

Goto(r, to) == pc' = [pc EXCEPT ![r] = to]

-----------------------------------------------------------------------------
(* Requests. *)

\* A token request is authenticated as a service and names, beside the scopes,
\* where it will present the token; its body may assert another caller or a
\* subject.  The other surfaces find a caller put there by the application:
\* none only in process.
Origin ==
  [surface : {"token"}, kind : {"service"}, id : Service, target : Target,
   at : Target, asserts : Service \union User \union {None},
   scopes : SUBSET Scope, method : {None}]
  \union
  [surface : {"broker", "in-process"}, kind : {"service", "user", "none"},
   id : Service \union User \union {None}, target : Target,
   at : Target, asserts : {None}, scopes : SUBSET Scope, method : {None}]
  \union
  [surface : {"projection"}, kind : {"service", "user"},
   id : Service \union User, target : Target,
   at : Target, asserts : {None}, scopes : {{}}, method : Method]

Authenticated(o) ==
  /\ (o.kind = "service") <=> (o.id \in Service)
  /\ (o.kind = "user") <=> (o.id \in User)
  /\ (o.surface = "broker") => (o.kind # "none")
  /\ (o.surface # "token") => (o.at = o.target)

NoRequest ==
  [surface |-> "token", kind |-> "none", id |-> None, target |-> None,
   at |-> None, asserts |-> None, scopes |-> {}, method |-> None]

NoToken ==
  [caller |-> None, subject |-> None, class |-> "none", broker |-> None,
   scopes |-> {}, aud |-> None]

NoSession ==
  [at |-> None, rule |-> None, serviceId |-> None, subject |-> None,
   class |-> "none", scopes |-> {}, connInfo |-> "none", ran |-> {}]

\* The service a token names as the caller: the plane, for whom it fronts.
ActingService(o) == IF o.kind = "service" THEN o.id ELSE Plane

\* Fault: whoever the plane fronts is the plane.
SubjectDropped(o) == None

Subject(o) == IF o.kind = "user" THEN o.id ELSE None

\* Only a caller authenticated as a service is of the service class.
CallerAccess(o) == IF o.kind = "service" THEN "service" ELSE "plane"

Init ==
  /\ definition \in {f \in [Target -> UNION {Definitions[t] : t \in Target}] :
                       \A t \in Target : f[t] \in Definitions[t]}
  /\ catalog = [t \in Target |-> None]
  /\ grants \in GrantTables
  /\ pc = [r \in Request |-> "idle"]
  /\ origin = [r \in Request |-> NoRequest]
  /\ configured = [r \in Request |-> {}]
  /\ issuer = [r \in Request |-> [t \in Target |-> {}]]
  /\ ability = [r \in Request |-> None]
  /\ token = [r \in Request |-> NoToken]
  /\ session = [r \in Request |-> NoSession]

\* The caller is known and the endpoints, with their grants, are resolved.
Ask(r) ==
  /\ pc[r] = "idle"
  /\ \E o \in Origin : Authenticated(o) /\ origin' = [origin EXCEPT ![r] = o]
  /\ configured' = [configured EXCEPT ![r] = grants]
  /\ Goto(r, "asked")
  /\ UNCHANGED <<outside, issuer, ability, token, session>>

-----------------------------------------------------------------------------
(* The issuer. *)

\* One grant of scopes its target does not declare, or for a target that is not
\* in the snapshot, refuses the whole target, and no other.
Honoured(snapshot, table) ==
  [t \in Target |->
     LET mine == {g \in table : g.target = t}
     IN IF \A g \in mine : snapshot[t] # None /\ g.scopes \subseteq snapshot[t].declared
        THEN mine ELSE {}]

\* A projection was resolved from this same snapshot.
ResolveIssuer(r) ==
  /\ pc[r] = "asked"
  /\ issuer' = [issuer EXCEPT ![r] = Honoured(catalog, configured[r])]
  /\ ability' = IF origin[r].surface = "projection"
                THEN [ability EXCEPT ![r] = catalog[origin[r].target]] ELSE ability
  /\ Goto(r, "resolved")
  /\ UNCHANGED <<outside, origin, configured, token, session>>

IsGranted(honoured, caller, scopes) ==
  \A s \in scopes : \E g \in honoured : g.caller = caller /\ s \in g.scopes

-----------------------------------------------------------------------------
(* The surfaces. *)

Refuse(r) ==
  /\ Goto(r, "refused")
  /\ UNCHANGED <<outside, origin, configured, issuer, ability, token, session>>

Proceed(r) ==
  /\ Goto(r, "asking")
  /\ UNCHANGED <<outside, origin, configured, issuer, ability, token, session>>

AssertsNoOther(o) == o.asserts \in {None, o.id}

\* The token route, HTTP or native.
TokenRequest(r) ==
  /\ pc[r] = "resolved"
  /\ origin[r].surface = "token"
  /\ IF AssertsNoOther(origin[r]) THEN Proceed(r) ELSE Refuse(r)

Admits(d, o) == (d.access = "service") => (CallerAccess(o) = "service")

\* The broker looks the ability up again, apart from its issuer.
SelectAbility(r) ==
  /\ pc[r] = "resolved"
  /\ origin[r].surface \in {"broker", "in-process"}
  /\ LET found == catalog[origin[r].target]
     IN IF found # None /\ Admits(found, origin[r])
        THEN /\ ability' = [ability EXCEPT ![r] = found]
             /\ Goto(r, "selected")
             /\ UNCHANGED <<outside, origin, configured, issuer, token, session>>
        ELSE Refuse(r)

Connect(r) ==
  /\ pc[r] = "selected"
  /\ IF origin[r].scopes # {} /\ origin[r].scopes \subseteq ability[r].scopes
     THEN Proceed(r) ELSE Refuse(r)

InvokeProjected(r) ==
  /\ pc[r] = "resolved"
  /\ origin[r].surface = "projection"
  /\ IF ability[r] # None /\ ability[r].exposure = "published" /\ Admits(ability[r], origin[r])
     THEN Proceed(r) ELSE Refuse(r)

\* The caller's budget is spent before the service is reached.
BudgetSpent(r) ==
  /\ \/ pc[r] = "selected"
     \/ pc[r] = "resolved" /\ origin[r].surface = "projection"
  /\ Goto(r, "timed-out")
  /\ UNCHANGED <<outside, origin, configured, issuer, ability, token, session>>

RequestedScopes(r) ==
  IF origin[r].surface = "projection" THEN ability[r].needs[origin[r].method] ELSE origin[r].scopes

\* Fault: the projections mint plain tokens only.
BrokerUnlessProjected(r) ==
  IF origin[r].surface # "projection" /\ ability[r] # None /\ ability[r].brokers # {}
  THEN Plane ELSE None

\* Brokered for a target that, by the definition the plane calls by, demands it.
Broker(r) == IF ability[r] # None /\ ability[r].brokers # {} THEN Plane ELSE None

\* A plane of a release before the access class signs none into its tokens.
Mint(r, attested) ==
  /\ pc[r] = "asking"
  /\ IF /\ RequestedScopes(r) # {}
        /\ IsGranted(issuer[r][origin[r].target], ActingService(origin[r]), RequestedScopes(r))
        /\ ~(Subject(origin[r]) # None /\ CallerAccess(origin[r]) = "service")
     THEN /\ token' = [token EXCEPT ![r] =
               [caller |-> ActingService(origin[r]),
                subject |-> Subject(origin[r]),
                class |-> IF attested THEN CallerAccess(origin[r]) ELSE "none",
                broker |-> Broker(r),
                scopes |-> RequestedScopes(r),
                aud |-> origin[r].target]]
          /\ Goto(r, "holding")
          /\ UNCHANGED <<outside, origin, configured, issuer, ability, session>>
     ELSE Refuse(r)

-----------------------------------------------------------------------------
(* The service's end. *)

\* Fault: a token that names no class and no subject is taken for a service's.
ClassGuessed(tk) ==
  IF tk.class # "none" THEN tk.class ELSE IF tk.subject = None THEN "service" ELSE "plane"

\* Absent means the class that can reach the least.
ClassOf(tk) == IF tk.class = "none" THEN "plane" ELSE tk.class

IngressAdmits(d, tk) == (d.brokers # {}) => (tk.broker \in d.brokers)

AccessAdmits(d, tk) == (d.access = "service") => (ClassOf(tk) = "service")

\* Fault: connection info is believed of whoever sends it.
ConnInfoOfAnyone(r, d, sent) ==
  IF sent THEN IF origin[r].surface = "token" THEN "caller's" ELSE "plane's" ELSE "none"

\* The peer may send connection info; it is believed of the broker only.
ConnInfo(r, d, sent) ==
  IF sent /\ d.brokers # {} /\ token[r].broker # None
  THEN IF origin[r].surface = "token" THEN "caller's" ELSE "plane's"
  ELSE "none"

Admit(r, t, sent) ==
  session' = [session EXCEPT ![r] =
    [at |-> t, rule |-> definition[t],
     serviceId |-> token[r].caller, subject |-> token[r].subject,
     class |-> ClassOf(token[r]), scopes |-> token[r].scopes,
     connInfo |-> ConnInfo(r, definition[t], sent), ran |-> {}]]

\* AuthRoot.authenticate, by the definition deployed now.
Present(r, sent) ==
  /\ pc[r] = "holding"
  /\ LET t == origin[r].at
     IN IF /\ token[r].aud = t
           /\ IngressAdmits(definition[t], token[r])
           /\ AccessAdmits(definition[t], token[r])
        THEN /\ Admit(r, t, sent)
             /\ Goto(r, "open")
             /\ UNCHANGED <<outside, origin, configured, issuer, ability, token>>
        ELSE Refuse(r)

\* Fault: any one of the scopes a method needs is enough.
CallOnOneScope(r, m) ==
  /\ pc[r] = "open"
  /\ origin[r].method \in {None, m}
  /\ session[r].rule.needs[m] \intersect session[r].scopes # {}
  /\ session' = [session EXCEPT ![r].ran = @ \union {m}]
  /\ UNCHANGED <<outside, pc, origin, configured, issuer, ability, token>>

\* A projection calls its one method; a method the scopes do not reach is
\* refused and changes nothing.
Call(r, m) ==
  /\ pc[r] = "open"
  /\ origin[r].method \in {None, m}
  /\ session[r].rule.needs[m] \subseteq session[r].scopes
  /\ session' = [session EXCEPT ![r].ran = @ \union {m}]
  /\ UNCHANGED <<outside, pc, origin, configured, issuer, ability, token>>

\* The token outlives the session, except a projection's.
Close(r) ==
  /\ pc[r] = "open"
  /\ session' = [session EXCEPT ![r] = NoSession]
  /\ Goto(r, IF origin[r].surface = "projection" THEN "done" ELSE "holding")
  /\ UNCHANGED <<outside, origin, configured, issuer, ability, token>>

-----------------------------------------------------------------------------
(* Around them: deploys, discoveries and reconfigurations. *)

requests == <<pc, origin, configured, issuer, ability, token, session>>

Deploy(t) ==
  /\ \E d \in Definitions[t] : definition' = [definition EXCEPT ![t] = d]
  /\ UNCHANGED <<catalog, grants, requests>>

Discover(t) ==
  /\ \E found \in {definition[t], None} : catalog' = [catalog EXCEPT ![t] = found]
  /\ UNCHANGED <<definition, grants, requests>>

Configure ==
  /\ grants' \in GrantTables
  /\ UNCHANGED <<definition, catalog, requests>>

Next ==
  \/ \E r \in Request :
       \/ Ask(r) \/ ResolveIssuer(r) \/ TokenRequest(r) \/ SelectAbility(r)
       \/ Connect(r) \/ InvokeProjected(r) \/ BudgetSpent(r) \/ Close(r)
       \/ \E attested \in BOOLEAN : Mint(r, attested)
       \/ \E sent \in BOOLEAN : Present(r, sent)
       \/ \E m \in Method : Call(r, m)
  \/ \E t \in Target : Deploy(t) \/ Discover(t)
  \/ Configure

Spec == Init /\ [][Next]_vars
-----------------------------------------------------------------------------
(* Properties. *)

Token ==
  [caller : Caller \union {None}, subject : User \union {None},
   class : {"plane", "service", "none"}, broker : {Plane, None},
   scopes : SUBSET Scope, aud : Target \union {None}]

Session ==
  [at : Target \union {None}, rule : Definition \union {None},
   serviceId : Caller \union {None}, subject : User \union {None},
   class : {"plane", "service", "none"}, scopes : SUBSET Scope,
   connInfo : {"none", "plane's", "caller's"}, ran : SUBSET Method]

Stage == {"idle", "asked", "resolved", "selected", "asking", "holding",
          "open", "done", "refused", "timed-out"}

\* Every variable has its type.
TypeOK ==
  /\ definition \in [Target -> Definition]
  /\ \A t \in Target : definition[t] \in Definitions[t]
  /\ catalog \in [Target -> Definition \union {None}]
  /\ \A t \in Target : catalog[t] \in Definitions[t] \union {None}
  /\ grants \in SUBSET Grant
  /\ pc \in [Request -> Stage]
  /\ origin \in [Request -> Origin \union {NoRequest}]
  /\ \A r \in Request : pc[r] # "idle" => origin[r] \in Origin /\ Authenticated(origin[r])
  /\ configured \in [Request -> SUBSET Grant]
  /\ issuer \in [Request -> [Target -> SUBSET Grant]]
  /\ ability \in [Request -> Definition \union {None}]
  /\ token \in [Request -> Token]
  /\ session \in [Request -> Session]

\* An ability for services (access: 'service') is open only to what the plane
\* authenticated as a service, from the moment the service deploys it and
\* however old the plane's snapshot: never to a user the plane fronts, nor to a
\* caller whose class nobody vouched for (verifyAbilityAccess).
ServiceOnlyMeansService ==
  \A r \in Request :
    pc[r] = "open" /\ session[r].rule.access = "service" => origin[r].kind = "service"

\* The identity a handler sees is who asked: a service as itself, a user as the
\* subject of the plane, whatever a token request asserted and whichever
\* surface minted the token (brokerCallerSubject, rejectCallerAssertedSubject).
AttributionIsTrue ==
  \A r \in Request : pc[r] = "open" =>
    /\ session[r].serviceId = (IF origin[r].kind = "service" THEN origin[r].id ELSE Plane)
    /\ session[r].subject = (IF origin[r].kind = "user" THEN origin[r].id ELSE None)

\* A service with ingress is reached through a broker it lists, and the
\* connection info a handler sees was put there by the plane, never by the
\* caller itself (verifyServiceIngress; the comment at service.ts:309).
IngressMeansThePlane ==
  \A r \in Request : pc[r] = "open" =>
    /\ session[r].rule.brokers # {} => origin[r].surface # "token" /\ Plane \in session[r].rule.brokers
    /\ session[r].connInfo # "caller's"

\* A method runs only by scopes the configuration granted the caller for that
\* very target at the time its request arrived, all of them, even where plane
\* and service disagree on what the method needs.
CallsWithinGrants ==
  \A r \in Request : \A m \in session[r].ran :
    IsGranted({g \in configured[r] : g.target = session[r].at},
              ActingService(origin[r]), session[r].rule.needs[m])

-----------------------------------------------------------------------------
(* The inductive invariant of the proofs. *)

GrantsFor(r, t) == {g \in configured[r] : g.target = t}

\* What the plane holds before it has resolved a request is nothing.
NothingBeforeItsTime(r) ==
  /\ pc[r] \in {"idle", "asked"} => ability[r] = None
  /\ pc[r] # "open" => session[r] = NoSession
  /\ pc[r] \in {"selected", "asking"} /\ origin[r].surface # "token" => ability[r] # None

IssuersAreWithin(r) ==
  pc[r] \notin {"idle", "asked"} => \A t \in Target : issuer[r][t] \subseteq GrantsFor(r, t)

\* The definition the plane calls by is a broker's or a projection's.
TokenRouteKnowsNoAbility(r) == origin[r].surface = "token" => ability[r] = None

TokensAreTrue(r) ==
  pc[r] \in {"holding", "open"} =>
    /\ token[r].caller = ActingService(origin[r])
    /\ token[r].subject = Subject(origin[r])
    /\ token[r].class \in {CallerAccess(origin[r]), "none"}
    /\ token[r].broker # None => origin[r].surface # "token"
    /\ IsGranted(GrantsFor(r, token[r].aud), ActingService(origin[r]), token[r].scopes)

SessionsAreTrue(r) ==
  pc[r] = "open" =>
    /\ session[r].at = token[r].aud
    /\ session[r].rule # None
    /\ session[r].serviceId = token[r].caller
    /\ session[r].subject = token[r].subject
    /\ session[r].scopes = token[r].scopes
    /\ AccessAdmits(session[r].rule, token[r])
    /\ IngressAdmits(session[r].rule, token[r])
    /\ session[r].connInfo # "none" => token[r].broker # None
    /\ session[r].connInfo = "caller's" => origin[r].surface = "token"
    /\ \A m \in session[r].ran : session[r].rule.needs[m] \subseteq session[r].scopes

AuthorizationInv ==
  /\ TypeOK
  /\ \A r \in Request :
       /\ NothingBeforeItsTime(r) /\ IssuersAreWithin(r) /\ TokenRouteKnowsNoAbility(r)
       /\ TokensAreTrue(r) /\ SessionsAreTrue(r)

-----------------------------------------------------------------------------
(* What the two ends promise together. *)

\* r has all it asks for coming to it, by what is deployed and configured now.
Entitled(r) ==
  LET o == origin[r]
      d == definition[o.target]
      wanted == IF o.surface = "projection" THEN d.needs[o.method] ELSE o.scopes
      mine == {g \in grants : g.target = o.target}
  IN /\ wanted # {}
     /\ o.surface # "token" => wanted \subseteq d.scopes
     /\ IsGranted(mine, ActingService(o), wanted)
     /\ \A g \in mine : g.scopes \subseteq d.declared
     /\ d.access = "service" => o.kind = "service"
     /\ o.surface = "projection" => d.exposure = "published"
     /\ d.brokers # {} => o.surface # "token" /\ Plane \in d.brokers
     /\ o.at = o.target
     /\ AssertsNoOther(o)

\* Nothing r was decided from has changed since.
Fresh(r) ==
  LET t == origin[r].target
  IN /\ catalog[t] = definition[t]
     /\ {g \in configured[r] : g.target = t} = {g \in grants : g.target = t}
     /\ issuer[r][t] = Honoured(catalog, grants)[t]
     /\ ability[r] \in {None, definition[t]}
     /\ token[r] # NoToken => token[r].class = CallerAccess(origin[r])

\* When plane and service look at the same definitions and grants they agree,
\* and with the rule: a request is admitted if it is entitled, and if not it is
\* refused by one end or the other ("the two must visibly agree",
\* discovery.ts:326).  Another target's bad grant or outage refuses no one.
VerdictIsEntitlement ==
  [][\A r \in Request :
       pc[r] # pc'[r] /\ pc'[r] \in {"open", "refused"} =>
         (Fresh(r) => (Entitled(r) <=> pc'[r] = "open"))]_vars
=============================================================================
