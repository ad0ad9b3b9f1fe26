----------------------------- MODULE Projections -----------------------------
(***************************************************************************)
(* What the control plane makes of the documents of its services: the REST *)
(* routes it dispatches, the OpenAPI document it describes them by, and    *)
(* the MCP tools, prompts and resources it lists and calls.  Services are  *)
(* released apart, so what one publishes may collide with what another     *)
(* does, and the order in which the plane is configured with them is       *)
(* nobody's decision.  Listing and dispatch are separate code: they read   *)
(* the same catalog each in its own way.                                   *)
(*                                                                         *)
(* Requests read the catalog and change nothing, so they are operators.    *)
(* That the catalog is late is DiscoveryRegistry's matter; here a snapshot *)
(* holds what is released.                                                 *)
(***************************************************************************)
EXTENDS ServiceDefinition, Sequences, FiniteSets, Functions

CONSTANTS
  Service,
  Written,      \* [Service -> the definitions its authors may write]
  Foreign,      \* [Service -> documents of other makes its endpoint may serve]
  RequestPaths, \* the paths that are requested, each a sequence of segments
  Unnamed,      \* a segment that no template has
  NotFound,     \* outcomes that are no method: 404,
  NotAllowed,   \* 405,
  Ambiguous,    \* 500,
  Refused       \* and a document that is not generated

\* A segment decodeURIComponent rejects.
Undecodable == "%"

\* What an endpoint may serve.
DocumentsOf(s) == {Document(service) : service \in Written[s]} \union Foreign[s]

\* Lists are numbered, a document is an object, its routes are segments.
DocumentsAreTyped ==
  \A s \in Service :
    /\ \A service \in Written[s] : \A i \in DOMAIN service.abilities :
         DOMAIN service.abilities[i].methods \subseteq Nat
    /\ \A document \in DocumentsOf(s) :
         /\ document # None
         /\ DOMAIN document.abilities \subseteq Nat
         /\ \A i \in DOMAIN document.abilities :
              LET methods == document.abilities[i].methods
              IN /\ DOMAIN methods \subseteq Nat
                 /\ \A j \in DOMAIN methods : methods[j].rest # None =>
                      methods[j].rest.path.segments \in Seq(Segment)

ASSUME DocumentsAssumption == MaxTimeout \in Nat /\ DocumentsAreTyped

\* Templates of the routes that may be listed.
Routes ==
  LET RoutesOf(ability) ==
        {ability.methods[j].rest.path.segments : j \in {k \in DOMAIN ability.methods : ability.methods[k].rest # None}}
      Listable(s) == {document \in DocumentsOf(s) : IsDiscoveryForEndpoint(document, s)}
  IN UNION {UNION {UNION {RoutesOf(document.abilities[i]) : i \in DOMAIN document.abilities} :
                   document \in Listable(s)} : s \in Service}

\* A path that fits a template, and others only if they have its variables.
Filled(template) ==
  [i \in DOMAIN template |-> IF template[i].kind = "variable" THEN Unnamed ELSE template[i].name]

\* Everybody may request every path.
RequestsFillRoutes ==
  /\ RequestPaths \subseteq Seq(STRING)
  /\ Unnamed \notin {"", Undecodable}
  /\ \A template \in Routes :
       /\ Filled(template) \in RequestPaths
       /\ \A i \in DOMAIN template :
            template[i].kind = "static" => template[i].name \notin {Unnamed, Undecodable}

\* That a request runs nothing is told from all that it may run.
OutcomesAreNoMethods == NotFound \notin Service \X Nat \X Nat

ASSUME RequestsAssumption == RequestsFillRoutes /\ OutcomesAreNoMethods

VARIABLES
  release  \* [Service -> the running release: what was written, what it publishes]

NoRelease == [written |-> None, document |-> None]

Init == release = [s \in Service |-> NoRelease]

\* A release that is refused never starts: the one before it stays.
Deploy(s) ==
  \E service \in Written[s] :
    /\ Accepts(service)
    /\ release' = [release EXCEPT ![s] = [written |-> service, document |-> Document(service)]]

\* An endpoint may run something else than this library.
DeployForeign(s) ==
  \E document \in Foreign[s] :
    release' = [release EXCEPT ![s] = [written |-> None, document |-> document]]

Withdraw(s) ==
  /\ release[s] # NoRelease
  /\ release' = [release EXCEPT ![s] = NoRelease]

Next == \E s \in Service : Deploy(s) \/ DeployForeign(s) \/ Withdraw(s)

Spec == Init /\ [][Next]_release

-----------------------------------------------------------------------------
(* The catalog. *)

IsListed(s) ==
  /\ release[s].document # None
  /\ IsDiscoveryForEndpoint(release[s].document, s)

\* Where a method stands: its service, its ability's place in the service's
\* document, its own in the ability.
Catalog ==
  LET MethodsOf(s, i) ==
        {<<s, i, j>> : j \in DOMAIN release[s].document.abilities[i].methods}
      ServiceMethods(s) ==
        UNION {MethodsOf(s, i) : i \in DOMAIN release[s].document.abilities}
  IN UNION {ServiceMethods(s) : s \in {t \in Service : IsListed(t)}}

AbilityOf(entry) == release[entry[1]].document.abilities[entry[2]]

MethodOf(entry) == AbilityOf(entry).methods[entry[3]]

\* The orders the endpoints may be configured in: the place of each.
Orders == Bijection(Service, 1..Cardinality(Service))

\* The order of the endpoints is that of all that reads the catalog.
Precedes(order, one, other) ==
  \/ order[one[1]] < order[other[1]]
  \/ one[1] = other[1] /\ one[2] < other[2]
  \/ one[1] = other[1] /\ one[2] = other[2] /\ one[3] < other[3]

First(order, entries) ==
  CHOOSE entry \in entries : \A other \in entries \ {entry} : Precedes(order, entry, other)

Published == {entry \in Catalog : AbilityOf(entry).exposure = "published"}

-----------------------------------------------------------------------------
(* REST. *)

\* matchRestPath: a segment is decoded, and an empty one fills no variable.
Matches(template, path) ==
  /\ Len(template) = Len(path)
  /\ \A i \in DOMAIN path :
       /\ path[i] # Undecodable
       /\ IF template[i].kind = "variable" THEN path[i] # "" ELSE template[i].name = path[i]

StaticSegments(template) == Cardinality({i \in DOMAIN template : template[i].kind = "static"})

RestMatches(path) ==
  {entry \in Published :
    /\ MethodOf(entry).rest # None /\ ~MethodOf(entry).stream
    /\ Matches(MethodOf(entry).rest.path.segments, path)}

\* Of some matches those with the most static segments.
Best(matches) ==
  {entry \in matches : \A other \in matches :
     StaticSegments(MethodOf(other).rest.path.segments)
       <= StaticSegments(MethodOf(entry).rest.path.segments)}

\* Fault: the first of the most specific is as good as any.
FirstOfTheBest(order, matches) == First(order, Best(matches))

\* The most specific of some matches, unless there are two.
MostSpecific(order, matches) ==
  LET best == Best(matches)
  IN IF \E one, other \in best : one # other THEN Ambiguous ELSE First(order, best)

FindRestMethod(order, verb, path) ==
  LET matches == {entry \in RestMatches(path) : MethodOf(entry).rest.verb = verb}
  IN IF matches = {} THEN NotFound ELSE MostSpecific(order, matches)

\* The verbs a path answers to.
Allowed(path) == {MethodOf(entry).rest.verb : entry \in RestMatches(path)}

\* Which method a request runs, or why none.
HandleRest(order, verb, path) ==
  LET found == IF verb \in Verbs THEN FindRestMethod(order, verb, path) ELSE NotFound
  IN IF found = NotFound /\ Allowed(path) # {} THEN NotAllowed ELSE found

Value(kind, of) == [kind |-> kind, of |-> of]

\* A query gives each name it has the texts of its parameters, in their order.

\* Fault: one value is never a list.
QueryInputUntyped(query, fields) ==
  [name \in DOMAIN query |->
     Value(IF Len(query[name]) = 1 THEN "text" ELSE "texts", query[name])]

\* The value of each name: a list if the field is one, or if there are several.
QueryInput(query, fields) ==
  [name \in DOMAIN query |->
     LET isList == name \in DOMAIN fields /\ fields[name] = "texts"
     IN Value(IF Len(query[name]) = 1 /\ ~isList THEN "text" ELSE "texts", query[name])]

\* One object laid over another.
Over(above, below) ==
  [name \in DOMAIN above \union DOMAIN below |->
     IF name \in DOMAIN above THEN above[name] ELSE below[name]]

\* What a method is given: the path before the body before the query.
RestInput(query, body, variables, fields) ==
  Over(variables, Over(body, QueryInput(query, fields)))

-----------------------------------------------------------------------------
(* OpenAPI. *)

OperationId(entry) ==
  LET method == MethodOf(entry)
  IN IF method.rest.operationId # None THEN <<method.rest.operationId>>
     ELSE <<entry[1], AbilityOf(entry).id, method.name>>

\* An operation is a path as it is written and a verb.
Operation(entry) == <<MethodOf(entry).rest.path, MethodOf(entry).rest.verb>>

\* Fault: what is private is documented too.
OperationsOfAll == {entry \in Catalog : MethodOf(entry).rest # None}

Operations == {entry \in Published : MethodOf(entry).rest # None}

OpenApi ==
  IF \E one, other \in Operations :
       /\ one # other
       /\ Operation(one) = Operation(other) \/ OperationId(one) = OperationId(other)
  THEN Refused ELSE Operations

\* Where an operation's fields are documented to go: what is named in the path
\* nowhere else, text in the query or in the body, the rest in the body.
InPath(method) == VariablesOf(method.rest.path.segments)

InQuery(method) == {f \in DOMAIN method.fields \ InPath(method) : method.fields[f] \in {"text", "texts"}}

InBody(method) == DOMAIN method.fields \ InPath(method)

-----------------------------------------------------------------------------
(* MCP. *)

Named(kind) == {entry \in Published : MethodOf(entry)[kind] # None}

\* Fault: a name is taken only within its service.
RepeatsWithinAService(kind) ==
  \E one, other \in Named(kind) :
    one # other /\ one[1] = other[1] /\ MethodOf(one)[kind] = MethodOf(other)[kind]

Repeats(kind) ==
  \E one, other \in Named(kind) : one # other /\ MethodOf(one)[kind] = MethodOf(other)[kind]

\* One list for all: a name used twice refuses every listing.
McpDiscovery ==
  IF \E kind \in {"tool", "prompt", "resource"} : Repeats(kind)
  THEN Refused
  ELSE [kind \in {"tool", "prompt", "resource"} |-> Named(kind)]

\* Tools and prompts go to the first of the name.
FindMcpMethod(order, kind, name) ==
  LET found == {entry \in Published : MethodOf(entry)[kind] = name}
  IN IF found = {} THEN NotFound ELSE First(order, found)

IsTemplate(uri) == VariablesOf(uri) # {}

Uri(resource) == [i \in DOMAIN resource |-> resource[i].name]

MatchesResource(uri, read) ==
  /\ Len(uri) = Len(read)
  /\ \A i \in DOMAIN read :
       IF uri[i].kind = "variable" THEN read[i] # "" ELSE uri[i].name = read[i]

\* Resources to the first that matches, template or not; a template that names
\* a variable twice is no regular expression, and fails the read that gets to it.
FindResource(order, read) ==
  LET found == {entry \in Named("resource") :
                  LET uri == MethodOf(entry).resource
                  IN ~NamesAreUnique(uri) \/ MatchesResource(uri, read)}
  IN IF found = {} THEN NotFound
     ELSE IF ~NamesAreUnique(MethodOf(First(order, found)).resource) THEN Refused
     ELSE First(order, found)

-----------------------------------------------------------------------------
(* Properties. *)

\* What runs was written and accepted, or is another's; and publishes a document.
TypeOK ==
  /\ release \in [Service -> [written : {None} \union UNION {Written[s] : s \in Service},
                              document : {None} \union UNION {DocumentsOf(s) : s \in Service}]]
  /\ \A s \in Service :
       \/ release[s] = NoRelease
       \/ /\ release[s].written \in Written[s] /\ Accepts(release[s].written)
          /\ release[s].document = Document(release[s].written)
       \/ release[s].written = None /\ release[s].document \in Foreign[s]

\* A service that starts is a service the plane lists: whatever
\* defineAbilityService lets through, the registry lets through as well, but for
\* what only the plane knows, the name of the endpoint and its own paths.
DefinedIsListed ==
  \A s \in Service :
    LET service == release[s].written
    IN /\ service # None
       /\ Trim(service.id) = s
       /\ service.capabilities.serviceId = s
       /\ \A i \in DOMAIN service.abilities : \A j \in DOMAIN service.abilities[i].methods :
            LET rest == service.abilities[i].methods[j].rest
            IN rest # None => NormalPath(rest.path) \notin ReservedPaths
       => IsListed(s)

\* Every method an author wrote runs under the scopes it was written with: none
\* is lost to another of the same trimmed name (the comment at discovery.ts:724);
\* and a service publishes the document of what it runs.
NoMethodIsLost ==
  /\ TypeOK
  /\ \A s \in Service :
       LET service == release[s].written
       IN service # None =>
            \A i \in DOMAIN service.abilities : \A j \in DOMAIN service.abilities[i].methods :
              \E k \in DOMAIN release[s].document.abilities[i].methods :
                LET published == release[s].document.abilities[i].methods[k]
                    method == service.abilities[i].methods[j]
                IN published.name = Trim(method.name) /\ published.scopes = method.scopes

\* Which method answers a request, or that none does, is not a matter of the
\* order the endpoints are configured in (findRestMethod).
RoutesDoNotDependOnOrder ==
  \A one, other \in Orders : \A path \in RequestPaths : \A verb \in Verbs \union {"head"} :
    HandleRest(one, verb, path) = HandleRest(other, verb, path)

SameShape(one, other) ==
  /\ Len(one) = Len(other)
  /\ \A i \in DOMAIN one :
       one[i].kind = other[i].kind /\ (one[i].kind = "static" => one[i] = other[i])

\* An operation of the OpenAPI document can be called: some request gets to it,
\* past every more specific route, unless a second operation is documented for
\* the very same requests.
DocumentedIsServed ==
  OpenApi # Refused => \A entry \in OpenApi :
    LET rest == MethodOf(entry).rest
    IN \/ \E path \in RequestPaths : \A order \in Orders :
            HandleRest(order, rest.verb, path) = entry
       \/ \E other \in OpenApi \ {entry} :
            /\ MethodOf(other).rest.verb = rest.verb
            /\ SameShape(MethodOf(other).rest.path.segments, rest.path.segments)

\* Inputs a caller may mean: the path's variables and other fields, each of its
\* kind; of a path all is text.
Meant(method) ==
  LET KindOf(f) == IF f \in InPath(method) THEN "text" ELSE method.fields[f]
      Values(f) == {Value(KindOf(f), of) : of \in IF KindOf(f) = "texts" THEN {<<"v">>, <<"v", "w">>} ELSE {<<"v">>}}
      Inputs(fields) == {input \in [fields -> UNION {Values(f) : f \in fields}] : \A f \in fields : input[f] \in Values(f)}
  IN UNION {Inputs(InPath(method) \union rest) : rest \in SUBSET DOMAIN method.fields}

\* A caller that puts every field where the OpenAPI document says it may has
\* its method run with the input it meant, wherever it chose to put what may go
\* to two places.
DocumentedInputIsRead ==
  \A entry \in Operations :
    LET method == MethodOf(entry)
    IN \A meant \in Meant(method) :
         \A queried \in SUBSET (InQuery(method) \intersect DOMAIN meant) :
           LET query == [f \in queried |-> meant[f].of]
               body == Restrict(meant, (DOMAIN meant \intersect InBody(method)) \ queried)
           IN RestInput(query, body, Restrict(meant, InPath(method)), method.fields) = meant

\* A tool or prompt that is listed is the one that is called by its name.
ListedIsCalled ==
  McpDiscovery # Refused => \A kind \in {"tool", "prompt"} : \A entry \in McpDiscovery[kind] :
    \A order \in Orders : FindMcpMethod(order, kind, MethodOf(entry)[kind]) = entry

\* The comment at mcp.ts:103 of resources too: duplicates are refused so that
\* routing does not come to depend on order and no projection shadows another.
\* A read of a listed literal URI is not answered by another resource, wherever
\* its service stands.  (That a broken template may make it fail is not meant.)
NoResourceIsShadowed ==
  McpDiscovery # Refused => \A entry \in McpDiscovery["resource"] :
    LET uri == MethodOf(entry).resource
    IN ~IsTemplate(uri) =>
         \A order \in Orders : FindResource(order, Uri(uri)) \notin McpDiscovery["resource"] \ {entry}
=============================================================================
