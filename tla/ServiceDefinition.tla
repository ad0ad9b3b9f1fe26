-------------------------- MODULE ServiceDefinition --------------------------
(***************************************************************************)
(* What a service may be defined as, twice: by defineAbilityService, which *)
(* refuses to start a badly written one, and by the control plane, which   *)
(* drops a discovery document it does not trust, whoever published it.     *)
(* The two validators are written apart and see different forms: the one   *)
(* what an author wrote, the other the normalized document.                *)
(*                                                                         *)
(* A written name keeps only whether it is padded with white space, a path *)
(* its segments and the form it is written in, a schema what its top-level *)
(* fields are: a "text", "texts" (a list of them) or something "other".    *)
(* A template expression fills a whole segment.  Scopes are required, as   *)
(* they are unless the service opts out.                                   *)
(***************************************************************************)
EXTENDS Naturals

CONSTANTS
  None,
  Blank,          \* the empty text
  Wildcard,       \* a scope with a '*' in it
  ReservedNames,  \* members of a Cap'n Web stub, which are not called remotely
  ReservedPaths,  \* paths the plane mounts itself
  MaxTimeout      \* what setTimeout can wait

-----------------------------------------------------------------------------
(* Names, paths and templates. *)

Name(text) == [text |-> text, padded |-> FALSE]

Trim(written) == written.text

\* A segment is static, a variable, or "broken": with a stray brace.
Segment == [kind : {"static", "variable", "broken"}, name : STRING]

Static(name) == [kind |-> "static", name |-> name]
Var(name) == [kind |-> "variable", name |-> name]

\* 'absolute', with a slash at its 'end', or with a host, a query or no leading
\* slash: 'elsewhere'.
Path(segments) == [form |-> "absolute", segments |-> segments]

IsOriginRelative(path) == path.form # "elsewhere"

NormalPath(path) == Path(path.segments)

VariablesOf(segments) ==
  {segments[i].name : i \in {j \in DOMAIN segments : segments[j].kind = "variable"}}

IsSimple(segments) == \A i \in DOMAIN segments : segments[i].kind # "broken"

NamesAreUnique(segments) ==
  \A i, j \in DOMAIN segments :
    segments[i].kind = "variable" /\ segments[i] = segments[j] => i = j

\* pathTemplateVariables: undefined for what is not one.
IsPathTemplate(segments) == IsSimple(segments) /\ NamesAreUnique(segments)

-----------------------------------------------------------------------------
(* defineAbilityService.  Each check throws; that one fails is all that shows. *)

Verbs == {"get", "post", "put", "patch", "delete", "query"}
Transports == {"http-batch", "websocket", "cloudflare-binding-rpc"}

Access == {"plane", "service"}
Exposure == {"private", "published"}

SuccessStatus == 200..299

IsScopes(scopes) == scopes \intersect {Blank, Wildcard} = {}

\* validateKnownScopes
AreKnown(scopes, service) ==
  scopes # {} => service.capabilities # None /\ scopes \subseteq service.capabilities.scopes

\* 0 opts out of a ceiling, None takes the service's default.
IsTimeout(timeout) == timeout = None \/ timeout \in 0..MaxTimeout

IsDefaultTimeout(timeout) == timeout = None \/ timeout \in 1..MaxTimeout

\* Fault: any well-formed template will do, whatever fields the input has.
AcceptsRestOfAnyFields(rest, fields) ==
  /\ IsOriginRelative(rest.path)
  /\ IsPathTemplate(rest.path.segments)
  /\ rest.verb \in Verbs
  /\ rest.status \in SuccessStatus \union {None}

AcceptsRest(rest, fields) ==
  /\ IsOriginRelative(rest.path)
  /\ IsPathTemplate(rest.path.segments)
  /\ VariablesOf(rest.path.segments) \subseteq DOMAIN fields
  /\ rest.verb \in Verbs
  /\ rest.status \in SuccessStatus \union {None}

AcceptsMcp(method) ==
  /\ method.tool # Blank /\ method.prompt # Blank
  /\ method.resource # None => method.resource # <<>> /\ IsSimple(method.resource)

\* A stream is no answer to a REST operation, a prompt or a resource.
StreamsAlone(method) ==
  method.stream => method.rest = None /\ method.prompt = None /\ method.resource = None

\* Fault: names that only white space tells apart are two methods.
NamesAreDistinctAsWritten(methods) ==
  \A i, j \in DOMAIN methods : methods[i].name = methods[j].name => i = j

NamesAreDistinct(methods) ==
  \A i, j \in DOMAIN methods : Trim(methods[i].name) = Trim(methods[j].name) => i = j

AcceptsMethod(method, ability, service) ==
  /\ Trim(method.name) \notin {Blank} \union ReservedNames
  /\ method.scopes # {} /\ IsScopes(method.scopes)
  /\ AreKnown(method.scopes, service)
  /\ method.scopes \subseteq ability.scopes
  /\ StreamsAlone(method)
  /\ method.stream \/ IsTimeout(method.timeout)
  /\ method.rest # None => AcceptsRest(method.rest, method.fields)
  /\ AcceptsMcp(method)

\* A stream needs a session to travel on.
CarriesItsStreams(ability) ==
  (\E i \in DOMAIN ability.methods : ability.methods[i].stream) => ability.transports # {"http-batch"}

AcceptsAbility(ability, service) ==
  /\ Trim(ability.id) # Blank
  /\ ability.scopes # {} /\ IsScopes(ability.scopes)
  /\ AreKnown(ability.scopes, service)
  /\ ability.methods # <<>> /\ NamesAreDistinct(ability.methods)
  /\ \A i \in DOMAIN ability.methods : AcceptsMethod(ability.methods[i], ability, service)
  /\ IsOriginRelative(ability.path)
  /\ ability.transports # {} /\ ability.transports \subseteq Transports
  /\ CarriesItsStreams(ability)
  /\ ability.access \in Access /\ ability.exposure \in Exposure

AbilitiesAreDistinct(abilities) ==
  \A i, j \in DOMAIN abilities :
    \/ i = j
    \/ /\ Trim(abilities[i].id) # Trim(abilities[j].id)
       /\ NormalPath(abilities[i].path) # NormalPath(abilities[j].path)

\* Keys to verify its calls with, none of them private.
PublishesNoPrivateKey(service) == "private" \notin service.callerKeys

Accepts(service) ==
  /\ Trim(service.id) # Blank
  /\ IsDefaultTimeout(service.timeout)
  /\ service.abilities # <<>> /\ AbilitiesAreDistinct(service.abilities)
  /\ \A i \in DOMAIN service.abilities : AcceptsAbility(service.abilities[i], service)
  /\ PublishesNoPrivateKey(service)

-----------------------------------------------------------------------------
(* The document an accepted service publishes. *)

\* resolveMethodTimeoutMs: a stream has no ceiling.
Ceiling(method, service) ==
  IF method.stream \/ method.timeout = 0 THEN None
  ELSE IF method.timeout = None THEN service.timeout ELSE method.timeout

MethodDocument(method, service) ==
  [name |-> Trim(method.name), scopes |-> method.scopes, stream |-> method.stream,
   timeout |-> Ceiling(method, service), fields |-> method.fields,
   rest |-> IF method.rest = None THEN None
            ELSE [verb |-> method.rest.verb, path |-> NormalPath(method.rest.path),
                  status |-> method.rest.status, operationId |-> method.rest.operationId],
   tool |-> method.tool, prompt |-> method.prompt, resource |-> method.resource]

\* The places of the methods an object keeps: of two of one name, the later.
Entries(methods) ==
  {i \in DOMAIN methods :
    \A j \in DOMAIN methods : Trim(methods[j].name) = Trim(methods[i].name) => j <= i}

AbilityDocument(ability, service) ==
  [id |-> Trim(ability.id), access |-> ability.access, exposure |-> ability.exposure,
   scopes |-> ability.scopes, path |-> NormalPath(ability.path), transports |-> ability.transports,
   methods |-> [i \in Entries(ability.methods) |-> MethodDocument(ability.methods[i], service)]]

Document(service) ==
  [id |-> Trim(service.id), capabilities |-> service.capabilities,
   abilities |-> [i \in DOMAIN service.abilities |-> AbilityDocument(service.abilities[i], service)]]

-----------------------------------------------------------------------------
(* The registry's validation of a document from an endpoint. *)

IsRestDiscovery(rest, fields) ==
  /\ rest.verb \in Verbs
  /\ IsOriginRelative(rest.path)
  /\ NormalPath(rest.path) \notin ReservedPaths
  /\ rest.status \in SuccessStatus \union {None}
  /\ IsPathTemplate(rest.path.segments)
  /\ VariablesOf(rest.path.segments) \subseteq DOMAIN fields

IsMethodDiscovery(method) ==
  /\ method.timeout # None => method.timeout > 0 /\ ~method.stream
  /\ StreamsAlone(method)
  /\ method.rest # None => IsRestDiscovery(method.rest, method.fields)

IsAbilityDiscovery(ability) ==
  /\ ability.access \in Access /\ ability.exposure \in Exposure
  /\ IsOriginRelative(ability.path)
  /\ ability.transports \subseteq Transports
  /\ \A i \in DOMAIN ability.methods : IsMethodDiscovery(ability.methods[i])

IsDiscoveryForEndpoint(document, id) ==
  /\ document.id = id
  /\ document.capabilities # None => document.capabilities.serviceId = id
  /\ \A i \in DOMAIN document.abilities : IsAbilityDiscovery(document.abilities[i])
=============================================================================
