# Service-Plane in TLA+

Service-Plane lets services publish *abilities* (typed RPC methods over Cap'n
Web) and lets a control plane discover them, mint capability tokens for them and
broker calls to them. This directory holds TLA+ models of the parts of it where
concurrency, caching and time decide whether it is right, the TLC configurations
that check them, and TLAPS proofs about them. Source paths below are relative to
`src/` of the repository.

## 1. The system

### Components, their state, and how they interact

| component (source) | state it keeps | operations | talks to |
| --- | --- | --- | --- |
| Control-plane shell (`control-plane/control-plane.ts`) | two memos of derived signing keys; one discovery cache per surface | JWKS route, token route, RPC/REST/MCP routes, `issuerFor`, `signingAuthorityFor` | signing keys, registry, issuer, broker |
| Signing keys (`control-plane/signing-keys.ts`) | none; derives private JWKs from the configured list | `privateJwksFromSigningKeys` | control-plane shell |
| Capability issuer (`control-plane/capabilities.ts`) | none beyond its catalog and grants | `issue`, scope and grant checks | signing keys |
| Registry (`control-plane/registry.ts`) | `RegistryCache` entries; in-flight discoveries per cache key | `discover`, `ability`, `search`; ETag revalidation | every service's discovery route, through HTTP caches |
| Broker (`control-plane/broker.ts`, `rpc.ts`, `invocation.ts`) | the issuer and registry of one session; connected abilities | `authenticate`, `connect`, invocation middleware | issuer, registry, a service's ability session |
| REST, MCP, OpenAPI (`control-plane/rest.ts`, `mcp.ts`, `openapi.ts`) | per request; MCP aggregates a stream under limits | projections of the catalog | broker |
| Caller authentication (`control-plane/caller-auth.ts`, `shared/hmac-auth.ts`, `shared/jwk-auth.ts`, `shared/proof-of-possession.ts`) | nonces a deployment keeps | HMAC and JWK request signatures, sender-constrained tokens | token route |
| JWKS resolver (`service/capabilities.ts`, `createRemoteJwksResolver`) | local copy, in-flight fetch, fleet-shared cache | resolve a key set | JWKS route, through HTTP caches |
| Token verification (`shared/capability-tokens.ts`) | none | signature by `kid`, times, audience, scopes | resolver |
| Token provider and ability session (`service/capabilities.ts`) | cached token, in-flight request; persistent root, native target | `token`, open, call, dispose | token route, a service |
| Ability shell (`service/service.ts`, `service/discovery.ts`) | one `AuthRoot` and one wrapped handler per session; running calls and item streams | `authenticate`, method calls, stream pulls, dispose | verification, the handler's code |
| Budgets (`shared/deadline.ts`) | one timer per raced call | `resolveTimeoutMs`, `raceDeadline`, `remainingTimeoutMs` | ability shell, session, broker |
| HTTP caching (`shared/http-cache.ts`) | none; sets `max-age` and `stale-while-revalidate` | headers of the metadata routes | every edge in front of them |

A call runs through them in this order: the caller obtains a token (or the
broker mints one from the issuer of its session), opens a session to the
service, the service resolves the plane's JWKS, verifies the token by its `kid`,
builds a handler bound to the identity in it, and runs the method under the
budget that travelled with the call.

### What is hard

* **Rotation across a fleet.** Replicas deploy one at a time; three layers of
  caches (edge, shared, local) hold copies of the key set; clocks differ; broker
  sessions keep the key they were opened with. A mistake shows only as rejected
  tokens hours later. What makes it correct: no token that has not expired meets
  a key set without its key, and no retired key is trusted beyond a bound.
* **Memos filled across an `await`.** The plane compares the key list, awaits a
  derivation and records the result, while the list may rotate and other
  requests share or replace the derivation. Correct: the memo cannot be told
  from having none, rejections are not remembered, every request is answered.
* **A coalesced, revalidated, partially failing fan-out.** Waiters write back
  what they were given, late; a 304 refers to an older snapshot; failures must
  not be cached. Correct: the catalog converges after a deploy, gaps are as
  recent as the outage, documents are attributed to the endpoint that served them.
* **Races between a body and its bounds.** Two bounds, one timer, bodies that
  ignore it, streams whose pulls the race cannot see, cancels during a pull.
  Correct: nothing is answered late, nothing is leaked, everything bounded ends.
* **Sessions that die while they open.** Calls of one session share one token
  request and one opening, and the caller may dispose it meanwhile. Correct:
  what was opened is released once, a failure is forgotten by those who saw it
  without forgetting a newer attempt, no call is made after the disposal.
* **Two ends that decide apart.** The plane admits by a snapshot, grants and an
  issuer it resolved at different moments, the service by what it has deployed.
  Correct: whatever is stale, the handler sees the true caller and runs only what
  was granted; with nothing stale, both ends agree.
* **One catalog, five readings.** A definition is validated twice, and routed or
  rendered by REST, OpenAPI and MCP, each with rules of its own. Correct: what
  starts is listed, what is listed or documented is what runs, and the order of
  the endpoints does not matter.
* **Tokens bound to a key that is being rotated.** Isolates of different releases
  share a token cache, requests are delayed, lost or repeated, the plane knows
  keys by a cached discovery. Correct: a bound token is used with its key or not
  at all, a withdrawn key gets nothing for long, and the rotation ends.
* **A stream turned into one answer.** Limits, progress, a hanging tool and a
  client that leaves. Correct: the answer and the log are true, the session is
  closed.

`PROJECT.json` lists each hazard at its line, with the properties that cover it.

## 2. The modules

| module | models | source |
| --- | --- | --- |
| `KeyRotation` | a fleet rotating its signing keys, end to end | `signing-keys.ts`, `control-plane/capabilities.ts`, `service/capabilities.ts` (resolver), `capability-tokens.ts`, `http-cache.ts` |
| `MCKeyRotation` | TLC instances of it: the rotation of `docs/auth.md`, drifts, the view | |
| `KeyRotationProofs` | its theorems | |
| `KeyService` | abstract: what the plane promises of its keys, without a memo | |
| `SigningMemo` | the two memos and the requests that fill them | `control-plane.ts` |
| `SigningMemoProofs` | its theorems, and the safety part of the refinement | |
| `DiscoveryRegistry` | the catalog: lookups, cache, fan-out, edges, deploys | `registry.ts`, `control-plane.ts`, `http-cache.ts` |
| `MCDiscoveryRegistry` | TLC instances of it, symmetry and view | |
| `DiscoveryRegistryProofs` | its theorems | |
| `AbilityHandler` | the service's end of an ability session | `service.ts`, `discovery.ts`, `deadline.ts` |
| `AbilityHandlerProofs` | its theorems | |
| `AbilitySession` | the caller's end of it, and the token provider it opens with | `service/capabilities.ts` (session, provider) |
| `AbilitySessionProofs` | its theorems | |
| `Authorization` | a request from its surface to the method it runs: grants, admission, claims, the service's own check | `control-plane/capabilities.ts`, `broker.ts`, `rpc.ts`, `invocation.ts`, `control-plane.ts`, `rest.ts`, `mcp.ts`, `service.ts`, `discovery.ts`, `capability-tokens.ts` |
| `MCAuthorization` | a TLC instance of it | |
| `AuthorizationProofs` | its theorems | |
| `ServiceDefinition` | what an author may write, what the service publishes of it, what the registry accepts | `service/discovery.ts`, `registry.ts`, `paths.ts` |
| `Projections` | REST routing and input, OpenAPI, MCP listing and dispatch, over the catalog of the running services | `rest.ts`, `openapi.ts`, `mcp.ts` |
| `MCProjections` | a TLC instance of both: what two services may be written as | |
| `BoundTokens` | token requests, their authentication, the token caches and the proofs of a service whose credential is rotated | `service/capabilities.ts` (requesters, caches, proofs), `caller-auth.ts`, `hmac-auth.ts`, `jwk-auth.ts`, `proof-of-possession.ts` |
| `MCBoundTokens` | a TLC instance of it: a secret, a key, the next key | |
| `BoundTokensProofs` | its theorems | |
| `McpStream` | a request to the MCP endpoint, with the stream a tool call may become | `mcp.ts` |
| `SurfaceProofs` | the theorems about `McpStream` and `Projections` | |

**KeyRotation** composes four actors that meet only through documents and
tokens. A replica's `keys` is its `signingKeys` list: the first element signs,
all are published. `Deploy` gives one replica another list and obeys the wait
`docs/auth.md` prescribes (`Window` ticks before a key is activated or dropped);
`Mint` signs at the token route or in an open broker session; `EdgeRefresh`
copies a replica's JWKS into a point of presence; the resolver's steps are those
of `createRemoteJwksResolver` split at its awaits (local hit, shared-cache read,
fetch, local write, shared-cache write); `Restart` replaces an isolate, which
forgets all but the shared cache; `Revoke` and `Purge` are the emergency
procedure. A token is its `kid` and `exp`; of the tokens of a `kid` only the
longest-lived is kept, which loses nothing because verification is monotone in
`exp`. Signatures, audiences and scopes are left out: they do not depend on the
rotation. The variables `lastIn`, `lastOut` and `lastSign` are history, read by
`Deploy` (as the operator reads a deployment log) and by the properties.

**SigningMemo** gives every request one action per segment between two awaits of
`signingAuthorityFor` (the JWKS route) or `issuerFor` (token, RPC, REST and MCP
routes). The memo holds the derivation itself, so requests share it before it
settles; a rejection is forgotten by a continuation of its own, which may run
late. It refines `KeyService`: `taken` is the snapshot a request made of the
list, `answer` what it was answered from.

**DiscoveryRegistry** gives every cache key a discovery in flight and every
request a lookup. A lookup reads the cache, joins or starts the fan-out, and on
a complete one writes the cache and answers in one segment per waiter, so a late
waiter may overwrite a newer entry, as in the code. A document is who serves it,
the id it claims and its release, the release standing for its ETag.

**AbilityHandler** counts budgets and timers down. `Connect`, `Admit` and
`Build` are `AuthRoot.authenticate`; `InputValid` is the segment that schedules
the body and arms the race (the body itself starts one microtask later,
`StartBody`); `TimerFires`, `BodyReturns*` and `BodyThrows` race; `Pull` to
`Cancel` are the item stream. The handler's own code is unconstrained. Logging
of failures and wording are left out.

**AbilitySession** is the proxy of `capabilityRpcSession` over its three kinds of
transport. `Ask` to `TokenAges` are the shared token provider; `Connect` to
`OpenPerCall` are what each transport does with a token; `Invoke` to
`ResumeFailed` are `invokeMethod`, split at its await of the shared opening;
`Dispose` is the caller's. An opening, and the root or target it yields, is
named by the call that began it. Two things the code also does before a call are
pure refusals and left out (an exhausted budget, a streaming method over a
per-call transport). `TimerFires` is the local wait around a call: its caller is
told, the call goes on.

**Authorization** gives a request the steps its surface's handler has between its
awaits: `ResolveIssuer` on a snapshot and the grants of its arrival,
`TokenRequest` (the token route) or `SelectAbility`, `Connect` or
`InvokeProjected` (broker, in-process and projections), then `Mint`, and at the
service `Present`, `Call` and `Close`. A token is the record of its claims;
`Subject`, `ActingService` and `ClassOf` say what the issuer and the verifier make of
them. The environment deploys (`Deploy`), discovers (`Discover`, possibly without
a target that is down) and reconfigures the plane (`Configure`) in between.
Signatures and expiry are `KeyRotation`'s, how a snapshot comes about
`DiscoveryRegistry`'s.

**ServiceDefinition** and **Projections** are mostly operators, one per pure function
of the code: `Accepts` is `defineAbilityService`, `Document` what it publishes,
`IsDiscoveryForEndpoint` the registry's validation; `HandleRest`, `RestInput`, `OpenApi`,
`McpDiscovery`, `FindMcpMethod` and `FindResource` are the projections. A path is a
sequence of static and variable segments, a schema the kinds of its fields
(text, list of texts, other), a name its text and whether it is padded. The state
is which definition or foreign document each service runs. The catalog, an array
in the code, is here the set of the places its methods have (service, ability,
method): what the code finds by scanning it is the `First` of a set under
`Precedes`, for an order of the endpoints that every definition which depends on
one takes as its argument. A query string is the texts each name is given; what
the query, the body and the path give a method is laid one over the other.

**BoundTokens** has an isolate open one session at a time: `Ask` its provider, read
the shared cache, sign and send a request, keep what is answered, write the
cache, sign a proof (`Prove`) and `Present` it. Requests stay on the `wire` and may
arrive late, twice or never. `Release` and `Rotate` move an isolate to a newer
credential by a deploy or by a key resolver under an unchanged `keyId`; `Publish`
and `Withdraw` change the discovery document. Instants are remaining lifetimes and
ages, so the state space is finite without a view.

**McpStream** is the handler (`Receive` to `CloseEarly`), the generator of
server-sent events (`ReadSettles`, `Pull`, `Return`, `Dispose`), the client that
reads or cancels, and a tool whose stream hands items, ends, fails or hangs.

Definitions whose comment begins with `Fault:` are mistakes the code does not
make. They belong to no specification; each is what one property was tested
against.

## 3. The runs

Every passing run terminates within about two minutes with two workers.

| run | question | what it shows |
| --- | --- | --- |
| `rotation` | does a rotation with sessions, edges, drift and an emergency revocation reject a valid token or keep trusting a retired key? | no: every sequence of deploys of `old` and `new`, two replicas, one service, one edge; also checks the inductive invariant of the proofs |
| `session_outlives_rotation` | `docs/auth.md:132`: waiting the sum of the terms is enough | violated: a broker session longer than the window mints with the dropped key |
| `signing_memo` | can a caller tell that the plane memoizes? | no: refinement of `KeyService`, coherent memos, no remembered rejection, every request answered |
| `catalog` | does the catalog converge, with partial failures, misattributed documents, two concurrent lookups? | yes, within `CacheTTL + 3 * Latency`; gaps are recent; snapshots coherent |
| `catalog_edge` | and behind an HTTP cache; does every lookup end? | yes, with `MaxAge + SWR` added; and, under fairness, every lookup ends |
| `ability_handler` | do concurrent sessions and calls share, leak, answer late or hang? | no |
| `ability_session` | can a session that is disposed, refused, overtaken or given up while it opens leak, release twice, stay refused, be called late or leave a caller waiting? | no; with a budget not even if all else hangs |
| `authorization` | can a request of any caller on any surface, with plane and service out of step, be taken for another's or run more than was granted? do the two ends agree when in step? | no; yes |
| `projections` | do definition, registry, REST, OpenAPI and MCP agree on every catalog, whatever the order of the endpoints? | yes for routes, operations, inputs, tools and prompts |
| `resource_shadow` | and resources (`mcp.ts:103`)? | violated: with a template `x/{id}` in front, a read of the listed literal `x/x` is answered by the template |
| `bound_tokens` | does a credential rotation lose a binding, keep a withdrawn key authenticating, or leave an isolate failing for ever? | no |
| `mcp_stream` | is what an MCP client and the log are told true, and is the session always closed? | yes |

### Bounds, and why they are enough

* *Rotation*: two keys give every list of the procedure (`<<old>>`, `<<old,new>>`,
  `<<new,old>>`, `<<new>>`), and back; two replicas give every intermediate state
  of a rolling deploy. The lifetimes are 0 or 1 tick. What
  the proofs need of the window is the larger of `StaleBound` (the life of a
  document, including the latency of a fetch, which the documents do not list)
  and the life of a session plus that of a token. Here `StaleBound` equals the
  documented sum; with half of it, and `WindowAssumption` lifted,
  `OutstandingTokensVerify` fails (one tick less is hidden by strict comparisons),
  so the bounds feel the window. Drift is fixed to
  the worst case (one side ahead by `Skew`). One service whose isolate restarts
  meets a shared entry it did not just fetch; several services that share the
  cache are covered by the theorems, which hold for any number. `Horizon` is never
  reached: with the view the state space is finite without it.
* *VIEW* (`MCKeyRotation`, `MCDiscoveryRegistry`): instants are taken relative to
  the clock, and those too old for any guard or property collapse. Every guard
  and property compares differences of instants, so states with equal views have
  equal futures. It is used with invariants only, never with liveness.
* *SYMMETRY*: over requests, which no definition names; only in runs without
  temporal properties.
* *SigningMemo*: two requests and two rotations over three lists (good,
  underivable, ambiguous) suffice for every overlap of two derivations: a third
  request would only join one of them.
* *Discovery*: two endpoints of which one answers with ETags, two requests, two
  releases; an await takes at most `Latency` ticks.
* *AbilityHandler*: two sessions and one instance they must not share, two calls,
  budgets none and 3 clamped to 2, a default of 1, a ceiling of 2: spent, nearer
  deadline, nearer ceiling and equal bounds all occur.
* *AbilitySession*: three calls, one to begin an opening, one to join it, one to
  begin anew once it has failed. The number of tokens is not bounded.
* *Authorization*: one request, because no variable of a request is read by
  another; two services and a user as callers, two targets (one may be missing
  from a snapshot), two scopes and two methods of which one needs both, two grant
  tables, and four definitions that open, tighten, fence or hide the ability.
* *Projections*: two services, each any of some 35 definitions that are one edit
  away from a plain one, most of them a mistake, or a foreign document; both
  orders of the endpoints; request paths of up to two segments, of which one,
  `Unnamed`, is in no template, so that every template can be filled. The module's
  assumptions say what the theorems need of these sets, and TLC evaluates them.
* *BoundTokens*: two isolates, one starting on a secret and one on a key, and a
  newer key; tokens last 2 ticks, requests, discoveries and cache reads last 1. One
  isolate has a refresh skew of 0 and uses a token to its end, the other one as long
  as the lifetime and never uses a token again once it has aged; a skew in between,
  for both, holds too. Proving and presenting take no time, so a token that ends on
  its way to the service is not among the cases.
* *McpStream*: items of two sizes, at most 4, so that both limits (3 items, 4
  bytes) are met exactly, exceeded by one, and not reached.

`CHECK_DEADLOCK FALSE` appears where the system stops: requests, sessions and
calls are made once.

### Fairness

`SigningMemo` assumes weak fairness of each request's own continuations and
derivations: promises settle because they are local computations.
`DiscoveryRegistry` assumes that caches and fetches settle. The code gives
fetches no timeout, so that is an assumption about the environment, and a
service that hangs does stall its fan-out. `AbilityHandler` assumes that time
passes and that the wrapper's continuations run, including the validators of
input and output (they are outside the race); nothing is assumed of bodies,
sources and consumers. In it a due timer fires before the clock moves on, an
idealisation of `setTimeout`, which may be late by the load of the event loop.
`AbilitySession` assumes that timers fire and, of a session without a budget
only, that tokens, proofs, connections and methods are answered or refused: the
code puts no timeout on them then, so that is about the environment.
Whether the caller calls or disposes is free.
`BoundTokens` assumes that time passes (strongly, since every step may put a tick
off), that callers work off what they have, that a request is answered or given
up, and that one which is sent again and again is answered some time; releases,
publications and losses are free. `McpStream` assumes that the handler and the
generator run and that a client which is still there reads; of the tool it
assumes nothing. `SessionIsReleased` is therefore claimed only once the stream has
stopped, exceeded a limit or lost its client.

## 4. What is proved

Every safety invariant and every action property of the passing runs is also a
theorem, for every value of the constants that the named
assumptions allow, and so are five safety facts that the liveness rests on (section
5). Each proof has the same shape: an inductive invariant, a lemma
for each action that keeps it, and the properties as its consequences. TLC checked
each of these invariants on the configuration of its run before it was proved. The
projections alone need little of an invariant: theirs are lemmas about operators.

### The rotation of signing keys

`KeyRotationProofs`, for every set of keys, replicas, services and edges, every
choice of key lists, lifetimes, drift and session length:

* `TypeCorrect`: `Spec => []TypeOK`.
* `RotationInvariant`: `Spec => []RotationInv`.
* `RotationRejectsNoValidToken`: `Spec => []OutstandingTokensVerify`.
* `TrustInRetiredKeysEnds`: `Spec => []RetiredKeysExpire`.

Assumptions: `KeyListsAssumption` (lists are non-empty, without duplicates, as
`validatedPrivateJwksFromSigningKeys` demands), `TimesAssumption` (lifetimes are
naturals, drift within `Skew`), `WindowAssumption` (a deploy waits at least as
long as any document lives). The second and third theorem also assume
`WindowCoversSessions`: the window covers the life of a session plus that of a
token minted at its end. That term is missing from the documented sum;
`session_outlives_rotation` shows what happens without it.

The argument. `OutstandingTokensVerify` alone is not inductive: it says nothing
of documents on their way. The invariant dates every copy: `Dated(doc, t)` says
the document is one some replica published at `t` or later, hence a key it lacks
was unpublished somewhere since `t`, and a key it has was published somewhere
since. Each cache entry, read and fetch is dated by its own expiry minus the
terms added to it (`CopiesAreDated`, `ReadsAreDated`, `FetchesAreDated`), and
each layer adds its term once. On the other side `SignersArePrepared`,
`SessionsArePrepared` and `TokensArePrepared` say that a key that signs, or has
signed an unexpired token, has been published by all replicas for a whole
window. As no document lives longer than the window, every document a service
can still use has the key. `LogIsCurrent` ties the history variables to the
fleet. TLC checks the same invariant in `rotation`.

### Authorization

`AuthorizationProofs`, for every set of services, users, targets, scopes, methods,
requests, every choice of definitions and grant tables:

* `AuthorizationTypes`: `Spec => []TypeOK`.
* `AuthorizationInvariant`: `Spec => []AuthorizationInv`.
* `OnlyServicesReachServiceAbilities`: `Spec => []ServiceOnlyMeansService`.
* `IdentitiesAreTrue`: `Spec => []AttributionIsTrue`.
* `IngressIsThePlanes`: `Spec => []IngressMeansThePlane`.
* `CallsAreGranted`: `Spec => []CallsWithinGrants`.
* `EndsAgree`: `Spec => VerdictIsEntitlement`.

Assumptions: `DefinitionsAssumption` (a method needs scopes its ability has, and
those its service declares, which `defineAbilityService` enforces and
`ServiceDefinition` models) and `NamesAssumption` (names are distinct).

The argument. The properties speak of sessions, whose facts come from a token,
whose facts come from the request: `NothingBeforeItsTime` keeps the plane from
holding any before they are resolved, `IssuersAreWithin` bounds the issuer by the
grants of the arrival, `TokensAreTrue` says what each claim means of the request
it was minted for, and `SessionsAreTrue` carries it over to the identity and the
scopes the handler sees, by the definition deployed when it was presented.

`EndsAgree` needs more, since a verdict falls at the end of decisions taken earlier.
`Decided` keeps them with the request: what its surface let it through by, what its
token was minted for, and that a projection which was resolved while its target
was unknown has an issuer that honours nothing for it (without this a request
could be refused for a target that has come back since). Where the plane's and the
service's view are the same, `HoldingMeans` rewrites each decision into a clause of
`Entitled`; each refusal then contradicts one clause and an admission yields all.

### The signing-key memos

`SigningMemoProofs`, for any set of requests and key lists, any of which may be
underivable or ambiguous:

* `Coherence`: `Spec => []MemosAreCoherent`.
* `ForgettingIsOwn`: `Spec => ForgetsOnlyItsOwn`.
* `EveryRequestIsAttended`: `Spec => []NoRequestIsForgotten`.
* `MemosAreTransparent`: `Spec => KeyService!Init /\ [][KeyService!Next]_(KeyService!vars)`.

Assumption: `SigningMemoAssumption` (`Error` and `None` name no list and no request).
`MemoInv` adds to coherence where each request stands: it holds nothing before its
time, and the derivation it awaits is of the list it read, which is the list it
took. That no request is forgotten needs two facts more: what is no longer waiting
for its keys has an outcome (`EndsWithItsOutcome`), and a derivation that was begun
never becomes one that was not (`BegunIsUnderWay`). The refinement then goes action by action: a request that arrives, reads the
list or replies takes a step of the key service, everything about a memo is a
stutter. `ImplementsKeyService` also says that requests are answered; that part
stays with TLC.

### The catalog

`DiscoveryRegistryProofs`, for any finite set of endpoints, any requests, cache
keys, claims and lifetimes:

* `CatalogIsCoherent`: `Spec => []SnapshotsAreCoherent`.
* `GapsDoNotLast`: `Spec => []GapsAreRecent`.
* `NobodyWaitsForNothing`: `Spec => []WaitersHaveADiscovery`.
* `PlaneConverges`: `Spec => []CatalogConverges`, if `CacheTTL + Latency > 0`.

Assumption: `RegistryAssumption`. The hypothesis of the third is needed: were the
cache and the awaits to take no time at all, the bound would be zero and its
strict inequality false at the very instant of a deploy. `RegistryInv` dates every
snapshot: the fan-out, the lookups it resolves, the entry they write and the lookups
that hit it each know when its fetches began, to within the awaits between them.
Finiteness enters where the code counts: a snapshot has as many documents as there
are endpoints, and one of each at most, so it misses none.

### The service's end of a session

`AbilityHandlerProofs`, for any sessions, calls, instances, budgets and ceilings:

* `HandlersStayOwn`: `Spec => []HandlersAreNotShared`.
* `LateIsReleased`: `Spec => []LateValuesAreReleased`.
* `SourcesAreReleased`: `Spec => []StreamSourcesAreReleased`.
* `OneLateItem`: `Spec => []AtMostOneLateItem`.
* `WaitsEnd`: `Spec => []WaitsAreBounded`.
* `DeadlineHolds`: `Spec => NoAnswerPastTheDeadline`.

Assumption: `HandlerAssumption` (budgets are times or none). `HandlerInv` follows
the clock of a session: its budget is not touched after admission, a race's timer
is due no later than the budget ends, time waits for a timer that is due, and what
is spent stays spent. A race's own ceiling is in `CeilingsHold`: the timer is set
from the nearer of the two bounds and only ever counts down.

### The caller's end of a session

`AbilitySessionProofs`, for any set of calls:

* `NothingLeaks`: `Spec => []HeldOnlyWhileInUse`.
* `FailuresDoNotStick`: `Spec => []FailuresAreForgotten`.
* `NoOpeningIsAbandoned`: `Spec => []OpeningsAreAttended`.
* `ForgettingIsOwn`: `Spec => ForgetsOnlyFailures`.
* `DisposedCallsNothing`: `Spec => NoCallOnceDisposed`.

Assumption: `NoneAssumption`. `SessionInv` says that a session transport has one
opening at a time: the one calls join, until it failed and one of its callers
resumes, or the session is disposed. So what is held or released while another
opening counts belongs to that one. `Attended` adds that a call awaits an opening
that was begun, and that one which asks for a token has a request to share. The proof holds for every number of calls,
where TLC checks three.

### Bound tokens

`BoundTokensProofs`, for any isolates, keys, tokens and any order of releases:

* `WithdrawnKeysGetNoTokens`: `Spec => []AcceptedIsRecent`.
* `ProofIsBySigner`: `Spec => []BoundToTheSigner`.
* `ProversUseBoundTokens`: `Spec => []NeverUnbound`.

Assumptions: `CredentialAssumption` (the secret is no key, `None` neither a
credential nor a token) and `TimeAssumption`. `TokenInv` follows a token to
wherever one is kept: the answer, the provider, the shared cache, the session being
opened. There it is bound to what it was asked with, and the partition of the cache
that an isolate with a key reads holds bound tokens only. Of a withdrawn key, the
time since and the time the plane's discovery has left never exceed its lifetime.

### The MCP endpoint

`SurfaceProofs`, for any sizes of items and any limits:

* `AnswersAreTrue`: `McpSpec => []AnswerIsTrue`.
* `SessionsAreAttended`: `McpSpec => []NoSessionIsStranded`.

Assumption: `LimitAssumption`. `McpInv` follows the generator: until it answers, it
has kept what the tool handed over but for the item it is about to take, and has
told the progress of every item it kept as long as it tells at all; once it has
answered nothing is read. What a client that leaves has read is a prefix of what
was sent (`ReadSoFarIsTold`), for which the rules of what may be told hold as well. `RunsOn` says where the
generator may stand while its session is open, by what the client and the tool
have done since; each of these places has a step that leads on to the release.

### The definition and its projections

`SurfaceProofs`, for any services, any definitions their authors may write, any
foreign documents and any paths that are requested:

* `StartedIsListed`: `Spec => []DefinedIsListed`.
* `NothingIsDropped`: `Spec => []NoMethodIsLost`.
* `OrderDoesNotRoute`: `Spec => []RoutesDoNotDependOnOrder`.
* `OperationsAreServed`: `Spec => []DocumentedIsServed`.
* `InputsAreRead`: `Spec => []DocumentedInputIsRead`.
* `ListingsCall`: `Spec => []ListedIsCalled`.

Assumptions: `DocumentsAssumption` for the first four and `RequestsAssumption` for
the third and fourth; the last two need none, since a listing, and where a field may
go, are what they are for any catalog and any method.

* `DocumentsAreTyped`: lists are numbered, a document is an object, its routes are
  sequences of segments.
* `RequestsFillRoutes`: some text is in no template, everybody may request the path
  that fills one, and no static segment is one that cannot be decoded. The last part
  leaves a real disagreement out (section 8): such a route is documented and never
  served.
* `OutcomesAreNoMethods`: 404 is no method.

The argument. `ReleasesAreTyped` is the inductive part: what runs was accepted, or
is another's. `StartedIsListed` then compares the two validators clause by clause,
from the route (`RestIsListed`) to the method, the ability and the document;
`NothingIsDropped` is that distinct trimmed names keep every method's place
(`EveryMethodIsKept`). For the routes, `RouteIs` carries what the registry checked
to each entry of the catalog, and `SomeIsBest` finds a best among the matches of a
path: their static segments are no more than the path has, and numbers under a
bound have a greatest (`Greatest`, from the well-foundedness of `<`). If it is the
only one the order cannot matter, and if there are two the answer is 500 in any
order. For `OperationsAreServed` the request fills the template's variables with a
text no template has: whatever else matches it has its static segments among the
template's own (`FilledPrefers`), so it is less specific or of the same shape.

## 5. What is only model-checked, and why

Liveness (`EveryRequestIsAnswered`, `EveryLookupEnds`, `EveryBoundedCallIsAnswered`,
`EveryCallEnds`, `RotationEnds`, `SessionIsReleased`) and, of the refinement of
`KeyService`, that it answers (its fairness): the prover does not handle fairness
and ENABLED. Half of what such a property needs is safety, though: whoever waits
waits for something that can still happen. For all but `RotationEnds` that half is
stated and proved, and fairness only has to take the step it speaks of. The runs
check the liveness itself and not the half again, which TLC was asked on the
same configurations before it was proved:

| liveness | the safety it rests on | what waits, and for what |
| --- | --- | --- |
| `EveryRequestIsAnswered` | `NoRequestIsForgotten` | a request, for its resolver or a derivation somebody began |
| `EveryLookupEnds` | `WaitersHaveADiscovery` | a lookup that joined, for a discovery that runs |
| `EveryBoundedCallIsAnswered` | `WaitsAreBounded` | a racing call, for a timer no later than its bounds |
| `EveryCallEnds` | `OpeningsAreAttended` | a caller, for an opening that somebody is at |
| `SessionIsReleased` | `NoSessionIsStranded` | an open session, for a generator that can go on |

`RotationEnds` has no such part of its own: an isolate that is refused tries again,
and that it succeeds some time is a matter of time passing, which is fairness.

## 6. The plan

The plan is carried out: each component of section 2 is modelled and checked, and
what its runs check of safety is proved. What would be left is the liveness of
section 5 for every value of the constants, for which the prover has no means.

## 7. Not modelled

* The budget over hops. Each hop enforces the number it was handed
  (`AbilityHandler`); that the broker computes it early (section 8) is one
  subtraction, and a model of it would say no more.
* What a request signature covers (method, path, body, request id), and bounded
  reads of bodies: single checks without interleaving.
* Rendering: OpenAPI schemas, MCP content, wording and status texts, log layout.
* Normalization of idempotency keys and connection info; errors and loggers;
  mounting, health and root routes.
* Public re-exports, test doubles, the smoke script and benchmarks.

Cap'n Web, HTTP caches, clocks, deploys and consumers are external: they are
modelled only as the code relies on them.

## 8. Further disagreements seen while modelling

These are not runs of their own. The first four are counterexamples of the models
above: stating the quoted sentence as a property of the module shows it.

* `control-plane.ts:133` has a brokered call read one registry snapshot; its issuer
  and its ability are two lookups (`control-plane.ts:540`), which may straddle an
  expiry.
* `http-cache.ts:4` and `docs/cloudflare.md:277` bound staleness by the registry's TTL
  plus the edge's `max-age`; the headers also allow `stale-while-revalidate`
  (`http-cache.ts:33`), and a catalog may lag by that much longer.
* The comment at `discovery.ts:413` has a spent budget reject before the handler
  runs; the body is scheduled by then (`discovery.ts:416`), and runs.
* `docs/reference.md:435` has a deadline not bound the consumption of a stream; the
  first pull past it errors the stream (`discovery.ts:559`).
* A resource template that names a variable twice passes both validators, and
  makes `resources/read` throw when the search gets to it (`mcp.ts:686`).
* A prompt or resource name that two services share refuses `tools/list` as well,
  since one pass builds all listings (`mcp.ts:98-166`).
* OpenAPI keys operations by the path as written, so two templates of one shape
  are both documented, and REST answers either with 500 (`rest.ts:146`).
* A percent-encoded static segment of a REST path never matches: requests are
  decoded, templates are not (`rest.ts:200-207`).
* `registry.ts:303` says the registry mirrors the defining side; a `timeoutMs` above
  2^31-1, which `defineAbilityService` refuses, is listed.
* `docs/auth.md:346` has the rotation of a caller key need both keys registered;
  with a `privateJwk` function the `keyId` of the signer stays what it was
  configured as (`service/capabilities.ts:816`), so an isolate whose key rotated
  in place is refused until it is released with the new id. `RotationEnds` is
  stated for isolates that were.

* `docs/auth.md:175-176` has a purge of the edge and the shared cache make expiry
  immediate; a resolver's local copy (`service/capabilities.ts:1114`) and a fetch
  under way outlive it. Trust in the key still ends within the bound of
  `RetiredKeysExpire`, which is checked and proved across `Purge` and `Revoke`.
* `registry.ts:53` has concurrent misses share a discovery; the in-flight entry
  is dropped (`registry.ts:151-157`) before the waiters have written the cache,
  so a lookup in between starts another.
* `docs/reference.md:475` says a native binding session is one call, so its
  budget is per call; `service/capabilities.ts:575-590` keeps the native target
  for the life of the session, so the budget is the session's.
* `docs/reference.md:397` says the plane forwards what is left after minting a
  token; `broker.ts:304` computes it in `connect`, before the token is minted.
* `docs/reference.md:360` bounds every unary method; the validators of its input
  and output run outside the race (`discovery.ts:407`, `discovery.ts:432`).
* `docs/reference.md:519` describes `service_plane.ability.handler_failed` as a
  handler throw. When a consumer cancels during a pull and the source then
  yields, the wrapper's own `enqueue` or `close` throws and is reported as one
  (`discovery.ts:564-574`).
