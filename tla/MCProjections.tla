---------------------------- MODULE MCProjections ----------------------------
(* An instance of Projections for TLC: what two services may be written as,    *)
(* one edit away from a plain service each, many of them with a mistake.       *)
EXTENDS Projections, TLC

MCReservedPaths == {Path(<<Static("mcp")>>)}

\* Two segments at most, one of them in no template.
MCRequestPaths == UNION {[1..n -> {"x", "other", "", Undecodable}] : n \in 0..2}

Rest(verb, segments) == [verb |-> verb, path |-> Path(segments), status |-> None, operationId |-> None]

Method ==
  [name |-> Name("get"), scopes |-> {"read"}, stream |-> FALSE, timeout |-> None,
   fields |-> [id |-> "text", tags |-> "texts", size |-> "other"], rest |-> None, tool |-> None, prompt |-> None, resource |-> None]

Ability(methods) ==
  [id |-> Name("files"), scopes |-> {"read", "write"}, access |-> "plane", exposure |-> "published",
   path |-> Path(<<Static("rpc"), Static("files")>>), transports |-> {"websocket"}, methods |-> methods]

Defined(s, methods) ==
  [id |-> Name(s), timeout |-> 5, abilities |-> <<Ability(methods)>>,
   capabilities |-> [serviceId |-> s, scopes |-> {"read", "write"}], callerKeys |-> {"public"}]

X == Static("x")
Id == Var("id")
GetItem == [Method EXCEPT !.rest = Rest("get", <<X, Id>>)]
Stream == [Method EXCEPT !.stream = TRUE]
Put == [Method EXCEPT !.name = Name("put"), !.scopes = {"write"}]

\* One method, well and badly defined.
Methods ==
  {[GetItem EXCEPT !.tool = "t1"],
   [GetItem EXCEPT !.rest.path.form = "with a slash", !.rest.operationId = "op"],
   [GetItem EXCEPT !.fields = [key |-> "other", id |-> "text"], !.rest.path = Path(<<X, Var("key")>>), !.prompt = "p1"],
   [GetItem EXCEPT !.rest.path = Path(<<Id, X>>), !.timeout = 0],
   [Stream EXCEPT !.tool = "t1"],
   [Method EXCEPT !.prompt = "p1", !.resource = <<X, Id>>],
   [Method EXCEPT !.resource = <<X, X>>],
   [Method EXCEPT !.resource = <<Id, Id>>],
   [GetItem EXCEPT !.rest.path = Path(<<Static("mcp")>>)],
   [GetItem EXCEPT !.fields = [name |-> "text"]],
   [GetItem EXCEPT !.rest.path = Path(<<Id, Id>>)],
   [GetItem EXCEPT !.rest.path.form = "elsewhere"],
   [GetItem EXCEPT !.rest.verb = "head"],
   [GetItem EXCEPT !.rest.status = 304],
   [GetItem EXCEPT !.stream = TRUE],
   [Stream EXCEPT !.timeout = MaxTimeout + 1],
   [Method EXCEPT !.timeout = MaxTimeout + 1],
   [Method EXCEPT !.tool = Blank],
   [Method EXCEPT !.resource = <<>>],
   [Method EXCEPT !.resource = <<[kind |-> "broken", name |-> "x"]>>],
   [Method EXCEPT !.scopes = {Wildcard}],
   [Method EXCEPT !.scopes = {"admin"}],
   [Method EXCEPT !.name = Name("then")]}

MethodLists ==
  {<<method>> : method \in Methods}
  \union {<<[GetItem EXCEPT !.rest.path = Path(<<X, X>>)], [Put EXCEPT !.rest = Rest("put", <<X, Id>>)]>>,
          <<Method, [Put EXCEPT !.name = [text |-> "get", padded |-> TRUE]]>>,
          <<>>}

Private(s) ==
  LET service == Defined(s, <<GetItem>>)
  IN [service EXCEPT !.abilities = <<
        [service.abilities[1] EXCEPT !.exposure = "private"],
        [Ability(<<[Method EXCEPT !.tool = "t2"]>>) EXCEPT
           !.id = [text |-> "log", padded |-> TRUE], !.path = Path(<<Static("rpc"), Static("log")>>)]>>]

MCWritten ==
  [s \in Service |->
    LET service == Defined(s, <<Method>>)
    IN {Defined(s, methods) : methods \in MethodLists}
       \union {Private(s),
               [service EXCEPT !.id = Name("twin")],
               [service EXCEPT !.capabilities.serviceId = "twin"],
               [service EXCEPT !.capabilities = None],
               [service EXCEPT !.callerKeys = {"private"}],
               [service EXCEPT !.timeout = 0],
               [service EXCEPT !.abilities = <<>>],
               [service EXCEPT !.abilities = <<service.abilities[1], service.abilities[1]>>],
               [service EXCEPT !.abilities[1].scopes = {}],
               [service EXCEPT !.abilities[1].transports = {"http-batch"}, !.abilities[1].methods[1].stream = TRUE]}]

\* Documents defineAbilityService does not make.
MCForeign ==
  [s \in Service |->
    LET document == Document(Defined(s, <<GetItem>>))
    IN {[document EXCEPT !.abilities[1].methods[1].rest.path.form = "with a slash"],
        [document EXCEPT !.abilities[1].methods[1].rest.status = 304],
        [document EXCEPT !.abilities[1].methods[1].timeout = 0],
        [document EXCEPT !.abilities[1].path.form = "elsewhere"]}]
=============================================================================
