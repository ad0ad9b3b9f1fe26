--------------------------- MODULE AbilityHandler ---------------------------
(***************************************************************************)
(* The service's end of an ability session: AuthRoot.authenticate admits a *)
(* token and wraps one handler instance; the wrapper runs concurrent calls *)
(* on it, each raced against the caller's deadline and the method's own    *)
(* ceiling, and turns what a streaming method returns into a stream pulled *)
(* item by item.  Bodies and stream sources are the handler's code: they   *)
(* may throw, hang, or ignore that nobody waits any more.                  *)
(*                                                                         *)
(* Budgets and timers are counted down, as they travel.  A call runs alone *)
(* from one await to the next.                                             *)
(***************************************************************************)
EXTENDS Integers

CONSTANTS
  Session, Call,
  Instance,     \* the handler objects a factory may return
  None,
  Asked,        \* the budgets a caller may send, None for none
  DefaultMs,    \* timeout.defaultMs of the service, or None
  MaxMs,        \* timeout.maxMs, or None
  Ceiling       \* the bound of a unary method (methodMs, timeoutMs), or None

Times == Nat \ {0}

ASSUME HandlerAssumption ==
  /\ None \notin Int \cup Session \cup Instance
  /\ Asked \subseteq Times \cup {None}
  /\ {DefaultMs, MaxMs, Ceiling} \subseteq Times \cup {None}

VARIABLES
  session,   \* [Session -> its AuthRoot and target]
  holder,    \* [Instance -> the session whose identity is bound to it]
  call,      \* [Call -> its invocation of a method]
  stream     \* [Call -> the item stream it was answered with; late counts
             \*  the items that reached the consumer once the budget was spent]

vars == <<session, holder, call, stream>>

NoSession == [pc |-> "idle", transport |-> "none", left |-> None, handler |-> None]
NoCall == [pc |-> "idle", on |-> None, kind |-> "none", timer |-> None,
           body |-> "none", value |-> "none", outcome |-> "none"]
NoStream == [state |-> "none", pull |-> "idle", source |-> "none", late |-> 0]

Init ==
  /\ session = [s \in Session |-> NoSession]
  /\ holder = [i \in Instance |-> None]
  /\ call = [c \in Call |-> NoCall]
  /\ stream = [c \in Call |-> NoStream]

\* The deadline of the session c was made on, counted down; -1 is past.
Left(c) == session[call[c].on].left

Racing(c) == call[c].pc = "racing"

\* Time passes; a timer that is due fires first.
Tick ==
  /\ \A c \in Call : Racing(c) => call[c].timer # 0
  /\ session' = [s \in Session |->
       [session[s] EXCEPT !.left = IF @ \in Nat THEN @ - 1 ELSE @]]
  /\ call' = [c \in Call |->
       [call[c] EXCEPT !.timer = IF @ \in Times THEN @ - 1 ELSE @]]
  /\ UNCHANGED <<holder, stream>>

-----------------------------------------------------------------------------
(* The session: AuthRoot, over HTTP-batch, a WebSocket or a native binding. *)

AtMost(time, bound) == IF bound = None \/ time <= bound THEN time ELSE bound

\* resolveTimeoutMs under the policy of the transport: a session transport is
\* given no default.
Resolved(asked, transport) ==
  LET wanted == IF asked = None /\ transport = "http-batch" THEN DefaultMs ELSE asked
  IN IF wanted = None THEN None ELSE AtMost(wanted, MaxMs)

\* authenticate begins; its budget is not running yet.
Connect(s) ==
  /\ session[s].pc = "idle"
  /\ \E transport \in {"http-batch", "session"} : session' =
       [session EXCEPT ![s].pc = "verifying", ![s].transport = transport]
  /\ UNCHANGED <<holder, call, stream>>

\* The token, the ingress rule or the ability's access refuses the caller.
Refuse(s) ==
  /\ session[s].pc = "verifying"
  /\ session' = [session EXCEPT ![s].pc = "closed"]
  /\ UNCHANGED <<holder, call, stream>>

\* The caller is admitted: its budget starts and the factory is called.
Admit(s) ==
  /\ session[s].pc = "verifying"
  /\ \E asked \in Asked : session' = [session EXCEPT
       ![s].pc = "building", ![s].left = Resolved(asked, session[s].transport)]
  /\ UNCHANGED <<holder, call, stream>>

FactoryFails(s) ==
  /\ session[s].pc = "building"
  /\ session' = [session EXCEPT ![s].pc = "closed"]
  /\ UNCHANGED <<holder, call, stream>>

\* Fault: the identity an instance already carries is overwritten.
BuildShared(s) ==
  /\ session[s].pc = "building"
  /\ \E i \in Instance :
       /\ holder' = [holder EXCEPT ![i] = s]
       /\ session' = [session EXCEPT ![s].pc = "live", ![s].handler = i]
  /\ UNCHANGED <<call, stream>>

\* The factory settles, with any instance: one that already carries an
\* identity is refused, another is bound to this session's.
Build(s) ==
  /\ session[s].pc = "building"
  /\ \E i \in Instance :
       IF holder[i] # None
       THEN /\ session' = [session EXCEPT ![s].pc = "closed"]
            /\ UNCHANGED holder
       ELSE /\ holder' = [holder EXCEPT ![i] = s]
            /\ session' = [session EXCEPT ![s].pc = "live", ![s].handler = i]
  /\ UNCHANGED <<call, stream>>

\* The peer releases the target, or its session ends.
Dispose(s) ==
  /\ session[s].pc = "live"
  /\ session' = [session EXCEPT ![s].pc = "disposed"]
  /\ UNCHANGED <<holder, call, stream>>

-----------------------------------------------------------------------------
(* One call: invokeValidatingAbilityMethod. *)

Answered(c, outcome) ==
  call' = [call EXCEPT ![c].pc = "answered", ![c].outcome = outcome]

\* A streaming method is only run where a stream can be carried.
Invoke(c, s) ==
  /\ call[c].pc = "idle" /\ session[s].pc = "live"
  /\ \E kind \in {"unary", "stream"} :
       /\ kind = "stream" => session[s].transport = "session"
       /\ call' = [call EXCEPT ![c].pc = "validating", ![c].on = s, ![c].kind = kind]
  /\ UNCHANGED <<session, holder, stream>>

\* The target is disposed, the method unknown, the arguments or scopes wrong.
InvokeRefused(c, s) ==
  /\ call[c].pc = "idle" /\ session[s].pc \in {"live", "disposed"}
  /\ Answered(c, "refused")
  /\ UNCHANGED <<session, holder, stream>>

InputInvalid(c) ==
  /\ call[c].pc = "validating"
  /\ Answered(c, "invalid")
  /\ UNCHANGED <<session, holder, stream>>

\* Fault: a method with a ceiling of its own is not held to the deadline.
BoundIgnoringDeadline(c) ==
  IF call[c].kind = "unary" /\ Ceiling # None THEN Ceiling ELSE Left(c)

\* The nearer of the deadline and the ceiling arms the one timer of the race.
Bound(c) ==
  IF call[c].kind = "stream" \/ Ceiling = None THEN Left(c)
  ELSE AtMost(Ceiling, Left(c))

\* The input is valid: the body is scheduled, and raced.
InputValid(c) ==
  /\ call[c].pc = "validating"
  /\ IF session[call[c].on].pc = "disposed"
     THEN Answered(c, "refused")
     ELSE call' = [call EXCEPT
       ![c].body = "scheduled",
       ![c].pc = IF Left(c) \in {-1, 0} THEN "answered" ELSE "racing",
       ![c].outcome = IF Left(c) \in {-1, 0} THEN "spent" ELSE @,
       ![c].timer = IF Left(c) \in {-1, 0} THEN None ELSE Bound(c)]
  /\ UNCHANGED <<session, holder, stream>>

\* The continuation that was scheduled calls the handler.
StartBody(c) ==
  /\ call[c].body = "scheduled"
  /\ call' = [call EXCEPT ![c].body = "running"]
  /\ UNCHANGED <<session, holder, stream>>

\* Fault: the timer of the ceiling is cleared when the deadline is nearer.
TimerFiresForCeiling(c) ==
  /\ Racing(c) /\ call[c].timer = 0 /\ Left(c) # 0
  /\ Answered(c, "timeout")
  /\ UNCHANGED <<session, holder, stream>>

TimerFires(c) ==
  /\ Racing(c) /\ call[c].timer = 0
  /\ Answered(c, "timeout")
  /\ UNCHANGED <<session, holder, stream>>

\* Fault: only a value that lost to the timer is released.
BodyReturnsLeaking(c) ==
  /\ call[c].body = "running" /\ ~Racing(c)
  /\ call' = [call EXCEPT ![c].body = "returned",
       ![c].value = IF call[c].outcome = "timeout" THEN "discarded" ELSE "dropped"]
  /\ UNCHANGED <<session, holder, stream>>

\* The race is lost already: the late value is released.
BodyReturnsLate(c) ==
  /\ call[c].body = "running" /\ ~Racing(c)
  /\ call' = [call EXCEPT ![c].body = "returned", ![c].value = "discarded"]
  /\ UNCHANGED <<session, holder, stream>>

\* The body wins the race: its value is validated next.
BodyReturns(c) ==
  /\ call[c].body = "running" /\ Racing(c) /\ call[c].kind = "unary"
  /\ call' = [call EXCEPT ![c].body = "returned", ![c].value = "held",
                          ![c].pc = "checking", ![c].timer = None]
  /\ UNCHANGED <<session, holder, stream>>

\* A streaming body wins: its source becomes the stream of the answer.
BodyReturnsSource(c) ==
  /\ call[c].body = "running" /\ Racing(c) /\ call[c].kind = "stream"
  /\ call' = [call EXCEPT ![c].body = "returned", ![c].value = "delivered",
                          ![c].pc = "answered", ![c].timer = None, ![c].outcome = "value"]
  /\ stream' = [stream EXCEPT ![c].state = "open", ![c].source = "live"]
  /\ UNCHANGED <<session, holder>>

\* A streaming body wins with what nothing can be pulled from.
BodyReturnsNoSource(c) ==
  /\ call[c].body = "running" /\ Racing(c) /\ call[c].kind = "stream"
  /\ call' = [call EXCEPT ![c].body = "returned", ![c].value = "dropped",
                          ![c].pc = "answered", ![c].timer = None, ![c].outcome = "invalid"]
  /\ UNCHANGED <<session, holder, stream>>

\* The body throws.  After the race was lost nobody hears of it.
BodyThrows(c) ==
  /\ call[c].body = "running"
  /\ call' = [call EXCEPT ![c].body = "threw", ![c].pc = "answered", ![c].timer = None,
                          ![c].outcome = IF Racing(c) THEN "failed" ELSE @]
  /\ UNCHANGED <<session, holder, stream>>

OutputValid(c) ==
  /\ call[c].pc = "checking"
  /\ call' = [call EXCEPT ![c].pc = "answered", ![c].outcome = "value",
                          ![c].value = "delivered"]
  /\ UNCHANGED <<session, holder, stream>>

\* The handler broke its contract: the value it returned is let go.
OutputInvalid(c) ==
  /\ call[c].pc = "checking"
  /\ call' = [call EXCEPT ![c].pc = "answered", ![c].outcome = "invalid",
                          ![c].value = "dropped"]
  /\ UNCHANGED <<session, holder, stream>>

-----------------------------------------------------------------------------
(* The item stream: pulled by the platform, one item at a time, while the    *)
(* consumer keeps reading.  What a pull throws errors the stream.            *)

Open(c) == stream[c].state = "open"

\* The budget of the session is spent.
Spent(c) == Left(c) \in {-1, 0}

\* A pull of c has thrown; a stream already cancelled stays cancelled.
PullFails(c) ==
  stream' = [stream EXCEPT ![c].pull = "idle", ![c].source = "released",
                           ![c].state = IF Open(c) THEN "errored" ELSE @]

\* Fault: the deadline is checked only when the stream is returned.
PullUnchecked(c) ==
  /\ Open(c) /\ stream[c].pull = "idle"
  /\ stream' = [stream EXCEPT ![c].pull = "next"]
  /\ UNCHANGED <<session, holder, call>>

\* A pull: the deadline is checked, then the source is asked for an item.
Pull(c) ==
  /\ Open(c) /\ stream[c].pull = "idle"
  /\ IF Spent(c) THEN PullFails(c)
                 ELSE stream' = [stream EXCEPT ![c].pull = "next"]
  /\ UNCHANGED <<session, holder, call>>

SourceYields(c) ==
  /\ stream[c].pull = "next"
  /\ stream' = [stream EXCEPT ![c].pull = "validating"]
  /\ UNCHANGED <<session, holder, call>>

\* The source is exhausted: the stream is closed, which throws if it was
\* cancelled while the item was awaited.
SourceEnds(c) ==
  /\ stream[c].pull = "next"
  /\ IF Open(c)
     THEN stream' = [stream EXCEPT ![c].pull = "idle", ![c].state = "closed",
                                   ![c].source = "done"]
     ELSE PullFails(c)
  /\ UNCHANGED <<session, holder, call>>

SourceThrows(c) ==
  /\ stream[c].pull = "next"
  /\ PullFails(c)
  /\ UNCHANGED <<session, holder, call>>

\* The item is valid: it is enqueued, which throws on a cancelled stream.
ItemValid(c) ==
  /\ stream[c].pull = "validating"
  /\ IF Open(c)
     THEN stream' = [stream EXCEPT ![c].pull = "idle",
                       ![c].late = IF Spent(c) THEN @ + 1 ELSE @]
     ELSE PullFails(c)
  /\ UNCHANGED <<session, holder, call>>

\* Fault: the stream is errored, its source is left suspended.
ItemInvalidStranding(c) ==
  /\ stream[c].pull = "validating"
  /\ stream' = [stream EXCEPT ![c].pull = "idle", ![c].state = IF Open(c) THEN "errored" ELSE @]
  /\ UNCHANGED <<session, holder, call>>

ItemInvalid(c) ==
  /\ stream[c].pull = "validating"
  /\ PullFails(c)
  /\ UNCHANGED <<session, holder, call>>

\* The consumer cancels: the source is told at once, a pending pull goes on.
Cancel(c) ==
  /\ Open(c)
  /\ stream' = [stream EXCEPT ![c].state = "cancelled", ![c].source = "released"]
  /\ UNCHANGED <<session, holder, call>>

-----------------------------------------------------------------------------
SessionStep(s) ==
  \/ Connect(s) \/ Refuse(s) \/ Admit(s) \/ FactoryFails(s) \/ Build(s) \/ Dispose(s)

\* What the wrapper itself does, given that validators settle.
Wrapper(c) ==
  \/ InputValid(c) \/ InputInvalid(c) \/ StartBody(c) \/ TimerFires(c)
  \/ OutputValid(c) \/ OutputInvalid(c)

Body(c) ==
  \/ BodyReturns(c) \/ BodyReturnsSource(c) \/ BodyReturnsNoSource(c)
  \/ BodyReturnsLate(c) \/ BodyThrows(c)

StreamStep(c) ==
  \/ Pull(c) \/ SourceYields(c) \/ SourceEnds(c) \/ SourceThrows(c)
  \/ ItemValid(c) \/ ItemInvalid(c) \/ Cancel(c)

Next ==
  \/ Tick
  \/ \E s \in Session : SessionStep(s) \/ \E c \in Call : Invoke(c, s) \/ InvokeRefused(c, s)
  \/ \E c \in Call : Wrapper(c) \/ Body(c) \/ StreamStep(c)

Spec == Init /\ [][Next]_vars

\* Time passes, and the wrapper's own continuations run; a body, a source and
\* a consumer owe nothing.
FairSpec ==
  /\ Spec
  /\ WF_vars(Tick)
  /\ \A c \in Call : WF_vars(Wrapper(c))

-----------------------------------------------------------------------------
TypeOK ==
  /\ session \in [Session -> [
       pc : {"idle", "verifying", "building", "live", "disposed", "closed"},
       transport : {"none", "http-batch", "session"},
       left : Nat \cup {-1, None}, handler : Instance \cup {None}]]
  /\ holder \in [Instance -> Session \cup {None}]
  /\ call \in [Call -> [
       pc : {"idle", "validating", "racing", "checking", "answered"},
       on : Session \cup {None}, kind : {"none", "unary", "stream"}, timer : Nat \cup {None},
       body : {"none", "scheduled", "running", "returned", "threw"},
       value : {"none", "held", "delivered", "discarded", "dropped"},
       outcome : {"none", "refused", "invalid", "spent", "timeout", "value", "failed"}]]
  /\ stream \in [Call -> [
       state : {"none", "open", "closed", "errored", "cancelled"},
       pull : {"idle", "next", "validating"},
       source : {"none", "live", "done", "released"}, late : Nat]]

\* The identity and the scopes a call runs under are those of its own session:
\* a factory that hands out one instance twice is refused, whichever of two
\* concurrent sessions asked first.  And every variable keeps its type.
HandlersAreNotShared ==
  TypeOK /\ \A s \in Session : session[s].pc \in {"live", "disposed"} => holder[session[s].handler] = s

\* No value wins the race once the deadline of its session has passed, whatever
\* ceiling the method has of its own.
NoAnswerPastTheDeadline ==
  [][\A c \in Call :
       Racing(c) /\ call'[c].body = "returned" => Left(c) # -1]_vars

\* The caller that was told of a timeout leaves nothing pinned: whenever the
\* body does return, its value is released, and no value reaches anybody.
LateValuesAreReleased ==
  \A c \in Call :
    call[c].outcome \in {"timeout", "spent"} /\ call[c].body = "returned"
      => call[c].value = "discarded"

\* However a stream ends (exhausted, failed, an invalid item, the deadline, a
\* cancel during a pull), the source behind it is not left suspended.
StreamSourcesAreReleased ==
  \A c \in Call :
    stream[c].state \in {"closed", "errored", "cancelled"} => stream[c].source # "live"

\* Past the deadline a stream lets through the one item already awaited, and
\* no other.
AtMostOneLateItem ==
  \A c \in Call : stream[c].late <= 1

\* Whoever waits for a body waits for a timer too, and for no longer than either
\* bound leaves it: of a call with both, made at any time in its session, the
\* timer comes no later than the nearer.
WaitsAreBounded ==
  \A c \in Call : Racing(c) =>
    /\ Left(c) # None => call[c].timer \in 0..Left(c)
    /\ call[c].kind = "unary" /\ Ceiling # None => call[c].timer \in 0..Ceiling

\* A call with a deadline or a ceiling is answered, though its body hangs.
Bounded(c) == call[c].pc # "idle" /\ (Left(c) # None \/ (call[c].kind = "unary" /\ Ceiling # None))
EveryBoundedCallIsAnswered ==
  \A c \in Call : (call[c].pc = "validating" /\ Bounded(c)) ~> (call[c].pc = "answered")

=============================================================================
