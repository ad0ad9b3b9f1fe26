------------------------------ MODULE McpStream ------------------------------
(***************************************************************************)
(* A request to the plane's MCP endpoint, from its headers to its answer.  *)
(* A unary tool, a resource or a prompt opens a session, calls, and closes *)
(* it before it answers; a streaming tool answers by server-sent events,   *)
(* from a generator that owns the session: it reads the tool's stream,     *)
(* tells the progress, and gives the items it aggregated as the one        *)
(* response.  The client reads the events at its leisure and may go away   *)
(* at any time; the tool's stream may hang.                                *)
(*                                                                         *)
(* A step of the generator runs from one await to the next.  Who may call  *)
(* which tool is Authorization's, which tool a name means Projections'.    *)
(***************************************************************************)
EXTENDS Naturals, Sequences

CONSTANTS
  Size,           \* the sizes an item may have
  MaxItems, MaxBytes,
  ProgressBytes,  \* the size of a progress event, which holds the caller's token
  MaxMade         \* BOUND: items a tool makes

ASSUME LimitAssumption ==
  /\ {MaxItems, MaxBytes} \subseteq Nat \ {0}
  /\ Size \subseteq Nat /\ ProgressBytes \in Nat /\ MaxMade \in Nat

VARIABLES
  request,  \* what was asked
  at,       \* how far the handler has come
  reply,    \* what it answers, or will when the session is closed
  session,  \* "none", "open" or "closed"
  made,     \* the items the tool's stream has handed over
  source,   \* the tool's stream: "live", "ended", "failed" or "cancelled"
  read,     \* the read of the stream: "none", "pending", or how it settled
  gen,      \* the generator: "reading", "yielded", "answered", "disposing" or "done"
  kept,     \* [items, bytes, progress: bytes of it told, telling: BOOLEAN]
  logged,   \* the outcome in the log
  body,     \* the events: [state, queue, pulling]
  aborted,  \* deliveryAborted, and the generator's return() is queued
  got       \* the events the client has read

stream == <<made, source, read, gen, kept, logged, body, aborted, got>>
vars == <<request, at, reply, session, stream>>

Transport == {"good", "other-version", "foreign-origin", "not-POST"}

\* A call of a resource or of a prompt is a "read".
Message == {"no-JSON", "batch", "no-JSON-RPC", "no-response", "response", "notification", "bad-id",
            "list", "unknown-method", "not-found", "read", "unary", "stream"}

Request == [transport : Transport, message : Message, limits : {"good", "bad"},
            accept : {"none", "json", "events", "any"}, token : {"none", "text", "safe", "unsafe"}]

AcceptsEventStream == request.accept # "json"

HasProgressToken == request.token \in {"text", "safe"}

McpInit ==
  /\ request \in Request
  /\ request.message # "stream" => request.limits = "good" /\ request.accept = "none" /\ request.token = "none"
  /\ at = "received" /\ reply = "none" /\ session = "none"
  /\ made = <<>> /\ source = "live" /\ read = "none"
  /\ gen = "reading"
  /\ kept = [items |-> <<>>, bytes |-> 0, progress |-> 0, telling |-> HasProgressToken]
  /\ logged = "none"
  /\ body = [state |-> "open", queue |-> <<>>, pulling |-> FALSE]
  /\ aborted = FALSE /\ got = <<>>

-----------------------------------------------------------------------------
(* The handler. *)

Replies(answer) == at' = "replied" /\ reply' = answer

\* The answer to a message that calls no tool.
Answer(message) ==
  CASE message \in {"no-JSON", "batch", "no-JSON-RPC", "no-response", "bad-id"} -> "bad-request"
    [] message \in {"response", "notification"} -> "accepted"
    [] message \in {"unknown-method", "not-found"} -> "protocol-error"

\* Before anybody is asked who calls.
Receive ==
  /\ at = "received"
  /\ CASE request.transport = "good" -> at' = "resolving" /\ UNCHANGED reply
       [] request.transport = "other-version" -> Replies("bad-request")
       [] request.transport = "foreign-origin" -> Replies("forbidden")
       [] request.transport = "not-POST" -> Replies("not-allowed")
  /\ UNCHANGED <<request, session, stream>>

\* The catalog and the caller are resolved, or not.
Resolve ==
  /\ at = "resolving"
  /\ \/ at' = "dispatching" /\ UNCHANGED reply
     \/ \E answer \in {"not-found", "unauthorized", "server-error"} : Replies(answer)
  /\ UNCHANGED <<request, session, stream>>

\* A list is refused whole when two of a kind share a name (Projections).  A
\* client that cannot be answered by events is refused before a session is
\* opened for it.
Dispatch ==
  /\ at = "dispatching"
  /\ CASE request.message = "stream" /\ ~AcceptsEventStream -> Replies("not-acceptable")
       [] request.message = "stream" /\ AcceptsEventStream /\ request.limits = "bad" -> Replies("protocol-error")
       [] request.message = "list" -> \E answer \in {"result", "server-error"} : Replies(answer)
       [] request.message \notin {"list", "read", "unary", "stream"} -> Replies(Answer(request.message))
       [] OTHER -> at' = "opening" /\ UNCHANGED reply
  /\ UNCHANGED <<request, session, stream>>

\* How a call fails: a tool's own failure is told within a result.
Failures == IF request.message = "read" THEN {"protocol-error"} ELSE {"protocol-error", "tool-error"}

\* The caller's deadline, its access or the service itself may be in the way.
OpenSession ==
  /\ at = "opening"
  /\ \/ at' = "calling" /\ session' = "open" /\ UNCHANGED reply
     \/ \E failure \in IF request.message = "stream" THEN {"protocol-error"} ELSE Failures :
          Replies(failure) /\ UNCHANGED session
  /\ UNCHANGED <<request, stream>>

\* The method answers or fails; a streaming tool that hands over its stream
\* hands the session over to the generator, whose first read the body pulls.
CallMethod ==
  /\ at = "calling"
  /\ \/ /\ at' = "closing"
        /\ reply' \in Failures \union (IF request.message = "stream" THEN {} ELSE {"result"})
        /\ UNCHANGED <<read, body>>
     \/ /\ request.message = "stream"
        /\ Replies("events")
        /\ read' = "pending"
        /\ body' = [body EXCEPT !.pulling = TRUE]
  /\ UNCHANGED <<request, session, made, source, gen, kept, logged, aborted, got>>

CloseEarly ==
  /\ at = "closing"
  /\ session' = "closed"
  /\ Replies(reply)
  /\ UNCHANGED <<request, stream>>

-----------------------------------------------------------------------------
(* The tool's stream, and the client. *)

Streaming == at = "replied" /\ reply = "events"

SourceHands(size) ==
  /\ read = "pending" /\ source = "live" /\ Len(made) < MaxMade
  /\ made' = Append(made, size)
  /\ read' = "item"
  /\ UNCHANGED <<request, at, reply, session, source, gen, kept, logged, body, aborted, got>>

SourceStops ==
  /\ read = "pending" /\ source = "live"
  /\ \/ source' = "ended" /\ read' = "done"
     \/ source' = "failed" /\ read' = "error"
  /\ UNCHANGED <<request, at, reply, session, made, gen, kept, logged, body, aborted, got>>

ClientReads ==
  /\ body.queue # <<>>
  /\ got' = got \o body.queue
  /\ body' = [body EXCEPT !.queue = <<>>]
  /\ UNCHANGED <<request, at, reply, session, made, source, read, gen, kept, logged, aborted>>

Cancelled == IF source = "live" THEN "cancelled" ELSE source

Abandons ==
  /\ Streaming /\ body.state = "open"
  /\ body' = [body EXCEPT !.state = "cancelled", !.queue = <<>>]
  /\ aborted' = TRUE

\* Fault: the generator is told to return, which it does when its read is over.
ClientCancelsGenerator ==
  /\ Abandons
  /\ UNCHANGED <<request, at, reply, session, made, source, read, gen, kept, logged, got>>

\* The flag, then the reader, whose pending read is over, then the generator.
ClientCancels ==
  /\ Abandons
  /\ source' = Cancelled
  /\ read' = IF read = "pending" THEN "done" ELSE read
  /\ UNCHANGED <<request, at, reply, session, made, gen, kept, logged, got>>

-----------------------------------------------------------------------------
(* The generator. *)

\* What the body was waiting for; one that was cancelled drops it.
Yields(event, next) ==
  /\ gen' = next
  /\ read' = "none"
  /\ body' = [body EXCEPT !.pulling = FALSE,
                          !.queue = IF body.state = "open" THEN <<event>> ELSE <<>>]
  /\ UNCHANGED <<source>>

\* It reads on without a yield.
Loops == gen' = "reading" /\ read' = "pending" /\ UNCHANGED <<source, body>>

\* The finally block: the reader is cancelled, the session closed.
Finally == gen' = "disposing" /\ read' = "none" /\ source' = Cancelled

Aggregated == [kept EXCEPT !.items = Append(@, made[Len(made)]), !.bytes = @ + made[Len(made)]]

Exceeds(aggregate) == Len(aggregate.items) > MaxItems \/ aggregate.bytes > MaxBytes

ReadFails ==
  /\ logged' = "failed"
  /\ Yields([kind |-> "error"], "answered")
  /\ UNCHANGED kept

ReadIsAborted ==
  /\ logged' = "failed"
  /\ Finally
  /\ UNCHANGED <<kept, body>>

ReadIsDone ==
  /\ logged' = "completed"
  /\ Yields([kind |-> "result", items |-> kept.items], "answered")
  /\ UNCHANGED kept

\* Progress is told while it fits its own budget, and then never again.
ReadGivesItem ==
  IF Exceeds(Aggregated)
  THEN /\ logged' = "failed"
       /\ kept' = Aggregated
       /\ Yields([kind |-> "error"], "answered")
  ELSE /\ UNCHANGED logged
       /\ IF kept.telling /\ kept.progress + ProgressBytes <= MaxBytes
          THEN /\ kept' = [Aggregated EXCEPT !.progress = @ + ProgressBytes]
               /\ Yields([kind |-> "progress", of |-> Len(kept'.items)], "yielded")
          ELSE /\ kept' = [Aggregated EXCEPT !.telling = FALSE]
               /\ Loops

Resumes == gen = "reading" /\ read \notin {"none", "pending"}

\* Fault: the stream is over when the read says so.
ReadSettlesUnasked ==
  /\ Resumes
  /\ CASE read = "error" -> ReadFails
       [] read = "done" -> ReadIsDone
       [] read = "item" -> ReadGivesItem
  /\ UNCHANGED <<request, at, reply, session, made, aborted, got>>

ReadSettles ==
  /\ Resumes
  /\ CASE read = "error" -> ReadFails
       [] read # "error" /\ aborted -> ReadIsAborted
       [] read = "done" /\ ~aborted -> ReadIsDone
       [] read = "item" /\ ~aborted -> ReadGivesItem
  /\ UNCHANGED <<request, at, reply, session, made, aborted, got>>

\* The body wants another event when the client has read the last.
Pull ==
  /\ body.state = "open" /\ ~body.pulling /\ body.queue = <<>>
  /\ gen \in {"yielded", "answered"}
  /\ body' = [body EXCEPT !.pulling = TRUE]
  /\ IF gen = "answered" THEN Finally
     ELSE gen' = "reading" /\ read' = "pending" /\ UNCHANGED source
  /\ UNCHANGED <<request, at, reply, session, made, kept, logged, aborted, got>>

\* return() finds the generator at a yield.
Return ==
  /\ aborted /\ gen \in {"yielded", "answered"}
  /\ Finally
  /\ UNCHANGED <<request, at, reply, session, made, kept, logged, body, aborted, got>>

Dispose ==
  /\ gen = "disposing"
  /\ gen' = "done"
  /\ session' = "closed"
  /\ body' = [body EXCEPT !.pulling = FALSE,
                          !.state = IF @ = "open" THEN "closed" ELSE @]
  /\ UNCHANGED <<request, at, reply, made, source, read, kept, logged, aborted, got>>

Handle == Receive \/ Resolve \/ Dispatch \/ OpenSession \/ CallMethod \/ CloseEarly

Generate == ReadSettles \/ Pull \/ Return \/ Dispose

McpNext ==
  \/ Handle \/ Generate \/ ClientReads \/ ClientCancels
  \/ SourceStops \/ \E size \in Size : SourceHands(size)

\* The handler and the generator run, and a client that is there reads; the
\* tool owes nothing.
Fairness == WF_vars(Handle) /\ WF_vars(Generate) /\ WF_vars(ClientReads)

McpSpec == McpInit /\ [][McpNext]_vars /\ Fairness

-----------------------------------------------------------------------------
(* Properties. *)

Event ==
  [kind : {"error"}] \union [kind : {"result"}, items : Seq(Size)] \union [kind : {"progress"}, of : Nat]

\* Every variable keeps its type.
McpTypeOK ==
  /\ request \in Request
  /\ at \in {"received", "resolving", "dispatching", "opening", "calling", "closing", "replied"}
  /\ reply \in {"none", "bad-request", "forbidden", "not-allowed", "not-found", "unauthorized",
               "not-acceptable", "server-error", "accepted", "result", "tool-error", "protocol-error", "events"}
  /\ session \in {"none", "open", "closed"}
  /\ made \in Seq(Size)
  /\ source \in {"live", "ended", "failed", "cancelled"}
  /\ read \in {"none", "pending", "item", "done", "error"}
  /\ gen \in {"reading", "yielded", "answered", "disposing", "done"}
  /\ kept \in [items : Seq(Size), bytes : Nat, progress : 0..MaxBytes, telling : BOOLEAN]
  /\ logged \in {"none", "completed", "failed"}
  /\ body.state \in {"open", "closed", "cancelled"} /\ Len(body.queue) <= 1
  /\ aborted \in BOOLEAN
  /\ got \in Seq(Event)

Sent == got \o body.queue

IsProgress(events) ==
  \A n \in DOMAIN events : events[n] = [kind |-> "progress", of |-> n]

\* What the log and the client are told is true, however reads, progress and
\* the end of delivery fall together: a call completed only if the tool's stream
\* came to its own end within the limits and every item is in the result, never
\* because abandoned delivery ended a read (the comment at mcp.ts:424); the
\* client sees the progress from the first item on without a gap, then one
\* response at most and nothing after it, and one if the events end; and an
\* answer that refuses the request left no session behind.
AnswerIsTrue ==
  /\ McpTypeOK
  /\ logged = "completed" =>
       source = "ended" /\ kept.items = made /\ ~Exceeds(kept)
  /\ \/ IsProgress(Sent)
     \/ /\ Sent # <<>> /\ IsProgress(SubSeq(Sent, 1, Len(Sent) - 1))
        /\ logged = (IF Sent[Len(Sent)].kind = "result" THEN "completed" ELSE "failed")
        /\ Sent[Len(Sent)].kind = "result" => Sent[Len(Sent)].items = made
  /\ body.state = "closed" => ~IsProgress(got)
  /\ at = "replied" =>
       /\ reply \in {"result", "tool-error", "protocol-error"} => session # "open"
       /\ reply \in {"bad-request", "accepted", "forbidden", "not-allowed", "not-found",
                     "unauthorized", "not-acceptable", "server-error"} => session = "none"

\* A session that is open has a step ahead that can close it: the generator reads
\* from a tool that still runs, or its body has yet to ask for more, or to be told
\* that it is gone.  Nobody else would close it (the comment at mcp.ts:391).
NoSessionIsStranded ==
  session = "open" /\ Streaming =>
    /\ gen # "done"
    /\ gen = "reading" => read # "none" /\ (read = "pending" => source = "live" /\ ~aborted)
    /\ gen \in {"yielded", "answered"} => aborted \/ (body.state = "open" /\ ~body.pulling)

IsOver ==
  \/ at = "closing"
  \/ Streaming /\ (aborted \/ source # "live" \/ Exceeds(kept))

\* A session that has nothing more to do is closed: when its method failed,
\* when the tool's stream ended, failed or grew too large and the client takes
\* the answer, and when the client goes away, even from a tool that hangs (the
\* comment at mcp.ts:391).
SessionIsReleased == IsOver ~> session = "closed"
=============================================================================
