---------------------------- MODULE SurfaceProofs ----------------------------
(***************************************************************************)
(* Proofs about what the plane offers to the world: a call through its MCP *)
(* endpoint (McpStream), and the routes, the OpenAPI document and the MCP  *)
(* lists it makes of the documents of its services (Projections).          *)
(*                                                                         *)
(* The call: what the client is answered and what is logged is what became *)
(* of it.  The argument follows the generator.  Until it answers, the      *)
(* items it kept are those the tool handed over, but for the one it is     *)
(* about to take, and the events it sent are the progress of as many items *)
(* as it has kept while it still tells; once it has answered, no read is   *)
(* left and nothing it said of the items can change.                       *)
(*                                                                         *)
(* The documents: what is released was accepted or is another's, and every *)
(* entry of the catalog is one the registry checked.  The rest is about    *)
(* any such catalog.  A best match is there because the static segments of *)
(* a match are at most those of the path, and numbers under a bound have a *)
(* greatest.                                                               *)
(***************************************************************************)
EXTENDS Projections, McpStream, SequenceTheorems, FiniteSetTheorems, WellFoundedInduction, TLAPS

BodyRecord ==
  [state : {"open", "closed", "cancelled"}, queue : Seq(Event), pulling : BOOLEAN]

\* It has not answered, nor given up.
Telling == gen \in {"reading", "yielded"}

HandlerIs ==
  /\ ~Streaming => gen = "reading" /\ read = "none"
  /\ at \in {"received", "resolving", "dispatching", "opening"} => session = "none"
  /\ at \in {"calling", "closing"} => session = "open"
  /\ at = "closing" => reply \in {"result", "tool-error", "protocol-error"}
  /\ at = "replied" =>
       /\ reply \in {"result", "tool-error", "protocol-error"} => session # "open"
       /\ reply \in {"bad-request", "accepted", "forbidden", "not-allowed", "not-found",
                     "unauthorized", "not-acceptable", "server-error"} => session = "none"

ReadIs ==
  /\ gen # "reading" => read = "none"
  /\ Telling /\ ~aborted =>
       /\ read = "done" => source = "ended"
       /\ read \notin {"done", "error"} => source = "live"

ItemsAre ==
  /\ Telling =>
       /\ logged = "none" /\ ~Exceeds(kept)
       /\ read = "item" => made # <<>> /\ made = Append(kept.items, made[Len(made)])
       /\ read # "item" => made = kept.items
  /\ logged = "completed" => source = "ended" /\ kept.items = made /\ ~Exceeds(kept)

\* The events tell progress without a gap, and then perhaps the response.
IsTold(events) ==
  \/ IsProgress(events)
  \/ /\ events # <<>> /\ IsProgress(SubSeq(events, 1, Len(events) - 1))
     /\ logged = (IF events[Len(events)].kind = "result" THEN "completed" ELSE "failed")
     /\ events[Len(events)].kind = "result" => events[Len(events)].items = made

EventsAre ==
  /\ aborted <=> body.state = "cancelled"
  /\ body.state = "closed" => gen = "done"
  /\ gen \in {"reading", "disposing", "done"} \/ body.state = "cancelled" => body.queue = <<>>
  /\ Telling => IsProgress(Sent) /\ (kept.telling /\ ~aborted => Len(Sent) = Len(kept.items))
  /\ ~Telling => IsTold(Sent)
  /\ (gen \in {"answered", "disposing"} /\ body.state = "open") \/ body.state = "closed"
       => ~IsProgress(Sent)

McpInv == McpTypeOK /\ body \in BodyRecord /\ HandlerIs /\ ReadIs /\ ItemsAre /\ EventsAre

-----------------------------------------------------------------------------
(* Types, by the names the steps below use for them. *)

Stage == {"received", "resolving", "dispatching", "opening", "calling", "closing", "replied"}

Reply == {"none", "bad-request", "forbidden", "not-allowed", "not-found", "unauthorized",
          "not-acceptable", "server-error", "accepted", "result", "tool-error",
          "protocol-error", "events"}

Outcome == {"none", "completed", "failed"}

KeptRecord == [items : Seq(Size), bytes : Nat, progress : 0..MaxBytes, telling : BOOLEAN]

LEMMA Typed ==
  ASSUME McpTypeOK
  PROVE  /\ request \in Request /\ at \in Stage /\ reply \in Reply
         /\ session \in {"none", "open", "closed"} /\ made \in Seq(Size)
         /\ source \in {"live", "ended", "failed", "cancelled"}
         /\ read \in {"none", "pending", "item", "done", "error"}
         /\ gen \in {"reading", "yielded", "answered", "disposing", "done"}
         /\ kept \in KeptRecord /\ logged \in Outcome
         /\ Len(body.queue) <= 1 /\ aborted \in BOOLEAN /\ got \in Seq(Event)
BY DEF McpTypeOK, Stage, Reply, Outcome, KeptRecord

\* A step that leaves the request as it is keeps the types.
LEMMA TypedAgain ==
  ASSUME McpTypeOK, UNCHANGED request, at' \in Stage, reply' \in Reply,
         session' \in {"none", "open", "closed"}, made' \in Seq(Size),
         source' \in {"live", "ended", "failed", "cancelled"},
         read' \in {"none", "pending", "item", "done", "error"},
         gen' \in {"reading", "yielded", "answered", "disposing", "done"},
         kept' \in KeptRecord, logged' \in Outcome,
         body' \in BodyRecord, Len(body'.queue) <= 1, aborted' \in BOOLEAN, got' \in Seq(Event)
  PROVE  McpTypeOK'
BY DEF McpTypeOK, Stage, Reply, Outcome, KeptRecord, BodyRecord

LEMMA Numbers ==
  /\ MaxItems \in Nat \ {0} /\ MaxBytes \in Nat \ {0} /\ ProgressBytes \in Nat
  /\ MaxMade \in Nat /\ Size \subseteq Nat
BY LimitAssumption

-----------------------------------------------------------------------------
(* Sequences of events. *)

LEMMA OneMore ==
  ASSUME NEW S, NEW s \in Seq(S), NEW x \in S
  PROVE  /\ s \o <<x>> \in Seq(S) /\ Len(s \o <<x>>) = Len(s) + 1
         /\ Len(s) \in Nat /\ s \o <<x>> # <<>>
         /\ (s \o <<x>>)[Len(s) + 1] = x
         /\ \A i \in 1..Len(s) : (s \o <<x>>)[i] = s[i]
         /\ SubSeq(s \o <<x>>, 1, Len(s)) = s
<1> DEFINE t == s \o <<x>>
<1>1. <<x>> \in Seq(S) /\ Len(<<x>>) = 1 /\ <<x>>[1] = x /\ Len(s) \in Nat
  BY LenProperties
<1>2. /\ t \in Seq(S) /\ Len(t) = Len(s) + 1
      /\ \A i \in 1..Len(s) + 1 : t[i] = IF i <= Len(s) THEN s[i] ELSE <<x>>[i - Len(s)]
  BY <1>1, ConcatProperties
<1>3. \A i \in 1..Len(s) : t[i] = s[i]
  BY <1>1, <1>2
<1>4. t[Len(s) + 1] = x
  BY <1>1, <1>2
<1>5. t # <<>>
  BY <1>1, <1>2
<1>6. SubSeq(t, 1, Len(s)) = s
  <2> HIDE DEF t
  <2>1. \A i \in 1..Len(s) : t[i] \in S
    BY <1>3, ElementOfSeq
  <2>2. /\ SubSeq(t, 1, Len(s)) \in Seq(S) /\ Len(SubSeq(t, 1, Len(s))) = Len(s)
        /\ \A i \in 1..Len(s) : SubSeq(t, 1, Len(s))[i] = s[i]
    <3>1. /\ SubSeq(t, 1, Len(s)) \in Seq(S)
          /\ Len(SubSeq(t, 1, Len(s))) = IF 1 <= Len(s) THEN Len(s) - 1 + 1 ELSE 0
          /\ \A i \in 1..Len(s) - 1 + 1 : SubSeq(t, 1, Len(s))[i] = t[1 + i - 1]
      BY <1>1, <2>1, SubSeqProperties
    <3> QED
      BY <1>1, <1>3, <3>1
  <2> QED
    BY <2>2, SeqEqual
<1> QED
  BY <1>1, <1>2, <1>3, <1>4, <1>5, <1>6

LEMMA ProgressIs ==
  ASSUME NEW s \in Seq(Event)
  PROVE  IsProgress(s) <=> \A n \in 1..Len(s) : s[n] = [kind |-> "progress", of |-> n]
BY LenProperties DEF IsProgress

LEMMA NothingIsProgress == IsProgress(<<>>)
BY DEF IsProgress

\* Progress of the next item goes on; whatever else comes does not.
LEMMA ProgressGoesOn ==
  ASSUME NEW s \in Seq(Event), IsProgress(s), NEW x \in Event
  PROVE  IsProgress(s \o <<x>>) <=> x = [kind |-> "progress", of |-> Len(s) + 1]
<1>1. /\ s \o <<x>> \in Seq(Event) /\ Len(s \o <<x>>) = Len(s) + 1 /\ Len(s) \in Nat
      /\ (s \o <<x>>)[Len(s) + 1] = x /\ \A i \in 1..Len(s) : (s \o <<x>>)[i] = s[i]
  BY OneMore
<1> DEFINE t == s \o <<x>>
<1>2. \A n \in 1..Len(s) : s[n] = [kind |-> "progress", of |-> n]
  BY ProgressIs
<1>3. IsProgress(t) <=> \A n \in 1..Len(t) : t[n] = [kind |-> "progress", of |-> n]
  BY <1>1, ProgressIs
<1> HIDE DEF t
<1>4. Len(t) = Len(s) + 1 /\ t[Len(s) + 1] = x /\ \A i \in 1..Len(s) : t[i] = s[i]
  BY <1>1 DEF t
<1>5. Len(s) + 1 \in 1..Len(t)
  BY <1>1, <1>4
<1>6. ASSUME x = [kind |-> "progress", of |-> Len(s) + 1], NEW n \in 1..Len(t)
      PROVE  t[n] = [kind |-> "progress", of |-> n]
  <2>1. CASE n = Len(s) + 1
    BY <1>4, <1>6, <2>1
  <2>2. CASE n # Len(s) + 1
    <3>1. n \in 1..Len(s)
      BY <1>1, <1>4, <2>2
    <3> QED
      BY <1>2, <1>4, <3>1
  <2> QED
    BY <2>1, <2>2
<1> QED
  BY <1>3, <1>4, <1>5, <1>6 DEF t

LEMMA ProgressSoFar ==
  ASSUME NEW s \in Seq(Event), NEW t \in Seq(Event), IsProgress(s \o t)
  PROVE  IsProgress(s)
<1>1. /\ s \o t \in Seq(Event) /\ Len(s \o t) = Len(s) + Len(t) /\ Len(s) \in Nat /\ Len(t) \in Nat
      /\ \A i \in 1..Len(s) + Len(t) : (s \o t)[i] = IF i <= Len(s) THEN s[i] ELSE t[i - Len(s)]
  BY ConcatProperties, LenProperties
<1> DEFINE u == s \o t
<1>2. \A n \in 1..Len(u) : u[n] = [kind |-> "progress", of |-> n]
  BY <1>1, ProgressIs
<1>3. Len(u) = Len(s) + Len(t) /\ \A i \in 1..Len(s) : u[i] = s[i]
  BY <1>1
<1> HIDE DEF u
<1>4. \A n \in 1..Len(s) : s[n] = [kind |-> "progress", of |-> n]
  BY <1>1, <1>2, <1>3
<1> QED
  BY <1>4, ProgressIs

-----------------------------------------------------------------------------
(* The handler: until it hands over to the generator, nothing has begun. *)

LEMMA InitMcp == McpInit => McpInv
<1> SUFFICES ASSUME McpInit PROVE McpInv
  OBVIOUS
<1>1. /\ made = <<>> /\ got = <<>> /\ body = [state |-> "open", queue |-> <<>>, pulling |-> FALSE]
      /\ kept = [items |-> <<>>, bytes |-> 0, progress |-> 0, telling |-> HasProgressToken]
      /\ gen = "reading" /\ read = "none" /\ source = "live" /\ aborted = FALSE /\ logged = "none"
      /\ at = "received" /\ session = "none" /\ reply = "none"
  BY DEF McpInit
<1>2. <<>> \in Seq(Size) /\ <<>> \in Seq(Event) /\ Len(<<>>) = 0
  BY EmptySeq
<1>3. kept \in KeptRecord /\ body \in BodyRecord /\ Len(body.queue) <= 1
  <2>1. HasProgressToken \in BOOLEAN
    BY DEF HasProgressToken
  <2> QED
    BY <1>1, <1>2, <2>1, Numbers DEF KeptRecord, BodyRecord
<1>4. McpTypeOK
  BY <1>1, <1>2, <1>3 DEF McpInit, McpTypeOK, KeptRecord, BodyRecord
<1>5. HandlerIs /\ ReadIs
  BY <1>1 DEF HandlerIs, ReadIs, Streaming, Telling
<1>6. ItemsAre
  BY <1>1, <1>2, Numbers DEF ItemsAre, Exceeds, Telling
<1>7. EventsAre
  <2>1. Sent = <<>>
    BY <1>1, <1>2, ConcatEmptySeq DEF Sent
  <2> QED
    BY <1>1, <1>2, <2>1, NothingIsProgress DEF EventsAre, Telling
<1> QED
  BY <1>3, <1>4, <1>5, <1>6, <1>7 DEF McpInv

\* A step of the handler alone.
LEMMA HandlerSteps ==
  ASSUME McpInv, UNCHANGED <<request, stream>>, at' \in Stage, reply' \in Reply,
         session' \in {"none", "open", "closed"}, HandlerIs'
  PROVE  McpInv'
<1>1. UNCHANGED <<made, source, read, gen, kept, logged, body, aborted, got>> /\ UNCHANGED request
  BY DEF stream
<1>2. McpTypeOK'
  BY <1>1, Typed, TypedAgain DEF McpInv
<1>3. ReadIs' /\ ItemsAre'
  BY <1>1 DEF McpInv, ReadIs, ItemsAre, Telling, Exceeds
<1>4. EventsAre'
  BY <1>1 DEF McpInv, EventsAre, IsTold, IsProgress, Sent, Telling
<1> QED
  BY <1>1, <1>2, <1>3, <1>4 DEF McpInv

LEMMA HandlerWas ==
  ASSUME McpInv
  PROVE  /\ ~Streaming => gen = "reading" /\ read = "none"
         /\ at \in {"received", "resolving", "dispatching", "opening"} => session = "none"
         /\ at \in {"calling", "closing"} => session = "open"
         /\ at = "closing" => reply \in {"result", "tool-error", "protocol-error"}
BY DEF McpInv, HandlerIs

LEMMA ReceiveKeeps ==
  ASSUME McpInv, Receive
  PROVE  McpInv'
<1>1. request.transport \in Transport /\ reply \in Reply
  BY Typed DEF McpInv, Request
<1>2. /\ at = "received" /\ UNCHANGED <<request, session, stream>>
      /\ \/ at' = "resolving" /\ UNCHANGED reply
         \/ at' = "replied" /\ reply' \in {"bad-request", "forbidden", "not-allowed"}
  BY <1>1 DEF Receive, Replies, Transport
<1>3. UNCHANGED session /\ UNCHANGED <<gen, read>> /\ session = "none" /\ gen = "reading" /\ read = "none"
  BY <1>2, HandlerWas DEF stream, Streaming
<1>4. HandlerIs'
  BY <1>2, <1>3 DEF HandlerIs, Streaming
<1> QED
  BY <1>1, <1>2, <1>3, <1>4, HandlerSteps DEF Stage, Reply

LEMMA ResolveKeeps ==
  ASSUME McpInv, Resolve
  PROVE  McpInv'
<1>1. /\ at = "resolving" /\ UNCHANGED <<request, session, stream>> /\ reply \in Reply
      /\ \/ at' = "dispatching" /\ UNCHANGED reply
         \/ at' = "replied" /\ reply' \in {"not-found", "unauthorized", "server-error"}
  BY Typed DEF Resolve, Replies, McpInv
<1>2. UNCHANGED session /\ UNCHANGED <<gen, read>> /\ session = "none" /\ gen = "reading" /\ read = "none"
  BY <1>1, HandlerWas DEF stream, Streaming
<1>3. HandlerIs'
  BY <1>1, <1>2 DEF HandlerIs, Streaming
<1> QED
  BY <1>1, <1>2, <1>3, HandlerSteps DEF Stage, Reply

LEMMA DispatchKeeps ==
  ASSUME McpInv, Dispatch
  PROVE  McpInv'
<1>1. request.message \in Message /\ reply \in Reply
  BY Typed DEF McpInv, Request
<1>2. /\ at = "dispatching" /\ UNCHANGED <<request, session, stream>>
      /\ \/ at' = "opening" /\ UNCHANGED reply
         \/ at' = "replied" /\ reply' \in {"not-acceptable", "protocol-error", "result", "server-error",
                                           "bad-request", "accepted"}
  BY <1>1 DEF Dispatch, Replies, Message, Answer
<1>3. UNCHANGED session /\ UNCHANGED <<gen, read>> /\ session = "none" /\ gen = "reading" /\ read = "none"
  BY <1>2, HandlerWas DEF stream, Streaming
<1>4. HandlerIs'
  BY <1>2, <1>3 DEF HandlerIs, Streaming
<1> QED
  BY <1>1, <1>2, <1>3, <1>4, HandlerSteps DEF Stage, Reply

LEMMA OpenSessionKeeps ==
  ASSUME McpInv, OpenSession
  PROVE  McpInv'
<1>1. /\ at = "opening" /\ UNCHANGED <<request, stream>> /\ reply \in Reply
      /\ \/ at' = "calling" /\ session' = "open" /\ UNCHANGED reply
         \/ at' = "replied" /\ reply' \in {"protocol-error", "tool-error"} /\ UNCHANGED session
  BY Typed DEF OpenSession, Replies, Failures, McpInv
<1>2. UNCHANGED <<gen, read>> /\ session = "none" /\ gen = "reading" /\ read = "none"
  BY <1>1, HandlerWas DEF stream, Streaming
<1>3. HandlerIs'
  BY <1>1, <1>2 DEF HandlerIs, Streaming
<1> QED
  BY <1>1, <1>2, <1>3, HandlerSteps DEF Stage, Reply

LEMMA CloseEarlyKeeps ==
  ASSUME McpInv, CloseEarly
  PROVE  McpInv'
<1>1. /\ at = "closing" /\ UNCHANGED <<request, stream>> /\ reply \in Reply
      /\ at' = "replied" /\ reply' = reply /\ session' = "closed"
  BY Typed DEF CloseEarly, Replies, McpInv
<1>2. /\ UNCHANGED <<gen, read>> /\ gen = "reading" /\ read = "none"
      /\ reply \in {"result", "tool-error", "protocol-error"}
  BY <1>1, HandlerWas DEF stream, Streaming
<1>3. HandlerIs'
  BY <1>1, <1>2 DEF HandlerIs, Streaming
<1> QED
  BY <1>1, <1>2, <1>3, HandlerSteps DEF Stage, Reply

-----------------------------------------------------------------------------
(* The events are under way: what a step of theirs has to keep. *)

LEMMA StreamSteps ==
  ASSUME McpInv, Streaming', McpTypeOK', body' \in BodyRecord, ReadIs', ItemsAre', EventsAre'
  PROVE  McpInv'
BY DEF McpInv, HandlerIs, Streaming

\* The method hands over its stream: the body pulls the first read of it.
LEMMA CallMethodKeeps ==
  ASSUME McpInv, CallMethod
  PROVE  McpInv'
<1>0. at = "calling" /\ UNCHANGED <<request, session, made, source, gen, kept, logged, aborted, got>>
  BY DEF CallMethod
<1>1. session = "open" /\ gen = "reading" /\ read = "none"
  BY <1>0, HandlerWas DEF Streaming
<1>2. CASE /\ at' = "closing" /\ UNCHANGED <<read, body>>
           /\ reply' \in Failures \union (IF request.message = "stream" THEN {} ELSE {"result"})
  <2>1. reply' \in {"result", "tool-error", "protocol-error"}
    BY <1>2 DEF Failures
  <2>2. HandlerIs'
    BY <1>0, <1>1, <1>2, <2>1 DEF HandlerIs, Streaming
  <2> QED
    BY <1>0, <1>1, <1>2, <2>1, <2>2, HandlerSteps DEF Stage, Reply, stream
<1>3. CASE /\ Replies("events") /\ read' = "pending" /\ body' = [body EXCEPT !.pulling = TRUE]
  <2>1. at' = "replied" /\ reply' = "events"
    BY <1>3 DEF Replies
  <2>2. body \in BodyRecord /\ Len(body.queue) <= 1
    BY DEF McpInv, McpTypeOK
  <2>3. body' \in BodyRecord /\ body'.queue = body.queue /\ body'.state = body.state
    BY <1>3, <2>2 DEF BodyRecord
  <2>4. McpTypeOK'
    BY <1>0, <1>3, <2>1, <2>2, <2>3, Typed, TypedAgain DEF McpInv, Stage, Reply
  <2>5. ReadIs' /\ ItemsAre'
    BY <1>0, <1>1, <1>3 DEF McpInv, ReadIs, ItemsAre, Telling, Exceeds
  <2>6. EventsAre'
    BY <1>0, <2>3 DEF McpInv, EventsAre, IsTold, IsProgress, Sent, Telling
  <2> QED
    BY <2>1, <2>3, <2>4, <2>5, <2>6, StreamSteps DEF Streaming
<1> QED
  BY <1>2, <1>3 DEF CallMethod

LEMMA HandleKeeps ==
  ASSUME McpInv, Handle
  PROVE  McpInv'
BY ReceiveKeeps, ResolveKeeps, DispatchKeeps, OpenSessionKeeps, CallMethodKeeps, CloseEarlyKeeps
DEF Handle

-----------------------------------------------------------------------------
(* What every step of the events starts from. *)

LEMMA QueueIs ==
  ASSUME McpInv
  PROVE  /\ body \in BodyRecord /\ body.queue \in Seq(Event) /\ got \in Seq(Event)
         /\ Sent \in Seq(Event)
         /\ body.queue = <<>> => Sent = got
         /\ body.queue # <<>> => \E event \in Event : body.queue = <<event>>
<1>1. body \in BodyRecord /\ Len(body.queue) <= 1 /\ got \in Seq(Event)
  BY Typed DEF McpInv
<1>2. body.queue \in Seq(Event)
  BY <1>1 DEF BodyRecord
<1> DEFINE queue == body.queue
<1>3. got \o queue \in Seq(Event)
  BY <1>1, <1>2, ConcatProperties
<1>4. queue = <<>> => got \o queue = got
  BY <1>1, ConcatEmptySeq
<1>5. queue # <<>> => \E event \in Event : queue = <<event>>
  <2> SUFFICES ASSUME queue # <<>> PROVE \E event \in Event : queue = <<event>>
    OBVIOUS
  <2> HIDE DEF queue
  <2>1. queue \in Seq(Event) /\ Len(queue) <= 1
    BY <1>1, <1>2 DEF queue
  <2>2. Len(queue) = 1
    <3> DEFINE n == Len(queue)
    <3>1. n \in Nat \ {0} /\ n <= 1
      BY <2>1, EmptySeq
    <3> HIDE DEF n
    <3>2. n = 1
      BY <3>1
    <3> QED
      BY <3>2 DEF n
  <2>3. queue[1] \in Event
    BY <2>1, <2>2, ElementOfSeq
  <2>4. queue = <<queue[1]>>
    <3>1. <<queue[1]>> \in Seq(Event) /\ Len(<<queue[1]>>) = 1 /\ <<queue[1]>>[1] = queue[1]
      BY <2>3
    <3> DEFINE one == <<queue[1]>>
    <3>2. one \in Seq(Event) /\ Len(one) = 1 /\ one[1] = queue[1]
      BY <3>1
    <3> HIDE DEF one
    <3>3. \A i \in 1..Len(queue) : queue[i] = one[i]
      BY <2>2, <3>2
    <3>4. queue = one
      BY <2>1, <2>2, <3>2, <3>3, SeqEqual
    <3> QED
      BY <3>4 DEF one
  <2> QED
    BY <2>3, <2>4
<1> QED
  BY <1>1, <1>2, <1>3, <1>4, <1>5 DEF Sent

\* The events have begun when a read is out or the generator has moved.
LEMMA HasBegun ==
  ASSUME McpInv, read # "none" \/ gen # "reading" \/ body.queue # <<>>
  PROVE  at = "replied" /\ reply = "events"
BY DEF McpInv, HandlerIs, EventsAre, Streaming

\* A read settles while the generator waits for it, with nothing to be read.
LEMMA ReadingIs ==
  ASSUME McpInv, gen = "reading"
  PROVE  /\ logged = "none" /\ ~Exceeds(kept) /\ IsProgress(Sent)
         /\ body.queue = <<>> /\ Sent = got
         /\ read = "item" => made # <<>> /\ made = Append(kept.items, made[Len(made)])
         /\ read # "item" => made = kept.items
         /\ kept.telling /\ ~aborted => Len(got) = Len(kept.items)
         /\ aborted => body.state = "cancelled"
         /\ ~aborted => body.state = "open"
<1>1. /\ logged = "none" /\ ~Exceeds(kept) /\ IsProgress(Sent) /\ body.queue = <<>>
      /\ read = "item" => made # <<>> /\ made = Append(kept.items, made[Len(made)])
      /\ read # "item" => made = kept.items
      /\ kept.telling /\ ~aborted => Len(Sent) = Len(kept.items)
      /\ aborted <=> body.state = "cancelled"
      /\ body.state # "closed"
  BY DEF McpInv, ItemsAre, EventsAre, Telling
<1>2. Sent = got
  BY <1>1, QueueIs
<1>3. body.state \in {"open", "closed", "cancelled"}
  BY DEF McpInv, McpTypeOK
<1> QED
  BY <1>1, <1>2, <1>3

LEMMA SourceHandsKeeps ==
  ASSUME McpInv, NEW size \in Size, SourceHands(size)
  PROVE  McpInv'
<1>0. /\ read = "pending" /\ source = "live" /\ made' = Append(made, size) /\ read' = "item"
      /\ UNCHANGED <<request, at, reply, session, source, gen, kept, logged, body, aborted, got>>
  BY DEF SourceHands
<1>1. gen = "reading" /\ at = "replied" /\ reply = "events"
  BY <1>0, HasBegun DEF McpInv, ReadIs
<1>2. made \in Seq(Size) /\ made = kept.items /\ logged = "none" /\ ~Exceeds(kept)
  BY <1>0, <1>1, ReadingIs, Typed DEF McpInv
<1>3. /\ made' \in Seq(Size) /\ made' # <<>> /\ made'[Len(made')] = size
      /\ made' = Append(kept.items, made'[Len(made')])
  <2>1. /\ Append(made, size) \in Seq(Size) /\ Append(made, size) # <<>>
        /\ Len(Append(made, size)) = Len(made) + 1 /\ Append(made, size)[Len(made) + 1] = size
    BY <1>2, AppendProperties
  <2> QED
    BY <1>0, <1>2, <2>1
<1>4. McpTypeOK'
  BY <1>0, <1>3, Typed, TypedAgain DEF McpInv, McpTypeOK
<1>5. ReadIs' /\ ItemsAre'
  BY <1>0, <1>1, <1>2, <1>3 DEF ReadIs, ItemsAre, Telling, Exceeds
<1>6. EventsAre'
  BY <1>0, <1>1 DEF McpInv, EventsAre, IsProgress, Sent, Telling
<1> QED
  BY <1>0, <1>1, <1>4, <1>5, <1>6, StreamSteps DEF McpInv, Streaming

LEMMA SourceStopsKeeps ==
  ASSUME McpInv, SourceStops
  PROVE  McpInv'
<1>0. /\ read = "pending"
      /\ \/ source' = "ended" /\ read' = "done"
         \/ source' = "failed" /\ read' = "error"
      /\ UNCHANGED <<request, at, reply, session, made, gen, kept, logged, body, aborted, got>>
  BY DEF SourceStops
<1>1. gen = "reading" /\ at = "replied" /\ reply = "events"
  BY <1>0, HasBegun DEF McpInv, ReadIs
<1>2. made = kept.items /\ logged = "none" /\ ~Exceeds(kept)
  BY <1>0, <1>1, ReadingIs
<1>3. McpTypeOK'
  BY <1>0, Typed, TypedAgain DEF McpInv, McpTypeOK
<1>4. ReadIs' /\ ItemsAre'
  BY <1>0, <1>1, <1>2 DEF ReadIs, ItemsAre, Telling, Exceeds
<1>5. EventsAre'
  BY <1>0, <1>1 DEF McpInv, EventsAre, IsProgress, Sent, Telling
<1> QED
  BY <1>0, <1>1, <1>3, <1>4, <1>5, StreamSteps DEF McpInv, Streaming

\* What the client has read was sent before, and nothing else was.
LEMMA ClientReadsKeeps ==
  ASSUME McpInv, ClientReads
  PROVE  McpInv'
<1>0. /\ body.queue # <<>> /\ got' = got \o body.queue
      /\ body' = [body EXCEPT !.queue = <<>>]
      /\ UNCHANGED <<request, at, reply, session, made, source, read, gen, kept, logged, aborted>>
  BY DEF ClientReads
<1>1. at = "replied" /\ reply = "events"
  BY <1>0, HasBegun
<1>2. <<>> \in Seq(Event) /\ Len(<<>>) = 0
  BY EmptySeq
<1>3. body' \in BodyRecord /\ body'.queue = <<>> /\ body'.state = body.state
  BY <1>0, <1>2, QueueIs DEF BodyRecord
<1>4. got' \in Seq(Event) /\ Sent' = Sent
  <2>1. got' = Sent /\ Sent \in Seq(Event)
    BY <1>0, QueueIs DEF Sent
  <2>2. Sent' = got' \o <<>>
    BY <1>3 DEF Sent
  <2> QED
    BY <2>1, <2>2, ConcatEmptySeq
<1>5. McpTypeOK'
  BY <1>0, <1>2, <1>3, <1>4, Typed, TypedAgain DEF McpInv
<1>6. ReadIs' /\ ItemsAre'
  BY <1>0 DEF McpInv, ReadIs, ItemsAre, Telling, Exceeds
<1>7. EventsAre'
  BY <1>0, <1>3, <1>4 DEF McpInv, EventsAre, IsTold, IsProgress, Telling
<1> QED
  BY <1>0, <1>1, <1>3, <1>5, <1>6, <1>7, StreamSteps DEF Streaming

\* The events the client has read are the beginning of those that were sent.
LEMMA ReadSoFarIsTold ==
  ASSUME McpInv
  PROVE  /\ Telling => IsProgress(got)
         /\ ~Telling => IsTold(got)
<1>1. /\ Telling => IsProgress(Sent)
      /\ ~Telling => IsTold(Sent)
  BY DEF McpInv, EventsAre
<1>2. CASE body.queue = <<>>
  BY <1>1, <1>2, QueueIs
<1>3. CASE body.queue # <<>>
  <2>1. PICK event \in Event : body.queue = <<event>>
    BY <1>3, QueueIs
  <2> DEFINE last == <<event>>
             all == got \o last
  <2>2. got \in Seq(Event) /\ last \in Seq(Event) /\ Sent = all
    BY <2>1, QueueIs DEF Sent
  <2>3. IsProgress(all) => IsProgress(got)
    BY <2>2, ProgressSoFar
  <2>4. /\ Len(all) = Len(got) + 1 /\ Len(got) \in Nat /\ SubSeq(all, 1, Len(got)) = got
    BY <2>2, OneMore
  <2> HIDE DEF last, all
  <2>5. SubSeq(all, 1, Len(all) - 1) = got
    <3>1. Len(all) - 1 = Len(got)
      BY <2>4
    <3> QED
      BY <2>4, <3>1
  <2>6. Telling => IsProgress(got)
    BY <1>1, <2>2, <2>3
  <2>7. IsTold(all) => IsProgress(all) \/ IsProgress(SubSeq(all, 1, Len(all) - 1))
    BY DEF IsTold
  <2>8. ~Telling => IsProgress(got)
    BY <1>1, <2>2, <2>3, <2>5, <2>7
  <2> QED
    BY <2>6, <2>8 DEF IsTold
<1> QED
  BY <1>2, <1>3

\* A client that goes away has read the beginning of what it would have read.
LEMMA ClientCancelsKeeps ==
  ASSUME McpInv, ClientCancels
  PROVE  McpInv'
<1>0. /\ at = "replied" /\ reply = "events" /\ body.state = "open"
      /\ body' = [body EXCEPT !.state = "cancelled", !.queue = <<>>] /\ aborted' = TRUE
      /\ source' = Cancelled /\ read' = IF read = "pending" THEN "done" ELSE read
      /\ UNCHANGED <<request, at, reply, session, made, gen, kept, logged, got>>
  BY DEF ClientCancels, Abandons, Streaming
<1>1. source \in {"live", "ended", "failed", "cancelled"} /\ read \in {"none", "pending", "item", "done", "error"}
  BY Typed DEF McpInv
<1>2. /\ source' \in {"live", "ended", "failed", "cancelled"}
      /\ source = "ended" => source' = "ended"
      /\ read' \in {"none", "pending", "item", "done", "error"}
      /\ read' = "item" <=> read = "item"
      /\ read = "none" => read' = "none"
  BY <1>0, <1>1 DEF Cancelled
<1>3. <<>> \in Seq(Event) /\ Len(<<>>) = 0
  BY EmptySeq
<1>4. body' \in BodyRecord /\ body'.queue = <<>> /\ body'.state = "cancelled"
  <2>1. body \in BodyRecord
    BY DEF McpInv
  <2> QED
    BY <1>0, <1>3, <2>1 DEF BodyRecord
<1>5. Sent' = got
  <2>1. Sent' = got \o <<>> /\ got \in Seq(Event)
    BY <1>0, <1>4, QueueIs DEF Sent
  <2> QED
    BY <2>1, ConcatEmptySeq
<1>6. McpTypeOK'
  BY <1>0, <1>2, <1>3, <1>4, Typed, TypedAgain DEF McpInv
<1>7. ReadIs'
  BY <1>0, <1>2 DEF McpInv, ReadIs, Telling
<1>8. ItemsAre'
  BY <1>0, <1>2 DEF McpInv, ItemsAre, Telling, Exceeds
<1>9. EventsAre'
  <2>1. /\ Telling => IsProgress(got)
        /\ ~Telling => IsTold(got)
    BY ReadSoFarIsTold
  <2>2. (IsTold(got) => IsTold(Sent)') /\ (IsProgress(got) => IsProgress(Sent)')
    BY <1>0, <1>5 DEF IsTold, IsProgress
  <2> QED
    BY <1>0, <1>4, <2>1, <2>2 DEF EventsAre, Telling
<1> QED
  BY <1>0, <1>4, <1>6, <1>7, <1>8, <1>9, StreamSteps DEF Streaming

-----------------------------------------------------------------------------
(* The generator. *)

\* What a yield hands to the body, which waits for it or has dropped it.
LEMMA YieldIs ==
  ASSUME McpInv, NEW event \in Event, NEW next, Resumes, Yields(event, next),
         UNCHANGED <<aborted, got>>
  PROVE  /\ body' \in BodyRecord /\ Len(body'.queue) <= 1 /\ body'.state = body.state
         /\ read' = "none" /\ gen' = next /\ UNCHANGED source
         /\ got \in Seq(Event) /\ IsProgress(got)
         /\ ~aborted => body.state = "open" /\ Sent' = got \o <<event>>
         /\ aborted => body.state = "cancelled" /\ body'.queue = <<>> /\ Sent' = got
<1>1. /\ gen' = next /\ read' = "none" /\ UNCHANGED source /\ gen = "reading"
      /\ body' = [body EXCEPT !.pulling = FALSE,
                              !.queue = IF body.state = "open" THEN <<event>> ELSE <<>>]
  BY DEF Yields, Resumes
<1>2. /\ IsProgress(got) /\ got \in Seq(Event) /\ body \in BodyRecord
      /\ aborted => body.state = "cancelled"
      /\ ~aborted => body.state = "open"
  BY <1>1, ReadingIs, QueueIs
<1> DEFINE queue == IF body.state = "open" THEN <<event>> ELSE <<>>
<1>3. queue \in Seq(Event) /\ Len(queue) <= 1
  BY EmptySeq
<1>4. /\ ~aborted => queue = <<event>>
      /\ aborted => queue = <<>> /\ got \o queue = got
  BY <1>2, ConcatEmptySeq
<1>5. body' = [body EXCEPT !.pulling = FALSE, !.queue = queue]
  BY <1>1
<1> HIDE DEF queue
<1>6. body' \in BodyRecord /\ body'.queue = queue /\ body'.state = body.state
  BY <1>2, <1>3, <1>5 DEF BodyRecord
<1>7. Sent' = got \o queue
  BY <1>6 DEF Sent
<1> QED
  BY <1>1, <1>2, <1>3, <1>4, <1>6, <1>7

\* The response is told after the progress of the items, or to nobody.
LEMMA AnswerIsTold ==
  ASSUME McpInv, Resumes, NEW event \in Event, event.kind \in {"error", "result"},
         Yields(event, "answered"), UNCHANGED <<aborted, got, made>>,
         logged' = (IF event.kind = "result" THEN "completed" ELSE "failed"),
         event.kind = "result" => event.items = made
  PROVE  EventsAre' /\ ReadIs' /\ body' \in BodyRecord /\ Len(body'.queue) <= 1 /\ ~Telling'
<1>1. /\ body' \in BodyRecord /\ Len(body'.queue) <= 1 /\ body'.state = body.state
      /\ read' = "none" /\ gen' = "answered" /\ UNCHANGED source
      /\ got \in Seq(Event) /\ IsProgress(got)
      /\ ~aborted => body.state = "open" /\ Sent' = got \o <<event>>
      /\ aborted => body.state = "cancelled" /\ body'.queue = <<>> /\ Sent' = got
  BY YieldIs
<1>2. ReadIs' /\ ~Telling'
  BY <1>1 DEF ReadIs, Telling
<1>3. CASE aborted
  <2>1. IsTold(Sent)'
    BY <1>1, <1>3 DEF IsTold, IsProgress
  <2> QED
    BY <1>1, <1>2, <1>3, <2>1 DEF EventsAre
<1>4. CASE ~aborted
  <2> DEFINE all == got \o <<event>>
  <2>1. Sent' = all
    BY <1>1, <1>4
  <2>2. /\ all \in Seq(Event) /\ Len(all) = Len(got) + 1 /\ Len(got) \in Nat /\ all # <<>>
        /\ all[Len(got) + 1] = event /\ SubSeq(all, 1, Len(got)) = got
    BY <1>1, OneMore
  <2>3. ~IsProgress(all)
    <3>1. event # [kind |-> "progress", of |-> Len(got) + 1]
      OBVIOUS
    <3> QED
      BY <1>1, <3>1, ProgressGoesOn
  <2> HIDE DEF all
  <2>4. SubSeq(all, 1, Len(all) - 1) = got /\ all[Len(all)] = event
    <3>1. Len(all) - 1 = Len(got) /\ Len(all) = Len(got) + 1
      BY <2>2
    <3> QED
      BY <2>2, <3>1
  <2>5. IsTold(Sent)' /\ ~IsProgress(Sent)'
    <3>1. IsProgress(SubSeq(all, 1, Len(all) - 1))
      BY <1>1, <2>4
    <3> QED
      BY <2>1, <2>2, <2>3, <2>4, <3>1 DEF IsTold, IsProgress
  <2> QED
    BY <1>1, <1>2, <1>4, <2>5 DEF EventsAre
<1> QED
  BY <1>1, <1>2, <1>3, <1>4

LEMMA ErrorIsEvent == [kind |-> "error"] \in Event /\ [kind |-> "error"].kind = "error"
BY DEF Event

LEMMA ReadFailsKeeps ==
  ASSUME McpInv, Resumes, ReadFails, UNCHANGED <<request, at, reply, session, made, aborted, got>>
  PROVE  McpInv'
<1>1. /\ logged' = "failed" /\ Yields([kind |-> "error"], "answered") /\ UNCHANGED kept
      /\ gen' = "answered" /\ read' = "none" /\ UNCHANGED source
  BY DEF ReadFails, Yields
<1>2. at = "replied" /\ reply = "events"
  BY HasBegun DEF Resumes
<1>3. EventsAre' /\ ReadIs' /\ body' \in BodyRecord /\ Len(body'.queue) <= 1 /\ ~Telling'
  BY <1>1, ErrorIsEvent, AnswerIsTold
<1>4. McpTypeOK'
  BY <1>1, <1>3, Typed, TypedAgain DEF McpInv, Outcome
<1>5. ItemsAre'
  BY <1>1, <1>3 DEF ItemsAre
<1> QED
  BY <1>2, <1>3, <1>4, <1>5, StreamSteps DEF Streaming

\* Delivery was abandoned: whatever the read gave, the call did not complete.
LEMMA ReadIsAbortedKeeps ==
  ASSUME McpInv, Resumes, aborted, ReadIsAborted,
         UNCHANGED <<request, at, reply, session, made, aborted, got>>
  PROVE  McpInv'
<1>1. /\ logged' = "failed" /\ gen' = "disposing" /\ read' = "none" /\ source' = Cancelled
      /\ UNCHANGED <<kept, body>> /\ gen = "reading"
  BY DEF ReadIsAborted, Finally, Resumes
<1>2. at = "replied" /\ reply = "events"
  BY HasBegun DEF Resumes
<1>3. IsProgress(Sent) /\ body.state = "cancelled" /\ body.queue = <<>>
  BY <1>1, ReadingIs
<1>4. source' \in {"live", "ended", "failed", "cancelled"} /\ body \in BodyRecord
  BY <1>1, Typed DEF Cancelled, McpInv
<1>5. McpTypeOK'
  BY <1>1, <1>4, Typed, TypedAgain DEF McpInv, McpTypeOK, Outcome
<1>6. ReadIs' /\ ItemsAre'
  BY <1>1 DEF ReadIs, ItemsAre, Telling
<1>7. IsProgress(Sent)'
  BY <1>1, <1>3 DEF IsProgress, Sent
<1>8. EventsAre'
  BY <1>1, <1>3, <1>7 DEF EventsAre, IsTold, Telling
<1> QED
  BY <1>1, <1>2, <1>4, <1>5, <1>6, <1>8, StreamSteps DEF Streaming

\* The tool's stream came to its own end: the result holds every item of it.
LEMMA ReadIsDoneKeeps ==
  ASSUME McpInv, Resumes, read = "done", ~aborted, ReadIsDone,
         UNCHANGED <<request, at, reply, session, made, aborted, got>>
  PROVE  McpInv'
<1> DEFINE event == [kind |-> "result", items |-> kept.items]
<1>1. /\ logged' = "completed" /\ Yields(event, "answered") /\ UNCHANGED kept
      /\ gen' = "answered" /\ read' = "none" /\ UNCHANGED source /\ gen = "reading"
  BY DEF ReadIsDone, Yields, Resumes
<1>2. at = "replied" /\ reply = "events"
  BY HasBegun DEF Resumes
<1>3. made = kept.items /\ ~Exceeds(kept) /\ source = "ended"
  BY <1>1, ReadingIs DEF McpInv, ReadIs, Telling
<1>4. event \in Event /\ event.kind = "result" /\ event.items = made
  <2>1. kept.items \in Seq(Size)
    BY Typed DEF McpInv, KeptRecord
  <2> QED
    BY <1>3, <2>1 DEF Event
<1> HIDE DEF event
<1>5. EventsAre' /\ ReadIs' /\ body' \in BodyRecord /\ Len(body'.queue) <= 1 /\ ~Telling'
  BY <1>1, <1>4, AnswerIsTold
<1>6. McpTypeOK'
  BY <1>1, <1>5, Typed, TypedAgain DEF McpInv, Outcome
<1>7. ItemsAre'
  BY <1>1, <1>3, <1>5 DEF ItemsAre, Exceeds
<1> QED
  BY <1>2, <1>5, <1>6, <1>7, StreamSteps DEF Streaming

\* The item that was read is the next to be kept.
LEMMA AggregatedIs ==
  ASSUME McpInv, Resumes, read = "item"
  PROVE  /\ Aggregated \in KeptRecord /\ Aggregated.items = made
         /\ Aggregated.progress = kept.progress /\ Aggregated.telling = kept.telling
         /\ Len(made) = Len(kept.items) + 1 /\ Len(kept.items) \in Nat /\ Len(made) \in Nat
<1>1. /\ made # <<>> /\ made = Append(kept.items, made[Len(made)]) /\ made \in Seq(Size)
      /\ kept \in KeptRecord
  BY ReadingIs, Typed DEF Resumes, McpInv
<1>2. kept.items \in Seq(Size) /\ kept.bytes \in Nat /\ kept.progress \in 0..MaxBytes /\ kept.telling \in BOOLEAN
  BY <1>1 DEF KeptRecord
<1> DEFINE last == made[Len(made)]
<1>3. last \in Size /\ last \in Nat
  <2>1. Len(made) \in Nat \ {0}
    BY <1>1, EmptySeq
  <2>2. Len(made) \in 1..Len(made)
    BY <2>1
  <2>3. made[Len(made)] \in Size
    BY <1>1, <2>2, ElementOfSeq
  <2> QED
    BY <2>3, Numbers
<1>4. made = Append(kept.items, last)
  BY <1>1
<1>5. Aggregated = [kept EXCEPT !.items = Append(kept.items, last), !.bytes = kept.bytes + last]
  BY <1>1 DEF Aggregated, KeptRecord
<1> HIDE DEF last
<1>6. /\ Append(kept.items, last) \in Seq(Size)
      /\ Len(Append(kept.items, last)) = Len(kept.items) + 1
      /\ Len(kept.items) \in Nat
  BY <1>2, <1>3, AppendProperties, LenProperties
<1>7. Len(made) = Len(kept.items) + 1 /\ Len(made) \in Nat
  BY <1>4, <1>6
<1>8. kept.bytes + last \in Nat
  BY <1>2, <1>3
<1> DEFINE items == Append(kept.items, last)
           bytes == kept.bytes + last
<1>9. items \in Seq(Size) /\ bytes \in Nat /\ items = made
      /\ Aggregated = [kept EXCEPT !.items = items, !.bytes = bytes]
  BY <1>4, <1>5, <1>6, <1>8
<1> HIDE DEF items, bytes
<1> QED
  BY <1>1, <1>6, <1>7, <1>9 DEF KeptRecord

\* The item is kept, and what was aggregated is too much, is told, or is not.
LEMMA ReadGivesItemKeeps ==
  ASSUME McpInv, Resumes, read = "item", ~aborted, ReadGivesItem,
         UNCHANGED <<request, at, reply, session, made, aborted, got>>
  PROVE  McpInv'
<1>1. /\ Aggregated \in KeptRecord /\ Aggregated.items = made
      /\ Aggregated.progress = kept.progress /\ Aggregated.telling = kept.telling
      /\ Len(made) = Len(kept.items) + 1 /\ Len(kept.items) \in Nat /\ Len(made) \in Nat
  BY AggregatedIs
<1>2. at = "replied" /\ reply = "events" /\ gen = "reading"
  BY HasBegun DEF Resumes
<1>3. /\ logged = "none" /\ source = "live" /\ body.state = "open" /\ body.queue = <<>>
      /\ Sent = got /\ IsProgress(got)
      /\ kept.telling => Len(got) = Len(kept.items)
  BY <1>2, ReadingIs DEF McpInv, ReadIs, Telling
<1>4. CASE /\ Exceeds(Aggregated) /\ logged' = "failed" /\ kept' = Aggregated
           /\ Yields([kind |-> "error"], "answered")
  <2>1. UNCHANGED source /\ read' = "none"
    BY <1>4 DEF Yields
  <2>2. EventsAre' /\ ReadIs' /\ body' \in BodyRecord /\ Len(body'.queue) <= 1 /\ ~Telling'
    BY <1>4, ErrorIsEvent, AnswerIsTold
  <2>3. gen' = "answered"
    BY <1>4 DEF Yields
  <2>4. McpTypeOK'
    BY <1>1, <1>4, <2>1, <2>2, <2>3, Typed, TypedAgain DEF McpInv, Outcome
  <2>5. ItemsAre'
    BY <1>4, <2>2 DEF ItemsAre
  <2> QED
    BY <1>2, <2>2, <2>4, <2>5, StreamSteps DEF Streaming
<1>5. CASE /\ ~Exceeds(Aggregated) /\ UNCHANGED logged
           /\ kept.telling /\ kept.progress + ProgressBytes <= MaxBytes
           /\ kept' = [Aggregated EXCEPT !.progress = @ + ProgressBytes]
           /\ Yields([kind |-> "progress", of |-> Len(kept'.items)], "yielded")
  <2> DEFINE told == Aggregated.progress + ProgressBytes
  <2>1. told \in 0..MaxBytes
    <3>1. kept.progress \in 0..MaxBytes
      BY Typed DEF McpInv, KeptRecord
    <3> QED
      BY <1>1, <1>5, <3>1, Numbers
  <2>2. kept' = [Aggregated EXCEPT !.progress = told]
    BY <1>1, <1>5 DEF KeptRecord
  <2> HIDE DEF told
  <2>3. /\ kept' \in KeptRecord /\ kept'.items = made
        /\ kept'.items = Aggregated.items /\ kept'.bytes = Aggregated.bytes
    BY <1>1, <2>1, <2>2 DEF KeptRecord
  <2> DEFINE event == [kind |-> "progress", of |-> Len(made)]
  <2>4. event \in Event
    BY <1>1 DEF Event
  <2>5. Yields(event, "yielded") /\ event = [kind |-> "progress", of |-> Len(made)]
    BY <1>5, <2>3
  <2> HIDE DEF event
  <2>6. /\ body' \in BodyRecord /\ Len(body'.queue) <= 1 /\ body'.state = body.state
        /\ read' = "none" /\ gen' = "yielded" /\ UNCHANGED source
        /\ got \in Seq(Event) /\ Sent' = got \o <<event>>
    BY <2>4, <2>5, YieldIs
  <2>7. McpTypeOK'
    BY <1>5, <2>3, <2>6, Typed, TypedAgain DEF McpInv
  <2>8. ReadIs' /\ Telling'
    BY <1>3, <2>6 DEF ReadIs, Telling
  <2>9. ItemsAre'
    <3>1. ~Exceeds(kept)'
      <4>1. ~(Len(Aggregated.items) > MaxItems \/ Aggregated.bytes > MaxBytes)
        BY <1>5 DEF Exceeds
      <4>2. ~(Len(kept'.items) > MaxItems \/ kept'.bytes > MaxBytes)
        BY <4>1, <2>3
      <4> QED
        BY <4>2 DEF Exceeds
    <3> QED
      BY <1>3, <1>5, <2>3, <2>6, <3>1 DEF ItemsAre
  <2>10. EventsAre'
    <3>1. Len(got) = Len(kept.items)
      BY <1>3, <1>5
    <3> DEFINE all == got \o <<event>>
    <3>2. Len(all) = Len(made) /\ IsProgress(all)
      <4>1. Len(all) = Len(got) + 1
        BY <2>4, <2>6, OneMore
      <4>2. event = [kind |-> "progress", of |-> Len(got) + 1]
        <5>1. Len(made) = Len(got) + 1
          BY <1>1, <3>1
        <5> QED
          BY <2>5, <5>1
      <4>3. IsProgress(all)
        BY <1>3, <2>4, <2>6, <4>2, ProgressGoesOn
      <4> QED
        BY <1>1, <3>1, <4>1, <4>3
    <3> HIDE DEF all
    <3>3. Sent' = all
      BY <2>6 DEF all
    <3>4. IsProgress(Sent)' /\ Len(Sent') = Len(kept'.items)
      BY <2>3, <3>2, <3>3 DEF IsProgress
    <3> QED
      BY <1>3, <2>6, <2>8, <3>4 DEF EventsAre
  <2> QED
    BY <1>2, <2>6, <2>7, <2>8, <2>9, <2>10, StreamSteps DEF Streaming
<1>6. CASE /\ ~Exceeds(Aggregated) /\ UNCHANGED logged
           /\ kept' = [Aggregated EXCEPT !.telling = FALSE] /\ Loops
  <2>1. gen' = "reading" /\ read' = "pending" /\ UNCHANGED <<source, body>>
    BY <1>6 DEF Loops
  <2>2. /\ kept' \in KeptRecord /\ kept'.items = made /\ ~kept'.telling
        /\ kept'.items = Aggregated.items /\ kept'.bytes = Aggregated.bytes
    BY <1>1, <1>6 DEF KeptRecord
  <2>3. body \in BodyRecord
    BY DEF McpInv
  <2>4. McpTypeOK'
    BY <1>6, <2>1, <2>2, <2>3, Typed, TypedAgain DEF McpInv, McpTypeOK
  <2>5. ReadIs' /\ Telling'
    BY <1>3, <2>1 DEF ReadIs, Telling
  <2>6. ItemsAre'
    <3>1. ~Exceeds(kept)'
      <4>1. ~(Len(Aggregated.items) > MaxItems \/ Aggregated.bytes > MaxBytes)
        BY <1>6 DEF Exceeds
      <4>2. ~(Len(kept'.items) > MaxItems \/ kept'.bytes > MaxBytes)
        BY <4>1, <2>2
      <4> QED
        BY <4>2 DEF Exceeds
    <3> QED
      BY <1>3, <1>6, <2>1, <2>2, <3>1 DEF ItemsAre
  <2>7. EventsAre'
    <3>1. IsProgress(Sent)'
      BY <1>3, <2>1 DEF IsProgress, Sent
    <3> QED
      BY <1>3, <2>1, <2>2, <2>5, <3>1 DEF EventsAre
  <2> QED
    BY <1>2, <2>1, <2>3, <2>4, <2>5, <2>6, <2>7, StreamSteps DEF Streaming
<1> QED
  BY <1>4, <1>5, <1>6 DEF ReadGivesItem

LEMMA ReadSettlesKeeps ==
  ASSUME McpInv, ReadSettles
  PROVE  McpInv'
<1>1. /\ Resumes /\ read \in {"item", "done", "error"} /\ aborted \in BOOLEAN
      /\ UNCHANGED <<request, at, reply, session, made, aborted, got>>
  BY Typed DEF ReadSettles, Resumes, McpInv
<1>2. \/ ReadFails
      \/ aborted /\ ReadIsAborted
      \/ read = "done" /\ ~aborted /\ ReadIsDone
      \/ read = "item" /\ ~aborted /\ ReadGivesItem
  BY <1>1 DEF ReadSettles
<1> QED
  BY <1>1, <1>2, ReadFailsKeeps, ReadIsAbortedKeeps, ReadIsDoneKeeps, ReadGivesItemKeeps

\* The finally block says nothing, and what was said stands.
LEMMA FinallyIs ==
  ASSUME McpInv, gen \in {"yielded", "answered"}, Finally
  PROVE  /\ gen' = "disposing" /\ read' = "none" /\ ~Telling' /\ ReadIs'
         /\ source' \in {"live", "ended", "failed", "cancelled"}
         /\ UNCHANGED <<made, kept, logged>> => ItemsAre'
         /\ UNCHANGED <<made, logged, got>> /\ body'.queue = body.queue => IsTold(Sent)'
<1>1. /\ gen' = "disposing" /\ read' = "none"
      /\ source' = IF source = "live" THEN "cancelled" ELSE source
  BY DEF Finally, Cancelled
<1>2. source \in {"live", "ended", "failed", "cancelled"}
  BY Typed DEF McpInv
<1>3. ~Telling' /\ ReadIs'
  BY <1>1 DEF Telling, ReadIs
<1>4. UNCHANGED <<made, kept, logged>> => ItemsAre'
  BY <1>1, <1>3 DEF McpInv, ItemsAre, Exceeds
<1>5. IsTold(Sent)
  BY DEF McpInv, EventsAre, IsTold
<1>6. UNCHANGED <<made, logged, got>> /\ body'.queue = body.queue => IsTold(Sent)'
  BY <1>5 DEF IsTold, IsProgress, Sent
<1> QED
  BY <1>1, <1>2, <1>3, <1>4, <1>6

LEMMA PullKeeps ==
  ASSUME McpInv, Pull
  PROVE  McpInv'
<1>0. /\ body.state = "open" /\ body.queue = <<>> /\ gen \in {"yielded", "answered"}
      /\ body' = [body EXCEPT !.pulling = TRUE]
      /\ UNCHANGED <<request, at, reply, session, made, kept, logged, aborted, got>>
  BY DEF Pull
<1>1. at = "replied" /\ reply = "events"
  BY <1>0, HasBegun
<1>2. /\ body' \in BodyRecord /\ body'.queue = body.queue /\ body'.state = body.state
      /\ Len(body.queue) <= 1
  BY <1>0 DEF McpInv, McpTypeOK, BodyRecord
<1>3. CASE gen = "answered" /\ Finally
  <2>1. /\ gen' = "disposing" /\ read' = "none" /\ ~Telling' /\ ReadIs' /\ ItemsAre'
        /\ source' \in {"live", "ended", "failed", "cancelled"} /\ IsTold(Sent)'
    BY <1>0, <1>2, <1>3, FinallyIs
  <2>2. McpTypeOK'
    BY <1>0, <1>2, <2>1, Typed, TypedAgain DEF McpInv
  <2>3. ~IsProgress(Sent) /\ (aborted <=> body.state = "cancelled")
    BY <1>0, <1>3 DEF McpInv, EventsAre
  <2>4. ~IsProgress(Sent)'
    BY <1>0, <1>2, <2>3 DEF IsProgress, Sent
  <2>5. EventsAre'
    BY <1>0, <1>2, <2>1, <2>3, <2>4 DEF EventsAre
  <2> QED
    BY <1>0, <1>1, <1>2, <2>1, <2>2, <2>5, StreamSteps DEF Streaming
<1>4. CASE gen = "yielded" /\ gen' = "reading" /\ read' = "pending" /\ UNCHANGED source
  <2>1. McpTypeOK'
    BY <1>0, <1>2, <1>4, Typed, TypedAgain DEF McpInv
  <2>2. read = "none"
    BY <1>4 DEF McpInv, ReadIs
  <2>3. ReadIs' /\ ItemsAre'
    BY <1>0, <1>4, <2>2 DEF McpInv, ReadIs, ItemsAre, Telling, Exceeds
  <2>4. EventsAre'
    <3>1. /\ aborted <=> body.state = "cancelled"
          /\ IsProgress(Sent)
          /\ kept.telling /\ ~aborted => Len(Sent) = Len(kept.items)
      BY <1>4 DEF McpInv, EventsAre, Telling
    <3>2. Sent' = Sent
      BY <1>0, <1>2 DEF Sent
    <3>3. IsProgress(Sent)'
      BY <3>1, <3>2 DEF IsProgress
    <3> QED
      BY <1>0, <1>2, <1>4, <3>1, <3>2, <3>3 DEF EventsAre, Telling
  <2> QED
    BY <1>0, <1>1, <1>2, <2>1, <2>3, <2>4, StreamSteps DEF Streaming
<1> QED
  BY <1>0, <1>3, <1>4 DEF Pull

LEMMA ReturnKeeps ==
  ASSUME McpInv, Return
  PROVE  McpInv'
<1>0. /\ aborted /\ gen \in {"yielded", "answered"} /\ Finally
      /\ UNCHANGED <<request, at, reply, session, made, kept, logged, body, aborted, got>>
  BY DEF Return
<1>1. at = "replied" /\ reply = "events"
  BY <1>0, HasBegun
<1>2. body \in BodyRecord /\ Len(body.queue) <= 1 /\ body.state = "cancelled" /\ body.queue = <<>>
  BY <1>0 DEF McpInv, McpTypeOK, EventsAre
<1>3. /\ gen' = "disposing" /\ read' = "none" /\ ~Telling' /\ ReadIs' /\ ItemsAre'
      /\ source' \in {"live", "ended", "failed", "cancelled"} /\ IsTold(Sent)'
  BY <1>0, FinallyIs
<1>4. McpTypeOK'
  BY <1>0, <1>2, <1>3, Typed, TypedAgain DEF McpInv
<1>5. EventsAre'
  BY <1>0, <1>2, <1>3 DEF EventsAre
<1> QED
  BY <1>0, <1>1, <1>2, <1>3, <1>4, <1>5, StreamSteps DEF Streaming

LEMMA DisposeKeeps ==
  ASSUME McpInv, Dispose
  PROVE  McpInv'
<1>0. /\ gen = "disposing" /\ gen' = "done" /\ session' = "closed"
      /\ body' = [body EXCEPT !.pulling = FALSE, !.state = IF @ = "open" THEN "closed" ELSE @]
      /\ UNCHANGED <<request, at, reply, made, source, read, kept, logged, aborted, got>>
  BY DEF Dispose
<1>1. at = "replied" /\ reply = "events"
  BY <1>0, HasBegun
<1>2. body \in BodyRecord /\ body.queue = <<>> /\ Len(body.queue) <= 1 /\ read = "none"
  BY <1>0 DEF McpInv, McpTypeOK, ReadIs, EventsAre
<1> DEFINE state == IF body.state = "open" THEN "closed" ELSE body.state
<1>3. /\ body' = [body EXCEPT !.pulling = FALSE, !.state = state]
      /\ state \in {"open", "closed", "cancelled"}
      /\ state = "cancelled" <=> body.state = "cancelled"
  BY <1>0, <1>2 DEF BodyRecord
<1> HIDE DEF state
<1>4. body' \in BodyRecord /\ body'.queue = <<>> /\ body'.queue = body.queue /\ body'.state = state
  BY <1>2, <1>3 DEF BodyRecord
<1>5. McpTypeOK'
  BY <1>0, <1>2, <1>4, Typed, TypedAgain DEF McpInv
<1>6. ReadIs' /\ ItemsAre'
  BY <1>0, <1>2 DEF McpInv, ReadIs, ItemsAre, Telling, Exceeds
<1>7. EventsAre'
  <2>1. /\ IsTold(Sent) /\ (aborted <=> body.state = "cancelled")
        /\ body.state = "open" => ~IsProgress(Sent)
        /\ body.state # "closed"
    BY <1>0 DEF McpInv, EventsAre, Telling
  <2>2. Sent' = Sent
    BY <1>0, <1>4 DEF Sent
  <2>3. IsTold(Sent)' /\ (body.state = "open" => ~IsProgress(Sent)')
    BY <1>0, <2>1, <2>2 DEF IsTold, IsProgress
  <2>4. state = "closed" => body.state = "open"
    BY <2>1 DEF state
  <2> QED
    BY <1>0, <1>3, <1>4, <2>1, <2>3, <2>4 DEF EventsAre, Telling
<1> QED
  BY <1>0, <1>1, <1>4, <1>5, <1>6, <1>7, StreamSteps DEF Streaming

-----------------------------------------------------------------------------

LEMMA NextKeeps ==
  ASSUME McpInv, [McpNext]_vars
  PROVE  McpInv'
<1>1. CASE UNCHANGED vars
  <2>1. UNCHANGED <<request, at, reply, session>> /\ UNCHANGED stream
    BY <1>1 DEF vars
  <2>2. HandlerIs'
    BY <2>1 DEF McpInv, HandlerIs, Streaming, stream
  <2> QED
    BY <2>1, <2>2, Typed, HandlerSteps DEF McpInv
<1>2. CASE McpNext
  BY <1>2, HandleKeeps, ReadSettlesKeeps, PullKeeps, ReturnKeeps, DisposeKeeps,
     ClientReadsKeeps, ClientCancelsKeeps, SourceStopsKeeps, SourceHandsKeeps
  DEF McpNext, Generate
<1> QED
  BY <1>1, <1>2

LEMMA McpInvariance == McpSpec => []McpInv
<1>1. McpInit => McpInv
  BY InitMcp
<1>2. McpInv /\ [McpNext]_vars => McpInv'
  BY NextKeeps
<1> QED
  BY <1>1, <1>2, PTL DEF McpSpec

\* When the body is closed, the client has read all that was sent.
LEMMA McpInvIsTrue == McpInv => AnswerIsTrue
<1> SUFFICES ASSUME McpInv PROVE AnswerIsTrue
  OBVIOUS
<1>1. /\ McpTypeOK
      /\ logged = "completed" => source = "ended" /\ kept.items = made /\ ~Exceeds(kept)
  BY DEF McpInv, ItemsAre
<1>2. IsTold(Sent)
  BY DEF McpInv, EventsAre, IsTold
<1>3. body.state = "closed" => ~IsProgress(got)
  <2> SUFFICES ASSUME body.state = "closed" PROVE ~IsProgress(got)
    OBVIOUS
  <2>1. body.queue = <<>> /\ ~IsProgress(Sent)
    BY DEF McpInv, EventsAre
  <2> QED
    BY <2>1, QueueIs
<1>4. at = "replied" =>
        /\ reply \in {"result", "tool-error", "protocol-error"} => session # "open"
        /\ reply \in {"bad-request", "accepted", "forbidden", "not-allowed", "not-found",
                      "unauthorized", "not-acceptable", "server-error"} => session = "none"
  BY DEF McpInv, HandlerIs
<1> QED
  BY <1>1, <1>2, <1>3, <1>4 DEF AnswerIsTrue, IsTold

\* For every size of items and every limit: a call is logged as completed only
\* when the tool's stream ended by itself and every item of it is in the
\* result, the client is told progress without a gap and then one response at
\* most, and an answer that refuses the request leaves no session behind
\* (streamToolCall and streamToolEvents in mcp.ts).
THEOREM AnswersAreTrue == McpSpec => []AnswerIsTrue
BY McpInvariance, McpInvIsTrue, PTL

-----------------------------------------------------------------------------
(* An open session has a step ahead that can close it. *)

RunsOn ==
  /\ aborted => Streaming
  /\ Streaming /\ gen = "reading" => read # "none" /\ (aborted => read # "pending")
  /\ gen \in {"yielded", "answered"} => ~body.pulling
  /\ gen = "done" => session = "closed"

LEMMA HandleRunsOn ==
  ASSUME McpInv, RunsOn, Handle
  PROVE  RunsOn'
<1>1. ~Streaming
  BY DEF Handle, Receive, Resolve, Dispatch, OpenSession, CallMethod, CloseEarly, Streaming
<1>2. gen = "reading" /\ ~aborted
  BY <1>1 DEF McpInv, HandlerIs, RunsOn
<1>3. UNCHANGED <<gen, aborted>>
  BY DEF Handle, Receive, Resolve, Dispatch, OpenSession, CallMethod, CloseEarly, stream
<1>4. Streaming' => read' = "pending"
  <2>1. CASE CallMethod
    BY <2>1 DEF CallMethod, Streaming, Replies
  <2>2. CASE Receive \/ Resolve
    <3>1. request.transport \in Transport
      BY Typed DEF McpInv, Request
    <3>2. \/ at' \in {"resolving", "dispatching"}
          \/ reply' \in {"bad-request", "forbidden", "not-allowed", "not-found", "unauthorized",
                        "server-error"}
      BY <2>2, <3>1 DEF Receive, Resolve, Replies, Transport
    <3> QED
      BY <3>2 DEF Streaming
  <2>3. CASE Dispatch
    <3>1. request.message \in Message
      BY Typed DEF McpInv, Request
    <3>2. at' = "opening" \/ reply' \in {"not-acceptable", "protocol-error", "result",
                                         "server-error", "bad-request", "accepted"}
      BY <2>3, <3>1 DEF Dispatch, Replies, Message, Answer
    <3> QED
      BY <3>2 DEF Streaming
  <2>4. CASE OpenSession
    <3>1. at' = "calling" \/ reply' \in {"protocol-error", "tool-error"}
      BY <2>4 DEF OpenSession, Replies, Failures
    <3> QED
      BY <3>1 DEF Streaming
  <2>5. CASE CloseEarly
    BY <2>5 DEF CloseEarly, Streaming, Replies, McpInv, HandlerIs
  <2> QED
    BY <2>1, <2>2, <2>3, <2>4, <2>5 DEF Handle
<1> QED
  BY <1>2, <1>3, <1>4 DEF RunsOn

LEMMA GenerateRunsOn ==
  ASSUME McpInv, RunsOn, Generate
  PROVE  RunsOn'
<1>0. body \in BodyRecord /\ UNCHANGED <<at, reply, aborted>>
  BY DEF McpInv, Generate, ReadSettles, Pull, Return, Dispose
<1>1. aborted' => Streaming'
  BY <1>0 DEF RunsOn, Streaming
<1>2. CASE ReadSettles
  <2>1. \/ gen' \in {"yielded", "answered"} /\ body'.pulling = FALSE
        \/ gen' = "reading" /\ read' = "pending" /\ ~aborted
        \/ gen' = "disposing"
    <3>1. CASE read = "error"
      BY <1>0, <1>2, <3>1 DEF ReadSettles, ReadFails, Yields, BodyRecord
    <3>2. CASE read # "error" /\ aborted
      BY <1>2, <3>2 DEF ReadSettles, ReadIsAborted, Finally
    <3>3. CASE read = "done" /\ ~aborted
      BY <1>0, <1>2, <3>3 DEF ReadSettles, ReadIsDone, Yields, BodyRecord
    <3>4. CASE read = "item" /\ ~aborted
      <4>1. ReadGivesItem
        BY <1>2, <3>4 DEF ReadSettles
      <4>2. \/ gen' \in {"yielded", "answered"} /\ body' = [body EXCEPT !.pulling = FALSE,
                                                                      !.queue = body'.queue]
            \/ Loops
        <5>1. ASSUME NEW event, NEW next \in {"yielded", "answered"}, Yields(event, next)
              PROVE  gen' = next /\ body' = [body EXCEPT !.pulling = FALSE, !.queue = body'.queue]
          BY <1>0, <5>1 DEF Yields, BodyRecord
        <5> QED
          BY <4>1, <5>1 DEF ReadGivesItem
      <4> QED
        BY <1>0, <3>4, <4>2 DEF Loops, BodyRecord
    <3> QED
      BY <1>2, <3>1, <3>2, <3>3, <3>4, Typed DEF McpInv, ReadSettles, Resumes
  <2> QED
    BY <1>0, <1>1, <2>1 DEF RunsOn
<1>3. CASE Pull
  <2>1. ~aborted
    BY <1>3 DEF Pull, McpInv, EventsAre
  <2>2. gen' = "disposing" \/ (gen' = "reading" /\ read' = "pending")
    BY <1>3 DEF Pull, Finally
  <2> QED
    BY <1>0, <1>1, <2>1, <2>2 DEF RunsOn
<1>4. CASE Return
  BY <1>1, <1>4 DEF Return, Finally, RunsOn
<1>5. CASE Dispose
  BY <1>1, <1>5 DEF Dispose, RunsOn
<1> QED
  BY <1>2, <1>3, <1>4, <1>5 DEF Generate

\* What the client and the tool do leaves the generator where it is.
LEMMA OthersRunOn ==
  ASSUME McpInv, RunsOn,
         ClientReads \/ ClientCancels \/ SourceStops \/ \E size \in Size : SourceHands(size)
  PROVE  RunsOn'
<1>0. body \in BodyRecord /\ UNCHANGED <<at, reply, session, gen>>
  BY DEF McpInv, ClientReads, ClientCancels, SourceStops, SourceHands
<1>1. Streaming' <=> Streaming
  BY <1>0 DEF Streaming
<1>2. body'.pulling = body.pulling
  BY <1>0 DEF ClientReads, ClientCancels, Abandons, SourceStops, SourceHands, BodyRecord
<1>3. /\ aborted' => Streaming
      /\ read # "none" => read' # "none"
      /\ aborted' => aborted \/ read' # "pending"
      /\ read # "pending" => read' # "pending"
  BY DEF RunsOn, ClientReads, ClientCancels, Abandons, SourceStops, SourceHands
<1> QED
  BY <1>0, <1>1, <1>2, <1>3 DEF RunsOn

\* An open session of a streamed call can still be closed by a step of its own:
\* whenever the client goes away, be it before a read, during one that hangs or
\* between two events, the generator is not left where nothing resumes it
\* (streamToolEvents in mcp.ts).
THEOREM SessionsAreAttended == McpSpec => []NoSessionIsStranded
<1>1. McpInit => RunsOn
  BY DEF McpInit, RunsOn, Streaming
<1>2. ASSUME McpInv, RunsOn, [McpNext]_vars
      PROVE  RunsOn'
  <2>1. CASE UNCHANGED vars
    BY <1>2, <2>1 DEF vars, stream, RunsOn, Streaming
  <2> QED
    BY <1>2, <2>1, HandleRunsOn, GenerateRunsOn, OthersRunOn DEF McpNext
<1>3. ASSUME McpInv, RunsOn PROVE NoSessionIsStranded
  <2> SUFFICES ASSUME session = "open", Streaming
               PROVE  /\ gen # "done"
                      /\ gen = "reading" =>
                           read # "none" /\ (read = "pending" => source = "live" /\ ~aborted)
                      /\ gen \in {"yielded", "answered"} =>
                           aborted \/ (body.state = "open" /\ ~body.pulling)
    BY DEF NoSessionIsStranded
  <2>1. gen # "done"
    BY <1>3 DEF RunsOn
  <2>2. gen = "reading" => read # "none" /\ (read = "pending" => source = "live" /\ ~aborted)
    BY <1>3 DEF RunsOn, McpInv, ReadIs, Telling
  <2>3. gen \in {"yielded", "answered"} => aborted \/ (body.state = "open" /\ ~body.pulling)
    BY <1>3, Typed DEF RunsOn, McpInv, EventsAre, BodyRecord
  <2> QED
    BY <2>1, <2>2, <2>3
<1> QED
  BY <1>1, <1>2, <1>3, McpInvariance, PTL DEF McpSpec

-----------------------------------------------------------------------------
(* The documents and what is made of them. *)

\* The route that is published of an accepted one.
LEMMA RestIsListed ==
  ASSUME NEW rest, NEW fields, AcceptsRest(rest, fields),
         NormalPath(rest.path) \notin ReservedPaths
  PROVE  IsRestDiscovery([verb |-> rest.verb, path |-> NormalPath(rest.path),
                            status |-> rest.status, operationId |-> rest.operationId], fields)
<1>1. /\ NormalPath(rest.path).form = "absolute"
      /\ NormalPath(rest.path).segments = rest.path.segments
      /\ NormalPath(NormalPath(rest.path)) = NormalPath(rest.path)
  BY DEF NormalPath, Path
<1> QED
  BY <1>1 DEF AcceptsRest, IsRestDiscovery, IsOriginRelative

\* So with a method.
LEMMA MethodIsListed ==
  ASSUME MaxTimeout \in Nat,
         NEW service, NEW ability, NEW method,
         AcceptsMethod(method, ability, service), IsDefaultTimeout(service.timeout),
         method.rest # None => NormalPath(method.rest.path) \notin ReservedPaths
  PROVE  IsMethodDiscovery(MethodDocument(method, service))
<1> DEFINE document == MethodDocument(method, service)
<1> DEFINE rest == [verb |-> method.rest.verb, path |-> NormalPath(method.rest.path),
                    status |-> method.rest.status, operationId |-> method.rest.operationId]
<1>1. /\ document.stream = method.stream /\ document.fields = method.fields
      /\ document.timeout = Ceiling(method, service)
      /\ document.rest = IF method.rest = None THEN None ELSE rest
      /\ document.prompt = method.prompt /\ document.resource = method.resource
  BY DEF MethodDocument
<1>2. Ceiling(method, service) # None => Ceiling(method, service) > 0 /\ ~method.stream
  BY DEF Ceiling, AcceptsMethod, IsTimeout, IsDefaultTimeout
<1>3. method.rest # None => IsRestDiscovery(rest, method.fields)
  BY RestIsListed DEF AcceptsMethod
<1>4. StreamsAlone(document)
  BY <1>1 DEF AcceptsMethod, StreamsAlone
<1> HIDE DEF document, rest
<1>5. IsMethodDiscovery(document)
  BY <1>1, <1>2, <1>3, <1>4 DEF IsMethodDiscovery
<1> QED
  BY <1>5 DEF document

\* Of an accepted ability every method is kept.
LEMMA EveryMethodIsKept ==
  ASSUME NEW methods, NamesAreDistinct(methods), DOMAIN methods \subseteq Nat
  PROVE  Entries(methods) = DOMAIN methods
BY DEF Entries, NamesAreDistinct

LEMMA AbilityIsListed ==
  ASSUME MaxTimeout \in Nat,
         NEW service, NEW ability,
         AcceptsAbility(ability, service), IsDefaultTimeout(service.timeout),
         \A i \in DOMAIN ability.methods : ability.methods[i].rest # None =>
           NormalPath(ability.methods[i].rest.path) \notin ReservedPaths
  PROVE  IsAbilityDiscovery(AbilityDocument(ability, service))
<1> DEFINE document == AbilityDocument(ability, service)
<1> DEFINE methods == [i \in Entries(ability.methods) |-> MethodDocument(ability.methods[i], service)]
<1>1. /\ document.access = ability.access /\ document.exposure = ability.exposure
      /\ document.path = NormalPath(ability.path) /\ document.transports = ability.transports
      /\ document.methods = methods
  BY DEF AbilityDocument
<1>2. DOMAIN methods \subseteq DOMAIN ability.methods
  BY DEF Entries
<1>3. \A i \in DOMAIN methods : IsMethodDiscovery(methods[i])
  <2> SUFFICES ASSUME NEW i \in DOMAIN methods
               PROVE  IsMethodDiscovery(MethodDocument(ability.methods[i], service))
    OBVIOUS
  <2>1. AcceptsMethod(ability.methods[i], ability, service)
    BY <1>2 DEF AcceptsAbility
  <2> QED
    BY <1>2, <2>1, MethodIsListed
<1>4. IsOriginRelative(document.path)
  BY <1>1 DEF IsOriginRelative, NormalPath, Path
<1> HIDE DEF document, methods
<1>5. IsAbilityDiscovery(document)
  BY <1>1, <1>3, <1>4 DEF IsAbilityDiscovery, AcceptsAbility
<1> QED
  BY <1>5 DEF document

LEMMA DocumentIs ==
  ASSUME NEW service
  PROVE  /\ Document(service).id = Trim(service.id)
         /\ Document(service).capabilities = service.capabilities
         /\ DOMAIN Document(service).abilities = DOMAIN service.abilities
         /\ \A i \in DOMAIN service.abilities :
              Document(service).abilities[i] = AbilityDocument(service.abilities[i], service)
BY DEF Document

\* What defineAbilityService lets through, the registry lets through, but for
\* what only the plane knows.
LEMMA AcceptedIsDiscovery ==
  ASSUME MaxTimeout \in Nat, NEW s, NEW service, Accepts(service),
         Trim(service.id) = s, service.capabilities.serviceId = s,
         \A i \in DOMAIN service.abilities : \A j \in DOMAIN service.abilities[i].methods :
           LET rest == service.abilities[i].methods[j].rest
           IN rest # None => NormalPath(rest.path) \notin ReservedPaths
  PROVE  IsDiscoveryForEndpoint(Document(service), s)
<1>1. \A i \in DOMAIN service.abilities : IsAbilityDiscovery(AbilityDocument(service.abilities[i], service))
  <2> TAKE i \in DOMAIN service.abilities
  <2>1. AcceptsAbility(service.abilities[i], service) /\ IsDefaultTimeout(service.timeout)
    BY DEF Accepts
  <2> QED
    BY <2>1, AbilityIsListed
<1> QED
  BY <1>1, DocumentIs DEF IsDiscoveryForEndpoint

Release ==
  [written : {None} \union UNION {Written[s] : s \in Service},
   document : {None} \union UNION {DocumentsOf(s) : s \in Service}]

\* What a service may run.
Runs(s, running) ==
  \/ running = NoRelease
  \/ /\ running.written \in Written[s] /\ Accepts(running.written)
     /\ running.document = Document(running.written)
  \/ running.written = None /\ running.document \in Foreign[s]

LEMMA TypeIs == TypeOK <=> release \in [Service -> Release] /\ \A s \in Service : Runs(s, release[s])
BY DEF TypeOK, Release, Runs

LEMMA ReleaseIs ==
  ASSUME TypeOK, NEW s \in Service, NEW running \in Release, Runs(s, running),
         release' = [release EXCEPT ![s] = running]
  PROVE  TypeOK'
<1>1. release \in [Service -> Release] /\ \A t \in Service : Runs(t, release[t])
  BY TypeIs
<1>2. release' \in [Service -> Release] /\ \A t \in Service : Runs(t, release'[t])
  BY <1>1
<1>3. TypeOK' <=> release' \in [Service -> Release] /\ \A t \in Service : Runs(t, release'[t])
  BY DEF TypeOK, Release, Runs
<1> QED
  BY <1>2, <1>3

LEMMA NothingRuns == \A s \in Service : NoRelease \in Release /\ Runs(s, NoRelease)
BY DEF NoRelease, Release, Runs

\* What is released is what was written and accepted, or another's.
LEMMA ReleasesAreTyped == Spec => []TypeOK
<1>1. Init => TypeOK
  BY NothingRuns, TypeIs DEF Init
<1>2. TypeOK /\ [Next]_release => TypeOK'
  <2> SUFFICES ASSUME TypeOK, [Next]_release
               PROVE  TypeOK'
    OBVIOUS
  <2>1. ASSUME NEW s \in Service, Deploy(s)
        PROVE  TypeOK'
    <3>1. PICK service \in Written[s] :
            /\ Accepts(service)
            /\ release' = [release EXCEPT ![s] = [written |-> service, document |-> Document(service)]]
      BY <2>1 DEF Deploy
    <3>2. Document(service) \in DocumentsOf(s)
      BY DEF DocumentsOf
    <3>3. [written |-> service, document |-> Document(service)] \in Release
      BY <3>2 DEF Release
    <3>4. Runs(s, [written |-> service, document |-> Document(service)])
      BY <3>1 DEF Runs
    <3> QED
      BY <3>1, <3>3, <3>4, ReleaseIs
  <2>2. ASSUME NEW s \in Service, DeployForeign(s)
        PROVE  TypeOK'
    <3>1. PICK document \in Foreign[s] :
            release' = [release EXCEPT ![s] = [written |-> None, document |-> document]]
      BY <2>2 DEF DeployForeign
    <3>2. document \in DocumentsOf(s)
      BY DEF DocumentsOf
    <3>3. [written |-> None, document |-> document] \in Release
      BY <3>2 DEF Release
    <3>4. Runs(s, [written |-> None, document |-> document])
      BY DEF Runs
    <3> QED
      BY <3>1, <3>3, <3>4, ReleaseIs
  <2>3. ASSUME NEW s \in Service, Withdraw(s)
        PROVE  TypeOK'
    BY <2>3, NothingRuns, ReleaseIs DEF Withdraw
  <2>4. CASE UNCHANGED release
    BY <2>4 DEF TypeOK, NoRelease
  <2> QED
    BY <2>1, <2>2, <2>3, <2>4 DEF Next
<1> QED
  BY <1>1, <1>2, PTL DEF Spec

\* A release that was written publishes its document.
LEMMA WrittenIs ==
  ASSUME TypeOK, NEW s \in Service, release[s].written # None
  PROVE  /\ release[s].written \in Written[s] /\ Accepts(release[s].written)
         /\ release[s].document = Document(release[s].written)
BY DEF TypeOK, NoRelease

\* And any that is not nothing is one an endpoint may serve.
LEMMA DocumentIsServed ==
  ASSUME TypeOK, NEW s \in Service, release[s].document # None
  PROVE  release[s].document \in DocumentsOf(s)
<1>1. CASE release[s] = NoRelease
  BY <1>1 DEF NoRelease
<1>2. CASE /\ release[s].written \in Written[s] /\ release[s].document = Document(release[s].written)
  BY <1>2 DEF DocumentsOf
<1>3. CASE release[s].document \in Foreign[s]
  BY <1>3 DEF DocumentsOf
<1> QED
  BY <1>1, <1>2, <1>3 DEF TypeOK

LEMMA TypedIsListed ==
  ASSUME MaxTimeout \in Nat, DocumentsAreTyped, TypeOK
  PROVE  DefinedIsListed
<1> SUFFICES ASSUME NEW s \in Service, release[s].written # None,
                    Trim(release[s].written.id) = s,
                    release[s].written.capabilities.serviceId = s,
                    \A i \in DOMAIN release[s].written.abilities :
                      \A j \in DOMAIN release[s].written.abilities[i].methods :
                        LET rest == release[s].written.abilities[i].methods[j].rest
                        IN rest # None => NormalPath(rest.path) \notin ReservedPaths
             PROVE  IsListed(s)
  BY DEF DefinedIsListed
<1>1. /\ release[s].written \in Written[s] /\ Accepts(release[s].written)
      /\ release[s].document = Document(release[s].written)
  BY WrittenIs
<1>2. IsDiscoveryForEndpoint(Document(release[s].written), s)
  BY <1>1, AcceptedIsDiscovery
<1>3. Document(release[s].written) # None
  BY <1>1 DEF DocumentsAreTyped, DocumentsOf
<1> QED
  BY <1>1, <1>2, <1>3 DEF IsListed

\* Whatever services, definitions and reserved paths there are: a service that
\* defineAbilityService starts is one whose document the registry lists
\* (isDiscoveryForEndpoint), but for its endpoint's name and the plane's own
\* paths.
THEOREM StartedIsListed == Spec => []DefinedIsListed
<1>1. TypeOK => DefinedIsListed
  BY TypedIsListed, DocumentsAssumption
<1> QED
  BY <1>1, ReleasesAreTyped, PTL

LEMMA TypedLosesNoMethod ==
  ASSUME DocumentsAreTyped, TypeOK
  PROVE  NoMethodIsLost
<1> SUFFICES ASSUME NEW s \in Service, release[s].written # None,
                    NEW i \in DOMAIN release[s].written.abilities,
                    NEW j \in DOMAIN release[s].written.abilities[i].methods
             PROVE  \E k \in DOMAIN release[s].document.abilities[i].methods :
                      LET published == release[s].document.abilities[i].methods[k]
                          method == release[s].written.abilities[i].methods[j]
                      IN published.name = Trim(method.name) /\ published.scopes = method.scopes
  BY DEF NoMethodIsLost
<1> DEFINE service == release[s].written
<1> DEFINE methods == service.abilities[i].methods
<1>1. service \in Written[s] /\ Accepts(service) /\ release[s].document = Document(service)
  BY WrittenIs
<1>2. AcceptsAbility(service.abilities[i], service)
  BY <1>1 DEF Accepts
<1>3. Entries(methods) = DOMAIN methods
  <2>1. NamesAreDistinct(methods)
    BY <1>2 DEF AcceptsAbility
  <2>2. DOMAIN methods \subseteq Nat
    BY <1>1 DEF DocumentsAreTyped
  <2> QED
    BY <2>1, <2>2, EveryMethodIsKept
<1>4. release[s].document.abilities[i] = AbilityDocument(service.abilities[i], service)
  BY <1>1, DocumentIs
<1>5. /\ j \in DOMAIN release[s].document.abilities[i].methods
      /\ release[s].document.abilities[i].methods[j] = MethodDocument(methods[j], service)
  <2>1. AbilityDocument(service.abilities[i], service).methods =
          [k \in Entries(methods) |-> MethodDocument(methods[k], service)]
    BY DEF AbilityDocument
  <2> HIDE DEF methods, service
  <2>2. j \in DOMAIN methods
    BY DEF methods, service
  <2> QED
    BY <1>3, <1>4, <2>1, <2>2
<1>6. /\ MethodDocument(methods[j], service).name = Trim(methods[j].name)
      /\ MethodDocument(methods[j], service).scopes = methods[j].scopes
  BY DEF MethodDocument
<1> QED
  BY <1>5, <1>6

\* Of a definition that is accepted no method is lost to another of its trimmed
\* name, and each is published with the scopes it was written with
\* (normalizeMethods and abilityDiscovery in discovery.ts).
THEOREM NothingIsDropped == Spec => []NoMethodIsLost
<1>1. TypeOK => NoMethodIsLost
  BY TypedLosesNoMethod, DocumentsAssumption
<1> QED
  BY <1>1, ReleasesAreTyped, PTL

\* The methods of the catalog.
LEMMA EntryIs ==
  ASSUME DocumentsAreTyped, TypeOK, NEW entry \in Catalog
  PROVE  /\ entry = <<entry[1], entry[2], entry[3]>> /\ entry \in Service \X Nat \X Nat
         /\ IsListed(entry[1])
         /\ entry[2] \in DOMAIN release[entry[1]].document.abilities
         /\ entry[3] \in DOMAIN AbilityOf(entry).methods
<1>1. PICK s \in Service :
        /\ IsListed(s)
        /\ \E i \in DOMAIN release[s].document.abilities :
             \E j \in DOMAIN release[s].document.abilities[i].methods : entry = <<s, i, j>>
  BY DEF Catalog
<1>2. PICK i \in DOMAIN release[s].document.abilities :
        \E j \in DOMAIN release[s].document.abilities[i].methods : entry = <<s, i, j>>
  BY <1>1
<1>5. PICK j \in DOMAIN release[s].document.abilities[i].methods : entry = <<s, i, j>>
  BY <1>2
<1>3. release[s].document \in DocumentsOf(s)
  BY <1>1, DocumentIsServed DEF IsListed
<1>4. i \in Nat /\ j \in Nat
  BY <1>3 DEF DocumentsAreTyped
<1> QED
  BY <1>1, <1>4, <1>5 DEF AbilityOf

\* Their routes: what the registry checked, and one of the templates there are.
LEMMA RouteIs ==
  ASSUME DocumentsAreTyped, TypeOK, NEW entry \in Catalog, MethodOf(entry).rest # None
  PROVE  LET method == MethodOf(entry)
         IN /\ IsRestDiscovery(method.rest, method.fields) /\ ~method.stream
            /\ method.rest.path.segments \in Routes
            /\ method.rest.path.segments \in Seq(Segment)
<1> DEFINE document == release[entry[1]].document
<1> DEFINE ability == document.abilities[entry[2]]
<1>1. /\ entry[1] \in Service /\ IsListed(entry[1])
      /\ entry[2] \in DOMAIN document.abilities /\ entry[3] \in DOMAIN ability.methods
      /\ MethodOf(entry) = ability.methods[entry[3]]
  BY EntryIs DEF AbilityOf, MethodOf
<1>2. document \in DocumentsOf(entry[1]) /\ IsDiscoveryForEndpoint(document, entry[1])
  BY <1>1, DocumentIsServed DEF IsListed
<1>3. IsMethodDiscovery(MethodOf(entry))
  BY <1>1, <1>2 DEF IsDiscoveryForEndpoint, IsAbilityDiscovery
<1>4. IsRestDiscovery(MethodOf(entry).rest, MethodOf(entry).fields) /\ ~MethodOf(entry).stream
  BY <1>3 DEF IsMethodDiscovery, StreamsAlone
<1>5. MethodOf(entry).rest.path.segments \in Seq(Segment)
  BY <1>1, <1>2 DEF DocumentsAreTyped
<1>6. MethodOf(entry).rest.path.segments \in Routes
  <2> DEFINE RoutesOf(a) ==
        {a.methods[j].rest.path.segments : j \in {k \in DOMAIN a.methods : a.methods[k].rest # None}}
  <2> DEFINE Listable(s) == {d \in DocumentsOf(s) : IsDiscoveryForEndpoint(d, s)}
  <2> DEFINE RoutesIn(d) == UNION {RoutesOf(d.abilities[i]) : i \in DOMAIN d.abilities}
  <2>1. Routes = UNION {UNION {RoutesIn(d) : d \in Listable(s)} : s \in Service}
    BY DEF Routes
  <2>2. MethodOf(entry).rest.path.segments \in RoutesOf(ability)
    BY <1>1
  <2>3. MethodOf(entry).rest.path.segments \in RoutesIn(document)
    <3>1. entry[2] \in DOMAIN document.abilities
      BY <1>1
    <3> HIDE DEF RoutesOf, document
    <3> QED
      BY ONLY <3>1, <2>2
  <2>4. document \in Listable(entry[1])
    BY <1>2
  <2> HIDE DEF RoutesIn
  <2>5. MethodOf(entry).rest.path.segments \in UNION {RoutesIn(d) : d \in Listable(entry[1])}
    <3> HIDE DEF Listable, document
    <3> QED
      BY ONLY <2>3, <2>4
  <2>6. entry[1] \in Service
    BY <1>1
  <2> HIDE DEF Listable
  <2> QED
    BY ONLY <2>1, <2>5, <2>6
<1> QED
  BY <1>4, <1>5, <1>6

\* Numbers below a bound have a greatest.
LEMMA Greatest ==
  ASSUME NEW n \in Nat, NEW S \in SUBSET (0..n), S # {}
  PROVE  \E most \in S : \A k \in S : k <= most
<1> DEFINE T == {n - k : k \in S}
<1>1. T \subseteq Nat /\ T # {}
  <2>1. \A k \in S : n - k \in Nat
    OBVIOUS
  <2> QED
    BY <2>1
<1>2. PICK least \in T : \A k \in T : <<k, least>> \notin OpToRel(<, Nat)
  BY <1>1, NatLessThanWellFounded, WFMin
<1>3. \A k \in T : ~(k < least)
  <2> SUFFICES ASSUME NEW k \in T, k < least
               PROVE  FALSE
    OBVIOUS
  <2>1. k \in Nat /\ least \in Nat
    BY <1>1
  <2>2. <<k, least>> \in OpToRel(<, Nat)
    BY <2>1 DEF OpToRel
  <2> QED
    BY <1>2, <2>2
<1>4. PICK most \in S : least = n - most
  BY <1>2
<1>5. \A k \in S : k <= most
  <2> TAKE k \in S
  <2>1. n - k \in T
    OBVIOUS
  <2>2. ~(n - k < n - most)
    BY <2>1, <1>3, <1>4
  <2>3. k \in Nat /\ most \in Nat
    OBVIOUS
  <2> HIDE DEF T
  <2> QED
    BY ONLY <2>2, <2>3, n \in Nat
<1> QED
  BY <1>5

Statics(template) == {i \in DOMAIN template : template[i].kind = "static"}

LEMMA StaticsAre ==
  ASSUME NEW template \in Seq(Segment)
  PROVE  /\ IsFiniteSet(Statics(template))
         /\ StaticSegments(template) = Cardinality(Statics(template))
         /\ StaticSegments(template) \in 0..Len(template)
<1> DEFINE statics == Statics(template)
<1>1. Len(template) \in Nat /\ DOMAIN template = 1..Len(template)
  OBVIOUS
<1>2. IsFiniteSet(1..Len(template)) /\ Cardinality(1..Len(template)) = Len(template)
  BY <1>1, FS_Interval
<1>3. statics \in SUBSET (1..Len(template))
  BY <1>1 DEF Statics
<1>4. IsFiniteSet(statics) /\ Cardinality(statics) <= Len(template)
  BY <1>2, <1>3, FS_Subset
<1>5. Cardinality(statics) \in Nat
  BY <1>4, FS_CardinalityType
<1>6. StaticSegments(template) = Cardinality(statics)
  <2>1. statics = {i \in DOMAIN template : template[i].kind = "static"}
    BY DEF Statics
  <2> HIDE DEF statics
  <2>2. Cardinality(statics) = Cardinality(statics)
    BY DEF Cardinality
  <2> QED
    BY ONLY <2>1, <2>2 DEF StaticSegments
<1>7. Cardinality(statics) \in 0..Len(template)
  BY <1>1, <1>4, <1>5
<1> QED
  BY <1>4, <1>6, <1>7

\* What matches a path is listed, and has no more static segments than it has
\* segments.
LEMMA MatchIs ==
  ASSUME DocumentsAreTyped, TypeOK, NEW path \in Seq(STRING), NEW entry \in RestMatches(path)
  PROVE  /\ entry \in Catalog /\ entry \in Published /\ MethodOf(entry).rest # None
         /\ Matches(MethodOf(entry).rest.path.segments, path)
         /\ MethodOf(entry).rest.path.segments \in Seq(Segment)
         /\ StaticSegments(MethodOf(entry).rest.path.segments) \in 0..Len(path)
<1>1. /\ entry \in Published /\ entry \in Catalog /\ MethodOf(entry).rest # None
      /\ Matches(MethodOf(entry).rest.path.segments, path)
  BY DEF RestMatches, Published
<1>2. MethodOf(entry).rest.path.segments \in Seq(Segment)
  BY <1>1, RouteIs
<1>3. StaticSegments(MethodOf(entry).rest.path.segments) \in 0..Len(MethodOf(entry).rest.path.segments)
  BY <1>2, StaticsAre
<1>4. Len(MethodOf(entry).rest.path.segments) = Len(path)
  BY <1>1 DEF Matches
<1> QED
  BY <1>1, <1>2, <1>3, <1>4

\* So among some there is a most specific one.
LEMMA SomeIsBest ==
  ASSUME DocumentsAreTyped, TypeOK, NEW path \in Seq(STRING),
         NEW matches \in SUBSET RestMatches(path), matches # {}
  PROVE  Best(matches) # {}
<1> DEFINE statics(entry) == StaticSegments(MethodOf(entry).rest.path.segments)
<1> DEFINE S == {statics(entry) : entry \in matches}
<1>1. \A entry \in matches : statics(entry) \in 0..Len(path)
  BY MatchIs
<1>2. Len(path) \in Nat
  OBVIOUS
<1> HIDE DEF statics
<1>6. S \in SUBSET (0..Len(path)) /\ S # {}
  BY <1>1
<1>3. PICK most \in S : \A k \in S : k <= most
  <2> HIDE DEF S
  <2> QED
    BY <1>2, <1>6, Greatest
<1>4. PICK entry \in matches : most = statics(entry)
  BY <1>3
<1>5. \A other \in matches : statics(other) <= statics(entry)
  BY <1>3, <1>4
<1> QED
  BY <1>5 DEF Best, statics

\* A single entry is the first in every order.
LEMMA FirstOfOne ==
  ASSUME NEW order, NEW entries, NEW entry \in entries, \A other \in entries : other = entry
  PROVE  First(order, entries) = entry
<1>1. entries = {entry}
  OBVIOUS
<1> QED
  BY <1>1 DEF First

LEMMA MostSpecificIs ==
  ASSUME NEW one, NEW other, NEW matches, Best(matches) # {}
  PROVE  MostSpecific(one, matches) = MostSpecific(other, matches)
<1> DEFINE best == Best(matches)
<1>1. PICK entry \in best : TRUE
  OBVIOUS
<1>2. CASE \E a, b \in best : a # b
  BY <1>2 DEF MostSpecific
<1>3. CASE ~\E a, b \in best : a # b
  <2>1. \A b \in best : b = entry
    BY <1>1, <1>3
  <2>2. First(one, best) = entry /\ First(other, best) = entry
    BY <1>1, <2>1, FirstOfOne
  <2> QED
    BY <1>3, <2>2 DEF MostSpecific
<1> QED
  BY <1>2, <1>3

LEMMA TypedRoutesStand ==
  ASSUME DocumentsAreTyped, RequestPaths \subseteq Seq(STRING), TypeOK
  PROVE  RoutesDoNotDependOnOrder
<1> SUFFICES ASSUME NEW one, NEW other, NEW path \in RequestPaths, NEW verb
             PROVE  HandleRest(one, verb, path) = HandleRest(other, verb, path)
  BY DEF RoutesDoNotDependOnOrder
<1> DEFINE matches == {entry \in RestMatches(path) : MethodOf(entry).rest.verb = verb}
<1>1. CASE matches = {}
  BY <1>1 DEF HandleRest, FindRestMethod
<1>2. CASE matches # {}
  <2>1. Best(matches) # {}
    BY <1>2, SomeIsBest
  <2>2. MostSpecific(one, matches) = MostSpecific(other, matches)
    BY <2>1, MostSpecificIs
  <2>3. FindRestMethod(one, verb, path) = FindRestMethod(other, verb, path)
    BY <2>2 DEF FindRestMethod
  <2> QED
    BY <2>3 DEF HandleRest
<1> QED
  BY <1>1, <1>2

\* Whoever publishes what: which method answers a REST request, or why none
\* does, is not a matter of the order of the endpoints (findRestMethod in
\* rest.ts).  Some best match there is, or there is no match.
THEOREM OrderDoesNotRoute == Spec => []RoutesDoNotDependOnOrder
<1>1. TypeOK => RoutesDoNotDependOnOrder
  BY TypedRoutesStand, DocumentsAssumption, RequestsAssumption DEF RequestsFillRoutes
<1> QED
  BY <1>1, ReleasesAreTyped, PTL

LEMMA TypedListsCall == ListedIsCalled
<1> SUFFICES ASSUME McpDiscovery # Refused, NEW kind \in {"tool", "prompt"},
                    NEW entry \in McpDiscovery[kind], NEW order
             PROVE  FindMcpMethod(order, kind, MethodOf(entry)[kind]) = entry
  BY DEF ListedIsCalled
<1> DEFINE name == MethodOf(entry)[kind]
<1> DEFINE found == {other \in Published : MethodOf(other)[kind] = name}
<1>1. /\ ~Repeats(kind)
      /\ McpDiscovery = [k \in {"tool", "prompt", "resource"} |-> Named(k)]
  BY DEF McpDiscovery
<1>2. entry \in Named(kind)
  BY <1>1
<1>3. entry \in Published /\ name # None
  BY <1>2 DEF Named
<1>4. \A other \in found : other = entry
  BY <1>1, <1>2, <1>3 DEF Repeats, Named
<1>5. entry \in found
  BY <1>3
<1>6. First(order, found) = entry
  BY <1>4, <1>5, FirstOfOne
<1> QED
  BY <1>5, <1>6 DEF FindMcpMethod

\* The tool or prompt that is listed under a name is the one that is called by
\* it, in every order and of any catalog at all (generateMcpDiscovery and
\* findMcpMethod in mcp.ts).
THEOREM ListingsCall == Spec => []ListedIsCalled
<1>1. ListedIsCalled
  BY TypedListsCall
<1> QED
  BY <1>1, PTL

\* A template and the path that fills it.
LEMMA FilledIs ==
  ASSUME NEW template \in Seq(Segment)
  PROVE  /\ template \in [1..Len(template) -> Segment] /\ Len(template) \in Nat
         /\ Len(Filled(template)) = Len(template) /\ DOMAIN Filled(template) = DOMAIN template
         /\ \A i \in DOMAIN template : Filled(template)[i] =
              IF template[i].kind = "variable" THEN Unnamed ELSE template[i].name
<1>1. Filled(template) =
        [i \in DOMAIN template |-> IF template[i].kind = "variable" THEN Unnamed ELSE template[i].name]
  BY DEF Filled
<1>2. template \in [1..Len(template) -> Segment] /\ Len(template) \in Nat
  OBVIOUS
<1>3. Len(Filled(template)) = Len(template) /\ DOMAIN Filled(template) = DOMAIN template
  BY <1>1, <1>2
<1> QED
  BY <1>1, <1>2, <1>3

LEMMA FilledMatches ==
  ASSUME NEW template \in Seq(Segment), IsSimple(template),
         Unnamed \notin {"", Undecodable},
         \A i \in DOMAIN template :
           template[i].kind = "static" => template[i].name \notin {Unnamed, Undecodable}
  PROVE  Matches(template, Filled(template))
<1>1. \A i \in DOMAIN template : template[i].kind \in {"static", "variable"}
  BY FilledIs DEF IsSimple, Segment
<1>2. \A i \in DOMAIN template :
        /\ Filled(template)[i] # Undecodable
        /\ IF template[i].kind = "variable" THEN Filled(template)[i] # ""
           ELSE template[i].name = Filled(template)[i]
  BY <1>1, FilledIs
<1> QED
  BY <1>2, FilledIs DEF Matches

\* Another that matches it has its static segments among the template's, and
\* the template's shape if it has as many.
LEMMA FilledPrefers ==
  ASSUME NEW template \in Seq(Segment), NEW other \in Seq(Segment),
         IsSimple(template), IsSimple(other),
         Matches(other, Filled(template)),
         \A i \in DOMAIN other : other[i].kind = "static" => other[i].name # Unnamed
  PROVE  /\ StaticSegments(other) <= StaticSegments(template)
         /\ StaticSegments(other) = StaticSegments(template) => SameShape(other, template)
<1> DEFINE path == Filled(template)
<1>1. path = [i \in DOMAIN template |-> IF template[i].kind = "variable" THEN Unnamed ELSE template[i].name]
  BY DEF Filled
<1>2. /\ template \in [1..Len(template) -> Segment] /\ Len(template) \in Nat
      /\ other \in [1..Len(other) -> Segment] /\ Len(other) \in Nat
  OBVIOUS
<1>3. /\ \A i \in DOMAIN template : /\ template[i].kind \in {"static", "variable"}
                                    /\ template[i] = [kind |-> template[i].kind, name |-> template[i].name]
      /\ \A i \in DOMAIN other : /\ other[i].kind \in {"static", "variable"}
                                 /\ other[i] = [kind |-> other[i].kind, name |-> other[i].name]
  BY <1>2 DEF IsSimple, Segment
<1>4. Len(path) = Len(template) /\ DOMAIN path = DOMAIN template
  BY <1>1, <1>2
<1>5. Len(other) = Len(template) /\ DOMAIN other = DOMAIN template
  BY <1>2, <1>4 DEF Matches
<1>6. \A i \in DOMAIN template : other[i].kind = "static" =>
        template[i].kind = "static" /\ other[i] = template[i]
  <2> SUFFICES ASSUME NEW i \in DOMAIN template, other[i].kind = "static"
               PROVE  template[i].kind = "static" /\ other[i] = template[i]
    OBVIOUS
  <2>1. other[i].name = path[i] /\ other[i].name # Unnamed
    BY <1>4, <1>5 DEF Matches
  <2>2. template[i].kind # "variable" /\ path[i] = template[i].name
    BY <2>1, <1>1
  <2>3. template[i].kind = "static" /\ other[i].name = template[i].name
    BY <2>1, <2>2, <1>3
  <2> QED
    BY <2>3, <1>3, <1>5
<1>7. Statics(other) \in SUBSET Statics(template)
  BY <1>5, <1>6 DEF Statics
<1>8. /\ IsFiniteSet(Statics(template))
      /\ StaticSegments(template) = Cardinality(Statics(template))
      /\ StaticSegments(other) = Cardinality(Statics(other))
  BY StaticsAre
<1>9. StaticSegments(other) <= StaticSegments(template)
  BY <1>7, <1>8, FS_Subset
<1>10. ASSUME StaticSegments(other) = StaticSegments(template)
       PROVE  SameShape(other, template)
  <2>1. Statics(other) = Statics(template)
    BY <1>7, <1>8, <1>10, FS_Subset
  <2>2. \A i \in DOMAIN other : other[i].kind = "static" <=> template[i].kind = "static"
    BY <1>5, <2>1 DEF Statics
  <2>3. \A i \in DOMAIN other : other[i].kind = template[i].kind
    BY <1>3, <1>5, <2>2
  <2> QED
    BY <1>5, <1>6, <2>3 DEF SameShape
<1> QED
  BY <1>9, <1>10

\* Methods of the same verb that a path matches, when one of them fits best.
LEMMA BestIsServed ==
  ASSUME OutcomesAreNoMethods, DocumentsAreTyped, TypeOK,
         NEW path \in Seq(STRING), NEW order, NEW verb \in Verbs,
         NEW entry \in RestMatches(path), MethodOf(entry).rest.verb = verb,
         \A other \in RestMatches(path) : MethodOf(other).rest.verb = verb /\ other # entry =>
           StaticSegments(MethodOf(other).rest.path.segments)
             < StaticSegments(MethodOf(entry).rest.path.segments)
  PROVE  HandleRest(order, verb, path) = entry
<1> DEFINE statics(other) == StaticSegments(MethodOf(other).rest.path.segments)
<1> DEFINE matches == {other \in RestMatches(path) : MethodOf(other).rest.verb = verb}
<1>1. \A other \in matches : statics(other) \in 0..Len(path) /\ Len(path) \in Nat
  BY MatchIs
<1>2. entry \in matches /\ \A other \in matches : other # entry => statics(other) < statics(entry)
  OBVIOUS
<1>3. Best(matches) = {other \in matches : \A third \in matches : statics(third) <= statics(other)}
  BY DEF Best
<1>4. entry \in Best(matches) /\ \A other \in Best(matches) : other = entry
  <2> HIDE DEF matches, statics
  <2>1. \A other \in matches : statics(other) <= statics(entry)
    BY <1>1, <1>2
  <2>2. \A other \in matches : other # entry => ~(statics(entry) <= statics(other))
    BY <1>1, <1>2
  <2> QED
    BY <1>2, <1>3, <2>1, <2>2
<1>5. MostSpecific(order, matches) = entry
  BY <1>4, FirstOfOne DEF MostSpecific
<1>6. FindRestMethod(order, verb, path) = entry
  BY <1>2, <1>5 DEF FindRestMethod
<1>7. entry # NotFound
  <2>1. entry \in Catalog
    BY MatchIs
  <2> QED
    BY <2>1, EntryIs DEF OutcomesAreNoMethods
<1> QED
  BY <1>6, <1>7 DEF HandleRest

LEMMA TypedDocumentsServe ==
  ASSUME RequestsFillRoutes, OutcomesAreNoMethods, DocumentsAreTyped, TypeOK
  PROVE  DocumentedIsServed
<1> SUFFICES ASSUME OpenApi # Refused, NEW entry \in OpenApi,
                    ~\E other \in OpenApi \ {entry} :
                       /\ MethodOf(other).rest.verb = MethodOf(entry).rest.verb
                       /\ SameShape(MethodOf(other).rest.path.segments,
                                      MethodOf(entry).rest.path.segments)
             PROVE  \E path \in RequestPaths : \A order \in Orders :
                      HandleRest(order, MethodOf(entry).rest.verb, path) = entry
  BY DEF DocumentedIsServed
<1> DEFINE verb == MethodOf(entry).rest.verb
<1> DEFINE template == MethodOf(entry).rest.path.segments
<1> DEFINE path == Filled(template)
<1>1. OpenApi = Operations
  BY DEF OpenApi
<1>2. entry \in Catalog /\ entry \in Published /\ MethodOf(entry).rest # None
  BY <1>1 DEF Operations, Published
<1>3. /\ IsRestDiscovery(MethodOf(entry).rest, MethodOf(entry).fields) /\ ~MethodOf(entry).stream
      /\ template \in Routes /\ template \in Seq(Segment)
  BY <1>2, RouteIs
<1>4. path \in RequestPaths /\ path \in Seq(STRING)
  BY <1>3 DEF RequestsFillRoutes
<1>5. IsSimple(template) /\ verb \in Verbs
  BY <1>3 DEF IsRestDiscovery, IsPathTemplate
<1>6. Matches(template, path)
  BY <1>3, <1>5, FilledMatches DEF RequestsFillRoutes
<1>7. entry \in RestMatches(path)
  BY <1>2, <1>3, <1>6 DEF RestMatches
<1>8. ASSUME NEW other \in RestMatches(path), MethodOf(other).rest.verb = verb, other # entry
      PROVE  StaticSegments(MethodOf(other).rest.path.segments) < StaticSegments(template)
  <2> DEFINE its == MethodOf(other).rest.path.segments
  <2>1. /\ other \in Catalog /\ other \in Published /\ MethodOf(other).rest # None
        /\ Matches(its, path) /\ its \in Seq(Segment)
        /\ StaticSegments(its) \in 0..Len(path)
    BY <1>4, <1>8, MatchIs
  <2>2. IsRestDiscovery(MethodOf(other).rest, MethodOf(other).fields) /\ its \in Routes
    BY <2>1, RouteIs
  <2>3. IsSimple(its)
    BY <2>2 DEF IsRestDiscovery, IsPathTemplate
  <2>4. \A i \in DOMAIN its : its[i].kind = "static" => its[i].name # Unnamed
    BY <2>2 DEF RequestsFillRoutes
  <2>5. other \in OpenApi
    BY <1>1, <2>1 DEF Operations
  <2>6. ~SameShape(its, template)
    BY <1>8, <2>5
  <2>7. StaticSegments(template) \in 0..Len(path)
    BY <1>4, <1>7, MatchIs
  <2>8. /\ StaticSegments(its) <= StaticSegments(template)
        /\ StaticSegments(its) # StaticSegments(template)
    BY <1>3, <1>5, <2>1, <2>3, <2>4, <2>6, FilledPrefers
  <2>9. Len(path) \in Nat
    BY <1>4
  <2> QED
    BY <2>1, <2>7, <2>8, <2>9
<1>9. \A order \in Orders : HandleRest(order, verb, path) = entry
  <2> HIDE DEF verb, path
  <2> TAKE order \in Orders
  <2> QED
    BY <1>4, <1>5, <1>7, <1>8, BestIsServed DEF verb
<1> QED
  BY <1>4, <1>9

\* Every operation of the OpenAPI document is run by some request, past every
\* more specific route of any service, unless a second one is documented for
\* the very same requests (openapi.ts against rest.ts).
THEOREM OperationsAreServed == Spec => []DocumentedIsServed
<1>1. TypeOK => DocumentedIsServed
  BY TypedDocumentsServe, DocumentsAssumption, RequestsAssumption
<1> QED
  BY <1>1, ReleasesAreTyped, PTL

\* An input that is meant has the fields it was picked for; a text is one, and
\* a list may be.
LEMMA MeantIs ==
  ASSUME NEW method, NEW meant \in Meant(method)
  PROVE  /\ \E rest \in SUBSET DOMAIN method.fields : DOMAIN meant = InPath(method) \union rest
         /\ meant = [f \in DOMAIN meant |-> meant[f]]
         /\ \A f \in DOMAIN meant \ InPath(method) :
              /\ meant[f] = Value(method.fields[f], meant[f].of)
              /\ method.fields[f] # "texts" => Len(meant[f].of) = 1
<1> DEFINE KindOf(f) == IF f \in InPath(method) THEN "text" ELSE method.fields[f]
<1> DEFINE Values(f) ==
      {Value(KindOf(f), of) : of \in IF KindOf(f) = "texts" THEN {<<"v">>, <<"v", "w">>} ELSE {<<"v">>}}
<1> DEFINE Inputs(fields) ==
      {input \in [fields -> UNION {Values(f) : f \in fields}] : \A f \in fields : input[f] \in Values(f)}
<1>1. Meant(method) = UNION {Inputs(InPath(method) \union rest) : rest \in SUBSET DOMAIN method.fields}
  BY DEF Meant
<1>2. PICK rest \in SUBSET DOMAIN method.fields : meant \in Inputs(InPath(method) \union rest)
  <2> HIDE DEF Inputs
  <2> QED
    BY <1>1
<1>3. /\ DOMAIN meant = InPath(method) \union rest
      /\ meant = [f \in DOMAIN meant |-> meant[f]]
      /\ \A f \in DOMAIN meant : meant[f] \in Values(f)
  <2> HIDE DEF Values
  <2> QED
    BY <1>2
<1>4. ASSUME NEW f \in DOMAIN meant \ InPath(method)
      PROVE  /\ meant[f] = Value(method.fields[f], meant[f].of)
             /\ method.fields[f] # "texts" => Len(meant[f].of) = 1
  <2>1. PICK of \in IF KindOf(f) = "texts" THEN {<<"v">>, <<"v", "w">>} ELSE {<<"v">>} :
          meant[f] = Value(KindOf(f), of)
    BY <1>3
  <2>2. KindOf(f) = method.fields[f] /\ meant[f].of = of
    BY <2>1 DEF Value
  <2>3. method.fields[f] # "texts" => of = <<"v">>
    BY <2>1, <2>2
  <2>4. Len(<<"v">>) = 1
    OBVIOUS
  <2> QED
    BY <2>1, <2>2, <2>3, <2>4
<1> QED
  BY <1>3, <1>4

\* A field that may go to the query is read from there as what it is.
LEMMA QueriedIsRead ==
  ASSUME NEW method, NEW meant \in Meant(method),
         NEW queried \in SUBSET (InQuery(method) \intersect DOMAIN meant), NEW f \in queried
  PROVE  QueryInput([g \in queried |-> meant[g].of], method.fields)[f] = meant[f]
<1> DEFINE query == [g \in queried |-> meant[g].of]
<1>1. /\ f \in DOMAIN meant \ InPath(method) /\ f \in DOMAIN method.fields
      /\ method.fields[f] \in {"text", "texts"}
  BY DEF InQuery
<1>2. /\ meant[f] = Value(method.fields[f], meant[f].of)
      /\ method.fields[f] # "texts" => Len(meant[f].of) = 1
  BY <1>1, MeantIs
<1>3. QueryInput(query, method.fields)[f] =
        Value(IF Len(meant[f].of) = 1 /\ method.fields[f] # "texts" THEN "text" ELSE "texts", meant[f].of)
  BY <1>1 DEF QueryInput
<1> QED
  BY <1>1, <1>2, <1>3

LEMMA MeantIsRead == DocumentedInputIsRead
<1> SUFFICES ASSUME NEW method, NEW meant \in Meant(method),
                    NEW queried \in SUBSET (InQuery(method) \intersect DOMAIN meant)
             PROVE  RestInput([f \in queried |-> meant[f].of],
                                Restrict(meant, (DOMAIN meant \intersect InBody(method)) \ queried),
                                Restrict(meant, InPath(method)), method.fields) = meant
  BY Zenon DEF DocumentedInputIsRead
<1> DEFINE variables == Restrict(meant, InPath(method))
<1> DEFINE inBody == (DOMAIN meant \intersect InBody(method)) \ queried
<1> DEFINE sent == Restrict(meant, inBody)
<1> DEFINE asked == QueryInput([f \in queried |-> meant[f].of], method.fields)
<1> DEFINE below == Over(sent, asked)
<1> DEFINE given == Over(variables, below)
<1>1. PICK rest \in SUBSET DOMAIN method.fields : DOMAIN meant = InPath(method) \union rest
  BY MeantIs
<1>2. /\ variables = [f \in InPath(method) |-> meant[f]]
      /\ sent = [f \in inBody |-> meant[f]]
  BY DEF Restrict
<1>3. DOMAIN asked = queried /\ \A f \in queried : asked[f] = meant[f]
  BY QueriedIsRead DEF QueryInput
<1>4. DOMAIN meant = InPath(method) \union (inBody \union queried)
  BY <1>1 DEF InBody, InQuery
<1> HIDE DEF asked, inBody, variables, sent
<1>5. below = [f \in inBody \union queried |-> meant[f]]
  BY <1>2, <1>3 DEF Over
<1> HIDE DEF below
<1>6. given = [f \in DOMAIN meant |-> meant[f]]
  BY <1>2, <1>4, <1>5 DEF Over
<1>7. given = meant
  BY <1>6, MeantIs
<1> QED
  BY <1>7 DEF RestInput, below, asked, variables, sent, inBody

\* A caller's input is read as it was meant, wherever it put what may go to two
\* places, for a method of any fields and any route (openApiOperation in
\* openapi.ts against restInput in rest.ts).
THEOREM InputsAreRead == Spec => []DocumentedInputIsRead
<1>1. DocumentedInputIsRead
  BY MeantIsRead
<1> QED
  BY <1>1, PTL
=============================================================================
