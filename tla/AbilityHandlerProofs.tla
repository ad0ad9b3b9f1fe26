------------------------ MODULE AbilityHandlerProofs ------------------------
(***************************************************************************)
(* Proofs about the service's end of an ability session: no two sessions   *)
(* share a handler, no value wins its race past the deadline, and whatever *)
(* a body or a source still returns when nobody waits any more is let go.  *)
(*                                                                         *)
(* The argument follows the clock of a session: its budget starts when the *)
(* session is admitted and is not touched again, the timer of a race is    *)
(* armed no later than the budget ends, and time waits for a timer that is *)
(* due.  What is spent stays spent, so a stream that let an item through   *)
(* past the deadline pulls no other.                                       *)
(***************************************************************************)
EXTENDS AbilityHandler, TLAPS

IsUp(s) == session[s].pc \in {"live", "disposed"}

OwnsItsHandler(s) ==
  IsUp(s) => session[s].handler \in Instance /\ holder[session[s].handler] = s

\* A call that has begun is on a session that is or was live, and so is what it
\* was answered with.
IsOnASession(c) ==
  /\ call[c].pc = "idle" => call[c].on = None
  /\ call[c].on # None => IsUp(call[c].on)
  /\ \/ call[c].pc \in {"validating", "racing", "checking"}
     \/ stream[c].state = "open" \/ stream[c].late # 0
     => call[c].on # None

\* The timer of a race is due when the deadline is, at the latest.
RacesItsDeadline(c) ==
  Racing(c) =>
    /\ call[c].body \in {"scheduled", "running"}
    /\ Left(c) # None => call[c].timer \in Nat /\ Left(c) \in Nat /\ call[c].timer <= Left(c)

AnswersOnce(c) ==
  /\ call[c].pc # "answered" => call[c].outcome = "none"
  /\ call[c].pc \in {"idle", "validating"} => call[c].body = "none"
  /\ call[c].outcome \in {"timeout", "spent"} /\ call[c].body = "returned" =>
       call[c].value = "discarded"

SourceIsReleased(c) ==
  stream[c].state \in {"closed", "errored", "cancelled"} => stream[c].source # "live"

\* The one item that may be late was awaited already.
PullsNoneAfterLate(c) ==
  stream[c].late # 0 => stream[c].late = 1 /\ stream[c].pull = "idle" /\ Spent(c)

PerCall(c) ==
  /\ IsOnASession(c) /\ RacesItsDeadline(c) /\ AnswersOnce(c)
  /\ SourceIsReleased(c) /\ PullsNoneAfterLate(c)

HandlerInv ==
  /\ TypeOK
  /\ \A s \in Session : OwnsItsHandler(s)
  /\ \A c \in Call : PerCall(c)

-----------------------------------------------------------------------------
(* Types, by the names the steps below use for them. *)

SessionRecord == [
  pc : {"idle", "verifying", "building", "live", "disposed", "closed"},
  transport : {"none", "http-batch", "session"},
  left : Nat \union {-1, None}, handler : Instance \union {None}]

CallRecord == [
  pc : {"idle", "validating", "racing", "checking", "answered"},
  on : Session \union {None}, kind : {"none", "unary", "stream"}, timer : Nat \union {None},
  body : {"none", "scheduled", "running", "returned", "threw"},
  value : {"none", "held", "delivered", "discarded", "dropped"},
  outcome : {"none", "refused", "invalid", "spent", "timeout", "value", "failed"}]

StreamRecord == [
  state : {"none", "open", "closed", "errored", "cancelled"},
  pull : {"idle", "next", "validating"},
  source : {"none", "live", "done", "released"}, late : Nat]

LEMMA TypedIs ==
  TypeOK <=>
    /\ session \in [Session -> SessionRecord]
    /\ holder \in [Instance -> Session \union {None}]
    /\ call \in [Call -> CallRecord]
    /\ stream \in [Call -> StreamRecord]
BY DEF TypeOK, SessionRecord, CallRecord, StreamRecord

LEMMA Typed ==
  ASSUME TypeOK
  PROVE  /\ session \in [Session -> SessionRecord]
         /\ holder \in [Instance -> Session \union {None}]
         /\ call \in [Call -> CallRecord]
         /\ stream \in [Call -> StreamRecord]
BY TypedIs

LEMMA TypedAgain ==
  ASSUME session' \in [Session -> SessionRecord],
         holder' \in [Instance -> Session \union {None}],
         call' \in [Call -> CallRecord],
         stream' \in [Call -> StreamRecord]
  PROVE  TypeOK'
BY DEF TypeOK, SessionRecord, CallRecord, StreamRecord

LEMMA NoneIsNone ==
  None \notin Int /\ None \notin Session /\ None \notin Instance
BY HandlerAssumption

LEMMA InitHandler == Init => HandlerInv
<1> SUFFICES ASSUME Init PROVE HandlerInv
  OBVIOUS
<1>1. TypeOK
  <2>1. NoSession \in SessionRecord
    BY DEF NoSession, SessionRecord
  <2>2. NoCall \in CallRecord
    BY DEF NoCall, CallRecord
  <2>3. NoStream \in StreamRecord
    BY DEF NoStream, StreamRecord
  <2> QED
    BY <2>1, <2>2, <2>3, TypedIs DEF Init
<1>2. ASSUME NEW s \in Session PROVE OwnsItsHandler(s)
  BY DEF Init, OwnsItsHandler, IsUp, NoSession
<1>3. ASSUME NEW c \in Call PROVE PerCall(c)
  <2>1. call[c] = NoCall /\ stream[c] = NoStream
    BY DEF Init
  <2> QED
    BY <2>1 DEF PerCall, IsOnASession, RacesItsDeadline, AnswersOnce, SourceIsReleased,
       PullsNoneAfterLate, Racing, NoCall, NoStream
<1> QED
  BY <1>1, <1>2, <1>3 DEF HandlerInv

-----------------------------------------------------------------------------
(* What steps have in common. *)

\* A step of one call, and of the stream it was answered with.
LEMMA CallSteps ==
  ASSUME HandlerInv, UNCHANGED <<session, holder>>,
         NEW c \in Call,
         call' \in [Call -> CallRecord], stream' \in [Call -> StreamRecord],
         \A d \in Call \ {c} : call'[d] = call[d] /\ stream'[d] = stream[d],
         PerCall(c)'
  PROVE  HandlerInv'
<1>1. TypeOK'
  BY Typed, TypedAgain DEF HandlerInv
<1>2. ASSUME NEW s \in Session PROVE OwnsItsHandler(s)'
  BY DEF HandlerInv, OwnsItsHandler, IsUp
<1>3. ASSUME NEW d \in Call, d # c PROVE PerCall(d)'
  <2>1. call'[d] = call[d] /\ stream'[d] = stream[d] /\ session' = session
    BY <1>3
  <2> QED
    BY <1>3, <2>1 DEF HandlerInv, PerCall, IsOnASession, RacesItsDeadline, AnswersOnce,
       SourceIsReleased, PullsNoneAfterLate, Racing, Left, Spent, IsUp
<1> QED
  BY <1>1, <1>2, <1>3 DEF HandlerInv

\* A step of one session: once it is up it stays up, on the same clock.
LEMMA SessionSteps ==
  ASSUME HandlerInv, UNCHANGED <<call, stream>>,
         NEW s \in Session,
         session' \in [Session -> SessionRecord],
         holder' \in [Instance -> Session \union {None}],
         \A t \in Session \ {s} : session'[t] = session[t],
         IsUp(s) => IsUp(s)' /\ session'[s].left = session[s].left,
         \A t \in Session : OwnsItsHandler(t)'
  PROVE  HandlerInv'
<1>1. TypeOK'
  BY Typed, TypedAgain DEF HandlerInv
<1>2. ASSUME NEW c \in Call PROVE PerCall(c)'
  <2>1. PerCall(c) /\ call'[c] = call[c] /\ stream'[c] = stream[c] /\ call[c].on \in Session \union {None}
    BY Typed DEF HandlerInv, CallRecord
  <2>2. call[c].on # None =>
          IsUp(call[c].on)' /\ session'[call[c].on].left = session[call[c].on].left
    BY <2>1 DEF PerCall, IsOnASession, IsUp
  <2>3. IsOnASession(c)'
    BY <2>1, <2>2 DEF PerCall, IsOnASession, IsUp
  <2>4. RacesItsDeadline(c)' /\ PullsNoneAfterLate(c)'
    BY <2>1, <2>2 DEF PerCall, IsOnASession, RacesItsDeadline, PullsNoneAfterLate,
       Racing, Left, Spent
  <2>5. AnswersOnce(c)' /\ SourceIsReleased(c)'
    BY <2>1 DEF PerCall, AnswersOnce, SourceIsReleased
  <2> QED
    BY <2>3, <2>4, <2>5 DEF PerCall
<1> QED
  BY <1>1, <1>2 DEF HandlerInv

-----------------------------------------------------------------------------
(* One lemma per step.  Sessions: *)

\* The session of s, at pc, with what else a step sets in it.
LEMMA NotUpKeeps ==
  ASSUME HandlerInv, UNCHANGED <<holder, call, stream>>,
         NEW s \in Session, ~IsUp(s), NEW r \in SessionRecord,
         session' = [session EXCEPT ![s] = r], r.pc \notin {"live", "disposed"}
  PROVE  HandlerInv'
<1>1. session \in [Session -> SessionRecord] /\ holder' \in [Instance -> Session \union {None}]
  BY Typed DEF HandlerInv
<1>2. session'[s] = r /\ \A t \in Session \ {s} : session'[t] = session[t]
  BY <1>1
<1>3. ASSUME NEW t \in Session PROVE OwnsItsHandler(t)'
  <2>1. CASE t = s
    BY <1>2, <2>1 DEF OwnsItsHandler, IsUp
  <2>2. CASE t # s
    BY <1>2, <2>2 DEF HandlerInv, OwnsItsHandler, IsUp
  <2> QED
    BY <2>1, <2>2
<1>4. session' \in [Session -> SessionRecord]
  BY <1>1
<1> QED
  BY <1>1, <1>2, <1>3, <1>4, SessionSteps

LEMMA ConnectKeeps ==
  ASSUME HandlerInv, NEW s \in Session, Connect(s)
  PROVE  HandlerInv'
<1>1. session \in [Session -> SessionRecord]
  BY Typed DEF HandlerInv
<1>2. PICK transport \in {"http-batch", "session"} :
        session' = [session EXCEPT ![s].pc = "verifying", ![s].transport = transport]
  BY DEF Connect
<1> DEFINE r == [session[s] EXCEPT !.pc = "verifying", !.transport = transport]
<1>3. r \in SessionRecord /\ r.pc = "verifying"
  BY <1>1 DEF SessionRecord
<1>4. session' = [session EXCEPT ![s] = r]
  BY <1>1, <1>2 DEF SessionRecord
<1> QED
  BY <1>3, <1>4, NotUpKeeps DEF Connect, IsUp

LEMMA ClosesKeeps ==
  ASSUME HandlerInv, NEW s \in Session, Refuse(s) \/ FactoryFails(s)
  PROVE  HandlerInv'
<1>1. session \in [Session -> SessionRecord]
  BY Typed DEF HandlerInv
<1> DEFINE r == [session[s] EXCEPT !.pc = "closed"]
<1>2. r \in SessionRecord /\ r.pc = "closed"
  BY <1>1 DEF SessionRecord
<1>3. session' = [session EXCEPT ![s] = r]
  BY DEF Refuse, FactoryFails
<1> QED
  BY <1>2, <1>3, NotUpKeeps DEF Refuse, FactoryFails, IsUp

\* A budget is positive, or there is none.
LEMMA ResolvedIsTime ==
  ASSUME NEW asked \in Asked, NEW transport
  PROVE  Resolved(asked, transport) \in Nat \union {None}
BY HandlerAssumption DEF Resolved, AtMost, Times

LEMMA AdmitKeeps ==
  ASSUME HandlerInv, NEW s \in Session, Admit(s)
  PROVE  HandlerInv'
<1>1. session \in [Session -> SessionRecord]
  BY Typed DEF HandlerInv
<1>2. PICK asked \in Asked : session' = [session EXCEPT
        ![s].pc = "building", ![s].left = Resolved(asked, session[s].transport)]
  BY DEF Admit
<1> DEFINE left == Resolved(asked, session[s].transport)
<1>3. left \in Nat \union {None}
  BY ResolvedIsTime
<1>4. session' = [session EXCEPT ![s].pc = "building", ![s].left = left]
  BY <1>2
<1> HIDE DEF left
<1> DEFINE r == [session[s] EXCEPT !.pc = "building", !.left = left]
<1>5. r \in SessionRecord /\ r.pc = "building"
  BY <1>1, <1>3 DEF SessionRecord
<1>6. session' = [session EXCEPT ![s] = r]
  BY <1>1, <1>4 DEF SessionRecord
<1> QED
  BY <1>5, <1>6, NotUpKeeps DEF Admit, IsUp

\* An instance is bound once: who built with it before keeps it.
LEMMA BuildKeeps ==
  ASSUME HandlerInv, NEW s \in Session, Build(s)
  PROVE  HandlerInv'
<1>1. session \in [Session -> SessionRecord] /\ holder \in [Instance -> Session \union {None}]
  BY Typed DEF HandlerInv
<1>2. PICK i \in Instance :
        IF holder[i] # None
        THEN session' = [session EXCEPT ![s].pc = "closed"] /\ UNCHANGED holder
        ELSE /\ holder' = [holder EXCEPT ![i] = s]
             /\ session' = [session EXCEPT ![s].pc = "live", ![s].handler = i]
  BY DEF Build
<1>3. ~IsUp(s) /\ UNCHANGED <<call, stream>>
  BY DEF Build, IsUp
<1>4. CASE holder[i] # None
  <2> DEFINE r == [session[s] EXCEPT !.pc = "closed"]
  <2>1. r \in SessionRecord /\ r.pc = "closed"
    BY <1>1 DEF SessionRecord
  <2>2. session' = [session EXCEPT ![s] = r] /\ UNCHANGED holder
    BY <1>2, <1>4
  <2> QED
    BY <1>3, <2>1, <2>2, NotUpKeeps
<1>5. CASE holder[i] = None
  <2> DEFINE r == [session[s] EXCEPT !.pc = "live", !.handler = i]
  <2>1. r \in SessionRecord /\ r.pc = "live" /\ r.handler = i
    BY <1>1 DEF SessionRecord
  <2>2. session' = [session EXCEPT ![s] = r] /\ holder' = [holder EXCEPT ![i] = s]
    BY <1>1, <1>2, <1>5 DEF SessionRecord
  <2> HIDE DEF r
  <2>3. /\ session' \in [Session -> SessionRecord]
        /\ holder' \in [Instance -> Session \union {None}]
        /\ session'[s] = r /\ holder'[i] = s
        /\ \A t \in Session \ {s} : session'[t] = session[t]
        /\ \A j \in Instance \ {i} : holder'[j] = holder[j]
    BY <1>1, <2>1, <2>2
  <2>4. ASSUME NEW t \in Session PROVE OwnsItsHandler(t)'
    <3>1. CASE t = s
      BY <2>1, <2>3, <3>1 DEF OwnsItsHandler
    <3>2. CASE t # s
      <4>1. IsUp(t) => session[t].handler \in Instance /\ holder[session[t].handler] = t
        BY DEF HandlerInv, OwnsItsHandler
      <4>2. IsUp(t) => session[t].handler # i
        BY <1>5, <4>1, NoneIsNone
      <4> QED
        BY <2>3, <3>2, <4>1, <4>2 DEF OwnsItsHandler, IsUp
    <3> QED
      BY <3>1, <3>2
  <2> QED
    BY <1>3, <2>3, <2>4, SessionSteps
<1> QED
  BY <1>4, <1>5

LEMMA DisposeKeeps ==
  ASSUME HandlerInv, NEW s \in Session, Dispose(s)
  PROVE  HandlerInv'
<1>1. session \in [Session -> SessionRecord] /\ holder \in [Instance -> Session \union {None}]
  BY Typed DEF HandlerInv
<1> DEFINE r == [session[s] EXCEPT !.pc = "disposed"]
<1>2. r \in SessionRecord /\ r.pc = "disposed"
  BY <1>1 DEF SessionRecord
<1>3. r.left = session[s].left /\ r.handler = session[s].handler
  BY <1>1 DEF SessionRecord
<1>4. session' = [session EXCEPT ![s] = r] /\ UNCHANGED <<holder, call, stream>>
  BY DEF Dispose
<1> HIDE DEF r
<1>5. /\ session' \in [Session -> SessionRecord] /\ session'[s] = r
      /\ \A t \in Session \ {s} : session'[t] = session[t]
  BY <1>1, <1>2, <1>4
<1>6. ASSUME NEW t \in Session PROVE OwnsItsHandler(t)'
  <2>1. CASE t = s
    <3>1. IsUp(s)
      BY DEF Dispose, IsUp
    <3> QED
      BY <1>3, <1>4, <1>5, <2>1, <3>1 DEF HandlerInv, OwnsItsHandler
  <2>2. CASE t # s
    BY <1>4, <1>5, <2>2 DEF HandlerInv, OwnsItsHandler, IsUp
  <2> QED
    BY <2>1, <2>2
<1> QED
  BY <1>1, <1>2, <1>3, <1>4, <1>5, <1>6, SessionSteps DEF IsUp

LEMMA SessionStepKeeps ==
  ASSUME HandlerInv, NEW s \in Session, SessionStep(s)
  PROVE  HandlerInv'
BY ConnectKeeps, ClosesKeeps, AdmitKeeps, BuildKeeps, DisposeKeeps DEF SessionStep

-----------------------------------------------------------------------------
(* Time: a timer that is due waits for no tick, so a race is over before its *)
(* deadline has passed, and what is spent stays spent. *)

LEMMA TickKeeps ==
  ASSUME HandlerInv, Tick
  PROVE  HandlerInv'
<1>1. /\ session \in [Session -> SessionRecord]
      /\ call \in [Call -> CallRecord] /\ UNCHANGED <<holder, stream>>
  BY Typed DEF HandlerInv, Tick
<1>2. ASSUME NEW s \in Session
      PROVE  /\ session'[s] \in SessionRecord
             /\ session'[s].pc = session[s].pc /\ session'[s].handler = session[s].handler
             /\ session'[s].left = IF session[s].left \in Nat THEN session[s].left - 1 ELSE session[s].left
  <2>1. session[s] \in SessionRecord
    BY <1>1
  <2>2. session'[s] = [session[s] EXCEPT !.left = IF session[s].left \in Nat THEN session[s].left - 1 ELSE session[s].left]
    BY <2>1 DEF Tick, SessionRecord
  <2>3. (IF session[s].left \in Nat THEN session[s].left - 1 ELSE session[s].left) \in Nat \union {-1, None}
    BY <2>1 DEF SessionRecord
  <2> QED
    BY <2>1, <2>2, <2>3 DEF SessionRecord
<1>3. ASSUME NEW c \in Call
      PROVE  /\ call'[c] \in CallRecord
             /\ call'[c].pc = call[c].pc /\ call'[c].on = call[c].on /\ call'[c].body = call[c].body
             /\ call'[c].value = call[c].value /\ call'[c].outcome = call[c].outcome
             /\ call'[c].timer = IF call[c].timer \in Times THEN call[c].timer - 1 ELSE call[c].timer
  <2>1. call[c] \in CallRecord
    BY <1>1
  <2>2. call'[c] = [call[c] EXCEPT !.timer = IF call[c].timer \in Times THEN call[c].timer - 1 ELSE call[c].timer]
    BY <2>1 DEF Tick, CallRecord
  <2>3. (IF call[c].timer \in Times THEN call[c].timer - 1 ELSE call[c].timer) \in Nat \union {None}
    BY <2>1 DEF CallRecord, Times
  <2> QED
    BY <2>1, <2>2, <2>3 DEF CallRecord
<1>4. TypeOK'
  <2>1. session' \in [Session -> SessionRecord]
    BY <1>2 DEF Tick
  <2>2. call' \in [Call -> CallRecord]
    BY <1>3 DEF Tick
  <2> QED
    BY <1>1, <2>1, <2>2, Typed, TypedAgain DEF HandlerInv
<1>5. ASSUME NEW s \in Session PROVE OwnsItsHandler(s)'
  BY <1>1, <1>2 DEF HandlerInv, OwnsItsHandler, IsUp
<1>6. ASSUME NEW c \in Call PROVE PerCall(c)'
  <2>1. PerCall(c) /\ stream'[c] = stream[c] /\ call[c] \in CallRecord
    BY <1>1 DEF HandlerInv
  <2>2. call[c].on # None => call[c].on \in Session
    BY <2>1 DEF CallRecord
  <2>3. IsOnASession(c)'
    BY <1>2, <1>3, <2>1, <2>2 DEF PerCall, IsOnASession, IsUp
  <2>4. RacesItsDeadline(c)'
    <3>1. SUFFICES ASSUME Racing(c) PROVE RacesItsDeadline(c)'
      BY <1>3 DEF RacesItsDeadline, Racing
    <3>2. call[c].on \in Session /\ call[c].timer # 0
      BY <2>1, <2>2, <3>1 DEF PerCall, IsOnASession, Racing, Tick
    <3>3. /\ Left(c)' = IF Left(c) \in Nat THEN Left(c) - 1 ELSE Left(c)
          /\ call'[c].timer = IF call[c].timer \in Times THEN call[c].timer - 1 ELSE call[c].timer
          /\ call'[c].body = call[c].body
      BY <1>2, <1>3, <3>2 DEF Left
    <3>4. /\ call[c].body \in {"scheduled", "running"}
          /\ Left(c) # None => call[c].timer \in Nat /\ Left(c) \in Nat /\ call[c].timer <= Left(c)
      BY <2>1, <3>1 DEF PerCall, RacesItsDeadline
    <3>5. CASE Left(c) = None
      BY <3>3, <3>4, <3>5, NoneIsNone DEF RacesItsDeadline
    <3>6. CASE Left(c) # None
      <4>1. call[c].timer \in Times /\ Left(c) \in Nat /\ call[c].timer <= Left(c)
        BY <3>2, <3>4, <3>6 DEF Times
      <4>2. Left(c)' = Left(c) - 1 /\ call'[c].timer = call[c].timer - 1
        BY <3>3, <4>1
      <4>3. call'[c].timer \in Nat /\ Left(c)' \in Nat /\ call'[c].timer <= Left(c)'
        BY <4>1, <4>2 DEF Times
      <4> QED
        BY <3>3, <3>4, <4>3 DEF RacesItsDeadline
    <3> QED
      BY <3>5, <3>6
  <2>5. AnswersOnce(c)' /\ SourceIsReleased(c)'
    BY <1>3, <2>1 DEF PerCall, AnswersOnce, SourceIsReleased
  <2>6. PullsNoneAfterLate(c)'
    <3>1. SUFFICES ASSUME stream[c].late # 0 PROVE PullsNoneAfterLate(c)'
      BY <2>1 DEF PullsNoneAfterLate
    <3>2. call[c].on \in Session /\ stream[c].late = 1 /\ stream[c].pull = "idle" /\ Left(c) \in {-1, 0}
      BY <2>1, <2>2, <3>1 DEF PerCall, IsOnASession, PullsNoneAfterLate, Spent
    <3>3. Left(c)' = IF Left(c) \in Nat THEN Left(c) - 1 ELSE Left(c)
      BY <1>2, <1>3, <3>2 DEF Left
    <3> QED
      BY <2>1, <3>2, <3>3 DEF PullsNoneAfterLate, Spent
  <2> QED
    BY <2>3, <2>4, <2>5, <2>6 DEF PerCall
<1> QED
  BY <1>4, <1>5, <1>6 DEF HandlerInv

-----------------------------------------------------------------------------
(* Calls. *)

\* A call moves on; what it was answered with does not.
LEMMA CallMoves ==
  ASSUME HandlerInv, UNCHANGED <<session, holder, stream>>,
         NEW c \in Call, NEW r \in CallRecord, call' = [call EXCEPT ![c] = r],
         r.pc # "idle",
         \/ r.on = call[c].on
         \/ call[c].pc = "idle" /\ r.on \in Session /\ IsUp(r.on),
         r.pc \in {"validating", "racing", "checking"} => r.on # None,
         r.pc = "racing" =>
           /\ r.body \in {"scheduled", "running"}
           /\ session[r.on].left # None =>
                /\ r.timer \in Nat /\ session[r.on].left \in Nat
                /\ r.timer <= session[r.on].left,
         r.pc # "answered" => r.outcome = "none",
         r.pc = "validating" => r.body = "none",
         r.outcome \in {"timeout", "spent"} /\ r.body = "returned" => r.value = "discarded"
  PROVE  HandlerInv'
<1>1. call \in [Call -> CallRecord] /\ stream' \in [Call -> StreamRecord] /\ PerCall(c)
  BY Typed DEF HandlerInv
<1>2. /\ call' \in [Call -> CallRecord] /\ call'[c] = r
      /\ \A d \in Call \ {c} : call'[d] = call[d] /\ stream'[d] = stream[d]
  BY <1>1
<1>3. IsOnASession(c)'
  <2>1. call'[c].on # None => IsUp(call'[c].on)
    BY <1>1, <1>2 DEF PerCall, IsOnASession
  <2>2. stream'[c].state = "open" \/ stream'[c].late # 0 => call'[c].on # None
    BY <1>1, <1>2, NoneIsNone DEF PerCall, IsOnASession
  <2> QED
    BY <1>2, <2>1, <2>2 DEF IsOnASession, IsUp
<1>4. RacesItsDeadline(c)' /\ AnswersOnce(c)'
  BY <1>2 DEF RacesItsDeadline, AnswersOnce, Racing, Left
<1>5. SourceIsReleased(c)'
  BY <1>1 DEF PerCall, SourceIsReleased
<1>6. PullsNoneAfterLate(c)'
  <2>1. SUFFICES ASSUME stream[c].late # 0 PROVE PullsNoneAfterLate(c)'
    BY DEF PullsNoneAfterLate
  <2>2. r.on = call[c].on
    BY <1>1, <2>1 DEF PerCall, IsOnASession
  <2> QED
    BY <1>1, <1>2, <2>1, <2>2 DEF PerCall, PullsNoneAfterLate, Spent, Left
<1> QED
  BY <1>1, <1>2, <1>3, <1>4, <1>5, <1>6, CallSteps DEF PerCall

LEMMA InvokeKeeps ==
  ASSUME HandlerInv, NEW c \in Call, NEW s \in Session, Invoke(c, s)
  PROVE  HandlerInv'
<1>1. call[c] \in CallRecord /\ call \in [Call -> CallRecord] /\ PerCall(c)
  BY Typed DEF HandlerInv
<1>2. PICK kind \in {"unary", "stream"} :
        call' = [call EXCEPT ![c].pc = "validating", ![c].on = s, ![c].kind = kind]
  BY DEF Invoke
<1> DEFINE r == [call[c] EXCEPT !.pc = "validating", !.on = s, !.kind = kind]
<1>3. /\ r \in CallRecord /\ r.pc = "validating" /\ r.on = s
      /\ r.body = call[c].body /\ r.outcome = call[c].outcome
  BY <1>1 DEF CallRecord
<1>4. call' = [call EXCEPT ![c] = r]
  BY <1>1, <1>2 DEF CallRecord
<1>5. call[c].pc = "idle" /\ IsUp(s) /\ UNCHANGED <<session, holder, stream>>
  BY DEF Invoke, IsUp
<1>6. r.body = "none" /\ r.outcome = "none"
  BY <1>1, <1>3, <1>5 DEF PerCall, AnswersOnce
<1> HIDE DEF r
<1> QED
  BY <1>3, <1>4, <1>5, <1>6, NoneIsNone, CallMoves

\* A call that is not run, or whose body has not returned, is answered.
LEMMA AnsweredKeeps ==
  ASSUME HandlerInv, NEW c \in Call, UNCHANGED <<session, holder, stream>>,
         NEW outcome \in {"refused", "invalid", "timeout"}, Answered(c, outcome),
         call[c].body # "returned"
  PROVE  HandlerInv'
<1>1. call[c] \in CallRecord
  BY Typed DEF HandlerInv
<1> DEFINE r == [call[c] EXCEPT !.pc = "answered", !.outcome = outcome]
<1>2. /\ r \in CallRecord /\ r.pc = "answered" /\ r.on = call[c].on
      /\ r.body = call[c].body /\ r.outcome = outcome
  BY <1>1 DEF CallRecord
<1>3. call' = [call EXCEPT ![c] = r]
  BY <1>1, Typed DEF Answered, CallRecord, HandlerInv
<1> HIDE DEF r
<1> QED
  BY <1>2, <1>3, CallMoves

LEMMA InvokeRefusedKeeps ==
  ASSUME HandlerInv, NEW c \in Call, NEW s \in Session, InvokeRefused(c, s)
  PROVE  HandlerInv'
<1>1. call[c].body = "none"
  BY DEF InvokeRefused, HandlerInv, PerCall, AnswersOnce
<1> QED
  BY <1>1, AnsweredKeeps DEF InvokeRefused

LEMMA InputInvalidKeeps ==
  ASSUME HandlerInv, NEW c \in Call, InputInvalid(c)
  PROVE  HandlerInv'
<1>1. call[c].body = "none"
  BY DEF InputInvalid, HandlerInv, PerCall, AnswersOnce
<1> QED
  BY <1>1, AnsweredKeeps DEF InputInvalid

LEMMA TimerFiresKeeps ==
  ASSUME HandlerInv, NEW c \in Call, TimerFires(c)
  PROVE  HandlerInv'
<1>1. call[c].body \in {"scheduled", "running"}
  BY DEF TimerFires, HandlerInv, PerCall, RacesItsDeadline
<1> QED
  BY <1>1, AnsweredKeeps DEF TimerFires

\* The timer a race is armed with: the deadline, unless the ceiling is nearer.
LEMMA BoundIsNearer ==
  ASSUME NEW c \in Call, Left(c) \in Nat \union {None}
  PROVE  /\ Bound(c) \in Nat \union {None}
         /\ Left(c) # None => Bound(c) \in Nat /\ Bound(c) <= Left(c)
BY HandlerAssumption DEF Bound, AtMost, Times

LEMMA InputValidKeeps ==
  ASSUME HandlerInv, NEW c \in Call, InputValid(c)
  PROVE  HandlerInv'
<1>1. /\ call[c] \in CallRecord /\ call \in [Call -> CallRecord] /\ session \in [Session -> SessionRecord]
      /\ UNCHANGED <<session, holder, stream>> /\ PerCall(c) /\ call[c].pc = "validating"
  BY Typed DEF HandlerInv, InputValid
<1>2. call[c].body = "none" /\ call[c].outcome = "none" /\ call[c].on \in Session
  BY <1>1 DEF PerCall, AnswersOnce, IsOnASession, CallRecord
<1>3. CASE session[call[c].on].pc = "disposed"
  <2>1. Answered(c, "refused")
    BY <1>3 DEF InputValid
  <2> QED
    BY <1>1, <1>2, <2>1, AnsweredKeeps
<1>4. CASE session[call[c].on].pc # "disposed" /\ Left(c) \in {-1, 0}
  <2>1. call' = [call EXCEPT ![c].body = "scheduled", ![c].pc = "answered",
                             ![c].outcome = "spent", ![c].timer = None]
    BY <1>4 DEF InputValid
  <2> DEFINE r == [call[c] EXCEPT !.body = "scheduled", !.pc = "answered",
                                  !.outcome = "spent", !.timer = None]
  <2>2. r \in CallRecord /\ r.pc = "answered" /\ r.on = call[c].on /\ r.body = "scheduled"
    BY <1>1 DEF CallRecord
  <2>3. call' = [call EXCEPT ![c] = r]
    BY <1>1, <2>1 DEF CallRecord
  <2> HIDE DEF r
  <2> QED
    BY <1>1, <2>2, <2>3, CallMoves
<1>5. CASE session[call[c].on].pc # "disposed" /\ Left(c) \notin {-1, 0}
  <2>1. Left(c) \in Nat \union {None}
    BY <1>1, <1>2, <1>5 DEF Left, SessionRecord
  <2> DEFINE timer == Bound(c)
  <2>2. timer \in Nat \union {None} /\ (Left(c) # None => timer \in Nat /\ timer <= Left(c))
    BY <2>1, BoundIsNearer
  <2>3. call' = [call EXCEPT ![c].body = "scheduled", ![c].pc = "racing",
                             ![c].outcome = call[c].outcome, ![c].timer = timer]
    BY <1>1, <1>5 DEF InputValid, CallRecord
  <2> HIDE DEF timer
  <2> DEFINE r == [call[c] EXCEPT !.body = "scheduled", !.pc = "racing", !.timer = timer]
  <2>4. /\ r \in CallRecord /\ r.pc = "racing" /\ r.on = call[c].on /\ r.body = "scheduled"
        /\ r.timer = timer /\ r.outcome = call[c].outcome
    BY <1>1, <2>2 DEF CallRecord
  <2>5. call' = [call EXCEPT ![c] = r]
    BY <1>1, <2>3 DEF CallRecord
  <2> HIDE DEF r
  <2>6. session[r.on].left # None =>
          r.timer \in Nat /\ session[r.on].left \in Nat /\ r.timer <= session[r.on].left
    BY <2>1, <2>2, <2>4 DEF Left
  <2>7. r.on # None
    BY <1>2, <2>4, NoneIsNone
  <2> QED
    BY <1>1, <1>2, <2>4, <2>5, <2>6, <2>7, CallMoves
<1> QED
  BY <1>3, <1>4, <1>5

LEMMA StartBodyKeeps ==
  ASSUME HandlerInv, NEW c \in Call, StartBody(c)
  PROVE  HandlerInv'
<1>1. /\ call[c] \in CallRecord /\ call \in [Call -> CallRecord]
      /\ UNCHANGED <<session, holder, stream>> /\ PerCall(c) /\ call[c].body = "scheduled"
  BY Typed DEF HandlerInv, StartBody
<1> DEFINE r == [call[c] EXCEPT !.body = "running"]
<1>2. /\ r \in CallRecord /\ r.pc = call[c].pc /\ r.on = call[c].on /\ r.body = "running"
      /\ r.timer = call[c].timer /\ r.outcome = call[c].outcome
  BY <1>1 DEF CallRecord
<1>3. call' = [call EXCEPT ![c] = r]
  BY DEF StartBody
<1> HIDE DEF r
<1>4. r.pc \notin {"idle", "validating"} /\ (r.pc # "answered" => r.outcome = "none")
  BY <1>1, <1>2 DEF PerCall, AnswersOnce
<1>5. r.pc \in {"racing", "checking"} => r.on # None
  BY <1>1, <1>2 DEF PerCall, IsOnASession
<1>6. r.pc = "racing" /\ session[r.on].left # None =>
        r.timer \in Nat /\ session[r.on].left \in Nat /\ r.timer <= session[r.on].left
  BY <1>1, <1>2 DEF PerCall, RacesItsDeadline, Racing, Left
<1> QED
  BY <1>1, <1>2, <1>3, <1>4, <1>5, <1>6, CallMoves

\* The output was checked.
LEMMA OutputKeeps ==
  ASSUME HandlerInv, NEW c \in Call, OutputValid(c) \/ OutputInvalid(c)
  PROVE  HandlerInv'
<1>1. /\ call[c] \in CallRecord /\ call \in [Call -> CallRecord]
      /\ UNCHANGED <<session, holder, stream>>
  BY Typed DEF HandlerInv, OutputValid, OutputInvalid
<1>2. PICK outcome \in {"value", "invalid"}, value \in {"delivered", "dropped"} :
        call' = [call EXCEPT ![c].pc = "answered", ![c].outcome = outcome, ![c].value = value]
  BY DEF OutputValid, OutputInvalid
<1> DEFINE r == [call[c] EXCEPT !.pc = "answered", !.outcome = outcome, !.value = value]
<1>3. r \in CallRecord /\ r.pc = "answered" /\ r.on = call[c].on /\ r.outcome = outcome
  BY <1>1 DEF CallRecord
<1>4. call' = [call EXCEPT ![c] = r]
  BY <1>1, <1>2 DEF CallRecord
<1> HIDE DEF r
<1> QED
  BY <1>1, <1>3, <1>4, CallMoves

LEMMA WrapperKeeps ==
  ASSUME HandlerInv, NEW c \in Call, Wrapper(c)
  PROVE  HandlerInv'
BY InputValidKeeps, InputInvalidKeeps, StartBodyKeeps, TimerFiresKeeps, OutputKeeps DEF Wrapper

-----------------------------------------------------------------------------
(* Bodies. *)

LEMMA BodyReturnsKeeps ==
  ASSUME HandlerInv, NEW c \in Call, BodyReturns(c)
  PROVE  HandlerInv'
<1>1. /\ call[c] \in CallRecord /\ call \in [Call -> CallRecord]
      /\ UNCHANGED <<session, holder, stream>> /\ PerCall(c) /\ Racing(c)
  BY Typed DEF HandlerInv, BodyReturns
<1>2. call[c].outcome = "none" /\ call[c].on # None
  BY <1>1 DEF PerCall, AnswersOnce, IsOnASession, Racing
<1> DEFINE r == [call[c] EXCEPT !.body = "returned", !.value = "held", !.pc = "checking", !.timer = None]
<1>3. r \in CallRecord /\ r.pc = "checking" /\ r.on = call[c].on /\ r.outcome = call[c].outcome
  BY <1>1 DEF CallRecord
<1>4. call' = [call EXCEPT ![c] = r]
  BY <1>1 DEF BodyReturns, CallRecord
<1> HIDE DEF r
<1> QED
  BY <1>1, <1>2, <1>3, <1>4, CallMoves

LEMMA BodyReturnsLateKeeps ==
  ASSUME HandlerInv, NEW c \in Call, BodyReturnsLate(c)
  PROVE  HandlerInv'
<1>1. /\ call[c] \in CallRecord /\ call \in [Call -> CallRecord]
      /\ UNCHANGED <<session, holder, stream>> /\ PerCall(c)
      /\ call[c].pc # "racing" /\ call[c].body = "running"
  BY Typed DEF HandlerInv, BodyReturnsLate, Racing
<1> DEFINE r == [call[c] EXCEPT !.body = "returned", !.value = "discarded"]
<1>2. /\ r \in CallRecord /\ r.pc = call[c].pc /\ r.on = call[c].on
      /\ r.outcome = call[c].outcome /\ r.value = "discarded"
  BY <1>1 DEF CallRecord
<1>3. call' = [call EXCEPT ![c] = r]
  BY <1>1 DEF BodyReturnsLate, CallRecord
<1> HIDE DEF r
<1>4. /\ r.pc \notin {"idle", "validating", "racing"}
      /\ r.pc # "answered" => r.outcome = "none"
      /\ r.pc = "checking" => r.on # None
  BY <1>1, <1>2 DEF PerCall, AnswersOnce, IsOnASession
<1> QED
  BY <1>1, <1>2, <1>3, <1>4, CallMoves

LEMMA BodyReturnsNoSourceKeeps ==
  ASSUME HandlerInv, NEW c \in Call, BodyReturnsNoSource(c)
  PROVE  HandlerInv'
<1>1. /\ call[c] \in CallRecord /\ call \in [Call -> CallRecord]
      /\ UNCHANGED <<session, holder, stream>>
  BY Typed DEF HandlerInv, BodyReturnsNoSource
<1> DEFINE r == [call[c] EXCEPT !.body = "returned", !.value = "dropped",
                                !.pc = "answered", !.timer = None, !.outcome = "invalid"]
<1>2. r \in CallRecord /\ r.pc = "answered" /\ r.on = call[c].on /\ r.outcome = "invalid"
  BY <1>1 DEF CallRecord
<1>3. call' = [call EXCEPT ![c] = r]
  BY <1>1 DEF BodyReturnsNoSource, CallRecord
<1> HIDE DEF r
<1> QED
  BY <1>1, <1>2, <1>3, CallMoves

LEMMA BodyThrowsKeeps ==
  ASSUME HandlerInv, NEW c \in Call, BodyThrows(c)
  PROVE  HandlerInv'
<1>1. /\ call[c] \in CallRecord /\ call \in [Call -> CallRecord]
      /\ UNCHANGED <<session, holder, stream>>
  BY Typed DEF HandlerInv, BodyThrows
<1> DEFINE outcome == IF Racing(c) THEN "failed" ELSE call[c].outcome
<1>2. outcome \in {"none", "refused", "invalid", "spent", "timeout", "value", "failed"}
  BY <1>1 DEF CallRecord
<1>3. call' = [call EXCEPT ![c].body = "threw", ![c].pc = "answered", ![c].timer = None,
                           ![c].outcome = outcome]
  BY <1>1 DEF BodyThrows, CallRecord
<1> HIDE DEF outcome
<1> DEFINE r == [call[c] EXCEPT !.body = "threw", !.pc = "answered", !.timer = None,
                                !.outcome = outcome]
<1>4. r \in CallRecord /\ r.pc = "answered" /\ r.on = call[c].on /\ r.body = "threw"
  BY <1>1, <1>2 DEF CallRecord
<1>5. call' = [call EXCEPT ![c] = r]
  BY <1>1, <1>3 DEF CallRecord
<1> HIDE DEF r
<1> QED
  BY <1>1, <1>4, <1>5, CallMoves

\* The answer is a stream now: it is open, and let no item through yet.
LEMMA BodyReturnsSourceKeeps ==
  ASSUME HandlerInv, NEW c \in Call, BodyReturnsSource(c)
  PROVE  HandlerInv'
<1>1. /\ call[c] \in CallRecord /\ call \in [Call -> CallRecord]
      /\ stream[c] \in StreamRecord /\ stream \in [Call -> StreamRecord]
      /\ UNCHANGED <<session, holder>> /\ PerCall(c) /\ Racing(c)
  BY Typed DEF HandlerInv, BodyReturnsSource
<1> DEFINE r == [call[c] EXCEPT !.body = "returned", !.value = "delivered",
                                !.pc = "answered", !.timer = None, !.outcome = "value"]
<1> DEFINE q == [stream[c] EXCEPT !.state = "open", !.source = "live"]
<1>2. r \in CallRecord /\ r.pc = "answered" /\ r.on = call[c].on /\ r.outcome = "value"
  BY <1>1 DEF CallRecord
<1>3. q \in StreamRecord /\ q.state = "open" /\ q.late = stream[c].late /\ q.pull = stream[c].pull
  BY <1>1 DEF StreamRecord
<1>4. call' = [call EXCEPT ![c] = r] /\ stream' = [stream EXCEPT ![c] = q]
  BY <1>1 DEF BodyReturnsSource, CallRecord, StreamRecord
<1> HIDE DEF r, q
<1>5. /\ call' \in [Call -> CallRecord] /\ stream' \in [Call -> StreamRecord]
      /\ call'[c] = r /\ stream'[c] = q
      /\ \A d \in Call \ {c} : call'[d] = call[d] /\ stream'[d] = stream[d]
  BY <1>1, <1>2, <1>3, <1>4
<1>6. call[c].on # None /\ IsUp(call[c].on)
  BY <1>1 DEF PerCall, IsOnASession, Racing
<1>7. IsOnASession(c)' /\ RacesItsDeadline(c)' /\ AnswersOnce(c)' /\ SourceIsReleased(c)'
  BY <1>1, <1>2, <1>3, <1>5, <1>6
  DEF IsOnASession, RacesItsDeadline, AnswersOnce, SourceIsReleased, Racing, IsUp
<1>8. PullsNoneAfterLate(c)'
  BY <1>1, <1>2, <1>3, <1>5 DEF PerCall, PullsNoneAfterLate, Spent, Left
<1> QED
  BY <1>1, <1>5, <1>7, <1>8, CallSteps DEF PerCall

LEMMA BodyKeeps ==
  ASSUME HandlerInv, NEW c \in Call, Body(c)
  PROVE  HandlerInv'
BY BodyReturnsKeeps, BodyReturnsSourceKeeps, BodyReturnsNoSourceKeeps, BodyReturnsLateKeeps,
   BodyThrowsKeeps DEF Body

-----------------------------------------------------------------------------
(* Streams. *)

LEMMA StreamMoves ==
  ASSUME HandlerInv, UNCHANGED <<session, holder, call>>,
         NEW c \in Call, NEW q \in StreamRecord, stream' = [stream EXCEPT ![c] = q],
         q.state = "open" => Open(c),
         q.state \in {"closed", "errored", "cancelled"} => q.source # "live",
         q.late # 0 => /\ q.late = 1 /\ q.pull = "idle" /\ Spent(c)
                       /\ Open(c) \/ stream[c].late # 0
  PROVE  HandlerInv'
<1>1. stream \in [Call -> StreamRecord] /\ call' \in [Call -> CallRecord] /\ PerCall(c)
  BY Typed DEF HandlerInv
<1>2. /\ stream' \in [Call -> StreamRecord] /\ stream'[c] = q
      /\ \A d \in Call \ {c} : call'[d] = call[d] /\ stream'[d] = stream[d]
  BY <1>1
<1>3. IsOnASession(c)'
  BY <1>1, <1>2 DEF PerCall, IsOnASession, IsUp, Open
<1>4. RacesItsDeadline(c)' /\ AnswersOnce(c)'
  BY <1>1 DEF PerCall, RacesItsDeadline, AnswersOnce, Racing, Left
<1>5. SourceIsReleased(c)' /\ PullsNoneAfterLate(c)'
  BY <1>2 DEF SourceIsReleased, PullsNoneAfterLate, Spent, Left
<1> QED
  BY <1>1, <1>2, <1>3, <1>4, <1>5, CallSteps DEF PerCall

LEMMA PullFailsKeeps ==
  ASSUME HandlerInv, UNCHANGED <<session, holder, call>>, NEW c \in Call, PullFails(c)
  PROVE  HandlerInv'
<1>1. stream[c] \in StreamRecord /\ stream \in [Call -> StreamRecord] /\ PerCall(c)
  BY Typed DEF HandlerInv
<1> DEFINE q == [stream[c] EXCEPT !.pull = "idle", !.source = "released",
                                  !.state = IF Open(c) THEN "errored" ELSE stream[c].state]
<1>2. /\ q \in StreamRecord /\ q.state # "open" /\ q.pull = "idle" /\ q.source = "released"
      /\ q.late = stream[c].late
  BY <1>1 DEF StreamRecord, Open
<1>3. stream' = [stream EXCEPT ![c] = q]
  BY <1>1 DEF PullFails, StreamRecord
<1> HIDE DEF q
<1>4. stream[c].late # 0 => stream[c].late = 1 /\ Spent(c)
  BY <1>1 DEF PerCall, PullsNoneAfterLate
<1> QED
  BY <1>2, <1>3, <1>4, StreamMoves

\* A pull is only begun in time: no item was late yet.
LEMMA PullKeeps ==
  ASSUME HandlerInv, NEW c \in Call, Pull(c)
  PROVE  HandlerInv'
<1>1. /\ stream[c] \in StreamRecord /\ PerCall(c) /\ UNCHANGED <<session, holder, call>>
      /\ Open(c)
  BY Typed DEF HandlerInv, Pull
<1>2. CASE Spent(c)
  BY <1>1, <1>2, PullFailsKeeps DEF Pull
<1>3. CASE ~Spent(c)
  <2> DEFINE q == [stream[c] EXCEPT !.pull = "next"]
  <2>1. q \in StreamRecord /\ q.state = "open" /\ q.late = stream[c].late
    BY <1>1 DEF StreamRecord, Open
  <2>2. stream' = [stream EXCEPT ![c] = q]
    BY <1>3 DEF Pull
  <2> HIDE DEF q
  <2>3. stream[c].late = 0
    BY <1>1, <1>3 DEF PerCall, PullsNoneAfterLate
  <2> QED
    BY <1>1, <2>1, <2>2, <2>3, StreamMoves
<1> QED
  BY <1>2, <1>3

LEMMA SourceYieldsKeeps ==
  ASSUME HandlerInv, NEW c \in Call, SourceYields(c)
  PROVE  HandlerInv'
<1>1. /\ stream[c] \in StreamRecord /\ PerCall(c) /\ UNCHANGED <<session, holder, call>>
      /\ stream[c].pull = "next"
  BY Typed DEF HandlerInv, SourceYields
<1> DEFINE q == [stream[c] EXCEPT !.pull = "validating"]
<1>2. /\ q \in StreamRecord /\ q.state = stream[c].state /\ q.source = stream[c].source
      /\ q.late = stream[c].late
  BY <1>1 DEF StreamRecord
<1>3. stream' = [stream EXCEPT ![c] = q]
  BY DEF SourceYields
<1> HIDE DEF q
<1>4. stream[c].late = 0 /\ SourceIsReleased(c)
  BY <1>1 DEF PerCall, PullsNoneAfterLate
<1> QED
  BY <1>1, <1>2, <1>3, <1>4, StreamMoves DEF SourceIsReleased, Open

LEMMA SourceEndsKeeps ==
  ASSUME HandlerInv, NEW c \in Call, SourceEnds(c)
  PROVE  HandlerInv'
<1>1. /\ stream[c] \in StreamRecord /\ stream \in [Call -> StreamRecord] /\ PerCall(c)
      /\ UNCHANGED <<session, holder, call>> /\ stream[c].pull = "next"
  BY Typed DEF HandlerInv, SourceEnds
<1>2. CASE Open(c)
  <2> DEFINE q == [stream[c] EXCEPT !.pull = "idle", !.state = "closed", !.source = "done"]
  <2>1. q \in StreamRecord /\ q.state = "closed" /\ q.source = "done" /\ q.late = stream[c].late
    BY <1>1 DEF StreamRecord
  <2>2. stream' = [stream EXCEPT ![c] = q]
    BY <1>1, <1>2 DEF SourceEnds, StreamRecord
  <2> HIDE DEF q
  <2>3. stream[c].late = 0
    BY <1>1 DEF PerCall, PullsNoneAfterLate
  <2> QED
    BY <1>1, <2>1, <2>2, <2>3, StreamMoves
<1>3. CASE ~Open(c)
  BY <1>1, <1>3, PullFailsKeeps DEF SourceEnds
<1> QED
  BY <1>2, <1>3

\* The item that was awaited is let through, late or not.
LEMMA ItemValidKeeps ==
  ASSUME HandlerInv, NEW c \in Call, ItemValid(c)
  PROVE  HandlerInv'
<1>1. /\ stream[c] \in StreamRecord /\ stream \in [Call -> StreamRecord] /\ PerCall(c)
      /\ UNCHANGED <<session, holder, call>> /\ stream[c].pull = "validating"
  BY Typed DEF HandlerInv, ItemValid
<1>2. CASE Open(c)
  <2>1. stream[c].late = 0
    BY <1>1 DEF PerCall, PullsNoneAfterLate
  <2> DEFINE late == IF Spent(c) THEN 1 ELSE 0
  <2> DEFINE q == [stream[c] EXCEPT !.pull = "idle", !.late = late]
  <2>2. late \in Nat /\ stream' = [stream EXCEPT ![c].pull = "idle", ![c].late = late]
    BY <1>1, <1>2, <2>1 DEF ItemValid, StreamRecord
  <2>3. late # 0 => late = 1 /\ Spent(c)
    OBVIOUS
  <2> HIDE DEF late
  <2>4. q \in StreamRecord /\ q.state = "open" /\ q.pull = "idle" /\ q.late = late
    BY <1>1, <1>2, <2>2 DEF StreamRecord, Open
  <2>5. stream' = [stream EXCEPT ![c] = q]
    BY <1>1, <2>2 DEF StreamRecord
  <2> HIDE DEF q
  <2> QED
    BY <1>1, <1>2, <2>3, <2>4, <2>5, StreamMoves
<1>3. CASE ~Open(c)
  BY <1>1, <1>3, PullFailsKeeps DEF ItemValid
<1> QED
  BY <1>2, <1>3

LEMMA CancelKeeps ==
  ASSUME HandlerInv, NEW c \in Call, Cancel(c)
  PROVE  HandlerInv'
<1>1. /\ stream[c] \in StreamRecord /\ stream \in [Call -> StreamRecord] /\ PerCall(c)
      /\ UNCHANGED <<session, holder, call>>
  BY Typed DEF HandlerInv, Cancel
<1> DEFINE q == [stream[c] EXCEPT !.state = "cancelled", !.source = "released"]
<1>2. /\ q \in StreamRecord /\ q.state = "cancelled" /\ q.source = "released"
      /\ q.pull = stream[c].pull /\ q.late = stream[c].late
  BY <1>1 DEF StreamRecord
<1>3. stream' = [stream EXCEPT ![c] = q]
  BY <1>1 DEF Cancel, StreamRecord
<1> HIDE DEF q
<1>4. stream[c].late # 0 => stream[c].late = 1 /\ stream[c].pull = "idle" /\ Spent(c)
  BY <1>1 DEF PerCall, PullsNoneAfterLate
<1> QED
  BY <1>1, <1>2, <1>3, <1>4, StreamMoves

LEMMA StreamStepKeeps ==
  ASSUME HandlerInv, NEW c \in Call, StreamStep(c)
  PROVE  HandlerInv'
BY PullKeeps, SourceYieldsKeeps, SourceEndsKeeps, PullFailsKeeps, ItemValidKeeps, CancelKeeps
DEF StreamStep, SourceThrows, ItemInvalid

-----------------------------------------------------------------------------
(* The invariant, and what it is for. *)

LEMMA NextKeeps ==
  ASSUME HandlerInv, [Next]_vars
  PROVE  HandlerInv'
<1>1. CASE Tick
  BY <1>1, TickKeeps
<1>2. ASSUME NEW s \in Session, SessionStep(s) PROVE HandlerInv'
  BY <1>2, SessionStepKeeps
<1>3. ASSUME NEW s \in Session, NEW c \in Call, Invoke(c, s) \/ InvokeRefused(c, s)
      PROVE HandlerInv'
  BY <1>3, InvokeKeeps, InvokeRefusedKeeps
<1>4. ASSUME NEW c \in Call, Wrapper(c) \/ Body(c) \/ StreamStep(c) PROVE HandlerInv'
  BY <1>4, WrapperKeeps, BodyKeeps, StreamStepKeeps
<1>5. CASE UNCHANGED vars
  <2>1. UNCHANGED session /\ UNCHANGED holder /\ UNCHANGED call /\ UNCHANGED stream
    BY <1>5 DEF vars
  <2>2. TypeOK'
    BY <2>1, Typed, TypedAgain DEF HandlerInv
  <2>3. ASSUME NEW s \in Session PROVE OwnsItsHandler(s)'
    BY <2>1 DEF HandlerInv, OwnsItsHandler, IsUp
  <2>4. ASSUME NEW c \in Call PROVE PerCall(c)'
    BY <2>1 DEF HandlerInv, PerCall, IsOnASession, RacesItsDeadline, AnswersOnce,
       SourceIsReleased, PullsNoneAfterLate, Racing, Left, Spent, IsUp
  <2> QED
    BY <2>2, <2>3, <2>4 DEF HandlerInv
<1> QED
  BY <1>1, <1>2, <1>3, <1>4, <1>5 DEF Next

LEMMA HandlerInvariance == Spec => []HandlerInv
<1>1. Init => HandlerInv
  BY InitHandler
<1>2. HandlerInv /\ [Next]_vars => HandlerInv'
  BY NextKeeps
<1> QED
  BY <1>1, <1>2, PTL DEF Spec

\* An instance that a factory hands out twice serves one session only, so the
\* identity a call runs under is that of the session it arrived on: of any
\* number of sessions, connecting in any order.  Every variable keeps its type.
THEOREM HandlersStayOwn == Spec => []HandlersAreNotShared
<1>1. HandlerInv => HandlersAreNotShared
  BY DEF HandlerInv, HandlersAreNotShared, OwnsItsHandler, IsUp
<1> QED
  BY <1>1, HandlerInvariance, PTL

\* Whenever a body returns after its caller was told of a timeout, its value is
\* released.
THEOREM LateIsReleased == Spec => []LateValuesAreReleased
<1>1. HandlerInv => LateValuesAreReleased
  BY DEF HandlerInv, PerCall, AnswersOnce, LateValuesAreReleased
<1> QED
  BY <1>1, HandlerInvariance, PTL

\* However a stream ends, and whatever pull was pending, its source is released.
THEOREM SourcesAreReleased == Spec => []StreamSourcesAreReleased
<1>1. HandlerInv => StreamSourcesAreReleased
  BY DEF HandlerInv, PerCall, SourceIsReleased, StreamSourcesAreReleased
<1> QED
  BY <1>1, HandlerInvariance, PTL

\* A stream past its deadline lets through the one item it awaited, at most.
THEOREM OneLateItem == Spec => []AtMostOneLateItem
<1>1. HandlerInv => AtMostOneLateItem
  <2> SUFFICES ASSUME HandlerInv, NEW c \in Call PROVE stream[c].late <= 1
    BY DEF AtMostOneLateItem
  <2>1. stream[c].late # 0 => stream[c].late = 1
    BY DEF HandlerInv, PerCall, PullsNoneAfterLate
  <2> QED
    BY <2>1
<1> QED
  BY <1>1, HandlerInvariance, PTL

\* Whatever ceiling a method has, a race is over when the deadline passes: no
\* step lets a value win it then.
THEOREM DeadlineHolds == Spec => NoAnswerPastTheDeadline
<1>1. HandlerInv /\ [Next]_vars
        => [\A c \in Call : Racing(c) /\ call'[c].body = "returned" => Left(c) # -1]_vars
  <2> SUFFICES ASSUME HandlerInv, NEW c \in Call, Racing(c) PROVE Left(c) # -1
    OBVIOUS
  <2>1. Left(c) = None \/ Left(c) \in Nat
    BY DEF HandlerInv, PerCall, RacesItsDeadline
  <2> QED
    BY <2>1, NoneIsNone
<1> QED
  BY <1>1, HandlerInvariance, PTL DEF Spec, NoAnswerPastTheDeadline

-----------------------------------------------------------------------------
(* Both bounds of a wait. *)

\* The timer of a race is due when the ceiling of its method is, at the latest.
RacesItsCeiling(c) ==
  Racing(c) /\ call[c].kind = "unary" /\ Ceiling # None => call[c].timer \in 0..Ceiling

CeilingsHold == \A c \in Call : RacesItsCeiling(c)

LEMMA BoundIsWithinCeiling ==
  ASSUME NEW c \in Call, Left(c) \in Nat \union {None},
         call[c].kind = "unary", Ceiling # None
  PROVE  Bound(c) \in 0..Ceiling
BY HandlerAssumption DEF Bound, AtMost, Times

\* Where no timer is armed, none is moved.
LEMMA RacesAsBefore ==
  ASSUME NEW c \in Call, RacesItsCeiling(c),
         call'[c].pc = "racing" =>
           /\ call[c].pc = "racing"
           /\ call'[c].kind = call[c].kind /\ call'[c].timer = call[c].timer
  PROVE  RacesItsCeiling(c)'
BY DEF RacesItsCeiling, Racing

LEMMA TickKeepsCeiling ==
  ASSUME HandlerInv, Tick, NEW c \in Call, RacesItsCeiling(c)
  PROVE  RacesItsCeiling(c)'
<1>1. call[c] \in CallRecord
  BY Typed DEF HandlerInv
<1>2. /\ call'[c].pc = call[c].pc /\ call'[c].kind = call[c].kind
      /\ call'[c].timer = IF call[c].timer \in Times THEN call[c].timer - 1 ELSE call[c].timer
  BY <1>1 DEF Tick, CallRecord
<1>3. Ceiling # None => Ceiling \in Nat
  BY HandlerAssumption DEF Times
<1> QED
  BY <1>1, <1>2, <1>3 DEF RacesItsCeiling, Racing, Times

LEMMA InputValidArms ==
  ASSUME HandlerInv, NEW c \in Call, InputValid(c), CeilingsHold
  PROVE  CeilingsHold'
<1>1. /\ call[c] \in CallRecord /\ call \in [Call -> CallRecord]
      /\ session \in [Session -> SessionRecord] /\ PerCall(c) /\ call[c].pc = "validating"
  BY Typed DEF HandlerInv, InputValid
<1>2. call[c].on \in Session
  BY <1>1 DEF PerCall, IsOnASession, CallRecord
<1>3. \A d \in Call \ {c} : call'[d] = call[d]
  BY <1>1 DEF InputValid, Answered
<1>4. RacesItsCeiling(c)'
  <2>1. CASE session[call[c].on].pc = "disposed" \/ Left(c) \in {-1, 0}
    <3>1. call'[c].pc = "answered"
      BY <1>1, <2>1 DEF InputValid, Answered, CallRecord
    <3> QED
      BY <3>1 DEF RacesItsCeiling, Racing
  <2>2. CASE session[call[c].on].pc # "disposed" /\ Left(c) \notin {-1, 0}
    <3>1. call'[c].kind = call[c].kind /\ call'[c].timer = Bound(c)
      BY <1>1, <2>2 DEF InputValid, CallRecord
    <3>2. Left(c) \in Nat \union {None}
      BY <1>1, <1>2, <2>2 DEF Left, SessionRecord
    <3> QED
      BY <3>1, <3>2, BoundIsWithinCeiling DEF RacesItsCeiling
  <2> QED
    BY <2>1, <2>2
<1> QED
  BY <1>3, <1>4, RacesAsBefore DEF CeilingsHold

\* The other steps of a call end its race or leave its timer alone.
LEMMA CallKeepsCeiling ==
  ASSUME HandlerInv, NEW c \in Call,
         \/ InputInvalid(c) \/ StartBody(c) \/ TimerFires(c) \/ OutputValid(c) \/ OutputInvalid(c)
         \/ Body(c) \/ StreamStep(c) \/ \E s \in Session : Invoke(c, s) \/ InvokeRefused(c, s)
  PROVE  \A d \in Call : call'[d].pc = "racing" =>
           /\ call[d].pc = "racing"
           /\ call'[d].kind = call[d].kind /\ call'[d].timer = call[d].timer
<1>1. call \in [Call -> CallRecord]
  BY Typed DEF HandlerInv
<1>2. CASE StreamStep(c)
  BY <1>2 DEF StreamStep, Pull, SourceYields, SourceEnds, SourceThrows, ItemValid, ItemInvalid, Cancel
<1>3. CASE InputInvalid(c) \/ TimerFires(c) \/ OutputValid(c) \/ OutputInvalid(c)
  BY <1>1, <1>3 DEF InputInvalid, TimerFires, OutputValid, OutputInvalid, Answered, CallRecord
<1>4. CASE StartBody(c) \/ BodyReturnsLate(c)
  BY <1>1, <1>4 DEF StartBody, BodyReturnsLate, CallRecord
<1>5. CASE BodyReturns(c) \/ BodyReturnsSource(c) \/ BodyReturnsNoSource(c)
  BY <1>1, <1>5 DEF BodyReturns, BodyReturnsSource, BodyReturnsNoSource, CallRecord
<1>6. CASE BodyThrows(c)
  BY <1>1, <1>6 DEF BodyThrows, CallRecord
<1>7. ASSUME NEW s \in Session, Invoke(c, s) \/ InvokeRefused(c, s)
      PROVE  call'[c].pc # "racing" /\ \A d \in Call \ {c} : call'[d] = call[d]
  <2>1. CASE InvokeRefused(c, s)
    <3>1. call' = [call EXCEPT ![c].pc = "answered", ![c].outcome = "refused"]
      BY <2>1 DEF InvokeRefused, Answered
    <3>2. call'[c].pc = "answered" /\ \A d \in Call \ {c} : call'[d] = call[d]
      BY <1>1, <3>1, SMT DEF CallRecord
    <3> QED
      BY <3>2
  <2>2. CASE Invoke(c, s)
    <3>1. PICK kind \in {"unary", "stream"} :
            call' = [call EXCEPT ![c].pc = "validating", ![c].on = s, ![c].kind = kind]
      BY <2>2 DEF Invoke
    <3>2. call'[c].pc = "validating" /\ \A d \in Call \ {c} : call'[d] = call[d]
      BY <1>1, <3>1, SMT DEF CallRecord
    <3> QED
      BY <3>2
  <2> QED
    BY <1>7, <2>1, <2>2
<1> QED
  BY <1>2, <1>3, <1>4, <1>5, <1>6, <1>7 DEF Body

\* Whoever waits for a body waits no longer than the budget of its session and
\* the ceiling of its method leave it, whichever is nearer when the race begins:
\* for any budgets a policy resolves to and any number of calls of a session.
THEOREM WaitsEnd == Spec => []WaitsAreBounded
<1>1. Init => CeilingsHold
  BY DEF Init, NoCall, CeilingsHold, RacesItsCeiling, Racing
<1>2. ASSUME HandlerInv, CeilingsHold, [Next]_vars PROVE CeilingsHold'
  <2>1. CASE Tick
    BY <1>2, <2>1, TickKeepsCeiling DEF CeilingsHold
  <2>2. ASSUME NEW c \in Call, InputValid(c) PROVE CeilingsHold'
    BY <1>2, <2>2, InputValidArms
  <2>3. ASSUME NEW c \in Call,
               \/ InputInvalid(c) \/ StartBody(c) \/ TimerFires(c) \/ OutputValid(c)
               \/ OutputInvalid(c) \/ Body(c) \/ StreamStep(c)
               \/ \E s \in Session : Invoke(c, s) \/ InvokeRefused(c, s)
        PROVE  CeilingsHold'
    BY <1>2, <2>3, CallKeepsCeiling, RacesAsBefore DEF CeilingsHold
  <2>4. CASE UNCHANGED call
    BY <1>2, <2>4, RacesAsBefore DEF CeilingsHold
  <2>5. ASSUME NEW s \in Session, SessionStep(s) PROVE CeilingsHold'
    BY <2>4, <2>5 DEF SessionStep, Connect, Refuse, Admit, FactoryFails, Build, Dispose
  <2>6. ASSUME NEW s \in Session, NEW c \in Call, Invoke(c, s) \/ InvokeRefused(c, s)
        PROVE  CeilingsHold'
    BY <2>3, <2>6
  <2>7. ASSUME NEW c \in Call, Wrapper(c) \/ Body(c) \/ StreamStep(c) PROVE CeilingsHold'
    BY <2>2, <2>3, <2>7 DEF Wrapper
  <2>8. CASE UNCHANGED vars
    BY <2>4, <2>8 DEF vars
  <2> QED
    BY <1>2, <2>1, <2>5, <2>6, <2>7, <2>8 DEF Next
<1>3. ASSUME HandlerInv, CeilingsHold PROVE WaitsAreBounded
  <2> SUFFICES ASSUME NEW c \in Call, Racing(c)
               PROVE  /\ Left(c) # None => call[c].timer \in 0..Left(c)
                      /\ call[c].kind = "unary" /\ Ceiling # None => call[c].timer \in 0..Ceiling
    BY DEF WaitsAreBounded
  <2>1. Left(c) # None => call[c].timer \in Nat /\ Left(c) \in Nat /\ call[c].timer <= Left(c)
    BY <1>3 DEF HandlerInv, PerCall, RacesItsDeadline
  <2> QED
    BY <1>3, <2>1 DEF CeilingsHold, RacesItsCeiling
<1> QED
  BY <1>1, <1>2, <1>3, HandlerInvariance, PTL DEF Spec

=============================================================================
