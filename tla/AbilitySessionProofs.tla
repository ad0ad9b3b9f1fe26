------------------------ MODULE AbilitySessionProofs ------------------------
(***************************************************************************)
(* Proofs about the caller's end of an ability session: nothing stays open *)
(* at the peer beyond the session, a failed opening is forgotten by who is *)
(* told of it and forgets no other, and a disposed session calls nothing.  *)
(*                                                                         *)
(* The argument is that a session transport has one opening at a time: the *)
(* one calls join, until it failed and one of them resumes, or until the   *)
(* session is disposed, after which none is begun.  So whatever is opened  *)
(* or released while another opening counts is opened by that one.         *)
(***************************************************************************)
EXTENDS AbilitySession, TLAPS

UnderWay(c) == opening[c] \in {"asking", "tokened", "connecting"}

\* Under way, or done: it may have something open at the peer.
Counts(c) == UnderWay(c) \/ opening[c] = "opened"

PerCallSharesNothing == transport = "per-call" => current = None /\ target = None

ConnectingIsNative == \A c \in Call : opening[c] = "connecting" => transport = "native"

DisposedJoinsNothing == disposed => current = None

OneOpeningCounts ==
  transport # "per-call" =>
    /\ \A c, d \in Call : Counts(c) /\ Counts(d) => c = d
    /\ ~disposed => \A c \in Call : Counts(c) => current = c

TargetIsOpened == ~disposed /\ target # None => opening[target] = "opened"

ReleasedIsOver ==
  \A c \in Call : released[c] # 0 =>
    opening[c] = "failed" \/ (disposed /\ opening[c] = "opened")

NativeReleasesLast ==
  transport = "native" =>
    \A d \in Call : released[d] # 0 => disposed /\ \A c \in Call : ~UnderWay(c)

Session ==
  /\ PerCallSharesNothing /\ ConnectingIsNative /\ DisposedJoinsNothing
  /\ OneOpeningCounts /\ TargetIsOpened
  /\ ReleasedIsOver /\ NativeReleasesLast
  /\ HeldOnlyWhileInUse

NothingBeforeItBegins(c) ==
  call[c].pc = "idle" => opening[c] = "none" /\ call[c].on = None

\* A call that is past its await knows how the opening it awaited ended.
KnowsItsOpening(c) ==
  transport # "per-call" =>
    /\ call[c].pc = "called" => call[c].on \in Call /\ opening[call[c].on] = "opened"
    /\ call[c].pc \in {"returned", "failed"} /\ call[c].on # None =>
         opening[call[c].on] \in {"opened", "failed"}

JoinsAnother(c) ==
  call[c].pc = "failed" /\ call[c].on # None /\ opening[call[c].on] = "failed"
    => current # call[c].on

PerCall(c) == NothingBeforeItBegins(c) /\ KnowsItsOpening(c) /\ JoinsAnother(c)

SessionInv == TypeOK /\ Session /\ \A c \in Call : PerCall(c)

-----------------------------------------------------------------------------
(* Types, by the names the steps below use for them. *)

Progress == {"none", "asking", "tokened", "connecting", "opened", "failed"}

CallRecord == [pc : {"idle", "awaiting", "called", "returned", "failed"},
               on : Call \union {None}, told : {"nothing", "outcome", "timeout"}]

ProviderRecord == [usable : BOOLEAN, request : {"none", "sent", "storing"}]

LEMMA Typed ==
  ASSUME TypeOK
  PROVE  /\ transport \in {"per-call", "socket", "native"}
         /\ disposed \in BOOLEAN
         /\ current \in Call \union {None} /\ target \in Call \union {None}
         /\ held \subseteq Call /\ released \in [Call -> Nat]
         /\ opening \in [Call -> Progress]
         /\ call \in [Call -> CallRecord]
         /\ \A c \in Call : call[c].pc = "awaiting" => call[c].on \in Call
         /\ provider \in ProviderRecord
         /\ None \notin Call
BY NoneAssumption DEF TypeOK, Progress, CallRecord, ProviderRecord

LEMMA TypedAgain ==
  ASSUME TypeOK, UNCHANGED options,
         disposed' \in BOOLEAN,
         current' \in Call \union {None}, target' \in Call \union {None},
         held' \subseteq Call, released' \in [Call -> Nat],
         opening' \in [Call -> Progress],
         call' \in [Call -> CallRecord],
         \A c \in Call : call'[c].pc = "awaiting" => call'[c].on \in Call,
         provider' \in ProviderRecord
  PROVE  TypeOK'
BY DEF TypeOK, options, Progress, CallRecord, ProviderRecord

LEMMA InitSession == Init => SessionInv
<1> SUFFICES ASSUME Init PROVE SessionInv
  OBVIOUS
<1>1. TypeOK
  BY DEF Init, TypeOK
<1>2. Session
  BY DEF Init, Session, PerCallSharesNothing, ConnectingIsNative, DisposedJoinsNothing,
     OneOpeningCounts, TargetIsOpened, ReleasedIsOver, NativeReleasesLast,
     HeldOnlyWhileInUse, Counts, UnderWay
<1>3. ASSUME NEW c \in Call PROVE PerCall(c)
  BY DEF Init, PerCall, NothingBeforeItBegins, KnowsItsOpening, JoinsAnother
<1> QED
  BY <1>1, <1>2, <1>3 DEF SessionInv

-----------------------------------------------------------------------------
(* What steps have in common. *)

\* The call of c, told or not, is at pc.
CallIsAt(c, pc) ==
  \E told \in {"nothing", "outcome", "timeout"} :
    call' = [call EXCEPT ![c] = [pc |-> pc, on |-> call[c].on, told |-> told]]

LEMMA OverIsAt ==
  ASSUME TypeOK, NEW c \in Call, NEW pc \in {"returned", "failed"}, Over(c, pc)
  PROVE  CallIsAt(c, pc)
<1> DEFINE told == IF call[c].told = "nothing" THEN "outcome" ELSE call[c].told
<1>1. call \in [Call -> CallRecord]
  BY Typed
<1>2. told \in {"nothing", "outcome", "timeout"}
  BY <1>1 DEF CallRecord
<1>3. call' = [call EXCEPT ![c] = [pc |-> pc, on |-> call[c].on, told |-> told]]
  <2>1. call[c] = [pc |-> call[c].pc, on |-> call[c].on, told |-> call[c].told]
    BY <1>1 DEF CallRecord
  <2> DEFINE at == [call EXCEPT ![c] = [call[c] EXCEPT !.pc = pc]]
  <2>2. at[c] = [pc |-> pc, on |-> call[c].on, told |-> call[c].told]
    BY <1>1, <2>1
  <2>3. call' = [at EXCEPT ![c] = [at[c] EXCEPT !.told = told]]
    BY <1>1 DEF Over
  <2>4. [at[c] EXCEPT !.told = told] = [pc |-> pc, on |-> call[c].on, told |-> told]
    BY <2>2
  <2>5. \A r : [at EXCEPT ![c] = r] = [call EXCEPT ![c] = r]
    BY <1>1
  <2> QED
    BY <2>3, <2>4, <2>5
<1> HIDE DEF told
<1> QED
  BY <1>2, <1>3 DEF CallIsAt

LEMMA CalledIsAt ==
  ASSUME TypeOK, NEW c \in Call, call' = [call EXCEPT ![c].pc = "called"]
  PROVE  CallIsAt(c, "called")
<1>1. call \in [Call -> CallRecord]
  BY Typed
<1>2. call[c].told \in {"nothing", "outcome", "timeout"}
  BY <1>1 DEF CallRecord
<1>3. call' = [call EXCEPT ![c] = [pc |-> "called", on |-> call[c].on, told |-> call[c].told]]
  <2>1. call[c] = [pc |-> call[c].pc, on |-> call[c].on, told |-> call[c].told]
    BY <1>1 DEF CallRecord
  <2>2. [call[c] EXCEPT !.pc = "called"] = [pc |-> "called", on |-> call[c].on, told |-> call[c].told]
    BY <2>1
  <2>3. call' = [call EXCEPT ![c] = [call[c] EXCEPT !.pc = "called"]]
    BY <1>1
  <2> QED
    BY <2>2, <2>3
<1> QED
  BY <1>2, <1>3 DEF CallIsAt

LEMMA CallIsAtTyped ==
  ASSUME TypeOK, NEW c \in Call, NEW pc \in {"called", "returned", "failed"}, CallIsAt(c, pc)
  PROVE  /\ call' \in [Call -> CallRecord]
         /\ \A d \in Call : call'[d].on = call[d].on
         /\ \A d \in Call \ {c} : call'[d] = call[d]
         /\ call'[c].pc = pc
<1>1. call \in [Call -> CallRecord]
  BY Typed
<1>2. PICK told \in {"nothing", "outcome", "timeout"} :
        call' = [call EXCEPT ![c] = [pc |-> pc, on |-> call[c].on, told |-> told]]
  BY DEF CallIsAt
<1>3. [pc |-> pc, on |-> call[c].on, told |-> told] \in CallRecord
  BY <1>1 DEF CallRecord
<1> QED
  BY <1>1, <1>2, <1>3

\* A step of one call: the openings are where they were.
openings == <<options, disposed, target, held, released, opening, provider>>

LEMMA CallSteps ==
  ASSUME SessionInv, UNCHANGED <<openings, current>>,
         NEW c \in Call, NEW r \in CallRecord, call' = [call EXCEPT ![c] = r],
         r.pc # "idle", r.pc = "awaiting" => r.on \in Call,
         transport # "per-call" /\ r.pc = "called" => r.on \in Call /\ opening[r.on] = "opened",
         transport # "per-call" /\ r.pc \in {"returned", "failed"} /\ r.on # None =>
           opening[r.on] \in {"opened", "failed"},
         r.pc = "failed" /\ r.on # None /\ opening[r.on] = "failed" => current # r.on
  PROVE  SessionInv'
<1>1. call \in [Call -> CallRecord]
  BY Typed DEF SessionInv
<1>2. call'[c] = r /\ \A d \in Call \ {c} : call'[d] = call[d]
  BY <1>1
<1>3. TypeOK'
  <2>1. call' \in [Call -> CallRecord]
    BY <1>1
  <2>2. ASSUME NEW d \in Call, call'[d].pc = "awaiting" PROVE call'[d].on \in Call
    <3>1. CASE d = c
      BY <1>2, <2>2, <3>1
    <3>2. CASE d # c
      BY <1>2, <2>2, <3>2, Typed DEF SessionInv
    <3> QED
      BY <3>1, <3>2
  <2> QED
    BY <2>1, <2>2 DEF SessionInv, TypeOK, openings, options, CallRecord
<1>4. Session'
  BY DEF SessionInv, Session, PerCallSharesNothing, ConnectingIsNative, DisposedJoinsNothing,
     OneOpeningCounts, TargetIsOpened, ReleasedIsOver, NativeReleasesLast,
     HeldOnlyWhileInUse, Counts, UnderWay, openings, options
<1>5. ASSUME NEW d \in Call PROVE PerCall(d)'
  <2>1. UNCHANGED <<transport, opening, current>>
    BY DEF openings, options
  <2>2. CASE d = c
    BY <1>2, <2>1, <2>2 DEF PerCall, NothingBeforeItBegins, KnowsItsOpening, JoinsAnother
  <2>3. CASE d # c
    BY <1>2, <2>1, <2>3 DEF SessionInv, PerCall, NothingBeforeItBegins, KnowsItsOpening, JoinsAnother
  <2> QED
    BY <2>2, <2>3
<1> QED
  BY <1>3, <1>4, <1>5 DEF SessionInv

\* Openings under way go on or fail, while calls on legs of their own may end.
LEMMA OpeningsMove ==
  ASSUME SessionInv, UNCHANGED <<options, disposed, current, target, held, released>>,
         TypeOK',
         \A c \in Call :
           \/ opening'[c] = opening[c]
           \/ UnderWay(c) /\ opening'[c] \in {"tokened", "failed"}
           \/ UnderWay(c) /\ opening'[c] = "connecting" /\ transport = "native"
           \/ UnderWay(c) /\ opening'[c] = "opened" /\ transport = "per-call",
         \A c \in Call :
           \/ call'[c] = call[c]
           \/ call'[c].pc # "idle" /\ transport = "per-call"
  PROVE  SessionInv'
<1>0. UNCHANGED <<transport, disposed, current, target, held, released>>
  BY DEF options
<1>1. \A c \in Call :
        /\ UnderWay(c)' => UnderWay(c)
        /\ transport # "per-call" => (Counts(c)' => Counts(c))
        /\ opening[c] = "opened" => opening'[c] = "opened"
        /\ opening[c] = "failed" => opening'[c] = "failed"
        /\ opening[c] = "none" => opening'[c] = "none"
  BY DEF UnderWay, Counts
<1>2. PerCallSharesNothing' /\ ConnectingIsNative' /\ DisposedJoinsNothing'
  BY <1>0 DEF SessionInv, Session, PerCallSharesNothing, ConnectingIsNative, DisposedJoinsNothing
<1>3. OneOpeningCounts'
  BY <1>0, <1>1 DEF SessionInv, Session, OneOpeningCounts
<1>4. TargetIsOpened'
  BY <1>0, <1>1, Typed DEF SessionInv, Session, TargetIsOpened
<1>5. ReleasedIsOver'
  BY <1>0, <1>1 DEF SessionInv, Session, ReleasedIsOver, UnderWay
<1>6. NativeReleasesLast'
  BY <1>0, <1>1 DEF SessionInv, Session, NativeReleasesLast
<1>7. HeldOnlyWhileInUse'
  BY <1>0 DEF SessionInv, Session, HeldOnlyWhileInUse
<1>8. ASSUME NEW c \in Call PROVE PerCall(c)'
  <2>1. NothingBeforeItBegins(c)'
    BY <1>1 DEF SessionInv, PerCall, NothingBeforeItBegins
  <2>2. CASE transport = "per-call"
    <3>1. current = None
      BY <2>2 DEF SessionInv, Session, PerCallSharesNothing
    <3> QED
      BY <1>0, <2>1, <2>2, <3>1 DEF PerCall, KnowsItsOpening, JoinsAnother
  <2>3. CASE transport # "per-call"
    <3>1. call'[c] = call[c] /\ call[c].on \in Call \union {None}
      BY <2>3, Typed DEF SessionInv, CallRecord
    <3>2. KnowsItsOpening(c)'
      BY <1>0, <1>1, <3>1 DEF SessionInv, PerCall, KnowsItsOpening
    <3>3. JoinsAnother(c)'
      BY <1>0, <1>1, <2>3, <3>1 DEF SessionInv, PerCall, KnowsItsOpening, JoinsAnother, UnderWay
    <3> QED
      BY <2>1, <3>2, <3>3 DEF PerCall
  <2> QED
    BY <2>2, <2>3
<1> QED
  BY <1>2, <1>3, <1>4, <1>5, <1>6, <1>7, <1>8 DEF SessionInv, Session

-----------------------------------------------------------------------------
(* One lemma per step.  The token provider: *)

LEMMA TokenArrivesKeeps ==
  ASSUME SessionInv, TokenArrives \/ TokenAges
  PROVE  SessionInv'
<1>0. TypeOK /\ provider \in ProviderRecord
  BY Typed DEF SessionInv
<1>1. UNCHANGED <<options, disposed, current, target, held, released, opening, call>>
  BY DEF TokenArrives, TokenAges, peer
<1>2. provider' \in ProviderRecord
  <2>1. CASE TokenArrives
    BY <2>1 DEF TokenArrives, ProviderRecord
  <2>2. CASE TokenAges
    BY <1>0, <2>2 DEF TokenAges, ProviderRecord
  <2> QED
    BY <2>1, <2>2
<1>3. TypeOK'
  BY <1>0, <1>1, <1>2, Typed, TypedAgain
<1> QED
  BY <1>1, <1>3, OpeningsMove

LEMMA RequestSettlesKeeps ==
  ASSUME SessionInv, NEW outcome \in {"tokened", "failed"}, RequestSettles(outcome)
  PROVE  SessionInv'
<1>0. TypeOK /\ opening \in [Call -> Progress]
  BY Typed DEF SessionInv
<1>1. UNCHANGED <<options, disposed, current, target, held, released, call>>
  BY DEF RequestSettles, peer
<1>2. opening' = [c \in Call |-> IF opening[c] = "asking" THEN outcome ELSE opening[c]]
  BY DEF RequestSettles
<1>3. opening' \in [Call -> Progress]
  BY <1>0, <1>2 DEF Progress
<1>4. provider' \in ProviderRecord
  BY <1>0, Typed DEF RequestSettles, ProviderRecord
<1>5. TypeOK'
  BY <1>0, <1>1, <1>3, <1>4, Typed, TypedAgain
<1>6. \A c \in Call :
        opening'[c] = opening[c] \/ (UnderWay(c) /\ opening'[c] \in {"tokened", "failed"})
  BY <1>2 DEF UnderWay
<1> QED
  BY <1>1, <1>5, <1>6, OpeningsMove

LEMMA ProviderKeeps ==
  ASSUME SessionInv, Provider
  PROVE  SessionInv'
BY TokenArrivesKeeps, RequestSettlesKeeps DEF Provider, TokenStored, TokenRefused

-----------------------------------------------------------------------------
(* An opening: *)

LEMMA EndedTyped ==
  ASSUME TypeOK, NEW c \in Call, NEW outcome \in Progress, Ended(c, outcome)
  PROVE  /\ opening' \in [Call -> Progress]
         /\ opening'[c] = outcome
         /\ \A d \in Call \ {c} : opening'[d] = opening[d]
BY Typed DEF Ended

\* Calls stay typed when one of them moves on.
LEMMA CallMovesOn ==
  ASSUME TypeOK, NEW c \in Call, NEW pc \in {"called", "returned", "failed"}, CallIsAt(c, pc)
  PROVE  /\ call' \in [Call -> CallRecord]
         /\ \A d \in Call : call'[d].pc = "awaiting" => call'[d].on \in Call
BY CallIsAtTyped, Typed

LEMMA OpeningFailsKeeps ==
  ASSUME SessionInv, NEW c \in Call, OpeningFails(c)
  PROVE  SessionInv'
<1>0. TypeOK
  BY DEF SessionInv
<1>1. UNCHANGED <<options, disposed, current, target, held, released, provider>>
  BY DEF OpeningFails, peer
<1>2. UnderWay(c) /\ Ended(c, "failed")
  BY DEF OpeningFails, UnderWay
<1>3. /\ opening' \in [Call -> Progress] /\ opening'[c] = "failed"
      /\ \A d \in Call \ {c} : opening'[d] = opening[d]
  BY <1>0, <1>2, EndedTyped DEF Progress
<1>4. CASE transport = "per-call"
  <2>1. CallIsAt(c, "failed")
    BY <1>0, <1>4, OverIsAt DEF OpeningFails
  <2>2. TypeOK'
    BY <1>0, <1>1, <1>3, <2>1, CallMovesOn, Typed, TypedAgain
  <2>3. \A d \in Call : call'[d] = call[d] \/ call'[d].pc # "idle"
    BY <1>0, <2>1, CallIsAtTyped
  <2> QED
    BY <1>1, <1>2, <1>3, <1>4, <2>2, <2>3, OpeningsMove
<1>5. CASE transport # "per-call"
  <2>1. UNCHANGED call
    BY <1>5 DEF OpeningFails
  <2>2. TypeOK'
    BY <1>0, <1>1, <1>3, <2>1, Typed, TypedAgain
  <2> QED
    BY <1>1, <1>2, <1>3, <2>1, <2>2, OpeningsMove
<1> QED
  BY <1>4, <1>5

LEMMA ConnectKeeps ==
  ASSUME SessionInv, NEW c \in Call, Connect(c)
  PROVE  SessionInv'
<1> DEFINE outcome == IF disposed THEN "failed" ELSE "connecting"
<1>0. TypeOK
  BY DEF SessionInv
<1>1. UNCHANGED <<options, disposed, current, target, held, released, call, provider>>
  BY DEF Connect, peer
<1>2. UnderWay(c) /\ Ended(c, outcome) /\ transport = "native"
  BY DEF Connect, UnderWay
<1>3. outcome \in {"failed", "connecting"}
  OBVIOUS
<1> HIDE DEF outcome
<1>4. /\ opening' \in [Call -> Progress] /\ opening'[c] = outcome
      /\ \A d \in Call \ {c} : opening'[d] = opening[d]
  BY <1>0, <1>2, <1>3, EndedTyped DEF Progress
<1>5. TypeOK'
  BY <1>0, <1>1, <1>4, Typed, TypedAgain
<1> QED
  BY <1>1, <1>2, <1>3, <1>4, <1>5, OpeningsMove

LEMMA OpenPerCallKeeps ==
  ASSUME SessionInv, NEW c \in Call, OpenPerCall(c)
  PROVE  SessionInv'
<1> DEFINE outcome == IF disposed THEN "failed" ELSE "opened"
<1>0. TypeOK
  BY DEF SessionInv
<1>1. UNCHANGED <<options, disposed, current, target, held, released, provider>>
  BY DEF OpenPerCall, peer
<1>2. UnderWay(c) /\ Ended(c, outcome) /\ transport = "per-call"
  BY DEF OpenPerCall, UnderWay
<1>3. outcome \in {"failed", "opened"}
  OBVIOUS
<1> HIDE DEF outcome
<1>4. /\ opening' \in [Call -> Progress] /\ opening'[c] = outcome
      /\ \A d \in Call \ {c} : opening'[d] = opening[d]
  BY <1>0, <1>2, <1>3, EndedTyped DEF Progress
<1>5. CallIsAt(c, "failed") \/ CallIsAt(c, "called")
  BY <1>0, OverIsAt, CalledIsAt DEF OpenPerCall
<1>6. TypeOK'
  BY <1>0, <1>1, <1>4, <1>5, CallMovesOn, Typed, TypedAgain
<1>7. \A d \in Call : call'[d] = call[d] \/ call'[d].pc # "idle"
  BY <1>0, <1>5, CallIsAtTyped
<1> QED
  BY <1>1, <1>2, <1>3, <1>4, <1>6, <1>7, OpeningsMove

\* What is true of calls stays true if a step leaves them and what they join
\* alone, and one opening under way comes to an end.
LEMMA CallsKeep ==
  ASSUME SessionInv, UNCHANGED <<transport, current, call>>,
         NEW c \in Call, UnderWay(c), transport # "per-call",
         opening'[c] \in {"opened", "failed"},
         \A d \in Call \ {c} : opening'[d] = opening[d]
  PROVE  \A d \in Call : PerCall(d)'
<1> SUFFICES ASSUME NEW d \in Call PROVE PerCall(d)'
  OBVIOUS
<1>1. call[d] \in CallRecord
  BY Typed DEF SessionInv
<1>2. call[d].on \in Call \union {None} /\ None \notin Call
  BY <1>1, NoneAssumption DEF CallRecord
<1>3. opening[c] # "none" /\ opening[c] # "failed" /\ opening[c] # "opened"
  BY DEF UnderWay
<1>4. NothingBeforeItBegins(d)'
  BY <1>3 DEF SessionInv, PerCall, NothingBeforeItBegins
<1>5. KnowsItsOpening(d)'
  BY <1>2, <1>3 DEF SessionInv, PerCall, KnowsItsOpening
<1>6. JoinsAnother(d)'
  BY <1>2, <1>3 DEF SessionInv, PerCall, KnowsItsOpening, JoinsAnother
<1> QED
  BY <1>4, <1>5, <1>6 DEF PerCall

\* While an opening of a session is under way nothing is open, and only an
\* opening that failed was released before.
LEMMA NothingIsOpen ==
  ASSUME SessionInv, NEW c \in Call, UnderWay(c), transport # "per-call"
  PROVE  /\ held = {}
         /\ ~disposed => target = None /\ current = c
         /\ released[c] = 0
         /\ \A d \in Call \ {c} : ~Counts(d)
<1>1. target \in Call \union {None} /\ held \subseteq Call /\ None \notin Call
      /\ disposed \in BOOLEAN
  BY Typed DEF SessionInv
<1>2. /\ \A d \in Call \ {c} : ~Counts(d)
      /\ ~disposed => current = c
  BY DEF SessionInv, Session, OneOpeningCounts, Counts
<1>3. ~disposed => target = None
  BY <1>1, <1>2 DEF SessionInv, Session, TargetIsOpened, Counts, UnderWay
<1>4. held = {}
  BY <1>1, <1>3 DEF SessionInv, Session, HeldOnlyWhileInUse
<1>5. released[c] = 0
  BY DEF SessionInv, Session, ReleasedIsOver, UnderWay
<1> QED
  BY <1>2, <1>3, <1>4, <1>5

\* An opening that fails takes what it opened with it; one that succeeds leaves
\* it to the session.
LEMMA OpeningEnds ==
  ASSUME SessionInv, NEW c \in Call, UnderWay(c), transport # "per-call",
         UNCHANGED <<options, disposed, current, call, provider>>,
         opening' = [opening EXCEPT ![c] = IF target' = c /\ ~disposed THEN "opened" ELSE "failed"],
         target' \in {target, c}, held' = IF target' = c /\ ~disposed THEN {c} ELSE {},
         \/ UNCHANGED released
         \/ /\ released' = [released EXCEPT ![c] = 1]
            /\ target' = c => disposed
            /\ transport = "native" => disposed
  PROVE  SessionInv'
<1>0. TypeOK /\ opening \in [Call -> Progress] /\ released \in [Call -> Nat]
      /\ target \in Call \union {None} /\ None \notin Call
  BY Typed DEF SessionInv
<1>1. UNCHANGED <<transport, disposed, current>>
  BY DEF options
<1>2. /\ held = {} /\ released[c] = 0
      /\ ~disposed => target = None /\ current = c
      /\ \A d \in Call \ {c} : ~Counts(d)
  BY NothingIsOpen
<1>3. /\ opening'[c] = IF target' = c /\ ~disposed THEN "opened" ELSE "failed"
      /\ \A d \in Call \ {c} : opening'[d] = opening[d]
      /\ opening' \in [Call -> Progress]
  BY <1>0 DEF Progress
<1>4. released' \in [Call -> Nat] /\ \A d \in Call \ {c} : released'[d] = released[d]
  BY <1>0
<1>5. TypeOK'
  BY <1>0, <1>3, <1>4, Typed, TypedAgain
<1>6. PerCallSharesNothing' /\ DisposedJoinsNothing'
  BY <1>1 DEF SessionInv, Session, PerCallSharesNothing, DisposedJoinsNothing
<1>7. ConnectingIsNative'
  BY <1>1, <1>3 DEF SessionInv, Session, ConnectingIsNative
<1>8. OneOpeningCounts'
  BY <1>1, <1>2, <1>3 DEF OneOpeningCounts, Counts, UnderWay
<1>9. TargetIsOpened'
  BY <1>0, <1>1, <1>2, <1>3 DEF TargetIsOpened
<1>10. ReleasedIsOver'
  BY <1>0, <1>1, <1>2, <1>3, <1>4 DEF SessionInv, Session, ReleasedIsOver
<1>11. NativeReleasesLast'
  BY <1>1, <1>2, <1>3, <1>4 DEF SessionInv, Session, NativeReleasesLast, Counts, UnderWay
<1>12. HeldOnlyWhileInUse'
  BY <1>0, <1>1, <1>2, <1>4 DEF SessionInv, Session, HeldOnlyWhileInUse
<1>13. \A d \in Call : PerCall(d)'
  BY <1>1, <1>3, CallsKeep
<1> QED
  BY <1>5, <1>6, <1>7, <1>8, <1>9, <1>10, <1>11, <1>12, <1>13 DEF SessionInv, Session

LEMMA OpenSocketKeeps ==
  ASSUME SessionInv, NEW c \in Call, OpenSocket(c)
  PROVE  SessionInv'
<1>1. UnderWay(c) /\ transport = "socket"
  BY DEF OpenSocket, UnderWay
<1>2. held = {} /\ target \in Call \union {None} /\ disposed \in BOOLEAN
  BY <1>1, NothingIsOpen, Typed DEF SessionInv
<1>3. CASE disposed
  BY <1>1, <1>2, <1>3, OpeningEnds DEF OpenSocket, Ended, peer
<1>4. CASE ~disposed
  <2>1. held' = {c}
    BY <1>2, <1>4 DEF OpenSocket
  <2> QED
    BY <1>1, <1>2, <1>4, <2>1, OpeningEnds DEF OpenSocket, Ended
<1> QED
  BY <1>3, <1>4

LEMMA SocketFailsKeeps ==
  ASSUME SessionInv, NEW c \in Call, SocketFails(c)
  PROVE  SessionInv'
<1>1. UnderWay(c) /\ transport = "socket"
  BY DEF SocketFails, UnderWay
<1>2. held = {} /\ target = None /\ None \notin Call
  BY <1>1, NothingIsOpen, NoneAssumption DEF SocketFails
<1> QED
  BY <1>1, <1>2, OpeningEnds DEF SocketFails, Ended

LEMMA TargetArrivesKeeps ==
  ASSUME SessionInv, NEW c \in Call, TargetArrives(c)
  PROVE  SessionInv'
<1>1. UnderWay(c) /\ transport = "native"
  BY DEF TargetArrives, UnderWay, SessionInv, Session, ConnectingIsNative
<1>2. /\ held = {}
      /\ ~disposed => target = None
      /\ disposed \in BOOLEAN
  BY <1>1, NothingIsOpen, Typed DEF SessionInv
<1>3. \A d \in Call : released[d] = 0
  BY <1>1 DEF SessionInv, Session, NativeReleasesLast
<1>4. /\ target' = IF target = None THEN c ELSE target
      /\ opening' = [opening EXCEPT ![c] = IF disposed THEN "failed" ELSE "opened"]
      /\ UNCHANGED <<options, disposed, current, call, provider>>
  BY DEF TargetArrives, Ended
<1>5. CASE disposed
  BY <1>1, <1>2, <1>3, <1>4, <1>5, OpeningEnds DEF TargetArrives
<1>6. CASE ~disposed
  BY <1>1, <1>2, <1>4, <1>6, OpeningEnds DEF TargetArrives
<1> QED
  BY <1>5, <1>6

LEMMA OpeningKeeps ==
  ASSUME SessionInv, NEW c \in Call, Opening(c)
  PROVE  SessionInv'
BY OpeningFailsKeeps, ConnectKeeps, TargetArrivesKeeps, OpenSocketKeeps, SocketFailsKeeps,
   OpenPerCallKeeps DEF Opening

-----------------------------------------------------------------------------
(* A call: *)

LEMMA CallGoesOn ==
  ASSUME SessionInv, NEW c \in Call, NEW pc \in {"called", "returned", "failed"},
         CallIsAt(c, pc), UNCHANGED <<openings, current>>,
         transport # "per-call" /\ pc = "called" =>
           call[c].on \in Call /\ opening[call[c].on] = "opened",
         transport # "per-call" /\ pc \in {"returned", "failed"} /\ call[c].on # None =>
           opening[call[c].on] \in {"opened", "failed"},
         pc = "failed" /\ call[c].on # None /\ opening[call[c].on] = "failed" =>
           current # call[c].on
  PROVE  SessionInv'
<1>1. PICK told \in {"nothing", "outcome", "timeout"} :
        call' = [call EXCEPT ![c] = [pc |-> pc, on |-> call[c].on, told |-> told]]
  BY DEF CallIsAt
<1> DEFINE r == [pc |-> pc, on |-> call[c].on, told |-> told]
<1>2. r \in CallRecord
  BY Typed DEF SessionInv, CallRecord
<1>3. r.pc = pc /\ r.on = call[c].on
  OBVIOUS
<1>4. call' = [call EXCEPT ![c] = r]
  BY <1>1
<1> HIDE DEF r
<1> QED
  BY <1>2, <1>3, <1>4, CallSteps

LEMMA AnswersKeeps ==
  ASSUME SessionInv, NEW c \in Call, Answers(c)
  PROVE  SessionInv'
<1>0. TypeOK
  BY DEF SessionInv
<1>1. PICK pc \in {"returned", "failed"} : Over(c, pc)
  BY DEF Answers
<1>2. CallIsAt(c, pc)
  BY <1>0, <1>1, OverIsAt
<1>3. UNCHANGED <<openings, current>>
  BY DEF Answers, openings, peer
<1>4. transport # "per-call" => opening[call[c].on] = "opened"
  BY DEF SessionInv, PerCall, KnowsItsOpening, Answers
<1>5. transport = "per-call" => current = None
  BY DEF SessionInv, Session, PerCallSharesNothing
<1> QED
  BY <1>2, <1>3, <1>4, <1>5, CallGoesOn

LEMMA ResumeKeeps ==
  ASSUME SessionInv, NEW c \in Call, Resume(c)
  PROVE  SessionInv'
<1>0. TypeOK
  BY DEF SessionInv
<1>1. /\ call[c].on \in Call /\ opening[call[c].on] = "opened"
  BY <1>0, Typed DEF Resume, Awaits
<1>2. UNCHANGED <<openings, current>>
  BY DEF Resume, openings, peer
<1>3. CallIsAt(c, "failed") \/ CallIsAt(c, "called")
  BY <1>0, OverIsAt, CalledIsAt DEF Resume
<1> QED
  BY <1>1, <1>2, <1>3, CallGoesOn

\* Whoever resumes first forgets the opening that failed, if it is still the one
\* to join.
LEMMA ResumeFailedKeeps ==
  ASSUME SessionInv, NEW c \in Call, ResumeFailed(c)
  PROVE  SessionInv'
<1>0. TypeOK /\ call \in [Call -> CallRecord] /\ current \in Call \union {None}
      /\ call[c].on \in Call /\ None \notin Call
  BY Typed DEF SessionInv, ResumeFailed, Awaits
<1>1. opening[call[c].on] = "failed"
  BY DEF ResumeFailed, Awaits
<1>2. CallIsAt(c, "failed")
  BY <1>0, OverIsAt DEF ResumeFailed
<1>3. /\ call' \in [Call -> CallRecord] /\ call'[c].pc = "failed"
      /\ \A d \in Call : call'[d].on = call[d].on
      /\ \A d \in Call \ {c} : call'[d] = call[d]
  BY <1>0, <1>2, CallIsAtTyped
<1>4. UNCHANGED <<options, transport, disposed, target, held, released, opening, provider>>
  BY DEF ResumeFailed, peer, options
<1>5. current' = IF current = call[c].on THEN None ELSE current
  BY DEF ResumeFailed
<1>6. TypeOK'
  <2>1. current' \in Call \union {None}
    BY <1>0, <1>5
  <2>2. \A d \in Call : call'[d].pc = "awaiting" => call'[d].on \in Call
    BY <1>0, <1>2, CallMovesOn
  <2> QED
    BY <1>0, <1>3, <1>4, <2>1, <2>2, Typed, TypedAgain
<1>7. OneOpeningCounts'
  BY <1>1, <1>4, <1>5 DEF SessionInv, Session, OneOpeningCounts, Counts, UnderWay
<1>8. Session'
  BY <1>4, <1>5, <1>7 DEF SessionInv, Session, PerCallSharesNothing, ConnectingIsNative,
     DisposedJoinsNothing, TargetIsOpened, ReleasedIsOver, NativeReleasesLast,
     HeldOnlyWhileInUse, UnderWay
<1>9. ASSUME NEW d \in Call PROVE PerCall(d)'
  <2>1. CASE d = c
    BY <1>0, <1>1, <1>3, <1>4, <1>5, <2>1 DEF PerCall, NothingBeforeItBegins, KnowsItsOpening, JoinsAnother
  <2>2. CASE d # c
    BY <1>0, <1>3, <1>4, <1>5, <2>2 DEF SessionInv, PerCall, NothingBeforeItBegins, KnowsItsOpening,
       JoinsAnother
  <2> QED
    BY <2>1, <2>2
<1> QED
  BY <1>6, <1>8, <1>9 DEF SessionInv

LEMMA TimerFiresKeeps ==
  ASSUME SessionInv, NEW c \in Call, TimerFires(c)
  PROVE  SessionInv'
<1>0. TypeOK /\ call \in [Call -> CallRecord]
  BY Typed DEF SessionInv
<1> DEFINE r == [call[c] EXCEPT !.told = "timeout"]
<1>1. r \in CallRecord /\ r.pc = call[c].pc /\ r.on = call[c].on
  BY <1>0 DEF CallRecord
<1>2. call' = [call EXCEPT ![c] = r] /\ r.pc \in {"awaiting", "called"}
  BY <1>1 DEF TimerFires
<1>3. UNCHANGED <<openings, current>>
  BY DEF TimerFires, openings, peer
<1>4. r.pc = "awaiting" => r.on \in Call
  BY <1>0, <1>1, Typed
<1>5. transport # "per-call" /\ r.pc = "called" => r.on \in Call /\ opening[r.on] = "opened"
  BY <1>1 DEF SessionInv, PerCall, KnowsItsOpening
<1> HIDE DEF r
<1> QED
  BY <1>1, <1>2, <1>3, <1>4, <1>5, CallSteps

LEMMA InvokeOpenKeeps ==
  ASSUME SessionInv, NEW c \in Call, InvokeOpen(c)
  PROVE  SessionInv'
<1>0. TypeOK /\ call \in [Call -> CallRecord] /\ target \in Call
  BY Typed DEF SessionInv, InvokeOpen
<1> DEFINE r == [pc |-> "called", on |-> target, told |-> call[c].told]
<1>1. r \in CallRecord /\ r.pc = "called" /\ r.on = target
  BY <1>0 DEF CallRecord
<1>2. call' = [call EXCEPT ![c] = r]
  <2>1. call[c] = [pc |-> call[c].pc, on |-> call[c].on, told |-> call[c].told]
    BY <1>0 DEF CallRecord
  <2> DEFINE at == [call EXCEPT ![c] = [call[c] EXCEPT !.pc = "called"]]
  <2>2. at[c] = [pc |-> "called", on |-> call[c].on, told |-> call[c].told]
    BY <1>0, <2>1
  <2>3. call' = [at EXCEPT ![c] = [at[c] EXCEPT !.on = target]]
    BY <1>0 DEF InvokeOpen
  <2>4. [at[c] EXCEPT !.on = target] = r
    BY <2>2
  <2>5. \A s : [at EXCEPT ![c] = s] = [call EXCEPT ![c] = s]
    BY <1>0
  <2> QED
    BY <2>3, <2>4, <2>5
<1>3. UNCHANGED <<openings, current>>
  BY DEF InvokeOpen, openings, peer
<1>4. opening[target] = "opened"
  BY DEF SessionInv, Session, TargetIsOpened, InvokeOpen
<1> HIDE DEF r
<1> QED
  BY <1>0, <1>1, <1>2, <1>3, <1>4, CallSteps

LEMMA InvokeRefusedKeeps ==
  ASSUME SessionInv, NEW c \in Call, InvokeRefused(c)
  PROVE  SessionInv'
<1>0. TypeOK
  BY DEF SessionInv
<1>1. CallIsAt(c, "failed")
  BY <1>0, OverIsAt DEF InvokeRefused
<1>2. UNCHANGED <<openings, current>>
  BY DEF InvokeRefused, openings, peer
<1>3. call[c].on = None
  BY DEF SessionInv, PerCall, NothingBeforeItBegins, InvokeRefused
<1> QED
  BY <1>1, <1>2, <1>3, CallGoesOn

\* The record of a call that awaits an opening.
LEMMA InvokeCalls ==
  ASSUME SessionInv, NEW c \in Call, Invoke(c)
  PROVE  \E r \in CallRecord :
           /\ r.pc = "awaiting"
           /\ r.on = IF transport # "per-call" /\ current # None THEN current ELSE c
           /\ call' = [call EXCEPT ![c] = r]
<1> DEFINE joins == transport # "per-call" /\ current # None
           on == IF joins THEN current ELSE c
           r == [pc |-> "awaiting", on |-> on, told |-> call[c].told]
<1>1. call \in [Call -> CallRecord] /\ current \in Call \union {None}
  BY Typed DEF SessionInv
<1>2. on \in Call
  BY <1>1
<1>3. call' = [call EXCEPT ![c].pc = "awaiting", ![c].on = on]
  BY DEF Invoke
<1> HIDE DEF on
<1>4. call[c] = [pc |-> call[c].pc, on |-> call[c].on, told |-> call[c].told]
  BY <1>1 DEF CallRecord
<1> DEFINE at == [call EXCEPT ![c] = [call[c] EXCEPT !.pc = "awaiting"]]
<1>5. at[c] = [pc |-> "awaiting", on |-> call[c].on, told |-> call[c].told]
  BY <1>1, <1>4
<1>6. call' = [at EXCEPT ![c] = [at[c] EXCEPT !.on = on]]
  BY <1>1, <1>3
<1>7. [at[c] EXCEPT !.on = on] = r
  BY <1>5
<1>8. \A s : [at EXCEPT ![c] = s] = [call EXCEPT ![c] = s]
  BY <1>1
<1>9. call' = [call EXCEPT ![c] = r]
  BY <1>6, <1>7, <1>8
<1>10. r \in CallRecord /\ r.pc = "awaiting" /\ r.on = on
  BY <1>1, <1>2 DEF CallRecord
<1> QED
  BY <1>9, <1>10 DEF on

\* A call that begins an opening of the session finds none that counts.
LEMMA BeginningKeeps ==
  ASSUME SessionInv, NEW c \in Call, Invoke(c),
         transport = "per-call" \/ current = None
  PROVE  SessionInv'
<1>0. TypeOK /\ call \in [Call -> CallRecord] /\ opening \in [Call -> Progress]
      /\ None \notin Call /\ provider \in ProviderRecord
  BY Typed DEF SessionInv
<1>1. /\ call[c].pc = "idle" /\ ~disposed /\ target = None
      /\ UNCHANGED <<options, transport, disposed, target, held, released>>
      /\ Ask(c)
      /\ current' = IF transport = "per-call" THEN current ELSE c
  BY DEF Invoke, peer, options
<1>2. PICK r \in CallRecord : r.pc = "awaiting" /\ r.on = c /\ call' = [call EXCEPT ![c] = r]
  BY InvokeCalls
<1>3. call'[c] = r /\ \A d \in Call \ {c} : call'[d] = call[d]
  BY <1>0, <1>2
<1>4. /\ opening'[c] \in {"asking", "tokened"}
      /\ \A d \in Call \ {c} : opening'[d] = opening[d]
      /\ opening' \in [Call -> Progress]
  BY <1>0, <1>1 DEF Ask, Progress
<1>5. provider' \in ProviderRecord
  <2>1. CASE provider.usable \/ provider.request # "none"
    BY <1>0, <1>1, <2>1 DEF Ask
  <2>2. CASE ~(provider.usable \/ provider.request # "none")
    BY <1>0, <1>1, <2>2 DEF Ask, ProviderRecord
  <2> QED
    BY <2>1, <2>2
<1>6. TypeOK'
  <2>1. current' \in Call \union {None}
    BY <1>0, <1>1, Typed
  <2>2. call' \in [Call -> CallRecord]
    BY <1>0, <1>2
  <2>3. \A d \in Call : call'[d].pc = "awaiting" => call'[d].on \in Call
    BY <1>0, <1>2, <1>3, Typed
  <2> QED
    BY <1>0, <1>1, <1>4, <1>5, <2>1, <2>2, <2>3, Typed, TypedAgain
<1>7. opening[c] = "none"
  BY <1>1 DEF SessionInv, PerCall, NothingBeforeItBegins
<1>8. transport # "per-call" => \A d \in Call : ~Counts(d)
  BY <1>0, <1>1 DEF SessionInv, Session, OneOpeningCounts
<1>9. OneOpeningCounts'
  BY <1>1, <1>4, <1>8 DEF OneOpeningCounts, Counts, UnderWay
<1>10. PerCallSharesNothing' /\ ConnectingIsNative' /\ DisposedJoinsNothing' /\ TargetIsOpened'
  BY <1>1, <1>4 DEF SessionInv, Session, PerCallSharesNothing, ConnectingIsNative,
     DisposedJoinsNothing, TargetIsOpened
<1>11. ReleasedIsOver'
  BY <1>1, <1>4, <1>7 DEF SessionInv, Session, ReleasedIsOver
<1>12. NativeReleasesLast' /\ HeldOnlyWhileInUse'
  BY <1>1 DEF SessionInv, Session, NativeReleasesLast, HeldOnlyWhileInUse
<1>13. ASSUME NEW d \in Call PROVE PerCall(d)'
  <2>1. CASE d = c
    BY <1>2, <1>3, <2>1 DEF PerCall, NothingBeforeItBegins, KnowsItsOpening, JoinsAnother
  <2>2. CASE d # c
    <3>1. call'[d] = call[d] /\ call[d].on \in Call \union {None} /\ opening'[d] = opening[d]
      BY <1>0, <1>3, <1>4, <2>2 DEF CallRecord
    <3>2. NothingBeforeItBegins(d)'
      BY <3>1 DEF SessionInv, PerCall, NothingBeforeItBegins
    <3>3. KnowsItsOpening(d)'
      BY <1>1, <1>4, <1>7, <3>1 DEF SessionInv, PerCall, KnowsItsOpening
    <3>4. JoinsAnother(d)'
      BY <1>0, <1>1, <1>4, <1>7, <3>1 DEF SessionInv, PerCall, JoinsAnother
    <3> QED
      BY <3>2, <3>3, <3>4 DEF PerCall
  <2> QED
    BY <2>1, <2>2
<1> QED
  BY <1>6, <1>9, <1>10, <1>11, <1>12, <1>13 DEF SessionInv, Session

LEMMA InvokeKeeps ==
  ASSUME SessionInv, NEW c \in Call, Invoke(c)
  PROVE  SessionInv'
<1>1. CASE transport = "per-call" \/ current = None
  BY <1>1, BeginningKeeps
<1>2. CASE transport # "per-call" /\ current # None
  <2>1. UNCHANGED <<openings, current>>
    BY <1>2 DEF Invoke, openings, peer
  <2>2. PICK r \in CallRecord :
          r.pc = "awaiting" /\ r.on = current /\ call' = [call EXCEPT ![c] = r]
    BY <1>2, InvokeCalls
  <2>3. current \in Call
    BY <1>2, Typed DEF SessionInv
  <2> QED
    BY <2>1, <2>2, <2>3, CallSteps
<1> QED
  BY <1>1, <1>2

LEMMA DisposeKeeps ==
  ASSUME SessionInv, Dispose
  PROVE  SessionInv'
<1>0. TypeOK /\ released \in [Call -> Nat] /\ target \in Call \union {None}
      /\ held \subseteq Call /\ None \notin Call
  BY Typed DEF SessionInv
<1>1. /\ ~disposed /\ disposed' = TRUE /\ current' = None
      /\ target' \in {target, None}
      /\ UNCHANGED <<options, transport, opening, call, provider>>
  BY DEF Dispose, options
<1>2. CASE target = None
  <2>1. held = {} /\ held' = {} /\ released' = released /\ target' = None
    BY <1>0, <1>1, <1>2 DEF SessionInv, Session, HeldOnlyWhileInUse, Dispose
  <2>2. TypeOK'
    BY <1>0, <1>1, <2>1, Typed, TypedAgain
  <2>3. Session'
    BY <1>1, <1>2, <2>1 DEF SessionInv, Session, PerCallSharesNothing, ConnectingIsNative,
       DisposedJoinsNothing, OneOpeningCounts, TargetIsOpened, ReleasedIsOver,
       NativeReleasesLast, HeldOnlyWhileInUse, Counts, UnderWay
  <2>4. \A c \in Call : PerCall(c)'
    BY <1>1 DEF SessionInv, PerCall, NothingBeforeItBegins, KnowsItsOpening, JoinsAnother
  <2> QED
    BY <2>2, <2>3, <2>4 DEF SessionInv
<1>3. CASE target # None
  <2>1. target \in Call /\ opening[target] = "opened"
    BY <1>0, <1>1, <1>3 DEF SessionInv, Session, TargetIsOpened
  <2>2. /\ held' = {}
        /\ released' = [released EXCEPT ![target] = released[target] + 1]
    BY <1>0, <1>1, <1>3 DEF SessionInv, Session, HeldOnlyWhileInUse, Dispose, Release
  <2>3. released[target] = 0
    BY <1>1, <2>1 DEF SessionInv, Session, ReleasedIsOver
  <2>4. /\ released'[target] = 1 /\ released' \in [Call -> Nat]
        /\ \A c \in Call \ {target} : released'[c] = released[c]
    BY <1>0, <2>1, <2>2, <2>3
  <2>5. transport # "per-call" /\ \A c \in Call : ~UnderWay(c)
    BY <1>3, <2>1 DEF SessionInv, Session, PerCallSharesNothing, OneOpeningCounts, Counts, UnderWay
  <2>6. TypeOK'
    <3>1. target' \in Call \union {None}
      BY <1>0, <1>1
    <3> QED
      BY <1>0, <1>1, <2>2, <2>4, <3>1, Typed, TypedAgain
  <2>7. PerCallSharesNothing' /\ ConnectingIsNative' /\ DisposedJoinsNothing' /\ TargetIsOpened'
    BY <1>1, <2>5 DEF SessionInv, Session, PerCallSharesNothing, ConnectingIsNative,
       DisposedJoinsNothing, TargetIsOpened
  <2>8. OneOpeningCounts'
    BY <1>1 DEF SessionInv, Session, OneOpeningCounts, Counts, UnderWay
  <2>9. ReleasedIsOver'
    BY <1>1, <2>1, <2>4 DEF SessionInv, Session, ReleasedIsOver
  <2>10. NativeReleasesLast'
    BY <1>1, <2>5 DEF NativeReleasesLast, UnderWay
  <2>11. HeldOnlyWhileInUse'
    BY <1>1, <2>2, <2>4 DEF SessionInv, Session, HeldOnlyWhileInUse
  <2>12. \A c \in Call : PerCall(c)'
    BY <1>1 DEF SessionInv, PerCall, NothingBeforeItBegins, KnowsItsOpening, JoinsAnother
  <2> QED
    BY <2>6, <2>7, <2>8, <2>9, <2>10, <2>11, <2>12 DEF SessionInv, Session
<1> QED
  BY <1>2, <1>3

LEMMA NextKeeps == SessionInv /\ [Next]_vars => SessionInv'
<1> SUFFICES ASSUME SessionInv, [Next]_vars PROVE SessionInv'
  OBVIOUS
<1>1. ASSUME NEW c \in Call,
             \/ Opening(c) \/ Calling(c) \/ Answers(c) \/ TimerFires(c)
             \/ InvokeRefused(c) \/ InvokeOpen(c) \/ Invoke(c)
      PROVE  SessionInv'
  BY <1>1, OpeningKeeps, ResumeKeeps, ResumeFailedKeeps, AnswersKeeps, TimerFiresKeeps,
     InvokeRefusedKeeps, InvokeOpenKeeps, InvokeKeeps DEF Calling
<1>2. CASE UNCHANGED vars
  <2>1. UNCHANGED <<options, disposed, current, target, held, released, opening, call, provider>>
    BY <1>2 DEF vars
  <2>2. TypeOK'
    BY <2>1, Typed, TypedAgain DEF SessionInv
  <2> QED
    BY <2>1, <2>2, OpeningsMove
<1> QED
  BY <1>1, <1>2, ProviderKeeps, TokenArrivesKeeps, DisposeKeeps DEF Next

LEMMA SessionInvariance == Spec => []SessionInv
BY InitSession, NextKeeps, PTL DEF Spec

-----------------------------------------------------------------------------
(* What a caller and its peer rely on. *)

\* Nothing stays open at the peer but what the session releases when it is
\* disposed, and then nothing, whether it opened before, during or after; and
\* nothing is released twice.
THEOREM NothingLeaks == Spec => []HeldOnlyWhileInUse
<1>1. SessionInv => HeldOnlyWhileInUse
  BY DEF SessionInv, Session
<1> QED
  BY SessionInvariance, <1>1, PTL

\* Who was told of a failed opening does not join it again.
THEOREM FailuresDoNotStick == Spec => []FailuresAreForgotten
<1>1. SessionInv => FailuresAreForgotten
  BY DEF SessionInv, PerCall, JoinsAnother, FailuresAreForgotten
<1> QED
  BY SessionInvariance, <1>1, PTL

\* The late news of a failed opening forgets that opening and never the newer one.
THEOREM ForgettingIsOwn == Spec => ForgetsOnlyFailures
<1>1. SessionInv /\ [Next]_vars =>
        [current # None /\ current' = None /\ ~disposed' => opening[current] = "failed"]_vars
  <2> SUFFICES ASSUME SessionInv, Next, current # None, current' = None, ~disposed'
               PROVE  opening[current] = "failed"
    OBVIOUS
  <2>1. ASSUME NEW c \in Call, ResumeFailed(c) PROVE opening[current] = "failed"
    BY <2>1 DEF ResumeFailed, Awaits
  <2>2. ASSUME NEW c \in Call, Invoke(c) PROVE FALSE
    BY <2>2, NoneAssumption DEF Invoke
  <2> QED
    BY <2>1, <2>2 DEF Next, Provider, TokenArrives, TokenStored, TokenRefused, RequestSettles,
       TokenAges, Dispose, Opening, OpeningFails, Connect, TargetArrives, OpenSocket,
       SocketFails, OpenPerCall, Calling, Resume, Answers, TimerFires, InvokeRefused, InvokeOpen
<1> QED
  BY SessionInvariance, <1>1, PTL DEF Spec, ForgetsOnlyFailures

\* No method is called once the session is disposed, though the call began before.
THEOREM DisposedCallsNothing == Spec => NoCallOnceDisposed
<1>1. SessionInv /\ [Next]_vars =>
        [\A c \in Call : call'[c].pc = "called" /\ call[c].pc # "called" => ~disposed]_vars
  <2> SUFFICES ASSUME SessionInv, Next, disposed,
                      NEW d \in Call, call'[d].pc = "called", call[d].pc # "called"
               PROVE  FALSE
    OBVIOUS
  <2>0. TypeOK /\ call \in [Call -> CallRecord]
    BY Typed DEF SessionInv
  <2>1. ASSUME NEW c \in Call, NEW pc \in {"returned", "failed"}, Over(c, pc) PROVE FALSE
    BY <2>0, <2>1, OverIsAt, CallIsAtTyped
  <2>2. call' # call
    OBVIOUS
  <2>3. ASSUME NEW c \in Call, OpeningFails(c) \/ OpenPerCall(c) \/ Resume(c) \/ ResumeFailed(c)
                                 \/ Answers(c) \/ InvokeRefused(c)
        PROVE  FALSE
    BY <2>1, <2>2, <2>3 DEF OpeningFails, OpenPerCall, Resume, ResumeFailed, Answers, InvokeRefused
  <2>4. ASSUME NEW c \in Call, TimerFires(c) PROVE FALSE
    BY <2>0, <2>4 DEF TimerFires, CallRecord
  <2>5. ASSUME NEW c \in Call, InvokeOpen(c) \/ Invoke(c) PROVE FALSE
    BY <2>5 DEF InvokeOpen, Invoke
  <2> QED
    BY <2>2, <2>3, <2>4, <2>5 DEF Next, Provider, TokenArrives, TokenStored, TokenRefused,
       RequestSettles, TokenAges, Dispose, Opening, Connect, TargetArrives, OpenSocket,
       SocketFails, Calling
<1> QED
  BY SessionInvariance, <1>1, PTL DEF Spec, NoCallOnceDisposed

-----------------------------------------------------------------------------
(* Who awaits an opening awaits one that somebody is at. *)

AskingHasRequest == \A c \in Call : opening[c] = "asking" => provider.request # "none"

CurrentIsBegun == current # None => opening[current] # "none"

AwaitsOneBegun(c) ==
  call[c].pc = "awaiting" =>
    /\ opening[call[c].on] # "none"
    /\ transport = "per-call" => call[c].on = c /\ opening[c] # "opened"

Attended == AskingHasRequest /\ CurrentIsBegun /\ \A c \in Call : AwaitsOneBegun(c)

\* No opening is taken back, and none asks without a request.
OpeningsGoOn ==
  \A c \in Call :
    /\ opening[c] # "none" => opening'[c] # "none"
    /\ opening'[c] = "asking" => provider'.request # "none"

\* c keeps awaiting what it awaited, unless a leg of its own is open.
StillAwaits(c) ==
  call'[c].pc = "awaiting" =>
    /\ call[c].pc = "awaiting" /\ call'[c].on = call[c].on
    /\ transport = "per-call" /\ opening'[c] = "opened" => opening[c] = "opened"

LEMMA AttendedStays ==
  ASSUME SessionInv, Attended, UNCHANGED transport, OpeningsGoOn,
         current' \in {current, None}, \A c \in Call : StillAwaits(c)
  PROVE  Attended'
<1>1. AskingHasRequest'
  BY DEF OpeningsGoOn, AskingHasRequest
<1>2. CurrentIsBegun'
  BY Typed DEF SessionInv, Attended, OpeningsGoOn, CurrentIsBegun
<1>3. ASSUME NEW c \in Call PROVE AwaitsOneBegun(c)'
  BY Typed DEF SessionInv, Attended, OpeningsGoOn, StillAwaits, AwaitsOneBegun
<1> QED
  BY <1>1, <1>2, <1>3 DEF Attended

\* A step of one call, or of none.
LEMMA CallsAttended ==
  ASSUME SessionInv, Attended, UNCHANGED <<transport, opening, provider>>,
         current' \in {current, None},
         \A c \in Call : call'[c].pc = "awaiting" =>
           call[c].pc = "awaiting" /\ call'[c].on = call[c].on
  PROVE  Attended'
<1>1. OpeningsGoOn
  BY DEF OpeningsGoOn, Attended, AskingHasRequest
<1>2. \A c \in Call : StillAwaits(c)
  BY DEF StillAwaits
<1> QED
  BY <1>1, <1>2, AttendedStays

LEMMA ProviderAttends ==
  ASSUME SessionInv, Attended, Provider \/ TokenAges
  PROVE  Attended'
<1>0. provider \in ProviderRecord /\ opening \in [Call -> Progress]
  BY Typed DEF SessionInv
<1>1. UNCHANGED <<transport, current, call>>
  BY DEF Provider, TokenArrives, TokenStored, TokenRefused, RequestSettles, TokenAges, options
<1>2. CASE TokenArrives \/ TokenAges
  <2>1. opening' = opening /\ (provider.request # "none" => provider'.request # "none")
    BY <1>0, <1>2 DEF TokenArrives, TokenAges, ProviderRecord
  <2>2. OpeningsGoOn
    BY <2>1 DEF OpeningsGoOn, Attended, AskingHasRequest
  <2> QED
    BY <1>1, <2>1, <2>2, AttendedStays DEF StillAwaits
<1>3. ASSUME NEW outcome \in {"tokened", "failed"}, RequestSettles(outcome) PROVE Attended'
  <2>1. opening' = [c \in Call |-> IF opening[c] = "asking" THEN outcome ELSE opening[c]]
    BY <1>3 DEF RequestSettles
  <2>2. OpeningsGoOn
    BY <2>1 DEF OpeningsGoOn
  <2>3. \A c \in Call : StillAwaits(c)
    BY <1>1, <2>1 DEF StillAwaits
  <2> QED
    BY <1>1, <2>2, <2>3, AttendedStays
<1> QED
  BY <1>2, <1>3 DEF Provider, TokenStored, TokenRefused

LEMMA OpeningAttends ==
  ASSUME SessionInv, Attended, NEW c \in Call, Opening(c)
  PROVE  Attended'
<1>0. TypeOK /\ call \in [Call -> CallRecord]
  BY Typed DEF SessionInv
<1>1. UNCHANGED <<transport, current, provider>>
  BY DEF Opening, OpeningFails, Connect, TargetArrives, OpenSocket, SocketFails, OpenPerCall, options
<1>2. PICK outcome \in {"failed", "connecting", "opened"} : Ended(c, outcome)
  BY DEF Opening, OpeningFails, Connect, TargetArrives, OpenSocket, SocketFails, OpenPerCall
<1>3. opening'[c] = outcome /\ \A d \in Call \ {c} : opening'[d] = opening[d]
  BY <1>0, <1>2, EndedTyped DEF Progress
<1>4. OpeningsGoOn
  BY <1>1, <1>2, <1>3 DEF OpeningsGoOn, Attended, AskingHasRequest
<1>5. /\ \A d \in Call : call'[d].pc = "awaiting" => call[d].pc = "awaiting" /\ call'[d].on = call[d].on
      /\ call'[c].pc = "awaiting" /\ transport = "per-call" => outcome = "failed"
  <2>1. CASE UNCHANGED call /\ (transport = "per-call" => outcome = "failed")
    BY <2>1
  <2>2. ASSUME NEW pc \in {"called", "failed"}, CallIsAt(c, pc)
        PROVE  /\ call'[c].pc # "awaiting"
               /\ \A d \in Call : call'[d].pc = "awaiting" =>
                    call[d].pc = "awaiting" /\ call'[d].on = call[d].on
    BY <1>0, <2>2, CallIsAtTyped
  <2>3. CASE UNCHANGED call
    <3>1. CASE OpeningFails(c)
      BY <1>0, <1>3, <2>1, <2>3, <3>1, EndedTyped DEF OpeningFails, Progress
    <3>2. CASE Connect(c) \/ OpenSocket(c) \/ SocketFails(c)
      BY <2>1, <2>3, <3>2 DEF Connect, OpenSocket, SocketFails
    <3>3. CASE TargetArrives(c)
      BY <2>1, <2>3, <3>3 DEF TargetArrives, SessionInv, Session, ConnectingIsNative
    <3>4. CASE OpenPerCall(c)
      <4>1. Over(c, "failed") \/ call' = [call EXCEPT ![c].pc = "called"]
        BY <3>4 DEF OpenPerCall
      <4> QED
        BY <1>0, <2>2, <4>1, OverIsAt, CalledIsAt
    <3> QED
      BY <3>1, <3>2, <3>3, <3>4 DEF Opening
  <2>4. CASE Over(c, "failed") \/ call' = [call EXCEPT ![c].pc = "called"]
    BY <1>0, <2>2, <2>4, OverIsAt, CalledIsAt
  <2> QED
    BY <2>3, <2>4 DEF Opening, OpeningFails, Connect, TargetArrives, OpenSocket, SocketFails,
                      OpenPerCall
<1>6. \A d \in Call : StillAwaits(d)
  BY <1>3, <1>5 DEF StillAwaits
<1> QED
  BY <1>1, <1>4, <1>6, AttendedStays

LEMMA CallingAttends ==
  ASSUME SessionInv, Attended, NEW c \in Call,
         Calling(c) \/ Answers(c) \/ TimerFires(c) \/ InvokeRefused(c) \/ InvokeOpen(c)
  PROVE  Attended'
<1>0. TypeOK /\ call \in [Call -> CallRecord]
  BY Typed DEF SessionInv
<1>1. UNCHANGED <<transport, opening, provider>> /\ current' \in {current, None}
  BY DEF Calling, Resume, ResumeFailed, Answers, TimerFires, InvokeRefused, InvokeOpen, options
<1>2. ASSUME NEW pc \in {"called", "returned", "failed"}, CallIsAt(c, pc) PROVE Attended'
  BY <1>0, <1>1, <1>2, CallIsAtTyped, CallsAttended
<1>3. CASE TimerFires(c) \/ InvokeOpen(c)
  <2>1. \A d \in Call : call'[d].pc = "awaiting" =>
          call[d].pc = "awaiting" /\ call'[d].on = call[d].on
    BY <1>0, <1>3 DEF TimerFires, InvokeOpen, CallRecord
  <2> QED
    BY <1>1, <2>1, CallsAttended
<1>4. CASE Calling(c) \/ Answers(c) \/ InvokeRefused(c)
  <2>1. \/ \E pc \in {"returned", "failed"} : Over(c, pc)
        \/ call' = [call EXCEPT ![c].pc = "called"]
    BY <1>4 DEF Calling, Resume, ResumeFailed, Answers, InvokeRefused
  <2> QED
    BY <1>0, <1>2, <2>1, OverIsAt, CalledIsAt
<1> QED
  BY <1>3, <1>4

\* A call that begins to await either begins the opening or finds it begun.
LEMMA InvokeAttends ==
  ASSUME SessionInv, Attended, NEW c \in Call, Invoke(c)
  PROVE  Attended'
<1>0. TypeOK /\ call \in [Call -> CallRecord] /\ opening \in [Call -> Progress]
      /\ provider \in ProviderRecord /\ None \notin Call /\ current \in Call \union {None}
  BY Typed DEF SessionInv
<1> DEFINE joins == transport # "per-call" /\ current # None
<1>1. PICK r \in CallRecord :
        /\ r.pc = "awaiting" /\ r.on = IF joins THEN current ELSE c
        /\ call' = [call EXCEPT ![c] = r]
  BY InvokeCalls
<1>2. call'[c] = r /\ \A d \in Call \ {c} : call'[d] = call[d]
  BY <1>0, <1>1
<1>3. UNCHANGED transport
  BY DEF Invoke, options
<1>4. CASE joins
  <2>1. UNCHANGED <<opening, provider, current>>
    BY <1>4 DEF Invoke
  <2>2. opening[current] # "none"
    BY <1>4 DEF Attended, CurrentIsBegun
  <2>3. ASSUME NEW d \in Call PROVE AwaitsOneBegun(d)'
    BY <1>1, <1>2, <1>3, <1>4, <2>1, <2>2 DEF Attended, AwaitsOneBegun
  <2> QED
    BY <2>1, <2>3 DEF Attended, AskingHasRequest, CurrentIsBegun
<1>5. CASE ~joins
  <2>1. Ask(c) /\ current' \in {current, c} /\ opening[c] = "none"
    BY <1>5 DEF Invoke, SessionInv, PerCall, NothingBeforeItBegins
  <2>2. /\ opening'[c] \in {"asking", "tokened"}
        /\ \A d \in Call \ {c} : opening'[d] = opening[d]
        /\ opening'[c] = "asking" => provider'.request # "none"
        /\ provider.request # "none" => provider'.request # "none"
    BY <1>0, <2>1 DEF Ask, ProviderRecord
  <2>3. AskingHasRequest'
    BY <2>2 DEF Attended, AskingHasRequest
  <2>4. CurrentIsBegun'
    BY <1>0, <2>1, <2>2 DEF Attended, CurrentIsBegun
  <2>5. ASSUME NEW d \in Call PROVE AwaitsOneBegun(d)'
    <3>1. CASE d = c
      BY <1>1, <1>2, <1>5, <2>2, <3>1 DEF AwaitsOneBegun
    <3>2. CASE d # c
      <4>1. call'[d] = call[d] /\ opening'[d] = opening[d]
        BY <1>2, <2>2, <3>2
      <4>2. call[d].pc = "awaiting" => call[d].on \in Call
        BY <1>0, Typed
      <4> QED
        BY <1>3, <2>2, <4>1, <4>2 DEF Attended, AwaitsOneBegun
    <3> QED
      BY <3>1, <3>2
  <2> QED
    BY <2>3, <2>4, <2>5 DEF Attended
<1> QED
  BY <1>4, <1>5

\* Whoever awaits an opening awaits one that somebody is at: an opening that asks
\* for a token has a request to wait for, whoever sent it, and a call on a leg of
\* its own is not left behind when its leg opens: for any number of calls, over
\* each transport, with the session disposed at any moment.
THEOREM NoOpeningIsAbandoned == Spec => []OpeningsAreAttended
<1>1. Init => Attended
  BY DEF Init, Attended, AskingHasRequest, CurrentIsBegun, AwaitsOneBegun
<1>2. ASSUME SessionInv, Attended, [Next]_vars
      PROVE  Attended'
  <2>1. ASSUME NEW c \in Call, Opening(c) PROVE Attended'
    BY <1>2, <2>1, OpeningAttends
  <2>2. ASSUME NEW c \in Call,
               Calling(c) \/ Answers(c) \/ TimerFires(c) \/ InvokeRefused(c) \/ InvokeOpen(c)
        PROVE  Attended'
    BY <1>2, <2>2, CallingAttends
  <2>3. ASSUME NEW c \in Call, Invoke(c) PROVE Attended'
    BY <1>2, <2>3, InvokeAttends
  <2>4. CASE Dispose \/ UNCHANGED vars
    <3>1. UNCHANGED <<transport, opening, call, provider>> /\ current' \in {current, None}
      BY <2>4 DEF Dispose, vars, options
    <3> QED
      BY <1>2, <3>1, CallsAttended
  <2> QED
    BY <1>2, <2>1, <2>2, <2>3, <2>4, ProviderAttends DEF Next
<1>3. ASSUME Attended PROVE OpeningsAreAttended
  BY <1>3 DEF Attended, AskingHasRequest, AwaitsOneBegun, OpeningsAreAttended
<1> QED
  BY <1>1, <1>2, <1>3, SessionInvariance, PTL DEF Spec

=============================================================================
