--------------------------- MODULE AbilitySession ---------------------------
(***************************************************************************)
(* The caller's end of an ability session: the proxy capabilityRpcSession  *)
(* returns.  Concurrent calls share one token provider and, on a session   *)
(* transport, one opening: of a socket's root, or of the target behind a   *)
(* native binding.  The caller may dispose the session at any moment, in   *)
(* particular while it opens.  An opening is named by the call that began  *)
(* it, and so is what it opens.  In a session with a budget a caller waits *)
(* no longer than that, while its call goes on.                            *)
(*                                                                         *)
(* A step runs from one await to the next.                                 *)
(***************************************************************************)
EXTENDS Naturals

CONSTANTS Call, None

ASSUME NoneAssumption == None \notin Call

VARIABLES
  transport,  \* "per-call" (HTTP-batch, fetch), "socket" or "native"
  budget,     \* whether the session has a timeoutMs
  disposed,
  current,    \* persistentOpening or nativeBinding: the opening calls join
  target,     \* persistentRoot or nativeTarget
  held,       \* the roots and targets that are open at the peer
  released,   \* [Call -> how often what its opening opened was released]
  opening,    \* [Call -> how far the opening it began has come]
  call,       \* [Call -> its invokeMethod, the opening it awaits, and what
              \* its caller was told]
  provider    \* the token provider: a usable token, a request under way

options == <<transport, budget>>
vars == <<options, disposed, current, target, held, released, opening, call, provider>>
peer == <<target, held, released>>

Init ==
  /\ transport \in {"per-call", "socket", "native"}
  /\ budget \in BOOLEAN
  /\ disposed = FALSE
  /\ current = None
  /\ target = None
  /\ held = {}
  /\ released = [c \in Call |-> 0]
  /\ opening = [c \in Call |-> "none"]
  /\ call = [c \in Call |-> [pc |-> "idle", on |-> None, told |-> "nothing"]]
  /\ provider = [usable |-> FALSE, request |-> "none"]

\* The call of c is over; its caller hears of it, unless it has given up.
Over(c, pc) ==
  call' = [call EXCEPT ![c].pc = pc, ![c].told = IF @ = "nothing" THEN "outcome" ELSE @]

-----------------------------------------------------------------------------
(* The token provider: one token kept, one request at a time. *)

\* The request, to the shared cache and then to the plane, has a token: it is
\* kept before it is written back to the shared cache.
TokenArrives ==
  /\ provider.request = "sent"
  /\ provider' = [usable |-> TRUE, request |-> "storing"]
  /\ UNCHANGED <<options, disposed, current, peer, opening, call>>

\* The request ends, for all who awaited it.
RequestSettles(outcome) ==
  /\ provider' = [provider EXCEPT !.request = "none"]
  /\ opening' = [c \in Call |-> IF opening[c] = "asking" THEN outcome ELSE opening[c]]
  /\ UNCHANGED <<options, disposed, current, peer, call>>

\* Fault: the refusal reaches nobody.
TokenRefusedSilently ==
  /\ provider.request = "sent"
  /\ provider' = [provider EXCEPT !.request = "none"]
  /\ UNCHANGED <<options, disposed, current, peer, opening, call>>

TokenStored == provider.request = "storing" /\ RequestSettles("tokened")
TokenRefused == provider.request = "sent" /\ RequestSettles("failed")

\* The kept token comes within the refresh skew of its expiry.
TokenAges ==
  /\ provider.usable
  /\ provider' = [provider EXCEPT !.usable = FALSE]
  /\ UNCHANGED <<options, disposed, current, peer, opening, call>>

\* c begins an opening by asking the provider for a token.
Ask(c) ==
  /\ opening' = [opening EXCEPT ![c] = IF provider.usable THEN "tokened" ELSE "asking"]
  /\ provider' = IF provider.usable \/ provider.request # "none" THEN provider
                 ELSE [provider EXCEPT !.request = "sent"]

-----------------------------------------------------------------------------
(* Opening. *)

\* The opening of c ends.
Ended(c, outcome) == opening' = [opening EXCEPT ![c] = outcome]

\* What c opened is disposed.
Release(c) ==
  /\ held' = held \ {c}
  /\ released' = [released EXCEPT ![c] = @ + 1]

\* The proof cannot be signed, or connectAbility refuses or fails.
OpeningFails(c) ==
  /\ opening[c] \in {"tokened", "connecting"}
  /\ Ended(c, "failed")
  /\ IF transport = "per-call" THEN Over(c, "failed") ELSE UNCHANGED call
  /\ UNCHANGED <<options, disposed, current, peer, provider>>

\* A native binding is asked for the ability, unless the session is disposed.
Connect(c) ==
  /\ opening[c] = "tokened" /\ transport = "native"
  /\ Ended(c, IF disposed THEN "failed" ELSE "connecting")
  /\ UNCHANGED <<options, disposed, current, peer, call, provider>>

\* Fault: nobody looks whether the session was disposed meanwhile.
TargetArrivesUnchecked(c) ==
  /\ opening[c] = "connecting"
  /\ target' = IF target = None THEN c ELSE target
  /\ held' = held \cup {c}
  /\ Ended(c, "opened")
  /\ UNCHANGED <<options, disposed, current, released, call, provider>>

\* connectAbility answers; too late for a disposed session, which lets the
\* target go at once, if none was released yet.
TargetArrives(c) ==
  /\ opening[c] = "connecting"
  /\ target' = IF target = None THEN c ELSE target
  /\ Ended(c, IF disposed THEN "failed" ELSE "opened")
  /\ IF disposed /\ \A d \in Call : released[d] = 0
     THEN released' = [released EXCEPT ![c] = 1] /\ UNCHANGED held
     ELSE held' = held \cup {c} /\ UNCHANGED released
  /\ UNCHANGED <<options, disposed, current, call, provider>>

\* A socket is opened and authenticate is pipelined on its root.
OpenSocket(c) ==
  /\ opening[c] = "tokened" /\ transport = "socket"
  /\ IF disposed
     THEN Ended(c, "failed") /\ UNCHANGED peer
     ELSE /\ Ended(c, "opened")
          /\ target' = c /\ held' = held \cup {c}
          /\ UNCHANGED released
  /\ UNCHANGED <<options, disposed, current, call, provider>>

\* The root cannot authenticate: it is disposed in the same segment.
SocketFails(c) ==
  /\ opening[c] = "tokened" /\ transport = "socket" /\ ~disposed
  /\ Ended(c, "failed")
  /\ released' = [released EXCEPT ![c] = 1]
  /\ UNCHANGED <<options, disposed, current, target, held, call, provider>>

\* A leg of its own for one call, closed by its end.
OpenPerCall(c) ==
  /\ opening[c] = "tokened" /\ transport = "per-call"
  /\ Ended(c, IF disposed THEN "failed" ELSE "opened")
  /\ IF disposed THEN Over(c, "failed") ELSE call' = [call EXCEPT ![c].pc = "called"]
  /\ UNCHANGED <<options, disposed, current, peer, provider>>

-----------------------------------------------------------------------------
(* Calling. *)

InvokeRefused(c) ==
  /\ call[c].pc = "idle" /\ disposed
  /\ Over(c, "failed")
  /\ UNCHANGED <<options, disposed, current, peer, opening, provider>>

\* The session is open: the method is called on what it opened.
InvokeOpen(c) ==
  /\ call[c].pc = "idle" /\ ~disposed /\ target # None
  /\ call' = [call EXCEPT ![c].pc = "called", ![c].on = target]
  /\ UNCHANGED <<options, disposed, current, peer, opening, provider>>

\* It is not: the call begins an opening, or joins the one under way.
Invoke(c) ==
  /\ call[c].pc = "idle" /\ ~disposed /\ target = None
  /\ LET joins == transport # "per-call" /\ current # None
     IN /\ call' = [call EXCEPT ![c].pc = "awaiting", ![c].on = IF joins THEN current ELSE c]
        /\ IF joins THEN UNCHANGED <<opening, provider>> ELSE Ask(c)
        /\ current' = IF transport = "per-call" \/ joins THEN current ELSE c
  /\ UNCHANGED <<options, disposed, peer>>

Awaits(c, outcome) == call[c].pc = "awaiting" /\ opening[call[c].on] = outcome

\* Fault: the opening that failed stays the one to join.
ResumeFailedRemembering(c) ==
  /\ Awaits(c, "failed")
  /\ Over(c, "failed")
  /\ UNCHANGED <<options, disposed, current, peer, opening, provider>>

\* Fault: whatever opening is under way is forgotten.
ResumeFailedForgetting(c) ==
  /\ Awaits(c, "failed")
  /\ Over(c, "failed")
  /\ current' = None
  /\ UNCHANGED <<options, disposed, peer, opening, provider>>

\* The opening that was awaited failed: it is forgotten, a newer one is not.
ResumeFailed(c) ==
  /\ Awaits(c, "failed")
  /\ Over(c, "failed")
  /\ current' = IF current = call[c].on THEN None ELSE current
  /\ UNCHANGED <<options, disposed, peer, opening, provider>>

\* Fault: the session is not looked at again after the await.
ResumeUnchecked(c) ==
  /\ transport # "per-call" /\ Awaits(c, "opened")
  /\ call' = [call EXCEPT ![c].pc = "called"]
  /\ UNCHANGED <<options, disposed, current, peer, opening, provider>>

\* It succeeded: the method is called, unless the session was disposed since.
Resume(c) ==
  /\ transport # "per-call" /\ Awaits(c, "opened")
  /\ IF disposed THEN Over(c, "failed") ELSE call' = [call EXCEPT ![c].pc = "called"]
  /\ UNCHANGED <<options, disposed, current, peer, opening, provider>>

\* The method returned or threw, or the connection broke.
Answers(c) ==
  /\ call[c].pc = "called"
  /\ \E outcome \in {"returned", "failed"} : Over(c, outcome)
  /\ UNCHANGED <<options, disposed, current, peer, opening, provider>>

\* The budget, with its grace, is over for the caller of c.
TimerFires(c) ==
  /\ budget
  /\ call[c].pc \in {"awaiting", "called"} /\ call[c].told = "nothing"
  /\ call' = [call EXCEPT ![c].told = "timeout"]
  /\ UNCHANGED <<options, disposed, current, peer, opening, provider>>

\* The session is disposed, and what it has opened with it; what is still
\* opening releases itself.
Dispose ==
  /\ ~disposed
  /\ disposed' = TRUE
  /\ IF target = None THEN UNCHANGED <<held, released>> ELSE Release(target)
  /\ target' = IF transport = "socket" THEN None ELSE target
  /\ current' = None
  /\ UNCHANGED <<options, opening, call, provider>>

-----------------------------------------------------------------------------
Provider == TokenArrives \/ TokenStored \/ TokenRefused

Opening(c) ==
  \/ OpeningFails(c) \/ Connect(c) \/ TargetArrives(c)
  \/ OpenSocket(c) \/ SocketFails(c) \/ OpenPerCall(c)

Calling(c) == Resume(c) \/ ResumeFailed(c)

Next ==
  \/ Provider \/ TokenAges \/ Dispose
  \/ \E c \in Call : Opening(c) \/ Calling(c) \/ Answers(c) \/ TimerFires(c)
  \/ \E c \in Call : InvokeRefused(c) \/ InvokeOpen(c) \/ Invoke(c)

\* The runtime resumes who awaits what has settled, and its timers fire.  Only
\* of a session without a budget is it assumed that tokens, proofs, connections
\* and methods are answered or refused at all.
Spec ==
  /\ Init /\ [][Next]_vars
  /\ \A c \in Call : WF_vars(Calling(c)) /\ WF_vars(TimerFires(c))
  /\ WF_vars(~budget /\ Provider)
  /\ \A c \in Call : WF_vars(~budget /\ Opening(c)) /\ WF_vars(~budget /\ Answers(c))

-----------------------------------------------------------------------------
TypeOK ==
  /\ transport \in {"per-call", "socket", "native"}
  /\ disposed \in BOOLEAN
  /\ current \in Call \cup {None}
  /\ target \in Call \cup {None}
  /\ held \subseteq Call
  /\ released \in [Call -> Nat]
  /\ opening \in [Call -> {"none", "asking", "tokened", "connecting", "opened", "failed"}]
  /\ budget \in BOOLEAN
  /\ call \in [Call -> [pc : {"idle", "awaiting", "called", "returned", "failed"},
                       on : Call \cup {None}, told : {"nothing", "outcome", "timeout"}]]
  /\ \A c \in Call : call[c].pc = "awaiting" => call[c].on \in Call
  /\ provider \in [usable : BOOLEAN, request : {"none", "sent", "storing"}]

\* Nothing stays open at the peer but what the session will release when it is
\* disposed, and then nothing, whether it opened before, during or after; and it
\* is released once, by whichever of the opening and the disposal comes second.
HeldOnlyWhileInUse ==
  /\ held \subseteq (IF disposed THEN {} ELSE {target})
  /\ \A c \in Call : released[c] <= 1

\* A caller told of a failed opening can call again: the failure is not what
\* its next call will join.  And every variable keeps its type.
FailuresAreForgotten ==
  /\ TypeOK
  /\ \A c \in Call :
       call[c].pc = "failed" /\ call[c].on # None /\ opening[call[c].on] = "failed"
         => current # call[c].on

\* The late news of a failed opening never forgets the newer one under way,
\* which would open a second socket or target beside it.
ForgetsOnlyFailures ==
  [][current # None /\ current' = None /\ ~disposed' => opening[current] = "failed"]_vars

\* No method is called once the session is disposed, though the call began
\* before.
NoCallOnceDisposed ==
  [][\A c \in Call : call'[c].pc = "called" /\ call[c].pc # "called" => ~disposed]_vars

\* Who awaits an opening awaits one that somebody is at: one that asks for a token
\* has a request to wait for, though it joined it, or others join it in turn, and
\* an opening that ended has left none of its callers behind.
OpeningsAreAttended ==
  /\ \A c \in Call : opening[c] = "asking" => provider.request # "none"
  /\ \A c \in Call : call[c].pc = "awaiting" =>
       /\ opening[call[c].on] # "none"
       /\ transport = "per-call" => call[c].on = c /\ opening[c] # "opened"

\* Every caller is told something: no failed or abandoned opening leaves it
\* waiting; and in a session with a budget not even a token, a connection or a
\* method that hangs for ever (the comment at service/capabilities.ts:640).
EveryCallEnds == \A c \in Call : call[c].pc # "idle" ~> call[c].told # "nothing"

=============================================================================
