----------------------------- MODULE KeyService -----------------------------
(***************************************************************************)
(* What the control plane promises of its signing keys, without a cache:   *)
(* every request takes the key list once, at some instant between its      *)
(* arrival and its answer, and is answered from exactly that list or with  *)
(* an error.  SigningMemo, which remembers derived keys between requests,  *)
(* implements this.                                                        *)
(***************************************************************************)
CONSTANTS Request, KeyList, Error, None

VARIABLES
  current,  \* what the signingKeys option resolves to
  state,    \* [Request -> "idle", "waiting" or "answered"]
  taken,    \* [Request -> the list the request took, or None]
  answer    \* [Request -> the list it is answered from, Error or None]

vars == <<current, state, taken, answer>>

Init ==
  /\ current \in KeyList
  /\ state = [q \in Request |-> "idle"]
  /\ taken = [q \in Request |-> None]
  /\ answer = [q \in Request |-> None]

Rotate(k) ==
  /\ current' = k
  /\ UNCHANGED <<state, taken, answer>>

Arrive(q) ==
  /\ state[q] = "idle"
  /\ state' = [state EXCEPT ![q] = "waiting"]
  /\ UNCHANGED <<current, taken, answer>>

\* A request that was refused early may still be reading the list.
Take(q) ==
  /\ state[q] # "idle" /\ taken[q] = None
  /\ taken' = [taken EXCEPT ![q] = current]
  /\ UNCHANGED <<current, state, answer>>

Answer(q) ==
  /\ state[q] = "waiting" /\ taken[q] # None
  /\ state' = [state EXCEPT ![q] = "answered"]
  /\ answer' \in {[answer EXCEPT ![q] = a] : a \in {taken[q], Error}}
  /\ UNCHANGED <<current, taken>>

Fail(q) ==
  /\ state[q] = "waiting"
  /\ state' = [state EXCEPT ![q] = "answered"]
  /\ answer' = [answer EXCEPT ![q] = Error]
  /\ UNCHANGED <<current, taken>>

Next ==
  \/ \E k \in KeyList : Rotate(k)
  \/ \E q \in Request : Arrive(q) \/ Take(q) \/ Answer(q) \/ Fail(q)

Spec == Init /\ [][Next]_vars /\ \A q \in Request : WF_vars(Answer(q) \/ Fail(q))

=============================================================================
