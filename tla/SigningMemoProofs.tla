------------------------- MODULE SigningMemoProofs -------------------------
(***************************************************************************)
(* Proofs about the key memos of the control plane: they are coherent, a   *)
(* failed derivation forgets itself alone, and seen from its callers the   *)
(* plane derives its keys afresh for every request.                        *)
(*                                                                         *)
(* What the proofs need beyond the properties is where a request stands:   *)
(* that it holds nothing before its time, that the derivation it awaits is *)
(* of the list it read, and that the list it read is the one it took.      *)
(***************************************************************************)
EXTENDS SigningMemo, TLAPS

NothingBeforeItsTime(q) ==
  /\ state[q] = "idle" <=> pc[q] = "idle"
  /\ pc[q] = "idle" => catalog[q] = "none" /\ result[q] = None
  /\ pc[q] \in {"idle", "resolving"} => copied[q] = None
  /\ pc[q] \in {"idle", "resolving", "resolved"} =>
       snap[q] = None /\ derivation[q].keys = None

AwaitsItsOwnList(q) ==
  pc[q] = "deriving" =>
    /\ snap[q] # None /\ job[q] # None
    /\ derivation[job[q]].keys = snap[q]

ReadsWhatItTook(q) ==
  snap[q] # None /\ copied[q] # None => snap[q] = copied[q]

AnswersFromWhatItRead(q) ==
  /\ result[q] \notin {None, Error} => result[q] = snap[q]
  /\ state[q] = "answered" => result[q] # None

PerRequest(q) ==
  /\ NothingBeforeItsTime(q)
  /\ AwaitsItsOwnList(q)
  /\ ReadsWhatItTook(q)
  /\ AnswersFromWhatItRead(q)

\* A memo is empty in both its parts or in neither.
MemoIsWhole == material.keys = None <=> material.job = None

MemoInv ==
  /\ MemosAreCoherent
  /\ MemoIsWhole
  /\ \A q \in Request : PerRequest(q)

-----------------------------------------------------------------------------
(* What steps have in common. *)

LEMMA NoneIsApart ==
  /\ None \notin KeyList /\ None \notin Request /\ None # Error
  /\ Error \notin KeyList
BY SigningMemoAssumption

LEMMA InitMemo == Init => MemoInv
<1> SUFFICES ASSUME Init PROVE MemoInv
  OBVIOUS
<1>1. TypeOK
  BY SigningMemoAssumption
  DEF Init, TypeOK, Some, NoDerivation, NoAuthority, NoMaterial
<1>2. MemosAreCoherent /\ MemoIsWhole
  BY <1>1 DEF Init, MemosAreCoherent, MemoIsWhole, NoAuthority, NoMaterial
<1>3. ASSUME NEW q \in Request PROVE PerRequest(q)
  BY DEF Init, PerRequest, NothingBeforeItsTime, AwaitsItsOwnList,
     ReadsWhatItTook, AnswersFromWhatItRead, NoDerivation
<1> QED
  BY <1>2, <1>3 DEF MemoInv

\* What is true of a request stays true if a step leaves it alone and no
\* derivation that has begun changes its list.
LEMMA OthersKeep ==
  ASSUME MemoInv, NEW p \in Request,
         state'[p] = state[p], pc'[p] = pc[p], copied'[p] = copied[p],
         snap'[p] = snap[p], job'[p] = job[p], catalog'[p] = catalog[p],
         result'[p] = result[p],
         derivation'[p].keys = derivation[p].keys,
         \A r \in Request : derivation[r].keys # None =>
                              derivation'[r].keys = derivation[r].keys
  PROVE  PerRequest(p)'
<1>1. NothingBeforeItsTime(p)' /\ ReadsWhatItTook(p)' /\ AnswersFromWhatItRead(p)'
  BY DEF MemoInv, PerRequest, NothingBeforeItsTime, ReadsWhatItTook,
     AnswersFromWhatItRead
<1>2. job[p] \in Request \union {None}
  BY DEF MemoInv, MemosAreCoherent, TypeOK, Some
<1>3. AwaitsItsOwnList(p)'
  BY <1>2 DEF MemoInv, PerRequest, AwaitsItsOwnList
<1> QED
  BY <1>1, <1>3 DEF PerRequest

\* The memos stay coherent if a step touches neither them nor a derivation.
LEMMA MemosKeep ==
  ASSUME MemoInv, TypeOK', UNCHANGED memos
  PROVE  MemosAreCoherent' /\ MemoIsWhole'
BY DEF MemoInv, MemosAreCoherent, MemoIsWhole, memos

\* The first outcome of a request is one of its answers, and it is final.
LEMMA OutcomeIsFinal ==
  ASSUME TypeOK, NEW q \in Request, NEW value \in KeyList \union {Error},
         Outcome(q, value)
  PROVE  /\ result' \in [Request -> Some(KeyList \union {Error})]
         /\ \A p \in Request \ {q} : result'[p] = result[p]
         /\ result[q] # None => result'[q] = result[q]
         /\ result[q] = None => result'[q] = value
         /\ result'[q] # None
<1>1. result \in [Request -> Some(KeyList \union {Error})]
  BY DEF TypeOK
<1>2. value # None /\ value \in Some(KeyList \union {Error})
  BY NoneIsApart DEF Some
<1> QED
  BY <1>1, <1>2 DEF Outcome

-----------------------------------------------------------------------------
(* One lemma per step of the plane. *)

LEMMA RotateKeeps ==
  ASSUME MemoInv, NEW k \in KeyList, Rotate(k)
  PROVE  MemoInv'
<1>0. TypeOK
  BY DEF MemoInv, MemosAreCoherent
<1>1. TypeOK'
  <2>1. rotations' \in 0..MaxRotations
    BY <1>0, SigningMemoAssumption DEF TypeOK, Rotate
  <2> QED
    BY <1>0, <2>1 DEF TypeOK, Rotate
<1>2. MemosAreCoherent' /\ MemoIsWhole'
  BY <1>1, MemosKeep DEF Rotate, memos
<1>3. ASSUME NEW p \in Request PROVE PerRequest(p)'
  BY OthersKeep DEF Rotate
<1> QED
  BY <1>2, <1>3 DEF MemoInv

LEMMA ArriveKeeps ==
  ASSUME MemoInv, NEW q \in Request, Arrive(q)
  PROVE  MemoInv'
<1>0. TypeOK
  BY DEF MemoInv, MemosAreCoherent
<1>1. TypeOK'
  BY <1>0 DEF TypeOK, Arrive
<1>2. MemosAreCoherent' /\ MemoIsWhole'
  BY <1>1, MemosKeep DEF Arrive, memos
<1>3. ASSUME NEW p \in Request PROVE PerRequest(p)'
  <2>1. CASE p = q
    BY <2>1, <1>0 DEF Arrive, TypeOK, MemoInv, PerRequest, NothingBeforeItsTime,
       AwaitsItsOwnList, ReadsWhatItTook, AnswersFromWhatItRead
  <2>2. CASE p # q
    BY <2>2, <1>0, OthersKeep DEF Arrive, TypeOK
  <2> QED
    BY <2>1, <2>2
<1> QED
  BY <1>2, <1>3 DEF MemoInv

LEMMA ResolveKeeps ==
  ASSUME MemoInv, NEW q \in Request, Resolve(q)
  PROVE  MemoInv'
<1>0. TypeOK
  BY DEF MemoInv, MemosAreCoherent
<1>1. TypeOK'
  BY <1>0 DEF TypeOK, Resolve, memos, Some
<1>2. MemosAreCoherent' /\ MemoIsWhole'
  BY <1>1, MemosKeep DEF Resolve
<1>3. ASSUME NEW p \in Request PROVE PerRequest(p)'
  <2>1. CASE p = q
    BY <2>1, <1>0 DEF Resolve, memos, TypeOK, MemoInv, PerRequest,
       NothingBeforeItsTime, AwaitsItsOwnList, ReadsWhatItTook,
       AnswersFromWhatItRead
  <2>2. CASE p # q
    BY <2>2, <1>0, OthersKeep DEF Resolve, memos, TypeOK
  <2> QED
    BY <2>1, <2>2
<1> QED
  BY <1>2, <1>3 DEF MemoInv

\* A request that ends with an error, having read a list or not.
LEMMA ErrorKeeps ==
  ASSUME MemoInv, NEW q \in Request, pc[q] # "idle", Outcome(q, Error),
         UNCHANGED <<current, rotations, state, copied, snap, job, memos>>,
         pc' \in {pc, [pc EXCEPT ![q] = "finished"]},
         catalog' \in {catalog, [catalog EXCEPT ![q] = "failed"]}
  PROVE  MemoInv'
<1>0. TypeOK
  BY DEF MemoInv, MemosAreCoherent
<1>1. /\ result' \in [Request -> Some(KeyList \union {Error})]
      /\ \A p \in Request \ {q} : result'[p] = result[p]
      /\ result'[q] \in {result[q], Error} /\ result'[q] # None
  BY <1>0, OutcomeIsFinal
<1>2. TypeOK'
  BY <1>0, <1>1 DEF TypeOK, memos
<1>3. MemosAreCoherent' /\ MemoIsWhole'
  BY <1>2, MemosKeep
<1>4. ASSUME NEW p \in Request PROVE PerRequest(p)'
  <2>1. CASE p = q
    <3>1. pc'[q] \in {pc[q], "finished"} /\ pc'[q] # "idle"
      BY <1>0 DEF TypeOK
    <3>2. NothingBeforeItsTime(q)'
      BY <3>1 DEF MemoInv, PerRequest, NothingBeforeItsTime, memos
    <3>3. AwaitsItsOwnList(q)' /\ ReadsWhatItTook(q)'
      BY <3>1 DEF MemoInv, PerRequest, AwaitsItsOwnList, ReadsWhatItTook, memos
    <3>4. AnswersFromWhatItRead(q)'
      BY <1>1 DEF MemoInv, PerRequest, AnswersFromWhatItRead
    <3> QED
      BY <2>1, <3>2, <3>3, <3>4 DEF PerRequest
  <2>2. CASE p # q
    BY <2>2, <1>0, <1>1, OthersKeep DEF memos, TypeOK
  <2> QED
    BY <2>1, <2>2
<1> QED
  BY <1>3, <1>4 DEF MemoInv

LEMMA ResolverThrowsKeeps ==
  ASSUME MemoInv, NEW q \in Request, ResolverThrows(q)
  PROVE  MemoInv'
BY ErrorKeeps DEF ResolverThrows

LEMMA MaterialFailsKeeps ==
  ASSUME MemoInv, NEW q \in Request, MaterialFails(q)
  PROVE  MemoInv'
BY ErrorKeeps DEF MaterialFails

LEMMA CatalogSettlesKeeps ==
  ASSUME MemoInv, NEW q \in Request, CatalogSettles(q)
  PROVE  MemoInv'
<1>0. TypeOK
  BY DEF MemoInv, MemosAreCoherent
<1>1. pc[q] # "idle"
  BY DEF MemoInv, PerRequest, NothingBeforeItsTime, CatalogSettles
<1>2. CASE catalog' = [catalog EXCEPT ![q] = "failed"] /\ Outcome(q, Error)
  BY <1>1, <1>2, ErrorKeeps DEF CatalogSettles
<1>3. CASE catalog' = [catalog EXCEPT ![q] = "ready"] /\ UNCHANGED result
  <2>1. TypeOK'
    BY <1>0, <1>3 DEF TypeOK, CatalogSettles, memos
  <2>2. MemosAreCoherent' /\ MemoIsWhole'
    BY <2>1, MemosKeep DEF CatalogSettles
  <2>3. ASSUME NEW p \in Request PROVE PerRequest(p)'
    <3>1. CASE p = q
      BY <3>1, <1>1, <1>3 DEF CatalogSettles, memos, MemoInv, PerRequest,
         NothingBeforeItsTime, AwaitsItsOwnList, ReadsWhatItTook,
         AnswersFromWhatItRead
    <3>2. CASE p # q
      BY <3>2, <1>0, <1>3, OthersKeep DEF CatalogSettles, memos, TypeOK
    <3> QED
      BY <3>1, <3>2
  <2> QED
    BY <2>2, <2>3 DEF MemoInv
<1> QED
  BY <1>2, <1>3 DEF CatalogSettles

\* What a request reads when it resumes is a list, its copy if it was given one.
LEMMA ResolvedIsAList ==
  ASSUME TypeOK, NEW q \in Request
  PROVE  Resolved(q) \in KeyList /\ (copied[q] # None => Resolved(q) = copied[q])
BY DEF TypeOK, Resolved, Some

LEMMA AuthorityHitKeeps ==
  ASSUME MemoInv, NEW q \in Request, AuthorityHit(q)
  PROVE  MemoInv'
<1>0. TypeOK
  BY DEF MemoInv, MemosAreCoherent
<1>1. /\ Resolved(q) \in KeyList /\ authority.derived = Resolved(q)
      /\ copied[q] # None => Resolved(q) = copied[q]
  BY <1>0, ResolvedIsAList DEF AuthorityHit, MemoInv, MemosAreCoherent
<1>2. /\ result' \in [Request -> Some(KeyList \union {Error})]
      /\ \A p \in Request \ {q} : result'[p] = result[p]
      /\ result[q] # None => result'[q] = result[q]
      /\ result[q] = None => result'[q] = Resolved(q)
      /\ result'[q] # None
  BY <1>0, <1>1, OutcomeIsFinal DEF AuthorityHit
<1>3. snap' = [snap EXCEPT ![q] = Resolved(q)] /\ pc' = [pc EXCEPT ![q] = "finished"]
  BY DEF AuthorityHit
<1>4. TypeOK'
  BY <1>0, <1>1, <1>2, <1>3 DEF TypeOK, AuthorityHit, memos, Some
<1>5. MemosAreCoherent' /\ MemoIsWhole'
  BY <1>4, MemosKeep DEF AuthorityHit
<1>6. ASSUME NEW p \in Request PROVE PerRequest(p)'
  <2>1. CASE p = q
    <3>1. snap'[q] = Resolved(q) /\ pc'[q] = "finished" /\ snap[q] = None
          /\ state[q] # "idle"
      BY <1>0, <1>3 DEF TypeOK, AuthorityHit, MemoInv, PerRequest, NothingBeforeItsTime
    <3>2. NothingBeforeItsTime(q)' /\ AwaitsItsOwnList(q)' /\ ReadsWhatItTook(q)'
      BY <1>1, <3>1 DEF AuthorityHit, NothingBeforeItsTime, AwaitsItsOwnList,
         ReadsWhatItTook
    <3>3. result[q] \in {None, Error}
      BY <3>1 DEF MemoInv, PerRequest, AnswersFromWhatItRead
    <3>4. AnswersFromWhatItRead(q)'
      BY <1>1, <1>2, <3>1, <3>3 DEF AnswersFromWhatItRead
    <3> QED
      BY <2>1, <3>2, <3>4 DEF PerRequest
  <2>2. CASE p # q
    BY <2>2, <1>0, <1>2, OthersKeep DEF AuthorityHit, memos, TypeOK
  <2> QED
    BY <2>1, <2>2
<1> QED
  BY <1>5, <1>6 DEF MemoInv

\* signingMaterialFor leaves the request awaiting a derivation of the list it
\* asked for, and the memo holding it; a derivation it starts replaces none.
LEMMA MaterialIsOfTheList ==
  ASSUME MemoInv, NEW q \in Request, NEW keys \in KeyList, MaterialFor(q, keys),
         derivation[q].keys = None
  PROVE  /\ job' \in [Request -> Some(Request)]
         /\ job'[q] \in Request
         /\ derivation' \in [Request ->
              [keys : Some(KeyList),
               status : {"none", "pending", "fulfilled", "rejected", "reported"}]]
         /\ material' = [keys |-> keys, job |-> job'[q]]
         /\ derivation'[job'[q]].keys = keys
         /\ derivation'[job'[q]].status # "reported"
         /\ \A p \in Request \ {q} : job'[p] = job[p] /\ derivation'[p] = derivation[p]
<1>0. TypeOK /\ keys # None
  BY NoneIsApart DEF MemoInv, MemosAreCoherent
<1>1. CASE material.keys = keys
  <2>1. job' = [job EXCEPT ![q] = material.job] /\ UNCHANGED <<derivation, material>>
    BY <1>1 DEF MaterialFor
  <2>2. material.job \in Request
    BY <1>0, <1>1 DEF TypeOK, Some, MemoInv, MemoIsWhole
  <2>3. material = [keys |-> keys, job |-> material.job]
    BY <1>0, <1>1 DEF TypeOK
  <2>4. derivation[material.job].keys = keys /\ derivation[material.job].status # "reported"
    BY <1>1, <2>2, NoneIsApart DEF MemoInv, MemosAreCoherent
  <2> QED
    BY <1>0, <2>1, <2>2, <2>3, <2>4 DEF TypeOK, Some
<1>2. CASE material.keys # keys
  <2>1. /\ job' = [job EXCEPT ![q] = q]
        /\ derivation' = [derivation EXCEPT ![q] = [keys |-> keys, status |-> "pending"]]
        /\ material' = [keys |-> keys, job |-> q]
    BY <1>2 DEF MaterialFor
  <2> QED
    BY <1>0, <2>1 DEF TypeOK, Some
<1> QED
  BY <1>1, <1>2

LEMMA AskMaterialKeeps ==
  ASSUME MemoInv, NEW q \in Request, AskMaterial(q)
  PROVE  MemoInv'
<1>0. TypeOK
  BY DEF MemoInv, MemosAreCoherent
<1>1. /\ Resolved(q) \in KeyList /\ Resolved(q) # None
      /\ copied[q] # None => Resolved(q) = copied[q]
  BY <1>0, ResolvedIsAList, NoneIsApart
<1>2. pc[q] = "resolved" /\ snap[q] = None /\ derivation[q].keys = None
      /\ state[q] # "idle"
  BY DEF AskMaterial, MemoInv, PerRequest, NothingBeforeItsTime
<1>3. /\ job' \in [Request -> Some(Request)]
      /\ job'[q] \in Request
      /\ derivation' \in [Request ->
           [keys : Some(KeyList),
            status : {"none", "pending", "fulfilled", "rejected", "reported"}]]
      /\ material' = [keys |-> Resolved(q), job |-> job'[q]]
      /\ derivation'[job'[q]].keys = Resolved(q)
      /\ derivation'[job'[q]].status # "reported"
      /\ \A p \in Request \ {q} : job'[p] = job[p] /\ derivation'[p] = derivation[p]
  BY <1>1, <1>2, MaterialIsOfTheList DEF AskMaterial
<1>4. /\ snap' = [snap EXCEPT ![q] = Resolved(q)]
      /\ pc' = [pc EXCEPT ![q] = "deriving"]
      /\ UNCHANGED <<current, rotations, state, copied, catalog, result, authority>>
  BY DEF AskMaterial
<1>5. TypeOK'
  <2>1. snap' \in [Request -> Some(KeyList)] /\ material' \in [keys : Some(KeyList), job : Some(Request)]
    BY <1>0, <1>1, <1>3, <1>4 DEF TypeOK, Some
  <2>2. pc' \in [Request -> {"idle", "resolving", "resolved", "deriving", "finished"}]
    BY <1>0, <1>4 DEF TypeOK
  <2> QED
    BY <1>0, <1>3, <1>4, <2>1, <2>2 DEF TypeOK
<1>6. MemosAreCoherent'
  BY <1>3, <1>4, <1>5 DEF MemoInv, MemosAreCoherent
<1>7. MemoIsWhole'
  BY <1>1, <1>3, NoneIsApart DEF MemoIsWhole
<1>8. ASSUME NEW p \in Request PROVE PerRequest(p)'
  <2>1. CASE p = q
    <3>1. snap'[q] = Resolved(q) /\ pc'[q] = "deriving"
      BY <1>0, <1>4 DEF TypeOK
    <3>2. NothingBeforeItsTime(q)' /\ ReadsWhatItTook(q)'
      BY <1>1, <1>2, <1>4, <3>1 DEF NothingBeforeItsTime, ReadsWhatItTook
    <3>3. AwaitsItsOwnList(q)'
      BY <1>1, <1>3, <3>1, NoneIsApart DEF AwaitsItsOwnList
    <3>4. AnswersFromWhatItRead(q)'
      BY <1>2, <1>4 DEF MemoInv, PerRequest, AnswersFromWhatItRead
    <3> QED
      BY <2>1, <3>2, <3>3, <3>4 DEF PerRequest
  <2>2. CASE p # q
    BY <2>2, <1>0, <1>2, <1>3, <1>4, OthersKeep DEF TypeOK
  <2> QED
    BY <2>1, <2>2
<1> QED
  BY <1>6, <1>7, <1>8 DEF MemoInv

\* A derivation that settles or is reported is still of the list it was begun
\* for, and no other derivation changes.
LEMMA SettlingKeeps ==
  ASSUME MemoInv, NEW q \in Request,
         NEW status \in {"fulfilled", "rejected", "reported"},
         derivation' = [derivation EXCEPT ![q].status = status],
         status = "reported" => material'.job # q,
         material' \in {material, NoMaterial},
         UNCHANGED <<current, rotations, state, pc, copied, snap, job, catalog,
                     result, authority>>
  PROVE  MemoInv'
<1>0. TypeOK
  BY DEF MemoInv, MemosAreCoherent
<1>1. /\ derivation' \in [Request ->
           [keys : Some(KeyList),
            status : {"none", "pending", "fulfilled", "rejected", "reported"}]]
      /\ derivation'[q].status = status
      /\ \A p \in Request : derivation'[p].keys = derivation[p].keys
      /\ \A p \in Request \ {q} : derivation'[p] = derivation[p]
  BY <1>0 DEF TypeOK
<1>2. NoMaterial \in [keys : Some(KeyList), job : Some(Request)]
  BY DEF NoMaterial, Some
<1>3. TypeOK'
  BY <1>0, <1>1, <1>2 DEF TypeOK
<1>4. MemosAreCoherent' /\ MemoIsWhole'
  <2>1. CASE material' = NoMaterial
    BY <1>3, <2>1 DEF MemoInv, MemosAreCoherent, MemoIsWhole, NoMaterial
  <2>2. CASE material' = material
    <3>1. material.job \in Request \union {None}
      BY <1>0 DEF TypeOK, Some
    <3> QED
      BY <1>1, <1>3, <2>2, <3>1 DEF MemoInv, MemosAreCoherent, MemoIsWhole
  <2> QED
    BY <2>1, <2>2
<1>5. ASSUME NEW p \in Request PROVE PerRequest(p)'
  BY <1>1, OthersKeep
<1> QED
  BY <1>4, <1>5 DEF MemoInv

LEMMA SettleKeeps ==
  ASSUME MemoInv, NEW q \in Request, Settle(q)
  PROVE  MemoInv'
<1> DEFINE status == IF derivation[q].keys \in Underivable THEN "rejected" ELSE "fulfilled"
<1>1. status \in {"fulfilled", "rejected"} /\ derivation' = [derivation EXCEPT ![q].status = status]
  BY DEF Settle
<1> HIDE DEF status
<1> QED
  BY <1>1, SettlingKeeps DEF Settle

LEMMA ForgetKeeps ==
  ASSUME MemoInv, NEW q \in Request, Forget(q)
  PROVE  MemoInv'
<1>1. material' \in {material, NoMaterial} /\ material'.job # q
  BY NoneIsApart DEF Forget, NoMaterial
<1> QED
  BY <1>1, SettlingKeeps DEF Forget

\* What a request that awaited a derivation makes of its list.
LEMMA DerivedAnswer ==
  ASSUME MemoInv, NEW q \in Request, pc[q] = "deriving",
         NEW value \in {snap[q], Error}, Outcome(q, value),
         pc' = [pc EXCEPT ![q] = "finished"],
         authority' \in {authority, [keys |-> snap[q], derived |-> snap[q]]},
         UNCHANGED <<current, rotations, state, copied, snap, job, catalog,
                     derivation, material>>
  PROVE  MemoInv'
<1>0. TypeOK
  BY DEF MemoInv, MemosAreCoherent
<1>1. snap[q] \in KeyList
  BY <1>0 DEF TypeOK, Some, MemoInv, PerRequest, AwaitsItsOwnList
<1>2. /\ result' \in [Request -> Some(KeyList \union {Error})]
      /\ \A p \in Request \ {q} : result'[p] = result[p]
      /\ result[q] # None => result'[q] = result[q]
      /\ result[q] = None => result'[q] = value
      /\ result'[q] # None
  BY <1>0, <1>1, OutcomeIsFinal
<1>3. TypeOK'
  <2>1. authority' \in [keys : Some(KeyList), derived : Some(KeyList)]
    BY <1>0, <1>1 DEF TypeOK, Some
  <2> QED
    BY <1>0, <1>2, <2>1 DEF TypeOK
<1>4. MemosAreCoherent' /\ MemoIsWhole'
  BY <1>3 DEF MemoInv, MemosAreCoherent, MemoIsWhole
<1>5. ASSUME NEW p \in Request PROVE PerRequest(p)'
  <2>1. CASE p = q
    <3>1. pc'[q] = "finished"
      BY <1>0 DEF TypeOK
    <3>2. NothingBeforeItsTime(q)' /\ AwaitsItsOwnList(q)' /\ ReadsWhatItTook(q)'
      BY <3>1 DEF MemoInv, PerRequest, NothingBeforeItsTime, AwaitsItsOwnList,
         ReadsWhatItTook
    <3>3. AnswersFromWhatItRead(q)'
      BY <1>2 DEF MemoInv, PerRequest, AnswersFromWhatItRead
    <3> QED
      BY <2>1, <3>2, <3>3 DEF PerRequest
  <2>2. CASE p # q
    BY <2>2, <1>0, <1>2, OthersKeep DEF TypeOK
  <2> QED
    BY <2>1, <2>2
<1> QED
  BY <1>4, <1>5 DEF MemoInv

LEMMA BuildAuthorityKeeps ==
  ASSUME MemoInv, NEW q \in Request, BuildAuthority(q)
  PROVE  MemoInv'
<1>1. derivation[job[q]].keys = snap[q]
  BY DEF BuildAuthority, MemoInv, PerRequest, AwaitsItsOwnList
<1>2. CASE snap[q] \in Ambiguous
  BY <1>1, <1>2, DerivedAnswer DEF BuildAuthority
<1>3. CASE snap[q] \notin Ambiguous
  BY <1>1, <1>3, DerivedAnswer DEF BuildAuthority
<1> QED
  BY <1>2, <1>3

LEMMA BuildIssuerKeeps ==
  ASSUME MemoInv, NEW q \in Request, BuildIssuer(q)
  PROVE  MemoInv'
<1>1. derivation[job[q]].keys = snap[q]
  BY DEF BuildIssuer, MemoInv, PerRequest, AwaitsItsOwnList
<1>2. CASE snap[q] \in Ambiguous
  BY <1>1, <1>2, DerivedAnswer DEF BuildIssuer, memos
<1>3. CASE snap[q] \notin Ambiguous
  BY <1>1, <1>3, DerivedAnswer DEF BuildIssuer, memos
<1> QED
  BY <1>2, <1>3

LEMMA ReplyKeeps ==
  ASSUME MemoInv, NEW q \in Request, Reply(q)
  PROVE  MemoInv'
<1>0. TypeOK
  BY DEF MemoInv, MemosAreCoherent
<1>1. TypeOK'
  BY <1>0 DEF TypeOK, Reply, memos
<1>2. MemosAreCoherent' /\ MemoIsWhole'
  BY <1>1, MemosKeep DEF Reply
<1>3. ASSUME NEW p \in Request PROVE PerRequest(p)'
  <2>1. CASE p = q
    BY <2>1, <1>0 DEF Reply, memos, TypeOK, MemoInv, PerRequest,
       NothingBeforeItsTime, AwaitsItsOwnList, ReadsWhatItTook,
       AnswersFromWhatItRead
  <2>2. CASE p # q
    BY <2>2, <1>0, OthersKeep DEF Reply, memos, TypeOK
  <2> QED
    BY <2>1, <2>2
<1> QED
  BY <1>2, <1>3 DEF MemoInv

LEMMA StepKeeps ==
  ASSUME MemoInv, NEW q \in Request, Step(q)
  PROVE  MemoInv'
BY ResolveKeeps, ResolverThrowsKeeps, AuthorityHitKeeps, AskMaterialKeeps,
   SettleKeeps, ForgetKeeps, MaterialFailsKeeps, CatalogSettlesKeeps,
   BuildAuthorityKeeps, BuildIssuerKeeps, ReplyKeeps DEF Step

LEMMA NextKeeps == MemoInv /\ [Next]_vars => MemoInv'
<1> SUFFICES ASSUME MemoInv, [Next]_vars PROVE MemoInv'
  OBVIOUS
<1>1. ASSUME NEW k \in KeyList, Rotate(k) PROVE MemoInv'
  BY <1>1, RotateKeeps
<1>2. ASSUME NEW q \in Request, Arrive(q) \/ Step(q) PROVE MemoInv'
  BY <1>2, ArriveKeeps, StepKeeps
<1>3. CASE UNCHANGED vars
  <2>1. TypeOK'
    BY <1>3 DEF vars, MemoInv, MemosAreCoherent, TypeOK
  <2>2. MemosAreCoherent' /\ MemoIsWhole'
    BY <1>3, <2>1, MemosKeep DEF vars, memos
  <2>3. ASSUME NEW p \in Request PROVE PerRequest(p)'
    BY <1>3, OthersKeep DEF vars
  <2> QED
    BY <2>2, <2>3 DEF MemoInv
<1> QED
  BY <1>1, <1>2, <1>3 DEF Next

LEMMA MemoInvariance == Spec => []MemoInv
BY InitMemo, NextKeeps, PTL DEF Spec

-----------------------------------------------------------------------------
(* What callers rely on. *)

\* A memo describes the material it holds: the JWKS a plane publishes was derived
\* from the very list it is remembered for, and a request that looks the memo up
\* never meets a rejection that was already reported to a waiter.
THEOREM Coherence == Spec => []MemosAreCoherent
<1>1. MemoInv => MemosAreCoherent
  BY DEF MemoInv
<1> QED
  BY MemoInvariance, <1>1, PTL

\* A memo of material is emptied only by the rejection of the derivation it holds:
\* a late failure never forgets the newer list that replaced it.
THEOREM ForgettingIsOwn == Spec => ForgetsOnlyItsOwn
<1>1. MemoInv /\ [Next]_vars =>
        [material # NoMaterial /\ material' = NoMaterial =>
           derivation[material.job].status = "rejected"]_vars
  <2> SUFFICES ASSUME MemoInv, Next, material # NoMaterial, material' = NoMaterial
               PROVE  derivation[material.job].status = "rejected"
    OBVIOUS
  <2>1. ASSUME NEW q \in Request, AskMaterial(q) PROVE FALSE
    <3>1. Resolved(q) \in KeyList
      BY ResolvedIsAList DEF MemoInv, MemosAreCoherent
    <3>2. MaterialFor(q, Resolved(q))
      BY <2>1 DEF AskMaterial
    <3>3. material' \in {material, [keys |-> Resolved(q), job |-> q]}
      BY <3>2 DEF MaterialFor
    <3> QED
      BY <3>1, <3>3, NoneIsApart DEF NoMaterial
  <2>2. ASSUME NEW q \in Request, Forget(q)
        PROVE  derivation[material.job].status = "rejected"
    BY <2>2 DEF Forget
  <2> QED
    BY <2>1, <2>2 DEF Next, Step, Rotate, Arrive, Resolve, ResolverThrows,
       AuthorityHit, Settle, MaterialFails, CatalogSettles, BuildAuthority,
       BuildIssuer, Reply, memos
<1> QED
  BY MemoInvariance, <1>1, PTL DEF Spec, ForgetsOnlyItsOwn

-----------------------------------------------------------------------------
(* A request is never left without a step to wait for. *)

EndsWithItsOutcome == \A q \in Request : pc[q] = "finished" => result[q] # None

BegunIsUnderWay == \A q \in Request : derivation[q].keys # None => derivation[q].status # "none"

\* Where a request ends its part, it has an outcome, its own or an earlier one.
LEMMA OutcomesStay ==
  ASSUME MemoInv, EndsWithItsOutcome, NEW q \in Request,
         \/ UNCHANGED result /\ \A p \in Request : pc'[p] = "finished" => pc[p] = "finished"
         \/ /\ \E value \in KeyList \union {Error} : Outcome(q, value)
            /\ \A p \in Request \ {q} : pc'[p] = pc[p]
  PROVE  EndsWithItsOutcome'
<1>1. CASE \E value \in KeyList \union {Error} : Outcome(q, value)
  <2>1. PICK value \in KeyList \union {Error} : Outcome(q, value)
    BY <1>1
  <2>2. result'[q] # None /\ \A p \in Request \ {q} : result'[p] = result[p]
    BY <2>1, OutcomeIsFinal DEF MemoInv, MemosAreCoherent
  <2>3. CASE UNCHANGED result /\ \A p \in Request : pc'[p] = "finished" => pc[p] = "finished"
    BY <2>3 DEF EndsWithItsOutcome
  <2> QED
    BY <2>2, <2>3 DEF EndsWithItsOutcome
<1>2. CASE UNCHANGED result /\ \A p \in Request : pc'[p] = "finished" => pc[p] = "finished"
  BY <1>2 DEF EndsWithItsOutcome
<1> QED
  BY <1>1, <1>2

LEMMA StepEndsWithItsOutcome ==
  ASSUME MemoInv, EndsWithItsOutcome, NEW q \in Request, Step(q)
  PROVE  EndsWithItsOutcome'
<1>0. TypeOK /\ pc \in [Request -> {"idle", "resolving", "resolved", "deriving", "finished"}]
  BY DEF MemoInv, MemosAreCoherent, TypeOK
<1>1. CASE Resolve(q) \/ AskMaterial(q) \/ Settle(q) \/ Forget(q) \/ Reply(q)
  <2>1. UNCHANGED result /\ \A p \in Request : pc'[p] = "finished" => pc[p] = "finished"
    BY <1>0, <1>1 DEF Resolve, AskMaterial, Settle, Forget, Reply
  <2> QED
    BY <2>1, OutcomesStay
<1>2. CASE ResolverThrows(q) \/ MaterialFails(q) \/ CatalogSettles(q)
  <2>1. \A p \in Request \ {q} : pc'[p] = pc[p]
    BY <1>0, <1>2 DEF ResolverThrows, MaterialFails, CatalogSettles
  <2>2. Outcome(q, Error) \/ (UNCHANGED result /\ pc' = pc)
    BY <1>2 DEF ResolverThrows, MaterialFails, CatalogSettles
  <2> QED
    BY <2>1, <2>2, OutcomesStay
<1>3. CASE AuthorityHit(q)
  <2>1. authority.derived \in KeyList /\ Outcome(q, authority.derived)
    BY <1>0, <1>3, ResolvedIsAList DEF AuthorityHit, MemoInv, MemosAreCoherent
  <2>2. \A p \in Request \ {q} : pc'[p] = pc[p]
    BY <1>0, <1>3 DEF AuthorityHit
  <2> QED
    BY <2>1, <2>2, OutcomesStay
<1>4. CASE BuildAuthority(q) \/ BuildIssuer(q)
  <2>1. derivation[job[q]].keys \in KeyList
    BY <1>0, <1>4 DEF BuildAuthority, BuildIssuer, MemoInv, PerRequest, AwaitsItsOwnList, TypeOK, Some
  <2>2. \E value \in KeyList \union {Error} : Outcome(q, value)
    BY <1>4, <2>1 DEF BuildAuthority, BuildIssuer
  <2>3. \A p \in Request \ {q} : pc'[p] = pc[p]
    BY <1>0, <1>4 DEF BuildAuthority, BuildIssuer
  <2> QED
    BY <2>2, <2>3, OutcomesStay
<1> QED
  BY <1>1, <1>2, <1>3, <1>4 DEF Step

LEMMA StepIsUnderWay ==
  ASSUME MemoInv, BegunIsUnderWay, NEW q \in Request, Step(q)
  PROVE  BegunIsUnderWay'
<1>0. derivation \in [Request ->
        [keys : Some(KeyList),
         status : {"none", "pending", "fulfilled", "rejected", "reported"}]]
  BY DEF MemoInv, MemosAreCoherent, TypeOK
<1>1. CASE AskMaterial(q)
  BY <1>0, <1>1 DEF AskMaterial, MaterialFor, BegunIsUnderWay
<1>2. CASE Settle(q) \/ Forget(q)
  BY <1>0, <1>2 DEF Settle, Forget, BegunIsUnderWay
<1>3. CASE UNCHANGED derivation
  BY <1>3 DEF BegunIsUnderWay
<1> QED
  BY <1>1, <1>2, <1>3 DEF Step, Resolve, ResolverThrows, AuthorityHit, MaterialFails,
     CatalogSettles, BuildAuthority, BuildIssuer, Reply, memos

\* A request that is not answered has an outcome to answer with or awaits what
\* gives it one, whichever of its halves failed first and whoever began, joined
\* or forgot the derivation: for any number of requests and rotations.
THEOREM EveryRequestIsAttended == Spec => []NoRequestIsForgotten
<1>1. Init => EndsWithItsOutcome /\ BegunIsUnderWay
  BY DEF Init, EndsWithItsOutcome, BegunIsUnderWay, NoDerivation
<1>2. ASSUME MemoInv, EndsWithItsOutcome, BegunIsUnderWay, [Next]_vars
      PROVE  EndsWithItsOutcome' /\ BegunIsUnderWay'
  <2>1. ASSUME NEW q \in Request, Step(q) PROVE EndsWithItsOutcome' /\ BegunIsUnderWay'
    BY <1>2, <2>1, StepEndsWithItsOutcome, StepIsUnderWay
  <2>2. ASSUME NEW q \in Request, Arrive(q) PROVE EndsWithItsOutcome' /\ BegunIsUnderWay'
    <3>1. pc \in [Request -> {"idle", "resolving", "resolved", "deriving", "finished"}]
      BY <1>2 DEF MemoInv, MemosAreCoherent, TypeOK
    <3> QED
      BY <1>2, <2>2, <3>1 DEF Arrive, EndsWithItsOutcome, BegunIsUnderWay
  <2>3. CASE UNCHANGED <<pc, result, derivation>>
    BY <1>2, <2>3 DEF EndsWithItsOutcome, BegunIsUnderWay
  <2> QED
    BY <1>2, <2>1, <2>2, <2>3 DEF Next, Rotate, vars
<1>3. ASSUME MemoInv, EndsWithItsOutcome, BegunIsUnderWay
      PROVE  NoRequestIsForgotten
  <2> SUFFICES ASSUME NEW q \in Request, state[q] = "waiting", result[q] = None,
                      pc[q] \notin {"resolving", "resolved"}
               PROVE  pc[q] = "deriving" /\ derivation[job[q]].status # "none"
    BY DEF NoRequestIsForgotten
  <2>1. pc[q] \in {"idle", "resolving", "resolved", "deriving", "finished"} /\ pc[q] # "idle"
    BY <1>3 DEF MemoInv, MemosAreCoherent, TypeOK, PerRequest, NothingBeforeItsTime
  <2>2. pc[q] = "deriving"
    BY <1>3, <2>1 DEF EndsWithItsOutcome
  <2>3. job[q] \in Request /\ derivation[job[q]].keys # None
    BY <1>3, <2>2 DEF MemoInv, MemosAreCoherent, TypeOK, Some, PerRequest, AwaitsItsOwnList
  <2> QED
    BY <1>3, <2>2, <2>3 DEF BegunIsUnderWay
<1> QED
  BY <1>1, <1>2, <1>3, MemoInvariance, PTL DEF Spec

-----------------------------------------------------------------------------
(* The refinement.  A request takes the key list when the resolver hands it *)
(* a copy or, when it is handed the array itself, when it first reads it.   *)

Took == [q \in Request |-> Taken(q)]
Given == [q \in Request |-> IF state[q] = "answered" THEN result[q] ELSE None]

\* An answer that was given is not withdrawn by a step that keeps every outcome.
LEMMA GivenKeeps ==
  ASSUME MemoInv, UNCHANGED state,
         \A p \in Request : result[p] # None => result'[p] = result[p]
  PROVE  Given' = Given
<1>1. ASSUME NEW p \in Request, state[p] = "answered" PROVE result'[p] = result[p]
  BY <1>1 DEF MemoInv, PerRequest, AnswersFromWhatItRead
<1> QED
  BY <1>1 DEF Given

\* A step that at most lets one request take the current list is a step of the
\* service, or none at all.
LEMMA TakesAtMostOne ==
  ASSUME MemoInv, NEW q \in Request, state[q] # "idle",
         UNCHANGED <<current, state>>,
         \A p \in Request : result[p] # None => result'[p] = result[p],
         \A p \in Request \ {q} : Taken(p)' = Taken(p),
         \/ Taken(q)' = Taken(q)
         \/ Taken(q) = None /\ Taken(q)' = current
  PROVE  [KeyService!Next]_(KeyService!vars)
<1>1. Given' = Given
  BY GivenKeeps
<1>2. CASE Taken(q)' = Taken(q)
  <2>1. Took' = Took
    BY <1>2 DEF Took
  <2> QED
    BY <1>1, <2>1 DEF KeyService!vars, Took, Given
<1>3. CASE Taken(q) = None /\ Taken(q)' = current
  <2>1. Took' = [Took EXCEPT ![q] = current] /\ Took[q] = None
    BY <1>3 DEF Took
  <2>2. KeyService!Take(q)
    BY <1>1, <2>1 DEF KeyService!Take, Took, Given
  <2> QED
    BY <2>2 DEF KeyService!Next
<1> QED
  BY <1>2, <1>3

LEMMA OutcomesAreKept ==
  ASSUME MemoInv, NEW q \in Request, NEW value, Outcome(q, value)
  PROVE  \A p \in Request : result[p] # None => result'[p] = result[p]
<1>1. result \in [Request -> Some(KeyList \union {Error})]
  BY DEF MemoInv, MemosAreCoherent, TypeOK
<1> QED
  BY <1>1 DEF Outcome

\* A step after which every request has the list it had, and every outcome.
LEMMA Unseen ==
  ASSUME MemoInv, UNCHANGED <<current, state, copied, snap>>,
         \A p \in Request : result[p] # None => result'[p] = result[p]
  PROVE  UNCHANGED KeyService!vars
<1>1. Given' = Given
  BY GivenKeeps
<1>2. Took' = Took
  BY DEF Took, Taken
<1> QED
  BY <1>1, <1>2 DEF KeyService!vars, Took, Given

\* A request that resumes reads the list now, unless it was given a copy.
LEMMA ReadingTakes ==
  ASSUME MemoInv, NEW q \in Request, pc[q] = "resolved",
         snap' = [snap EXCEPT ![q] = Resolved(q)],
         UNCHANGED <<current, state, copied>>,
         \A p \in Request : result[p] # None => result'[p] = result[p]
  PROVE  [KeyService!Next]_(KeyService!vars)
<1>1. state[q] # "idle" /\ snap[q] = None
  BY DEF MemoInv, PerRequest, NothingBeforeItsTime
<1>2. snap \in [Request -> Some(KeyList)]
  BY DEF MemoInv, MemosAreCoherent, TypeOK
<1>3. \A p \in Request \ {q} : Taken(p)' = Taken(p)
  BY <1>2 DEF Taken
<1>4. \/ Taken(q)' = Taken(q)
      \/ Taken(q) = None /\ Taken(q)' = current
  BY <1>1, <1>2 DEF Taken, Resolved
<1> QED
  BY <1>1, <1>3, <1>4, TakesAtMostOne

LEMMA ResolveRefines ==
  ASSUME MemoInv, NEW q \in Request, Resolve(q)
  PROVE  [KeyService!Next]_(KeyService!vars)
<1>1. state[q] # "idle" /\ copied[q] = None /\ snap[q] = None
  BY DEF MemoInv, PerRequest, NothingBeforeItsTime, Resolve
<1>2. copied \in [Request -> Some(KeyList)]
  BY DEF MemoInv, MemosAreCoherent, TypeOK
<1>3. PICK c \in {None, current} : copied' = [copied EXCEPT ![q] = c]
  BY DEF Resolve
<1>4. \A p \in Request \ {q} : Taken(p)' = Taken(p)
  BY <1>2, <1>3 DEF Taken, Resolve
<1>5. \/ Taken(q)' = Taken(q)
      \/ Taken(q) = None /\ Taken(q)' = current
  BY <1>1, <1>2, <1>3 DEF Taken, Resolve
<1>6. /\ UNCHANGED <<current, state>>
      /\ \A p \in Request : result[p] # None => result'[p] = result[p]
  BY DEF Resolve
<1> QED
  BY <1>1, <1>4, <1>5, <1>6, TakesAtMostOne

LEMMA ArriveRefines ==
  ASSUME MemoInv, NEW q \in Request, Arrive(q)
  PROVE  KeyService!Arrive(q)
<1>1. state \in [Request -> {"idle", "waiting", "answered"}]
  BY DEF MemoInv, MemosAreCoherent, TypeOK
<1>2. Given' = Given
  BY <1>1 DEF Given, Arrive
<1>3. Took' = Took
  BY DEF Took, Taken, Arrive
<1> QED
  BY <1>2, <1>3 DEF KeyService!Arrive, Took, Given, Arrive

LEMMA ReplyRefines ==
  ASSUME MemoInv, NEW q \in Request, Reply(q)
  PROVE  KeyService!Answer(q) \/ KeyService!Fail(q)
<1>1. state \in [Request -> {"idle", "waiting", "answered"}]
  BY DEF MemoInv, MemosAreCoherent, TypeOK
<1>2. Took' = Took
  BY DEF Took, Taken, Reply
<1>3. state[q] = "waiting" /\ state' = [state EXCEPT ![q] = "answered"]
      /\ UNCHANGED <<current, result>> /\ result[q] # None
  BY DEF Reply
<1>4. Given' = [Given EXCEPT ![q] = result[q]]
  BY <1>1, <1>3 DEF Given
<1>5. CASE result[q] = Error
  BY <1>2, <1>3, <1>4, <1>5 DEF KeyService!Fail, Took, Given
<1>6. CASE result[q] # Error
  <2>1. result[q] = snap[q] /\ Taken(q) = snap[q]
    BY <1>3, <1>6 DEF MemoInv, PerRequest, AnswersFromWhatItRead, ReadsWhatItTook, Taken
  <2>2. Took[q] = result[q]
    BY <2>1 DEF Took
  <2>3. Given' \in {[Given EXCEPT ![q] = a] : a \in {Took[q], Error}}
    BY <1>4, <2>2
  <2> QED
    BY <1>2, <1>3, <2>2, <2>3 DEF KeyService!Answer, Took, Given
<1> QED
  BY <1>5, <1>6

LEMMA StepRefines ==
  ASSUME MemoInv, NEW q \in Request, Step(q)
  PROVE  [KeyService!Next]_(KeyService!vars)
<1>1. CASE Resolve(q)
  BY <1>1, ResolveRefines
<1>2. CASE AuthorityHit(q)
  <2>1. pc[q] = "resolved" /\ snap' = [snap EXCEPT ![q] = Resolved(q)]
        /\ UNCHANGED <<current, state, copied>> /\ Outcome(q, authority.derived)
    BY <1>2 DEF AuthorityHit
  <2> QED
    BY <2>1, OutcomesAreKept, ReadingTakes
<1>3. CASE AskMaterial(q)
  BY <1>3, ReadingTakes DEF AskMaterial
<1>4. CASE Reply(q)
  BY <1>4, ReplyRefines DEF KeyService!Next
<1>5. CASE Settle(q) \/ Forget(q)
  BY <1>5, Unseen DEF Settle, Forget
<1>6. CASE \/ ResolverThrows(q) \/ MaterialFails(q) \/ CatalogSettles(q)
           \/ BuildAuthority(q) \/ BuildIssuer(q)
  <2>1. (\E value : Outcome(q, value)) \/ UNCHANGED result
    BY <1>6 DEF ResolverThrows, MaterialFails, CatalogSettles, BuildAuthority, BuildIssuer
  <2>2. \A p \in Request : result[p] # None => result'[p] = result[p]
    BY <2>1, OutcomesAreKept
  <2>3. UNCHANGED <<current, state, copied, snap>>
    BY <1>6 DEF ResolverThrows, MaterialFails, CatalogSettles, BuildAuthority, BuildIssuer
  <2> QED
    BY <2>2, <2>3, Unseen
<1> QED
  BY <1>1, <1>2, <1>3, <1>4, <1>5, <1>6 DEF Step

\* Seen from its callers the plane has no memo: it starts like the key service
\* and each of its steps is one of the service's or none, so every answer is made
\* from the key list that was current at one instant of the request, or an error.
\* (What ImplementsKeyService says beyond this is that every request is answered.)
THEOREM MemosAreTransparent ==
  Spec => KeyService!Init /\ [][KeyService!Next]_(KeyService!vars)
<1>1. Init => KeyService!Init
  BY DEF Init, KeyService!Init, Taken
<1>2. MemoInv /\ [Next]_vars => [KeyService!Next]_(KeyService!vars)
  <2> SUFFICES ASSUME MemoInv, [Next]_vars
               PROVE  [KeyService!Next]_(KeyService!vars)
    OBVIOUS
  <2>1. ASSUME NEW k \in KeyList, Rotate(k) PROVE KeyService!Rotate(k)
    <3>1. Took' = Took /\ Given' = Given
      BY <2>1 DEF Rotate, Took, Taken, Given
    <3> QED
      BY <2>1, <3>1 DEF KeyService!Rotate, Took, Given, Rotate
  <2>2. ASSUME NEW q \in Request, Arrive(q) PROVE KeyService!Arrive(q)
    BY <2>2, ArriveRefines
  <2>3. ASSUME NEW q \in Request, Step(q) PROVE [KeyService!Next]_(KeyService!vars)
    BY <2>3, StepRefines
  <2>4. CASE UNCHANGED vars
    BY <2>4, Unseen DEF vars
  <2> QED
    BY <2>1, <2>2, <2>3, <2>4 DEF Next, KeyService!Next
<1> QED
  BY MemoInvariance, <1>1, <1>2, PTL DEF Spec

=============================================================================
