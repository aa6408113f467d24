------------------------- MODULE SessionStoreProofs -------------------------
(***************************************************************************)
(* What the abstract store of sessions guarantees to its users, for any    *)
(* workers, keys and contents.                                             *)
(***************************************************************************)
EXTENDS SessionStore, TLAPS

(* The functions have their domains, and users look as Begin and Take make *)
(* them.                                                                   *)
StoreType ==
  /\ stored = [k \in Keys |-> stored[k]]
  /\ user = [k \in Keys |-> user[k]]
  /\ \A k \in Keys :
       \/ user[k] = {}
       \/ \E w \in Workers : user[k] = {Entrant(w)}
       \/ \E w \in Workers : \E d : user[k] = {Taker(w, d)}

StoreInv == StoreType /\ StoredFollows

LEMMA EntrantHasNothing ==
  ASSUME NEW w
  PROVE  Entrant(w).given = {}
BY DEF Entrant

LEMMA TakerHasOne ==
  ASSUME NEW w, NEW d
  PROVE  Taker(w, d).given = {d}
BY DEF Taker

LEMMA StoreInit == Vacant => StoreInv
BY DEF Vacant, StoreInv, StoreType, StoredFollows

(* One step of the store for key k leaves the other keys alone.            *)
LEMMA StoreNext ==
  ASSUME StoreInv, StoreStep
  PROVE  StoreInv'
<1> PICK k \in Keys : Begin(k) \/ Take(k) \/ Commit(k) \/ Lose(k) \/ End(k)
  BY DEF StoreStep
<1> USE DEF StoreInv
<1>1. CASE Begin(k)
  <2>1. PICK w \in Workers : user' = [user EXCEPT ![k] = {Entrant(w)}]
    BY <1>1 DEF Begin
  <2>2. stored' = stored
    BY <1>1 DEF Begin
  <2>3. StoreType'
    BY <2>1, <2>2 DEF StoreType
  <2>4. ASSUME NEW j \in Keys, NEW u \in user'[j], NEW d \in u.given
        PROVE  stored'[j] \in {d, Update(d), NULL}
    <3>1. CASE j = k
      BY <2>1, <3>1, EntrantHasNothing, <2>4 DEF StoreType
    <3>2. CASE j # k
      BY <2>1, <2>2, <3>2, <2>4 DEF StoreType, StoredFollows
    <3> QED  BY <3>1, <3>2
  <2> QED  BY <2>3, <2>4 DEF StoredFollows
<1>2. CASE Take(k)
  <2>1. PICK w \in Workers : user' = [user EXCEPT ![k] = {Taker(w, stored'[k])}]
    BY <1>2 DEF Take
  <2>2. stored' = stored \/ stored' = [stored EXCEPT ![k] = NULL]
    BY <1>2 DEF Take, Discard
  <2>3. StoreType'
    BY <2>1, <2>2 DEF StoreType
  <2>4. ASSUME NEW j \in Keys, NEW u \in user'[j], NEW d \in u.given
        PROVE  stored'[j] \in {d, Update(d), NULL}
    <3>1. CASE j = k
      <4>1. u = Taker(w, stored'[k])
        BY <2>1, <3>1, <2>4 DEF StoreType
      <4> QED  BY <4>1, <3>1, TakerHasOne, <2>4
    <3>2. CASE j # k
      BY <2>1, <2>2, <3>2, <2>4 DEF StoreType, StoredFollows
    <3> QED  BY <3>1, <3>2
  <2> QED  BY <2>3, <2>4 DEF StoredFollows
<1>3. CASE Commit(k)
  <2>1. PICK u \in user[k] : \E d \in u.given : stored' = [stored EXCEPT ![k] = Update(d)]
    BY <1>3 DEF Commit
  <2>a. PICK d \in u.given : stored' = [stored EXCEPT ![k] = Update(d)]
    BY <2>1
  <2>2. user' = user
    BY <1>3 DEF Commit
  <2>3. StoreType'
    BY <2>a, <2>2 DEF StoreType
  <2>4. \A v \in user[k] : \A e \in v.given : e = d
    BY <2>a, EntrantHasNothing, TakerHasOne DEF StoreType
  <2>5. ASSUME NEW j \in Keys, NEW v \in user'[j], NEW e \in v.given
        PROVE  stored'[j] \in {e, Update(e), NULL}
    <3>1. CASE j = k
      BY <2>a, <2>2, <2>4, <3>1, <2>5 DEF StoreType
    <3>2. CASE j # k
      BY <2>a, <2>2, <3>2, <2>5 DEF StoreType, StoredFollows
    <3> QED  BY <3>1, <3>2
  <2> QED  BY <2>3, <2>5 DEF StoredFollows
<1>4. CASE Lose(k)
  BY <1>4 DEF Lose, Discard, StoreType, StoredFollows
<1>5. CASE End(k)
  BY <1>5 DEF End, StoreType, StoredFollows
<1> QED  BY <1>1, <1>2, <1>3, <1>4, <1>5

LEMMA StoreUnchanged ==
  ASSUME StoreInv, UNCHANGED storeVars
  PROVE  StoreInv'
BY DEF StoreInv, StoreType, StoredFollows, storeVars

(* The inductive invariant of the store.                                   *)
LEMMA StoreInvariant == StoreSpec => []StoreInv
BY StoreInit, StoreNext, StoreUnchanged, PTL DEF StoreSpec

(***************************************************************************)
(* A session has one user at a time, and while that user has what it was   *)
(* given, nobody else's data is stored: what the handlers inherit where    *)
(* ZkSession implements the store.                                         *)
(***************************************************************************)
THEOREM StoreIsSafe == StoreSpec => [](OneUser /\ StoredFollows)
<1>1. StoreInv => OneUser /\ StoredFollows
  BY DEF StoreInv, StoreType, OneUser
<1> QED  BY <1>1, StoreInvariant, PTL
=============================================================================
