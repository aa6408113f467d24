------------------------ MODULE ZkSessionRefinement ------------------------
(***************************************************************************)
(* With session_lock on, and as long as zkr_lock_init overwrites no mutex  *)
(* under a callback, the session handlers of any number of workers         *)
(* implement SessionStore, for any session ids.                            *)
(***************************************************************************)
EXTENDS ZkSessionProofs

-----------------------------------------------------------------------------
(* The invariant *)

(* No handler reads or writes a session without the lock.                  *)
LockHeld == session_lock => \A w \in Workers : pc[w] \in Using => is_locked[w]

(* The buffer that PS_READ_FUNC allocated has the size of the session.     *)
BufferFits ==
  Regular => \A w \in Workers : pc[w] = "get" /\ w \in alive => data[path[w]] \in {size[w], NULL}

RefInv == SessionInv /\ LockHeld /\ BufferFits

LEMMA InitRef ==
  Init => RefInv
BY InitOwner DEF Init, RefInv, LockHeld, BufferFits, Using, Reading

(* What is overwritten stays so, and nobody changes the ini setting.       *)
LEMMA RegularBefore ==
  ASSUME [Next]_vars
  PROVE  UNCHANGED session_lock /\ (Regular' => Regular)
<1> SUFFICES UNCHANGED session_lock /\ torn \subseteq torn'
  BY DEF Regular
<1>1. ASSUME NEW w \in Workers, StartRead(w, key'[w])  PROVE  torn \subseteq torn'
  BY <1>1 DEF StartRead, zkr_lock_init, mutex
<1>2. ASSUME NEW w \in Workers, NEW k \in Keys, StartRead(w, k)  PROVE  torn \subseteq torn'
  BY <1>2 DEF StartRead, zkr_lock_init, mutex
<1>3. ASSUME NEW w \in Workers, HandlerStep(w)  PROVE  UNCHANGED session_lock /\ torn \subseteq torn'
  <2>1. CASE php_zookeeper_session_init(w) \/ MakeParent(w)
    BY <1>1, <2>1 DEF php_zookeeper_session_init, MakeParent, Register, mutex, zk
  <2>2. CASE InitFails(w) \/ OpenFailed(w) \/ HandleClosed(w)
    BY <2>2 DEF InitFails, OpenFailed, HandleClosed, Die, mutex, zk
  <2>3. CASE LockTry(w) \/ LockGoesOn(w) \/ LockReturn(w) \/ PS_CLOSE(w) \/ zkr_lock_destroy(w)
    BY <2>3 DEF LockTry, LockGoesOn, LockReturn, PS_CLOSE, zkr_lock_destroy, mutex, zk
  <2>4. CASE \/ ReadExists(w) \/ ReadDelete(w) \/ ReadGet(w) \/ WriteExists(w) \/ WriteCreate(w)
             \/ WriteSet(w) \/ DestroyDelete(w) \/ GcDelete(w)
    BY <2>4 DEF ReadExists, ReadDelete, ReadGet, WriteExists, WriteCreate, WriteSet, DestroyDelete,
                GcDelete, mutex, zk
  <2> QED  BY <1>3, <2>1, <2>2, <2>3, <2>4 DEF HandlerStep
<1>4. ASSUME NEW w \in Workers,
             \/ \E k \in Keys : PS_OPEN(w, k)
             \/ ScriptStep(w) \/ CallbackStart(w) \/ CallbackStep(w)
             \/ Expire(w) \/ Crash(w) \/ php_zookeeper_connection_dtor(w)
      PROVE  UNCHANGED session_lock /\ torn \subseteq torn'
  <2>1. CASE \E k \in Keys : PS_OPEN(w, k)
    BY <1>2, <2>1 DEF PS_OPEN, mutex, zk
  <2>2. CASE ScriptStep(w) \/ CallbackStart(w)
    BY <2>2 DEF ScriptStep, Regenerate, PS_GC, PS_WRITE, PS_DESTROY, Call, CallbackStart, mutex, zk
  <2>3. CASE CallbackStep(w)
    BY <2>3 DEF CallbackStep, CallbackLook, CallbackCreate, CallbackOrder, CallbackWatch,
                CallbackUnlock, CallbackFails, zk
  <2>4. CASE Expire(w) \/ Crash(w) \/ php_zookeeper_connection_dtor(w)
    BY <2>4 DEF Expire, Crash, Die, php_zookeeper_connection_dtor, mutex, zk
  <2> QED  BY <1>4, <2>1, <2>2, <2>3, <2>4
<1>5. CASE (\E k \in Keys : Age(k)) \/ UNCHANGED vars
  BY <1>5 DEF Age, vars, mutex, zk
<1> QED  BY <1>3, <1>4, <1>5 DEF Next

LEMMA LockHeldStep ==
  ASSUME RefInv, [Next]_vars
  PROVE  LockHeld'
<1> SUFFICES ASSUME session_lock  PROVE  \A v \in Workers : pc'[v] \in Using => is_locked'[v]
  BY RegularBefore DEF LockHeld
<1> USE DEF Using, Reading
<1>0. /\ pc \in [Workers -> Label] /\ is_locked \in [Workers -> BOOLEAN]
      /\ \A v \in Workers : pc[v] \in Using => is_locked[v]
  BY DEF RefInv, SessionInv, TypeInv, RequestOK, MutexOK, LockHeld
<1> DEFINE Held == \A v \in Workers : pc'[v] \in Using => is_locked'[v]
<1>1. CASE UNCHANGED vars
  BY <1>0, <1>1 DEF vars, handle, request
<1>2. ASSUME NEW w \in Workers, NEW k \in Keys, PS_OPEN(w, k)  PROVE  Held
  BY <1>0, <1>2 DEF PS_OPEN, StartRead, Goto
<1>3. ASSUME NEW w \in Workers, php_zookeeper_session_init(w) \/ MakeParent(w)  PROVE  Held
  <2>1. pc[w] \in {"connect", "mkparent"}
    BY <1>3 DEF php_zookeeper_session_init, MakeParent
  <2>2. CASE Register(w)
    BY <1>0, <2>1, <2>2 DEF Register, StartRead, Goto
  <2>3. CASE UNCHANGED handle /\ \E l \in {"mkparent", "failed"} : Goto(w, l)
    BY <1>0, <2>1, <2>3 DEF Goto, handle
  <2>4. CASE UNCHANGED <<handle, pc>>
    BY <1>0, <2>1, <2>4 DEF handle
  <2> QED  BY <1>3, <2>2, <2>3, <2>4 DEF php_zookeeper_session_init, MakeParent
<1>4. ASSUME NEW w \in Workers, InitFails(w) \/ OpenFailed(w) \/ Crash(w) \/ HandleClosed(w)
      PROVE  Held
  BY <1>0, <1>4 DEF InitFails, OpenFailed, Crash, HandleClosed, Die, Goto, handle
<1>5. ASSUME NEW w \in Workers, LockTry(w) \/ LockGoesOn(w) \/ LockReturn(w)  PROVE  Held
  BY <1>0, <1>5 DEF LockTry, LockGoesOn, LockReturn, Goto, handle
<1>6. ASSUME NEW w \in Workers, ReadExists(w) \/ ReadDelete(w) \/ ReadGet(w)  PROVE  Held
  BY <1>0, <1>6 DEF ReadExists, ReadDelete, ReadGet, ReadReturns, Goto, handle
<1>7. ASSUME NEW w \in Workers,
             WriteExists(w) \/ WriteCreate(w) \/ WriteSet(w) \/ DestroyDelete(w) \/ GcDelete(w)
      PROVE  Held
  BY <1>0, <1>7 DEF WriteExists, WriteCreate, WriteSet, DestroyDelete, GcDelete, Goto, handle
<1>8. ASSUME NEW w \in Workers, PS_CLOSE(w) \/ zkr_lock_destroy(w)  PROVE  Held
  BY <1>0, <1>8 DEF PS_CLOSE, zkr_lock_destroy, RequestOver, Goto, handle
<1>9. ASSUME NEW w \in Workers, ScriptStep(w)  PROVE  Held
  BY <1>0, <1>9 DEF ScriptStep, Regenerate, PS_GC, PS_WRITE, PS_DESTROY, Call, Goto, handle
<1>10. ASSUME NEW w \in Workers,
              CallbackStart(w) \/ CallbackStep(w) \/ Expire(w) \/ php_zookeeper_connection_dtor(w)
       PROVE  Held
  <2>1. CASE UNCHANGED <<handle, request>>
    BY <1>0, <2>1 DEF handle, request
  <2>2. CASE php_zookeeper_connection_dtor(w)
    BY <1>0, <2>2 DEF php_zookeeper_connection_dtor, Goto, handle
  <2> QED  BY <1>10, <2>1, <2>2 DEF CallbackStart, CallbackStep, CallbackLook, CallbackCreate,
              CallbackOrder, CallbackWatch, CallbackUnlock, CallbackFails, Expire
<1>11. ASSUME NEW k \in Keys, Age(k)  PROVE  Held
  BY <1>0, <1>11 DEF Age, handle, request
<1> HIDE DEF Held
<1>12. ASSUME NEW w \in Workers, HandlerStep(w)  PROVE  Held
  BY <1>3, <1>4, <1>5, <1>6, <1>7, <1>8, <1>12 DEF HandlerStep
<1> QED  BY <1>1, <1>2, <1>4, <1>9, <1>10, <1>11, <1>12 DEF Next, Held

(* Nobody else stores while the buffer waits for zoo_get.                  *)
LEMMA BufferStep ==
  ASSUME RefInv, [Next]_vars
  PROVE  BufferFits'
<1> DEFINE Fits == \A v \in Workers : pc'[v] = "get" /\ v \in alive'
                                        => data'[path'[v]] \in {size'[v], NULL}
<1> SUFFICES ASSUME Regular  PROVE  Fits
  BY RegularBefore DEF BufferFits
<1>0. /\ pc \in [Workers -> Label] /\ path \in [Workers -> Keys \cup {NULL}]
      /\ size \in [Workers -> Data] /\ data \in [Keys -> 1..MaxData \cup {NULL}]
      /\ session_lock /\ torn = {}
      /\ \A v \in Workers : pc[v] = "get" /\ v \in alive => data[path[v]] \in {size[v], NULL}
      /\ \A v \in Workers : pc[v] \in Using => is_locked[v] /\ path[v] \in Keys
  BY DEF RefInv, SessionInv, TypeInv, RequestOK, MutexOK, StoreOK, PointersSet, LockHeld, BufferFits, Regular
(* A step that puts nobody before zoo_get and stores nothing.              *)
<1>q. ASSUME \A v \in Workers : pc'[v] = "get" => /\ pc[v] = "get" /\ path'[v] = path[v]
                                                  /\ size'[v] = size[v],
             alive' \subseteq alive,
             \/ UNCHANGED data
             \/ \E j : data' = [data EXCEPT ![j] = NULL]
      PROVE  Fits
  BY <1>0, <1>q DEF Using, Reading
<1>1. CASE UNCHANGED vars
  BY <1>0, <1>1 DEF vars, store, zk, handle, request
<1>2. ASSUME NEW w \in Workers, NEW k \in Keys, PS_OPEN(w, k)  PROVE  Fits
  BY <1>0, <1>q, <1>2 DEF PS_OPEN, StartRead, Goto, store, zk
<1>3. ASSUME NEW w \in Workers, php_zookeeper_session_init(w) \/ MakeParent(w)  PROVE  Fits
  <2>1. UNCHANGED <<data, alive, size>> /\ pc[w] \in {"connect", "mkparent"}
    BY <1>3 DEF php_zookeeper_session_init, MakeParent, store, zk
  <2>2. CASE Register(w)
    BY <1>0, <1>q, <2>1, <2>2 DEF Register, StartRead, Goto
  <2>3. CASE UNCHANGED handle /\ \E l \in {"mkparent", "failed"} : Goto(w, l)
    BY <1>0, <1>q, <2>1, <2>3 DEF Goto, handle
  <2>4. CASE UNCHANGED <<handle, pc>>
    BY <1>0, <1>q, <2>1, <2>4 DEF handle
  <2> QED  BY <1>3, <2>2, <2>3, <2>4 DEF php_zookeeper_session_init, MakeParent
<1>4. ASSUME NEW w \in Workers, InitFails(w) \/ OpenFailed(w) \/ Crash(w) \/ HandleClosed(w)
      PROVE  Fits
  BY <1>0, <1>q, <1>4 DEF InitFails, OpenFailed, Crash, HandleClosed, Die, Goto, store, zk, handle
<1>5. ASSUME NEW w \in Workers, LockTry(w) \/ LockGoesOn(w) \/ LockReturn(w)  PROVE  Fits
  BY <1>0, <1>q, <1>5 DEF LockTry, LockGoesOn, LockReturn, Goto, store, zk, handle
<1>6. ASSUME NEW w \in Workers, ReadExists(w) \/ ReadDelete(w) \/ ReadGet(w)  PROVE  Fits
  <2>1. CASE ReadExists(w)
    BY <1>0, <2>1 DEF ReadExists, ReadReturns, Goto, store, zk, handle
  <2>2. CASE ReadDelete(w)
    <3>1. /\ UNCHANGED <<alive, path>> /\ \A v \in Workers : pc'[v] = "get" => pc[v] = "get" /\ v # w
          /\ \A v \in Workers \ {w} : size'[v] = size[v]
      BY <1>0, <2>2 DEF ReadDelete, ReadReturns, Goto, zk, handle
    <3> QED  BY <1>q, <2>2, <3>1 DEF ReadDelete, Delete
  <2>3. CASE ReadGet(w)
    BY <1>0, <1>q, <2>3 DEF ReadGet, ReadReturns, Goto, store, zk, handle
  <2> QED  BY <1>6, <2>1, <2>2, <2>3
<1>7. ASSUME NEW w \in Workers, WriteCreate(w) \/ WriteSet(w)  PROVE  Fits
  <2>1. /\ pc[w] \in {"create", "set"} /\ UNCHANGED <<alive, path, size>>
        /\ \A v \in Workers : pc'[v] = "get" => pc[v] = "get" /\ v # w
    BY <1>0, <1>7 DEF WriteCreate, WriteSet, Goto, zk, handle
  <2>2. CASE UNCHANGED data
    BY <1>q, <2>1, <2>2
  <2>3. CASE w \in alive /\ Store(w)
    <3>1. Serving(w)
      BY <1>0, <2>1, <2>3 DEF Serving, Using
    <3>2. ASSUME NEW v \in Workers, v \in alive, pc[v] = "get", v # w
          PROVE  path[v] # path[w] /\ path[v] \in Keys
      <4>1. Serving(v) /\ path[v] \in Keys
        BY <1>0, <3>2 DEF Serving, Using, Reading
      <4> QED  BY <1>0, <3>1, <3>2, <4>1, OneServes DEF RefInv
    <3> QED  BY <1>0, <2>1, <2>3, <3>2 DEF Store
  <2> QED  BY <1>7, <2>2, <2>3 DEF WriteCreate, WriteSet
<1>8. ASSUME NEW w \in Workers, WriteExists(w) \/ DestroyDelete(w) \/ GcDelete(w)  PROVE  Fits
  BY <1>0, <1>q, <1>8 DEF WriteExists, DestroyDelete, GcDelete, Delete, Goto, store, zk, handle
<1>9. ASSUME NEW w \in Workers, PS_CLOSE(w) \/ zkr_lock_destroy(w)  PROVE  Fits
  BY <1>0, <1>q, <1>9 DEF PS_CLOSE, zkr_lock_destroy, RequestOver, Goto, store, zk, handle
<1>10. ASSUME NEW w \in Workers, ScriptStep(w)  PROVE  Fits
  <2>1. UNCHANGED <<data, alive, path, size>>
    BY <1>10 DEF ScriptStep, Regenerate, PS_GC, PS_WRITE, PS_DESTROY, Call, store, zk, handle
  <2>2. \A v \in Workers : pc'[v] = "get" => pc[v] = "get"
    BY <1>0, <1>10 DEF ScriptStep, Regenerate, PS_GC, PS_WRITE, PS_DESTROY, Call, Goto
  <2> QED  BY <1>q, <2>1, <2>2
<1>11. ASSUME NEW w \in Workers,
              CallbackStart(w) \/ CallbackStep(w) \/ Expire(w) \/ php_zookeeper_connection_dtor(w)
       PROVE  Fits
  <2>1. CASE UNCHANGED <<store, handle, request>> /\ alive' \subseteq alive
    BY <1>0, <1>q, <2>1 DEF store, handle, request
  <2>2. CASE php_zookeeper_connection_dtor(w)
    BY <1>0, <1>q, <2>2 DEF php_zookeeper_connection_dtor, Goto, store, zk, handle
  <2> QED  BY <1>11, <2>1, <2>2 DEF CallbackStart, CallbackStep, CallbackLook, CallbackCreate,
              CallbackOrder, CallbackWatch, CallbackUnlock, CallbackFails, Expire, zk
<1>12. ASSUME NEW k \in Keys, Age(k)  PROVE  Fits
  BY <1>0, <1>q, <1>12 DEF Age, zk, handle, request
<1> HIDE DEF Fits
<1>13. ASSUME NEW w \in Workers, HandlerStep(w)  PROVE  Fits
  BY <1>3, <1>4, <1>5, <1>6, <1>7, <1>8, <1>9, <1>13 DEF HandlerStep
<1> QED  BY <1>1, <1>2, <1>4, <1>10, <1>11, <1>12, <1>13 DEF Next

(***************************************************************************)
(* With session_lock on, every handler that touches a session has          *)
(* is_locked set and, as long as zkr_lock_init has overwritten no mutex    *)
(* under a callback, is first in the line of its lock, and the buffer of   *)
(* PS_READ_FUNC, sized by its zoo_exists, fits what zoo_get then finds.    *)
(***************************************************************************)
THEOREM HandlersHoldLock ==
  Spec => []RefInv
<1>1. RefInv /\ [Next]_vars => RefInv'
  BY SessionStep, LockHeldStep, BufferStep DEF RefInv
<1> QED  BY <1>1, InitRef, PTL DEF Spec

-----------------------------------------------------------------------------
(* How a step looks to SessionStore *)

User(w)  == [by |-> w, given |-> Given(w)]
Users(k) == {User(w) : w \in {v \in Workers : Serving(v) /\ path[v] = k}}

SameUser(v) ==
  /\ Serving(v)' <=> Serving(v)
  /\ Serving(v) => Given(v)' = Given(v) /\ path'[v] = path[v]

SameUsers     == \A v \in Workers : SameUser(v)
OthersStay(w) == \A v \in Workers \ {w} : SameUser(v)

(* The session of key k has no user besides w.                             *)
NoOther(w, k) == \A v \in Workers \ {w} : Serving(v) => path[v] # k

Begins(w) ==
  /\ ~Serving(w) /\ Serving(w)' /\ Given(w)' = {} /\ path'[w] \in Keys
  /\ NoOther(w, path'[w]) /\ OthersStay(w) /\ UNCHANGED data

Takes(w) ==
  /\ Serving(w) /\ Serving(w)' /\ Given(w) = {} /\ Given(w)' = {data'[path[w]]}
  /\ path[w] \in Keys /\ path'[w] = path[w] /\ NoOther(w, path[w]) /\ OthersStay(w)
  /\ data' \in {data, [data EXCEPT ![path[w]] = NULL]}

Commits(w) ==
  /\ Serving(w) /\ Given(w) = {seen[w]} /\ path[w] \in Keys
  /\ data' = [data EXCEPT ![path[w]] = Update(seen[w])] /\ SameUsers

Loses == (\E k \in Keys : data' = [data EXCEPT ![k] = NULL]) /\ SameUsers

Ends(w) ==
  /\ Serving(w) /\ ~Serving(w)' /\ path[w] \in Keys
  /\ NoOther(w, path[w]) /\ OthersStay(w) /\ UNCHANGED data

Unseen == UNCHANGED data /\ SameUsers

(* A key that w neither leaves nor enters keeps its users.                 *)
LEMMA OtherKeyMap ==
  ASSUME NEW w \in Workers, OthersStay(w), NEW k \in Keys,
         ~(Serving(w) /\ path[w] = k), ~(Serving(w)' /\ path'[w] = k)
  PROVE  Users(k)' = Users(k)
<1>1. {v \in Workers : Serving(v) /\ path[v] = k}' = {v \in Workers : Serving(v) /\ path[v] = k}
  BY DEF OthersStay, SameUser
<1>2. \A v \in {u \in Workers : Serving(u) /\ path[u] = k} : User(v)' = User(v)
  BY DEF OthersStay, SameUser, User
<1> QED  BY <1>1, <1>2 DEF Users

LEMMA SameUsersMap ==
  ASSUME SameUsers
  PROVE  [k \in Keys |-> Users(k)]' = [k \in Keys |-> Users(k)]
<1>1. ASSUME NEW k \in Keys  PROVE  Users(k)' = Users(k)
  <2>1. {v \in Workers : Serving(v) /\ path[v] = k}' = {v \in Workers : Serving(v) /\ path[v] = k}
    BY DEF SameUsers, SameUser
  <2>2. \A v \in {u \in Workers : Serving(u) /\ path[u] = k} : User(v)' = User(v)
    BY DEF SameUsers, SameUser, User
  <2> QED  BY <2>1, <2>2 DEF Users
<1> QED  BY <1>1

LEMMA OneUserMap ==
  ASSUME NEW w \in Workers, NEW k \in Keys, NoOther(w, k), OthersStay(w)
  PROVE  /\ Users(k)  = IF Serving(w) /\ path[w] = k THEN {User(w)} ELSE {}
         /\ Users(k)' = IF Serving(w)' /\ path'[w] = k THEN {User(w)'} ELSE {}
<1>1. {v \in Workers : Serving(v) /\ path[v] = k} = IF Serving(w) /\ path[w] = k THEN {w} ELSE {}
  BY DEF NoOther
<1>2. {v \in Workers : Serving(v) /\ path[v] = k}'
        = IF Serving(w)' /\ path'[w] = k THEN {w} ELSE {}
  BY DEF NoOther, OthersStay, SameUser
<1>3. Users(k) = IF Serving(w) /\ path[w] = k THEN {User(w)} ELSE {}
  BY <1>1 DEF Users
<1>4. Users(k)' = IF Serving(w)' /\ path'[w] = k THEN {User(w)'} ELSE {}
  BY <1>2 DEF Users
<1> QED  BY <1>3, <1>4

(* Each of these is a step of SessionStore or none.                        *)
LEMMA StoreMap ==
  ASSUME TypeInv, NEW w \in Workers,
         Begins(w) \/ Takes(w) \/ Commits(w) \/ Loses \/ Ends(w) \/ Unseen
  PROVE  [Abstract!StoreStep]_(Abstract!storeVars)
<1> DEFINE user == [k \in Keys |-> Users(k)]
<1>0. data \in [Keys -> 1..MaxData \cup {NULL}]
  BY DEF TypeInv, StoreOK
<1>u. ASSUME data' = data, user' = user
      PROVE  [Abstract!StoreStep]_(Abstract!storeVars)
  BY <1>u DEF Abstract!storeVars, Users, User
<1>1. CASE Unseen
  BY <1>1, <1>u, SameUsersMap DEF Unseen
<1>2. CASE Loses
  <2>1. PICK k \in Keys : data' = [data EXCEPT ![k] = NULL]
    BY <1>2 DEF Loses
  <2>2. user' = user
    BY <1>2, SameUsersMap DEF Loses
  <2>3. CASE data' # data
    <3>1. Abstract!Lose(k)
      BY <2>1, <2>2 DEF Abstract!Lose, Abstract!Discard, Users, User
    <3> QED  BY <2>3, <3>1 DEF Abstract!StoreStep
  <2> QED  BY <1>u, <2>2, <2>3
<1>3. CASE Commits(w)
  <2>0. PICK k \in Keys : path[w] = k
    BY <1>3 DEF Commits
  <2>1. k \in Keys /\ data' = [data EXCEPT ![k] = Update(seen[w])] /\ user' = user
    BY <1>3, <2>0, SameUsersMap DEF Commits
  <2>2. User(w) \in Users(k) /\ User(w).given = {seen[w]}
    BY <1>3, <2>0 DEF Commits, Users, User
  <2>3. CASE data' # data
    <3>1. Abstract!Commit(k)
      <4>1. \E u \in user[k] : \E d \in u.given : data' = [data EXCEPT ![k] = Update(d)]
        BY <2>1, <2>2
      <4> QED  BY <2>1, <4>1 DEF Abstract!Commit, Users, User
    <3> QED  BY <2>1, <2>3, <3>1 DEF Abstract!StoreStep
  <2> QED  BY <1>u, <2>1, <2>3
<1>4. CASE Begins(w)
  <2>0. PICK k \in Keys : path'[w] = k
    BY <1>4 DEF Begins
  <2>1. \A j \in Keys \ {k} : Users(j)' = Users(j)
    BY <1>4, <2>0, OtherKeyMap DEF Begins
  <2>2. Users(k) = {} /\ Users(k)' = {User(w)'}
    BY <1>4, <2>0, OneUserMap DEF Begins
  <2>3. User(w)' = [by |-> w, given |-> {}]
    BY <1>4 DEF Begins, User
  <2>4. user[k] = {} /\ user' = [user EXCEPT ![k] = {[by |-> w, given |-> {}]}] /\ user' # user
    BY <2>1, <2>2, <2>3
  <2>5. Abstract!Begin(k) /\ UNCHANGED data
    BY <1>4, <2>4 DEF Begins, Abstract!Begin, Abstract!Entrant, Users, User
  <2>6. Abstract!StoreStep
    BY <2>4, <2>5 DEF Abstract!StoreStep, Users, User
  <2> QED  BY <2>6
<1>5. CASE Takes(w)
  <2>0. PICK k \in Keys : path[w] = k
    BY <1>5 DEF Takes
  <2>1. path'[w] = k /\ \A j \in Keys \ {k} : Users(j)' = Users(j)
    BY <1>5, <2>0, OtherKeyMap DEF Takes
  <2> DEFINE d == data'[k]
  <2>2. Users(k) = {User(w)} /\ Users(k)' = {User(w)'}
    BY <1>5, <2>0, <2>1, OneUserMap DEF Takes
  <2>3. User(w) = [by |-> w, given |-> {}] /\ User(w)' = [by |-> w, given |-> {d}]
    BY <1>5, <2>0 DEF Takes, User
  <2>4. [by |-> w, given |-> {}] # [by |-> w, given |-> {d}]
    OBVIOUS
  <2>5. /\ user[k] = {[by |-> w, given |-> {}]} /\ user' # user
        /\ user' = [user EXCEPT ![k] = {[by |-> w, given |-> {d}]}]
    BY <2>1, <2>2, <2>3, <2>4
  <2>6. Abstract!Take(k)
    BY <1>5, <2>0, <2>5 DEF Takes, Abstract!Take, Abstract!Discard, Abstract!Entrant, Abstract!Taker, Users, User
  <2>7. Abstract!StoreStep
    BY <2>5, <2>6 DEF Abstract!StoreStep, Users, User
  <2> QED  BY <2>7
<1>6. CASE Ends(w)
  <2>0. PICK k \in Keys : path[w] = k
    BY <1>6 DEF Ends
  <2>1. \A j \in Keys \ {k} : Users(j)' = Users(j)
    BY <1>6, <2>0, OtherKeyMap DEF Ends
  <2>2. Users(k) = {User(w)} /\ Users(k)' = {}
    BY <1>6, <2>0, OneUserMap DEF Ends
  <2>3. user[k] # {} /\ user' = [user EXCEPT ![k] = {}] /\ user' # user
    BY <2>1, <2>2
  <2>4. Abstract!End(k)
    BY <1>6, <2>3 DEF Ends, Abstract!End, Users, User
  <2>5. Abstract!StoreStep
    BY <2>3, <2>4 DEF Abstract!StoreStep, Users, User
  <2> QED  BY <2>5
<1> QED  BY <1>1, <1>2, <1>3, <1>4, <1>5, <1>6

-----------------------------------------------------------------------------
(* How the steps of a worker look to SessionStore *)

(* What SessionStore sees of a worker other than w stays as it is.         *)
Others(w) ==
  \A v \in Workers \ {w} :
    /\ is_locked'[v] = is_locked[v] /\ path'[v] = path[v] /\ pc'[v] = pc[v]
    /\ seen'[v] = seen[v] /\ (v \in alive' <=> v \in alive)

LEMMA OthersSame ==
  ASSUME NEW w \in Workers, Others(w)
  PROVE  OthersStay(w)
BY DEF Others, OthersStay, SameUser, Serving, Given

(* Who serves a session, or is about to, is alone with it.                 *)
LEMMA ServesAlone ==
  ASSUME RefInv, Regular, NEW w \in Workers, w \in alive, pc[w] # "free",
         isowner[w] \/ is_locked[w], lock[w] \in Keys
  PROVE  NoOther(w, lock[w])
<1> SUFFICES ASSUME NEW v \in Workers \ {w}, Serving(v), path[v] = lock[w]  PROVE  FALSE
  BY DEF NoOther
<1>1. lock[v] = lock[w] /\ lock[w] # NULL
  BY NullAssumption DEF RefInv, SessionInv, LockedInRequest, Serving
<1>2. FirstIn(v, line[lock[w]]) /\ FirstIn(w, line[lock[w]])
  BY <1>1 DEF RefInv, SessionInv, OwnerIsFirst, Serving, Regular
<1>3. Ordered(line[lock[w]])
  BY DEF RefInv, SessionInv, TypeInv, LineOK
<1> QED  BY <1>2, <1>3, FirstIsOne

LEMMA UserAlone ==
  ASSUME RefInv, Regular, NEW w \in Workers, Serving(w)
  PROVE  path[w] \in Keys /\ NoOther(w, path[w])
<1>1. path[w] = lock[w] /\ lock[w] \in Keys
  BY DEF RefInv, SessionInv, LockedInRequest, TypeInv, PointersSet, Serving
<1> QED  BY <1>1, ServesAlone DEF Serving

(* After the step the worker serves no session.                            *)
LEMMA NotServingMap ==
  ASSUME RefInv, Regular, NEW w \in Workers, Others(w), UNCHANGED data, ~Serving(w)'
  PROVE  Ends(w) \/ Unseen
<1>1. CASE Serving(w)
  BY <1>1, UserAlone, OthersSame DEF Ends
<1>2. CASE ~Serving(w)
  BY <1>2, OthersSame DEF Unseen, SameUsers, OthersStay, SameUser
<1> QED  BY <1>1, <1>2

(* The worker goes on with what it was given.                              *)
LEMMA GoesOnMap ==
  ASSUME NEW w \in Workers, Others(w), UNCHANGED <<alive, is_locked, path, seen>>,
         pc[w] \in Using \ Reading, pc'[w] \in (Using \ Reading) \cup {"close"}
  PROVE  SameUsers
<1>1. (Serving(w)' <=> Serving(w)) /\ Given(w)' = Given(w)
  BY DEF Serving, Given, Using, Reading
<1> QED  BY <1>1, OthersSame DEF SameUsers, OthersStay, SameUser

LEMMA OpenMap ==
  ASSUME RefInv, Regular, NEW w \in Workers,
         \/ \E k \in Keys : PS_OPEN(w, k)
         \/ php_zookeeper_session_init(w) \/ MakeParent(w)
         \/ php_zookeeper_connection_dtor(w) \/ LockTry(w) \/ LockGoesOn(w)
  PROVE  Ends(w) \/ Unseen
<1>0. /\ pc \in [Workers -> Label] /\ is_locked \in [Workers -> BOOLEAN]
      /\ path \in [Workers -> Keys \cup {NULL}] /\ session_lock
  BY DEF RefInv, SessionInv, TypeInv, RequestOK, MutexOK, Regular
<1>1. UNCHANGED <<data, alive, seen>>
  BY DEF PS_OPEN, php_zookeeper_session_init, MakeParent, php_zookeeper_connection_dtor, LockTry,
         LockGoesOn, store, zk
<1>2. /\ \E l \in {"lock", "connect", "mkparent", "failed", "exit", "owner", "stuck"} :
           pc' = [pc EXCEPT ![w] = l]
      /\ path' = path
      /\ is_locked' \in {is_locked, [is_locked EXCEPT ![w] = FALSE]}
  <2>1. CASE \E k \in Keys : PS_OPEN(w, k)
    BY <1>0, <2>1 DEF PS_OPEN, StartRead, Goto
  <2>2. CASE php_zookeeper_session_init(w)
    BY <1>0, <2>2 DEF php_zookeeper_session_init, Register, StartRead, Goto, handle
  <2>3. CASE MakeParent(w)
    <3>1. CASE Register(w)
      BY <1>0, <3>1 DEF Register, StartRead, Goto
    <3>2. CASE UNCHANGED <<handle, pc>> /\ pc[w] = "mkparent"
      BY <1>0, <3>2 DEF handle
    <3>3. CASE UNCHANGED handle /\ Goto(w, "failed")
      BY <3>3 DEF handle, Goto
    <3> QED  BY <2>3, <3>1, <3>2, <3>3 DEF MakeParent
  <2>4. CASE php_zookeeper_connection_dtor(w) \/ LockTry(w) \/ LockGoesOn(w)
    BY <2>4 DEF php_zookeeper_connection_dtor, LockTry, LockGoesOn, Goto, handle
  <2> QED  BY <2>1, <2>2, <2>3, <2>4
<1>3. Others(w) /\ ~Serving(w)'
  BY <1>0, <1>1, <1>2 DEF Others, Serving
<1> QED  BY <1>1, <1>3, NotServingMap

LEMMA GoneMap ==
  ASSUME RefInv, Regular, NEW w \in Workers,
         \/ InitFails(w) \/ OpenFailed(w) \/ Crash(w) \/ HandleClosed(w) \/ Expire(w)
         \/ PS_CLOSE(w) \/ zkr_lock_destroy(w)
  PROVE  Ends(w) \/ Unseen
<1>0. /\ pc \in [Workers -> Label] /\ is_locked \in [Workers -> BOOLEAN]
      /\ path \in [Workers -> Keys \cup {NULL}] /\ seen \in [Workers -> Data]
  BY DEF RefInv, SessionInv, TypeInv, RequestOK, MutexOK
<1>1. CASE Die(w) /\ (alive' = alive \/ alive' = alive \ {w})
  <2>1. UNCHANGED data /\ Others(w) /\ ~Serving(w)'
    BY <1>0, <1>1 DEF Die, Others, Serving, store
  <2> QED  BY <2>1, NotServingMap
<1>2. CASE OpenFailed(w) /\ ~Die(w)
  <2>1. UNCHANGED data /\ Others(w) /\ ~Serving(w)'
    BY <1>0, <1>2 DEF OpenFailed, Goto, Others, Serving, store, handle, zk
  <2> QED  BY <2>1, NotServingMap
<1>3. CASE Expire(w)
  <2>1. UNCHANGED data /\ Others(w) /\ ~Serving(w)'
    BY <1>0, <1>3 DEF Expire, Others, Serving, store, handle, request
  <2> QED  BY <2>1, NotServingMap
<1>4. CASE PS_CLOSE(w) \/ zkr_lock_destroy(w)
  <2>1. UNCHANGED data /\ Others(w) /\ ~Serving(w)'
    BY <1>0, <1>4 DEF PS_CLOSE, zkr_lock_destroy, RequestOver, Goto, Others, Serving, store, zk, handle
  <2> QED  BY <2>1, NotServingMap
<1> QED  BY <1>1, <1>2, <1>3, <1>4 DEF InitFails, OpenFailed, Crash, HandleClosed, zk

(* php_zookeeper_sess_lock returns: the user is the first one in line.     *)
LEMMA LockReturnMap ==
  ASSUME RefInv, Regular, NEW w \in Workers, LockReturn(w)
  PROVE  Begins(w) \/ Ends(w) \/ Unseen
<1>0. /\ pc \in [Workers -> Label] /\ is_locked \in [Workers -> BOOLEAN]
      /\ path \in [Workers -> Keys \cup {NULL}] /\ ~is_locked[w] /\ key[w] \in Keys
      /\ lock[w] = key[w]
  BY DEF RefInv, SessionInv, TypeInv, RequestOK, MutexOK, LockedInRequest, PointersSet, LockReturn,
         Using, Reading, LockCalls
<1>1. Others(w) /\ UNCHANGED <<data, alive>>
  BY <1>0 DEF LockReturn, Others, Goto, store, zk
<1>2. CASE Locked(w) /\ w \in alive
  <2>1. NoOther(w, key[w])
    BY <1>0, <1>2, ServesAlone DEF Locked, LockReturn
  <2>2. is_locked'[w] /\ pc'[w] = "exists" /\ path'[w] = key[w]
    BY <1>0, <1>2 DEF LockReturn, Goto
  <2>3. ~Serving(w) /\ Serving(w)' /\ Given(w)' = {}
    BY <1>0, <1>1, <1>2, <2>2 DEF Serving, Given
  <2> QED  BY <1>0, <1>1, <2>1, <2>2, <2>3, OthersSame DEF Begins
<1>3. CASE ~(Locked(w) /\ w \in alive)
  <2>1. ~Serving(w)'
    BY <1>0, <1>1, <1>3 DEF LockReturn, Serving
  <2> QED  BY <1>1, <2>1, NotServingMap
<1> QED  BY <1>2, <1>3

(* PS_READ_FUNC gives what is stored: zoo_exists finds nothing, the session *)
(* is too old, or zoo_get fills the buffer.                                *)
LEMMA ReadMap ==
  ASSUME RefInv, Regular, NEW w \in Workers, ReadExists(w) \/ ReadDelete(w) \/ ReadGet(w)
  PROVE  Takes(w) \/ Loses \/ Ends(w) \/ Unseen
<1>0. /\ pc \in [Workers -> Label] /\ seen \in [Workers -> Data]
      /\ data \in [Keys -> 1..MaxData \cup {NULL}]
      /\ pc[w] \in Reading /\ is_locked[w] /\ path[w] \in Keys
  BY DEF RefInv, SessionInv, TypeInv, RequestOK, StoreOK, PointersSet, LockHeld, Regular, ReadExists, ReadDelete, ReadGet,
         Using, Reading
<1>1. UNCHANGED <<alive, is_locked, path>>
  BY DEF ReadExists, ReadDelete, ReadGet, zk, handle
<1>2. /\ \E l \in {"expired", "get", "user"} : pc' = [pc EXCEPT ![w] = l]
      /\ seen' = seen \/ \E d : seen' = [seen EXCEPT ![w] = d]
  BY <1>0 DEF ReadExists, ReadDelete, ReadGet, ReadReturns, Goto
<1>3. Others(w)
  BY <1>0, <1>1, <1>2 DEF Others
<1>4. CASE w \notin alive
  <2>1. UNCHANGED data /\ ~Serving(w)'
    BY <1>1, <1>4 DEF ReadExists, ReadDelete, ReadGet, Serving, store
  <2> QED  BY <1>3, <2>1, NotServingMap
<1>5. CASE w \in alive
  <2>1. Serving(w) /\ Given(w) = {} /\ NoOther(w, path[w]) /\ OthersStay(w)
    <3>1. Serving(w) /\ Given(w) = {}
      BY <1>0, <1>5 DEF Serving, Given, Reading
    <3> QED  BY <1>3, <3>1, UserAlone, OthersSame
  <2>2. ASSUME ReadReturns(w, data'[path[w]]), data' \in {data, [data EXCEPT ![path[w]] = NULL]}
        PROVE  Takes(w)
    <3>1. pc'[w] = "user" /\ seen'[w] = data'[path[w]]
      BY <1>0, <2>2 DEF ReadReturns, Goto
    <3>2. Serving(w)' /\ Given(w)' = {data'[path[w]]}
      BY <1>0, <1>1, <1>5, <3>1 DEF Serving, Given
    <3> QED  BY <1>0, <1>1, <2>1, <2>2, <3>2 DEF Takes
  <2>3. ASSUME pc'[w] \in Reading  PROVE  SameUsers
    <3>1. Serving(w)' /\ Given(w)' = {}
      BY <1>0, <1>1, <1>5, <2>3 DEF Serving, Given, Reading
    <3> QED  BY <1>1, <2>1, <3>1 DEF SameUsers, OthersStay, SameUser
  <2>4. CASE ReadExists(w)
    <3>1. UNCHANGED data
      BY <2>4 DEF ReadExists, store
    <3>2. CASE data[path[w]] = NULL
      BY <1>5, <2>2, <2>4, <3>1, <3>2 DEF ReadExists
    <3>3. CASE data[path[w]] # NULL
      <4>1. pc'[w] \in Reading
        BY <1>0, <1>5, <2>4, <3>3 DEF ReadExists, Goto, Reading
      <4> QED  BY <2>3, <3>1, <4>1 DEF Unseen
    <3> QED  BY <3>2, <3>3
  <2>5. CASE ReadDelete(w)
    <3>1. data' = [data EXCEPT ![path[w]] = NULL]
      BY <1>5, <2>5 DEF ReadDelete, Delete
    <3>2. data'[path[w]] = NULL
      BY <1>0, <3>1
    <3>3. CASE ReadReturns(w, NULL)
      BY <2>2, <3>1, <3>2, <3>3
    <3>4. CASE UNCHANGED pc
      BY <1>0, <2>3, <3>1, <3>4 DEF Loses
    <3> QED  BY <1>5, <2>5, <3>3, <3>4 DEF ReadDelete
  <2>6. CASE ReadGet(w)
    <3>1. UNCHANGED data
      BY <2>6 DEF ReadGet, store
    <3>2. CASE data[path[w]] = NULL
      BY <1>5, <2>2, <2>6, <3>1, <3>2 DEF ReadGet
    <3>3. CASE data[path[w]] # NULL
      <4>1. data[path[w]] = size[w] /\ data[path[w]] \in 1..MaxData
        BY <1>0, <1>5, <2>6, <3>3 DEF RefInv, BufferFits, Regular, ReadGet
      <4>2. Received(w, data[path[w]]) = data[path[w]]
        BY <4>1, LimitsAssumption DEF Received
      <4> QED  BY <1>5, <2>2, <2>6, <3>1, <3>3, <4>2 DEF ReadGet
    <3> QED  BY <3>2, <3>3
  <2> QED  BY <2>4, <2>5, <2>6
<1> QED  BY <1>4, <1>5

(* What PS_WRITE_FUNC stores follows from what its worker was given, also  *)
(* when it stores it again.                                                *)
LEMMA WriteMap ==
  ASSUME RefInv, Regular, NEW w \in Workers,
         WriteExists(w) \/ WriteCreate(w) \/ WriteSet(w) \/ DestroyDelete(w) \/ GcDelete(w)
  PROVE  Commits(w) \/ Loses \/ Unseen
<1>0. /\ pc \in [Workers -> Label]
      /\ pc[w] \in {"write", "create", "set", "unset", "gc"} /\ is_locked[w] /\ path[w] \in Keys
      /\ pc[w] = "gc" => victim[w] \in Keys
  BY DEF RefInv, SessionInv, TypeInv, RequestOK, PointersSet, LockHeld, Regular, WriteExists, WriteCreate,
         WriteSet, DestroyDelete, GcDelete, Using, Reading
<1>1. UNCHANGED <<alive, is_locked, path, seen>>
  BY DEF WriteExists, WriteCreate, WriteSet, DestroyDelete, GcDelete, zk, handle
<1>2. \E l \in {"set", "create", "close", "user", "unset"} : pc' = [pc EXCEPT ![w] = l]
  BY <1>0 DEF WriteExists, WriteCreate, WriteSet, DestroyDelete, GcDelete, Goto
<1>3. SameUsers
  <2>1. Others(w)
    BY <1>0, <1>1, <1>2 DEF Others
  <2>2. pc[w] \in Using \ Reading /\ pc'[w] \in (Using \ Reading) \cup {"close"}
    BY <1>0, <1>2 DEF Using, Reading
  <2> QED  BY <1>1, <2>1, <2>2, GoesOnMap
<1>4. CASE UNCHANGED data
  BY <1>3, <1>4 DEF Unseen
<1>5. CASE w \in alive /\ Store(w)
  <2>1. Serving(w) /\ Given(w) = {seen[w]}
    BY <1>0, <1>5 DEF Serving, Given
  <2> QED  BY <1>0, <1>3, <1>5, <2>1 DEF Commits, Store
<1>6. CASE Delete(path[w]) \/ (pc[w] = "gc" /\ Delete(victim[w]))
  BY <1>0, <1>3, <1>6 DEF Loses, Delete
<1> QED  BY <1>4, <1>5, <1>6 DEF WriteExists, WriteCreate, WriteSet, DestroyDelete, GcDelete, store

LEMMA ScriptMap ==
  ASSUME RefInv, Regular, NEW w \in Workers, ScriptStep(w)
  PROVE  Unseen
<1>0. pc \in [Workers -> Label]
  BY DEF RefInv, SessionInv, TypeInv, RequestOK
<1>1. UNCHANGED <<data, alive, is_locked, path, seen>> /\ pc[w] = "user"
  BY DEF ScriptStep, Regenerate, PS_GC, PS_WRITE, PS_DESTROY, Call, store, zk, handle
<1>2. \E l \in {"user", "gc", "write", "unset"} : pc' = [pc EXCEPT ![w] = l]
  BY <1>0 DEF ScriptStep, Regenerate, PS_GC, PS_WRITE, PS_DESTROY, Call, Goto
<1>3. Others(w)
  BY <1>0, <1>1, <1>2 DEF Others
<1>4. pc[w] \in Using \ Reading /\ pc'[w] \in (Using \ Reading) \cup {"close"}
  BY <1>0, <1>1, <1>2 DEF Using, Reading
<1> QED  BY <1>1, <1>3, <1>4, GoesOnMap DEF Unseen

(* Every step looks like one of these.                                     *)
Shape(w) == Begins(w) \/ Takes(w) \/ Commits(w) \/ Loses \/ Ends(w) \/ Unseen

LEMMA StepShapes ==
  ASSUME RefInv, Regular, [Next]_vars
  PROVE  Unseen \/ \E w \in Workers : Shape(w)
<1>1. ASSUME NEW w \in Workers, HandlerStep(w)
      PROVE  Shape(w)
  BY <1>1, OpenMap, GoneMap, LockReturnMap, ReadMap, WriteMap DEF HandlerStep, Shape
<1>2. ASSUME NEW w \in Workers,
             \/ \E k \in Keys : PS_OPEN(w, k)
             \/ ScriptStep(w) \/ Expire(w) \/ Crash(w) \/ php_zookeeper_connection_dtor(w)
      PROVE  Shape(w)
  BY <1>2, OpenMap, GoneMap, ScriptMap DEF Shape
<1>3. CASE \/ \E w \in Workers : CallbackStart(w) \/ CallbackStep(w)
           \/ \E k \in Keys : Age(k)
           \/ UNCHANGED vars
  <2>1. UNCHANGED <<data, alive, is_locked, path, pc, seen>>
    BY <1>3 DEF CallbackStart, CallbackStep, CallbackLook, CallbackCreate, CallbackOrder, CallbackWatch,
                CallbackUnlock, CallbackFails, Age, vars, store, zk, handle, request
  <2> QED  BY <2>1 DEF Unseen, SameUsers, SameUser, Serving, Given
<1> QED  BY <1>1, <1>2, <1>3 DEF Next

(***************************************************************************)
(* With session_lock on, and up to the first time that zkr_lock_init       *)
(* overwrites a mutex under a callback, the handlers of any number of      *)
(* workers implement SessionStore for any session ids: one user of a       *)
(* session at a time, who is given what is stored and stores what follows  *)
(* from it, through lost and repeated calls, expired ZooKeeper sessions,   *)
(* crashes, abandoned waits and callbacks.                                 *)
(***************************************************************************)
THEOREM SessionRefinement ==
  Spec => ImplementsSessionStore
<1>1. Init => Abstract!Vacant
  BY DEF Init, Abstract!Vacant, Serving
<1>2. ASSUME RefInv, [Next]_vars, Regular'
      PROVE  [Abstract!StoreStep]_(Abstract!storeVars)
  <2>1. TypeInv /\ Regular
    BY <1>2, RegularBefore DEF RefInv, SessionInv
  <2>2. CASE Unseen
    BY <2>2, SameUsersMap DEF Unseen, Abstract!storeVars, Users, User
  <2>3. ASSUME NEW w \in Workers, Shape(w)
        PROVE  [Abstract!StoreStep]_(Abstract!storeVars)
    BY <2>1, <2>3, StoreMap DEF Shape
  <2> QED  BY <1>2, <2>1, <2>2, <2>3, StepShapes
<1>3. RefInv /\ [Next]_vars => [Regular' => [Abstract!StoreStep]_(Abstract!storeVars)]_vars
  BY <1>2
<1> QED  BY <1>1, <1>3, HandlersHoldLock, PTL DEF Spec, ImplementsSessionStore

-----------------------------------------------------------------------------
(* What a user of the session can rely on *)

(* While a worker serves a session that PS_READ_FUNC gave it, what is      *)
(* stored is that session, what its script makes of it, or nothing.        *)
OwnDataStored ==
  Regular => \A w \in Workers : Serving(w) =>
    \A d \in Given(w) : data[path[w]] \in {d, Update(d), NULL}

LEMMA OwnDataStep ==
  ASSUME RefInv, OwnDataStored, [Next]_vars
  PROVE  OwnDataStored'
<1> DEFINE Stored == \A v \in Workers : Serving(v) =>
                       \A d \in Given(v) : data[path[v]] \in {d, Update(d), NULL}
<1> SUFFICES ASSUME Regular, Stored  PROVE  Stored'
  BY RegularBefore DEF OwnDataStored
<1>0. /\ data \in [Keys -> 1..MaxData \cup {NULL}]
      /\ \A v \in Workers : Serving(v) => path[v] \in Keys /\ NoOther(v, path[v])
  BY UserAlone DEF RefInv, SessionInv, TypeInv, StoreOK
<1>1. CASE Unseen
  BY <1>1 DEF Unseen, SameUsers, SameUser
<1>2. ASSUME NEW w \in Workers, Shape(w)
      PROVE  Stored'
  <2>1. CASE Begins(w)
    BY <2>1 DEF Begins, OthersStay, SameUser
  <2>2. CASE Takes(w)
    <3>1. ASSUME NEW v \in Workers \ {w}, Serving(v)'
          PROVE  \A d \in Given(v)' : data'[path'[v]] \in {d, Update(d), NULL}
      <4>1. /\ Serving(v) /\ Given(v)' = Given(v) /\ path'[v] = path[v]
            /\ path[v] \in Keys /\ path[v] # path[w]
        BY <1>0, <2>2, <3>1 DEF Takes, OthersStay, SameUser, NoOther
      <4>2. data'[path[v]] = data[path[v]]
        BY <1>0, <2>2, <4>1 DEF Takes
      <4> QED  BY <4>1, <4>2
    <3>2. \A d \in Given(w)' : data'[path'[w]] \in {d, Update(d), NULL}
      BY <2>2 DEF Takes
    <3> QED  BY <3>1, <3>2
  <2>3. CASE Commits(w)
    <3>1. ASSUME NEW v \in Workers, Serving(v)'
          PROVE  \A d \in Given(v)' : data'[path'[v]] \in {d, Update(d), NULL}
      <4>1. Serving(v) /\ Given(v)' = Given(v) /\ path'[v] = path[v] /\ path[v] \in Keys
        BY <1>0, <2>3, <3>1 DEF Commits, SameUsers, SameUser
      <4>2. CASE v = w
        BY <1>0, <2>3, <4>1, <4>2 DEF Commits
      <4>3. CASE v # w
        <5>1. path[v] # path[w]
          BY <1>0, <2>3, <4>1, <4>3 DEF Commits, NoOther
        <5>2. data'[path[v]] = data[path[v]]
          BY <1>0, <2>3, <4>1, <5>1 DEF Commits
        <5> QED  BY <4>1, <5>2
      <4> QED  BY <4>2, <4>3
    <3> QED  BY <3>1
  <2>4. CASE Loses
    BY <1>0, <2>4 DEF Loses, SameUsers, SameUser
  <2>5. CASE Ends(w)
    BY <2>5 DEF Ends, OthersStay, SameUser
  <2> QED  BY <1>1, <1>2, <2>1, <2>2, <2>3, <2>4, <2>5 DEF Shape
<1> QED  BY <1>1, <1>2, StepShapes

(***************************************************************************)
(* No update is lost: with session_lock on, and up to the first time that  *)
(* zkr_lock_init overwrites a mutex under a callback, nobody else's data   *)
(* replaces what a worker read, from the return of PS_READ_FUNC to the     *)
(* unlock in PS_CLOSE_FUNC, also not data that a user of another session   *)
(* stores or a repeated call of an earlier user.                           *)
(***************************************************************************)
THEOREM OwnDataIsStored ==
  Spec => []OwnDataStored
<1>1. Init => OwnDataStored
  BY DEF Init, OwnDataStored, Serving
<1>2. RefInv /\ OwnDataStored /\ [Next]_vars => OwnDataStored'
  BY OwnDataStep
<1> QED  BY <1>1, <1>2, HandlersHoldLock, PTL DEF Spec

=============================================================================
