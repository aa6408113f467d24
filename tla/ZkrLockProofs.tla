---------------------------- MODULE ZkrLockProofs ----------------------------
EXTENDS ZkrLock, TLAPS

Inside == Label \ {"idle", "dead"}

(* pmutex: a thread inside zkr_lock_lock or zkr_lock_unlock holds it.       *)
Exclusive ==
  \A s \in Sessions, k \in Thread : pc[s][k] \in Inside => pmutex[s] = k

(* A thread about to watch has a name to watch.                             *)
HasPredecessor ==
  \A s \in Sessions, k \in Thread : pc[s][k] = "watch" => less[s] \in Znode

(* Sequence numbers are given out once.                                     *)
Fresh ==
  /\ \A n \in nodes : n.seq < nextSeq
  /\ \A m, n \in nodes : m.seq = n.seq => m = n
  /\ \A s \in Sessions : ownerid[s] # NULL => ownerid[s].seq < nextSeq

(* The first child stays first for as long as it exists.                    *)
OwnerFirst == \A s \in Sessions : ownerid[s] \in nodes => IsFirst(ownerid[s], nodes)

Base == TypeOK /\ Exclusive /\ HasPredecessor /\ Fresh /\ OwnerFirst

(* Every handle knows its session id, so names and owners agree.            *)
Named ==
  /\ connected = Sessions
  /\ \A n \in nodes : n.pre = n.own
  /\ \A s \in Sessions : id[s] # NULL => id[s].pre = s /\ id[s].own = s

(* A thread that is about to create has no child yet.                       *)
CreatesFirst ==
  \A s \in Sessions, k \in Thread :
    pc[s][k] = "create" => prefix[s] = s /\ \A n \in nodes : n.own # s

(* A client in the second half of zkr_lock_operation is in line.            *)
InLine ==
  /\ \A s \in live, k \in Thread :
       pc[s][k] \in {"order", "watch"} => id[s] \in nodes
  /\ \A s \in Sessions, k \in Thread : pc[s][k] = "delete" => rc[s] = "none"
-----------------------------------------------------------------------------
(* Every step is a thread that enters or goes on, or a failure.            *)
LEMMA NextShape ==
  ASSUME Next
  PROVE  \E s \in Sessions :
           \/ \E k \in Thread : EnterLock(s, k) \/ zkr_lock_unlock(s, k) \/ ThreadStep(s, k)
           \/ Environment(s)
<1>1. PICK s \in Sessions :
         \/ zkr_lock_lock(s) \/ lock_watcher_fn(s) \/ Environment(s)
         \/ \E k \in Thread : zkr_lock_unlock(s, k) \/ ThreadStep(s, k)
  BY DEF Next
<1>2. CASE zkr_lock_lock(s)
  BY <1>2, "main" \in Thread DEF zkr_lock_lock, Thread
<1>3. CASE lock_watcher_fn(s)
  BY <1>3, "watch" \in Thread DEF lock_watcher_fn, Thread
<1> QED BY <1>1, <1>2, <1>3

-----------------------------------------------------------------------------
(* The moves of a thread *)

(* Whatever a thread does next, the program counters and counters keep     *)
(* their types.                                                            *)
LEMMA MovesOK ==
  ASSUME ControlOK, NEW s \in Sessions, NEW k \in Thread, NEW l \in Label,
         NEW r \in {"none", "ok", "fail", "released"},
         \/ Goto(s, k, l) \/ Again(s, k, l) \/ LeaveLock(s, k, r) \/ OpFails(s, k)
         \/ LeaveUnlock(s, k, r)
  PROVE  ControlOK'
<1>1. CASE Goto(s, k, l)
  BY <1>1 DEF ControlOK, Goto
<1>2. CASE Again(s, k, l)
  BY <1>2 DEF ControlOK, Again
<1>3. ASSUME NEW q \in {"none", "ok", "fail", "released"}, LeaveLock(s, k, q)
      PROVE  ControlOK'
  BY <1>3, BoundsAssumption DEF ControlOK, LeaveLock, Label
<1>4. CASE OpFails(s, k)
  <2>1. CASE tries[s] + 1 < LockTries
    <3>1. /\ pc'    = [pc EXCEPT ![s][k] = "lookup"]
          /\ count' = [count EXCEPT ![s] = 0]
          /\ tries' = [tries EXCEPT ![s] = tries[s] + 1]
          /\ UNCHANGED <<pmutex, rc>>
      BY <1>4, <2>1 DEF OpFails
    <3>2. tries[s] + 1 \in 0..(LockTries - 1)
      BY <2>1, BoundsAssumption DEF ControlOK
    <3> QED BY <3>1, <3>2 DEF ControlOK, Label
  <2>2. CASE ~(tries[s] + 1 < LockTries)
    BY <1>3, <1>4, <2>2 DEF OpFails
  <2> QED BY <2>1, <2>2
<1>5. CASE LeaveUnlock(s, k, r)
  BY <1>5 DEF ControlOK, LeaveUnlock, Label
<1> QED BY <1>1, <1>2, <1>3, <1>4, <1>5

(* ... and pmutex is held by whoever is inside.                            *)
LEMMA MovesExclusive ==
  ASSUME ControlOK, Exclusive, NEW s \in Sessions, NEW k \in Thread, NEW l \in Inside,
         NEW r, pc[s][k] \in Inside,
         \/ Goto(s, k, l) \/ Again(s, k, l) \/ LeaveLock(s, k, r) \/ OpFails(s, k)
         \/ LeaveUnlock(s, k, r)
  PROVE  Exclusive'
BY NullAssumption DEF ControlOK, Exclusive, Inside, Goto, Again, LeaveLock, OpFails, LeaveUnlock, Label, Thread

-----------------------------------------------------------------------------
(* Type correctness *)

(* The memory of a dead process is of the right type.                      *)
LEMMA DiesTypes ==
  ASSUME TypeOK, NEW s \in Sessions, Dies(s), UNCHANGED service,
         connected' \subseteq Sessions
  PROVE  TypeOK'
<1>1. 0 \in 0..(LockTries - 1)
  BY BoundsAssumption
<1> QED
  BY <1>1 DEF TypeOK, Dies, ServiceOK, NotifyOK, MutexOK, ControlOK, LocalsOK, service, Label

(* A thread's step keeps the types: the calls of zkr_lock_lock.            *)
LEMMA PathTypes ==
  ASSUME TypeOK, NEW s \in Sessions, NEW k \in Thread,
         CheckPath(s, k) \/ MakePath(s, k)
  PROVE  TypeOK'
<1>1. ControlOK'
  <2>1. \E l \in {"exists", "mkpath", "lookup"} : Goto(s, k, l) \/ Again(s, k, l)
    BY DEF CheckPath, MakePath, CheckAgain
  <2> QED BY <2>1, MovesOK DEF TypeOK, Label
<1>2. ServiceOK' /\ NotifyOK' /\ MutexOK' /\ LocalsOK'
  BY DEF TypeOK, CheckPath, MakePath, Lost, Answered, Expired, ServiceOK, NotifyOK,
         MutexOK, LocalsOK, service, notify, mutex, locals
<1> QED BY <1>1, <1>2 DEF TypeOK

(* ... and so do the calls of zkr_lock_operation ...                       *)
LEMMA OperationTypes ==
  ASSUME TypeOK, HasPredecessor, NEW s \in Sessions, NEW k \in Thread,
         \/ LookupNode(s, k) \/ CreateNode(s, k)
         \/ OrderChildren(s, k) \/ WatchPredecessor(s, k)
  PROVE  TypeOK'
<1>1. CASE LookupNode(s, k)
  <2>1. ControlOK'
    <3>1. OpFails(s, k) \/ \E l \in {"lookup", "create", "order"} : Goto(s, k, l) \/ Again(s, k, l)
      BY <1>1 DEF LookupNode, GetChildrenLost
    <3> QED BY <3>1, MovesOK DEF TypeOK, Label
  <2>2. ServiceOK' /\ NotifyOK' /\ MutexOK' /\ LocalsOK'
    BY <1>1 DEF TypeOK, LookupNode, Lost, Answered, Expired, Mine, ServiceOK, NotifyOK,
                MutexOK, LocalsOK, service, notify
  <2> QED BY <2>1, <2>2 DEF TypeOK
<1>2. CASE CreateNode(s, k)
  <2>1. ControlOK'
    <3>1. OpFails(s, k) \/ Goto(s, k, "order")
      BY <1>2 DEF CreateNode
    <3> QED BY <3>1, MovesOK DEF TypeOK, Label
  <2>2. NewNode(s) \in Znode
    BY BoundsAssumption DEF TypeOK, LocalsOK, ServiceOK, NewNode, Znode
  <2>3. ServiceOK' /\ NotifyOK' /\ MutexOK' /\ LocalsOK'
    BY <1>2, <2>2, BoundsAssumption
    DEF TypeOK, CreateNode, AddNode, Lost, Answered, Expired, ServiceOK, NotifyOK,
        MutexOK, LocalsOK, service, notify, locals
  <2> QED BY <2>1, <2>3 DEF TypeOK
<1>3. CASE OrderChildren(s, k)
  <2> DEFINE Empty == nodes = {} /\ Answered(s) /\ Dies(s) /\ UNCHANGED service
  <2>1. CASE Empty
    <3>1. connected' \subseteq Sessions
      BY <2>1 DEF Answered, TypeOK, NotifyOK
    <3> QED BY <2>1, <3>1, DiesTypes
  <2>2. CASE ~Empty
    <3>1. ControlOK'
      <4>1. \/ OpFails(s, k) \/ LeaveLock(s, k, "ok")
            \/ \E l \in {"order", "watch"} : Goto(s, k, l) \/ Again(s, k, l)
        BY <1>3, <2>2 DEF OrderChildren, GetChildrenLost
      <4> QED BY <4>1, MovesOK DEF TypeOK, Label
    <3>2. ServiceOK' /\ NotifyOK' /\ MutexOK' /\ LocalsOK'
      BY <1>3, <2>2 DEF TypeOK, OrderChildren, Lost, Answered, Expired, ServiceOK, NotifyOK,
                  MutexOK, LocalsOK, service, notify, mutex, locals
    <3> QED BY <3>1, <3>2 DEF TypeOK
  <2> QED BY <2>1, <2>2
<1>4. CASE WatchPredecessor(s, k)
  <2>1. ControlOK'
    <3>1. LeaveLock(s, k, "ok") \/ \E l \in {"watch", "giveup"} : Goto(s, k, l) \/ Again(s, k, l)
      BY <1>4 DEF WatchPredecessor
    <3> QED BY <3>1, MovesOK DEF TypeOK, Label
  <2>2. less[s] \in Znode
    BY <1>4 DEF WatchPredecessor, HasPredecessor
  <2>3. ServiceOK' /\ NotifyOK' /\ MutexOK' /\ LocalsOK'
    BY <1>4, <2>2 DEF TypeOK, WatchPredecessor, Lost, Answered, Expired, ServiceOK,
                NotifyOK, MutexOK, LocalsOK, service, mutex
  <2> QED BY <2>1, <2>3 DEF TypeOK
<1> QED BY <1>1, <1>2, <1>3, <1>4

(* ... and the delete of zkr_lock_unlock ...                               *)
LEMMA DeleteTypes ==
  ASSUME TypeOK, NEW s \in Sessions, NEW k \in Thread, DeleteNode(s, k)
  PROVE  TypeOK'
<1>1. ControlOK'
  <2>1. Again(s, k, "delete") \/ \E r \in {"none", "released"} : LeaveUnlock(s, k, r)
    BY DEF DeleteNode, DeleteLost, UnlockFails
  <2> QED BY <2>1, MovesOK DEF TypeOK, Label
<1>2. MutexOK' /\ LocalsOK' /\ connected' \subseteq Sessions
  BY DEF TypeOK, DeleteNode, DeleteLost, UnlockFails, Lost, Answered, Expired, NotifyOK,
         MutexOK, LocalsOK, locals
<1>3. ServiceOK' /\ NotifyOK'
  BY <1>2 DEF TypeOK, DeleteNode, Remove, ServiceOK, NotifyOK, service, notify
<1> QED BY <1>1, <1>2, <1>3 DEF TypeOK

(* ... and the entries of both and the environment.                        *)
LEMMA OtherTypes ==
  ASSUME TypeOK, NEW s \in Sessions,
         \/ zkr_lock_lock(s) \/ lock_watcher_fn(s) \/ Environment(s)
         \/ \E k \in Thread : zkr_lock_unlock(s, k)
  PROVE  TypeOK'
<1>1. ASSUME NEW k \in Thread, EnterLock(s, k), watches' = watches,
             events' \in [Sessions -> SUBSET (Znode \cup {NULL})]
      PROVE  TypeOK'
  BY <1>1 DEF TypeOK, EnterLock, ServiceOK, NotifyOK, MutexOK, ControlOK, LocalsOK,
              service, mutex, locals, Label
<1>2. CASE zkr_lock_lock(s)
  BY <1>1, <1>2 DEF zkr_lock_lock, notify, TypeOK, NotifyOK, Thread
<1>3. CASE lock_watcher_fn(s)
  BY <1>1, <1>3 DEF lock_watcher_fn, TypeOK, NotifyOK, Thread
<1>4. ASSUME NEW k \in Thread, zkr_lock_unlock(s, k) PROVE TypeOK'
  BY <1>4 DEF TypeOK, zkr_lock_unlock, ServiceOK, NotifyOK, MutexOK, ControlOK, LocalsOK,
              service, notify, mutex, locals, Label
<1>5. CASE Crash(s)
  BY <1>5, DiesTypes DEF Crash, TypeOK, NotifyOK
<1>6. CASE Expire(s)
  BY <1>6 DEF TypeOK, Expire, ServiceOK, NotifyOK, MutexOK, ControlOK, LocalsOK,
              mutex, control, locals
<1>7. CASE SessionEvent(s)
  BY <1>7 DEF TypeOK, SessionEvent, ServiceOK, NotifyOK, MutexOK, ControlOK, LocalsOK,
              service, mutex, control, locals
<1> QED BY <1>2, <1>3, <1>4, <1>5, <1>6, <1>7 DEF Environment

(* Every step of the system keeps the types.                               *)
LEMMA TypeStep == TypeOK /\ HasPredecessor /\ [Next]_vars => TypeOK'
<1> SUFFICES ASSUME TypeOK, HasPredecessor, [Next]_vars PROVE TypeOK'
  OBVIOUS
<1>1. CASE UNCHANGED vars
  BY <1>1 DEF vars, service, notify, mutex, control, locals, TypeOK, ServiceOK, NotifyOK,
              MutexOK, ControlOK, LocalsOK
<1>2. CASE Next
  <2>1. PICK s \in Sessions :
           \/ zkr_lock_lock(s) \/ lock_watcher_fn(s) \/ Environment(s)
           \/ \E k \in Thread : zkr_lock_unlock(s, k) \/ ThreadStep(s, k)
    BY <1>2 DEF Next
  <2> QED BY <2>1, PathTypes, OperationTypes, DeleteTypes, OtherTypes DEF ThreadStep
<1> QED BY <1>1, <1>2

-----------------------------------------------------------------------------
(* Control: who is inside, and with what in hand *)

(* A thread's step leaves pmutex with whoever is inside.                   *)
LEMMA ThreadExclusive ==
  ASSUME TypeOK, Exclusive, NEW s \in Sessions, NEW k \in Thread, ThreadStep(s, k)
  PROVE  Exclusive'
<1> USE DEF TypeOK
<1>1. pc[s][k] \in Inside
  BY DEF ThreadStep, CheckPath, MakePath, LookupNode, CreateNode, OrderChildren,
         WatchPredecessor, DeleteNode, Inside, Label
<1>2. \/ \E l \in Inside : Goto(s, k, l) \/ Again(s, k, l)
      \/ OpFails(s, k)
      \/ \E r \in {"ok", "none", "released"} : LeaveLock(s, k, r) \/ LeaveUnlock(s, k, r)
      \/ Dies(s)
  BY DEF ThreadStep, CheckPath, CheckAgain, MakePath, LookupNode, GetChildrenLost,
         CreateNode, OrderChildren, WatchPredecessor, DeleteNode, DeleteLost, UnlockFails,
         Inside, Label
<1>3. CASE Dies(s)
  BY <1>3 DEF Dies, Exclusive, ControlOK, Inside
<1> QED BY <1>1, <1>2, <1>3, MovesExclusive

(* Every step leaves pmutex with the one thread that is inside.            *)
LEMMA ExclusiveStep == TypeOK /\ Exclusive /\ [Next]_vars => Exclusive'
<1> SUFFICES ASSUME TypeOK, Exclusive, [Next]_vars PROVE Exclusive'
  OBVIOUS
<1> USE DEF TypeOK
<1>1. ASSUME NEW s \in Sessions, NEW k \in Thread,
             EnterLock(s, k) \/ zkr_lock_unlock(s, k)
      PROVE  Exclusive'
  BY <1>1, NullAssumption DEF EnterLock, zkr_lock_unlock, Exclusive, ControlOK, Thread
<1>2. ASSUME NEW s \in Sessions, Environment(s) PROVE Exclusive'
  <2>1. CASE Crash(s)
    BY <2>1 DEF Crash, Dies, Exclusive, ControlOK, Inside
  <2>2. CASE UNCHANGED control
    BY <2>2 DEF control, Exclusive
  <2> QED BY <1>2, <2>1, <2>2 DEF Environment, Expire, SessionEvent
<1>3. CASE UNCHANGED vars
  BY <1>3 DEF vars, control, Exclusive
<1> QED BY <1>1, <1>2, <1>3, ThreadExclusive, NextShape

(* A thread that waits for the answer of wexists has a predecessor to watch.*)
LEMMA PredecessorStep ==
  TypeOK /\ Exclusive /\ HasPredecessor /\ [Next]_vars => HasPredecessor'
<1> SUFFICES ASSUME TypeOK, Exclusive, HasPredecessor, [Next]_vars PROVE HasPredecessor'
  OBVIOUS
<1> USE DEF TypeOK
<1>1. ASSUME NEW s \in Sessions, NEW k \in Thread, NEW l, l # "watch",
             pc' = [pc EXCEPT ![s][k] = l], less' = less
      PROVE  HasPredecessor'
  BY <1>1 DEF HasPredecessor, ControlOK
<1>2. ASSUME NEW s \in Sessions, Dies(s) PROVE HasPredecessor'
  BY <1>2 DEF Dies, HasPredecessor, ControlOK, LocalsOK
<1>3. ASSUME NEW s \in Sessions, NEW k \in Thread, ThreadStep(s, k) PROVE HasPredecessor'
  <2>1. CASE CheckPath(s, k) \/ MakePath(s, k)
    BY <1>1, <2>1 DEF CheckPath, CheckAgain, MakePath, Goto, Again, locals
  <2>2. CASE LookupNode(s, k)
    BY <1>1, <2>2 DEF LookupNode, GetChildrenLost, Goto, Again, OpFails, LeaveLock
  <2>3. CASE CreateNode(s, k)
    BY <1>1, <2>3 DEF CreateNode, Goto, OpFails, LeaveLock, locals
  <2>4. CASE OrderChildren(s, k)
    <3>1. ASSUME NEW c \in nodes, less' = [less EXCEPT ![s] = c], Goto(s, k, "watch")
          PROVE  HasPredecessor'
      BY <2>4, <3>1 DEF OrderChildren, HasPredecessor, Exclusive, Goto, Inside, Label,
                  ControlOK, ServiceOK, LocalsOK
    <3>2. CASE LeaveLock(s, k, "ok") /\ UNCHANGED less
      BY <1>1, <3>2 DEF LeaveLock
    <3>3. CASE (GetChildrenLost(s, k, "order") \/ OpFails(s, k)) /\ UNCHANGED locals
      BY <1>1, <3>3 DEF GetChildrenLost, Again, OpFails, LeaveLock, locals
    <3> QED BY <1>2, <2>4, <3>1, <3>2, <3>3 DEF OrderChildren
  <2>5. CASE WatchPredecessor(s, k)
    <3>1. CASE less' = less
      BY <2>5, <3>1 DEF WatchPredecessor, Goto, Again, LeaveLock, HasPredecessor, ControlOK
    <3>2. CASE LeaveLock(s, k, "ok") /\ less' = [less EXCEPT ![s] = NULL]
      <4> SUFFICES ASSUME NEW t \in Sessions, NEW j \in Thread, pc'[t][j] = "watch"
                   PROVE  less'[t] \in Znode
        BY DEF HasPredecessor
      <4>1. t # s
        <5>1. ASSUME t = s PROVE FALSE
          <6>1. j # k /\ pc[s][j] = "watch"
            BY <3>2, <5>1 DEF LeaveLock, ControlOK
          <6>2. pmutex[s] = j /\ pmutex[s] = k
            BY <2>5, <6>1 DEF WatchPredecessor, Exclusive, Inside, Label
          <6> QED BY <6>1, <6>2
        <5> QED BY <5>1
      <4>2. pc[t][j] = "watch" /\ less'[t] = less[t]
        BY <3>2, <4>1 DEF LeaveLock, ControlOK, LocalsOK
      <4> QED BY <4>2 DEF HasPredecessor
    <3> QED BY <2>5, <3>1, <3>2 DEF WatchPredecessor
  <2>6. CASE DeleteNode(s, k)
    BY <1>1, <2>6 DEF DeleteNode, DeleteLost, UnlockFails, LeaveUnlock, Again, locals
  <2> QED BY <1>3, <2>1, <2>2, <2>3, <2>4, <2>5, <2>6 DEF ThreadStep
<1>4. ASSUME NEW s \in Sessions, NEW k \in Thread,
             EnterLock(s, k) \/ zkr_lock_unlock(s, k)
      PROVE  HasPredecessor'
  BY <1>1, <1>4 DEF EnterLock, zkr_lock_unlock, locals
<1>5. ASSUME NEW s \in Sessions, Environment(s) PROVE HasPredecessor'
  BY <1>2, <1>5 DEF Environment, Crash, Expire, SessionEvent, HasPredecessor, control, locals
<1>6. CASE UNCHANGED vars
  BY <1>6 DEF vars, control, locals, HasPredecessor
<1> QED BY <1>3, <1>4, <1>5, <1>6, NextShape

-----------------------------------------------------------------------------
(* The children and the owner *)

(* Children go (unlock, expiry), one comes (create), or a client reads     *)
(* which is the first; a process that dies forgets what it read.           *)
ChildrenGo ==
  /\ nodes' \subseteq nodes /\ nextSeq' = nextSeq
  /\ ownerid' = ownerid \/ \E s \in Sessions : ownerid' = [ownerid EXCEPT ![s] = NULL]

ChildComes ==
  \E s \in Sessions :
    /\ nodes' = nodes \cup {NewNode(s)} /\ nextSeq' = nextSeq + 1
    /\ ownerid' = ownerid

OwnerRead ==
  /\ nodes' = nodes /\ nextSeq' = nextSeq
  /\ \E s \in Sessions, f \in nodes :
       IsFirst(f, nodes) /\ ownerid' = [ownerid EXCEPT ![s] = f]

(* What a step does to the children of the path and to the names a client  *)
(* keeps: nothing, one create, a removal, or a new first child read.       *)
LEMMA ChildrenStep ==
  ASSUME [Next]_vars PROVE ChildrenGo \/ ChildComes \/ OwnerRead
<1>1. ASSUME NEW s \in Sessions, Dies(s), UNCHANGED service PROVE ChildrenGo
  BY <1>1 DEF Dies, ChildrenGo, service
<1>2. ASSUME NEW s \in Sessions, NEW k \in Thread, ThreadStep(s, k)
      PROVE  ChildrenGo \/ ChildComes \/ OwnerRead
  <2>1. CASE CheckPath(s, k) \/ MakePath(s, k) \/ LookupNode(s, k) \/ WatchPredecessor(s, k)
    BY <2>1 DEF CheckPath, MakePath, LookupNode, WatchPredecessor, ChildrenGo, service, mutex
  <2>2. CASE CreateNode(s, k)
    BY <2>2 DEF CreateNode, AddNode, ChildrenGo, ChildComes, service
  <2>3. CASE OrderChildren(s, k)
    BY <1>1, <2>3 DEF OrderChildren, ChildrenGo, OwnerRead, service, mutex
  <2>4. CASE DeleteNode(s, k)
    BY <2>4 DEF DeleteNode, Remove, ChildrenGo, service
  <2> QED BY <1>2, <2>1, <2>2, <2>3, <2>4 DEF ThreadStep
<1>3. ASSUME NEW s \in Sessions, NEW k \in Thread, EnterLock(s, k) \/ zkr_lock_unlock(s, k)
      PROVE  ChildrenGo
  BY <1>3 DEF EnterLock, zkr_lock_unlock, ChildrenGo, service, mutex
<1>4. ASSUME NEW s \in Sessions, Environment(s) PROVE ChildrenGo
  BY <1>1, <1>4 DEF Environment, Crash, Expire, SessionEvent, ChildrenGo, service, mutex
<1>5. CASE UNCHANGED vars
  BY <1>5 DEF vars, service, mutex, ChildrenGo
<1> QED BY <1>2, <1>3, <1>4, <1>5, NextShape

(* The child a client read as the first stays the first as long as it is   *)
(* there: later ones get larger sequence numbers.                          *)
LEMMA OwnerStep ==
  TypeOK /\ Fresh /\ OwnerFirst /\ [Next]_vars => Fresh' /\ OwnerFirst'
<1> SUFFICES ASSUME TypeOK, Fresh, OwnerFirst, [Next]_vars PROVE Fresh' /\ OwnerFirst'
  OBVIOUS
<1> USE DEF TypeOK, ServiceOK, MutexOK
<1>0. nextSeq \in Nat
  BY BoundsAssumption
<1>1. CASE ChildrenGo
  BY <1>0, <1>1, NullAssumption DEF ChildrenGo, Fresh, OwnerFirst, IsFirst, Znode
<1>2. CASE ChildComes
  <2>1. PICK s \in Sessions : /\ nodes' = nodes \cup {NewNode(s)} /\ nextSeq' = nextSeq + 1
                              /\ ownerid' = ownerid
    BY <1>2 DEF ChildComes
  <2>2. NewNode(s).seq = nextSeq
    BY DEF NewNode
  <2>3. Fresh'
    BY <1>0, <2>1, <2>2 DEF Fresh, Znode
  <2>4. OwnerFirst'
    <3> SUFFICES ASSUME NEW t \in Sessions, ownerid[t] \in nodes \cup {NewNode(s)}
                 PROVE  IsFirst(ownerid[t], nodes \cup {NewNode(s)})
      BY <2>1 DEF OwnerFirst
    <3>1. NewNode(s) \in Znode
      BY <1>0 DEF NewNode, Znode, LocalsOK
    <3>2. ownerid[t] # NULL /\ ownerid[t].seq < nextSeq
      BY <3>1, NullAssumption DEF Fresh
    <3>3. ownerid[t] \in nodes
      BY <1>0, <2>2, <3>2
    <3> QED BY <1>0, <2>2, <3>2, <3>3 DEF OwnerFirst, IsFirst, Znode
  <2> QED BY <2>3, <2>4
<1>3. CASE OwnerRead
  BY <1>0, <1>3 DEF OwnerRead, Fresh, OwnerFirst, IsFirst, Znode
<1> QED BY <1>1, <1>2, <1>3, ChildrenStep

-----------------------------------------------------------------------------
(* What holds for any handles *)

(* The base invariant holds before the first call.                         *)
LEMMA BaseInit == Init => Base
<1> SUFFICES ASSUME Init PROVE Base
  OBVIOUS
<1> USE DEF Init
<1>1. TypeOK
  BY SessionsAssumption, BoundsAssumption
  DEF TypeOK, ServiceOK, NotifyOK, MutexOK, ControlOK, LocalsOK, Label
<1>2. Exclusive /\ HasPredecessor
  BY DEF Exclusive, HasPredecessor, Inside
<1>3. Fresh /\ OwnerFirst
  BY DEF Fresh, OwnerFirst
<1> QED BY <1>1, <1>2, <1>3 DEF Base

(* Every step keeps the base invariant.                                    *)
LEMMA BaseStep == Base /\ [Next]_vars => Base'
BY TypeStep, ExclusiveStep, PredecessorStep, OwnerStep DEF Base

(* The base invariant: types, one thread inside, a predecessor to watch,   *)
(* fresh sequence numbers, and a remembered owner that was first.          *)
THEOREM BaseInvariant == Spec => []Base
BY BaseInit, BaseStep, PTL DEF Spec

(* The variables keep their types: zkr_lock_operation is tried at most     *)
(* LockTries times, and a name that is watched was read from a listing.    *)
THEOREM TypeCorrect == Spec => []TypeOK
<1>1. Base => TypeOK
  BY DEF Base
<1> QED BY <1>1, BaseInvariant, PTL

(* Whoever believes to be the owner, and still has its znode, is first,    *)
(* for any number of clients, also ones whose handle connected late.       *)
THEOREM OwnersAreFirst == Spec => []OwnerIsFirst
<1>1. Base => OwnerIsFirst
  BY DEF Base, OwnerFirst, OwnerIsFirst, Holds, zkr_lock_isowner
<1> QED BY <1>1, BaseInvariant, PTL

-----------------------------------------------------------------------------
(* What holds when every handle has connected before it locks *)

Results == {"none", "ok", "fail", "released"}

Moved(s, k, l, r) == pc' = [pc EXCEPT ![s][k] = l] /\ rc' = [rc EXCEPT ![s] = r]

(* The moves of a thread, without the counters.                            *)
LEMMA MovesShape ==
  ASSUME ControlOK, NEW s \in Sessions, NEW k \in Thread
  PROVE  /\ rc[s] \in Results
         /\ \A l \in Label : Goto(s, k, l) \/ Again(s, k, l) => Moved(s, k, l, rc[s])
         /\ OpFails(s, k) => Moved(s, k, "lookup", rc[s]) \/ Moved(s, k, "idle", "fail")
         /\ \A r \in Results : LeaveLock(s, k, r) \/ LeaveUnlock(s, k, r) => Moved(s, k, "idle", r)
BY DEF ControlOK, Results, Goto, Again, OpFails, LeaveLock, LeaveUnlock, Moved

(* The thread inside is alone there.                                       *)
LEMMA Alone ==
  ASSUME Exclusive, NEW s \in Sessions, NEW k \in Thread, pc[s][k] \in Inside,
         NEW j \in Thread, pc[s][j] \in Inside
  PROVE  j = k
BY DEF Exclusive

Tidy == Named /\ OneNodePerSession /\ CreatesFirst /\ InLine /\ OkIsInLine

(* A step of the thread inside that leaves the line as it is.              *)
Quiet(s, k) ==
  /\ nodes' = nodes /\ live' = live /\ connected' = connected
  /\ id' = id /\ prefix' = prefix
  /\ \E l \in Label \ {"create"}, r \in Results :
       /\ Moved(s, k, l, r)
       /\ (l \in {"order", "watch"} \/ r = "ok") /\ s \in live => id[s] \in nodes
       /\ l = "delete" => r = "none"

(* A step that moves a thread and leaves the children alone keeps the line *)
(* tidy.                                                                   *)
LEMMA QuietTidy ==
  ASSUME Base, Tidy, NEW s \in Sessions, NEW k \in Thread, Quiet(s, k),
         \A j \in Thread : j # k => pc[s][j] \notin Inside
  PROVE  Tidy'
<1> USE DEF Base, TypeOK, ControlOK
<1>1. PICK l \in Label \ {"create"}, r \in Results :
         /\ Moved(s, k, l, r)
         /\ (l \in {"order", "watch"} \/ r = "ok") /\ s \in live => id[s] \in nodes
         /\ l = "delete" => r = "none"
  BY DEF Quiet
<1>2. Named' /\ OneNodePerSession'
  BY DEF Quiet, Tidy, Named, OneNodePerSession
<1>3. CreatesFirst'
  BY <1>1 DEF Quiet, Tidy, CreatesFirst, Moved
<1>4. InLine'
  <2>1. \A t \in live', j \in Thread : pc'[t][j] \in {"order", "watch"} => id'[t] \in nodes'
    BY <1>1 DEF Quiet, Tidy, InLine, Moved, ServiceOK
  <2>2. ASSUME NEW t \in Sessions, NEW j \in Thread, pc'[t][j] = "delete"
        PROVE  rc'[t] = "none"
    <3>1. CASE t = s /\ j = k
      BY <1>1, <2>2, <3>1 DEF Moved
    <3>2. CASE t = s /\ j # k
      BY <1>1, <2>2, <3>2 DEF Moved, Inside, Label
    <3>3. CASE t # s
      BY <1>1, <2>2, <3>3 DEF Moved, Tidy, InLine
    <3> QED BY <3>1, <3>2, <3>3
  <2> QED BY <2>1, <2>2 DEF InLine
<1>5. OkIsInLine'
  BY <1>1 DEF Quiet, Tidy, OkIsInLine, Moved, ServiceOK
<1> QED BY <1>2, <1>3, <1>4, <1>5 DEF Tidy

(* A process that dies leaves the line as it is.                           *)
LEMMA DiesTidy ==
  ASSUME Base, Tidy, NEW s \in Sessions, Dies(s), UNCHANGED service, connected' = connected
  PROVE  Tidy'
<1> USE DEF Base, TypeOK, ControlOK, MutexOK, LocalsOK
<1>1. Named' /\ OneNodePerSession'
  BY DEF Dies, service, Tidy, Named, OneNodePerSession
<1>2. CreatesFirst'
  BY DEF Dies, service, Tidy, CreatesFirst
<1>3. InLine' /\ OkIsInLine'
  BY DEF Dies, service, Tidy, InLine, OkIsInLine, ServiceOK
<1> QED BY <1>1, <1>2, <1>3 DEF Tidy

(* Entering changes nothing yet.                                           *)
LEMMA EnterTidy ==
  ASSUME Base, Tidy, NEW s \in Sessions, NEW k \in Thread,
         EnterLock(s, k) \/ zkr_lock_unlock(s, k)
  PROVE  Tidy'
<1>1. \A j \in Thread : pc[s][j] \notin Inside
  BY NullAssumption DEF EnterLock, zkr_lock_unlock, Base, Exclusive
<1>2. Quiet(s, k)
  <2>1. CASE EnterLock(s, k)
    <3>1. Moved(s, k, "exists", rc[s]) /\ rc[s] \in Results
      BY <2>1 DEF EnterLock, Moved, Base, TypeOK, ControlOK, Results
    <3> QED BY <2>1, <3>1 DEF EnterLock, Quiet, Tidy, OkIsInLine, Label, service, mutex, locals
  <2>2. CASE zkr_lock_unlock(s, k)
    <3>1. Moved(s, k, "delete", "none")
      BY <2>2 DEF zkr_lock_unlock, Moved
    <3> QED BY <2>2, <3>1 DEF zkr_lock_unlock, Quiet, Label, Results, service, mutex, locals
  <2> QED BY <2>1, <2>2
<1> QED BY <1>1, <1>2, QuietTidy

(* The child that a client finds under its prefix is its own.              *)
LEMMA LookupTidy ==
  ASSUME Base, Tidy, NEW s \in Sessions, NEW k \in Thread, LookupNode(s, k)
  PROVE  Tidy'
<1> USE DEF Base, TypeOK
<1>1. pc[s][k] = "lookup" /\ \A j \in Thread : j # k => pc[s][j] \notin Inside
  BY Alone DEF LookupNode, Inside, Label
<1>2. connected = Sessions /\ connected' = connected
  BY DEF LookupNode, Lost, Answered, Expired, Tidy, Named
<1>3. CASE (GetChildrenLost(s, k, "lookup") \/ OpFails(s, k)) /\ UNCHANGED <<id, prefix>>
  <2>1. Quiet(s, k)
    BY <1>2, <1>3, MovesShape
    DEF LookupNode, GetChildrenLost, Quiet, Tidy, OkIsInLine, Label, Results, service
  <2> QED BY <1>1, <2>1, QuietTidy
<1>4. CASE /\ s \in live /\ prefix' = [prefix EXCEPT ![s] = s]
           /\ Mine(nodes, s) = {} /\ id' = [id EXCEPT ![s] = NULL] /\ Goto(s, k, "create")
  <2>1. Moved(s, k, "create", rc[s])
    BY <1>4, MovesShape DEF Label
  <2>2. \A n \in nodes : n.own # s
    BY <1>4 DEF Mine, Tidy, Named
  <2>3. rc[s] # "ok"
    BY <1>4, <2>2, NullAssumption DEF Tidy, OkIsInLine, Named, ServiceOK
  <2>4. nodes' = nodes /\ live' = live
    BY DEF LookupNode, service
  <2>5. Named' /\ OneNodePerSession'
    BY <1>2, <1>4, <2>4 DEF Tidy, Named, OneNodePerSession, MutexOK
  <2>6. CreatesFirst'
    BY <1>4, <2>1, <2>2, <2>4 DEF Moved, Tidy, CreatesFirst, ControlOK, LocalsOK
  <2>7. InLine'
    BY <1>1, <1>4, <2>1, <2>4 DEF Moved, Tidy, InLine, Inside, Label, ControlOK, MutexOK, ServiceOK
  <2>8. OkIsInLine'
    BY <1>4, <2>1, <2>3, <2>4 DEF Moved, Tidy, OkIsInLine, ControlOK, MutexOK, ServiceOK
  <2> QED BY <2>5, <2>6, <2>7, <2>8 DEF Tidy
<1>5. ASSUME NEW c \in Mine(nodes, s), prefix' = [prefix EXCEPT ![s] = s],
             id' = [id EXCEPT ![s] = c], Goto(s, k, "order")
      PROVE  Tidy'
  <2>1. Moved(s, k, "order", rc[s])
    BY <1>5, MovesShape DEF Label
  <2>2. c \in nodes /\ c.pre = s /\ c.own = s
    BY <1>5 DEF Mine, Tidy, Named
  <2>4. nodes' = nodes /\ live' = live
    BY DEF LookupNode, service
  <2>5. Named' /\ OneNodePerSession'
    BY <1>2, <1>5, <2>2, <2>4 DEF Tidy, Named, OneNodePerSession, MutexOK
  <2>6. CreatesFirst'
    BY <1>5, <1>1, <2>1, <2>4 DEF Moved, Tidy, CreatesFirst, ControlOK, LocalsOK, Inside, Label
  <2>7. InLine'
    BY <1>1, <1>5, <2>1, <2>2, <2>4 DEF Moved, Tidy, InLine, Inside, Label, ControlOK, MutexOK, ServiceOK
  <2>8. OkIsInLine'
    BY <1>5, <2>1, <2>2, <2>4 DEF Moved, Tidy, OkIsInLine, ControlOK, MutexOK, ServiceOK
  <2> QED BY <2>5, <2>6, <2>7, <2>8 DEF Tidy
<1> QED BY <1>2, <1>3, <1>4, <1>5 DEF LookupNode, Answered

(* A create that takes effect, reported or lost, adds the first child of   *)
(* its session.                                                            *)
LEMMA CreateTidy ==
  ASSUME Base, Tidy, NEW s \in Sessions, NEW k \in Thread, CreateNode(s, k)
  PROVE  Tidy'
<1> USE DEF Base, TypeOK
<1>1. pc[s][k] = "create" /\ \A j \in Thread : j # k => pc[s][j] \notin Inside
  BY Alone DEF CreateNode, Inside, Label
<1>2. connected = Sessions /\ connected' = connected
  BY DEF CreateNode, Lost, Answered, Expired, Tidy, Named
<1>3. CASE OpFails(s, k) /\ UNCHANGED service /\ UNCHANGED id
  <2>1. Quiet(s, k)
    BY <1>2, <1>3, MovesShape
    DEF CreateNode, Quiet, Tidy, OkIsInLine, Label, Results, service, locals
  <2> QED BY <1>1, <2>1, QuietTidy
<1>4. CASE /\ s \in live /\ AddNode(s)
           /\ \/ OpFails(s, k) /\ UNCHANGED id
              \/ Goto(s, k, "order") /\ id' = [id EXCEPT ![s] = NewNode(s)]
  <2> DEFINE new == NewNode(s)
  <2>1. new.pre = s /\ new.own = s
    BY <1>1 DEF NewNode, Tidy, CreatesFirst
  <2>2. nodes' = nodes \cup {new} /\ live' = live /\ prefix' = prefix
    BY <1>4 DEF AddNode, CreateNode, locals
  <2>3. \A n \in nodes : n.own # s
    BY <1>1 DEF Tidy, CreatesFirst
  <2>4. rc[s] # "ok"
    BY <1>4, <2>3, NullAssumption DEF Tidy, OkIsInLine, Named, ServiceOK
  <2>5. \/ UNCHANGED id /\ (Moved(s, k, "lookup", rc[s]) \/ Moved(s, k, "idle", "fail"))
        \/ id' = [id EXCEPT ![s] = new] /\ Moved(s, k, "order", rc[s])
    BY <1>4, MovesShape DEF Label
  <2> HIDE DEF new
  <2>6. Named' /\ OneNodePerSession'
    BY <1>2, <2>1, <2>2, <2>3, <2>5 DEF Tidy, Named, OneNodePerSession, MutexOK
  <2>7. CreatesFirst'
    BY <1>1, <2>1, <2>2, <2>5 DEF Moved, Tidy, CreatesFirst, ControlOK, Inside, Label
  <2>8. InLine'
    <3>1. \A t \in live, j \in Thread : pc'[t][j] \in {"order", "watch"} => id'[t] \in nodes'
      BY <1>1, <2>2, <2>5 DEF Moved, Tidy, InLine, Inside, Label, ControlOK, MutexOK, ServiceOK
    <3>2. ASSUME NEW t \in Sessions, NEW j \in Thread, pc'[t][j] = "delete"
          PROVE  rc'[t] = "none"
      <4>1. pc[t][j] = "delete" /\ t # s
        BY <1>1, <2>5, <3>2 DEF Moved, Inside, Label, ControlOK
      <4> QED BY <2>5, <4>1 DEF Moved, Tidy, InLine, ControlOK
    <3> QED BY <2>2, <3>1, <3>2 DEF InLine
  <2>9. OkIsInLine'
    BY <2>2, <2>4, <2>5 DEF Moved, Tidy, OkIsInLine, ControlOK, MutexOK, ServiceOK
  <2> QED BY <2>6, <2>7, <2>8, <2>9 DEF Tidy
<1> QED BY <1>3, <1>4 DEF CreateNode, Answered

(* The other calls of a thread, except the delete, only read.              *)
LEMMA ReadTidy ==
  ASSUME Base, Tidy, NEW s \in Sessions, NEW k \in Thread,
         \/ CheckPath(s, k) \/ MakePath(s, k)
         \/ OrderChildren(s, k) \/ WatchPredecessor(s, k)
  PROVE  Tidy'
<1> USE DEF Base, TypeOK
<1>1. /\ pc[s][k] \in {"exists", "mkpath", "order", "watch"}
      /\ \A j \in Thread : j # k => pc[s][j] \notin Inside
  BY Alone DEF CheckPath, MakePath, OrderChildren, WatchPredecessor, Inside, Label
<1>2. connected = Sessions /\ connected' = connected
  BY DEF CheckPath, MakePath, OrderChildren, WatchPredecessor, Lost, Answered, Expired, Tidy, Named
<1>3. ControlOK
  OBVIOUS
<1>4. rc[s] = "ok" /\ s \in live => id[s] \in nodes
  BY DEF Tidy, OkIsInLine
<1>5. pc[s][k] \in {"order", "watch"} /\ s \in live => id[s] \in nodes
  BY DEF Tidy, InLine
<1>6. CASE CheckPath(s, k) \/ MakePath(s, k)
  <2>1. \E l \in {"exists", "mkpath", "lookup"} : Moved(s, k, l, rc[s])
    BY <1>3, <1>6, MovesShape DEF CheckPath, MakePath, CheckAgain, Label
  <2>2. Quiet(s, k)
    BY <1>2, <1>3, <1>4, <1>6, <2>1, MovesShape
    DEF CheckPath, MakePath, Quiet, Label, service, mutex, locals
  <2> QED BY <1>1, <2>2, QuietTidy
<1>7. CASE OrderChildren(s, k)
  <2>1. CASE Dies(s)
    BY <1>2, <1>7, <2>1, DiesTidy DEF OrderChildren
  <2>2. CASE ~Dies(s)
    <3>1. \/ \E l \in {"lookup", "order", "watch"} : Moved(s, k, l, rc[s])
          \/ \E r \in {"fail", "ok"} : Moved(s, k, "idle", r)
      BY <1>3, <1>7, <2>2, MovesShape DEF OrderChildren, GetChildrenLost, Label, Results
    <3>2. Quiet(s, k)
      BY <1>2, <1>3, <1>4, <1>5, <1>7, <2>2, <3>1, MovesShape
      DEF OrderChildren, Quiet, Label, Results, service, mutex, locals
    <3> QED BY <1>1, <3>2, QuietTidy
  <2> QED BY <2>1, <2>2
<1>8. CASE WatchPredecessor(s, k)
  <2>1. (\E l \in {"watch", "giveup"} : Moved(s, k, l, rc[s])) \/ Moved(s, k, "idle", "ok")
    BY <1>3, <1>8, MovesShape DEF WatchPredecessor, Label, Results
  <2>2. Quiet(s, k)
    BY <1>2, <1>3, <1>4, <1>5, <1>8, <2>1, MovesShape
    DEF WatchPredecessor, Quiet, Label, Results, service, mutex
  <2> QED BY <1>1, <2>2, QuietTidy
<1> QED BY <1>6, <1>7, <1>8

(* An unlock takes away no child but its own client's.                     *)
LEMMA DeleteTidy ==
  ASSUME Base, Tidy, NEW s \in Sessions, NEW k \in Thread, DeleteNode(s, k)
  PROVE  Tidy'
<1> USE DEF Base, TypeOK
<1>1. pc[s][k] = "delete" /\ \A j \in Thread : j # k => pc[s][j] \notin Inside
  BY Alone DEF DeleteNode, Inside, Label
<1>2. connected = Sessions /\ connected' = connected
  BY DEF DeleteNode, Lost, Answered, Expired, Tidy, Named
<1>3. rc[s] = "none"
  BY <1>1 DEF Tidy, InLine
<1>4. /\ live' = live /\ prefix' = prefix
      /\ nodes' = nodes \/ nodes' = nodes \ {id[s]}
      /\ id' = id \/ id' = [id EXCEPT ![s] = NULL]
  BY DEF DeleteNode, DeleteLost, UnlockFails, Remove, service, locals
<1>5. \/ Moved(s, k, "delete", "none")
      \/ \E r \in {"none", "released"} : Moved(s, k, "idle", r)
  BY <1>3, MovesShape DEF DeleteNode, DeleteLost, UnlockFails, Label, Results
<1>6. Named' /\ OneNodePerSession'
  BY <1>2, <1>4 DEF Tidy, Named, OneNodePerSession, MutexOK
<1>7. CreatesFirst'
  BY <1>1, <1>4, <1>5 DEF Moved, Tidy, CreatesFirst, ControlOK
<1>8. ASSUME NEW t \in Sessions, t # s, id[t] \in nodes
      PROVE  id'[t] \in nodes'
  <2>1. id[t] # id[s]
    BY <1>8, NullAssumption DEF Tidy, Named, ServiceOK
  <2> QED BY <1>4, <1>8, <2>1 DEF MutexOK
<1>9. InLine'
  <2>1. ASSUME NEW t \in live, NEW j \in Thread, pc'[t][j] \in {"order", "watch"}
        PROVE  id'[t] \in nodes'
    <3>1. pc[t][j] \in {"order", "watch"} /\ t # s
      BY <1>1, <1>5, <2>1 DEF Moved, Inside, Label, ControlOK, ServiceOK
    <3> QED BY <1>8, <3>1 DEF Tidy, InLine, ServiceOK
  <2>2. ASSUME NEW t \in Sessions, NEW j \in Thread, pc'[t][j] = "delete"
        PROVE  rc'[t] = "none"
    <3>1. CASE t = s
      <4>1. j = k
        BY <1>1, <1>5, <2>2, <3>1 DEF Moved, ControlOK, Inside, Label
      <4>2. Moved(s, k, "delete", "none")
        BY <1>5, <2>2, <3>1, <4>1 DEF Moved, ControlOK
      <4> QED BY <3>1, <4>2 DEF Moved, ControlOK
    <3>2. CASE t # s
      BY <1>5, <2>2, <3>2 DEF Moved, Tidy, InLine, ControlOK
    <3> QED BY <3>1, <3>2
  <2> QED BY <1>4, <2>1, <2>2 DEF InLine
<1>10. OkIsInLine'
  BY <1>4, <1>5, <1>8 DEF Moved, Tidy, OkIsInLine, ControlOK, ServiceOK
<1> QED BY <1>6, <1>7, <1>9, <1>10 DEF Tidy

(* A session that expires takes its own child with it.                     *)
LEMMA ExpireTidy ==
  ASSUME Base, Tidy, NEW s \in Sessions, Expire(s)
  PROVE  Tidy'
<1> USE DEF Base, TypeOK, ServiceOK
<1>1. /\ connected' = connected /\ id' = id /\ prefix' = prefix /\ pc' = pc /\ rc' = rc
      /\ live' = live \ {s} /\ nodes' = nodes \ {n \in nodes : n.own = s}
  BY DEF Expire, mutex, locals, control
<1>2. Named' /\ OneNodePerSession' /\ CreatesFirst'
  BY <1>1 DEF Tidy, Named, OneNodePerSession, CreatesFirst
<1>3. ASSUME NEW t \in live', id[t] \in nodes PROVE id'[t] \in nodes'
  BY <1>1, <1>3, NullAssumption DEF Tidy, Named
<1>4. InLine' /\ OkIsInLine'
  BY <1>1, <1>3 DEF Tidy, InLine, OkIsInLine
<1> QED BY <1>2, <1>4 DEF Tidy

(* Every step keeps the line tidy.                                         *)
LEMMA TidyStep == Base /\ Tidy /\ [Next]_vars => Tidy'
<1> SUFFICES ASSUME Base, Tidy, [Next]_vars PROVE Tidy'
  OBVIOUS
<1>1. ASSUME NEW s \in Sessions, NEW k \in Thread, ThreadStep(s, k) PROVE Tidy'
  BY <1>1, ReadTidy, LookupTidy, CreateTidy, DeleteTidy DEF ThreadStep
<1>2. ASSUME NEW s \in Sessions, Environment(s) PROVE Tidy'
  <2>1. CASE Crash(s)
    BY <2>1, DiesTidy DEF Crash
  <2>2. CASE SessionEvent(s)
    BY <2>2 DEF SessionEvent, service, mutex, control, locals, Tidy, Named,
                OneNodePerSession, CreatesFirst, InLine, OkIsInLine
  <2> QED BY <1>2, <2>1, <2>2, ExpireTidy DEF Environment
<1>3. CASE UNCHANGED vars
  BY <1>3 DEF vars, service, mutex, control, locals, Tidy, Named, OneNodePerSession,
              CreatesFirst, InLine, OkIsInLine
<1> QED BY <1>1, <1>2, <1>3, EnterTidy, NextShape

(* The line is tidy before the first call, when every handle is connected. *)
LEMMA TidyInit == Early = {} /\ Init => Tidy
BY DEF Init, Tidy, Named, OneNodePerSession, CreatesFirst, InLine, OkIsInLine

(* Each session has one child at most, and a client whose last lock ended  *)
(* with ZOK is in line: the invariant the other results rest on.           *)
THEOREM TidyInvariant == ASSUME Early = {} PROVE Spec => [](Base /\ Tidy)
<1>1. Init => Base /\ Tidy
  BY BaseInit, TidyInit
<1>2. (Base /\ Tidy) /\ [Next]_vars => (Base /\ Tidy)'
  BY BaseStep, TidyStep
<1> QED BY <1>1, <1>2, PTL DEF Spec

(* Mutual exclusion, for any number of clients, retries and lock rounds:   *)
(* both owners would be first, so they would be one child, which has one   *)
(* session.                                                                *)
THEOREM Exclusion == ASSUME Early = {} PROVE Spec => []MutualExclusion
<1>1. Base /\ Tidy => MutualExclusion
  <2> SUFFICES ASSUME Base, Tidy, NEW s \in Sessions, NEW t \in Sessions, Holds(s), Holds(t)
               PROVE  s = t
    BY DEF MutualExclusion
  <2>1. /\ id[s] \in nodes /\ \A d \in nodes : id[s].seq <= d.seq
        /\ id[t] \in nodes /\ \A d \in nodes : id[t].seq <= d.seq
    BY DEF Base, OwnerFirst, Holds, zkr_lock_isowner, IsFirst
  <2>2. id[s].seq \in Nat /\ id[t].seq \in Nat
    BY <2>1 DEF Base, TypeOK, ServiceOK, Znode
  <2>3. id[s] = id[t]
    BY <2>1, <2>2 DEF Base, Fresh
  <2> QED BY <2>3 DEF Tidy, Named, Holds, zkr_lock_isowner
<1> QED BY <1>1, TidyInvariant, PTL

(* A lost create is found again, never repeated.                           *)
THEOREM OneNode == ASSUME Early = {} PROVE Spec => []OneNodePerSession
<1>1. Base /\ Tidy => OneNodePerSession
  BY DEF Tidy
<1> QED BY <1>1, TidyInvariant, PTL

(* A lock that ended with ZOK leaves its client in line.                   *)
THEOREM OkStaysInLine == ASSUME Early = {} PROVE Spec => []OkIsInLine
<1>1. Base /\ Tidy => OkIsInLine
  BY DEF Tidy
<1> QED BY <1>1, TidyInvariant, PTL

-----------------------------------------------------------------------------
(* The lock implements WriteLock *)

Tickets == {[number |-> n.seq, client |-> n.own] : n \in nodes}
Owners  == {s \in Sessions : Holds(s)}

(* The steps of WriteLock, in terms of the children.                       *)
Stutters  == Tickets' = Tickets /\ nextSeq' = nextSeq /\ Owners' = Owners
Enters(s) ==
  /\ \A n \in nodes : n.own # s
  /\ nodes' = nodes \cup {NewNode(s)} /\ nextSeq' = nextSeq + 1 /\ Owners' = Owners
Granted(s) ==
  /\ \E n \in nodes : n.own = s /\ IsFirst(n, nodes)
  /\ Owners' = Owners \cup {s} /\ nodes' = nodes /\ nextSeq' = nextSeq
Leaves(s) ==
  /\ nodes' = {n \in nodes : n.own # s} /\ nextSeq' = nextSeq /\ Owners' = Owners \ {s}
Forgets(s) == nodes' = nodes /\ nextSeq' = nextSeq /\ Owners' = Owners \ {s}

(* Each way a step may look to WriteLock is a step of WriteLock or none.   *)
LEMMA WriteLockStep ==
  ASSUME NEW s \in Sessions,
         Stutters \/ Enters(s) \/ Granted(s) \/ Leaves(s) \/ Forgets(s)
  PROVE  [Lock!QueueNext]_(Lock!lockVars)
<1>1. CASE Stutters
  BY <1>1 DEF Stutters, Tickets, Owners, Lock!lockVars
<1>2. CASE Enters(s)
  <2>1. Lock!Enter(s)
    <3>1. \A t \in Tickets : t.client # s
      BY <1>2 DEF Enters, Tickets
    <3>2. NewNode(s).seq = nextSeq /\ NewNode(s).own = s
      BY DEF NewNode
    <3>3. Tickets' = Tickets \cup {[number |-> nextSeq, client |-> s]}
      BY <1>2, <3>2 DEF Enters, Tickets
    <3> QED BY <1>2, <3>1, <3>3 DEF Enters, Lock!Enter, Owners, Tickets
  <2> QED BY <2>1 DEF Lock!QueueNext
<1>3. CASE Granted(s)
  <2>1. Lock!Grant(s)
    <3>1. PICK n \in nodes : n.own = s /\ \A d \in nodes : n.seq <= d.seq
      BY <1>3 DEF Granted, IsFirst
    <3>2. [number |-> n.seq, client |-> n.own] \in Tickets
      BY DEF Tickets
    <3>3. \A u \in Tickets : n.seq <= u.number
      BY <3>1 DEF Tickets
    <3>4. \E t \in Tickets : t.client = s /\ \A u \in Tickets : t.number <= u.number
      BY <3>1, <3>2, <3>3
    <3>5. Tickets' = Tickets
      BY <1>3 DEF Granted, Tickets
    <3> QED BY <1>3, <3>4, <3>5 DEF Granted, Lock!Grant, Owners, Tickets
  <2> QED BY <2>1 DEF Lock!QueueNext
<1>4. CASE Leaves(s)
  <2>1. Lock!Leave(s)
    BY <1>4 DEF Leaves, Lock!Leave, Owners
  <2> QED BY <2>1 DEF Lock!QueueNext
<1>5. CASE Forgets(s)
  <2>1. Lock!Forget(s)
    BY <1>5 DEF Forgets, Lock!Forget, Owners
  <2> QED BY <2>1 DEF Lock!QueueNext
<1> QED BY <1>1, <1>2, <1>3, <1>4, <1>5

(* Nothing that WriteLock sees changes.                                    *)
LEMMA StuttersWhenUnchanged ==
  ASSUME nodes' = nodes, nextSeq' = nextSeq, id' = id, ownerid' = ownerid
  PROVE  Stutters
BY DEF Stutters, Tickets, Owners, Holds, zkr_lock_isowner

(* A process that dies forgets that it is the owner.                       *)
LEMMA DiesMaps ==
  ASSUME Base, NEW s \in Sessions, Dies(s), nodes' = nodes, nextSeq' = nextSeq
  PROVE  Forgets(s)
<1>1. ~Holds(s)' /\ \A t \in Sessions : t # s => (Holds(t)' <=> Holds(t))
  BY DEF Dies, Base, TypeOK, MutexOK, Holds, zkr_lock_isowner
<1> QED BY <1>1 DEF Forgets, Owners

(* The lookup finds the znode of a client that believes to be the owner,   *)
(* or grants the lock: its name was already read as the first.             *)
LEMMA LookupMaps ==
  ASSUME Base, Tidy, NEW s \in Sessions, NEW k \in Thread, LookupNode(s, k)
  PROVE  Stutters \/ Granted(s)
<1> USE DEF Base, TypeOK, MutexOK
<1>1. nodes' = nodes /\ nextSeq' = nextSeq /\ ownerid' = ownerid
  BY DEF LookupNode, service
<1>2. connected = Sessions
  BY DEF Tidy, Named
<1>3. CASE UNCHANGED id
  BY <1>1, <1>3, StuttersWhenUnchanged
<1>4. CASE id' = [id EXCEPT ![s] = NULL] /\ Mine(nodes, s) = {}
  <2>1. ~Holds(s) /\ ~Holds(s)'
    BY <1>4 DEF Holds, zkr_lock_isowner, Mine, Tidy, Named
  <2>2. \A t \in Sessions : Holds(t)' <=> Holds(t)
    BY <1>1, <1>4, <2>1 DEF Holds, zkr_lock_isowner
  <2> QED BY <1>1, <2>2 DEF Stutters, Tickets, Owners
<1>5. ASSUME NEW c \in Mine(nodes, s), id' = [id EXCEPT ![s] = c] PROVE Stutters \/ Granted(s)
  <2>1. c \in nodes /\ c.own = s
    BY <1>5 DEF Mine, Tidy, Named
  <2>2. \A t \in Sessions : t # s => (Holds(t)' <=> Holds(t))
    BY <1>1, <1>5 DEF Holds, zkr_lock_isowner
  <2>3. Holds(s) => Holds(s)'
    BY <1>1, <1>5, <2>1 DEF Holds, zkr_lock_isowner, Tidy, Named, OneNodePerSession
  <2>4. CASE Holds(s) \/ ~Holds(s)'
    <3>1. \A t \in Sessions : Holds(t)' <=> Holds(t)
      BY <2>2, <2>3, <2>4
    <3> QED BY <1>1, <3>1 DEF Stutters, Tickets, Owners
  <2>5. CASE ~Holds(s) /\ Holds(s)'
    <3>1. ownerid[s] = c
      BY <1>1, <1>5, <2>5 DEF Holds, zkr_lock_isowner
    <3>2. IsFirst(c, nodes)
      BY <2>1, <3>1 DEF OwnerFirst
    <3>3. Owners' = Owners \cup {s}
      BY <2>2, <2>5 DEF Owners
    <3> QED BY <1>1, <2>1, <3>2, <3>3 DEF Granted
  <2> QED BY <2>4, <2>5
<1> QED BY <1>2, <1>3, <1>4, <1>5 DEF LookupNode

(* A create that takes effect takes a ticket.                              *)
LEMMA CreateMaps ==
  ASSUME Base, Tidy, NEW s \in Sessions, NEW k \in Thread, CreateNode(s, k)
  PROVE  Stutters \/ Enters(s)
<1> USE DEF Base, TypeOK, MutexOK
<1>1. CASE UNCHANGED service /\ UNCHANGED id
  BY <1>1, StuttersWhenUnchanged DEF CreateNode, service
<1>2. CASE AddNode(s) /\ (UNCHANGED id \/ id' = [id EXCEPT ![s] = NewNode(s)])
  <2>1. /\ nodes' = nodes \cup {NewNode(s)} /\ nextSeq' = nextSeq + 1 /\ ownerid' = ownerid
    BY <1>2 DEF AddNode, CreateNode
  <2>2. \A n \in nodes : n.own # s
    BY DEF CreateNode, Tidy, CreatesFirst
  <2>3. NewNode(s).own = s /\ NewNode(s).seq = nextSeq /\ nextSeq \in Nat
    BY BoundsAssumption DEF NewNode, ServiceOK
  <2>4. ASSUME NEW t \in Sessions, t # s PROVE Holds(t)' <=> Holds(t)
    <3>1. id'[t] = id[t]
      BY <1>2, <2>4
    <3>2. id[t] # NULL => id[t] # NewNode(s)
      BY <2>3, <2>4 DEF Tidy, Named
    <3> QED BY <2>1, <3>1, <3>2 DEF Holds, zkr_lock_isowner
  <2>5. ~Holds(s)
    BY <2>2 DEF Holds, zkr_lock_isowner, Tidy, Named
  <2>6. ~Holds(s)'
    <3>1. SUFFICES ASSUME id'[s] = ownerid[s], ownerid[s] # NULL, id'[s] \in nodes \cup {NewNode(s)}
                   PROVE  FALSE
      BY <2>1 DEF Holds, zkr_lock_isowner
    <3>2. ownerid[s].seq < nextSeq
      BY <3>1 DEF Fresh
    <3>3. id'[s] # NewNode(s)
      BY <2>3, <3>1, <3>2
    <3>4. id[s] \in nodes /\ id[s] # NULL
      BY <1>2, <3>1, <3>3
    <3> QED BY <2>2, <3>4 DEF Tidy, Named
  <2>7. Owners' = Owners
    BY <2>4, <2>5, <2>6 DEF Owners
  <2> QED BY <2>1, <2>2, <2>7 DEF Enters
<1> QED BY <1>1, <1>2 DEF CreateNode

(* Reading the first child grants the lock to the client that has it.      *)
LEMMA OrderMaps ==
  ASSUME Base, Tidy, NEW s \in Sessions, NEW k \in Thread, OrderChildren(s, k)
  PROVE  Stutters \/ Granted(s) \/ Forgets(s)
<1> USE DEF Base, TypeOK, MutexOK
<1>1. nodes' = nodes /\ nextSeq' = nextSeq
  BY DEF OrderChildren, service
<1>2. CASE Dies(s)
  BY <1>1, <1>2, DiesMaps
<1>3. CASE UNCHANGED mutex
  BY <1>1, <1>3, StuttersWhenUnchanged DEF mutex
<1>4. ASSUME NEW f \in nodes, IsFirst(f, nodes), ownerid' = [ownerid EXCEPT ![s] = f], UNCHANGED id
      PROVE  Stutters \/ Granted(s)
  <2>1. \A t \in Sessions : t # s => (Holds(t)' <=> Holds(t))
    BY <1>1, <1>4 DEF Holds, zkr_lock_isowner
  <2>2. Holds(s)' <=> id[s] = f
    BY <1>1, <1>4, NullAssumption DEF Holds, zkr_lock_isowner, ServiceOK
  <2>3. Holds(s) => id[s] = f
    <3>1. SUFFICES ASSUME Holds(s) PROVE id[s] = f
      OBVIOUS
    <3>2. id[s] \in nodes /\ IsFirst(id[s], nodes)
      BY <3>1 DEF OwnerFirst, Holds, zkr_lock_isowner
    <3>3. id[s].seq \in Nat /\ f.seq \in Nat
      BY <3>2 DEF ServiceOK, Znode
    <3> QED BY <1>4, <3>2, <3>3 DEF IsFirst, Fresh
  <2>4. CASE Holds(s) \/ ~Holds(s)'
    <3>1. \A t \in Sessions : Holds(t)' <=> Holds(t)
      BY <2>1, <2>2, <2>3, <2>4
    <3> QED BY <1>1, <3>1 DEF Stutters, Tickets, Owners
  <2>5. CASE ~Holds(s) /\ Holds(s)'
    <3>1. f.own = s
      BY <1>4, <2>2, <2>5, NullAssumption DEF Tidy, Named, ServiceOK
    <3>2. Owners' = Owners \cup {s}
      BY <2>1, <2>5 DEF Owners
    <3> QED BY <1>1, <1>4, <3>1, <3>2 DEF Granted
  <2> QED BY <2>4, <2>5
<1> QED BY <1>2, <1>3, <1>4 DEF OrderChildren

(* A delete that takes effect, reported or lost, leaves the line; one that *)
(* finds nothing (ZNONODE) changes nothing.                                *)
LEMMA DeleteMaps ==
  ASSUME Base, Tidy, NEW s \in Sessions, NEW k \in Thread, DeleteNode(s, k)
  PROVE  Stutters \/ Leaves(s)
<1> USE DEF Base, TypeOK, MutexOK
<1>1. CASE UNCHANGED service /\ UNCHANGED id
  BY <1>1, StuttersWhenUnchanged DEF DeleteNode, service
<1>2. CASE Remove({id[s]}) /\ (UNCHANGED id \/ id' = [id EXCEPT ![s] = NULL])
  <2>1. nodes' = nodes \ {id[s]} /\ nextSeq' = nextSeq /\ ownerid' = ownerid
    BY <1>2 DEF Remove, DeleteNode
  <2>2. ASSUME NEW t \in Sessions, t # s PROVE Holds(t)' <=> Holds(t)
    <3>1. id[t] # NULL => id[t] # id[s]
      BY <2>2 DEF Tidy, Named
    <3>2. id'[t] = id[t]
      BY <1>2, <2>2
    <3> QED BY <2>1, <3>1, <3>2 DEF Holds, zkr_lock_isowner
  <2>3. ~Holds(s)'
    BY <1>2, <2>1 DEF Holds, zkr_lock_isowner
  <2>4. CASE id[s] \in nodes
    <3>1. id[s] # NULL
      BY <2>4, NullAssumption DEF ServiceOK
    <3>2. nodes' = {n \in nodes : n.own # s}
      BY <2>1, <2>4, <3>1 DEF Tidy, Named, OneNodePerSession
    <3>3. Owners' = Owners \ {s}
      BY <2>2, <2>3 DEF Owners
    <3> QED BY <2>1, <3>2, <3>3 DEF Leaves
  <2>5. CASE id[s] \notin nodes
    <3>1. nodes' = nodes
      BY <2>1, <2>5
    <3>2. ~Holds(s)
      BY <2>5 DEF Holds
    <3>3. Owners' = Owners
      BY <2>2, <2>3, <3>2 DEF Owners
    <3> QED BY <2>1, <3>1, <3>3 DEF Stutters, Tickets
  <2> QED BY <2>4, <2>5
<1> QED BY <1>1, <1>2 DEF DeleteNode, DeleteLost, UnlockFails

(* A session that expires leaves the line.                                 *)
LEMMA ExpireMaps ==
  ASSUME Base, Tidy, NEW s \in Sessions, Expire(s)
  PROVE  Leaves(s)
<1> USE DEF Base, TypeOK, MutexOK
<1>1. /\ nodes' = {n \in nodes : n.own # s} /\ nextSeq' = nextSeq
      /\ id' = id /\ ownerid' = ownerid
  BY DEF Expire, mutex
<1>2. ~Holds(s)' /\ \A t \in Sessions : t # s => (Holds(t)' <=> Holds(t))
  BY <1>1 DEF Holds, zkr_lock_isowner, Tidy, Named
<1>3. Owners' = Owners \ {s}
  BY <1>2 DEF Owners
<1> QED BY <1>1, <1>3 DEF Leaves

(* zoo_lock.c implements the write lock that zoo_lock.h promises, for any  *)
(* number of clients, through lost replies, crashes and expiries.          *)
THEOREM Refinement == ASSUME Early = {} PROVE Spec => ImplementsWriteLock
<1>1. Init => Lock!QueueInit
  BY DEF Init, Lock!QueueInit, Holds, zkr_lock_isowner
<1>2. (Base /\ Tidy) /\ [Next]_vars => [Lock!QueueNext]_(Lock!lockVars)
  <2> SUFFICES ASSUME Base, Tidy, [Next]_vars PROVE [Lock!QueueNext]_(Lock!lockVars)
    OBVIOUS
  <2>1. ASSUME Stutters PROVE [Lock!QueueNext]_(Lock!lockVars)
    BY <2>1 DEF Stutters, Tickets, Owners, Lock!lockVars
  <2>2. ASSUME NEW s \in Sessions, NEW k \in Thread, ThreadStep(s, k)
        PROVE  [Lock!QueueNext]_(Lock!lockVars)
    <3>1. CASE CheckPath(s, k) \/ MakePath(s, k) \/ WatchPredecessor(s, k)
      BY <2>1, <3>1, StuttersWhenUnchanged
      DEF CheckPath, MakePath, WatchPredecessor, service, mutex
    <3> QED BY <2>2, <3>1, LookupMaps, CreateMaps, OrderMaps, DeleteMaps, WriteLockStep DEF ThreadStep
  <2>3. ASSUME NEW s \in Sessions, NEW k \in Thread, EnterLock(s, k) \/ zkr_lock_unlock(s, k)
        PROVE  [Lock!QueueNext]_(Lock!lockVars)
    BY <2>1, <2>3, StuttersWhenUnchanged DEF EnterLock, zkr_lock_unlock, service, mutex
  <2>4. ASSUME NEW s \in Sessions, Environment(s)
        PROVE  [Lock!QueueNext]_(Lock!lockVars)
    <3>1. CASE Crash(s)
      BY <3>1, DiesMaps, WriteLockStep DEF Crash, service
    <3>2. CASE Expire(s)
      BY <3>2, ExpireMaps, WriteLockStep
    <3>3. CASE SessionEvent(s)
      BY <2>1, <3>3, StuttersWhenUnchanged DEF SessionEvent, service, mutex
    <3> QED BY <2>4, <3>1, <3>2, <3>3 DEF Environment
  <2>5. CASE UNCHANGED vars
    BY <2>1, <2>5, StuttersWhenUnchanged DEF vars, service, mutex
  <2> QED BY <2>2, <2>3, <2>4, <2>5, NextShape
<1> QED BY <1>1, <1>2, TidyInvariant, PTL DEF Spec, ImplementsWriteLock, Lock!QueueSpec
=============================================================================
