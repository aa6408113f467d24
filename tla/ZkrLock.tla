------------------------------- MODULE ZkrLock -------------------------------
(***************************************************************************)
(* The lock recipe of zoo_lock.c: clients of one lock path, each with one  *)
(* zkr_lock_mutex_t on its own ZooKeeper session.  A client has two        *)
(* threads: "main" calls zkr_lock_lock and zkr_lock_unlock, "watch" is the *)
(* completion thread of the multi-threaded client library and runs         *)
(* lock_watcher_fn, which calls zkr_lock_lock on the same mutex.           *)
(*                                                                         *)
(* One action is one zoo_* call together with the local code up to the     *)
(* next call, so the steps of clients and threads interleave wherever the  *)
(* code waits for the service.  A call may always lose its connection; a   *)
(* call that writes may then have taken effect or not, by the time it      *)
(* returns.  A session may expire and a process may crash at any time.     *)
(***************************************************************************)
EXTENDS Integers

CONSTANTS
  Sessions,     \* the clients, each named by the id of its session
  Early,        \* clients whose handle was never connected before their first lock
  MaxNodes,     \* bound: sequential znodes ever created under the path
  PathTries,    \* 4 in the code: further tries of the path check
  LockTries,    \* 4 in the code: tries of zkr_lock_operation
  Retry,        \* 3 in the code: tries of get_children and of wexists
  UnlockTries,  \* 3 in the code: tries of the delete
  NULL

ASSUME SessionsAssumption == Sessions \subseteq Nat \ {0} /\ Early \subseteq Sessions

ASSUME BoundsAssumption ==
  /\ MaxNodes \in Nat
  /\ PathTries \in Nat
  /\ LockTries \in Nat \ {0} /\ Retry \in Nat \ {0} /\ UnlockTries \in Nat \ {0}

Thread == {"main", "watch"}

(***************************************************************************)
(* A child "x-<session>-<sequence>" of the lock path.  pre is the session  *)
(* id in its name, seq the sequence number the service appended, own its   *)
(* ephemeral owner, which the client code never looks at.                  *)
(***************************************************************************)
Znode == [pre : Sessions \cup {0}, seq : Nat, own : Sessions]

ASSUME NullAssumption == NULL \notin Znode /\ NULL \notin Thread

VARIABLES
  path,      \* service: does the lock path exist
  nodes,     \* service: its children
  nextSeq,   \* service: the next sequence number
  live,      \* service: sessions that have not expired
  watches,   \* service: children each client has an exists watch on
  events,    \* client library: watch events not yet delivered, NULL a session event
  connected, \* client library: handles that know their session id
  id,        \* mutex->id
  ownerid,   \* mutex->ownerid
  pmutex,    \* mutex->pmutex: the thread that holds it, or NULL
  told,      \* the last rc given to mutex->completion, "released" before the first
  pc,        \* where each thread stands
  count,     \* the retry counter of the loop the holder of pmutex is in
  tries,     \* count of zkr_lock_lock's second loop
  prefix,    \* prefix of zkr_lock_operation, the session id in it
  less,      \* lessthanme of zkr_lock_operation
  rc         \* history: how the last lock or unlock on the mutex ended

service == <<path, nodes, nextSeq, live>>
notify  == <<watches, events>>
mutex   == <<id, ownerid, told>>
control == <<pc, pmutex, count, tries, rc>>
locals  == <<prefix, less>>
vars    == <<service, notify, connected, mutex, control, locals>>

Label == {"idle", "exists", "mkpath", "lookup", "create", "order", "watch",
          "giveup", "delete", "dead"}

ServiceOK ==
  /\ path \in BOOLEAN
  /\ nodes \subseteq Znode
  /\ nextSeq \in 0..MaxNodes
  /\ live \subseteq Sessions

NotifyOK ==
  /\ watches \in [Sessions -> SUBSET Znode]
  /\ events \in [Sessions -> SUBSET (Znode \cup {NULL})]
  /\ connected \subseteq Sessions

MutexOK ==
  /\ id \in [Sessions -> Znode \cup {NULL}]
  /\ ownerid \in [Sessions -> Znode \cup {NULL}]
  /\ told \in [Sessions -> {"acquired", "released"}]

ControlOK ==
  /\ pc \in [Sessions -> [Thread -> Label]]
  /\ pmutex \in [Sessions -> Thread \cup {NULL}]
  /\ count \in [Sessions -> Nat]
  /\ tries \in [Sessions -> 0..(LockTries - 1)]
  /\ rc \in [Sessions -> {"none", "ok", "fail", "released"}]

LocalsOK ==
  /\ prefix \in [Sessions -> Sessions \cup {0}]
  /\ less \in [Sessions -> Znode \cup {NULL}]

(* The values of the variables; zkr_lock_operation is tried LockTries times *)
(* and the client library never watches a name it was not given.            *)
TypeOK == ServiceOK /\ NotifyOK /\ MutexOK /\ ControlOK /\ LocalsOK

-----------------------------------------------------------------------------
(* The order of names *)

(* strcmp on two names: the session id is padded to 16 hex digits and comes *)
(* first, so it decides before the sequence number does.                    *)
StrLess(a, b) == a.pre < b.pre \/ (a.pre = b.pre /\ a.seq < b.seq)

(* Mutant of IsFirst: qsort with strcmp on whole names.                     *)
IsFirstByName(c, C) == c \in C /\ \A d \in C : ~StrLess(d, c)

(* sort_children and data[0]: vstrcmp compares what follows the last '-'.   *)
IsFirst(c, C) == c \in C /\ \A d \in C : c.seq <= d.seq

(* child_floor: the last element, in the order of sort_children, whose name *)
(* strcmp puts below that of element e; no such element when C has none.    *)
IsFloor(c, C, e) ==
  /\ c \in C /\ StrLess(c, e)
  /\ \A d \in C : StrLess(d, e) => d.seq <= c.seq

HasFloor(C, e) == \E c \in C : StrLess(c, e)

(* Mutant of Mine: the child of an earlier try is not looked for.           *)
MineForgotten(C, x) == {}

(* lookupnode: a child whose name starts with the prefix of session x.      *)
Mine(C, x) == {c \in C : c.pre = x}

zkr_lock_isowner(s) ==
  id[s] # NULL /\ ownerid[s] # NULL /\ id[s] = ownerid[s]

-----------------------------------------------------------------------------
(* What a call on the handle of s may answer *)

Lost(s)     == UNCHANGED connected
Answered(s) == s \in live /\ connected' = connected \cup {s}
Expired(s)  == s \notin live /\ UNCHANGED connected

(* The znodes of R disappear and the clients that watch them get an event.  *)
Remove(R) ==
  /\ nodes'   = nodes \ R
  /\ watches' = [s \in Sessions |-> watches[s] \ R]
  /\ events'  = [s \in Sessions |-> events[s] \cup (watches[s] \cap R)]
  /\ UNCHANGED <<path, nextSeq, live>>

(* zoo_create with ZOO_EPHEMERAL|ZOO_SEQUENCE by session s.                 *)
NewNode(s) == [pre |-> prefix[s], seq |-> nextSeq, own |-> s]

AddNode(s) ==
  /\ path /\ nextSeq < MaxNodes
  /\ nodes' = nodes \cup {NewNode(s)}
  /\ nextSeq' = nextSeq + 1
  /\ UNCHANGED <<path, live>>

-----------------------------------------------------------------------------
(* Moves of the thread k of s; each settles the variables of control *)

Goto(s, k, l) ==
  /\ pc'    = [pc EXCEPT ![s][k] = l]
  /\ count' = [count EXCEPT ![s] = 0]
  /\ UNCHANGED <<pmutex, tries, rc>>

Again(s, k, l) ==
  /\ pc'    = [pc EXCEPT ![s][k] = l]
  /\ count' = [count EXCEPT ![s] = @ + 1]
  /\ UNCHANGED <<pmutex, tries, rc>>

(* zkr_lock_lock releases pmutex and returns zkr_lock_isowner, evaluated    *)
(* without it.  That read may crash on an id that the other thread frees,   *)
(* which is one of the moments of Crash.                                    *)
LeaveLock(s, k, r) ==
  /\ pc'     = [pc EXCEPT ![s][k] = "idle"]
  /\ pmutex' = [pmutex EXCEPT ![s] = NULL]
  /\ count'  = [count EXCEPT ![s] = 0]
  /\ tries'  = [tries EXCEPT ![s] = 0]
  /\ rc'     = [rc EXCEPT ![s] = r]

(* Mutant of OpFails: one try too many.                                     *)
OpFailsLate(s, k) ==
  IF tries[s] + 1 <= LockTries
  THEN /\ pc'    = [pc EXCEPT ![s][k] = "lookup"]
       /\ count' = [count EXCEPT ![s] = 0]
       /\ tries' = [tries EXCEPT ![s] = @ + 1]
       /\ UNCHANGED <<pmutex, rc>>
  ELSE LeaveLock(s, k, "fail")

(* Mutant of OpFails: count++ is missing.                                   *)
OpFailsUncounted(s, k) ==
  IF tries[s] + 1 < LockTries
  THEN Goto(s, k, "lookup")
  ELSE LeaveLock(s, k, "fail")

(* zkr_lock_operation returned an error: it is called again LockTries times *)
(* in all.                                                                  *)
OpFails(s, k) ==
  IF tries[s] + 1 < LockTries
  THEN /\ pc'    = [pc EXCEPT ![s][k] = "lookup"]
       /\ count' = [count EXCEPT ![s] = 0]
       /\ tries' = [tries EXCEPT ![s] = @ + 1]
       /\ UNCHANGED <<pmutex, rc>>
  ELSE LeaveLock(s, k, "fail")

(* A connection loss inside retry_getchildren.                              *)
GetChildrenLost(s, k, l) ==
  IF count[s] + 1 < Retry THEN Again(s, k, l) ELSE OpFails(s, k)

(* The loop on exists in zkr_lock_lock, after a ZCONNECTIONLOSS or ZNONODE. *)
CheckAgain(s, k, l) ==
  IF count[s] < PathTries THEN Again(s, k, l) ELSE Goto(s, k, "lookup")

-----------------------------------------------------------------------------
(* zkr_lock_lock *)

(* Thread k calls zkr_lock_lock and is let through pthread_mutex_lock.  A   *)
(* call that still waits there has changed nothing and is not a state.      *)
EnterLock(s, k) ==
  /\ pc[s][k] = "idle"
  /\ pmutex[s] = NULL
  /\ pmutex' = [pmutex EXCEPT ![s] = k]
  /\ pc' = [pc EXCEPT ![s][k] = "exists"]
  /\ UNCHANGED <<service, connected, mutex, count, tries, rc, locals>>

zkr_lock_lock(s) == EnterLock(s, "main") /\ UNCHANGED notify

(* The completion thread delivers an event and lock_watcher_fn, whatever    *)
(* the event is, calls zkr_lock_lock.                                       *)
lock_watcher_fn(s) ==
  /\ \E e \in events[s] : events' = [events EXCEPT ![s] = @ \ {e}]
  /\ EnterLock(s, "watch")
  /\ UNCHANGED watches

(* zoo_exists on the lock path.                                             *)
CheckPath(s, k) ==
  /\ pc[s][k] = "exists"
  /\ \/ Lost(s) /\ CheckAgain(s, k, "exists")
     \/ Expired(s) /\ Goto(s, k, "lookup")
     \/ Answered(s) /\ path /\ Goto(s, k, "lookup")
     \/ Answered(s) /\ ~path /\ CheckAgain(s, k, "mkpath")
  /\ UNCHANGED <<service, notify, mutex, locals>>

(* zoo_create of the lock path; ZNODEEXISTS ends the loop as ZOK does.      *)
MakePath(s, k) ==
  /\ pc[s][k] = "mkpath"
  /\ \/ Lost(s) /\ CheckAgain(s, k, "exists") /\ UNCHANGED path
     \/ Answered(s) /\ CheckAgain(s, k, "exists") /\ path' = TRUE
     \/ Expired(s) /\ Goto(s, k, "lookup") /\ UNCHANGED path
     \/ Answered(s) /\ Goto(s, k, "lookup") /\ path' = TRUE
  /\ UNCHANGED <<nodes, nextSeq, live, notify, mutex, locals>>

-----------------------------------------------------------------------------
(* zkr_lock_operation *)

(* The session id is read, the children are listed and mutex->id becomes    *)
(* the child found under the prefix, or NULL.                               *)
LookupNode(s, k) ==
  /\ pc[s][k] = "lookup"
  /\ \/ Lost(s) /\ GetChildrenLost(s, k, "lookup") /\ UNCHANGED <<id, prefix>>
     \/ Expired(s) /\ OpFails(s, k) /\ UNCHANGED <<id, prefix>>
     \/ Answered(s) /\ ~path /\ OpFails(s, k) /\ UNCHANGED <<id, prefix>>
     \/ /\ Answered(s) /\ path
        /\ LET x == IF s \in connected THEN s ELSE 0 IN
           /\ prefix' = [prefix EXCEPT ![s] = x]
           /\ \/ /\ Mine(nodes, x) = {}
                 /\ id' = [id EXCEPT ![s] = NULL]
                 /\ Goto(s, k, "create")
              \/ \E c \in Mine(nodes, x) :
                 /\ id' = [id EXCEPT ![s] = c]
                 /\ Goto(s, k, "order")
  /\ UNCHANGED <<service, notify, ownerid, told, less>>

(* zoo_create of the client's own child; it is not retried here.            *)
CreateNode(s, k) ==
  /\ pc[s][k] = "create"
  /\ \/ Lost(s) /\ OpFails(s, k) /\ UNCHANGED <<service, id>>
     \/ Answered(s) /\ AddNode(s) /\ OpFails(s, k) /\ UNCHANGED id
     \/ Expired(s) /\ OpFails(s, k) /\ UNCHANGED <<service, id>>
     \/ /\ Answered(s) /\ AddNode(s)
        /\ id' = [id EXCEPT ![s] = NewNode(s)]
        /\ Goto(s, k, "order")
  /\ UNCHANGED <<notify, ownerid, told, locals>>

(* The process of s is gone and its memory with it; its session, and the    *)
(* znode of the session, live on until the session expires.                 *)
Dies(s) ==
  /\ pc'      = [pc EXCEPT ![s] = [k \in Thread |-> "dead"]]
  /\ pmutex'  = [pmutex EXCEPT ![s] = NULL]
  /\ count'   = [count EXCEPT ![s] = 0]
  /\ tries'   = [tries EXCEPT ![s] = 0]
  /\ rc'      = [rc EXCEPT ![s] = "none"]
  /\ id'      = [id EXCEPT ![s] = NULL]
  /\ ownerid' = [ownerid EXCEPT ![s] = NULL]
  /\ told'    = [told EXCEPT ![s] = "released"]
  /\ prefix'  = [prefix EXCEPT ![s] = 0]
  /\ less'    = [less EXCEPT ![s] = NULL]
  /\ watches' = [watches EXCEPT ![s] = {}]
  /\ events'  = [events EXCEPT ![s] = {}]

(* The children are listed again and sorted: the first is the owner, the    *)
(* floor of our own name is the predecessor to watch.  vector->data[0] of   *)
(* an empty list is not there to be read.                                   *)
OrderChildren(s, k) ==
  /\ pc[s][k] = "order"
  /\ \/ Lost(s) /\ GetChildrenLost(s, k, "order") /\ UNCHANGED <<notify, mutex, locals>>
     \/ Expired(s) /\ OpFails(s, k) /\ UNCHANGED <<notify, mutex, locals>>
     \/ Answered(s) /\ nodes = {} /\ Dies(s)
     \/ /\ Answered(s)
        /\ \E f \in nodes :
           /\ IsFirst(f, nodes)
           /\ ownerid' = [ownerid EXCEPT ![s] = f]
           /\ \/ /\ ~HasFloor(nodes, id[s])
                 /\ told' = [told EXCEPT ![s] = IF id[s] = f THEN "acquired" ELSE @]
                 /\ LeaveLock(s, k, "ok")
                 /\ UNCHANGED less
              \/ \E c \in nodes :
                 /\ IsFloor(c, nodes, id[s])
                 /\ less' = [less EXCEPT ![s] = c]
                 /\ Goto(s, k, "watch")
                 /\ UNCHANGED told
        /\ UNCHANGED <<notify, id, prefix>>
  /\ UNCHANGED service

(* zoo_wexists on the predecessor: an answer leaves a watch, also on a name *)
(* that is gone.  On any error, ZNONODE for a predecessor that has gone in  *)
(* the meantime included, the operation calls zkr_lock_unlock.              *)
WatchPredecessor(s, k) ==
  /\ pc[s][k] = "watch"
  /\ \/ /\ Lost(s)
        /\ IF count[s] + 1 < Retry THEN Again(s, k, "watch") ELSE Goto(s, k, "giveup")
        /\ UNCHANGED <<watches, less>>
     \/ Expired(s) /\ Goto(s, k, "giveup") /\ UNCHANGED <<watches, less>>
     \/ /\ Answered(s)
        /\ watches' = [watches EXCEPT ![s] = @ \cup {less[s]}]
        /\ \/ less[s] \notin nodes /\ Goto(s, k, "giveup") /\ UNCHANGED less
           \/ /\ less[s] \in nodes
              /\ less' = [less EXCEPT ![s] = NULL]
              /\ LeaveLock(s, k, "ok")
  /\ UNCHANGED <<service, events, mutex, prefix>>

-----------------------------------------------------------------------------
(* zkr_lock_unlock *)

(* zkr_lock_unlock up to its zoo_delete: without an id it returns           *)
(* ZSYSTEMERROR.  A thread at giveup makes the same call from inside        *)
(* zkr_lock_operation, where it holds pmutex already, and waits for itself: *)
(* only another zkr_lock_init could free it, which ZkSession models.        *)
zkr_lock_unlock(s, k) ==
  /\ (k = "main" /\ pc[s][k] = "idle") \/ pc[s][k] = "giveup"
  /\ pmutex[s] = NULL
  /\ id[s] # NULL
  /\ pc' = [pc EXCEPT ![s][k] = "delete"]
  /\ pmutex' = [pmutex EXCEPT ![s] = k]
  /\ rc' = [rc EXCEPT ![s] = "none"]
  /\ UNCHANGED <<service, notify, connected, mutex, count, tries, locals>>

(* zkr_lock_unlock gives up: the id stays, ZCONNECTIONLOSS is returned.     *)
LeaveUnlock(s, k, r) ==
  /\ pc'     = [pc EXCEPT ![s][k] = "idle"]
  /\ pmutex' = [pmutex EXCEPT ![s] = NULL]
  /\ count'  = [count EXCEPT ![s] = 0]
  /\ rc'     = [rc EXCEPT ![s] = r]
  /\ UNCHANGED tries

UnlockFails(s, k) == LeaveUnlock(s, k, "none") /\ UNCHANGED <<id, told>>

DeleteLost(s, k) ==
  IF count[s] + 1 < UnlockTries
  THEN Again(s, k, "delete") /\ UNCHANGED <<id, told>>
  ELSE UnlockFails(s, k)

(* Mutant of DeleteNode: the name comes from zkr_lock_getid, the owner's.   *)
DeleteOwner(s, k) ==
  /\ pc[s][k] = "delete"
  /\ \/ Lost(s) /\ DeleteLost(s, k) /\ UNCHANGED <<service, notify>>
     \/ Expired(s) /\ UnlockFails(s, k) /\ UNCHANGED <<service, notify>>
     \/ /\ Answered(s) /\ Remove({ownerid[s]})
        /\ told' = [told EXCEPT ![s] = "released"]
        /\ id'   = [id EXCEPT ![s] = NULL]
        /\ LeaveUnlock(s, k, "released")
  /\ UNCHANGED <<ownerid, locals>>

(* zoo_delete of our own child: ZOK and ZNONODE both release the lock.      *)
DeleteNode(s, k) ==
  /\ pc[s][k] = "delete"
  /\ \/ Lost(s) /\ DeleteLost(s, k) /\ UNCHANGED <<service, notify>>
     \/ Answered(s) /\ Remove({id[s]}) /\ DeleteLost(s, k)
     \/ Expired(s) /\ UnlockFails(s, k) /\ UNCHANGED <<service, notify>>
     \/ /\ Answered(s) /\ Remove({id[s]})
        /\ told' = [told EXCEPT ![s] = "released"]
        /\ id'   = [id EXCEPT ![s] = NULL]
        /\ LeaveUnlock(s, k, "released")
  /\ UNCHANGED <<ownerid, locals>>

-----------------------------------------------------------------------------
(* The environment *)

Crash(s) ==
  /\ pc[s]["main"] # "dead"
  /\ Dies(s)
  /\ UNCHANGED <<service, connected>>

(* The service drops a session and its ephemeral znodes.                    *)
Expire(s) ==
  LET R == {n \in nodes : n.own = s} IN
  /\ s \in live /\ s \in connected
  /\ live' = live \ {s}
  /\ nodes' = nodes \ R
  /\ watches' = [u \in Sessions |-> IF u = s THEN {} ELSE watches[u] \ R]
  /\ events' = [u \in Sessions |->
                  IF u = s THEN events[u] \cup {NULL : w \in watches[u]}
                  ELSE events[u] \cup (watches[u] \cap R)]
  /\ UNCHANGED <<path, nextSeq, connected, mutex, control, locals>>

(* The connection of s drops or comes back: every watch the client library  *)
(* keeps is called with a session event, and kept.                          *)
SessionEvent(s) ==
  /\ s \in live /\ watches[s] # {} /\ NULL \notin events[s]
  /\ events' = [events EXCEPT ![s] = @ \cup {NULL}]
  /\ UNCHANGED <<service, watches, connected, mutex, control, locals>>

-----------------------------------------------------------------------------

Init ==
  /\ path \in BOOLEAN   \* the path is persistent: an earlier client may have made it
  /\ nodes = {} /\ nextSeq = 0 /\ live = Sessions
  /\ watches = [s \in Sessions |-> {}] /\ events = [s \in Sessions |-> {}]
  /\ connected = Sessions \ Early
  /\ id = [s \in Sessions |-> NULL] /\ ownerid = [s \in Sessions |-> NULL]
  /\ told = [s \in Sessions |-> "released"]
  /\ pmutex = [s \in Sessions |-> NULL]
  /\ pc = [s \in Sessions |-> [k \in Thread |-> "idle"]]
  /\ count = [s \in Sessions |-> 0] /\ tries = [s \in Sessions |-> 0]
  /\ prefix = [s \in Sessions |-> 0] /\ less = [s \in Sessions |-> NULL]
  /\ rc = [s \in Sessions |-> "none"]

(* Steps a thread takes once it may run.                                    *)
ThreadStep(s, k) ==
  \/ CheckPath(s, k) \/ MakePath(s, k)
  \/ LookupNode(s, k) \/ CreateNode(s, k) \/ OrderChildren(s, k)
  \/ WatchPredecessor(s, k) \/ DeleteNode(s, k)

Environment(s) == Crash(s) \/ Expire(s) \/ SessionEvent(s)

Next ==
  \E s \in Sessions :
    \/ zkr_lock_lock(s) \/ lock_watcher_fn(s)
    \/ \E k \in Thread : zkr_lock_unlock(s, k) \/ ThreadStep(s, k)
    \/ Environment(s)

Spec == Init /\ [][Next]_vars

(* A thread inside zkr_lock_lock or zkr_lock_unlock goes on: a synchronous  *)
(* call of the client library returns, at the latest with a timeout.  A     *)
(* free pthread mutex that stays free is taken.  Nothing makes the user     *)
(* call again, an event arrive or a session expire.                         *)
Fairness ==
  \A s \in Sessions, k \in Thread :
    WF_vars(ThreadStep(s, k) \/ (pc[s][k] = "giveup" /\ zkr_lock_unlock(s, k)))

FairSpec == Spec /\ Fairness

-----------------------------------------------------------------------------
(* What holds *)

Holds(s) == zkr_lock_isowner(s) /\ id[s] \in nodes

(***************************************************************************)
(* A client that believes it is the owner, and whose znode still exists,   *)
(* has the first of all children: what zkr_lock_operation concluded from a *)
(* list of children is not undone by later creates, deletes and expiries.  *)
(***************************************************************************)
OwnerIsFirst == \A s \in Sessions : Holds(s) => IsFirst(id[s], nodes)

(***************************************************************************)
(* Two clients whose zkr_lock_isowner is true never both have a znode in   *)
(* the service: mutual exclusion, as the service sees it.                  *)
(***************************************************************************)
MutualExclusion == \A s, t \in Sessions : Holds(s) /\ Holds(t) => s = t

(***************************************************************************)
(* A session never has two children, however often its create was lost     *)
(* after it took effect: the lookup of the next zkr_lock_operation finds   *)
(* the first one ("we would end up creating more than one child").         *)
(***************************************************************************)
OneNodePerSession == \A a, b \in nodes : a.own = b.own => a = b

(***************************************************************************)
(* After a zkr_lock_lock that ended with ZOK the client stays in line      *)
(* until it unlocks or its session expires: mutex->id names a child that   *)
(* exists.  Only failed calls leave a stale id behind.                     *)
(***************************************************************************)
OkIsInLine == \A s \in live : rc[s] = "ok" => id[s] \in nodes

(***************************************************************************)
(* A thread that has pmutex gives it back, whatever the service answers    *)
(* and however often: the retry loops of zkr_lock_lock, zkr_lock_operation *)
(* and zkr_lock_unlock end.  Only the unlock inside the lock never does.   *)
(***************************************************************************)
HolderLeaves ==
  \A s \in Sessions, k \in Thread :
    pmutex[s] = k ~> (pmutex[s] = NULL \/ pc[s][k] \in {"giveup", "dead"})

(***************************************************************************)
(* The lock is the write lock that zoo_lock.h promises: the children of    *)
(* the path are its tickets, in the order of their sequence numbers, and   *)
(* every step of a client, of the service or of a failure is a step of     *)
(* WriteLock or changes neither the line nor who holds the lock.           *)
(***************************************************************************)
Lock == INSTANCE WriteLock
  WITH Clients <- Sessions,
       queue   <- {[number |-> n.seq, client |-> n.own] : n \in nodes},
       issued  <- nextSeq,
       holders <- {s \in Sessions : Holds(s)}

ImplementsWriteLock == Lock!QueueSpec

-----------------------------------------------------------------------------
(* What the comments of zoo_lock.c and zoo_lock.h say and the code does not *)

(***************************************************************************)
(* "we have to give up our leadership since we cannot watch out            *)
(* predecessor" (zoo_lock.c:333): a client that cannot watch gives its     *)
(* znode back.                                                             *)
(***************************************************************************)
GivesUp ==
  \A s \in Sessions, k \in Thread :
    pc[s][k] = "giveup" ~> (id[s] \notin nodes \/ pc[s][k] = "dead")

(***************************************************************************)
(* "unlock the zookeeper mutex" (zoo_lock.h:105): once zkr_lock_unlock has *)
(* returned 0, and until the user locks again, the client is not in line.  *)
(***************************************************************************)
UnlockSticks ==
  \A s \in Sessions :
    rc[s] = "released" /\ pc[s]["main"] = "idle" => \A n \in nodes : n.own # s

(***************************************************************************)
(* "we need to be able to watch the predecessor" (zoo_lock.c:321): a live  *)
(* client in line, all of its calls done, that is not first has a watch on *)
(* a child before its own, or an event on its way.                         *)
(***************************************************************************)
WaiterWatches ==
  \A s \in live :
    /\ rc[s] = "ok" /\ id[s] \in nodes /\ ~IsFirst(id[s], nodes)
    /\ \A k \in Thread : pc[s][k] = "idle"
    => \/ events[s] # {}
       \/ \E w \in watches[s] : w \in nodes /\ w.seq < id[s].seq
=============================================================================
