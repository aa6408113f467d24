------------------------------ MODULE ZkSession ------------------------------
(***************************************************************************)
(* The session save handler of php_zookeeper_session.c.  A worker is a PHP *)
(* process that serves one request after the other over one persistent     *)
(* php_zookeeper_session: a handle, a zkr_lock_mutex_t and a path.  Its    *)
(* main thread runs the PS_*_FUNC handlers in the order in which the       *)
(* session module of PHP calls them; its completion thread runs            *)
(* lock_watcher_fn on the same mutex.                                      *)
(*                                                                         *)
(* On the main thread zkr_lock_lock and zkr_lock_unlock are one step each: *)
(* what they do to the line of a lock path is what ZkrLock shows.  On the  *)
(* completion thread their calls are steps: zkr_lock_init may overwrite    *)
(* the mutex in the middle of them, and two threads then work on it at     *)
(* once.  Every other zoo_* call is a step.  A call that is lost and       *)
(* repeated without effect changes nothing and is not a step; a lost call  *)
(* that took effect is.                                                    *)
(*                                                                         *)
(* The data of a session is a number: n + 1 is what the script makes of n, *)
(* one entry longer.                                                       *)
(***************************************************************************)
EXTENDS Integers

CONSTANTS
  Workers,   \* the PHP processes, numbered as their ZooKeeper sessions are
  Keys,      \* session ids
  Locking,   \* the values of the ini setting zookeeper.session_lock
  Attempts,  \* lock_maxwait * 1000000 / lock_wait
  MaxData,   \* bound: the longest session; the script then starts over
  MaxChildren, \* bound: children of one worker in one line
  NULL

ASSUME WorkersAssumption == Workers \subseteq Nat /\ Locking \subseteq BOOLEAN
ASSUME LimitsAssumption  == Attempts \in Int /\ {MaxData, MaxChildren} \subseteq Nat \ {0}
ASSUME NullAssumption    == NULL \notin Keys /\ NULL \notin Int

CUT == 0   \* what is left of a session read into too small a buffer

VARIABLES
  parent,    \* service: does /php-sessid exist
  data,      \* service: /php-sessid/<key>, or NULL
  stale,     \* service: its mtime is more than gc_maxlifetime ago
  line,      \* service: the children of <key>-lock, each with those in front of it
  session_lock, \* ZK_G(session_lock), for the whole life of the processes
  alive,     \* service: workers whose ZooKeeper session has not expired
  opened,    \* workers with a session in their persistent list
  path,      \* session->path, the key in it
  is_locked, \* session->is_locked
  lock,      \* session->lock.path, the key in it; NULL when destroyed
  isowner,   \* zkr_lock_isowner(session->lock)
  pm,        \* is session->lock.pmutex held, by the completion thread or for ever
  watch,     \* is lock_watcher_fn registered with session->lock as context
  at,        \* the next call of lock_watcher_fn on the completion thread
  cb,        \* the key in the path that it read; NULL in a destroyed mutex
  torn,      \* workers whose mutex was overwritten under a callback
  pc,        \* where the main thread stands
  key,       \* PS(id)
  tries,     \* attempts of php_zookeeper_sess_lock
  size,      \* stat.dataLength of PS_READ_FUNC
  seen,      \* what PS_READ_FUNC gave to PHP
  victim     \* the key PS_GC_FUNC found expired

store   == <<parent, data, stale>>
zk      == <<line, alive, session_lock>>
handle  == <<opened, path, is_locked>>
mutex   == <<lock, isowner, pm, watch, at, cb, torn>>
request == <<pc, key, tries, size, seen, victim>>
vars    == <<store, zk, handle, mutex, request>>

Data == CUT..MaxData \cup {NULL}

Label == {"idle", "connect", "mkparent", "failed", "lock", "owner", "exists",
          "expired", "get", "user", "gc", "write", "create", "set", "unset",
          "close", "free", "exit", "stuck", "dead"}

CallbackCall == {"none", "look", "create", "order", "watch", "unlock"}

Child == Workers \X (1..MaxChildren)

(* The values of the variables; there is another attempt to lock only when *)
(* some are left.                                                          *)
TypeOK ==
  /\ parent \in BOOLEAN
  /\ data \in [Keys -> 1..MaxData \cup {NULL}]
  /\ stale \in [Keys -> BOOLEAN]
  /\ \A k \in Keys : /\ DOMAIN line[k] \subseteq Child
                     /\ \A c \in DOMAIN line[k] : line[k][c] \subseteq DOMAIN line[k]
  /\ session_lock \in Locking
  /\ alive \subseteq Workers /\ opened \subseteq Workers
  /\ at \in [Workers -> CallbackCall] /\ torn \subseteq Workers
  /\ path \in [Workers -> Keys \cup {NULL}]
  /\ lock \in [Workers -> Keys \cup {NULL}] /\ cb \in [Workers -> Keys \cup {NULL}]
  /\ is_locked \in [Workers -> BOOLEAN] /\ isowner \in [Workers -> BOOLEAN]
  /\ pm \in [Workers -> BOOLEAN] /\ watch \in [Workers -> BOOLEAN]
  /\ pc \in [Workers -> Label]
  /\ key \in [Workers -> Keys \cup {NULL}] /\ victim \in [Workers -> Keys \cup {NULL}]
  /\ tries \in [Workers -> Int]
  /\ \A w \in Workers : pc[w] = "lock" => tries[w] = Attempts \/ tries[w] > 0
  /\ size \in [Workers -> Data] /\ seen \in [Workers -> Data]

-----------------------------------------------------------------------------
(* What a script makes of the session it was given.                        *)
Update(d) == IF d \in 1..(MaxData - 1) THEN d + 1 ELSE 1

(* A session disappears, and its mtime with it.                            *)
Delete(k) ==
  /\ data'  = [data EXCEPT ![k] = NULL]
  /\ stale' = [stale EXCEPT ![k] = FALSE]

(* The children of a lock path.  A new one gets the largest sequence       *)
(* number: all others are in front of it.                                  *)
Join(l, c)  == [d \in DOMAIN l \cup {c} |-> IF d = c THEN DOMAIN l ELSE l[d]]
Leave(l, C) == [d \in DOMAIN l \ C |-> l[d] \ C]
Mine(w, l)  == {c \in DOMAIN l : c[1] = w}

(* Sequence numbers: ownerid is the first child.                           *)
First(c, l) == l[c] = {}

(* child_floor: some child whose name strcmp puts below that of c.         *)
HasFloor(c, l) == \E d \in DOMAIN l : d[1] < c[1] \/ (d[1] = c[1] /\ d \in l[c])

(* zkr_lock_operation finds a child of the worker's or creates one.        *)
Joined(w, k) == IF Mine(w, line[k]) # {} THEN line[k] ELSE Join(line[k], <<w, 1>>)

(* A session has ended: its ephemeral children go.                         *)
Vacated(w) == [k \in Keys |-> Leave(line[k], Mine(w, line[k]))]

Goto(w, l) == pc' = [pc EXCEPT ![w] = l]

(* The process ends; its znodes stay until its session expires.            *)
Die(w) ==
  /\ pc'        = [pc EXCEPT ![w] = "dead"]
  /\ is_locked' = [is_locked EXCEPT ![w] = FALSE]
  /\ lock'      = [lock EXCEPT ![w] = NULL]  /\ path'   = [path EXCEPT ![w] = NULL]
  /\ isowner'   = [isowner EXCEPT ![w] = FALSE]
  /\ pm'        = [pm EXCEPT ![w] = FALSE]   /\ watch'  = [watch EXCEPT ![w] = FALSE]
  /\ cb'        = [cb EXCEPT ![w] = NULL]    /\ at' = [at EXCEPT ![w] = "none"]
  /\ key'       = [key EXCEPT ![w] = NULL]   /\ tries'  = [tries EXCEPT ![w] = 0]
  /\ size'      = [size EXCEPT ![w] = NULL]  /\ seen'   = [seen EXCEPT ![w] = NULL]
  /\ victim'    = [victim EXCEPT ![w] = NULL]
  /\ UNCHANGED <<store, opened, torn>>

-----------------------------------------------------------------------------
(* zkr_lock_lock on the path of key k, as far as the session sees it.  Of   *)
(* several children of the worker's the lookup finds any one.               *)

(* A lookup on a mutex that two threads have written to: it may put        *)
(* another id beside the ownerid that is there.                            *)
OtherChild(w, k) ==
  /\ w \in torn
  /\ \E c \in Mine(w, line[k]) :
       \E b \in {FALSE, First(c, line[k])} : isowner' = [isowner EXCEPT ![w] = b]

(* The watch was set or none was needed: id and ownerid are up to date.    *)
LockWorks(w, k) ==
  /\ w \in alive
  /\ line' = [line EXCEPT ![k] = Joined(w, k)]
  /\ \E c \in Mine(w, Joined(w, k)) :
       /\ isowner' = [isowner EXCEPT ![w] = First(c, Joined(w, k))]
       /\ watch'   = [watch EXCEPT ![w] = @ \/ HasFloor(c, Joined(w, k))]

(* All tries failed.  The child may have been created in one of them, and  *)
(* a lookup that found no child, or another one, has changed id.           *)
LockFails(w, k) ==
  /\ UNCHANGED watch
  /\ \/ UNCHANGED <<line, isowner>>
     \/ /\ w \in alive /\ Mine(w, line[k]) = {}
        /\ line' \in {line, [line EXCEPT ![k] = Joined(w, k)]}
        /\ isowner' = [isowner EXCEPT ![w] = FALSE]
     \/ w \in alive /\ OtherChild(w, k) /\ UNCHANGED line

(* The predecessor could not be watched: zkr_lock_unlock waits for the     *)
(* pmutex that the caller holds.                                           *)
LockHangs(w, k) ==
  /\ w \in alive
  /\ line' = [line EXCEPT ![k] = Joined(w, k)]
  /\ \E c \in Mine(w, Joined(w, k)) :
       /\ HasFloor(c, Joined(w, k))
       /\ isowner' = [isowner EXCEPT ![w] = First(c, Joined(w, k))]
  /\ watch' \in {[watch EXCEPT ![w] = b] : b \in {watch[w], TRUE}}

(* The child that id names is deleted, or not: id is NULL or names none,   *)
(* or every try was lost.                                                  *)
zkr_lock_unlock(w) ==
  /\ ~pm[w]
  /\ \/ UNCHANGED line
     \/ /\ w \in alive /\ lock[w] # NULL
        /\ \E c \in Mine(w, line[lock[w]]) : line' = [line EXCEPT ![lock[w]] = Leave(@, {c})]
  /\ isowner' \in {isowner, [isowner EXCEPT ![w] = FALSE]}

-----------------------------------------------------------------------------
(* PS_OPEN_FUNC and php_zookeeper_session_init *)

(* php_zookeeper_sess_lock up to its first zkr_lock_lock: zkr_lock_init    *)
(* overwrites the mutex and frees its pmutex, whoever uses it.             *)
zkr_lock_init(w, k) ==
  /\ lock'    = [lock EXCEPT ![w] = k]
  /\ isowner' = [isowner EXCEPT ![w] = FALSE]
  /\ pm'      = [pm EXCEPT ![w] = FALSE]
  /\ tries'   = [tries EXCEPT ![w] = Attempts]
  /\ torn'    = IF at[w] # "none" THEN torn \cup {w} ELSE torn
  /\ UNCHANGED <<watch, at, cb>>

(* PHP calls PS_READ_FUNC for key k once PS_OPEN_FUNC has succeeded.       *)
StartRead(w, k) ==
  \/ session_lock /\ zkr_lock_init(w, k) /\ Goto(w, "lock") /\ UNCHANGED path
  \/ /\ ~session_lock /\ path' = [path EXCEPT ![w] = k] /\ Goto(w, "exists")
     /\ UNCHANGED <<mutex, tries>>

(* php_zookeeper_session_get: a session in the persistent list is used as  *)
(* it is, also when its handle has expired.                                *)
PS_OPEN(w, k) ==
  /\ pc[w] = "idle"
  /\ key' = [key EXCEPT ![w] = k]
  /\ \/ w \in opened /\ StartRead(w, k)
     \/ w \notin opened /\ Goto(w, "connect") /\ UNCHANGED <<path, mutex, tries>>
  /\ UNCHANGED <<store, zk, opened, is_locked, size, seen, victim>>

Register(w) ==
  /\ opened' = opened \cup {w}
  /\ is_locked' = [is_locked EXCEPT ![w] = FALSE]
  /\ StartRead(w, key[w])

(* zoo_exists of the parent: only ZNONODE leads to the create.             *)
php_zookeeper_session_init(w) ==
  /\ pc[w] = "connect"
  /\ \/ Register(w)
     \/ ~parent /\ Goto(w, "mkparent") /\ UNCHANGED <<handle, mutex, tries>>
  /\ UNCHANGED <<store, zk, key, size, seen, victim>>

(* zoo_create of the parent.  ZNODEEXISTS, the answer to a create that     *)
(* another worker or a lost call of our own was faster than, is an error   *)
(* as any other.                                                           *)
MakeParent(w) ==
  /\ pc[w] = "mkparent"
  /\ \/ ~parent /\ parent' = TRUE /\ Register(w)
     \/ ~parent /\ parent' = TRUE /\ UNCHANGED <<handle, mutex, pc, tries>>
     \/ Goto(w, "failed") /\ UNCHANGED <<parent, handle, mutex, tries>>
  /\ UNCHANGED <<data, stale, zk, key, size, seen, victim>>

(* zookeeper_init returned NULL: the session is freed by the wrong         *)
(* allocator, and NULL is registered and dereferenced.                     *)
InitFails(w) ==
  /\ pc[w] = "connect"
  /\ Die(w)
  /\ UNCHANGED zk

(* The session is freed by the wrong allocator before the E_ERROR ends the *)
(* request: the process survives that, or not.                             *)
OpenFailed(w) ==
  /\ pc[w] = "failed"
  /\ \/ /\ Goto(w, "idle")
        /\ key' = [key EXCEPT ![w] = NULL]
        /\ UNCHANGED <<store, handle, mutex, tries, size, seen, victim>>
     \/ Die(w)
  /\ UNCHANGED zk

-----------------------------------------------------------------------------
(* php_zookeeper_sess_lock *)

LockTry(w) ==
  /\ pc[w] = "lock" /\ ~pm[w]
  /\ \/ LockWorks(w, lock[w]) /\ Goto(w, "owner") /\ UNCHANGED pm
     \/ LockFails(w, lock[w]) /\ Goto(w, "owner") /\ UNCHANGED pm
     \/ LockHangs(w, lock[w]) /\ Goto(w, "stuck") /\ pm' = [pm EXCEPT ![w] = TRUE]
  /\ UNCHANGED <<store, alive, session_lock, handle, lock, at, cb, torn,
                 key, tries, size, seen, victim>>

(* A callback whose mutex was overwritten has given the pmutex back that   *)
(* the main thread waits for: the unlock gets through, is called again as  *)
(* long as it succeeds, and zkr_lock_operation is tried again, or was for  *)
(* the last time.                                                          *)
LockGoesOn(w) ==
  /\ pc[w] = "stuck" /\ zkr_lock_unlock(w)
  /\ \E l \in {"stuck", "lock", "owner"} : Goto(w, l)
  /\ UNCHANGED <<store, alive, session_lock, handle, lock, pm, watch, at, cb, torn,
                 key, tries, size, seen, victim>>

(* Mutant of Locked: the result is taken for the error code that zoo_lock.h *)
(* documents.                                                              *)
LockedByDoc(w) == TRUE

(* The result of zkr_lock_lock, zkr_lock_isowner, is read after pmutex was *)
(* given back.                                                             *)
Locked(w) == isowner[w]


AttemptsLeft(w) == tries[w] - 1

(* Mutant of TriesAgain: one attempt too many.                             *)
TriesAtZero(w) == AttemptsLeft(w) >= 0

TriesAgain(w) == AttemptsLeft(w) > 0

(* When the attempts are used up, the E_ERROR of PS_READ_FUNC ends the     *)
(* script and PHP calls PS_CLOSE_FUNC, which finds is_locked unset: the    *)
(* child and its watch stay, and lock.path is left to the end of the       *)
(* request, which frees it.  A callback that reads it afterwards finds the *)
(* old path, or something no zoo_* call accepts (LockFails), or Crash.     *)
LockReturn(w) ==
  /\ pc[w] = "owner"
  /\ \/ /\ Locked(w)
        /\ is_locked' = [is_locked EXCEPT ![w] = TRUE]
        /\ path' = [path EXCEPT ![w] = key[w]]
        /\ tries' = [tries EXCEPT ![w] = 0]
        /\ Goto(w, "exists")
     \/ /\ ~Locked(w)
        /\ tries' = [tries EXCEPT ![w] = AttemptsLeft(w)]
        /\ Goto(w, IF TriesAgain(w) THEN "lock" ELSE "close")
        /\ UNCHANGED <<is_locked, path>>
  /\ UNCHANGED <<store, zk, opened, mutex, key, size, seen, victim>>

-----------------------------------------------------------------------------
(* PS_READ_FUNC *)

(* The script runs with what was read; FAILURE gives it an empty session.  *)
ReadReturns(w, d) ==
  /\ seen' = [seen EXCEPT ![w] = d]
  /\ size' = [size EXCEPT ![w] = NULL]
  /\ Goto(w, "user")

(* zoo_exists: the buffer is sized and the age judged by this answer.      *)
ReadExists(w) ==
  LET d == data[path[w]] IN
  /\ pc[w] = "exists"
  /\ \/ w \notin alive /\ ReadReturns(w, NULL)
     \/ w \in alive /\ d = NULL /\ ReadReturns(w, NULL)
     \/ /\ w \in alive /\ d # NULL
        /\ size' = [size EXCEPT ![w] = d]
        /\ Goto(w, IF stale[path[w]] THEN "expired" ELSE "get")
        /\ UNCHANGED seen
  /\ UNCHANGED <<store, zk, handle, mutex, key, tries, victim>>

(* zoo_delete of a session that has expired.                               *)
ReadDelete(w) ==
  /\ pc[w] = "expired"
  /\ \/ w \notin alive /\ ReadReturns(w, NULL) /\ UNCHANGED <<data, stale>>
     \/ w \in alive /\ Delete(path[w]) /\ ReadReturns(w, NULL)
     \/ w \in alive /\ Delete(path[w]) /\ UNCHANGED <<pc, size, seen>>
  /\ UNCHANGED <<parent, zk, handle, mutex, key, tries, victim>>

(* Mutant of Received: the buffer is one too small.                        *)
ReceivedShort(w, d) == IF d >= size[w] THEN CUT ELSE d

(* What is longer than the buffer is cut off.                              *)
Received(w, d) == IF d > size[w] THEN CUT ELSE d

(* zoo_get into the buffer that ReadExists sized.                          *)
ReadGet(w) ==
  LET d == data[path[w]] IN
  /\ pc[w] = "get"
  /\ \/ w \notin alive /\ ReadReturns(w, NULL)
     \/ w \in alive /\ d = NULL /\ ReadReturns(w, NULL)
     \/ w \in alive /\ d # NULL /\ ReadReturns(w, Received(w, d))
  /\ UNCHANGED <<store, zk, handle, mutex, key, tries, victim>>

-----------------------------------------------------------------------------
(* The script *)

Call(w, l) ==
  /\ pc[w] = "user"
  /\ Goto(w, l)
  /\ UNCHANGED <<store, zk, handle, mutex, key, tries, size, seen, victim>>

PS_WRITE(w)   == Call(w, "write")
PS_DESTROY(w) == Call(w, "unset")

(* session_regenerate_id: PHP takes a new id, the handler is not told.     *)
Regenerate(w, k) ==
  /\ pc[w] = "user" /\ k # key[w]
  /\ key' = [key EXCEPT ![w] = k]
  /\ UNCHANGED <<store, zk, handle, mutex, pc, tries, size, seen, victim>>

(* PS_GC_FUNC lists the children of the parent and asks for each of them   *)
(* how old it is ...                                                       *)
PS_GC(w, k) ==
  /\ pc[w] = "user" /\ w \in alive
  /\ data[k] # NULL /\ stale[k]
  /\ victim' = [victim EXCEPT ![w] = k]
  /\ Goto(w, "gc")
  /\ UNCHANGED <<store, zk, handle, mutex, key, tries, size, seen>>

(* ... and deletes, whatever it is by now, what was too old.               *)
GcDelete(w) ==
  /\ pc[w] = "gc"
  /\ \/ w \in alive /\ Delete(victim[w])
     \/ UNCHANGED <<data, stale>>
  /\ victim' = [victim EXCEPT ![w] = NULL]
  /\ Goto(w, "user")
  /\ UNCHANGED <<parent, zk, handle, mutex, key, tries, size, seen>>

-----------------------------------------------------------------------------
(* PS_WRITE_FUNC and PS_DESTROY_FUNC *)

Store(w) ==
  /\ data'  = [data EXCEPT ![path[w]] = Update(seen[w])]
  /\ stale' = [stale EXCEPT ![path[w]] = FALSE]

WriteExists(w) ==
  /\ pc[w] = "write"
  /\ Goto(w, IF w \in alive /\ data[path[w]] # NULL THEN "set" ELSE "create")
  /\ UNCHANGED <<store, zk, handle, mutex, key, tries, size, seen, victim>>

(* zoo_create: every answer but ZCONNECTIONLOSS ends the loop.             *)
WriteCreate(w) ==
  /\ pc[w] = "create"
  /\ \/ w \in alive /\ data[path[w]] = NULL /\ Store(w) /\ Goto(w, "close")
     \/ w \in alive /\ data[path[w]] = NULL /\ Store(w) /\ UNCHANGED pc
     \/ /\ w \notin alive \/ data[path[w]] # NULL
        /\ Goto(w, "close") /\ UNCHANGED <<data, stale>>
  /\ UNCHANGED <<parent, zk, handle, mutex, key, tries, size, seen, victim>>

(* zoo_set: after a ZCONNECTIONLOSS the loop goes on with zoo_create.      *)
WriteSet(w) ==
  /\ pc[w] = "set"
  /\ \/ w \in alive /\ data[path[w]] # NULL /\ Store(w) /\ Goto(w, "close")
     \/ w \in alive /\ data[path[w]] # NULL /\ Store(w) /\ Goto(w, "create")
     \/ Goto(w, "create") /\ UNCHANGED <<data, stale>>
     \/ /\ w \notin alive \/ data[path[w]] = NULL
        /\ Goto(w, "close") /\ UNCHANGED <<data, stale>>
  /\ UNCHANGED <<parent, zk, handle, mutex, key, tries, size, seen, victim>>

(* zoo_delete; PHP closes the session whatever it answers.                 *)
DestroyDelete(w) ==
  /\ pc[w] = "unset"
  /\ \/ w \in alive /\ Delete(path[w]) /\ Goto(w, "close")
     \/ w \in alive /\ Delete(path[w]) /\ UNCHANGED pc
     \/ w \notin alive /\ Goto(w, "close") /\ UNCHANGED <<data, stale>>
  /\ UNCHANGED <<parent, zk, handle, mutex, key, tries, size, seen, victim>>

-----------------------------------------------------------------------------
(* PS_CLOSE_FUNC *)

RequestOver(w) ==
  /\ Goto(w, "idle")
  /\ key'   = [key EXCEPT ![w] = NULL]
  /\ tries' = [tries EXCEPT ![w] = 0]
  /\ seen'  = [seen EXCEPT ![w] = NULL]
  /\ UNCHANGED <<size, victim>>

(* The result of zkr_lock_unlock is not looked at.                         *)
PS_CLOSE(w) ==
  /\ pc[w] = "close"
  /\ \/ /\ is_locked[w] /\ zkr_lock_unlock(w) /\ Goto(w, "free")
        /\ UNCHANGED <<key, tries, size, seen, victim>>
     \/ ~is_locked[w] /\ RequestOver(w) /\ UNCHANGED <<line, isowner>>
  /\ UNCHANGED <<store, alive, session_lock, handle, lock, pm, watch, at, cb, torn>>

(* efree(lock.path), zkr_lock_destroy, is_locked = 0.                      *)
zkr_lock_destroy(w) ==
  /\ pc[w] = "free"
  /\ lock' = [lock EXCEPT ![w] = NULL]
  /\ isowner' = [isowner EXCEPT ![w] = FALSE]
  /\ is_locked' = [is_locked EXCEPT ![w] = FALSE]
  /\ RequestOver(w)
  /\ UNCHANGED <<store, zk, opened, path, pm, watch, at, cb, torn>>

-----------------------------------------------------------------------------
(* lock_watcher_fn on the completion thread: zkr_lock_lock, call by call.  *)
(* It holds pmutex all the time, and pm keeps the main thread out, unless  *)
(* zkr_lock_init has freed it.                                             *)

(* An event arrives, perhaps the last one of its watch.  The pmutex of a   *)
(* destroyed mutex is not taken, its path is NULL.                         *)
CallbackStart(w) ==
  /\ watch[w] /\ at[w] = "none"
  /\ watch' \in {[watch EXCEPT ![w] = b] : b \in BOOLEAN}
  /\ ~pm[w]
  /\ at' = [at EXCEPT ![w] = "look"]
  /\ cb' = [cb EXCEPT ![w] = lock[w]]
  /\ pm' = [pm EXCEPT ![w] = lock[w] # NULL]
  /\ UNCHANGED <<store, zk, handle, lock, isowner, torn, request>>

CallNext(w, l) == at' = [at EXCEPT ![w] = l]

(* zkr_lock_lock gives a pmutex back, which the main thread may hold.      *)
CallbackEnds(w) ==
  /\ CallNext(w, "none")
  /\ cb' = [cb EXCEPT ![w] = NULL]
  /\ pm' = [pm EXCEPT ![w] = FALSE]

(* zkr_lock_operation failed: it is tried again with the path that the     *)
(* mutex has now, or was for the last time.                                *)
CallbackRound(w) ==
  \/ CallNext(w, "look") /\ cb' = [cb EXCEPT ![w] = lock[w]] /\ UNCHANGED pm
  \/ CallbackEnds(w)

(* The lookup.  The path was read from the mutex some time before.         *)
CallbackLook(w) ==
  /\ at[w] = "look" /\ w \in alive
  /\ \E k \in {cb[w], lock[w]} \ {NULL} :
       /\ cb' = [cb EXCEPT ![w] = k]
       /\ \/ /\ Mine(w, line[k]) = {}
             /\ isowner' = [isowner EXCEPT ![w] = FALSE]
             /\ CallNext(w, "create")
          \/ /\ Mine(w, line[k]) # {}
             /\ UNCHANGED isowner \/ OtherChild(w, k)
             /\ CallNext(w, "order")
  /\ UNCHANGED <<store, zk, handle, lock, pm, watch, torn, request>>

(* The create, whatever became of the line since the lookup.  Its answer   *)
(* may be lost.                                                            *)
CallbackCreate(w) ==
  /\ at[w] = "create" /\ w \in alive
  /\ \E c \in ({w} \X (1..MaxChildren)) \ DOMAIN line[cb[w]] :
       line' = [line EXCEPT ![cb[w]] = Join(@, c)]
  /\ \/ CallNext(w, "order") /\ UNCHANGED <<cb, pm>>
     \/ CallbackRound(w)
  /\ UNCHANGED <<store, alive, session_lock, handle, lock, isowner, watch, torn, request>>

(* The listing that gives ownerid and the predecessor.  What it finds for  *)
(* an id that the main thread has changed or deleted is no good.           *)
CallbackOrder(w) ==
  LET l == line[cb[w]] IN
  /\ at[w] = "order" /\ w \in alive
  /\ \/ \E c \in Mine(w, l) :
          /\ isowner' = [isowner EXCEPT ![w] = First(c, l)]
          /\ \/ HasFloor(c, l) /\ CallNext(w, "watch") /\ UNCHANGED <<cb, pm>>
             \/ ~HasFloor(c, l) /\ CallbackEnds(w)
     \/ /\ w \in torn /\ isowner' = [isowner EXCEPT ![w] = FALSE]
        /\ (CallNext(w, "watch") /\ UNCHANGED <<cb, pm>>) \/ CallbackEnds(w)
  /\ UNCHANGED <<store, zk, handle, lock, watch, torn, request>>

(* zoo_wexists of the predecessor, which may have gone since the listing.  *)
CallbackWatch(w) ==
  /\ at[w] = "watch"
  /\ watch' \in {[watch EXCEPT ![w] = b] : b \in {watch[w], TRUE}}
  /\ \/ watch'[w] /\ CallbackEnds(w)
     \/ CallNext(w, "unlock") /\ UNCHANGED <<cb, pm>>
  /\ UNCHANGED <<store, zk, handle, lock, isowner, torn, request>>

(* The unlock inside the lock waits for the pmutex that its own thread     *)
(* holds, for ever or until zkr_lock_init frees it.  It is called again as *)
(* long as it succeeds.                                                    *)
CallbackUnlock(w) ==
  /\ at[w] = "unlock" /\ zkr_lock_unlock(w)
  /\ CallbackRound(w) \/ UNCHANGED <<at, cb, pm>>
  /\ UNCHANGED <<store, alive, session_lock, handle, lock, watch, torn, request>>

(* Every try of a call was lost, or it has no session or no path.          *)
CallbackFails(w) ==
  /\ at[w] \in {"look", "create", "order"}
  /\ CallbackRound(w)
  /\ UNCHANGED <<store, zk, handle, lock, isowner, watch, torn, request>>

-----------------------------------------------------------------------------
(* The environment *)

(* gc_maxlifetime passes without a write.                                  *)
Age(k) ==
  /\ data[k] # NULL /\ ~stale[k]
  /\ stale' = [stale EXCEPT ![k] = TRUE]
  /\ UNCHANGED <<parent, data, zk, handle, mutex, request>>

(* The ZooKeeper session of the persistent handle expires.                 *)
Expire(w) ==
  /\ w \in alive \cap opened
  /\ alive' = alive \ {w}
  /\ line' = Vacated(w)
  /\ UNCHANGED <<store, session_lock, handle, mutex, request>>

(* The process is killed, or dies of memory it misused.                    *)
Crash(w) ==
  /\ w \in opened /\ pc[w] # "dead"
  /\ Die(w)
  /\ UNCHANGED zk

(* The process ends in good order: the destructor of the persistent list   *)
(* calls zookeeper_close ...                                               *)
php_zookeeper_connection_dtor(w) ==
  /\ pc[w] = "idle" /\ w \in opened
  /\ Goto(w, "exit")
  /\ UNCHANGED <<store, zk, handle, mutex, key, tries, size, seen, victim>>

(* ... which waits for the completion thread, ends the ZooKeeper session   *)
(* if the service hears of it, and frees what callbacks work on.           *)
HandleClosed(w) ==
  /\ pc[w] = "exit" /\ at[w] = "none"
  /\ Die(w)
  /\ \/ alive' = alive \ {w} /\ line' = Vacated(w)
     \/ UNCHANGED <<alive, line>>
  /\ UNCHANGED session_lock

-----------------------------------------------------------------------------

Init ==
  /\ parent \in BOOLEAN /\ session_lock \in Locking
  /\ data = [k \in Keys |-> NULL] /\ stale = [k \in Keys |-> FALSE]
  /\ line = [k \in Keys |-> [c \in {} |-> {}]] /\ alive = Workers /\ opened = {}
  /\ at = [w \in Workers |-> "none"] /\ torn = {}
  /\ path = [w \in Workers |-> NULL] /\ lock = [w \in Workers |-> NULL]
  /\ cb = [w \in Workers |-> NULL] /\ watch = [w \in Workers |-> FALSE]
  /\ is_locked = [w \in Workers |-> FALSE] /\ isowner = [w \in Workers |-> FALSE]
  /\ pm = [w \in Workers |-> FALSE] /\ pc = [w \in Workers |-> "idle"]
  /\ key = [w \in Workers |-> NULL] /\ victim = [w \in Workers |-> NULL]
  /\ tries = [w \in Workers |-> 0]
  /\ size = [w \in Workers |-> NULL] /\ seen = [w \in Workers |-> NULL]

(* What the main thread does on its own once it is in a handler.           *)
HandlerStep(w) ==
  \/ php_zookeeper_session_init(w) \/ MakeParent(w) \/ InitFails(w) \/ OpenFailed(w)
  \/ LockTry(w) \/ LockGoesOn(w) \/ LockReturn(w)
  \/ ReadExists(w) \/ ReadDelete(w) \/ ReadGet(w)
  \/ WriteExists(w) \/ WriteCreate(w) \/ WriteSet(w) \/ DestroyDelete(w)
  \/ GcDelete(w) \/ PS_CLOSE(w) \/ zkr_lock_destroy(w)
  \/ HandleClosed(w)

ScriptStep(w) ==
  \/ \E k \in Keys : Regenerate(w, k) \/ PS_GC(w, k)
  \/ PS_WRITE(w) \/ PS_DESTROY(w)

CallbackStep(w) ==
  \/ CallbackLook(w) \/ CallbackCreate(w) \/ CallbackOrder(w)
  \/ CallbackWatch(w) \/ CallbackUnlock(w) \/ CallbackFails(w)

Next ==
  \/ \E w \in Workers :
       \/ \E k \in Keys : PS_OPEN(w, k)
       \/ HandlerStep(w) \/ ScriptStep(w)
       \/ CallbackStart(w) \/ CallbackStep(w)
       \/ Expire(w) \/ Crash(w) \/ php_zookeeper_connection_dtor(w)
  \/ \E k \in Keys : Age(k)

Spec == Init /\ [][Next]_vars

(* A handler goes on: its calls return, and a call that is repeated is     *)
(* answered in the end, since the client library reconnects or is told     *)
(* that its session expired.  A pmutex that is free again and again is     *)
(* taken: callbacks come with changes of the connection and of the line,   *)
(* not back to back.  A callback returns, since the rounds of its loops    *)
(* are counted, unless it waits for pmutex.  Nothing makes a script end or *)
(* a request come.                                                         *)
Fairness ==
  \A w \in Workers :
    /\ WF_vars(HandlerStep(w) /\ pc'[w] # pc[w])
    /\ SF_vars(LockTry(w) \/ PS_CLOSE(w) \/ HandleClosed(w))
    /\ WF_vars(CallbackStep(w))
    /\ SF_vars(CallbackStep(w) /\ at'[w] = "none")

FairSpec == Spec /\ Fairness

-----------------------------------------------------------------------------
(* What holds *)

(* The worker has the session to itself, as it sees it.                    *)
Serving(w) ==
  /\ is_locked[w] /\ w \in alive
  /\ pc[w] \in {"exists", "expired", "get", "user", "gc", "write", "create",
                "set", "unset", "close"}

(***************************************************************************)
(* Two workers with a live ZooKeeper session never serve the same session  *)
(* at the same time, from the return of php_zookeeper_sess_lock to the     *)
(* unlock in PS_CLOSE_FUNC, whatever callbacks, abandoned waits, expiries, *)
(* crashes and lost unlocks happened in this or earlier requests of these  *)
(* and of other workers, unless zkr_lock_init has overwritten the mutex of *)
(* one of the two while its callback was inside.                           *)
(***************************************************************************)
SessionExclusive ==
  \A v, w \in Workers \ torn : Serving(v) /\ Serving(w) /\ path[v] = path[w] => v = w

(* What a worker that serves a session was given by PS_READ_FUNC.          *)
Given(w) == IF pc[w] \in {"exists", "expired", "get"} THEN {} ELSE {seen[w]}

Abstract ==
  INSTANCE SessionStore WITH
    stored <- data,
    user   <- [k \in Keys |-> {[by |-> w, given |-> Given(w)] :
                                  w \in {v \in Workers : Serving(v) /\ path[v] = k}}]

(***************************************************************************)
(* With session_lock on, and as long as no mutex was overwritten under a   *)
(* callback, the handlers of all workers together behave as a store with   *)
(* one user at a time: PS_READ_FUNC gives what is stored and its buffer    *)
(* never cuts it; every value PS_WRITE_FUNC stores, also when it repeats a *)
(* lost call or changes from zoo_set to zoo_create, follows from the one   *)
(* its worker was given; a worker whose ZooKeeper session expired in the   *)
(* middle of a request stores nothing.                                     *)
(***************************************************************************)
Regular == session_lock /\ torn = {}

ImplementsSessionStore ==
  Abstract!Vacant /\ [][Regular' => [Abstract!StoreStep]_(Abstract!storeVars)]_vars


-----------------------------------------------------------------------------
(* What the code does not keep *)

(***************************************************************************)
(* is_locked is "Whether the session is locked"                            *)
(* (php_zookeeper_session.h:34): two workers never have the same session   *)
(* locked.  It does not hold: a callback that zkr_lock_init has robbed of  *)
(* its pmutex deletes the child of a worker that serves.                   *)
(***************************************************************************)
LockedAlone ==
  \A v, w \in Workers : Serving(v) /\ Serving(w) /\ path[v] = path[w] => v = w
=============================================================================
