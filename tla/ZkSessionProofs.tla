--------------------------- MODULE ZkSessionProofs ---------------------------
(***************************************************************************)
(* The session handlers, for any workers and session ids: the types, and   *)
(* the exclusion of workers whose mutex zkr_lock_init has not overwritten  *)
(* under a callback.                                                       *)
(***************************************************************************)
EXTENDS ZkSession, TLAPS

-----------------------------------------------------------------------------
(* The invariants *)

(* A line: children, each with those in front of it; of two children one   *)
(* is in front of the other.                                               *)
Ordered(l) ==
  /\ DOMAIN l \subseteq Child
  /\ \A c \in DOMAIN l : l[c] \subseteq DOMAIN l
  /\ \A c, d \in DOMAIN l : c # d => c \in l[d] \/ d \in l[c]

LineOK == DOMAIN line = Keys /\ \A k \in Keys : Ordered(line[k])

StoreOK ==
  /\ parent \in BOOLEAN
  /\ data \in [Keys -> 1..MaxData \cup {NULL}]
  /\ stale \in [Keys -> BOOLEAN]

MutexOK ==
  /\ session_lock \in Locking
  /\ alive \subseteq Workers /\ opened \subseteq Workers /\ torn \subseteq Workers
  /\ path \in [Workers -> Keys \cup {NULL}]
  /\ lock \in [Workers -> Keys \cup {NULL}] /\ cb \in [Workers -> Keys \cup {NULL}]
  /\ is_locked \in [Workers -> BOOLEAN] /\ isowner \in [Workers -> BOOLEAN]
  /\ pm \in [Workers -> BOOLEAN] /\ watch \in [Workers -> BOOLEAN]
  /\ at \in [Workers -> CallbackCall]

RequestOK ==
  /\ pc \in [Workers -> Label]
  /\ key \in [Workers -> Keys \cup {NULL}] /\ victim \in [Workers -> Keys \cup {NULL}]
  /\ tries \in [Workers -> Int]
  /\ size \in [Workers -> Data] /\ seen \in [Workers -> Data]

(* Between php_zookeeper_sess_lock and PS_CLOSE_FUNC.                      *)
Reading == {"exists", "expired", "get"}
Using   == Reading \cup {"user", "gc", "write", "create", "set", "unset"}

(* Inside php_zookeeper_sess_lock.                                         *)
LockCalls == {"lock", "owner", "stuck"}

(* The handlers and lock_watcher_fn follow no pointer that is not set, and *)
(* attempts are left when one is made.                                     *)
PointersSet ==
  \A w \in Workers :
    /\ pc[w] \in {"connect", "mkparent"} \cup LockCalls => key[w] \in Keys
    /\ pc[w] \in LockCalls \/ is_locked[w] => lock[w] \in Keys
    /\ pc[w] \in Using => path[w] \in Keys
    /\ pc[w] = "gc" => victim[w] \in Keys
    /\ at[w] \notin {"none", "look"} => cb[w] \in Keys
    /\ pc[w] \in {"lock", "stuck"} => tries[w] = Attempts \/ tries[w] > 0

TypeInv == LineOK /\ StoreOK /\ MutexOK /\ RequestOK /\ PointersSet

(* is_locked is set in a request only, and cleared before its end; it      *)
(* tells of the lock of the session that is served.                        *)
LockedInRequest ==
  \A w \in Workers :
    /\ is_locked[w] => pc[w] \in Using \cup {"close", "free"} /\ path[w] = lock[w]
    /\ pc[w] \in LockCalls => lock[w] = key[w]

(* What pmutex is for: a callback in a mutex that nobody has overwritten   *)
(* keeps the main thread out, and the unlock inside the lock waits.        *)
OneInside ==
  \A w \in Workers \ torn :
    /\ at[w] # "none" /\ lock[w] # NULL => pm[w] /\ cb[w] = lock[w]
    /\ at[w] # "none" /\ ~pm[w] => at[w] = "look" /\ cb[w] = NULL
    /\ pc[w] = "stuck" => pm[w] /\ at[w] = "none"

(* A child of the worker's is the first one.                               *)
FirstIn(w, l) == \E c \in Mine(w, l) : First(c, l)

(* Who believes to own the lock is first in line, until it unlocks.        *)
OwnerIsFirst ==
  \A w \in Workers \ torn :
    /\ isowner[w] \/ is_locked[w]
    /\ w \in alive /\ pc[w] # "free" /\ lock[w] # NULL
    => FirstIn(w, line[lock[w]])

SessionInv == TypeInv /\ LockedInRequest /\ OneInside /\ OwnerIsFirst


-----------------------------------------------------------------------------
(* Lines *)

(* Two workers are not both first.                                         *)
LEMMA FirstIsOne ==
  ASSUME NEW l, Ordered(l), NEW v, NEW w, FirstIn(v, l), FirstIn(w, l)
  PROVE  v = w
<1>1. PICK c \in DOMAIN l : c[1] = v /\ l[c] = {}
  BY DEF FirstIn, First, Mine
<1>2. PICK d \in DOMAIN l : d[1] = w /\ l[d] = {}
  BY DEF FirstIn, First, Mine
<1>3. c = d
  BY <1>1, <1>2 DEF Ordered
<1> QED  BY <1>1, <1>2, <1>3

(* A new child is the last one.                                            *)
LEMMA JoinLine ==
  ASSUME NEW l, Ordered(l), NEW c \in Child, c \notin DOMAIN l
  PROVE  /\ Ordered(Join(l, c)) /\ c \in DOMAIN Join(l, c)
         /\ \A v : FirstIn(v, l) => FirstIn(v, Join(l, c))
<1>1. /\ DOMAIN Join(l, c) = DOMAIN l \cup {c} /\ Join(l, c)[c] = DOMAIN l
      /\ \A d \in DOMAIN l : Join(l, c)[d] = l[d]
  BY DEF Join
<1>2. Ordered(Join(l, c))
  BY <1>1 DEF Ordered
<1>3. ASSUME NEW v, FirstIn(v, l)  PROVE  FirstIn(v, Join(l, c))
  BY <1>1, <1>3 DEF FirstIn, First, Mine
<1> QED  BY <1>1, <1>2, <1>3

(* Some children of a worker go: another one that is first stays first.    *)
LEMMA LeaveLine ==
  ASSUME NEW l, Ordered(l), NEW w, NEW C \in SUBSET Mine(w, l)
  PROVE  /\ Ordered(Leave(l, C))
         /\ \A v : v # w /\ FirstIn(v, l) => FirstIn(v, Leave(l, C))
<1>1. /\ DOMAIN Leave(l, C) = DOMAIN l \ C
      /\ \A d \in DOMAIN l \ C : Leave(l, C)[d] = l[d] \ C
  BY DEF Leave
<1>2. Ordered(Leave(l, C))
  BY <1>1 DEF Ordered
<1>3. ASSUME NEW v, v # w, FirstIn(v, l)  PROVE  FirstIn(v, Leave(l, C))
  <2>1. PICK c \in DOMAIN l : c[1] = v /\ l[c] = {}
    BY <1>3 DEF FirstIn, First, Mine
  <2>2. c \notin C
    BY <1>3, <2>1 DEF Mine
  <2>3. c \in Mine(v, Leave(l, C)) /\ First(c, Leave(l, C))
    BY <1>1, <2>1, <2>2 DEF Mine, First
  <2> QED  BY <2>3 DEF FirstIn
<1> QED  BY <1>2, <1>3

(* The line of one key changes.                                            *)
LEMMA OneLine ==
  ASSUME LineOK, NEW k \in Keys, NEW l, Ordered(l), line' = [line EXCEPT ![k] = l]
  PROVE  LineOK' /\ line'[k] = l /\ \A j \in Keys \ {k} : line'[j] = line[j]
BY DEF LineOK

LEMMA JoinedLine ==
  ASSUME LineOK, NEW w \in Workers, NEW k \in Keys
  PROVE  /\ Ordered(Joined(w, k))
         /\ \A v \in Workers : FirstIn(v, line[k]) => FirstIn(v, Joined(w, k))
<1>1. Ordered(line[k])
  BY DEF LineOK
<1>2. CASE Mine(w, line[k]) # {}
  BY <1>1, <1>2 DEF Joined
<1>3. CASE Mine(w, line[k]) = {}
  <2>1. <<w, 1>> \in Child /\ <<w, 1>> \notin DOMAIN line[k]
    BY <1>3, LimitsAssumption DEF Child, Mine
  <2> QED  BY <1>1, <1>3, <2>1, JoinLine DEF Joined
<1> QED  BY <1>2, <1>3

(* zkr_lock_lock on the main thread, however it ends: it leaves the first  *)
(* one first, and makes an owner only of one that it finds first.          *)
LEMMA LockLine ==
  ASSUME TypeInv, NEW w \in Workers, NEW k \in Keys,
         LockWorks(w, k) \/ LockFails(w, k) \/ LockHangs(w, k)
  PROVE  /\ LineOK' /\ isowner' \in [Workers -> BOOLEAN] /\ watch' \in [Workers -> BOOLEAN]
         /\ \A j \in Keys : \A v \in Workers : FirstIn(v, line[j]) => FirstIn(v, line'[j])
         /\ \A v \in Workers \ {w} : isowner'[v] = isowner[v]
         /\ w \notin torn /\ isowner'[w] => isowner[w] \/ FirstIn(w, line'[k])
<1>1. isowner \in [Workers -> BOOLEAN] /\ watch \in [Workers -> BOOLEAN] /\ LineOK
  BY DEF TypeInv, MutexOK
<1>2. /\ Ordered(Joined(w, k))
      /\ \A v \in Workers : FirstIn(v, line[k]) => FirstIn(v, Joined(w, k))
  BY <1>1, JoinedLine
<1>3. ASSUME line' = [line EXCEPT ![k] = Joined(w, k)]
      PROVE  /\ LineOK' /\ line'[k] = Joined(w, k)
             /\ \A j \in Keys : \A v \in Workers : FirstIn(v, line[j]) => FirstIn(v, line'[j])
  <2>1. LineOK' /\ line'[k] = Joined(w, k) /\ \A j \in Keys \ {k} : line'[j] = line[j]
    BY <1>1, <1>2, <1>3, OneLine
  <2> QED  BY <1>2, <2>1
<1>4. ASSUME UNCHANGED line
      PROVE  /\ LineOK'
             /\ \A j \in Keys : \A v \in Workers : FirstIn(v, line[j]) => FirstIn(v, line'[j])
  BY <1>1, <1>4 DEF LineOK
<1>5. CASE LockWorks(w, k) \/ LockHangs(w, k)
  <2>1. line' = [line EXCEPT ![k] = Joined(w, k)]
    BY <1>5 DEF LockWorks, LockHangs
  <2>2. PICK c \in Mine(w, Joined(w, k)) : isowner' = [isowner EXCEPT ![w] = First(c, Joined(w, k))]
    BY <1>5 DEF LockWorks, LockHangs
  <2>3. First(c, Joined(w, k)) \in BOOLEAN /\ \A d : HasFloor(d, Joined(w, k)) \in BOOLEAN
    BY DEF First, HasFloor
  <2>4. isowner' \in [Workers -> BOOLEAN] /\ (isowner'[w] <=> First(c, Joined(w, k)))
        /\ \A v \in Workers \ {w} : isowner'[v] = isowner[v]
    BY <1>1, <2>2, <2>3
  <2>5. watch' \in [Workers -> BOOLEAN]
    BY <1>1, <1>5, <2>3 DEF LockWorks, LockHangs
  <2> QED  BY <1>3, <2>1, <2>2, <2>4, <2>5 DEF FirstIn
<1>6. CASE LockFails(w, k)
  <2>1. line' \in {line, [line EXCEPT ![k] = Joined(w, k)]}
    BY <1>6 DEF LockFails
  <2>2. /\ watch' = watch
        /\ \/ isowner' \in {isowner, [isowner EXCEPT ![w] = FALSE]}
           \/ w \in torn /\ \E b \in BOOLEAN : isowner' = [isowner EXCEPT ![w] = b]
    BY <1>6 DEF LockFails, OtherChild, First
  <2> QED  BY <1>1, <1>3, <1>4, <2>1, <2>2
<1> QED  BY <1>5, <1>6

(* zkr_lock_unlock takes the place in line of its worker only.             *)
LEMMA UnlockLine ==
  ASSUME TypeInv, NEW w \in Workers, zkr_lock_unlock(w)
  PROVE  /\ LineOK' /\ isowner' \in [Workers -> BOOLEAN]
         /\ \A j \in Keys : \A v \in Workers \ {w} : FirstIn(v, line[j]) => FirstIn(v, line'[j])
         /\ \A v \in Workers \ {w} : isowner'[v] = isowner[v]
<1>1. isowner \in [Workers -> BOOLEAN] /\ lock \in [Workers -> Keys \cup {NULL}] /\ LineOK
  BY DEF TypeInv, MutexOK
<1>2. isowner' \in [Workers -> BOOLEAN] /\ \A v \in Workers \ {w} : isowner'[v] = isowner[v]
  BY <1>1 DEF zkr_lock_unlock
<1>3. CASE UNCHANGED line
  BY <1>1, <1>2, <1>3 DEF LineOK
<1>4. CASE ~UNCHANGED line
  <2>1. PICK c \in Mine(w, line[lock[w]]) : line' = [line EXCEPT ![lock[w]] = Leave(line[lock[w]], {c})]
    BY <1>4 DEF zkr_lock_unlock
  <2>2. lock[w] \in Keys
    BY <1>1, <1>4 DEF zkr_lock_unlock
  <2>3. /\ Ordered(Leave(line[lock[w]], {c}))
        /\ \A v : v # w /\ FirstIn(v, line[lock[w]]) => FirstIn(v, Leave(line[lock[w]], {c}))
    BY <1>1, <2>1, <2>2, LeaveLine DEF LineOK
  <2>4. /\ LineOK' /\ line'[lock[w]] = Leave(line[lock[w]], {c})
        /\ \A j \in Keys \ {lock[w]} : line'[j] = line[j]
    BY <1>1, <2>1, <2>2, <2>3, OneLine
  <2> QED  BY <1>2, <2>3, <2>4
<1> QED  BY <1>3, <1>4

(* Expire and HandleClosed.                                                *)
LEMMA VacatedLine ==
  ASSUME LineOK, NEW w \in Workers, line' \in {line, Vacated(w)}
  PROVE  /\ LineOK'
         /\ \A j \in Keys : \A v \in Workers \ {w} : FirstIn(v, line[j]) => FirstIn(v, line'[j])
<1>1. CASE line' = line
  BY <1>1 DEF LineOK
<1>2. CASE line' = Vacated(w)
  <2>1. DOMAIN line' = Keys /\ \A j \in Keys : line'[j] = Leave(line[j], Mine(w, line[j]))
    BY <1>2 DEF Vacated
  <2>2. ASSUME NEW j \in Keys
        PROVE  /\ Ordered(line'[j])
               /\ \A v \in Workers \ {w} : FirstIn(v, line[j]) => FirstIn(v, line'[j])
    BY <2>1, LeaveLine DEF LineOK
  <2> QED  BY <2>1, <2>2 DEF LineOK
<1> QED  BY <1>1, <1>2

(* The create of lock_watcher_fn.                                          *)
LEMMA CreateLine ==
  ASSUME TypeInv, NEW w \in Workers, CallbackCreate(w)
  PROVE  /\ LineOK'
         /\ \A j \in Keys : \A v \in Workers : FirstIn(v, line[j]) => FirstIn(v, line'[j])
<1>1. LineOK /\ cb[w] \in Keys
  BY DEF TypeInv, PointersSet, CallbackCreate
<1>2. PICK c \in ({w} \X (1..MaxChildren)) \ DOMAIN line[cb[w]] :
        line' = [line EXCEPT ![cb[w]] = Join(line[cb[w]], c)]
  BY DEF CallbackCreate
<1>3. /\ Ordered(Join(line[cb[w]], c))
      /\ \A v : FirstIn(v, line[cb[w]]) => FirstIn(v, Join(line[cb[w]], c))
  BY <1>1, <1>2, JoinLine DEF LineOK, Child
<1>4. /\ LineOK' /\ line'[cb[w]] = Join(line[cb[w]], c)
      /\ \A j \in Keys \ {cb[w]} : line'[j] = line[j]
  BY <1>1, <1>2, <1>3, OneLine
<1> QED  BY <1>3, <1>4

-----------------------------------------------------------------------------
(* The actions keep the types *)

LEMMA TypeInvTypes ==
  TypeInv => TypeOK
BY DEF TypeInv, LineOK, Ordered, StoreOK, MutexOK, RequestOK, PointersSet, TypeOK

LEMMA DieTypes ==
  ASSUME TypeInv, NEW w \in Workers, Die(w), LineOK',
         alive' \subseteq alive, UNCHANGED session_lock
  PROVE  TypeInv'
<1>1. StoreOK'
  BY DEF TypeInv, StoreOK, Die, store
<1>2. MutexOK'
  BY DEF TypeInv, MutexOK, Die, CallbackCall
<1>3. RequestOK'
  BY DEF TypeInv, RequestOK, Die, Label, Data
<1>4. PointersSet'
  BY DEF TypeInv, PointersSet, RequestOK, MutexOK, Die, Using, Reading, LockCalls
<1> QED  BY <1>1, <1>2, <1>3, <1>4 DEF TypeInv

LEMMA InitTypes ==
  Init => TypeInv
<1> SUFFICES ASSUME Init  PROVE  TypeInv
  OBVIOUS
<1>1. LineOK
  BY DEF Init, LineOK, Ordered
<1>2. StoreOK
  BY DEF Init, StoreOK
<1>3. MutexOK
  BY DEF Init, MutexOK, CallbackCall
<1>4. RequestOK
  BY DEF Init, RequestOK, Label, Data
<1>5. PointersSet
  BY DEF Init, PointersSet, Using, Reading, LockCalls
<1> QED  BY <1>1, <1>2, <1>3, <1>4, <1>5 DEF TypeInv

LEMMA StartReadTypes ==
  ASSUME TypeInv, NEW w \in Workers, NEW k \in Keys, StartRead(w, k),
         UNCHANGED <<data, stale, zk, size, seen, victim>>, parent' \in BOOLEAN,
         opened' \in {opened, opened \cup {w}},
         is_locked' \in {is_locked, [is_locked EXCEPT ![w] = FALSE]},
         key' = [key EXCEPT ![w] = k]
  PROVE  TypeInv'
<1>1. LineOK' /\ StoreOK'
  BY DEF TypeInv, LineOK, StoreOK, zk
<1>2. MutexOK'
  <2>1. is_locked' \in [Workers -> BOOLEAN] /\ opened' \subseteq Workers
    BY DEF TypeInv, MutexOK
  <2>2. CASE zkr_lock_init(w, k) /\ UNCHANGED path
    BY <2>1, <2>2 DEF TypeInv, MutexOK, zkr_lock_init, zk
  <2>3. CASE path' = [path EXCEPT ![w] = k] /\ UNCHANGED mutex
    BY <2>1, <2>3 DEF TypeInv, MutexOK, mutex, zk
  <2> QED  BY <2>2, <2>3 DEF StartRead
<1>3. RequestOK'
  BY LimitsAssumption DEF TypeInv, RequestOK, StartRead, zkr_lock_init, Goto, Label
<1>4. PointersSet'
  BY DEF TypeInv, PointersSet, RequestOK, MutexOK, StartRead, zkr_lock_init, Goto, mutex,
         Using, Reading, LockCalls
<1> QED  BY <1>1, <1>2, <1>3, <1>4 DEF TypeInv

LEMMA OpenTypes ==
  ASSUME TypeInv, NEW w \in Workers, NEW k \in Keys, PS_OPEN(w, k)
  PROVE  TypeInv'
<1>1. CASE w \in opened /\ StartRead(w, k)
  <2>1. parent' \in BOOLEAN
    BY DEF PS_OPEN, TypeInv, StoreOK, store
  <2> QED  BY <1>1, <2>1, StartReadTypes DEF PS_OPEN, store
<1>2. CASE w \notin opened /\ Goto(w, "connect") /\ UNCHANGED <<path, mutex, tries>>
  <2>1. LineOK' /\ StoreOK' /\ MutexOK'
    BY <1>2 DEF TypeInv, LineOK, StoreOK, MutexOK, PS_OPEN, store, zk, mutex
  <2>2. RequestOK'
    BY <1>2 DEF TypeInv, RequestOK, PS_OPEN, Goto, Label
  <2>3. PointersSet'
    BY <1>2 DEF TypeInv, PointersSet, RequestOK, MutexOK, PS_OPEN, Goto, mutex, Using, Reading, LockCalls
  <2> QED  BY <2>1, <2>2, <2>3 DEF TypeInv
<1> QED  BY <1>1, <1>2 DEF PS_OPEN

LEMMA RegisterTypes ==
  ASSUME TypeInv, NEW w \in Workers, pc[w] \in {"connect", "mkparent"}, Register(w),
         UNCHANGED <<data, stale, zk, key, size, seen, victim>>, parent' \in BOOLEAN
  PROVE  TypeInv'
<1>1. key[w] \in Keys /\ key' = [key EXCEPT ![w] = key[w]]
  BY DEF TypeInv, PointersSet, RequestOK
<1> QED  BY <1>1, StartReadTypes DEF Register

LEMMA InitStepTypes ==
  ASSUME TypeInv, NEW w \in Workers, php_zookeeper_session_init(w)
  PROVE  TypeInv'
<1>1. CASE Register(w)
  <2>1. parent' \in BOOLEAN
    BY DEF php_zookeeper_session_init, TypeInv, StoreOK, store
  <2> QED  BY <1>1, <2>1, RegisterTypes DEF php_zookeeper_session_init, store
<1>2. CASE Goto(w, "mkparent") /\ UNCHANGED <<handle, mutex, tries>>
  <2>1. LineOK' /\ StoreOK' /\ MutexOK'
    BY <1>2 DEF TypeInv, LineOK, StoreOK, MutexOK, php_zookeeper_session_init, store, zk, mutex, handle
  <2>2. RequestOK'
    BY <1>2 DEF TypeInv, RequestOK, php_zookeeper_session_init, Goto, Label
  <2>3. PointersSet'
    BY <1>2 DEF TypeInv, PointersSet, RequestOK, php_zookeeper_session_init, Goto, mutex, handle,
                Using, Reading, LockCalls
  <2> QED  BY <2>1, <2>2, <2>3 DEF TypeInv
<1> QED  BY <1>1, <1>2 DEF php_zookeeper_session_init

LEMMA MakeParentTypes ==
  ASSUME TypeInv, NEW w \in Workers, MakeParent(w)
  PROVE  TypeInv'
<1>1. CASE parent' = TRUE /\ Register(w)
  BY <1>1, RegisterTypes DEF MakeParent
<1>2. CASE parent' = TRUE /\ UNCHANGED <<handle, mutex, pc, tries>>
  <2>1. LineOK' /\ StoreOK' /\ MutexOK'
    BY <1>2 DEF TypeInv, LineOK, StoreOK, MutexOK, MakeParent, zk, mutex, handle
  <2>2. RequestOK' /\ PointersSet'
    BY <1>2 DEF TypeInv, RequestOK, PointersSet, MakeParent, mutex, handle
  <2> QED  BY <2>1, <2>2 DEF TypeInv
<1>3. CASE Goto(w, "failed") /\ UNCHANGED <<parent, handle, mutex, tries>>
  <2>1. LineOK' /\ StoreOK' /\ MutexOK'
    BY <1>3 DEF TypeInv, LineOK, StoreOK, MutexOK, MakeParent, zk, mutex, handle
  <2>2. RequestOK'
    BY <1>3 DEF TypeInv, RequestOK, MakeParent, Goto, Label
  <2>3. PointersSet'
    BY <1>3 DEF TypeInv, PointersSet, RequestOK, MakeParent, Goto, mutex, handle, Using, Reading, LockCalls
  <2> QED  BY <2>1, <2>2, <2>3 DEF TypeInv
<1> QED  BY <1>1, <1>2, <1>3 DEF MakeParent

(* InitFails, OpenFailed, Crash and HandleClosed.                          *)
LEMMA EndTypes ==
  ASSUME TypeInv, NEW w \in Workers,
         InitFails(w) \/ OpenFailed(w) \/ Crash(w) \/ HandleClosed(w)
  PROVE  TypeInv'
<1>1. CASE Die(w) /\ UNCHANGED zk
  <2>1. LineOK' /\ alive' \subseteq alive /\ UNCHANGED session_lock
    BY <1>1 DEF TypeInv, LineOK, zk
  <2> QED  BY <1>1, <2>1, DieTypes
<1>2. CASE HandleClosed(w)
  <2>1. LineOK'
    BY <1>2, VacatedLine DEF TypeInv, HandleClosed
  <2> QED  BY <1>2, <2>1, DieTypes DEF HandleClosed
<1>3. CASE OpenFailed(w) /\ ~Die(w)
  <2>1. LineOK' /\ StoreOK' /\ MutexOK'
    BY <1>3 DEF TypeInv, LineOK, StoreOK, MutexOK, OpenFailed, store, zk, mutex, handle
  <2>2. RequestOK'
    BY <1>3 DEF TypeInv, RequestOK, OpenFailed, Goto, Label
  <2>3. PointersSet'
    BY <1>3 DEF TypeInv, PointersSet, RequestOK, OpenFailed, Goto, mutex, handle, Using, Reading, LockCalls
  <2> QED  BY <2>1, <2>2, <2>3 DEF TypeInv
<1> QED  BY <1>1, <1>2, <1>3 DEF InitFails, OpenFailed, Crash

LEMMA LockTryTypes ==
  ASSUME TypeInv, NEW w \in Workers, LockTry(w)
  PROVE  TypeInv'
<1>1. lock[w] \in Keys
  BY DEF TypeInv, PointersSet, LockTry, LockCalls
<1>2. LineOK' /\ isowner' \in [Workers -> BOOLEAN] /\ watch' \in [Workers -> BOOLEAN]
  BY <1>1, LockLine DEF LockTry
<1>3. StoreOK'
  BY DEF TypeInv, StoreOK, LockTry, store
<1>4. MutexOK'
  <2>1. pm' \in [Workers -> BOOLEAN]
    BY DEF TypeInv, MutexOK, LockTry
  <2> QED  BY <1>2, <2>1 DEF TypeInv, MutexOK, LockTry, handle
<1>5. RequestOK'
  BY DEF TypeInv, RequestOK, LockTry, Goto, Label
<1>6. PointersSet'
  BY <1>1 DEF TypeInv, PointersSet, RequestOK, LockTry, Goto, handle, Using, Reading, LockCalls
<1> QED  BY <1>2, <1>3, <1>4, <1>5, <1>6 DEF TypeInv

LEMMA LockGoesOnTypes ==
  ASSUME TypeInv, NEW w \in Workers, LockGoesOn(w)
  PROVE  TypeInv'
<1>1. LineOK' /\ isowner' \in [Workers -> BOOLEAN]
  BY UnlockLine DEF LockGoesOn
<1>2. StoreOK' /\ MutexOK'
  BY <1>1 DEF TypeInv, StoreOK, MutexOK, LockGoesOn, store, handle
<1>3. RequestOK'
  BY DEF TypeInv, RequestOK, LockGoesOn, Goto, Label
<1>4. PointersSet'
  BY DEF TypeInv, PointersSet, RequestOK, LockGoesOn, Goto, handle, Using, Reading, LockCalls
<1> QED  BY <1>1, <1>2, <1>3, <1>4 DEF TypeInv

LEMMA LockReturnTypes ==
  ASSUME TypeInv, NEW w \in Workers, LockReturn(w)
  PROVE  TypeInv'
<1>1. lock[w] \in Keys /\ key[w] \in Keys
  BY DEF TypeInv, PointersSet, LockReturn, LockCalls
<1>2. LineOK' /\ StoreOK'
  BY DEF TypeInv, LineOK, StoreOK, LockReturn, store, zk
<1>3. MutexOK'
  BY <1>1 DEF TypeInv, MutexOK, LockReturn, zk, mutex
<1>4. RequestOK'
  <2>1. AttemptsLeft(w) \in Int
    BY DEF TypeInv, RequestOK, AttemptsLeft
  <2> QED  BY <2>1 DEF TypeInv, RequestOK, LockReturn, Goto, Label
<1>5. PointersSet'
  <2>1. CASE Locked(w)
    BY <1>1, <2>1 DEF TypeInv, PointersSet, RequestOK, MutexOK, LockReturn, TriesAgain, Goto, mutex, Using, Reading, LockCalls
  <2>2. CASE ~Locked(w)
    BY <1>1, <2>2 DEF TypeInv, PointersSet, RequestOK, MutexOK, LockReturn, TriesAgain, Goto, mutex, Using, Reading, LockCalls
  <2> QED  BY <2>1, <2>2
<1> QED  BY <1>2, <1>3, <1>4, <1>5 DEF TypeInv

(* PS_READ_FUNC after the lock.                                            *)
LEMMA ReadTypes ==
  ASSUME TypeInv, NEW w \in Workers, ReadExists(w) \/ ReadDelete(w) \/ ReadGet(w)
  PROVE  TypeInv'
<1>1. path[w] \in Keys /\ data[path[w]] \in 1..MaxData \cup {NULL}
  BY DEF TypeInv, PointersSet, StoreOK, ReadExists, ReadDelete, ReadGet, Using, Reading, LockCalls
<1>2. LineOK' /\ MutexOK'
  BY DEF TypeInv, LineOK, MutexOK, ReadExists, ReadDelete, ReadGet, zk, handle, mutex
<1>3. StoreOK'
  BY DEF TypeInv, StoreOK, ReadExists, ReadDelete, ReadGet, Delete, store
<1>4. RequestOK'
  <2>1. /\ data[path[w]] \in Data /\ NULL \in Data
        /\ data[path[w]] # NULL => Received(w, data[path[w]]) \in Data
    BY <1>1, LimitsAssumption DEF Data, CUT, Received
  <2> HIDE DEF Data
  <2>2. CASE ReadExists(w)
    BY <2>1, <2>2 DEF TypeInv, RequestOK, ReadExists, ReadReturns, Goto, Label
  <2>3. CASE ReadDelete(w)
    BY <2>1, <2>3 DEF TypeInv, RequestOK, ReadDelete, ReadReturns, Goto, Label
  <2>4. CASE ReadGet(w)
    BY <2>1, <2>4 DEF TypeInv, RequestOK, ReadGet, ReadReturns, Goto, Label
  <2> QED  BY <2>2, <2>3, <2>4
<1>5. PointersSet'
  <2>1. UNCHANGED <<key, lock, path, is_locked, victim, tries, at, cb>>
    BY DEF ReadExists, ReadDelete, ReadGet, handle, mutex
  <2>2. \E l \in {"expired", "get", "user"} : pc' = [pc EXCEPT ![w] = l]
    BY DEF ReadExists, ReadDelete, ReadGet, ReadReturns, Goto, TypeInv, RequestOK
  <2> QED  BY <1>1, <2>1, <2>2 DEF TypeInv, PointersSet, RequestOK, Using, Reading, LockCalls
<1> QED  BY <1>2, <1>3, <1>4, <1>5 DEF TypeInv

(* PS_WRITE_FUNC, PS_DESTROY_FUNC and PS_GC_FUNC after their call.         *)
LEMMA UpdateTypes ==
  ASSUME NEW d
  PROVE  Update(d) \in 1..MaxData
BY LimitsAssumption DEF Update

LEMMA WriteTypes ==
  ASSUME TypeInv, NEW w \in Workers,
         WriteExists(w) \/ WriteCreate(w) \/ WriteSet(w) \/ DestroyDelete(w) \/ GcDelete(w)
  PROVE  TypeInv'
<1>1. path[w] \in Keys
  BY DEF TypeInv, PointersSet, WriteExists, WriteCreate, WriteSet, DestroyDelete, GcDelete, Using
<1>2. LineOK' /\ MutexOK'
  BY DEF TypeInv, LineOK, MutexOK, WriteExists, WriteCreate, WriteSet, DestroyDelete, GcDelete,
         zk, handle, mutex
<1>3. StoreOK'
  <2>1. \/ UNCHANGED <<data, stale>>
        \/ Store(w)
        \/ Delete(path[w])
        \/ Delete(victim[w])
    BY DEF WriteExists, WriteCreate, WriteSet, DestroyDelete, GcDelete, store
  <2>2. UNCHANGED parent
    BY DEF WriteExists, WriteCreate, WriteSet, DestroyDelete, GcDelete, store
  <2>3. /\ data' \in [Keys -> 1..MaxData \cup {NULL}]
        /\ stale' \in [Keys -> BOOLEAN]
    <3>1. data \in [Keys -> 1..MaxData \cup {NULL}] /\ stale \in [Keys -> BOOLEAN]
      BY DEF TypeInv, StoreOK
    <3>2. CASE Store(w)
      <4>1. Update(seen[w]) \in 1..MaxData
        BY UpdateTypes
      <4> QED  BY <3>1, <3>2, <4>1 DEF Store
    <3>3. CASE \E j : Delete(j)
      BY <3>1, <3>3 DEF Delete
    <3> QED  BY <2>1, <3>1, <3>2, <3>3
  <2> QED  BY <2>2, <2>3 DEF TypeInv, StoreOK
<1>4. \E l \in Using \cup {"close"} : l # "gc" /\ pc' = [pc EXCEPT ![w] = l]
  <2>1. CASE \E l \in {"set", "create", "close", "user"} : Goto(w, l)
    BY <2>1 DEF Goto, Using
  <2>2. CASE UNCHANGED pc /\ pc[w] \in {"create", "unset"}
    BY <2>2 DEF TypeInv, RequestOK, Using
  <2> QED  BY <2>1, <2>2 DEF WriteExists, WriteCreate, WriteSet, DestroyDelete, GcDelete
<1>5. UNCHANGED <<key, lock, path, is_locked, tries, size, seen, at, cb>>
  BY DEF WriteExists, WriteCreate, WriteSet, DestroyDelete, GcDelete, handle, mutex
<1>6. victim' \in {victim, [victim EXCEPT ![w] = NULL]}
  BY DEF WriteExists, WriteCreate, WriteSet, DestroyDelete, GcDelete
<1>7. RequestOK'
  BY <1>4, <1>5, <1>6 DEF TypeInv, RequestOK, Using, Reading, LockCalls, Label
<1>8. PointersSet'
  BY <1>1, <1>4, <1>5, <1>6 DEF TypeInv, PointersSet, RequestOK, Using, Reading, LockCalls
<1> QED  BY <1>2, <1>3, <1>7, <1>8 DEF TypeInv

LEMMA ScriptTypes ==
  ASSUME TypeInv, NEW w \in Workers, NEW k \in Keys,
         Regenerate(w, k) \/ PS_GC(w, k) \/ PS_WRITE(w) \/ PS_DESTROY(w)
  PROVE  TypeInv'
<1> USE DEF Regenerate, PS_GC, PS_WRITE, PS_DESTROY, Call, Goto
<1>1. LineOK' /\ StoreOK' /\ MutexOK'
  BY DEF TypeInv, LineOK, StoreOK, MutexOK, store, zk, handle, mutex
<1>2. RequestOK'
  BY DEF TypeInv, RequestOK, Label
<1>3. PointersSet'
  BY DEF TypeInv, PointersSet, RequestOK, handle, mutex, Using, Reading, LockCalls
<1> QED  BY <1>1, <1>2, <1>3 DEF TypeInv

LEMMA CloseTypes ==
  ASSUME TypeInv, NEW w \in Workers, PS_CLOSE(w) \/ zkr_lock_destroy(w)
  PROVE  TypeInv'
<1>1. LineOK'
  <2>1. CASE UNCHANGED line
    BY <2>1 DEF TypeInv, LineOK
  <2>2. CASE zkr_lock_unlock(w)
    BY <2>2, UnlockLine
  <2> QED  BY <2>1, <2>2 DEF PS_CLOSE, zkr_lock_destroy, zk
<1>2. StoreOK'
  BY DEF TypeInv, StoreOK, PS_CLOSE, zkr_lock_destroy, store
<1>3. MutexOK'
  <2>1. isowner' \in [Workers -> BOOLEAN]
    BY DEF TypeInv, MutexOK, PS_CLOSE, zkr_lock_unlock, zkr_lock_destroy
  <2> QED  BY <2>1 DEF TypeInv, MutexOK, PS_CLOSE, zkr_lock_destroy, zk, handle
<1>4. RequestOK'
  BY DEF TypeInv, RequestOK, PS_CLOSE, zkr_lock_unlock, zkr_lock_destroy, RequestOver, Goto, Label, Data
<1>5. PointersSet'
  <2>1. CASE PS_CLOSE(w)
    BY <2>1 DEF TypeInv, PointersSet, RequestOK, MutexOK, PS_CLOSE, RequestOver, Goto, handle,
                Using, Reading, LockCalls
  <2>2. CASE zkr_lock_destroy(w)
    BY <2>2 DEF TypeInv, PointersSet, RequestOK, MutexOK, zkr_lock_destroy, RequestOver, Goto,
                Using, Reading, LockCalls
  <2> QED  BY <2>1, <2>2
<1> QED  BY <1>1, <1>2, <1>3, <1>4, <1>5 DEF TypeInv

LEMMA CallbackTypes ==
  ASSUME TypeInv, NEW w \in Workers, CallbackStart(w) \/ CallbackStep(w)
  PROVE  TypeInv'
<1> USE DEF CallbackStart, CallbackStep, CallbackLook, CallbackCreate, CallbackOrder, CallbackWatch,
            CallbackUnlock, CallbackFails
<1>1. StoreOK' /\ RequestOK'
  BY DEF TypeInv, StoreOK, RequestOK, store, request
<1>2. LineOK'
  <2>1. CASE UNCHANGED line
    BY <2>1 DEF TypeInv, LineOK
  <2>2. CASE CallbackCreate(w)
    BY <2>2, CreateLine
  <2>3. CASE zkr_lock_unlock(w)
    BY <2>3, UnlockLine
  <2> QED  BY <2>1, <2>2, <2>3 DEF zk
<1>3. isowner' \in [Workers -> BOOLEAN]
  <2>1. isowner \in [Workers -> BOOLEAN]
    BY DEF TypeInv, MutexOK
  <2>2. CASE UNCHANGED isowner \/ \E b \in BOOLEAN : isowner' = [isowner EXCEPT ![w] = b]
    BY <2>1, <2>2
  <2>3. CASE CallbackUnlock(w)
    BY <2>3, UnlockLine
  <2>4. CASE CallbackLook(w) \/ CallbackOrder(w)
    BY <2>2, <2>4 DEF OtherChild, First
  <2> QED  BY <2>2, <2>3, <2>4
<1>4. /\ watch' \in [Workers -> BOOLEAN]
      /\ pm' \in [Workers -> BOOLEAN]
      /\ \E k \in Keys \cup {NULL} : cb' = [cb EXCEPT ![w] = k]
      /\ \E l \in CallbackCall : /\ at' = [at EXCEPT ![w] = l]
                                 /\ l \notin {"none", "look"} => cb'[w] \in Keys
  <2>1. /\ watch \in [Workers -> BOOLEAN] /\ pm \in [Workers -> BOOLEAN]
        /\ cb \in [Workers -> Keys \cup {NULL}] /\ lock \in [Workers -> Keys \cup {NULL}]
        /\ at \in [Workers -> CallbackCall]
    BY DEF TypeInv, MutexOK
  <2>2. at[w] \notin {"none", "look"} => cb[w] \in Keys
    BY DEF TypeInv, PointersSet
  <2>3. cb = [cb EXCEPT ![w] = cb[w]]
    BY <2>1
  <2>4. (lock[w] # NULL) \in BOOLEAN
    OBVIOUS
  <2>5. watch' \in [Workers -> BOOLEAN] /\ pm' \in [Workers -> BOOLEAN]
    <3>1. pm' \in {pm, [pm EXCEPT ![w] = FALSE], [pm EXCEPT ![w] = lock[w] # NULL]}
      BY DEF CallbackRound, CallbackEnds
    <3>2. UNCHANGED watch \/ \E b \in BOOLEAN : watch' = [watch EXCEPT ![w] = b]
      BY <2>1
    <3> QED  BY <2>1, <2>4, <3>1, <3>2
  <2>6. CASE CallbackStart(w)
    BY <2>1, <2>5, <2>6 DEF CallbackCall
  <2>7. CASE CallbackRound(w) \/ CallbackEnds(w)
    BY <2>1, <2>5, <2>7 DEF CallbackRound, CallbackEnds, CallNext, CallbackCall
  <2>8. CASE CallbackLook(w)
    <3>1. PICK k \in Keys : cb' = [cb EXCEPT ![w] = k]
      BY <2>1, <2>8
    <3>2. cb'[w] \in Keys
      BY <2>1, <3>1
    <3>3. at' = [at EXCEPT ![w] = "create"] \/ at' = [at EXCEPT ![w] = "order"]
      BY <2>8 DEF CallNext
    <3>4. "create" \in CallbackCall /\ "order" \in CallbackCall
      BY DEF CallbackCall
    <3> QED  BY <2>5, <3>1, <3>2, <3>3, <3>4
  <2>9. CASE /\ at[w] \in {"create", "order", "watch"} /\ UNCHANGED cb
             /\ \E l \in {"order", "watch", "unlock"} : CallNext(w, l)
    BY <2>1, <2>2, <2>3, <2>5, <2>9 DEF CallNext, CallbackCall
  <2>10. CASE UNCHANGED <<at, cb>>
    <3>1. cb[w] \in Keys \cup {NULL} /\ at[w] \in CallbackCall /\ at' = [at EXCEPT ![w] = at[w]]
      BY <2>1, <2>10
    <3> QED  BY <2>2, <2>3, <2>5, <2>10, <3>1
  <2> QED  BY <2>6, <2>7, <2>8, <2>9, <2>10
<1>5. UNCHANGED <<session_lock, alive, handle, lock, torn, request>>
  BY DEF zk
<1> HIDE DEF CallbackStart, CallbackStep, CallbackLook, CallbackCreate, CallbackOrder, CallbackWatch,
             CallbackUnlock, CallbackFails
<1>6. /\ cb \in [Workers -> Keys \cup {NULL}] /\ at \in [Workers -> CallbackCall]
      /\ \A v \in Workers : at[v] \notin {"none", "look"} => cb[v] \in Keys
  BY DEF TypeInv, MutexOK, PointersSet
<1>7. /\ cb' \in [Workers -> Keys \cup {NULL}] /\ at' \in [Workers -> CallbackCall]
      /\ \A v \in Workers : at'[v] \notin {"none", "look"} => cb'[v] \in Keys
  <2>1. PICK k \in Keys \cup {NULL} : cb' = [cb EXCEPT ![w] = k]
    BY <1>4
  <2>2. PICK l \in CallbackCall : /\ at' = [at EXCEPT ![w] = l]
                                  /\ l \notin {"none", "look"} => cb'[w] \in Keys
    BY <1>4
  <2>3. /\ cb' \in [Workers -> Keys \cup {NULL}] /\ at' \in [Workers -> CallbackCall]
        /\ at'[w] = l /\ \A v \in Workers \ {w} : at'[v] = at[v] /\ cb'[v] = cb[v]
    BY <1>6, <2>1, <2>2
  <2> QED  BY <1>6, <2>2, <2>3
<1>8. MutexOK'
  BY <1>3, <1>4, <1>5, <1>7 DEF TypeInv, MutexOK, handle
<1>9. PointersSet'
  BY <1>5, <1>7 DEF TypeInv, PointersSet, request, handle
<1> QED  BY <1>1, <1>2, <1>8, <1>9 DEF TypeInv

LEMMA EnvironmentTypes ==
  ASSUME TypeInv,
         \/ \E k \in Keys : Age(k)
         \/ \E w \in Workers : Expire(w) \/ php_zookeeper_connection_dtor(w)
  PROVE  TypeInv'
<1>1. ASSUME NEW k \in Keys, Age(k)  PROVE  TypeInv'
  BY <1>1 DEF TypeInv, LineOK, StoreOK, MutexOK, RequestOK, PointersSet, Age, zk, handle, mutex, request
<1>2. ASSUME NEW w \in Workers, Expire(w)  PROVE  TypeInv'
  <2>1. LineOK'
    BY <1>2, VacatedLine DEF TypeInv, Expire
  <2>2. StoreOK' /\ MutexOK' /\ RequestOK' /\ PointersSet'
    BY <1>2 DEF TypeInv, StoreOK, MutexOK, RequestOK, PointersSet, Expire, store, handle, mutex, request
  <2> QED  BY <2>1, <2>2 DEF TypeInv
<1>3. ASSUME NEW w \in Workers, php_zookeeper_connection_dtor(w)  PROVE  TypeInv'
  <2>1. LineOK' /\ StoreOK' /\ MutexOK'
    BY <1>3 DEF TypeInv, LineOK, StoreOK, MutexOK, php_zookeeper_connection_dtor, store, zk, handle, mutex
  <2>2. RequestOK' /\ PointersSet'
    BY <1>3 DEF TypeInv, RequestOK, PointersSet, php_zookeeper_connection_dtor, Goto, handle, mutex,
                Label, Using, Reading, LockCalls
  <2> QED  BY <2>1, <2>2 DEF TypeInv
<1> QED  BY <1>1, <1>2, <1>3

LEMMA TypeStep ==
  TypeInv /\ [Next]_vars => TypeInv'
<1> SUFFICES ASSUME TypeInv, [Next]_vars  PROVE  TypeInv'
  OBVIOUS
<1>1. CASE UNCHANGED vars
  BY <1>1 DEF TypeInv, LineOK, StoreOK, MutexOK, RequestOK, PointersSet, vars, store, zk, handle,
              mutex, request
<1>2. ASSUME NEW w \in Workers, HandlerStep(w)  PROVE  TypeInv'
  BY <1>2, InitStepTypes, MakeParentTypes, EndTypes, LockTryTypes, LockGoesOnTypes, LockReturnTypes, ReadTypes,
     WriteTypes, CloseTypes DEF HandlerStep
<1>3. ASSUME NEW w \in Workers, ScriptStep(w)  PROVE  TypeInv'
  <2>1. CASE Keys = {}
    BY <1>3, <2>1 DEF ScriptStep, PS_WRITE, PS_DESTROY, Call, TypeInv, PointersSet, Using
  <2>2. CASE Keys # {}
    BY <1>3, <2>2, ScriptTypes DEF ScriptStep
  <2> QED  BY <2>1, <2>2
<1>4. ASSUME NEW w \in Workers,
             \/ \E k \in Keys : PS_OPEN(w, k)
             \/ CallbackStart(w) \/ CallbackStep(w) \/ Crash(w)
      PROVE  TypeInv'
  BY <1>4, OpenTypes, CallbackTypes, EndTypes
<1>5. CASE \/ \E k \in Keys : Age(k)
           \/ \E w \in Workers : Expire(w) \/ php_zookeeper_connection_dtor(w)
  BY <1>5, EnvironmentTypes
<1> QED  BY <1>1, <1>2, <1>3, <1>4, <1>5 DEF Next

(***************************************************************************)
(* The handlers follow session->path, session->lock.path, PS(id) and the   *)
(* path that PS_GC_FUNC builds, and lock_watcher_fn the path that it read, *)
(* only when they are set; of two children of a lock path one is in front  *)
(* of the other, also when two threads of a worker have created both; and  *)
(* every variable has its type, for any workers, session ids, attempts and *)
(* contents.                                                               *)
(***************************************************************************)
THEOREM SessionTypeInvariant ==
  Spec => []TypeInv
BY InitTypes, TypeStep, PTL DEF Spec

(***************************************************************************)
(* Every variable has its type, and php_zookeeper_sess_lock makes another  *)
(* attempt only when some are left, whatever lock_watcher_fn does to the   *)
(* mutex in between.                                                       *)
(***************************************************************************)
THEOREM SessionTypes ==
  Spec => []TypeOK
BY SessionTypeInvariant, TypeInvTypes, PTL

-----------------------------------------------------------------------------
(* is_locked *)

LEMMA LockedStep ==
  ASSUME TypeInv, LockedInRequest, [Next]_vars
  PROVE  LockedInRequest'
<1> USE DEF LockedInRequest, Using, Reading, LockCalls
<1>0. /\ pc \in [Workers -> Label] /\ is_locked \in [Workers -> BOOLEAN]
      /\ path \in [Workers -> Keys \cup {NULL}] /\ lock \in [Workers -> Keys \cup {NULL}]
      /\ key \in [Workers -> Keys \cup {NULL}]
  BY DEF TypeInv, RequestOK, MutexOK
<1>1. ASSUME NEW w \in Workers, NEW k \in Keys, pc[w] \in {"idle", "connect", "mkparent"},
             StartRead(w, k), key' = [key EXCEPT ![w] = k],
             is_locked' \in {is_locked, [is_locked EXCEPT ![w] = FALSE]}
      PROVE  LockedInRequest'
  <2>1. ~is_locked[w]
    BY <1>1
  <2> QED  BY <1>0, <1>1, <2>1 DEF StartRead, zkr_lock_init, Goto, mutex
<1>2. ASSUME NEW w \in Workers, NEW k \in Keys, PS_OPEN(w, k)  PROVE  LockedInRequest'
  <2>1. CASE StartRead(w, k)
    BY <1>1, <1>2, <2>1 DEF PS_OPEN
  <2>2. CASE Goto(w, "connect") /\ UNCHANGED <<path, mutex, is_locked>>
    BY <1>0, <1>2, <2>2 DEF PS_OPEN, Goto, mutex
  <2> QED  BY <1>2, <2>1, <2>2 DEF PS_OPEN
<1>3. ASSUME NEW w \in Workers, php_zookeeper_session_init(w) \/ MakeParent(w)
      PROVE  LockedInRequest'
  <2>1. pc[w] \in {"connect", "mkparent"} /\ UNCHANGED key /\ key[w] \in Keys
    BY <1>3 DEF TypeInv, PointersSet, php_zookeeper_session_init, MakeParent
  <2>2. CASE Register(w)
    BY <1>0, <1>1, <2>1, <2>2 DEF Register
  <2>3. CASE UNCHANGED <<handle, mutex>> /\ (Goto(w, "mkparent") \/ Goto(w, "failed") \/ UNCHANGED pc)
    BY <1>0, <2>1, <2>3 DEF Goto, handle, mutex
  <2> QED  BY <1>3, <2>2, <2>3 DEF php_zookeeper_session_init, MakeParent
<1>4. ASSUME NEW w \in Workers, InitFails(w) \/ OpenFailed(w) \/ Crash(w) \/ HandleClosed(w)
      PROVE  LockedInRequest'
  BY <1>0, <1>4 DEF InitFails, OpenFailed, Crash, HandleClosed, Die, Goto, handle, mutex
<1>5. ASSUME NEW w \in Workers, LockTry(w) \/ LockGoesOn(w)  PROVE  LockedInRequest'
  BY <1>0, <1>5 DEF LockTry, LockGoesOn, Goto, handle
<1>6. ASSUME NEW w \in Workers, LockReturn(w)  PROVE  LockedInRequest'
  BY <1>0, <1>6 DEF LockReturn, Goto, mutex
<1>7. ASSUME NEW w \in Workers, ReadExists(w) \/ ReadDelete(w) \/ ReadGet(w)
      PROVE  LockedInRequest'
  BY <1>0, <1>7 DEF ReadExists, ReadDelete, ReadGet, ReadReturns, Goto, handle, mutex
<1>8. ASSUME NEW w \in Workers,
             WriteExists(w) \/ WriteCreate(w) \/ WriteSet(w) \/ DestroyDelete(w) \/ GcDelete(w)
      PROVE  LockedInRequest'
  BY <1>0, <1>8 DEF WriteExists, WriteCreate, WriteSet, DestroyDelete, GcDelete, Goto, handle, mutex
<1>9. ASSUME NEW w \in Workers, PS_CLOSE(w) \/ zkr_lock_destroy(w)  PROVE  LockedInRequest'
  BY <1>0, <1>9 DEF PS_CLOSE, zkr_lock_destroy, RequestOver, Goto, handle
<1>10. ASSUME NEW w \in Workers, ScriptStep(w)  PROVE  LockedInRequest'
  BY <1>0, <1>10 DEF ScriptStep, Regenerate, PS_GC, PS_WRITE, PS_DESTROY, Call, Goto, handle, mutex
<1>11. ASSUME NEW w \in Workers,
              CallbackStart(w) \/ CallbackStep(w) \/ Expire(w) \/ php_zookeeper_connection_dtor(w)
       PROVE  LockedInRequest'
  <2>1. CASE UNCHANGED <<handle, lock, request>>
    BY <2>1 DEF handle, request
  <2>2. CASE php_zookeeper_connection_dtor(w)
    BY <1>0, <2>2 DEF php_zookeeper_connection_dtor, Goto, handle, mutex
  <2> QED  BY <1>11, <2>1, <2>2 DEF CallbackStart, CallbackStep, CallbackLook, CallbackCreate,
              CallbackOrder, CallbackWatch, CallbackUnlock, CallbackFails, Expire, mutex
<1>12. ASSUME NEW k \in Keys, Age(k)  PROVE  LockedInRequest'
  BY <1>12 DEF Age, handle, mutex, request
<1>13. CASE UNCHANGED vars
  BY <1>13 DEF vars, handle, mutex, request
<1>14. ASSUME NEW w \in Workers, HandlerStep(w)  PROVE  LockedInRequest'
  BY <1>3, <1>4, <1>5, <1>6, <1>7, <1>8, <1>9, <1>14 DEF HandlerStep
<1> QED  BY <1>2, <1>4, <1>10, <1>11, <1>12, <1>13, <1>14 DEF Next

-----------------------------------------------------------------------------
(* pmutex *)

LEMMA InsideStep ==
  ASSUME TypeInv, OneInside, [Next]_vars
  PROVE  OneInside'
<1>0. /\ pc \in [Workers -> Label] /\ lock \in [Workers -> Keys \cup {NULL}]
      /\ cb \in [Workers -> Keys \cup {NULL}] /\ at \in [Workers -> CallbackCall]
      /\ pm \in [Workers -> BOOLEAN]
  BY DEF TypeInv, RequestOK, MutexOK
(* A step of the main thread that is not in the mutex.                     *)
<1>q. ASSUME UNCHANGED <<lock, pm, at, cb, torn>>,
             \A v \in Workers : pc'[v] = "stuck" => pc[v] = "stuck"
      PROVE  OneInside'
  BY <1>q DEF OneInside
<1>1. ASSUME NEW w \in Workers, NEW k \in Keys, pc[w] # "stuck", StartRead(w, k)
      PROVE  OneInside'
  <2>1. CASE UNCHANGED mutex /\ Goto(w, "exists")
    BY <1>0, <1>q, <2>1 DEF Goto, mutex
  <2>2. CASE zkr_lock_init(w, k) /\ Goto(w, "lock")
    <3>1. /\ at' = at /\ cb' = cb /\ torn \subseteq torn' /\ (w \notin torn' => at[w] = "none")
          /\ pc'[w] = "lock"
          /\ \A v \in Workers \ {w} : lock'[v] = lock[v] /\ pm'[v] = pm[v] /\ pc'[v] = pc[v]
      BY <1>0, <2>2 DEF zkr_lock_init, Goto
    <3> QED  BY <3>1 DEF OneInside
  <2> QED  BY <1>1, <2>1, <2>2 DEF StartRead
<1>2. ASSUME NEW w \in Workers, NEW k \in Keys, PS_OPEN(w, k)  PROVE  OneInside'
  <2>1. CASE UNCHANGED mutex /\ Goto(w, "connect")
    BY <1>0, <1>q, <2>1 DEF Goto, mutex
  <2> QED  BY <1>1, <1>2, <2>1 DEF PS_OPEN
<1>3. ASSUME NEW w \in Workers, php_zookeeper_session_init(w) \/ MakeParent(w)
      PROVE  OneInside'
  <2>1. pc[w] \in {"connect", "mkparent"} /\ key[w] \in Keys
    BY <1>3 DEF TypeInv, PointersSet, php_zookeeper_session_init, MakeParent
  <2>2. CASE Register(w)
    BY <1>1, <2>1, <2>2 DEF Register
  <2>3. CASE UNCHANGED mutex /\ (Goto(w, "mkparent") \/ Goto(w, "failed") \/ UNCHANGED pc)
    BY <1>0, <1>q, <2>3 DEF Goto, mutex
  <2> QED  BY <1>3, <2>2, <2>3 DEF php_zookeeper_session_init, MakeParent
<1>4. ASSUME NEW w \in Workers, InitFails(w) \/ OpenFailed(w) \/ Crash(w) \/ HandleClosed(w)
      PROVE  OneInside'
  <2>1. CASE Die(w)
    BY <1>0, <2>1 DEF OneInside, Die
  <2>2. CASE UNCHANGED mutex /\ Goto(w, "idle")
    BY <1>0, <1>q, <2>2 DEF Goto, mutex
  <2> QED  BY <1>4, <2>1, <2>2 DEF InitFails, OpenFailed, Crash, HandleClosed
(* The main thread enters a mutex that no callback is in.                  *)
<1>5. ASSUME NEW w \in Workers, LockTry(w)  PROVE  OneInside'
  <2>1. lock[w] \in Keys /\ lock[w] # NULL /\ ~pm[w]
    BY <1>5, NullAssumption DEF TypeInv, PointersSet, LockTry, LockCalls
  <2>2. w \notin torn => at[w] = "none"
    BY <2>1 DEF OneInside
  <2>3. /\ UNCHANGED <<lock, at, cb, torn>>
        /\ pc'[w] = "stuck" => pm'[w]
        /\ \A v \in Workers \ {w} : pm'[v] = pm[v] /\ pc'[v] = pc[v]
    BY <1>0, <1>5 DEF LockTry, Goto
  <2> QED  BY <2>2, <2>3 DEF OneInside
<1>6. ASSUME NEW w \in Workers, LockGoesOn(w)  PROVE  OneInside'
  BY <1>0, <1>q, <1>6 DEF LockGoesOn, Goto
<1>7. ASSUME NEW w \in Workers, LockReturn(w)  PROVE  OneInside'
  BY <1>0, <1>q, <1>7 DEF LockReturn, Goto, mutex
<1>8. ASSUME NEW w \in Workers, ReadExists(w) \/ ReadDelete(w) \/ ReadGet(w)
      PROVE  OneInside'
  BY <1>0, <1>q, <1>8 DEF ReadExists, ReadDelete, ReadGet, ReadReturns, Goto, mutex
<1>9. ASSUME NEW w \in Workers,
             WriteExists(w) \/ WriteCreate(w) \/ WriteSet(w) \/ DestroyDelete(w) \/ GcDelete(w)
      PROVE  OneInside'
  BY <1>0, <1>q, <1>9 DEF WriteExists, WriteCreate, WriteSet, DestroyDelete, GcDelete, Goto, mutex
<1>10. ASSUME NEW w \in Workers, PS_CLOSE(w)  PROVE  OneInside'
  BY <1>0, <1>q, <1>10 DEF PS_CLOSE, RequestOver, Goto
<1>11. ASSUME NEW w \in Workers, zkr_lock_destroy(w)  PROVE  OneInside'
  BY <1>0, <1>11 DEF OneInside, zkr_lock_destroy, RequestOver, Goto
<1>12. ASSUME NEW w \in Workers, ScriptStep(w)  PROVE  OneInside'
  BY <1>0, <1>q, <1>12 DEF ScriptStep, Regenerate, PS_GC, PS_WRITE, PS_DESTROY, Call, Goto, mutex
<1>13. ASSUME NEW w \in Workers, CallbackStart(w)  PROVE  OneInside'
  BY <1>0, <1>13 DEF OneInside, CallbackStart, request
<1>14. ASSUME NEW w \in Workers, CallbackStep(w)  PROVE  OneInside'
  <2>1. at[w] # "none" /\ UNCHANGED <<lock, torn, pc>>
    BY <1>14 DEF CallbackStep, CallbackLook, CallbackCreate, CallbackOrder, CallbackWatch,
                 CallbackUnlock, CallbackFails, request
  <2>2. CASE CallbackRound(w) \/ CallbackEnds(w)
    BY <1>0, <2>1, <2>2 DEF OneInside, CallbackRound, CallbackEnds, CallNext
  <2>3. CASE CallbackLook(w)
    BY <1>0, <2>1, <2>3 DEF OneInside, CallbackLook, CallNext
  <2>4. CASE /\ at[w] # "look" /\ UNCHANGED <<cb, pm>>
             /\ \E l \in {"order", "watch", "unlock"} : CallNext(w, l)
    BY <1>0, <2>1, <2>4 DEF OneInside, CallNext
  <2>5. CASE UNCHANGED <<at, cb, pm>>
    BY <1>0, <2>1, <2>5 DEF OneInside
  <2> QED  BY <1>14, <2>2, <2>3, <2>4, <2>5 DEF CallbackStep, CallbackCreate, CallbackOrder, CallbackWatch,
              CallbackUnlock, CallbackFails
<1>15. ASSUME NEW w \in Workers, Expire(w) \/ php_zookeeper_connection_dtor(w)  PROVE  OneInside'
  BY <1>0, <1>q, <1>15 DEF Expire, php_zookeeper_connection_dtor, Goto, mutex, request
<1>16. CASE (\E k \in Keys : Age(k)) \/ UNCHANGED vars
  BY <1>q, <1>16 DEF Age, vars, mutex, request
<1>17. ASSUME NEW w \in Workers, HandlerStep(w)  PROVE  OneInside'
  BY <1>3, <1>4, <1>5, <1>6, <1>7, <1>8, <1>9, <1>10, <1>11, <1>17 DEF HandlerStep
<1> QED  BY <1>2, <1>4, <1>12, <1>13, <1>14, <1>15, <1>16, <1>17 DEF Next

-----------------------------------------------------------------------------
(* Who owns the lock *)

(* A step of one worker: the others keep their mutex and their place.      *)
OthersKeep(w) ==
  /\ alive' \subseteq alive /\ torn \subseteq torn'
  /\ \A v \in Workers \ {w} :
       /\ isowner'[v] = isowner[v] /\ is_locked'[v] = is_locked[v]
       /\ pc'[v] = pc[v] /\ lock'[v] = lock[v]
       /\ \A j \in Keys : FirstIn(v, line[j]) => FirstIn(v, line'[j])

Owns(w) ==
  /\ isowner[w] \/ is_locked[w]
  /\ w \in alive /\ pc[w] # "free" /\ lock[w] # NULL

LEMMA OwnerFrame ==
  ASSUME TypeInv, OwnerIsFirst, NEW w \in Workers, OthersKeep(w),
         w \notin torn' /\ Owns(w)' => FirstIn(w, line'[lock'[w]])
  PROVE  OwnerIsFirst'
<1> SUFFICES ASSUME NEW v \in Workers \ torn', Owns(v)'
             PROVE  FirstIn(v, line'[lock'[v]])
  BY DEF OwnerIsFirst, Owns
<1>1. CASE v # w
  <2>1. Owns(v) /\ v \notin torn /\ lock'[v] = lock[v]
    BY <1>1 DEF OthersKeep, Owns
  <2>2. lock[v] \in Keys
    BY <2>1 DEF Owns, TypeInv, MutexOK
  <2>3. FirstIn(v, line[lock[v]])
    BY <2>1 DEF OwnerIsFirst, Owns
  <2> QED  BY <1>1, <2>1, <2>2, <2>3 DEF OthersKeep
<1> QED  BY <1>1

(* A step that makes no owner and moves no line.                           *)
LEMMA QuietOwner ==
  ASSUME OwnerIsFirst, UNCHANGED line, alive' \subseteq alive, torn \subseteq torn',
         \A v \in Workers : Owns(v)' => Owns(v) /\ lock'[v] = lock[v]
  PROVE  OwnerIsFirst'
<1> SUFFICES ASSUME NEW v \in Workers \ torn', Owns(v)'
             PROVE  FirstIn(v, line'[lock'[v]])
  BY DEF OwnerIsFirst, Owns
<1>1. Owns(v) /\ v \notin torn /\ lock'[v] = lock[v]
  OBVIOUS
<1> QED  BY <1>1 DEF OwnerIsFirst, Owns

(* zkr_lock_lock on the main thread.                                       *)
LEMMA LockTryOwner ==
  ASSUME SessionInv, NEW w \in Workers, LockTry(w)
  PROVE  OwnerIsFirst'
<1>1. TypeInv /\ OwnerIsFirst /\ pc \in [Workers -> Label] /\ pc[w] = "lock"
  BY DEF SessionInv, TypeInv, RequestOK, LockTry
<1>2. lock[w] \in Keys /\ ~is_locked[w] /\ lock[w] # NULL
  BY <1>1, NullAssumption DEF SessionInv, TypeInv, PointersSet, LockedInRequest, LockCalls, Using, Reading
<1>3. /\ \A j \in Keys : \A v \in Workers : FirstIn(v, line[j]) => FirstIn(v, line'[j])
      /\ \A v \in Workers \ {w} : isowner'[v] = isowner[v]
      /\ w \notin torn /\ isowner'[w] => isowner[w] \/ FirstIn(w, line'[lock[w]])
  BY <1>1, <1>2, LockLine DEF LockTry
<1>4. /\ UNCHANGED <<alive, is_locked, lock, torn>>
      /\ \A v \in Workers \ {w} : pc'[v] = pc[v]
  BY <1>1 DEF LockTry, Goto, handle
<1>5. OthersKeep(w)
  BY <1>3, <1>4 DEF OthersKeep
<1>6. ASSUME w \notin torn', Owns(w)'  PROVE  FirstIn(w, line'[lock'[w]])
  <2>1. w \notin torn /\ isowner'[w] /\ w \in alive
    BY <1>2, <1>4, <1>6 DEF Owns
  <2>2. isowner[w] => FirstIn(w, line[lock[w]])
    BY <1>1, <1>2, <2>1 DEF OwnerIsFirst
  <2> QED  BY <1>2, <1>3, <1>4, <2>1, <2>2
<1> QED  BY <1>1, <1>5, <1>6, OwnerFrame

(* The unlock inside the lock goes on only after zkr_lock_init.            *)
LEMMA LockGoesOnOwner ==
  ASSUME SessionInv, NEW w \in Workers, LockGoesOn(w)
  PROVE  OwnerIsFirst'
<1>1. TypeInv /\ OwnerIsFirst /\ OneInside /\ pc \in [Workers -> Label]
  BY DEF SessionInv, TypeInv, RequestOK
<1>2. w \in torn
  BY <1>1 DEF OneInside, LockGoesOn, zkr_lock_unlock
<1>3. /\ \A j \in Keys : \A v \in Workers \ {w} : FirstIn(v, line[j]) => FirstIn(v, line'[j])
      /\ \A v \in Workers \ {w} : isowner'[v] = isowner[v]
  BY <1>1, UnlockLine DEF LockGoesOn
<1>4. /\ UNCHANGED <<alive, is_locked, lock, torn>>
      /\ \A v \in Workers \ {w} : pc'[v] = pc[v]
  BY <1>1 DEF LockGoesOn, Goto, handle
<1>5. OthersKeep(w)
  BY <1>3, <1>4 DEF OthersKeep
<1> QED  BY <1>1, <1>2, <1>4, <1>5, OwnerFrame

(* lock_watcher_fn: in a mutex that nobody has overwritten it works on the *)
(* line of the lock, and cannot get through the unlock inside the lock.    *)
LEMMA CallbackOwner ==
  ASSUME SessionInv, NEW w \in Workers, CallbackStep(w)
  PROVE  OwnerIsFirst'
<1>1. /\ TypeInv /\ OwnerIsFirst /\ OneInside
      /\ isowner \in [Workers -> BOOLEAN] /\ lock \in [Workers -> Keys \cup {NULL}]
  BY DEF SessionInv, TypeInv, MutexOK
<1>2. at[w] # "none" /\ UNCHANGED <<alive, is_locked, lock, torn, pc>>
  BY DEF CallbackStep, CallbackLook, CallbackCreate, CallbackOrder, CallbackWatch,
         CallbackUnlock, CallbackFails, zk, handle, request
<1>3. ASSUME w \notin torn, lock[w] # NULL  PROVE  pm[w] /\ cb[w] = lock[w] /\ lock[w] \in Keys
  BY <1>1, <1>2, <1>3 DEF OneInside
<1>4. /\ \A v \in Workers \ {w} : isowner'[v] = isowner[v]
      /\ \A v \in Workers \ {w} : \A j \in Keys : FirstIn(v, line[j]) => FirstIn(v, line'[j])
  <2>1. CASE CallbackUnlock(w)
    BY <1>1, <2>1, UnlockLine DEF CallbackUnlock
  <2>2. CASE CallbackCreate(w)
    BY <1>1, <2>2, CreateLine DEF CallbackCreate
  <2>3. CASE CallbackLook(w) \/ CallbackOrder(w)
    BY <1>1, <2>3 DEF CallbackLook, CallbackOrder, OtherChild, zk
  <2>4. CASE CallbackWatch(w) \/ CallbackFails(w)
    BY <1>1, <2>4 DEF CallbackWatch, CallbackFails, zk
  <2> QED  BY <2>1, <2>2, <2>3, <2>4 DEF CallbackStep
<1>5. OthersKeep(w)
  BY <1>2, <1>4 DEF OthersKeep
<1>6. ASSUME w \notin torn', Owns(w)'  PROVE  FirstIn(w, line'[lock'[w]])
  <2>1. /\ w \notin torn /\ pm[w] /\ cb[w] = lock[w] /\ lock[w] \in Keys /\ lock'[w] = lock[w]
        /\ w \in alive /\ pc[w] # "free" /\ lock[w] # NULL
    BY <1>2, <1>3, <1>6 DEF Owns
  <2>2. isowner[w] \/ is_locked[w] => FirstIn(w, line[lock[w]])
    BY <1>1, <2>1 DEF OwnerIsFirst
  <2>3. isowner'[w] \/ is_locked[w]
    BY <1>2, <1>6 DEF Owns
  <2>4. CASE CallbackUnlock(w)
    BY <2>1, <2>4 DEF CallbackUnlock, zkr_lock_unlock
  <2>5. CASE CallbackCreate(w)
    <3>1. UNCHANGED isowner
      BY <2>5 DEF CallbackCreate
    <3> QED  BY <1>1, <2>1, <2>2, <2>3, <2>5, <3>1, CreateLine
  <2>6. CASE CallbackLook(w)
    <3>1. UNCHANGED line /\ isowner' \in {isowner, [isowner EXCEPT ![w] = FALSE]}
      BY <2>1, <2>6 DEF CallbackLook, OtherChild, zk
    <3> QED  BY <1>1, <2>1, <2>2, <2>3, <3>1
  <2>7. CASE CallbackOrder(w)
    <3>1. UNCHANGED line
      BY <2>7 DEF CallbackOrder, zk
    <3>2. PICK c \in Mine(w, line[lock[w]]) :
            isowner' = [isowner EXCEPT ![w] = First(c, line[lock[w]])]
      BY <2>1, <2>7 DEF CallbackOrder
    <3>3. isowner'[w] => First(c, line[lock[w]])
      BY <1>1, <3>2
    <3> QED  BY <2>1, <2>2, <2>3, <3>1, <3>2, <3>3 DEF FirstIn
  <2>8. CASE CallbackWatch(w) \/ CallbackFails(w)
    <3>1. UNCHANGED <<line, isowner>>
      BY <2>8 DEF CallbackWatch, CallbackFails, zk
    <3> QED  BY <2>1, <2>2, <2>3, <3>1
  <2> QED  BY <2>4, <2>5, <2>6, <2>7, <2>8 DEF CallbackStep
<1> QED  BY <1>1, <1>5, <1>6, OwnerFrame

(* The one that leaves the line unlocks, has expired or is dead.           *)
LEMMA LeaveOwner ==
  ASSUME SessionInv, NEW w \in Workers, PS_CLOSE(w) \/ Expire(w) \/ HandleClosed(w)
  PROVE  OwnerIsFirst'
<1>1. /\ TypeInv /\ LineOK /\ OwnerIsFirst /\ pc \in [Workers -> Label]
      /\ is_locked \in [Workers -> BOOLEAN] /\ isowner \in [Workers -> BOOLEAN]
      /\ lock \in [Workers -> Keys \cup {NULL}]
  BY DEF SessionInv, TypeInv, RequestOK, MutexOK
<1>2. /\ alive' \subseteq alive /\ torn' = torn
      /\ \A v \in Workers \ {w} : /\ isowner'[v] = isowner[v] /\ is_locked'[v] = is_locked[v]
                                  /\ pc'[v] = pc[v] /\ lock'[v] = lock[v]
  <2>1. CASE PS_CLOSE(w)
    BY <1>1, <2>1 DEF PS_CLOSE, zkr_lock_unlock, RequestOver, Goto, handle
  <2>2. CASE Expire(w)
    BY <1>1, <2>2 DEF Expire, handle, mutex, request
  <2>3. CASE HandleClosed(w)
    BY <1>1, <2>3 DEF HandleClosed, Die
  <2> QED  BY <2>1, <2>2, <2>3
<1>3. \A j \in Keys : \A v \in Workers \ {w} : FirstIn(v, line[j]) => FirstIn(v, line'[j])
  <2>1. CASE UNCHANGED line
    BY <2>1
  <2>2. CASE zkr_lock_unlock(w)
    BY <1>1, <2>2, UnlockLine
  <2>3. CASE line' = Vacated(w)
    BY <1>1, <2>3, VacatedLine
  <2> QED  BY <2>1, <2>2, <2>3 DEF PS_CLOSE, Expire, HandleClosed
<1>4. OthersKeep(w)
  BY <1>2, <1>3 DEF OthersKeep
<1>5. ASSUME w \notin torn', Owns(w)'  PROVE  FirstIn(w, line'[lock'[w]])
  <2>1. CASE PS_CLOSE(w)
    <3>1. UNCHANGED <<line, isowner, lock, alive, torn>> /\ isowner[w] /\ pc[w] # "free"
      BY <1>1, <1>5, <2>1 DEF Owns, PS_CLOSE, RequestOver, Goto, handle
    <3> QED  BY <1>1, <1>5, <3>1 DEF Owns, OwnerIsFirst
  <2>2. CASE Expire(w)
    BY <1>5, <2>2 DEF Owns, Expire
  <2>3. CASE HandleClosed(w)
    BY <1>1, <1>5, <2>3 DEF Owns, HandleClosed, Die
  <2> QED  BY <2>1, <2>2, <2>3
<1> QED  BY <1>1, <1>4, <1>5, OwnerFrame

LEMMA OwnerStep ==
  ASSUME SessionInv, [Next]_vars
  PROVE  OwnerIsFirst'
<1>0. /\ OwnerIsFirst /\ pc \in [Workers -> Label]
      /\ is_locked \in [Workers -> BOOLEAN] /\ isowner \in [Workers -> BOOLEAN]
      /\ lock \in [Workers -> Keys \cup {NULL}]
  BY DEF SessionInv, TypeInv, RequestOK, MutexOK
<1>l. \A v \in Workers : is_locked[v] => pc[v] \in Using \cup {"close", "free"}
  BY DEF SessionInv, LockedInRequest
<1> DEFINE Quiet == /\ UNCHANGED <<line, alive>> /\ torn \subseteq torn'
                    /\ \A v \in Workers : Owns(v)' => Owns(v) /\ lock'[v] = lock[v]
<1>q. Quiet => OwnerIsFirst'
  BY <1>0, QuietOwner
<1>1. CASE UNCHANGED vars
  <2>1. Quiet
    BY <1>1 DEF Owns, vars, zk, handle, mutex, request
  <2> QED  BY <1>q, <2>1
(* zkr_lock_init makes a worker the owner of nothing.                      *)
<1>2. ASSUME NEW w \in Workers, NEW k \in Keys, StartRead(w, k), UNCHANGED <<line, alive>>,
             is_locked' \in {is_locked, [is_locked EXCEPT ![w] = FALSE]},
             pc[w] \in {"idle", "connect", "mkparent"}
      PROVE  Quiet
  <2>1. ~is_locked[w]
    BY <1>l, <1>2 DEF Using, Reading
  <2>2. CASE zkr_lock_init(w, k) /\ Goto(w, "lock")
    BY <1>0, <1>2, <2>1, <2>2 DEF Owns, zkr_lock_init, Goto
  <2>3. CASE UNCHANGED mutex /\ Goto(w, "exists")
    BY <1>0, <1>2, <2>1, <2>3 DEF Owns, Goto, mutex
  <2> QED  BY <1>2, <2>2, <2>3 DEF StartRead
<1>3. ASSUME NEW w \in Workers, NEW k \in Keys, PS_OPEN(w, k)  PROVE  Quiet
  <2>1. UNCHANGED <<line, alive, is_locked>> /\ pc[w] = "idle"
    BY <1>3 DEF PS_OPEN, zk
  <2>2. CASE UNCHANGED mutex /\ Goto(w, "connect")
    BY <1>0, <2>1, <2>2 DEF Owns, Goto, mutex
  <2> QED  BY <1>2, <1>3, <2>1, <2>2 DEF PS_OPEN
<1>4. ASSUME NEW w \in Workers, php_zookeeper_session_init(w) \/ MakeParent(w)  PROVE  Quiet
  <2>1. UNCHANGED <<line, alive>> /\ pc[w] \in {"connect", "mkparent"} /\ key[w] \in Keys
    BY <1>4 DEF php_zookeeper_session_init, MakeParent, zk, SessionInv, TypeInv, PointersSet
  <2>2. CASE Register(w)
    BY <1>2, <2>1, <2>2 DEF Register
  <2>3. CASE UNCHANGED <<handle, mutex>> /\ (Goto(w, "mkparent") \/ Goto(w, "failed") \/ UNCHANGED pc)
    BY <1>0, <2>1, <2>3 DEF Owns, Goto, handle, mutex
  <2> QED  BY <1>4, <2>2, <2>3 DEF php_zookeeper_session_init, MakeParent
<1>5. ASSUME NEW w \in Workers, InitFails(w) \/ OpenFailed(w) \/ Crash(w)  PROVE  Quiet
  <2>1. CASE Die(w) /\ UNCHANGED zk
    BY <1>0, <2>1 DEF Owns, Die, zk
  <2>2. CASE pc[w] = "failed" /\ Goto(w, "idle") /\ UNCHANGED <<zk, handle, mutex>>
    BY <1>0, <2>2 DEF Owns, Goto, zk, handle, mutex
  <2> QED  BY <1>5, <2>1, <2>2 DEF InitFails, OpenFailed, Crash
<1>6. ASSUME NEW w \in Workers, LockReturn(w)  PROVE  Quiet
  BY <1>0, <1>6 DEF Owns, LockReturn, Locked, Goto, zk, mutex
<1>7. ASSUME NEW w \in Workers, ReadExists(w) \/ ReadDelete(w) \/ ReadGet(w)  PROVE  Quiet
  BY <1>0, <1>7 DEF Owns, ReadExists, ReadDelete, ReadGet, ReadReturns, Goto, zk, handle, mutex
<1>8. ASSUME NEW w \in Workers,
             WriteExists(w) \/ WriteCreate(w) \/ WriteSet(w) \/ DestroyDelete(w) \/ GcDelete(w)
      PROVE  Quiet
  BY <1>0, <1>8 DEF Owns, WriteExists, WriteCreate, WriteSet, DestroyDelete, GcDelete, Goto, zk,
                    handle, mutex
<1>9. ASSUME NEW w \in Workers, zkr_lock_destroy(w)  PROVE  Quiet
  BY <1>0, <1>9 DEF Owns, zkr_lock_destroy, RequestOver, Goto, zk
<1>10. ASSUME NEW w \in Workers, ScriptStep(w)  PROVE  Quiet
  BY <1>0, <1>10 DEF Owns, ScriptStep, Regenerate, PS_GC, PS_WRITE, PS_DESTROY, Call, Goto, zk,
                     handle, mutex
<1>11. ASSUME NEW w \in Workers, CallbackStart(w) \/ php_zookeeper_connection_dtor(w)  PROVE  Quiet
  BY <1>0, <1>11 DEF Owns, CallbackStart, php_zookeeper_connection_dtor, Goto, zk, handle, mutex, request
<1>12. ASSUME NEW k \in Keys, Age(k)  PROVE  Quiet
  BY <1>12 DEF Owns, Age, zk, handle, mutex, request
<1> HIDE DEF Quiet
<1>13. ASSUME NEW w \in Workers, HandlerStep(w)  PROVE  OwnerIsFirst'
  BY <1>q, <1>4, <1>5, <1>6, <1>7, <1>8, <1>9, <1>13, LockTryOwner, LockGoesOnOwner, LeaveOwner
     DEF HandlerStep
<1>14. ASSUME NEW w \in Workers, CallbackStep(w) \/ Expire(w)  PROVE  OwnerIsFirst'
  BY <1>14, CallbackOwner, LeaveOwner
<1> QED  BY <1>q, <1>1, <1>3, <1>5, <1>10, <1>11, <1>12, <1>13, <1>14 DEF Next

-----------------------------------------------------------------------------
(* Exclusion *)

LEMMA InitOwner ==
  Init => SessionInv
BY InitTypes DEF Init, SessionInv, LockedInRequest, OneInside, OwnerIsFirst, LockCalls

LEMMA SessionStep ==
  ASSUME SessionInv, [Next]_vars
  PROVE  SessionInv'
BY TypeStep, LockedStep, InsideStep, OwnerStep DEF SessionInv

(***************************************************************************)
(* The inductive invariant: a worker of a live ZooKeeper session for which *)
(* zkr_lock_isowner answers yes, or whose is_locked is set, has the first  *)
(* child of the lock path, up to its unlock, and a callback that is in its *)
(* mutex holds pmutex, unless zkr_lock_init has overwritten that mutex     *)
(* under a callback; and is_locked tells of the lock of the session that   *)
(* PS_READ_FUNC read.                                                      *)
(***************************************************************************)
THEOREM SessionInvariant ==
  Spec => []SessionInv
<1>1. SessionInv /\ [Next]_vars => SessionInv'
  BY SessionStep
<1> QED  BY <1>1, InitOwner, PTL DEF Spec

(* Both have the first child.                                              *)
LEMMA OneServes ==
  ASSUME SessionInv, NEW v \in Workers \ torn, NEW w \in Workers \ torn,
         Serving(v), Serving(w), path[v] = path[w]
  PROVE  v = w
<1>1. lock[v] \in Keys /\ lock[v] # NULL /\ lock[w] = lock[v]
  BY NullAssumption DEF SessionInv, LockedInRequest, TypeInv, PointersSet, Serving
<1>2. FirstIn(v, line[lock[v]]) /\ FirstIn(w, line[lock[v]])
  BY <1>1 DEF SessionInv, OwnerIsFirst, Serving
<1>3. Ordered(line[lock[v]])
  BY <1>1 DEF SessionInv, TypeInv, LineOK
<1> QED  BY <1>2, <1>3, FirstIsOne

(***************************************************************************)
(* Two workers never serve the same session at the same time, as long as   *)
(* the ZooKeeper sessions of both live and zkr_lock_init has overwritten   *)
(* the mutex of neither under a callback: for any number of workers and of *)
(* session ids, with any lock attempts, callbacks, expiries, crashes and   *)
(* lost unlocks, and whatever overwritten mutexes make other workers do.   *)
(***************************************************************************)
THEOREM SessionExclusion ==
  Spec => []SessionExclusive
<1>1. SessionInv => SessionExclusive
  BY OneServes DEF SessionExclusive
<1> QED  BY <1>1, SessionInvariant, PTL
=============================================================================
