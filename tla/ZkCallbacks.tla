----------------------------- MODULE ZkCallbacks -----------------------------
(***************************************************************************)
(* The callbacks of php_zookeeper.c: the table ZK_G(callbacks) of          *)
(* php_cb_data_t cells, the Zookeeper objects and handles that point to    *)
(* them, and the marshal functions that the completion thread of a handle  *)
(* calls with a cell as context.                                           *)
(*                                                                         *)
(* A method is one step of the main thread.  A marshal function is two,    *)
(* the PHP callback runs between them, and the main thread goes on.  A     *)
(* method called without a callback leaves all of this alone.              *)
(*                                                                         *)
(* Once freed memory is used, freed again or NULL is followed the process  *)
(* is broken and takes no further step here.                               *)
(***************************************************************************)
EXTENDS Integers, Sequences, FiniteSets, Functions

CONSTANTS
  Objects,     \* PHP objects of class Zookeeper
  Handles,     \* bound: handles that zookeeper_init can return
  MaxCells,    \* bound: cells ever allocated
  NULL

ASSUME BoundAssumption == MaxCells \in Nat
ASSUME NullAssumption  == NULL \notin Handles /\ NULL \notin Nat

VARIABLES
  registry,  \* ZK_G(callbacks) and the memory of its cells
  objects,   \* the objects that exist
  zk,        \* i_obj->zk
  cb_data,   \* i_obj->cb_data
  open,      \* handles initialised and not closed
  closing,   \* those of them that zookeeper_close has been called for
  watcher,   \* handles whose global watcher is php_zk_watcher_marshal
  context,   \* the context zookeeper_init was given
  watches,   \* contexts of the watches the handle keeps
  auths,     \* contexts of the addAuth completions still to come
  running,   \* the cell the completion thread of the handle is in, or NULL
  phase      \* the script, after an E_ERROR, after RSHUTDOWN, after MSHUTDOWN

object == <<objects, zk, cb_data>>
handle == <<open, closing, watcher, context, watches, auths>>
vars   == <<registry, object, handle, running, phase>>

Cell   == 1..MaxCells
CbData == [oneshot : BOOLEAN, h : Nat, freed : BOOLEAN, refused : BOOLEAN]

(* The values of the variables; no slot is at or above nNextFreeElement.    *)
TypeOK ==
  /\ registry.cells \in Seq(CbData) /\ Len(registry.cells) <= MaxCells
  /\ registry.next \in Nat /\ registry.broken \in BOOLEAN
  /\ DOMAIN registry.table \subseteq 0..(registry.next - 1)
  /\ Range(registry.table) \subseteq DOMAIN registry.cells
  /\ objects \subseteq Objects
  /\ zk \in [Objects -> Handles \cup {NULL}] /\ cb_data \in [Objects -> Cell \cup {NULL}]
  /\ closing \subseteq open /\ open \subseteq Handles /\ watcher \subseteq Handles
  /\ context \in [Handles -> Cell \cup {NULL}] /\ running \in [Handles -> Cell \cup {NULL}]
  /\ watches \in [Handles -> SUBSET Cell] /\ auths \in [Handles -> SUBSET Cell]
  /\ phase \in {"script", "ended", "late", "down"}

-----------------------------------------------------------------------------
(* The table *)

Freed(r, c) == r.cells[c].freed

Break(r) == [r EXCEPT !.broken = TRUE]

(* The cell that php_cb_data_new is about to allocate.                      *)
NewCell(r) == Len(r.cells) + 1

(* Mutants of Index: computed before the insert, or without the - 1.        *)
IndexEarly(r) == Cardinality(DOMAIN r.table) - 1
IndexLate(r)  == Cardinality(DOMAIN r.table) + 1

(* h of the new cell: the number of elements, itself included, less one.    *)
Index(r) == Cardinality(DOMAIN r.table)

(* zend_hash_next_index_insert puts the cell at nNextFreeElement.           *)
php_cb_data_new(r, oneshot) ==
  [table  |-> [i \in DOMAIN r.table \cup {r.next} |->
                 IF i = r.next THEN NewCell(r) ELSE r.table[i]],
   next   |-> r.next + 1,
   cells  |-> Append(r.cells, [oneshot |-> oneshot, h |-> Index(r),
                               freed |-> FALSE, refused |-> FALSE]),
   broken |-> r.broken]

(* efree of a cell.                                                         *)
php_cb_data_destroy(r, c) ==
  IF Freed(r, c) THEN Break(r) ELSE [r EXCEPT !.cells[c].freed = TRUE]

(* Mutants of zend_hash_index_del: no destructor, or no removal.            *)
DelWithoutDestructor(r, i) == [r EXCEPT !.table = Restrict(@, DOMAIN @ \ {i})]

DelKeepsSlot(r, i) ==
  IF i \in DOMAIN r.table THEN php_cb_data_destroy(r, r.table[i]) ELSE r

(* zend_hash_index_del calls php_cb_data_destroy for what it finds at i.    *)
zend_hash_index_del(r, i) ==
  IF i \in DOMAIN r.table
  THEN php_cb_data_destroy([r EXCEPT !.table = Restrict(@, DOMAIN @ \ {i})], r.table[i])
  ELSE r

(* zend_hash_index_del(&ZK_G(callbacks), cbd->h), which reads the cell.     *)
Drop(r, c) ==
  IF Freed(r, c) THEN Break(r) ELSE zend_hash_index_del(r, r.cells[c].h)

(* zend_hash_clean: every cell of the table is freed, the next index is 0.  *)
zend_hash_clean(r) ==
  LET gone == Range(r.table) IN
  [table  |-> [i \in {} |-> 0],
   next   |-> 0,
   cells  |-> [c \in DOMAIN r.cells |-> [r.cells[c] EXCEPT !.freed = @ \/ c \in gone]],
   broken |-> \E c \in gone : Freed(r, c)]

-----------------------------------------------------------------------------
(* Methods of class Zookeeper *)

(* The main thread is in the script and there is room for one more cell.    *)
InScript == phase = "script" /\ ~registry.broken

CanRegister == InScript /\ Len(registry.cells) < MaxCells

Connected(o) == o \in objects /\ zk[o] # NULL

php_zk_new(o) ==
  /\ InScript /\ o \notin objects
  /\ objects' = objects \cup {o}
  /\ UNCHANGED <<registry, zk, cb_data, handle, running, phase>>

(* php_zookeeper_connect_impl: a recv_timeout <= 0 returns before anything   *)
(* happens, and a handle the object has already is dropped,                 *)
(* not closed.  Without a callback the watcher is NULL.                     *)
connect(o, h, callback) ==
  /\ o \in objects /\ h \notin open
  /\ IF callback THEN CanRegister ELSE InScript
  /\ registry' = IF callback THEN php_cb_data_new(registry, FALSE) ELSE registry
  /\ LET c == IF callback THEN NewCell(registry) ELSE NULL IN
     /\ cb_data' = [cb_data EXCEPT ![o] = c]
     /\ context' = [context EXCEPT ![h] = c]
  /\ watcher' = IF callback THEN watcher \cup {h} ELSE watcher
  /\ zk' = [zk EXCEPT ![o] = h]
  /\ open' = open \cup {h}
  /\ UNCHANGED <<objects, closing, watches, auths, running, phase>>

(* zookeeper_init returned NULL: the E_ERROR ends the script.               *)
ConnectFails(o, callback) ==
  /\ o \in objects
  /\ IF callback THEN CanRegister ELSE InScript
  /\ registry' = IF callback THEN php_cb_data_new(registry, FALSE) ELSE registry
  /\ phase' = "ended"
  /\ UNCHANGED <<object, handle, running>>

(* getChildren, exists and get with a callback, once the service answered   *)
(* (ZNONODE leaves an exists watch too).                                    *)
Watched(o) ==
  /\ CanRegister /\ Connected(o)
  /\ registry' = php_cb_data_new(registry, TRUE)
  /\ watches' = [watches EXCEPT ![zk[o]] = @ \cup {NewCell(registry)}]
  /\ UNCHANGED <<object, open, closing, watcher, context, auths, running, phase>>

(* The call failed: the cell is freed and stays in the table.               *)
Refused(o) ==
  /\ CanRegister /\ Connected(o)
  /\ LET c == NewCell(registry)
         r == php_cb_data_new(registry, TRUE)
     IN  registry' = [php_cb_data_destroy(r, c) EXCEPT !.cells[c].refused = TRUE]
  /\ UNCHANGED <<object, handle, running, phase>>

getChildren(o) == Watched(o) \/ Refused(o)
exists(o)      == Watched(o) \/ Refused(o)

(* get of a node without data returns before it sets the watch.             *)
GetEmpty(o) ==
  /\ CanRegister /\ Connected(o)
  /\ registry' = php_cb_data_new(registry, TRUE)
  /\ UNCHANGED <<object, handle, running, phase>>

get(o) == Watched(o) \/ Refused(o) \/ GetEmpty(o)

(* addAuth: a refused call keeps its cell.                                  *)
addAuth(o) ==
  /\ CanRegister /\ Connected(o)
  /\ registry' = php_cb_data_new(registry, FALSE)
  /\ \/ auths' = [auths EXCEPT ![zk[o]] = @ \cup {NewCell(registry)}]
     \/ UNCHANGED auths
  /\ UNCHANGED <<object, open, closing, watcher, context, watches, running, phase>>

(* setWatcher: zoo_set_watcher replaces the function of the handle and not  *)
(* its context.                                                             *)
setWatcher(o) ==
  /\ CanRegister /\ Connected(o)
  /\ LET r == IF cb_data[o] = NULL THEN registry ELSE Drop(registry, cb_data[o]) IN
     /\ registry' = php_cb_data_new(r, FALSE)
     /\ cb_data' = [cb_data EXCEPT ![o] = NewCell(r)]
  /\ watcher' = watcher \cup {zk[o]}
  /\ UNCHANGED <<objects, zk, open, closing, context, watches, auths, running, phase>>

-----------------------------------------------------------------------------
(* The end of objects and of the request *)

(* php_zk_destroy up to zookeeper_close, which waits for the threads of the *)
(* handle.  An object outside the symbol table goes after RSHUTDOWN.        *)
php_zk_destroy(o) ==
  /\ o \in objects /\ ~registry.broken /\ closing = {}
  /\ registry' = IF cb_data[o] = NULL THEN registry ELSE Drop(registry, cb_data[o])
  /\ objects' = objects \ {o}
  /\ closing' = closing \cup ({zk[o]} \ {NULL})
  /\ zk' = [zk EXCEPT ![o] = NULL] /\ cb_data' = [cb_data EXCEPT ![o] = NULL]
  /\ UNCHANGED <<open, watcher, context, watches, auths, running, phase>>

(* zookeeper_close calls the completions that are still to come.            *)
zookeeper_close(h) ==
  /\ h \in closing /\ running[h] = NULL /\ ~registry.broken
  /\ registry' = IF \E c \in auths[h] : Freed(registry, c) THEN Break(registry) ELSE registry
  /\ open' = open \ {h} /\ closing' = closing \ {h} /\ watcher' = watcher \ {h}
  /\ context' = [context EXCEPT ![h] = NULL]
  /\ watches' = [watches EXCEPT ![h] = {}] /\ auths' = [auths EXCEPT ![h] = {}]
  /\ UNCHANGED <<object, running, phase>>

(* PHP_RSHUTDOWN_FUNCTION                                                   *)
RSHUTDOWN ==
  /\ phase \in {"script", "ended"} /\ closing = {} /\ ~registry.broken
  /\ registry' = zend_hash_clean(registry)
  /\ phase' = "late"
  /\ UNCHANGED <<object, handle, running>>

RequestOver == phase = "late" /\ objects = {} /\ closing = {} /\ ~registry.broken

(* The process serves its next request once the objects are gone.           *)
NextRequest ==
  /\ RequestOver
  /\ phase' = "script"
  /\ UNCHANGED <<registry, object, handle, running>>

(* PHP_MSHUTDOWN_FUNCTION destroys the table; the threads of handles that a *)
(* second connect dropped go on until the process is gone.                  *)
php_zk_destroy_globals ==
  /\ RequestOver
  /\ registry' = zend_hash_clean(registry)
  /\ phase' = "down"
  /\ UNCHANGED <<object, handle, running>>

-----------------------------------------------------------------------------
(* The completion thread of a handle *)

(* A marshal function is entered with context c and calls the PHP function. *)
Enter(h, c) ==
  /\ h \in open \ closing /\ running[h] = NULL /\ ~registry.broken
  /\ IF c = NULL \/ (c # NULL /\ Freed(registry, c))
     THEN registry' = Break(registry) /\ UNCHANGED running
     ELSE running' = [running EXCEPT ![h] = c] /\ UNCHANGED registry
  /\ UNCHANGED <<object, open, closing, watcher, context, phase>>

(* An event of the node ends the watch, a session event does not.           *)
WatchEvent(h) ==
  \E c \in watches[h] :
    /\ Enter(h, c)
    /\ watches' \in {watches, [watches EXCEPT ![h] = @ \ {c}]}
    /\ UNCHANGED auths

(* A session event goes to the global watcher too, as does an event of a    *)
(* node that the first call of get watches.                                 *)
SessionEvent(h) == h \in watcher /\ Enter(h, context[h]) /\ UNCHANGED <<watches, auths>>

php_zk_completion_marshal(h) ==
  \E c \in auths[h] :
    /\ Enter(h, c)
    /\ auths' = [auths EXCEPT ![h] = @ \ {c}]
    /\ UNCHANGED watches

(* The PHP function returned: the marshal function looks at cb_data->oneshot *)
(* and removes the entry cb_data->h.                                        *)
php_zk_watcher_marshal(h) ==
  LET c == running[h] IN
  /\ c # NULL /\ ~registry.broken
  /\ registry' = IF Freed(registry, c) THEN Break(registry)
                 ELSE IF registry.cells[c].oneshot THEN Drop(registry, c) ELSE registry
  /\ running' = [running EXCEPT ![h] = NULL]
  /\ UNCHANGED <<object, handle, phase>>

-----------------------------------------------------------------------------

(* php_zk_init_globals, before the first request.                           *)
Init ==
  /\ registry = [table |-> [i \in {} |-> 0], next |-> 0, cells |-> <<>>, broken |-> FALSE]
  /\ objects = {} /\ open = {} /\ closing = {} /\ watcher = {}
  /\ zk = [o \in Objects |-> NULL] /\ cb_data = [o \in Objects |-> NULL]
  /\ context = [h \in Handles |-> NULL] /\ running = [h \in Handles |-> NULL]
  /\ watches = [h \in Handles |-> {}] /\ auths = [h \in Handles |-> {}]
  /\ phase = "script"

Method(o) ==
  \/ php_zk_new(o)
  \/ \E callback \in BOOLEAN :
       ConnectFails(o, callback) \/ \E h \in Handles : connect(o, h, callback)
  \/ getChildren(o) \/ exists(o) \/ get(o) \/ addAuth(o) \/ setWatcher(o)

(* PHP code runs unless the main thread waits in zookeeper_close; a callback *)
(* may go on meanwhile.                                                     *)
PhpRuns == closing = {} \/ \E h \in Handles : running[h] # NULL

Next ==
  \/ \E o \in Objects : (PhpRuns /\ Method(o)) \/ php_zk_destroy(o)
  \/ \E h \in Handles :
       \/ zookeeper_close(h) \/ php_zk_watcher_marshal(h)
       \/ WatchEvent(h) \/ SessionEvent(h) \/ php_zk_completion_marshal(h)
  \/ RSHUTDOWN \/ NextRequest \/ php_zk_destroy_globals

Spec == Init /\ [][Next]_vars

-----------------------------------------------------------------------------
(* What holds *)

(***************************************************************************)
(* A cell that is not freed is in the table, in one slot, so that the end  *)
(* of the request frees it: no method, callback or failed call leaks one   *)
(* into the next request.                                                  *)
(***************************************************************************)
NoLeak ==
  \A c \in DOMAIN registry.cells :
    ~registry.broken /\ ~Freed(registry, c)
      => Cardinality({i \in DOMAIN registry.table : registry.table[i] = c}) = 1

(* Slots that a delete has emptied.                                        *)
Holes(r) == r.next - Cardinality(DOMAIN r.table)

(* The cells whose deletion a step may ask for: that of a marshal function *)
(* that returns, and that of an object which goes or changes its watcher.  *)
Dropping ==
  {running[h] : h \in {g \in Handles : running'[g] # running[g]}}
    \cup {cb_data[o] : o \in {p \in Objects : cb_data'[p] # cb_data[p]}}

(***************************************************************************)
(* What zend_hash_index_del(&ZK_G(callbacks), cbd->h) frees is the cell    *)
(* that was meant as long as no slot is empty.  After that it may be       *)
(* another one, but never a cell younger than the one that was meant, and  *)
(* none that is further in front of it than there are empty slots.  Before *)
(* the end of the request no cell of the table is freed in another way.    *)
(***************************************************************************)
FreesOlder ==
  \A i \in DOMAIN registry.table :
    ~Freed(registry, registry.table[i]) /\ Freed(registry', registry.table[i])
      => \E j \in DOMAIN registry.table :
           registry.table[j] \in Dropping /\ j - i \in 0..Holes(registry)

DropsOlder == [][phase' = phase => FreesOlder]_vars

(***************************************************************************)
(* Only a call that failed leaves a freed cell in the table, and thus only *)
(* after one can a delete or the end of the request free a cell twice.     *)
(***************************************************************************)
TableIsLive ==
  \A i \in DOMAIN registry.table :
    Freed(registry, registry.table[i]) => registry.cells[registry.table[i]].refused

-----------------------------------------------------------------------------
(* What the tests say and the code does not *)

(***************************************************************************)
(* "Should set watcher" (tests/set_watcher.phpt:2): every cell that a      *)
(* marshal function, a completion or an object can still follow is there.  *)
(***************************************************************************)
PointersLive ==
  phase = "script" /\ ~registry.broken =>
    /\ \A h \in open \ closing :
         /\ h \in watcher => context[h] # NULL
         /\ \A c \in watches[h] \cup auths[h] \cup ({context[h]} \ {NULL}) : ~Freed(registry, c)
    /\ \A o \in objects : cb_data[o] # NULL => ~Freed(registry, cb_data[o])
=============================================================================
