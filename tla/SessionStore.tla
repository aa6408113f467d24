---------------------------- MODULE SessionStore ----------------------------
(***************************************************************************)
(* What the session save handler promises when zookeeper.session_lock is   *)
(* on: a session has one user at a time, the user is given what is stored, *)
(* and what the user stores follows from what it was given.  A session may *)
(* be discarded at any time (it expires, is destroyed or collected), and a *)
(* user may go at any time.                                                *)
(***************************************************************************)
CONSTANTS
  Workers,
  Keys,
  Update(_),  \* what a user makes of the session it was given
  NULL

VARIABLES
  stored,     \* the session of each key, or NULL
  user        \* who has it to itself and was given what: a set of at most one

storeVars == <<stored, user>>

(* A worker before and after it was given the session.                     *)
Entrant(w)  == [by |-> w, given |-> {}]
Taker(w, d) == [by |-> w, given |-> {d}]

Vacant == stored = [k \in Keys |-> NULL] /\ user = [k \in Keys |-> {}]

Begin(k) ==
  /\ user[k] = {}
  /\ \E w \in Workers : user' = [user EXCEPT ![k] = {Entrant(w)}]
  /\ UNCHANGED stored

Discard(k) == stored' = [stored EXCEPT ![k] = NULL]

(* A session that is too old is discarded and given to nobody.             *)
Take(k) ==
  /\ UNCHANGED stored \/ Discard(k)
  /\ \E w \in Workers :
       /\ user[k] = {Entrant(w)}
       /\ user' = [user EXCEPT ![k] = {Taker(w, stored'[k])}]

(* A user may store the same session more than once.                       *)
Commit(k) ==
  /\ \E u \in user[k] : \E d \in u.given : stored' = [stored EXCEPT ![k] = Update(d)]
  /\ UNCHANGED user

Lose(k) == Discard(k) /\ UNCHANGED user

End(k) == user[k] # {} /\ user' = [user EXCEPT ![k] = {}] /\ UNCHANGED stored

(* The user changes, or the session alone does.                            *)
StoreStep ==
  \E k \in Keys :
    \/ user' # user /\ (Begin(k) \/ Take(k) \/ End(k))
    \/ stored' # stored /\ (Commit(k) \/ Lose(k))

StoreSpec == Vacant /\ [][StoreStep]_storeVars

-----------------------------------------------------------------------------

(* A session has one user at a time.                                       *)
OneUser == \A k \in Keys : \A u, v \in user[k] : u = v

(* While a user has a session that it was given, what is stored is that    *)
(* session, what the user makes of it, or nothing.                         *)
StoredFollows ==
  \A k \in Keys : \A u \in user[k] : \A d \in u.given : stored[k] \in {d, Update(d), NULL}
=============================================================================
