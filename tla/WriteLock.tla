------------------------------ MODULE WriteLock ------------------------------
(***************************************************************************)
(* What zoo_lock.h promises: "this api implements a writelock on a given   *)
(* path".  A client takes a numbered ticket, at most one at a time, and is *)
(* granted the lock while no smaller ticket is in the queue.               *)
(***************************************************************************)
EXTENDS Naturals

CONSTANT Clients

VARIABLES
  queue,    \* the tickets in the queue
  issued,   \* how many tickets were ever issued
  holders   \* the clients that have the lock

lockVars == <<queue, issued, holders>>

Ticket == [number : Nat, client : Clients]

QueueInit == queue = {} /\ issued = 0 /\ holders = {}

Enter(c) ==
  /\ \A t \in queue : t.client # c
  /\ queue' = queue \cup {[number |-> issued, client |-> c]}
  /\ issued' = issued + 1
  /\ UNCHANGED holders

Grant(c) ==
  /\ \E t \in queue : t.client = c /\ \A u \in queue : t.number <= u.number
  /\ holders' = holders \cup {c}
  /\ UNCHANGED <<queue, issued>>

(* The client unlocks, or its session ends.                                *)
Leave(c) ==
  /\ queue' = {t \in queue : t.client # c}
  /\ holders' = holders \ {c}
  /\ UNCHANGED issued

(* The client is gone, its ticket is not yet.                              *)
Forget(c) ==
  /\ holders' = holders \ {c}
  /\ UNCHANGED <<queue, issued>>

QueueNext == \E c \in Clients : Enter(c) \/ Grant(c) \/ Leave(c) \/ Forget(c)

QueueSpec == QueueInit /\ [][QueueNext]_lockVars

QueueTypeOK ==
  /\ queue \subseteq Ticket
  /\ issued \in Nat
  /\ holders \subseteq Clients

(* The lock is exclusive.                                                  *)
AtMostOneHolder == \A c, d \in holders : c = d

(* A client in line stands there once.                                     *)
OnePlaceInLine == \A t, u \in queue : t.client = u.client => t = u
=============================================================================
