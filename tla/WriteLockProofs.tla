--------------------------- MODULE WriteLockProofs ---------------------------
(***************************************************************************)
(* The abstract write lock is exclusive.  With ZkrLockProofs!Refinement    *)
(* this is what every behaviour of the lock recipe inherits.               *)
(***************************************************************************)
EXTENDS WriteLock, TLAPS

(* Numbers are issued once, and who holds the lock has the first ticket.   *)
InOrder ==
  /\ \A t \in queue : t.number < issued
  /\ \A t, u \in queue : t.number = u.number => t = u
  /\ \A c \in holders :
       \E t \in queue : t.client = c /\ \A u \in queue : t.number <= u.number

QueueInv == QueueTypeOK /\ InOrder /\ OnePlaceInLine

(* Every step keeps the queue in order and each client in it once.         *)
LEMMA QueueInvStep == QueueInv /\ [QueueNext]_lockVars => QueueInv'
<1> SUFFICES ASSUME QueueInv, [QueueNext]_lockVars PROVE QueueInv'
  OBVIOUS
<1> USE DEF QueueInv, QueueTypeOK, InOrder, OnePlaceInLine, Ticket
<1>1. CASE UNCHANGED lockVars
  BY <1>1 DEF lockVars
<1>2. ASSUME NEW c \in Clients, Enter(c) PROVE QueueInv'
  <2> DEFINE new == [number |-> issued, client |-> c]
  <2>1. new \in Ticket /\ new.number = issued /\ new.client = c
    OBVIOUS
  <2>2. queue' = queue \cup {new} /\ issued' = issued + 1 /\ holders' = holders
    BY <1>2 DEF Enter
  <2> HIDE DEF new
  <2>3. QueueTypeOK' /\ OnePlaceInLine'
    BY <1>2, <2>1, <2>2 DEF Enter
  <2>4. \A t \in queue' : t.number < issued'
    BY <2>1, <2>2
  <2>5. \A t, u \in queue' : t.number = u.number => t = u
    BY <2>1, <2>2
  <2>6. \A d \in holders' :
          \E t \in queue' : t.client = d /\ \A u \in queue' : t.number <= u.number
    BY <2>1, <2>2
  <2> QED BY <2>3, <2>4, <2>5, <2>6
<1>3. ASSUME NEW c \in Clients, Grant(c) PROVE QueueInv'
  BY <1>3 DEF Grant
<1>4. ASSUME NEW c \in Clients, Leave(c) PROVE QueueInv'
  BY <1>4 DEF Leave
<1>5. ASSUME NEW c \in Clients, Forget(c) PROVE QueueInv'
  BY <1>5 DEF Forget
<1> QED BY <1>1, <1>2, <1>3, <1>4, <1>5 DEF QueueNext

(* At most one client holds the write lock of zoo_lock.h, and no client    *)
(* stands in line twice.                                                   *)
THEOREM WriteLockExclusive == QueueSpec => [](AtMostOneHolder /\ OnePlaceInLine)
<1>1. QueueInit => QueueInv
  BY DEF QueueInit, QueueInv, QueueTypeOK, InOrder, OnePlaceInLine
<1>2. QueueInv => AtMostOneHolder /\ OnePlaceInLine
  <2> SUFFICES ASSUME QueueInv, NEW c \in holders, NEW d \in holders PROVE c = d
    BY DEF QueueInv, AtMostOneHolder
  <2>1. PICK t \in queue : t.client = c /\ \A u \in queue : t.number <= u.number
    BY DEF QueueInv, InOrder
  <2>2. PICK v \in queue : v.client = d /\ \A u \in queue : v.number <= u.number
    BY DEF QueueInv, InOrder
  <2>3. t.number = v.number
    BY <2>1, <2>2 DEF QueueInv, QueueTypeOK, Ticket
  <2> QED BY <2>1, <2>2, <2>3 DEF QueueInv, InOrder
<1> QED BY <1>1, <1>2, QueueInvStep, PTL DEF QueueSpec
=============================================================================
