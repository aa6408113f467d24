------------------------------ MODULE MCZkrLock ------------------------------
(***************************************************************************)
(* Starting points for model checking ZkrLock.                             *)
(***************************************************************************)
EXTENDS ZkrLock

CONSTANT DeadOwner   \* a session whose process crashed while it had the lock

(* What Spec reaches when DeadOwner locks, is told so and crashes, and the *)
(* service has not yet noticed: the others come to a path with a child.    *)
MCInit ==
  LET child == [pre |-> DeadOwner, seq |-> 0, own |-> DeadOwner] IN
  /\ path = TRUE /\ nodes = {child} /\ nextSeq = 1 /\ live = Sessions
  /\ watches = [s \in Sessions |-> {}] /\ events = [s \in Sessions |-> {}]
  /\ connected = Sessions
  /\ id = [s \in Sessions |-> NULL] /\ ownerid = [s \in Sessions |-> NULL]
  /\ told = [s \in Sessions |-> "released"]
  /\ pmutex = [s \in Sessions |-> NULL]
  /\ pc = [s \in Sessions |-> [k \in Thread |-> IF s = DeadOwner THEN "dead" ELSE "idle"]]
  /\ count = [s \in Sessions |-> 0] /\ tries = [s \in Sessions |-> 0]
  /\ prefix = [s \in Sessions |-> 0] /\ less = [s \in Sessions |-> NULL]
  /\ rc = [s \in Sessions |-> "none"]

MCFairSpec == MCInit /\ [][Next]_vars /\ Fairness
=============================================================================
