----------------------------- MODULE MCZkSession -----------------------------
(***************************************************************************)
(* Model values and a starting point for checking ZkSession.               *)
(***************************************************************************)
EXTENDS ZkSession, TLC

CONSTANTS k1, k2, DeadWorker   \* a worker that crashed while it served k1

(* What Spec reaches when DeadWorker opens k1, is killed before it closes  *)
(* it, and the service has not yet noticed.  Without the lock it left      *)
(* nothing behind.                                                         *)
MCInit ==
  /\ parent = TRUE /\ session_lock \in Locking
  /\ data = [k \in Keys |-> NULL] /\ stale = [k \in Keys |-> FALSE]
  /\ line = [k \in Keys |-> IF session_lock /\ k = k1 THEN (<<DeadWorker, 1>> :> {}) ELSE <<>>]
  /\ alive = Workers /\ opened = {DeadWorker}
  /\ at = [w \in Workers |-> "none"] /\ torn = {}
  /\ path = [w \in Workers |-> NULL] /\ lock = [w \in Workers |-> NULL]
  /\ cb = [w \in Workers |-> NULL] /\ watch = [w \in Workers |-> FALSE]
  /\ is_locked = [w \in Workers |-> FALSE] /\ isowner = [w \in Workers |-> FALSE]
  /\ pm = [w \in Workers |-> FALSE]
  /\ pc = [w \in Workers |-> IF w = DeadWorker THEN "dead" ELSE "idle"]
  /\ key = [w \in Workers |-> NULL] /\ victim = [w \in Workers |-> NULL]
  /\ tries = [w \in Workers |-> 0]
  /\ size = [w \in Workers |-> NULL] /\ seen = [w \in Workers |-> NULL]

MCFairSpec == MCInit /\ [][Next]_vars /\ Fairness

(* Requests come for k1 alone; k2 is what session_regenerate_id takes.     *)
RequestsForK1 == \A w \in Workers : pc[w] = "idle" => key'[w] # k2

(* The states of which SessionExclusive and ImplementsSessionStore speak   *)
(* when there are two workers: no mutex was overwritten under a callback.  *)
Untorn == torn = {}
=============================================================================
