----------------------------- MODULE JobOutcome -----------------------------
(***************************************************************************)
(* What a job promises, whatever runs it: its client is told one outcome,  *)
(* once, and the access-code store is then asked to settle the use the job *)
(* spent in agreement with it - finish() for a result, refund() for an     *)
(* error.  A job may also end, with its process, before either.            *)
(*                                                                         *)
(* RunJob (app/runner.py over app/job_store.py) implements it; the tasks   *)
(* of CodeStore follow the same order of Deliver or Fail, then finish() or *)
(* refund().                                                               *)
(***************************************************************************)
CONSTANT Jobs

VARIABLES
    told,               \* told[j]: what the clients of j have been told
    settled             \* settled[j]: what became of the use j spent

Init ==
    /\ told = [j \in Jobs |-> "nothing"]
    /\ settled = [j \in Jobs |-> "open"]

Tell(j, outcome) ==
    /\ told[j] = "nothing"
    /\ told' = [told EXCEPT ![j] = outcome]
    /\ UNCHANGED settled

Finish(j) ==
    /\ told[j] = "result" /\ settled[j] = "open"
    /\ settled' = [settled EXCEPT ![j] = "finished"]
    /\ UNCHANGED told

Refund(j) ==
    /\ told[j] = "error" /\ settled[j] = "open"
    /\ settled' = [settled EXCEPT ![j] = "refunded"]
    /\ UNCHANGED told

Next == \E j \in Jobs : Tell(j, "result") \/ Tell(j, "error") \/ Finish(j) \/ Refund(j)

Spec == Init /\ [][Next]_<<told, settled>>
=============================================================================
