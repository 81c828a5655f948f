---------------------------- MODULE RunJob_proof ----------------------------
(***************************************************************************)
(* Proofs about RunJob: for any number of jobs, personas and streams, what *)
(* the store shows of a job, where its task is and how its use was settled *)
(* go together, so the runner keeps the contract of JobOutcome; and what a *)
(* stream was sent and still has on its queue is, at every moment, how the *)
(* personas that ended did, once each, and then the outcome of its job, so *)
(* a late subscriber sees the full picture and no two clients disagree.    *)
(***************************************************************************)
EXTENDS RunJob, FiniteSetTheorems, SequenceTheorems, WellFoundedInduction, TLAPS

\* What is known of the store and the tasks; queues do not matter here.
Types ==
    /\ jobs \in [Jobs -> Job]
    /\ pc \in [Jobs -> JobPc]
    /\ persona \in [Jobs -> [Personas -> PersonaStep]]
    /\ grounding \in [Jobs -> GroundingStep]
    /\ settled \in [Jobs -> {"open", "finished", "kept", "refunded", "owed"}]

\* The status and the settlement that belong to each place of run_job().
StatusFits(j) ==
    /\ pc[j] = "none" => jobs[j].status = "absent" /\ settled[j] = "open"
    /\ pc[j] \in {"created", "gathering", "stopping", "grounding", "insights"} =>
          jobs[j].status = "running" /\ settled[j] = "open"
    /\ pc[j] = "finishing" => jobs[j].status = "complete" /\ settled[j] = "open"
    /\ pc[j] \in {"refunding", "unexpected"} => jobs[j].status = "error" /\ settled[j] = "open"
    /\ pc[j] = "over" =>
          \/ jobs[j].status \in {"complete", "absent"} /\ settled[j] \in {"finished", "kept"}
          \/ jobs[j].status \in {"error", "absent"} /\ settled[j] \in {"refunded", "owed"}

\* A task that has not ended is attached to its job, and the grounding task is
\* held only where run_job() will await it.
TasksFit(j) ==
    /\ pc[j] \notin {"none", "over"} => jobs[j].task = "pending"
    /\ pc[j] \notin {"gathering", "stopping", "grounding"} => grounding[j] = "none"

IInv == Types /\ \A j \in Jobs : StatusFits(j) /\ TasksFit(j)

-----------------------------------------------------------------------------
(* Operations of the store about one job: what they leave of the others.   *)

LEMMA InitIInv == Init => IInv
  <1>1. NoJob \in Job
    BY DEF NoJob, Job, PersonaStatus
  <1> SUFFICES ASSUME Init PROVE IInv
    OBVIOUS
  <1>2. Types
    BY <1>1 DEF Init, StoreInit, Types, JobPc, PersonaStep, GroundingStep
  <1>3. NoJob.status = "absent"
    BY DEF NoJob
  <1>4. ASSUME NEW j \in Jobs PROVE StatusFits(j) /\ TasksFit(j)
    BY <1>3 DEF Init, StoreInit, StatusFits, TasksFit
  <1>5. QED
    BY <1>2, <1>4 DEF IInv

LEMMA CreateKeeps ==
  ASSUME Types, NEW j \in Jobs, CreateJob(j)
  PROVE  /\ jobs' \in [Jobs -> Job]
         /\ jobs'[j].status = "running" /\ jobs'[j].task = "pending"
         /\ \A k \in Jobs \ {j} : jobs'[k] = jobs[k]
  BY DEF Types, CreateJob, NoJob, Job, PersonaStatus

LEMMA UpdateKeeps ==
  ASSUME Types, NEW j \in Jobs, NEW p \in Personas, NEW s \in PersonaStatus, UpdatePersona(j, p, s)
  PROVE  /\ jobs' \in [Jobs -> Job]
         /\ \A k \in Jobs : jobs'[k].status = jobs[k].status /\ jobs'[k].task = jobs[k].task
  <1>1. CASE jobs[j].status = "absent"
    BY <1>1 DEF Types, UpdatePersona
  <1>2. CASE jobs[j].status # "absent"
    <2>1. jobs' = [jobs EXCEPT ![j].personas[p] = s]
      BY <1>2 DEF UpdatePersona
    <2>2. [jobs[j].personas EXCEPT ![p] = s] \in [Personas -> PersonaStatus]
      BY DEF Types, Job
    <2>3. jobs' = [jobs EXCEPT ![j] = [jobs[j] EXCEPT !.personas = [jobs[j].personas EXCEPT ![p] = s]]]
      BY <2>1
    <2>4. [jobs[j] EXCEPT !.personas = [jobs[j].personas EXCEPT ![p] = s]] \in Job
      BY <2>2 DEF Types, Job
    <2>5. QED
      BY <2>3, <2>4 DEF Types, Job
  <1>3. QED
    BY <1>1, <1>2

LEMMA ConcludeKeeps ==
  ASSUME Types, NEW j \in Jobs, NEW status \in {"complete", "error"}, NEW event,
         jobs[j].status # "absent", Conclude(j, status, event)
  PROVE  /\ jobs' \in [Jobs -> Job]
         /\ jobs'[j].status = status /\ jobs'[j].task = jobs[j].task
         /\ \A k \in Jobs \ {j} : jobs'[k] = jobs[k]
  <1>1. jobs' = [jobs EXCEPT ![j].status = status]
    BY DEF Conclude
  <1>2. [jobs[j] EXCEPT !.status = status] \in Job
    BY DEF Types, Job
  <1>3. QED
    BY <1>1, <1>2 DEF Types, Job

LEMMA StreamsKeep ==
  ASSUME Types, NEW s \in Streams, StreamNext(s)
  PROVE  /\ jobs' \in [Jobs -> Job]
         /\ \A k \in Jobs : jobs'[k].status = jobs[k].status /\ jobs'[k].task = jobs[k].task
         /\ UNCHANGED runVars
  <1>1. Watches[s] \in Jobs
    BY JobStoreAssumption
  <1>2. ASSUME NEW j \in Jobs, NEW S \in SUBSET Streams,
                jobs' = [jobs EXCEPT ![j].subscribers = S]
         PROVE  /\ jobs' \in [Jobs -> Job]
                /\ \A k \in Jobs : jobs'[k].status = jobs[k].status /\ jobs'[k].task = jobs[k].task
    <2>1. [jobs[j] EXCEPT !.subscribers = S] \in Job
      BY DEF Types, Job
    <2>2. QED
      BY <1>2, <2>1 DEF Types, Job
  <1>3. \/ jobs' = jobs
        \/ \E S \in SUBSET Streams : jobs' = [jobs EXCEPT ![Watches[s]].subscribers = S]
    <2>1. /\ jobs[Watches[s]].subscribers \cup {s} \in SUBSET Streams
          /\ jobs[Watches[s]].subscribers \ {s} \in SUBSET Streams
      BY <1>1 DEF Types, Job
    <2>2. \/ jobs' = jobs
          \/ jobs' = [jobs EXCEPT ![Watches[s]].subscribers = @ \cup {s}]
          \/ jobs' = [jobs EXCEPT ![Watches[s]].subscribers = @ \ {s}]
      BY DEF StreamNext, ServeStream, Subscribe, OpenStream, SendEvent, EndStream, LeaveStream,
             Unsubscribe
    <2>3. QED
      BY <2>1, <2>2
  <1>4. UNCHANGED runVars
    BY DEF StreamNext
  <1>5. CASE jobs' = jobs
    BY <1>4, <1>5 DEF Types
  <1>6. QED
    BY <1>1, <1>2, <1>3, <1>4, <1>5

\* Eviction takes only jobs whose task is not pending.
LEMMA EvictKeeps ==
  ASSUME Types, EvictNext
  PROVE  /\ jobs' \in [Jobs -> Job]
         /\ \A k \in Jobs : \/ jobs'[k] = jobs[k]
                            \/ jobs[k].task # "pending" /\ jobs'[k] = NoJob
         /\ UNCHANGED runVars
  <1>1. NoJob \in Job
    BY DEF NoJob, Job, PersonaStatus
  <1>2. QED
    BY <1>1 DEF Types, EvictNext, Expire, Evict, Evictable

-----------------------------------------------------------------------------
(* The steps of a task.                                                    *)

LEMMA StartStep ==
  ASSUME IInv, NEW j \in Jobs, StartAnalysis(j)
  PROVE  IInv'
  <1>1. /\ jobs' \in [Jobs -> Job]
        /\ jobs'[j].status = "running" /\ jobs'[j].task = "pending"
        /\ \A k \in Jobs \ {j} : jobs'[k] = jobs[k]
    BY CreateKeeps DEF IInv, StartAnalysis
  <1>2. persona' \in [Jobs -> [Personas -> PersonaStep]]
    BY DEF IInv, Types, StartAnalysis, PersonaStep
  <1>3. Types'
    BY <1>1, <1>2 DEF IInv, Types, StartAnalysis, Goto, JobPc
  <1>4. ASSUME NEW k \in Jobs PROVE StatusFits(k)' /\ TasksFit(k)'
    BY <1>1 DEF IInv, Types, StartAnalysis, Goto, StatusFits, TasksFit
  <1>5. QED
    BY <1>3, <1>4 DEF IInv

LEMMA PersonaStepKeeps ==
  ASSUME IInv, NEW j \in Jobs, NEW p \in Personas, PersonaNext(j, p)
  PROVE  IInv'
  <1>1. /\ jobs' \in [Jobs -> Job]
        /\ \A k \in Jobs : jobs'[k].status = jobs[k].status /\ jobs'[k].task = jobs[k].task
    <2>1. CASE StartPersona(j, p)
      BY <2>1, UpdateKeeps DEF IInv, StartPersona, PersonaStatus
    <2>2. CASE TakeSlot(j, p)
      BY <2>2 DEF IInv, Types, TakeSlot, storeVars
    <2>3. CASE PersonaDone(j, p)
      BY <2>3, UpdateKeeps DEF IInv, PersonaDone, PersonaStatus
    <2>4. CASE PersonaFails(j, p)
      BY <2>4, UpdateKeeps DEF IInv, PersonaFails, PersonaStatus
    <2>5. QED
      BY <2>1, <2>2, <2>3, <2>4 DEF PersonaNext
  <1>2. /\ persona' \in [Jobs -> [Personas -> PersonaStep]]
        /\ UNCHANGED <<pc, grounding, settled>>
    BY DEF IInv, Types, PersonaNext, StartPersona, TakeSlot, PersonaDone, PersonaFails,
           MovePersona, PersonaStep
  <1>3. QED
    BY <1>1, <1>2 DEF IInv, Types, StatusFits, TasksFit

\* The steps that change neither the store nor what was settled.
LEMMA QuietStep ==
  ASSUME IInv, NEW j \in Jobs,
         Gather(j) \/ GroundingEnds(j) \/ NoResults(j) \/ SomeResults(j) \/ Grounded(j)
  PROVE  IInv'
  <1>1. jobs' = jobs /\ settled' = settled
    BY DEF Gather, GroundingEnds, NoResults, SomeResults, Grounded, storeVars
  <1>2. persona' \in [Jobs -> [Personas -> PersonaStep]]
    BY DEF IInv, Types, Gather, GroundingEnds, NoResults, SomeResults, Grounded, PersonaStep
  <1>3. pc' \in [Jobs -> JobPc] /\ grounding' \in [Jobs -> GroundingStep]
    BY DEF IInv, Types, Gather, GroundingEnds, NoResults, SomeResults, Grounded, Goto, JobPc,
           GroundingStep
  <1>4. ASSUME NEW k \in Jobs PROVE StatusFits(k)' /\ TasksFit(k)'
    BY <1>1 DEF IInv, Types, StatusFits, TasksFit, Gather, GroundingEnds, NoResults, SomeResults,
                Grounded, Goto
  <1>5. QED
    BY <1>1, <1>2, <1>3, <1>4 DEF IInv, Types

\* The steps that tell an outcome.
LEMMA TellStep ==
  ASSUME IInv, NEW j \in Jobs, NothingToRun(j) \/ Stopped(j) \/ Publish(j) \/ Unexpected(j)
  PROVE  IInv'
  <1>1. jobs[j].status = "running" /\ jobs[j].task = "pending"
    BY DEF IInv, Types, StatusFits, TasksFit, NothingToRun, Stopped, Publish, Unexpected, Goto
  <1>2. /\ jobs' \in [Jobs -> Job]
        /\ jobs'[j].task = "pending"
        /\ jobs'[j].status = IF Publish(j) THEN "complete" ELSE "error"
        /\ \A k \in Jobs \ {j} : jobs'[k] = jobs[k]
    <2>1. CASE Publish(j)
      BY <2>1, <1>1, ConcludeKeeps DEF IInv, Publish, Complete
    <2>2. CASE ~Publish(j)
      BY <2>2, <1>1, ConcludeKeeps DEF IInv, NothingToRun, Stopped, Unexpected, Fail
    <2>3. QED
      BY <2>1, <2>2
  <1>3. /\ UNCHANGED <<persona, settled>>
        /\ pc' \in [Jobs -> JobPc] /\ grounding' \in [Jobs -> GroundingStep]
    BY DEF IInv, Types, NothingToRun, Stopped, Publish, Unexpected, Goto, JobPc, GroundingStep
  <1>4. ASSUME NEW k \in Jobs PROVE StatusFits(k)' /\ TasksFit(k)'
    <2>1. CASE Publish(j)
      BY <2>1, <1>2 DEF IInv, Types, StatusFits, TasksFit, Publish, Goto
    <2>2. CASE ~Publish(j)
      BY <2>2, <1>2 DEF IInv, Types, StatusFits, TasksFit, NothingToRun, Stopped, Unexpected, Goto
    <2>3. QED
      BY <2>1, <2>2
  <1>5. QED
    BY <1>2, <1>3, <1>4 DEF IInv, Types

LEMMA SettleStep ==
  ASSUME IInv, NEW j \in Jobs, Settle(j)
  PROVE  IInv'
  <1>1. jobs' = [jobs EXCEPT ![j].task = "done"]
    BY DEF Settle
  <1>2. [jobs[j] EXCEPT !.task = "done"] \in Job
    BY DEF IInv, Types, Job
  <1>3. /\ jobs' \in [Jobs -> Job]
        /\ jobs'[j].status = jobs[j].status
        /\ \A k \in Jobs \ {j} : jobs'[k] = jobs[k]
    BY <1>1, <1>2 DEF IInv, Types, Job
  <1>4. Types'
    BY <1>3 DEF IInv, Types, Settle, Goto, JobPc
  <1>5. ASSUME NEW k \in Jobs PROVE StatusFits(k)' /\ TasksFit(k)'
    BY <1>3 DEF IInv, Types, StatusFits, TasksFit, Settle, Goto
  <1>6. QED
    BY <1>4, <1>5 DEF IInv

LEMMA StepIInv == IInv /\ [Next]_vars => IInv'
  <1> SUFFICES ASSUME IInv, [Next]_vars PROVE IInv'
    OBVIOUS
  <1>1. ASSUME NEW j \in Jobs, StartAnalysis(j) PROVE IInv'
    BY <1>1, StartStep
  <1>2. ASSUME NEW j \in Jobs, JobNext(j) PROVE IInv'
    BY <1>2, PersonaStepKeeps, QuietStep, TellStep, SettleStep DEF JobNext
  <1>3. ASSUME NEW s \in Streams, StreamNext(s) PROVE IInv'
    <2>1. /\ jobs' \in [Jobs -> Job]
          /\ \A k \in Jobs : jobs'[k].status = jobs[k].status /\ jobs'[k].task = jobs[k].task
          /\ UNCHANGED runVars
      BY <1>3, StreamsKeep DEF IInv
    <2>2. QED
      BY <2>1 DEF IInv, Types, StatusFits, TasksFit, runVars
  <1>4. ASSUME EvictNext PROVE IInv'
    <2>1. /\ jobs' \in [Jobs -> Job]
          /\ \A k \in Jobs : \/ jobs'[k] = jobs[k]
                             \/ jobs[k].task # "pending" /\ jobs'[k] = NoJob
          /\ UNCHANGED runVars
      BY <1>4, EvictKeeps DEF IInv
    <2>2. ASSUME NEW k \in Jobs PROVE StatusFits(k)' /\ TasksFit(k)'
      BY <2>1 DEF IInv, Types, StatusFits, TasksFit, runVars, NoJob, JobPc
    <2>3. QED
      BY <2>1, <2>2 DEF IInv, Types, runVars
  <1>5. ASSUME UNCHANGED vars PROVE IInv'
    BY <1>5 DEF vars, storeVars, runVars, IInv, Types, StatusFits, TasksFit
  <1>6. QED
    BY <1>1, <1>2, <1>3, <1>4, <1>5 DEF Next

LEMMA IInvAlways == Spec => []IInv
  BY InitIInv, StepIInv, PTL DEF Spec

(* The store has every job whose task still reports to it, and a job that  *)
(* is over holds no grounding: eviction by age never takes a running job,  *)
(* and every way out of run_job() has awaited the grounding task           *)
(* (job_store.py:138-146, runner.py:138-142).                              *)
THEOREM JobsAndTasksTogether == Spec => []JobAndTasksLiveTogether
  <1>1. IInv => JobAndTasksLiveTogether
    BY DEF IInv, Types, StatusFits, TasksFit, JobAndTasksLiveTogether, JobPc
  <1>2. QED
    BY <1>1, IInvAlways, PTL

-----------------------------------------------------------------------------
(* The contract.                                                           *)

Untold == {"none", "created", "gathering", "stopping", "grounding", "insights"}

\* What is told of a job and how it is settled, at each place of its task.
ToldFit(j) ==
    /\ pc[j] \in Untold => ToldOf(j) = "nothing" /\ SettledOf(j) = "open"
    /\ pc[j] = "finishing" => ToldOf(j) = "result" /\ SettledOf(j) = "open"
    /\ pc[j] \in {"refunding", "unexpected"} => ToldOf(j) = "error" /\ SettledOf(j) = "open"
    /\ pc[j] = "over" =>
          \/ settled[j] \in {"finished", "kept"} /\ ToldOf(j) = "result"
          \/ settled[j] \in {"refunded", "owed"} /\ ToldOf(j) = "error"

AllFit == Types /\ \A j \in Jobs : ToldFit(j)

LEMMA ToldFits == IInv => AllFit
  <1> SUFFICES ASSUME IInv, NEW j \in Jobs PROVE ToldFit(j)
    BY DEF IInv, AllFit
  <1>1. StatusFits(j)
    BY DEF IInv
  <1>2. QED
    BY <1>1 DEF ToldFit, Untold, StatusFits, ToldOf, SettledOf

LEMMA FitKept == IInv /\ [Next]_vars => AllFit'
  BY StepIInv, ToldFits, PTL

LEMMA ContractInit == Init => Contract!Init
  BY DEF Init, StoreInit, NoJob, Contract!Init, ToldOf, SettledOf

\* A job that keeps its place and its settlement looks the same.
LEMMA SameJob ==
  ASSUME AllFit, AllFit', NEW k \in Jobs, settled'[k] = settled[k],
         pc'[k] = pc[k] \/ (pc[k] \in Untold /\ pc'[k] \in Untold)
  PROVE  ToldOf(k)' = ToldOf(k) /\ SettledOf(k)' = SettledOf(k)
  <1>1. SettledOf(k)' = SettledOf(k)
    BY DEF SettledOf
  <1>2. ToldFit(k) /\ ToldFit(k)' /\ pc[k] \in JobPc
    BY DEF AllFit, Types
  <1>3. ToldOf(k)' = ToldOf(k)
    BY <1>2 DEF ToldFit, JobPc, Untold
  <1>4. QED
    BY <1>1, <1>3

LEMMA ContractStep ==
  ASSUME IInv, AllFit, AllFit', [Next]_vars
  PROVE  \/ Contract!Next
         \/ UNCHANGED <<[j \in Jobs |-> ToldOf(j)], [j \in Jobs |-> SettledOf(j)]>>
  <1> DEFINE T == [j \in Jobs |-> ToldOf(j)]
             S == [j \in Jobs |-> SettledOf(j)]
  <1>1. ASSUME settled' = settled,
               \A k \in Jobs : pc'[k] = pc[k] \/ (pc[k] \in Untold /\ pc'[k] \in Untold)
        PROVE  T' = T /\ S' = S
    BY <1>1, SameJob
  <1>2. ASSUME NEW j \in Jobs,
               NothingToRun(j) \/ Stopped(j) \/ Publish(j) \/ Unexpected(j)
        PROVE  Contract!Next
    <2>1. /\ settled' = settled
          /\ pc[j] \in Untold /\ pc'[j] \in {"finishing", "refunding", "unexpected"}
          /\ \A k \in Jobs \ {j} : pc'[k] = pc[k]
      BY <1>2 DEF AllFit, Types, NothingToRun, Stopped, Publish, Unexpected, Goto, Untold
    <2>2. ToldFit(j) /\ ToldFit(j)'
      BY DEF AllFit
    <2>3. /\ ToldOf(j) = "nothing" /\ SettledOf(j) = "open"
          /\ ToldOf(j)' \in {"result", "error"} /\ SettledOf(j)' = "open"
      BY <2>1, <2>2 DEF ToldFit
    <2>4. \A k \in Jobs \ {j} : ToldOf(k)' = ToldOf(k) /\ SettledOf(k)' = SettledOf(k)
      BY <2>1, SameJob
    <2>5. S' = S /\ T' = [T EXCEPT ![j] = ToldOf(j)'] /\ T[j] = "nothing"
      BY <2>3, <2>4
    <2>6. Contract!Tell(j, "result") \/ Contract!Tell(j, "error")
      BY <2>3, <2>5 DEF Contract!Tell
    <2>7. QED
      BY <2>6 DEF Contract!Next
  <1>3. ASSUME NEW j \in Jobs, Settle(j)
        PROVE  Contract!Next \/ UNCHANGED <<T, S>>
    <2>1. /\ pc[j] \in {"finishing", "refunding", "unexpected"} /\ pc'[j] = "over"
          /\ \A k \in Jobs \ {j} : pc'[k] = pc[k] /\ settled'[k] = settled[k]
      BY <1>3 DEF AllFit, Types, Settle, Goto
    <2>2. ToldFit(j) /\ ToldFit(j)'
      BY DEF AllFit
    <2>3. \/ pc[j] = "finishing" /\ settled'[j] \in {"finished", "kept"}
          \/ pc[j] # "finishing" /\ settled'[j] \in {"refunded", "owed"}
      BY <1>3 DEF AllFit, Types, Settle, Goto
    <2>4. \A k \in Jobs \ {j} : ToldOf(k)' = ToldOf(k) /\ SettledOf(k)' = SettledOf(k)
      BY <2>1, SameJob
    <2>5. ToldOf(j)' = ToldOf(j) /\ SettledOf(j) = "open"
      BY <2>1, <2>2, <2>3 DEF ToldFit
    <2>6. T' = T /\ S[j] = "open" /\ S' = [S EXCEPT ![j] = SettledOf(j)']
      BY <2>4, <2>5
    <2>7. CASE settled'[j] \in {"kept", "owed"}
      <3>1. SettledOf(j)' = "open"
        BY <2>7 DEF SettledOf
      <3>2. QED
        BY <2>4, <2>5, <3>1
    <2>8. CASE settled'[j] = "finished"
      <3>1. SettledOf(j)' = "finished" /\ ToldOf(j) = "result"
        BY <2>8, <2>2, <2>3 DEF SettledOf, ToldFit
      <3>2. Contract!Finish(j)
        BY <2>6, <3>1 DEF Contract!Finish
      <3>3. QED
        BY <3>2 DEF Contract!Next
    <2>9. CASE settled'[j] = "refunded"
      <3>1. SettledOf(j)' = "refunded" /\ ToldOf(j) = "error"
        BY <2>9, <2>1, <2>2, <2>3 DEF SettledOf, ToldFit
      <3>2. Contract!Refund(j)
        BY <2>6, <3>1 DEF Contract!Refund
      <3>3. QED
        BY <3>2 DEF Contract!Next
    <2>10. QED
      BY <2>3, <2>7, <2>8, <2>9
  <1>4. ASSUME NEW j \in Jobs,
               StartAnalysis(j) \/ Gather(j) \/ (\E p \in Personas : PersonaNext(j, p))
                 \/ GroundingEnds(j) \/ NoResults(j) \/ SomeResults(j) \/ Grounded(j)
        PROVE  T' = T /\ S' = S
    <2>1. /\ settled' = settled
          /\ \A k \in Jobs : pc'[k] = pc[k] \/ (pc[k] \in Untold /\ pc'[k] \in Untold)
      BY <1>4 DEF AllFit, Types, StartAnalysis, Gather, PersonaNext, StartPersona, TakeSlot,
                  PersonaDone, PersonaFails, MovePersona, GroundingEnds, NoResults, SomeResults,
                  Grounded, Goto, Untold
    <2>2. QED
      BY <1>1, <2>1
  <1>5. ASSUME UNCHANGED runVars PROVE T' = T /\ S' = S
    BY <1>1, <1>5 DEF runVars
  <1>6. CASE UNCHANGED vars
    BY <1>5, <1>6 DEF vars
  <1>7. CASE Next
    BY <1>2, <1>3, <1>4, <1>5, <1>7 DEF Next, JobNext, StreamNext, EvictNext
  <1>8. QED
    BY <1>6, <1>7

(* run_job() over the job store keeps the contract: whatever personas,     *)
(* grounding, aggregation and settlement do, and whenever a job is         *)
(* evicted, one outcome is told, and the use is settled in agreement with  *)
(* it (runner.py:185-192, job_store.py:85-103).                            *)
THEOREM ContractKept == Spec => KeepsContract
  <1>1. IInv /\ [Next]_vars =>
            [Contract!Next]_<<[j \in Jobs |-> ToldOf(j)], [j \in Jobs |-> SettledOf(j)]>>
    BY ToldFits, FitKept, ContractStep
  <1>2. QED
    BY <1>1, ContractInit, IInvAlways, PTL DEF Spec, KeepsContract, Contract!Spec

-----------------------------------------------------------------------------
(* Sequences of events.                                                    *)

Ended == {"done", "failed"}

Tells(e, p)    == e.kind = "persona" /\ e.of = p /\ e.status \in Settled
Places(seq, p) == {i \in 1..Len(seq) : Tells(seq[i], p)}

\* seq tells nothing of p, or how p ended, once.
Never(seq, p) == Places(seq, p) = {}
Once(seq, p)  == \E i : Places(seq, p) = {i}

AllPersonas(seq) == \A i \in 1..Len(seq) : seq[i].kind = "persona"

\* seq tells of personas, then the outcome e, then that the stream is over.
Closed(seq, e) ==
    \E body \in Seq(Event) : AllPersonas(body) /\ seq = body \o <<e, Sentinel>>

LEMMA Events ==
    /\ {CompleteEvent, ErrorEvent, Sentinel} \subseteq Event
    /\ \A p \in Personas, st \in PersonaStatus :
            PersonaEvent(p, st) \in Event /\ PersonaEvent(p, st).kind = "persona"
    /\ \A e \in {CompleteEvent, ErrorEvent, Sentinel} :
            e.kind # "persona" /\ \A p : ~Tells(e, p)
    /\ CompleteEvent # ErrorEvent /\ CompleteEvent # Sentinel /\ ErrorEvent # Sentinel
    /\ \A p, q \in Personas, st \in PersonaStatus :
            Tells(PersonaEvent(p, st), q) <=> p = q /\ st \in Settled
  <1>1. {CompleteEvent, ErrorEvent, Sentinel} \subseteq Event
    BY DEF Event
  <1>2. \A p \in Personas, st \in PersonaStatus :
            PersonaEvent(p, st) \in Event /\ PersonaEvent(p, st).kind = "persona"
    BY DEF Event, PersonaEvent
  <1>3. \A e \in {CompleteEvent, ErrorEvent, Sentinel} :
            e.kind # "persona" /\ \A p : ~Tells(e, p)
    BY DEF CompleteEvent, ErrorEvent, Sentinel, Tells
  <1>4. CompleteEvent # ErrorEvent /\ CompleteEvent # Sentinel /\ ErrorEvent # Sentinel
    <2>1. /\ CompleteEvent.kind = "complete" /\ ErrorEvent.kind = "error"
          /\ Sentinel.kind = "end"
      BY DEF CompleteEvent, ErrorEvent, Sentinel
    <2>2. QED
      BY <2>1
  <1>5. \A p, q \in Personas, st \in PersonaStatus :
            Tells(PersonaEvent(p, st), q) <=> p = q /\ st \in Settled
    BY DEF PersonaEvent, Tells
  <1>6. QED
    BY <1>1, <1>2, <1>3, <1>4, <1>5

LEMMA OneMore ==
    ASSUME NEW seq \in Seq(Event), NEW e \in Event
    PROVE  /\ seq \o <<e>> \in Seq(Event)
           /\ AllPersonas(seq) /\ e.kind = "persona" => AllPersonas(seq \o <<e>>)
           /\ \A p : Places(seq \o <<e>>, p) =
                        IF Tells(e, p) THEN Places(seq, p) \cup {Len(seq) + 1} ELSE Places(seq, p)
  <1>1. <<e>> \in Seq(Event) /\ Len(<<e>>) = 1 /\ <<e>>[1] = e /\ Len(seq) \in Nat
    OBVIOUS
  <1>2. /\ seq \o <<e>> \in Seq(Event) /\ Len(seq \o <<e>>) = Len(seq) + 1
        /\ \A i \in 1..Len(seq) + 1 : (seq \o <<e>>)[i] = IF i <= Len(seq) THEN seq[i] ELSE e
    <2>1. \A i \in 1..Len(seq) + 1 : i <= Len(seq) \/ i - Len(seq) = 1
      BY <1>1
    <2>2. QED
      BY <1>1, <2>1, ConcatProperties
  <1>3. QED
    BY <1>1, <1>2 DEF AllPersonas, Places

LEMMA NoMore ==
    ASSUME NEW seq \in Seq(Event), NEW e \in {CompleteEvent, ErrorEvent}, NEW p
    PROVE  /\ seq \o <<e>> \in Seq(Event) /\ seq \o <<e, Sentinel>> \in Seq(Event)
           /\ Places(seq \o <<e>>, p) = Places(seq, p)
           /\ Places(seq \o <<e, Sentinel>>, p) = Places(seq, p)
  <1>1. e \in Event /\ Sentinel \in Event /\ ~Tells(e, p) /\ ~Tells(Sentinel, p)
    BY Events
  <1>2. /\ seq \o <<e>> \in Seq(Event) /\ (seq \o <<e>>) \o <<Sentinel>> \in Seq(Event)
        /\ Places(seq \o <<e>>, p) = Places(seq, p)
        /\ Places((seq \o <<e>>) \o <<Sentinel>>, p) = Places(seq \o <<e>>, p)
    BY <1>1, OneMore
  <1>3. (seq \o <<e>>) \o <<Sentinel>> = seq \o <<e, Sentinel>>
    <2>1. <<e>> \in Seq(Event) /\ <<Sentinel>> \in Seq(Event)
      BY <1>1
    <2>2. <<e>> \o <<Sentinel>> = <<e, Sentinel>>
      <3>1. /\ Len(<<e>> \o <<Sentinel>>) = 2 /\ <<e>> \o <<Sentinel>> \in Seq(Event)
            /\ (<<e>> \o <<Sentinel>>)[1] = e /\ (<<e>> \o <<Sentinel>>)[2] = Sentinel
        BY <2>1, OneMore, ConcatProperties
      <3>2. /\ <<e, Sentinel>> \in Seq(Event) /\ Len(<<e, Sentinel>>) = 2
            /\ <<e, Sentinel>>[1] = e /\ <<e, Sentinel>>[2] = Sentinel
        BY <1>1
      <3>3. \A i \in 1..2 : i = 1 \/ i = 2
        OBVIOUS
      <3>4. QED
        BY <3>1, <3>2, <3>3, SeqEqual
    <2>3. QED
      BY <2>1, <2>2, ConcatAssociative
  <1>4. QED
    BY <1>2, <1>3

LEMMA InductionOnNat ==
    ASSUME NEW S \in SUBSET Nat, 0 \in S, \A n \in S : n + 1 \in S
    PROVE  S = Nat
  <1> DEFINE T == Nat \ S
  <1>1. SUFFICES ASSUME T # {} PROVE FALSE
    OBVIOUS
  <1>2. \E x \in T : \A y \in T : ~(<<y, x>> \in OpToRel(<, Nat))
    BY <1>1, NatLessThanWellFounded, WFMin, Zenon
  <1>3. PICK x \in T : \A y \in T : ~(<<y, x>> \in OpToRel(<, Nat))
    BY <1>2, Zenon
  <1>4. x # 0 /\ x - 1 \in Nat /\ x - 1 < x
    OBVIOUS
  <1>5. <<x - 1, x>> \in OpToRel(<, Nat)
    BY <1>4 DEF OpToRel
  <1>6. x - 1 \in S
    BY <1>3, <1>4, <1>5
  <1>7. QED
    BY <1>4, <1>6

ShowNext(j, n, told) ==
    IF jobs[j].personas[Order[n]] \in Settled
    THEN Append(told, PersonaEvent(Order[n], jobs[j].personas[Order[n]]))
    ELSE told
Shows(j, shown, N) ==
    shown = [n \in 0..N |-> IF n = 0 THEN <<>> ELSE ShowNext(j, n, shown[n - 1])]

LEMMA ShownExists ==
    ASSUME NEW j PROVE \A n \in Nat : \E shown : Shows(j, shown, n)
  <1> DEFINE S == {n \in Nat : \E shown : Shows(j, shown, n)}
  <1>1. 0 \in S
    <2>1. Shows(j, [n \in 0..0 |-> <<>>], 0)
      BY DEF Shows
    <2>2. QED
      BY <2>1
  <1>2. ASSUME NEW n \in S PROVE n + 1 \in S
    <2>1. PICK f : Shows(j, f, n)
      OBVIOUS
    <2> DEFINE g == [m \in 0..(n + 1) |-> IF m <= n THEN f[m] ELSE ShowNext(j, m, f[m - 1])]
    <2>2. \A m \in 0..n : g[m] = f[m]
      OBVIOUS
    <2>3. \A m \in 0..n : f[m] = IF m = 0 THEN <<>> ELSE ShowNext(j, m, f[m - 1])
      BY <2>1 DEF Shows
    <2>4. ASSUME NEW m \in 0..(n + 1)
          PROVE  g[m] = IF m = 0 THEN <<>> ELSE ShowNext(j, m, g[m - 1])
      <3>1. CASE m = 0
        BY <2>2, <2>3, <3>1
      <3>2. CASE m # 0
        <4>1. m - 1 \in 0..n /\ g[m - 1] = f[m - 1]
          BY <2>2, <3>2
        <4>2. g[m] = ShowNext(j, m, f[m - 1])
          BY <2>2, <2>3, <3>2
        <4>3. QED
          BY <3>2, <4>1, <4>2
      <3>3. QED
        BY <3>1, <3>2
    <2>5. Shows(j, g, n + 1)
      <3> HIDE DEF g
      <3>1. QED
        BY <2>4 DEF Shows, g
    <2>6. QED
      BY <2>5
  <1>3. S = Nat
    <2>1. S \in SUBSET Nat
      OBVIOUS
    <2>2. \A n \in S : n + 1 \in S
      BY <1>2
    <2> HIDE DEF S
    <2>3. QED
      BY <1>1, <2>1, <2>2, InductionOnNat
  <1>4. QED
    BY <1>3

LEMMA ReplayIsShown ==
    ASSUME NEW j PROVE \E shown : Shows(j, shown, Len(Order)) /\ ReplayPersonasOnly(j) = shown[Len(Order)]
  <1>1. Len(Order) \in Nat
    BY JobStoreAssumption
  <1>2. \E shown : Shows(j, shown, Len(Order))
    BY <1>1, ShownExists
  <1> DEFINE sh == CHOOSE shown : shown = [n \in 0..Len(Order) |->
            IF n = 0 THEN <<>>
            ELSE IF jobs[j].personas[Order[n]] \in Settled
                 THEN Append(shown[n - 1], PersonaEvent(Order[n], jobs[j].personas[Order[n]]))
                 ELSE shown[n - 1]]
  <1>3. ReplayPersonasOnly(j) = sh[Len(Order)]
    BY DEF ReplayPersonasOnly
  <1>4. Shows(j, sh, Len(Order))
    BY <1>2 DEF Shows, ShowNext
  <1>5. QED
    BY <1>3, <1>4

\* What the first n personas put on the queue of a late subscriber.
ShownFits(j, seq, n) ==
    /\ seq \in Seq(Event) /\ AllPersonas(seq)
    /\ \A m \in 1..Len(Order) :
            IF m <= n /\ jobs[j].personas[Order[m]] \in Settled
            THEN Once(seq, Order[m]) ELSE Never(seq, Order[m])

LEMMA ReplayOfPersonas ==
    ASSUME jobs \in [Jobs -> Job], NEW j \in Jobs
    PROVE  /\ ReplayPersonasOnly(j) \in Seq(Event) /\ AllPersonas(ReplayPersonasOnly(j))
           /\ \A p \in Personas : IF jobs[j].personas[p] \in Settled
                                  THEN Once(ReplayPersonasOnly(j), p)
                                  ELSE Never(ReplayPersonasOnly(j), p)
  <1> DEFINE N == Len(Order)
  <1>0. /\ N \in Nat /\ \A m \in 1..N : Order[m] \in Personas
        /\ \A m, k \in 1..N : Order[m] = Order[k] => m = k
        /\ \A p \in Personas : jobs[j].personas[p] \in PersonaStatus
    <2>1. N \in Nat /\ \A m \in 1..N : Order[m] \in Personas
      BY JobStoreAssumption, LenProperties, ElementOfSeq
    <2>2. jobs[j].personas \in [Personas -> PersonaStatus]
      BY DEF Job
    <2>3. QED
      BY <2>1, <2>2, JobStoreAssumption
  <1>1. PICK shown : Shows(j, shown, N) /\ ReplayPersonasOnly(j) = shown[N]
    BY ReplayIsShown
  <1>2. /\ shown[0] = <<>>
        /\ \A n \in 1..N : shown[n] = ShowNext(j, n, shown[n - 1])
    BY <1>0, <1>1 DEF Shows
  <1>3. ShownFits(j, shown[0], 0)
    BY <1>2 DEF ShownFits, AllPersonas, Never, Places
  <1>4. ASSUME NEW n \in 1..N, ShownFits(j, shown[n - 1], n - 1)
        PROVE  ShownFits(j, shown[n], n)
    <2> DEFINE seq == shown[n - 1]
               st == jobs[j].personas[Order[n]]
               e == PersonaEvent(Order[n], st)
    <2>0. /\ Order[n] \in Personas /\ st \in PersonaStatus
          /\ seq \in Seq(Event) /\ AllPersonas(seq) /\ Len(seq) \in Nat
      BY <1>0, <1>4 DEF ShownFits
    <2>1. CASE st \notin Settled
      <3>1. shown[n] = seq
        BY <1>2, <2>1 DEF ShowNext
      <3>2. \A m \in 1..N : m <= n <=> m <= n - 1 \/ m = n
        BY <1>0
      <3>3. QED
        BY <1>4, <2>0, <2>1, <3>1, <3>2 DEF ShownFits
    <2>2. CASE st \in Settled
      <3>1. shown[n] = seq \o <<e>>
        <4>1. shown[n] = Append(seq, e)
          BY <1>2, <2>2 DEF ShowNext
        <4>2. e \in Event
          BY <2>0, Events
        <4>3. QED
          BY <2>0, <4>1, <4>2, AppendIsConcat
      <3>2. e \in Event /\ e.kind = "persona"
            /\ \A q \in Personas : Tells(e, q) <=> Order[n] = q
        BY <2>0, <2>2, Events
      <3>3. /\ shown[n] \in Seq(Event) /\ AllPersonas(shown[n])
            /\ \A p : Places(shown[n], p) =
                IF Tells(e, p) THEN Places(seq, p) \cup {Len(seq) + 1} ELSE Places(seq, p)
        <4>1. /\ seq \o <<e>> \in Seq(Event) /\ AllPersonas(seq \o <<e>>)
              /\ \A p : Places(seq \o <<e>>, p) =
                  IF Tells(e, p) THEN Places(seq, p) \cup {Len(seq) + 1} ELSE Places(seq, p)
          <5> HIDE DEF seq, e
          <5>1. QED
            BY <2>0, <3>2, OneMore
        <4>2. QED
          BY <3>1, <4>1
      <3>4. ASSUME NEW m \in 1..N
            PROVE  IF m <= n /\ jobs[j].personas[Order[m]] \in Settled
                   THEN Once(shown[n], Order[m]) ELSE Never(shown[n], Order[m])
        <4>1. Tells(e, Order[m]) <=> m = n
          BY <1>0, <3>2
        <4>2. IF m <= n - 1 /\ jobs[j].personas[Order[m]] \in Settled
              THEN Once(seq, Order[m]) ELSE Never(seq, Order[m])
          BY <1>4 DEF ShownFits
        <4>3. CASE m = n
          <5>1. Places(seq, Order[m]) = {}
            BY <1>0, <4>2, <4>3 DEF Never
          <5>2. Places(shown[n], Order[m]) = {Len(seq) + 1}
            BY <3>3, <4>1, <4>3, <5>1
          <5>3. Once(shown[n], Order[m])
            BY <5>2 DEF Once
          <5>4. QED
            BY <1>0, <2>2, <4>3, <5>3
        <4>4. CASE m # n
          <5>1. Places(shown[n], Order[m]) = Places(seq, Order[m])
            BY <3>3, <4>1, <4>4
          <5>2. m <= n <=> m <= n - 1
            BY <1>0, <4>4
          <5>3. QED
            BY <4>2, <5>1, <5>2 DEF Once, Never
        <4>5. QED
          BY <4>3, <4>4
      <3>5. QED
        BY <3>3, <3>4 DEF ShownFits
    <2>3. QED
      BY <2>1, <2>2
  <1>5. \A n \in Nat : n <= N => ShownFits(j, shown[n], n)
    <2> DEFINE S == {n \in Nat : n <= N => ShownFits(j, shown[n], n)}
    <2>1. S \in SUBSET Nat /\ 0 \in S
      BY <1>3
    <2>2. ASSUME NEW n \in S PROVE n + 1 \in S
      <3>1. CASE n + 1 <= N
        <4>1. n + 1 \in 1..N /\ (n + 1) - 1 = n /\ n <= N
          BY <1>0, <3>1
        <4>2. ShownFits(j, shown[n], n)
          BY <4>1
        <4>3. ShownFits(j, shown[n + 1], n + 1)
          BY <1>4, <4>1, <4>2
        <4>4. QED
          BY <4>3
      <3>2. CASE ~(n + 1 <= N)
        BY <3>2
      <3>3. QED
        BY <3>1, <3>2
    <2>3. S = Nat
      <3>1. \A n \in S : n + 1 \in S
        BY <2>2
      <3> HIDE DEF S
      <3>2. QED
        BY <2>1, <3>1, InductionOnNat
    <2>4. QED
      BY <2>3
  <1>6. ShownFits(j, ReplayPersonasOnly(j), N)
    BY <1>0, <1>1, <1>5
  <1>7. QED
    BY <1>0, <1>6 DEF ShownFits, Personas

-----------------------------------------------------------------------------
(* What the streams of a job carry.                                        *)

Sent(s) == received[s] \o queue[s]

OutcomeOf(j) == IF ToldOf(j) = "result" THEN CompleteEvent ELSE ErrorEvent

\* The store shows how a persona ended when it has; outside gather() none runs.
PersonasFit(j) ==
    /\ pc[j] \notin {"none", "created", "gathering"} =>
          \A p \in Personas : persona[j][p] \in {"idle"} \cup Ended
    /\ pc[j] \in {"none", "created"} =>
          \A p \in Personas : persona[j][p] \in {"idle", "prompted"}
    /\ jobs[j].status # "absent" =>
          \A p \in Personas : jobs[j].personas[p] \in Settled <=> persona[j][p] \in Ended

\* s has been, or will be, told how every persona ended that has, once each.
Heard(s) ==
    \A p \in Personas : IF persona[Watches[s]][p] \in Ended
                        THEN Once(Sent(s), p) ELSE Never(Sent(s), p)

\* A served stream hears the job from its queue; one that ended has heard it.
Serves(s) ==
    LET j == Watches[s]
    IN  /\ pc[j] # "none"
        /\ jobs[j].status # "absent" => s \in jobs[j].subscribers
        /\ Heard(s)
        /\ ToldOf(j) = "nothing" => AllPersonas(Sent(s))
        /\ ToldOf(j) # "nothing" => Closed(Sent(s), OutcomeOf(j))

Heeds(s) ==
    LET j == Watches[s]
    IN  /\ ToldOf(j) # "nothing" /\ queue[s] = <<>> /\ Heard(s)
        /\ received[s] # <<>> /\ received[s][Len(received[s])] = OutcomeOf(j)

StreamFits(s) ==
    /\ stream[s] \in {"new", "subscribed"} => received[s] = <<>>
    /\ stream[s] \in {"subscribed", "open"} => Serves(s)
    /\ stream[s] = "ended" => Heeds(s)
    /\ stream[s] \notin {"subscribed", "open", "leaked"} => s \notin jobs[Watches[s]].subscribers
    /\ \A k \in Jobs : s \in jobs[k].subscribers => k = Watches[s]
    /\ \A i \in 1..Len(received[s]) : received[s][i] \in Outcomes =>
            ToldOf(Watches[s]) # "nothing" /\ received[s][i] = OutcomeOf(Watches[s])

StreamsType ==
    /\ queue \in [Streams -> Seq(Event)]
    /\ stream \in [Streams -> StreamStep]
    /\ received \in [Streams -> Seq(Event)]

FInv ==
    /\ StreamsType
    /\ \A j \in Jobs : PersonasFit(j)
    /\ \A s \in Streams : StreamFits(s)

LEMMA SentType ==
    ASSUME StreamsType, NEW s \in Streams
    PROVE  Sent(s) \in Seq(Event) /\ queue[s] \in Seq(Event) /\ received[s] \in Seq(Event)
  BY ConcatProperties DEF StreamsType, Sent

\* A step that neither tells s anything nor changes what it is to hear.
LEMMA StreamUntouched ==
    ASSUME NEW s \in Streams, StreamFits(s),
           queue'[s] = queue[s], received'[s] = received[s], stream'[s] = stream[s],
           \A p \in Personas : persona'[Watches[s]][p] \in Ended
                                    <=> persona[Watches[s]][p] \in Ended,
           ToldOf(Watches[s])' = ToldOf(Watches[s]),
           pc[Watches[s]] # "none" => pc'[Watches[s]] # "none",
           jobs[Watches[s]].status = "absent" => jobs'[Watches[s]].status = "absent",
           jobs'[Watches[s]].status = "absent" \/
                (s \in jobs'[Watches[s]].subscribers <=> s \in jobs[Watches[s]].subscribers),
           \A k \in Jobs : s \in jobs'[k].subscribers => s \in jobs[k].subscribers
    PROVE  StreamFits(s)'
  <1>1. Sent(s)' = Sent(s)
    BY DEF Sent
  <1>2. Heard(s) => Heard(s)'
    BY <1>1 DEF Heard
  <1>3. OutcomeOf(Watches[s])' = OutcomeOf(Watches[s])
    BY DEF OutcomeOf
  <1>4. Serves(s) => Serves(s)'
    BY <1>1, <1>2, <1>3 DEF Serves
  <1>5. Heeds(s) => Heeds(s)'
    BY <1>2, <1>3 DEF Heeds
  <1>6. Watches[s] \in Jobs
    BY JobStoreAssumption
  <1>7. QED
    BY <1>3, <1>4, <1>5, <1>6 DEF StreamFits

\* Where run_job() is, and what is told.
LEMMA ToldWhere ==
    ASSUME IInv, NEW j \in Jobs
    PROVE  /\ ToldOf(j) = "nothing" <=> pc[j] \in Untold
           /\ jobs[j].status = "absent" => pc[j] \in {"none", "over"}
           /\ pc[j] = "none" => jobs[j].status = "absent"
  <1>1. ToldFit(j) /\ StatusFits(j) /\ pc[j] \in JobPc
    BY ToldFits DEF AllFit, IInv, Types
  <1>2. QED
    BY <1>1 DEF ToldFit, StatusFits, JobPc, Untold

\* What is told stays told.
LEMMA ToldStays ==
    ASSUME IInv, [Next]_vars, NEW j \in Jobs, ToldOf(j) # "nothing"
    PROVE  ToldOf(j)' = ToldOf(j)
  <1> DEFINE T == [k \in Jobs |-> ToldOf(k)]
             S == [k \in Jobs |-> SettledOf(k)]
  <1>1. Contract!Next \/ UNCHANGED <<T, S>>
    BY ToldFits, FitKept, ContractStep
  <1>2. T[j] # "nothing"
    OBVIOUS
  <1>3. T'[j] = T[j]
    <2>1. CASE UNCHANGED <<T, S>>
      BY <2>1
    <2>2. CASE Contract!Next
      BY <1>2, <2>2 DEF Contract!Next, Contract!Tell, Contract!Finish, Contract!Refund
    <2>3. QED
      BY <1>1, <2>1, <2>2
  <1>4. QED
    BY <1>3

-----------------------------------------------------------------------------
(* The steps of a job, as its streams hear them.                           *)

\* An event is put on the queues of the subscribers of j, who all watch j.
LEMMA BroadcastReaches ==
    ASSUME StreamsType, NEW j \in Jobs, NEW events, Broadcast(j, events),
           NEW s \in Streams, StreamFits(s)
    PROVE  /\ Watches[s] # j => queue'[s] = queue[s]
           /\ Watches[s] = j /\ stream[s] \notin {"subscribed", "open", "leaked"}
                => queue'[s] = queue[s]
           /\ Watches[s] = j /\ stream[s] \in {"subscribed", "open"} /\ jobs[j].status # "absent"
                => queue'[s] = queue[s] \o events
  BY DEF Broadcast, StreamFits, Serves

LEMMA SentMore ==
    ASSUME StreamsType, NEW s \in Streams, NEW events \in Seq(Event),
           queue'[s] = queue[s] \o events, received'[s] = received[s]
    PROVE  Sent(s)' = Sent(s) \o events
  <1>1. received[s] \o (queue[s] \o events) = (received[s] \o queue[s]) \o events
    <2>1. received[s] \in Seq(Event) /\ queue[s] \in Seq(Event)
      BY SentType
    <2>2. \A t, u, v \in Seq(Event) : t \o (u \o v) = (t \o u) \o v
      BY ConcatAssociative
    <2>3. QED
      BY <2>1, <2>2
  <1>2. QED
    BY <1>1 DEF Sent

LEMMA PersonaUpdateHeard ==
    ASSUME IInv, FInv, NEW j \in Jobs, NEW p \in Personas,
           NEW st \in PersonaStatus, NEW to \in PersonaStep,
           UpdatePersona(j, p, st), pc' = pc, settled' = settled,
           persona' = [persona EXCEPT ![j][p] = to],
           persona[j][p] \in {"scheduled", "queued", "calling"},
           st \in Settled <=> to \in Ended
    PROVE  FInv'
  <1>0. /\ jobs \in [Jobs -> Job] /\ persona \in [Jobs -> [Personas -> PersonaStep]]
        /\ StreamsType /\ Watches \in [Streams -> Jobs] /\ pc \in [Jobs -> JobPc]
    BY JobStoreAssumption DEF IInv, Types, FInv
  <1>1. pc[j] = "gathering" /\ persona[j][p] \notin Ended
    BY <1>0 DEF FInv, PersonasFit, Ended, JobPc
  <1>2. ToldOf(j) = "nothing" /\ jobs[j].status = "running"
    BY <1>1, ToldWhere DEF Untold, IInv, StatusFits
  <1>3. /\ jobs' = [jobs EXCEPT ![j].personas[p] = st]
        /\ Broadcast(j, <<PersonaEvent(p, st)>>)
        /\ stream' = stream /\ received' = received
    BY <1>2 DEF UpdatePersona
  <1>4. /\ \A k \in Jobs : /\ jobs'[k].status = jobs[k].status
                           /\ jobs'[k].subscribers = jobs[k].subscribers
        /\ \A k \in Jobs : \A q \in Personas :
                jobs'[k].personas[q] = IF k = j /\ q = p THEN st ELSE jobs[k].personas[q]
    <2>1. jobs[j].personas \in [Personas -> PersonaStatus]
      BY <1>0 DEF Job
    <2>2. jobs'[j] = [jobs[j] EXCEPT !.personas = [jobs[j].personas EXCEPT ![p] = st]]
      BY <1>0, <1>3
    <2>3. /\ jobs'[j].status = jobs[j].status /\ jobs'[j].subscribers = jobs[j].subscribers
          /\ jobs'[j].personas = [jobs[j].personas EXCEPT ![p] = st]
      BY <1>0, <2>2 DEF Job
    <2>4. \A k \in Jobs \ {j} : jobs'[k] = jobs[k]
      BY <1>0, <1>3
    <2>5. QED
      BY <2>1, <2>3, <2>4
  <1>5. \A k \in Jobs : \A q \in Personas :
            persona'[k][q] = IF k = j /\ q = p THEN to ELSE persona[k][q]
    BY <1>0
  <1>6. ASSUME NEW k \in Jobs PROVE PersonasFit(k)' /\ ToldOf(k)' = ToldOf(k)
    <2>1. PersonasFit(k)
      BY DEF FInv
    <2>2. ToldOf(k)' = ToldOf(k)
      BY <1>4 DEF ToldOf
    <2>3. PersonasFit(k)'
      BY <1>1, <1>4, <1>5, <2>1 DEF PersonasFit
    <2>4. QED
      BY <2>2, <2>3
  <1>7. StreamsType'
    <2>1. PersonaEvent(p, st) \in Event
      BY Events
    <2>2. \A s \in Streams : queue[s] \o <<PersonaEvent(p, st)>> \in Seq(Event)
      BY <1>0, <2>1, OneMore DEF StreamsType
    <2>3. queue' \in [Streams -> Seq(Event)]
      BY <1>0, <1>3, <2>2 DEF Broadcast, StreamsType
    <2>4. QED
      BY <1>0, <1>3, <2>3 DEF StreamsType
  <1>8. ASSUME NEW s \in Streams PROVE StreamFits(s)'
    <2>0. StreamFits(s) /\ Watches[s] \in Jobs
      BY <1>0 DEF FInv
    <2>1. /\ Watches[s] # j => queue'[s] = queue[s]
          /\ Watches[s] = j /\ stream[s] \notin {"subscribed", "open", "leaked"}
                => queue'[s] = queue[s]
          /\ Watches[s] = j /\ stream[s] \in {"subscribed", "open"}
                => queue'[s] = queue[s] \o <<PersonaEvent(p, st)>>
      BY <1>0, <1>2, <1>3, <2>0, BroadcastReaches
    <2>2. CASE Watches[s] # j
      BY <1>3, <1>4, <1>5, <1>6, <2>0, <2>1, <2>2, StreamUntouched
    <2>3. CASE Watches[s] = j /\ stream[s] \notin {"subscribed", "open"}
      <3>1. stream[s] # "ended"
        BY <1>2, <2>0, <2>3 DEF StreamFits, Heeds
      <3>2. OutcomeOf(j)' = OutcomeOf(j)
        BY <1>6 DEF OutcomeOf
      <3>3. QED
        BY <1>3, <1>4, <1>6, <2>0, <2>3, <3>1, <3>2 DEF StreamFits
    <2>4. CASE Watches[s] = j /\ stream[s] \in {"subscribed", "open"}
      <3> DEFINE e == PersonaEvent(p, st)
      <3>0. Serves(s) /\ Sent(s) \in Seq(Event) /\ e \in Event /\ e.kind = "persona"
            /\ \A q \in Personas : Tells(e, q) <=> p = q /\ st \in Settled
        BY <1>0, <2>0, <2>4, SentType, Events DEF StreamFits
      <3>1. Sent(s)' = Sent(s) \o <<e>>
        <4>1. <<e>> \in Seq(Event)
          BY <3>0
        <4>2. queue'[s] = queue[s] \o <<e>> /\ received'[s] = received[s]
          BY <1>3, <2>1, <2>4
        <4> HIDE DEF e
        <4>3. QED
          BY <1>0, <4>1, <4>2, SentMore
      <3>2. AllPersonas(Sent(s)')
        BY <1>2, <2>4, <3>0, <3>1, OneMore DEF Serves
      <3>3. ASSUME NEW q \in Personas
            PROVE  IF persona'[j][q] \in Ended THEN Once(Sent(s)', q) ELSE Never(Sent(s)', q)
        <4>1. Places(Sent(s)', q) =
                IF Tells(e, q) THEN Places(Sent(s), q) \cup {Len(Sent(s)) + 1} ELSE Places(Sent(s), q)
          BY <3>0, <3>1, OneMore
        <4>2. IF persona[j][q] \in Ended THEN Once(Sent(s), q) ELSE Never(Sent(s), q)
          BY <2>4, <3>0 DEF Serves, Heard
        <4>3. CASE p = q /\ st \in Settled
          <5>1. Places(Sent(s)', q) = {Len(Sent(s)) + 1}
            BY <1>1, <3>0, <4>1, <4>2, <4>3 DEF Never
          <5>2. Once(Sent(s)', q)
            BY <5>1 DEF Once
          <5>3. QED
            BY <1>5, <4>3, <5>2
        <4>4. CASE ~(p = q /\ st \in Settled)
          <5>1. Places(Sent(s)', q) = Places(Sent(s), q)
            BY <3>0, <4>1, <4>4
          <5>2. persona'[j][q] \in Ended <=> persona[j][q] \in Ended
            BY <1>1, <1>5, <4>4
          <5>3. QED
            BY <4>2, <5>1, <5>2 DEF Once, Never
        <4>5. QED
          BY <4>3, <4>4
      <3>4. Heard(s)'
        BY <2>4, <3>3 DEF Heard
      <3>5. Serves(s)'
        BY <1>2, <1>4, <1>6, <2>4, <3>0, <3>2, <3>4 DEF Serves
      <3>6. OutcomeOf(j)' = OutcomeOf(j)
        BY <1>6 DEF OutcomeOf
      <3>7. QED
        BY <1>3, <1>4, <1>6, <2>0, <2>4, <3>5, <3>6 DEF StreamFits
    <2>5. QED
      BY <2>2, <2>3, <2>4
  <1>9. QED
    BY <1>6, <1>7, <1>8 DEF FInv

LEMMA OutcomeHeard ==
    ASSUME IInv, FInv, NEW j \in Jobs,
           NothingToRun(j) \/ Stopped(j) \/ Publish(j) \/ Unexpected(j)
    PROVE  FInv'
  <1> DEFINE status == IF Publish(j) THEN "complete" ELSE "error"
             e == IF Publish(j) THEN CompleteEvent ELSE ErrorEvent
  <1>0. /\ jobs \in [Jobs -> Job] /\ persona \in [Jobs -> [Personas -> PersonaStep]]
        /\ StreamsType /\ Watches \in [Streams -> Jobs] /\ pc \in [Jobs -> JobPc]
    BY JobStoreAssumption DEF IInv, Types, FInv
  <1>1. /\ pc[j] \in Untold /\ pc[j] \notin {"none", "gathering"}
        /\ persona' = persona /\ settled' = settled
        /\ pc'[j] \in {"finishing", "refunding", "unexpected"}
        /\ \A k \in Jobs \ {j} : pc'[k] = pc[k]
        /\ \A q \in Personas : persona[j][q] \in {"idle"} \cup Ended
    BY <1>0 DEF NothingToRun, Stopped, Publish, Unexpected, Goto, Untold, FInv, PersonasFit, Prompted
  <1>2. ToldOf(j) = "nothing" /\ jobs[j].status = "running" /\ settled[j] = "open"
    BY <1>0, <1>1, ToldWhere DEF IInv, StatusFits, Untold
  <1>3. Conclude(j, status, e)
    <2>1. CASE Publish(j)
      BY <2>1 DEF Publish, Complete
    <2>2. CASE ~Publish(j)
      BY <2>2 DEF NothingToRun, Stopped, Unexpected, Fail
    <2>3. QED
      BY <2>1, <2>2
  <1>4. /\ jobs' = [jobs EXCEPT ![j].status = status]
        /\ Broadcast(j, <<e, Sentinel>>)
        /\ stream' = stream /\ received' = received
    BY <1>2, <1>3 DEF Conclude
  <1>5. /\ \A k \in Jobs : jobs'[k].subscribers = jobs[k].subscribers
        /\ \A k \in Jobs : jobs'[k].personas = jobs[k].personas
        /\ \A k \in Jobs \ {j} : jobs'[k] = jobs[k]
        /\ jobs'[j].status = status
    BY <1>0, <1>4 DEF Job
  <1>6. /\ \A k \in Jobs \ {j} : ToldOf(k)' = ToldOf(k)
        /\ ToldOf(j)' # "nothing" /\ OutcomeOf(j)' = e
    <2>1. \A k \in Jobs \ {j} : ToldOf(k)' = ToldOf(k)
      BY <1>1, <1>5 DEF ToldOf
    <2>2. CASE Publish(j)
      <3>1. ToldOf(j)' = "result"
        BY <1>1, <1>2, <1>5, <2>2 DEF ToldOf
      <3>2. QED
        BY <2>1, <2>2, <3>1 DEF OutcomeOf
    <2>3. CASE ~Publish(j)
      <3>1. ToldOf(j)' = "error"
        BY <1>1, <1>2, <1>5, <2>3 DEF ToldOf
      <3>2. QED
        BY <2>1, <2>3, <3>1 DEF OutcomeOf
    <2>4. QED
      BY <2>2, <2>3
  <1>7. ASSUME NEW k \in Jobs PROVE PersonasFit(k)'
    <2>1. PersonasFit(k)
      BY DEF FInv
    <2>2. CASE k = j
      BY <1>1, <1>2, <1>5, <2>1, <2>2 DEF PersonasFit
    <2>3. CASE k # j
      BY <1>1, <1>5, <2>1, <2>3 DEF PersonasFit
    <2>4. QED
      BY <2>2, <2>3
  <1>8. e \in {CompleteEvent, ErrorEvent} /\ <<e, Sentinel>> \in Seq(Event)
    BY Events
  <1> HIDE DEF e, status
  <1>9. StreamsType'
    <2>1. \A s \in Streams : queue[s] \o <<e, Sentinel>> \in Seq(Event)
      BY <1>0, <1>8, ConcatProperties DEF StreamsType
    <2>2. queue' \in [Streams -> Seq(Event)]
      BY <1>0, <1>4, <2>1 DEF Broadcast, StreamsType
    <2>3. QED
      BY <1>0, <1>4, <2>2 DEF StreamsType
  <1>10. ASSUME NEW s \in Streams PROVE StreamFits(s)'
    <2>0. StreamFits(s) /\ Watches[s] \in Jobs
      BY <1>0 DEF FInv
    <2>1. /\ Watches[s] # j => queue'[s] = queue[s]
          /\ Watches[s] = j /\ stream[s] \in {"subscribed", "open"}
                => queue'[s] = queue[s] \o <<e, Sentinel>>
      BY <1>0, <1>2, <1>4, <2>0, BroadcastReaches
    <2>2. CASE Watches[s] # j
      BY <1>1, <1>4, <1>5, <1>6, <2>0, <2>1, <2>2, StreamUntouched
    <2>3. \A i \in 1..Len(received[s]) : Watches[s] = j => received[s][i] \notin Outcomes
      BY <1>2, <2>0 DEF StreamFits
    <2>4. CASE Watches[s] = j /\ stream[s] \notin {"subscribed", "open"}
      <3>1. stream[s] # "ended"
        BY <1>2, <2>0, <2>4 DEF StreamFits, Heeds
      <3>2. QED
        BY <1>4, <1>5, <2>0, <2>3, <2>4, <3>1 DEF StreamFits
    <2>5. CASE Watches[s] = j /\ stream[s] \in {"subscribed", "open"}
      <3>0. Serves(s) /\ Sent(s) \in Seq(Event) /\ AllPersonas(Sent(s))
        BY <1>0, <1>2, <2>0, <2>5, SentType DEF StreamFits, Serves
      <3>1. Sent(s)' = Sent(s) \o <<e, Sentinel>>
        BY <1>0, <1>4, <1>8, <2>1, <2>5, SentMore
      <3>2. Closed(Sent(s)', e)
        BY <3>0, <3>1 DEF Closed
      <3>3. \A q \in Personas : Places(Sent(s)', q) = Places(Sent(s), q)
        <4>1. \A q : Places(Sent(s) \o <<e, Sentinel>>, q) = Places(Sent(s), q)
          BY <1>8, <3>0, NoMore
        <4>2. QED
          BY <3>1, <4>1
      <3>4. Heard(s)'
        BY <1>1, <3>0, <3>3 DEF Serves, Heard, Once, Never
      <3>5. Serves(s)'
        BY <1>1, <1>2, <1>5, <1>6, <2>5, <3>0, <3>2, <3>4 DEF Serves
      <3>6. QED
        BY <1>4, <1>5, <2>0, <2>3, <2>5, <3>5 DEF StreamFits
    <2>6. QED
      BY <2>2, <2>4, <2>5
  <1>11. QED
    BY <1>7, <1>9, <1>10 DEF FInv

\* Steps of the job and of the eviction that no stream hears.
LEMMA UnheardStep ==
    ASSUME FInv, queue' = queue, stream' = stream, received' = received,
           \A k \in Jobs : PersonasFit(k)',
           \A k \in Jobs : ToldOf(k)' = ToldOf(k),
           \A k \in Jobs : pc[k] # "none" => pc'[k] # "none",
           \A k \in Jobs : \A p \in Personas : persona'[k][p] \in Ended <=> persona[k][p] \in Ended,
           \A k \in Jobs : \/ jobs'[k] = NoJob
                           \/ jobs'[k].status = jobs[k].status
                                /\ jobs'[k].subscribers = jobs[k].subscribers
    PROVE  FInv'
  <1>1. StreamsType'
    BY DEF FInv, StreamsType
  <1>2. NoJob.status = "absent" /\ NoJob.subscribers = {}
    BY DEF NoJob
  <1>3. ASSUME NEW s \in Streams PROVE StreamFits(s)'
    <2>1. StreamFits(s) /\ Watches[s] \in Jobs
      BY JobStoreAssumption DEF FInv
    <2>2. QED
      BY <1>2, <2>1, StreamUntouched
  <1>4. QED
    BY <1>1, <1>3 DEF FInv

\* A job that starts has no streams yet.
LEMMA StartHeard ==
    ASSUME IInv, FInv, NEW j \in Jobs, StartAnalysis(j)
    PROVE  FInv'
  <1>0. /\ jobs \in [Jobs -> Job] /\ persona \in [Jobs -> [Personas -> PersonaStep]]
        /\ StreamsType /\ Watches \in [Streams -> Jobs] /\ pc \in [Jobs -> JobPc]
    BY JobStoreAssumption DEF IInv, Types, FInv
  <1>1. /\ pc[j] = "none" /\ pc' = [pc EXCEPT ![j] = "created"]
        /\ queue' = queue /\ stream' = stream /\ received' = received /\ settled' = settled
        /\ jobs' = [jobs EXCEPT ![j] = [NoJob EXCEPT !.status = "running", !.task = "pending"]]
        /\ \A k \in Jobs \ {j} : persona'[k] = persona[k]
        /\ \A p \in Personas : persona'[j][p] \in {"idle", "prompted"}
    BY <1>0 DEF StartAnalysis, Goto, CreateJob
  <1>2. jobs[j].status = "absent" /\ ToldOf(j) = "nothing" /\ settled[j] = "open"
    BY <1>1, ToldWhere DEF Untold, IInv, StatusFits
  <1>3. /\ jobs'[j].status = "running" /\ jobs'[j].subscribers = {}
        /\ \A p \in Personas : jobs'[j].personas[p] = "waiting"
        /\ \A k \in Jobs \ {j} : jobs'[k] = jobs[k]
    BY <1>0, <1>1 DEF NoJob
  <1>4. \A k \in Jobs : ToldOf(k)' = ToldOf(k)
    BY <1>1, <1>2, <1>3 DEF ToldOf
  <1>5. ASSUME NEW k \in Jobs PROVE PersonasFit(k)'
    <2>1. PersonasFit(k)
      BY DEF FInv
    <2>2. CASE k = j
      BY <1>0, <1>1, <1>3, <2>2 DEF PersonasFit, Settled, Ended
    <2>3. CASE k # j
      BY <1>0, <1>1, <1>3, <2>1, <2>3 DEF PersonasFit
    <2>4. QED
      BY <2>2, <2>3
  <1>6. ASSUME NEW s \in Streams PROVE StreamFits(s)'
    <2>0. StreamFits(s) /\ Watches[s] \in Jobs
      BY <1>0 DEF FInv
    <2>1. CASE Watches[s] # j
      BY <1>0, <1>1, <1>3, <1>4, <2>0, <2>1, StreamUntouched
    <2>2. CASE Watches[s] = j
      <3>1. stream[s] \notin {"subscribed", "open", "ended"}
        BY <1>1, <1>2, <2>0, <2>2 DEF StreamFits, Serves, Heeds
      <3>2. OutcomeOf(j)' = OutcomeOf(j)
        BY <1>4 DEF OutcomeOf
      <3>3. QED
        BY <1>1, <1>3, <1>4, <2>0, <2>2, <3>1, <3>2 DEF StreamFits
    <2>3. QED
      BY <2>1, <2>2
  <1>7. StreamsType'
    BY <1>0, <1>1 DEF StreamsType
  <1>8. QED
    BY <1>5, <1>6, <1>7 DEF FInv

LEMMA QuietHeard ==
    ASSUME IInv, FInv, [Next]_vars, NEW j \in Jobs,
           \/ Gather(j) \/ GroundingEnds(j) \/ NoResults(j) \/ SomeResults(j) \/ Grounded(j)
           \/ Settle(j) \/ (\E p \in Personas : TakeSlot(j, p))
    PROVE  FInv'
  <1>0. /\ jobs \in [Jobs -> Job] /\ persona \in [Jobs -> [Personas -> PersonaStep]]
        /\ pc \in [Jobs -> JobPc] /\ AllFit /\ AllFit'
    BY ToldFits, FitKept DEF IInv, Types
  <1>1. /\ queue' = queue /\ stream' = stream /\ received' = received
        /\ \A k \in Jobs : /\ jobs'[k].status = jobs[k].status
                           /\ jobs'[k].subscribers = jobs[k].subscribers
                           /\ jobs'[k].personas = jobs[k].personas
    <2>1. CASE Settle(j)
      <3>1. /\ queue' = queue /\ stream' = stream /\ received' = received
            /\ jobs' = [jobs EXCEPT ![j].task = "done"]
        BY <2>1 DEF Settle
      <3>2. QED
        BY <1>0, <3>1 DEF Job
    <2>2. CASE ~Settle(j)
      <3>1. /\ queue' = queue /\ stream' = stream /\ received' = received /\ jobs' = jobs
        BY <2>2 DEF Gather, GroundingEnds, NoResults, SomeResults, Grounded, TakeSlot, storeVars
      <3>2. QED
        BY <3>1
    <2>3. QED
      BY <2>1, <2>2
  <1>2. \A k \in Jobs : PersonasFit(k)
    BY DEF FInv
  <1>3. \A k \in Jobs : pc[k] # "none" => pc'[k] # "none"
    BY <1>0 DEF Gather, GroundingEnds, NoResults, SomeResults, Grounded, Settle, TakeSlot,
                MovePersona, Goto
  <1>4. \A k \in Jobs : ToldOf(k)' = ToldOf(k)
    <2>1. CASE Settle(j)
      <3>1. ToldOf(j)' = ToldOf(j)
        <4>1. pc[j] \notin Untold
          BY <2>1 DEF Settle, Goto, Untold
        <4>2. ToldOf(j) # "nothing"
          BY <4>1, ToldWhere
        <4>3. QED
          BY <4>2, ToldStays
      <3>2. \A k \in Jobs \ {j} : pc'[k] = pc[k] /\ settled'[k] = settled[k]
        BY <1>0, <2>1 DEF Settle, Goto, AllFit, Types
      <3>3. QED
        BY <1>0, <3>1, <3>2, SameJob
    <2>2. CASE ~Settle(j)
      <3>1. settled' = settled
        BY <2>2 DEF Gather, GroundingEnds, NoResults, SomeResults, Grounded, TakeSlot, MovePersona
      <3>2. \A k \in Jobs : pc'[k] = pc[k] \/ (pc[k] \in Untold /\ pc'[k] \in Untold)
        BY <1>0, <2>2 DEF Gather, GroundingEnds, NoResults, SomeResults, Grounded, TakeSlot,
                          MovePersona, Goto, Untold
      <3>3. QED
        BY <1>0, <3>1, <3>2, SameJob
    <2>3. QED
      BY <2>1, <2>2
  <1>5. \A k \in Jobs : /\ PersonasFit(k)'
                        /\ \A p \in Personas : persona'[k][p] \in Ended <=> persona[k][p] \in Ended
    <2>1. CASE Gather(j)
      <3>1. /\ pc[j] = "created" /\ pc'[j] = "gathering"
            /\ \A k \in Jobs \ {j} : pc'[k] = pc[k] /\ persona'[k] = persona[k]
            /\ \A p \in Personas : persona'[j][p] \in {"idle", "scheduled"}
        BY <1>0, <2>1 DEF Gather, Goto
      <3>2. \A p \in Personas : persona[j][p] \in {"idle", "prompted"}
        BY <1>2, <3>1 DEF PersonasFit
      <3>3. ASSUME NEW k \in Jobs
            PROVE  /\ PersonasFit(k)'
                   /\ \A p \in Personas : persona'[k][p] \in Ended <=> persona[k][p] \in Ended
        <4>1. CASE k = j
          BY <1>1, <1>2, <3>1, <3>2, <4>1 DEF PersonasFit, Ended
        <4>2. CASE k # j
          BY <1>1, <1>2, <3>1, <4>2 DEF PersonasFit
        <4>3. QED
          BY <4>1, <4>2
      <3>4. QED
        BY <3>3
    <2>2. CASE GroundingEnds(j)
      BY <1>0, <1>1, <1>2, <2>2 DEF GroundingEnds, PersonasFit
    <2>3. CASE NoResults(j) \/ SomeResults(j)
      <3>1. \A p \in Personas : persona[j][p] \in {"idle"} \cup Ended
        BY <1>0, <2>3 DEF NoResults, SomeResults, Gathered, Prompted, Ended
      <3>2. QED
        BY <1>0, <1>1, <1>2, <2>3, <3>1 DEF NoResults, SomeResults, Goto, PersonasFit
    <2>4. CASE Grounded(j) \/ Settle(j)
      BY <1>0, <1>1, <1>2, <2>4 DEF Grounded, Settle, Goto, PersonasFit
    <2>5. ASSUME NEW p \in Personas, TakeSlot(j, p)
          PROVE  \A k \in Jobs : /\ PersonasFit(k)'
                                 /\ \A q \in Personas :
                                        persona'[k][q] \in Ended <=> persona[k][q] \in Ended
      <3>1. /\ persona[j][p] = "queued" /\ pc' = pc
            /\ \A k \in Jobs : \A q \in Personas :
                    persona'[k][q] = IF k = j /\ q = p THEN "calling" ELSE persona[k][q]
        BY <1>0, <2>5 DEF TakeSlot, MovePersona
      <3>2. pc[j] = "gathering"
        BY <1>0, <1>2, <3>1 DEF PersonasFit, Ended
      <3>3. QED
        BY <1>0, <1>1, <1>2, <3>1, <3>2 DEF PersonasFit, Ended
    <2>6. QED
      BY <2>1, <2>2, <2>3, <2>4, <2>5
  <1>6. QED
    BY <1>1, <1>3, <1>4, <1>5, UnheardStep

LEMMA EvictHeard ==
    ASSUME IInv, FInv, [Next]_vars, EvictNext
    PROVE  FInv'
  <1>1. /\ \A k \in Jobs : \/ jobs'[k] = jobs[k]
                           \/ jobs[k].task # "pending" /\ jobs'[k] = NoJob
        /\ UNCHANGED runVars
    BY EvictKeeps DEF IInv
  <1>2. queue' = queue /\ stream' = stream /\ received' = received
    BY DEF EvictNext, Expire, Evict
  <1>3. NoJob.status = "absent"
    BY DEF NoJob
  <1>4. \A k \in Jobs : PersonasFit(k)'
    BY <1>1, <1>3 DEF FInv, PersonasFit, runVars
  <1>5. \A k \in Jobs : ToldOf(k)' = ToldOf(k)
    BY <1>1, ToldFits, FitKept, SameJob DEF runVars
  <1>6. QED
    BY <1>1, <1>2, <1>4, <1>5, UnheardStep DEF runVars

-----------------------------------------------------------------------------
(* The steps of a stream.                                                  *)

\* Another stream takes a step.
LEMMA OtherStream ==
    ASSUME IInv, FInv, [Next]_vars, NEW t \in Streams, StreamNext(t),
           NEW s \in Streams, s # t
    PROVE  StreamFits(s)'
  <1>0. /\ jobs \in [Jobs -> Job] /\ StreamsType /\ Watches \in [Streams -> Jobs]
        /\ AllFit /\ AllFit' /\ StreamFits(s)
    BY JobStoreAssumption, ToldFits, FitKept DEF IInv, Types, FInv
  <1>1. queue'[s] = queue[s] /\ stream'[s] = stream[s] /\ received'[s] = received[s]
    BY <1>0 DEF StreamsType, StreamNext, ServeStream, Subscribe, OpenStream, SendEvent, EndStream,
                LeaveStream
  <1>2. UNCHANGED runVars
    BY DEF StreamNext
  <1>3. \A k \in Jobs : /\ jobs'[k].status = jobs[k].status
                        /\ s \in jobs'[k].subscribers <=> s \in jobs[k].subscribers
    <2>1. \/ jobs' = jobs
          \/ \E S : jobs' = [jobs EXCEPT ![Watches[t]].subscribers = S]
                    /\ (s \in S <=> s \in jobs[Watches[t]].subscribers)
      <3>1. \/ jobs' = jobs
            \/ jobs' = [jobs EXCEPT ![Watches[t]].subscribers = @ \cup {t}]
            \/ jobs' = [jobs EXCEPT ![Watches[t]].subscribers = @ \ {t}]
        BY DEF StreamNext, ServeStream, Subscribe, OpenStream, SendEvent, EndStream, LeaveStream,
               Unsubscribe
      <3>2. /\ s \in jobs[Watches[t]].subscribers \cup {t} <=> s \in jobs[Watches[t]].subscribers
            /\ s \in jobs[Watches[t]].subscribers \ {t} <=> s \in jobs[Watches[t]].subscribers
        OBVIOUS
      <3>3. QED
        BY <3>1, <3>2
    <2>2. CASE jobs' = jobs
      BY <2>2
    <2>3. ASSUME NEW S, jobs' = [jobs EXCEPT ![Watches[t]].subscribers = S],
                 s \in S <=> s \in jobs[Watches[t]].subscribers
          PROVE  \A k \in Jobs : /\ jobs'[k].status = jobs[k].status
                                 /\ s \in jobs'[k].subscribers <=> s \in jobs[k].subscribers
      BY <1>0, <2>3 DEF Job
    <2>4. QED
      BY <2>1, <2>2, <2>3
  <1>4. \A k \in Jobs : ToldOf(k)' = ToldOf(k)
    BY <1>0, <1>2, SameJob DEF runVars
  <1>5. QED
    BY <1>0, <1>1, <1>2, <1>3, <1>4, StreamUntouched DEF runVars

\* The places of a sequence that is closed.
LEMMA ClosedPlaces ==
    ASSUME NEW seq, NEW e \in Outcomes, Closed(seq, e)
    PROVE  /\ seq \in Seq(Event) /\ Len(seq) >= 2
           /\ seq[Len(seq) - 1] = e /\ seq[Len(seq)] = Sentinel
           /\ \A i \in 1..Len(seq) - 2 : seq[i].kind = "persona"
  <1>1. PICK body \in Seq(Event) : AllPersonas(body) /\ seq = body \o <<e, Sentinel>>
    BY DEF Closed
  <1>2. <<e, Sentinel>> \in Seq(Event) /\ Len(body) \in Nat
    BY Events, LenProperties DEF Outcomes
  <1>3. /\ Len(<<e, Sentinel>>) = 2 /\ <<e, Sentinel>>[1] = e /\ <<e, Sentinel>>[2] = Sentinel
    OBVIOUS
  <1>4. /\ seq \in Seq(Event) /\ Len(seq) = Len(body) + 2
        /\ \A i \in 1..Len(body) + 2 : seq[i] = IF i <= Len(body) THEN body[i]
                                               ELSE <<e, Sentinel>>[i - Len(body)]
    BY <1>1, <1>2, <1>3, ConcatProperties
  <1>5. /\ Len(body) + 1 \in 1..Len(body) + 2 /\ Len(body) + 2 \in 1..Len(body) + 2
        /\ (Len(body) + 1) - Len(body) = 1 /\ (Len(body) + 2) - Len(body) = 2
        /\ ~(Len(body) + 1 <= Len(body)) /\ ~(Len(body) + 2 <= Len(body))
        /\ \A i \in 1..Len(body) : i \in 1..Len(body) + 2 /\ i <= Len(body)
    BY <1>2
  <1>6. seq[Len(body) + 1] = e /\ seq[Len(body) + 2] = Sentinel
    BY <1>3, <1>4, <1>5
  <1>7. \A i \in 1..Len(body) : seq[i].kind = "persona"
    BY <1>1, <1>4, <1>5 DEF AllPersonas
  <1>8. Len(seq) - 1 = Len(body) + 1 /\ Len(seq) - 2 = Len(body) /\ Len(seq) >= 2
    BY <1>2, <1>4
  <1>9. QED
    BY <1>4, <1>6, <1>7, <1>8

\* The first event of the queue follows what the client has received.
LEMMA NextOfSent ==
    ASSUME NEW r \in Seq(Event), NEW q \in Seq(Event), q # <<>>
    PROVE  /\ Len(r) \in Nat /\ Len(r) + 1 \in 1..Len(r \o q)
           /\ Head(q) \in Event /\ (r \o q)[Len(r) + 1] = Head(q)
           /\ Append(r, Head(q)) \o Tail(q) = r \o q
           /\ \A i \in 1..Len(r) : i \in 1..Len(r \o q) /\ (r \o q)[i] = r[i]
           /\ Tail(q) \in Seq(Event) /\ Append(r, Head(q)) \in Seq(Event)
           /\ Len(r \o q) = Len(r) + Len(Tail(q)) + 1 /\ Len(Tail(q)) \in Nat
  <1>1. /\ Len(r) \in Nat /\ Len(q) \in Nat \ {0}
        /\ Head(q) \in Event /\ Head(q) = q[1]
        /\ Tail(q) \in Seq(Event) /\ Len(Tail(q)) = Len(q) - 1
        /\ \A i \in 1..Len(q) - 1 : Tail(q)[i] = q[i + 1]
    BY EmptySeq, LenProperties, HeadTailProperties
  <1>2. /\ Len(r \o q) = Len(r) + Len(q) /\ r \o q \in Seq(Event)
        /\ \A i \in 1..Len(r) + Len(q) : (r \o q)[i] = IF i <= Len(r) THEN r[i] ELSE q[i - Len(r)]
    BY ConcatProperties
  <1>3. /\ Append(r, Head(q)) \in Seq(Event) /\ Len(Append(r, Head(q))) = Len(r) + 1
        /\ \A i \in 1..Len(r) : Append(r, Head(q))[i] = r[i]
        /\ Append(r, Head(q))[Len(r) + 1] = q[1]
    BY <1>1, AppendProperties
  <1> DEFINE a == Append(r, Head(q))
             t == Tail(q)
  <1>4. /\ a \o t \in Seq(Event) /\ Len(a \o t) = Len(r) + Len(q)
        /\ \A i \in 1..Len(r) + Len(q) :
                (a \o t)[i] = IF i <= Len(r) + 1 THEN a[i] ELSE t[i - (Len(r) + 1)]
    <2>1. a \in Seq(Event) /\ t \in Seq(Event) /\ Len(a) = Len(r) + 1 /\ Len(t) = Len(q) - 1
      BY <1>1, <1>3
    <2>2. Len(a) + Len(t) = Len(r) + Len(q)
      BY <1>1, <2>1
    <2> HIDE DEF a, t
    <2>3. /\ a \o t \in Seq(Event) /\ Len(a \o t) = Len(a) + Len(t)
          /\ \A i \in 1..Len(a) + Len(t) :
                  (a \o t)[i] = IF i <= Len(a) THEN a[i] ELSE t[i - Len(a)]
      BY <2>1, ConcatProperties
    <2>4. QED
      BY <2>1, <2>2, <2>3
  <1>5. ASSUME NEW i \in 1..Len(r) + Len(q) PROVE (a \o t)[i] = (r \o q)[i]
    <2>1. CASE i <= Len(r)
      <3>1. i \in 1..Len(r) /\ i <= Len(r) + 1
        BY <1>1, <2>1
      <3>2. QED
        BY <1>2, <1>3, <1>4, <2>1, <3>1
    <2>2. CASE i = Len(r) + 1
      <3>1. ~(i <= Len(r)) /\ i <= Len(r) + 1 /\ i - Len(r) = 1
        BY <1>1, <2>2
      <3>2. QED
        BY <1>2, <1>3, <1>4, <2>2, <3>1
    <2>3. CASE i > Len(r) + 1
      <3>1. /\ ~(i <= Len(r)) /\ ~(i <= Len(r) + 1)
            /\ i - (Len(r) + 1) \in 1..Len(q) - 1 /\ (i - (Len(r) + 1)) + 1 = i - Len(r)
        BY <1>1, <2>3
      <3>2. (a \o t)[i] = Tail(q)[i - (Len(r) + 1)]
        BY <1>4, <3>1
      <3>3. Tail(q)[i - (Len(r) + 1)] = q[i - Len(r)]
        BY <1>1, <3>1
      <3>4. QED
        BY <1>2, <3>1, <3>2, <3>3
    <2>4. QED
      BY <1>1, <2>1, <2>2, <2>3
  <1>6. a \o t = r \o q
    <2>1. Len(a \o t) = Len(r \o q)
      BY <1>2, <1>4
    <2> HIDE DEF a, t
    <2>2. QED
      BY <1>2, <1>4, <1>5, <2>1, SeqEqual
  <1>7. (r \o q)[Len(r) + 1] = q[1]
    <2>1. /\ Len(r) + 1 \in 1..Len(r) + Len(q) /\ ~(Len(r) + 1 <= Len(r))
          /\ (Len(r) + 1) - Len(r) = 1
      BY <1>1
    <2>2. QED
      BY <1>2, <2>1
  <1>8. \A i \in 1..Len(r) : i \in 1..Len(r \o q) /\ (r \o q)[i] = r[i]
    BY <1>1, <1>2
  <1>9. QED
    BY <1>1, <1>2, <1>3, <1>6, <1>7, <1>8

\* A queue whose first item is the sentinel has nothing after it, and the
\* client has just received the outcome.
LEMMA SentinelIsLast ==
    ASSUME NEW r \in Seq(Event), NEW q \in Seq(Event), q # <<>>, Head(q) = Sentinel,
           NEW e \in Outcomes, Closed(r \o q, e)
    PROVE  /\ Tail(q) = <<>> /\ r # <<>> /\ r[Len(r)] = e /\ r \o Tail(q) = r
           /\ \A p : Places(r, p) = Places(r \o q, p)
  <1> DEFINE s == r \o q
             n == Len(r)
  <1>1. /\ s \in Seq(Event) /\ Len(s) \in Nat /\ Len(s) >= 2 /\ s[Len(s) - 1] = e
        /\ \A i \in 1..Len(s) - 2 : s[i].kind = "persona"
    BY ClosedPlaces, LenProperties
  <1>2. /\ n \in Nat /\ n + 1 \in 1..Len(s) /\ s[n + 1] = Sentinel
        /\ \A i \in 1..n : i \in 1..Len(s) /\ s[i] = r[i]
        /\ Len(s) = n + Len(Tail(q)) + 1 /\ Len(Tail(q)) \in Nat /\ Tail(q) \in Seq(Event)
    BY NextOfSent
  <1>3. Sentinel # e /\ Sentinel.kind # "persona" /\ \A p : ~Tells(Sentinel, p)
    BY Events DEF Outcomes
  <1>4. n + 1 = Len(s)
    <2>1. n + 1 # Len(s) - 1
      BY <1>1, <1>2, <1>3
    <2>2. n + 1 \notin 1..Len(s) - 2
      BY <1>1, <1>2, <1>3
    <2>3. QED
      BY <1>1, <1>2, <2>1, <2>2
  <1>5. Len(Tail(q)) = 0 /\ n >= 1 /\ n = Len(s) - 1
    <2> DEFINE m == Len(s)
               k == Len(Tail(q))
    <2>1. m \in Nat /\ m >= 2 /\ n \in Nat /\ k \in Nat /\ m = n + k + 1 /\ n + 1 = m
      BY <1>1, <1>2, <1>4
    <2> HIDE DEF m, k, n
    <2>2. k = 0 /\ n >= 1 /\ n = m - 1
      BY <2>1
    <2>3. QED
      BY <2>2 DEF m, k
  <1>6. Tail(q) = <<>>
    BY <1>2, <1>5, EmptySeq
  <1>7. r[n] = e /\ r # <<>>
    <2>1. n \in 1..n
      BY <1>2, <1>5
    <2>2. r[n] = e
      BY <1>1, <1>2, <1>5, <2>1
    <2>3. QED
      BY <1>5, <2>2, EmptySeq
  <1>8. r \o Tail(q) = r
    BY <1>6, ConcatEmptySeq
  <1>9. ASSUME NEW p PROVE Places(r, p) = Places(s, p)
    <2>1. \A i \in 1..Len(s) : i \in 1..n \/ i = n + 1
      BY <1>2, <1>4
    <2>2. QED
      BY <1>2, <1>3, <2>1 DEF Places
  <1>10. QED
    BY <1>6, <1>7, <1>8, <1>9

\* What a subscriber is replayed is what it would have been sent.
LEMMA ReplayFits ==
    ASSUME IInv, FInv, NEW j \in Jobs, jobs[j].status # "absent"
    PROVE  /\ Replay(j) \in Seq(Event)
           /\ \A p \in Personas : IF persona[j][p] \in Ended
                                  THEN Once(Replay(j), p) ELSE Never(Replay(j), p)
           /\ ToldOf(j) = "nothing" => AllPersonas(Replay(j))
           /\ ToldOf(j) # "nothing" => Closed(Replay(j), OutcomeOf(j))
  <1> DEFINE body == ReplayPersonasOnly(j)
  <1>1. /\ body \in Seq(Event) /\ AllPersonas(body)
        /\ \A p \in Personas : IF jobs[j].personas[p] \in Settled
                               THEN Once(body, p) ELSE Never(body, p)
    BY ReplayOfPersonas DEF IInv, Types
  <1> HIDE DEF body
  <1>2. \A p \in Personas : IF persona[j][p] \in Ended THEN Once(body, p) ELSE Never(body, p)
    BY <1>1 DEF FInv, PersonasFit
  <1>3. Replay(j) = body \o ReplayOutcomeOnly(j)
    BY DEF Replay, body
  <1>4. /\ jobs[j].status \in {"running", "complete", "error"}
        /\ ToldOf(j) = "nothing" <=> jobs[j].status = "running"
        /\ ToldOf(j) = "result" <=> jobs[j].status = "complete"
    <2>1. StatusFits(j) /\ pc[j] \in JobPc /\ jobs[j].status \in {"absent", "running", "complete", "error"}
      BY DEF IInv, Types, Job
    <2>2. QED
      BY <2>1 DEF StatusFits, JobPc, ToldOf
  <1>5. CASE ToldOf(j) = "nothing"
    <2>1. Replay(j) = body
      BY <1>1, <1>3, <1>4, <1>5, ConcatEmptySeq DEF ReplayOutcomeOnly
    <2>2. QED
      BY <1>1, <1>2, <1>5, <2>1
  <1>6. CASE ToldOf(j) # "nothing"
    <2>1. Replay(j) = body \o <<OutcomeOf(j), Sentinel>>
      BY <1>3, <1>4, <1>6 DEF ReplayOutcomeOnly, OutcomeOf
    <2>2. OutcomeOf(j) \in {CompleteEvent, ErrorEvent}
      BY DEF OutcomeOf
    <2>3. /\ Replay(j) \in Seq(Event)
          /\ \A p : Places(Replay(j), p) = Places(body, p)
      BY <1>1, <2>1, <2>2, NoMore
    <2>4. \A p \in Personas : IF persona[j][p] \in Ended
                              THEN Once(Replay(j), p) ELSE Never(Replay(j), p)
      BY <1>2, <2>3 DEF Once, Never
    <2>5. Closed(Replay(j), OutcomeOf(j))
      BY <1>1, <2>1 DEF Closed
    <2>6. QED
      BY <1>6, <2>3, <2>4, <2>5
  <1>7. QED
    BY <1>5, <1>6

\* The stream itself takes a step.
LEMMA OwnStream ==
    ASSUME IInv, FInv, [Next]_vars, NEW s \in Streams, StreamNext(s)
    PROVE  StreamFits(s)'
  <1> DEFINE j == Watches[s]
  <1>0. /\ jobs \in [Jobs -> Job] /\ StreamsType /\ j \in Jobs /\ AllFit /\ AllFit' /\ StreamFits(s)
        /\ queue[s] \in Seq(Event) /\ received[s] \in Seq(Event) /\ Sent(s) \in Seq(Event)
    <2>1. StreamsType /\ Watches \in [Streams -> Jobs]
      BY JobStoreAssumption DEF FInv
    <2>2. QED
      BY <2>1, SentType, ToldFits, FitKept DEF IInv, Types, FInv
  <1>1. /\ pc' = pc /\ persona' = persona /\ settled' = settled
        /\ \A k \in Jobs : jobs'[k].status = jobs[k].status
    BY StreamsKeep DEF IInv, runVars
  <1>2. \A k \in Jobs : ToldOf(k)' = ToldOf(k)
    BY <1>0, <1>1, SameJob
  <1>3. OutcomeOf(j)' = OutcomeOf(j) /\ OutcomeOf(j) \in Outcomes
    BY <1>0, <1>2 DEF OutcomeOf, Outcomes
  <1>4. ASSUME jobs[j].status = "absent", Subscribe(s) PROVE StreamFits(s)'
    <2>1. /\ jobs' = jobs /\ received' = received /\ stream[s] = "new" /\ stream'[s] = "missing"
      BY <1>0, <1>4 DEF Subscribe, StreamsType
    <2>2. QED
      BY <1>0, <1>2, <1>3, <2>1 DEF StreamFits
  <1>5. ASSUME jobs[j].status # "absent", Subscribe(s) PROVE StreamFits(s)'
    <2>1. /\ received' = received /\ stream[s] = "new" /\ stream'[s] = "subscribed"
          /\ queue'[s] = Replay(j)
          /\ jobs' = [jobs EXCEPT ![j].subscribers = jobs[j].subscribers \cup {s}]
      BY <1>0, <1>5 DEF Subscribe, StreamsType
    <2>2. /\ jobs'[j].subscribers = jobs[j].subscribers \cup {s}
          /\ \A k \in Jobs \ {j} : jobs'[k] = jobs[k]
      BY <1>0, <2>1 DEF Job
    <2>3. received[s] = <<>>
      BY <1>0, <2>1 DEF StreamFits
    <2>4. /\ Replay(j) \in Seq(Event)
          /\ \A p \in Personas : IF persona[j][p] \in Ended
                                 THEN Once(Replay(j), p) ELSE Never(Replay(j), p)
          /\ ToldOf(j) = "nothing" => AllPersonas(Replay(j))
          /\ ToldOf(j) # "nothing" => Closed(Replay(j), OutcomeOf(j))
      BY <1>0, <1>5, ReplayFits
    <2>5. Sent(s)' = Replay(j)
      BY <2>1, <2>3, <2>4, ConcatEmptySeq DEF Sent
    <2>6. Heard(s)'
      BY <1>1, <2>4, <2>5 DEF Heard
    <2>7. pc[j] # "none"
      BY <1>0, <1>5, ToldWhere
    <2>8. Serves(s)'
      BY <1>0, <1>1, <1>2, <1>3, <2>2, <2>4, <2>5, <2>6, <2>7 DEF Serves
    <2>9. QED
      BY <1>0, <1>2, <1>3, <2>1, <2>2, <2>3, <2>8 DEF StreamFits
  <1>6. ASSUME OpenStream(s) PROVE StreamFits(s)'
    <2>1. /\ jobs' = jobs /\ received' = received /\ queue' = queue
          /\ stream[s] = "subscribed" /\ stream'[s] = "open"
      BY <1>0, <1>6 DEF OpenStream, StreamsType
    <2>2. Serves(s)
      BY <1>0, <2>1 DEF StreamFits
    <2>3. Sent(s)' = Sent(s) /\ (Heard(s) => Heard(s)')
      BY <1>1, <2>1 DEF Sent, Heard
    <2>4. Serves(s)'
      BY <1>0, <1>1, <1>2, <1>3, <2>1, <2>2, <2>3 DEF Serves
    <2>5. QED
      BY <1>0, <1>2, <1>3, <2>1, <2>4 DEF StreamFits
  <1>7. ASSUME SendEvent(s) PROVE StreamFits(s)'
    <2> DEFINE e == Head(queue[s])
    <2>1. /\ jobs' = jobs /\ stream' = stream /\ stream[s] = "open"
          /\ queue[s] # <<>> /\ e # Sentinel
          /\ queue'[s] = Tail(queue[s]) /\ received'[s] = Append(received[s], e)
      BY <1>0, <1>7 DEF SendEvent, StreamsType
    <2>2. /\ Len(received[s]) + 1 \in 1..Len(Sent(s)) /\ Sent(s)[Len(received[s]) + 1] = e
          /\ Append(received[s], e) \o Tail(queue[s]) = Sent(s) /\ e \in Event
          /\ Len(Append(received[s], e)) = Len(received[s]) + 1 /\ Len(received[s]) \in Nat
          /\ \A i \in 1..Len(received[s]) : Append(received[s], e)[i] = received[s][i]
          /\ Append(received[s], e)[Len(received[s]) + 1] = e
      <3> DEFINE r == received[s]
                 q == queue[s]
      <3>1. r \in Seq(Event) /\ q \in Seq(Event) /\ q # <<>> /\ e = Head(q) /\ Sent(s) = r \o q
        BY <1>0, <2>1 DEF Sent
      <3> HIDE DEF r, q, e
      <3>2. /\ Len(r) \in Nat /\ Len(r) + 1 \in 1..Len(r \o q) /\ (r \o q)[Len(r) + 1] = e
            /\ Append(r, e) \o Tail(q) = r \o q /\ e \in Event
        BY <3>1, NextOfSent
      <3>3. /\ Len(Append(r, e)) = Len(r) + 1 /\ Append(r, e)[Len(r) + 1] = e
            /\ \A i \in 1..Len(r) : Append(r, e)[i] = r[i]
        BY <3>1, <3>2, AppendProperties
      <3>4. QED
        BY <3>1, <3>2, <3>3 DEF r, q
    <2> HIDE DEF e
    <2>3. Serves(s)
      BY <1>0, <2>1 DEF StreamFits
    <2>4. Sent(s)' = Sent(s)
      BY <2>1, <2>2 DEF Sent
    <2>5. Serves(s)'
      <3>1. Heard(s)'
        BY <1>1, <2>3, <2>4 DEF Serves, Heard
      <3>2. QED
        BY <1>0, <1>1, <1>2, <1>3, <2>1, <2>3, <2>4, <3>1 DEF Serves
    <2>6. e \in Outcomes => ToldOf(j) # "nothing" /\ e = OutcomeOf(j)
      <3> SUFFICES ASSUME e \in Outcomes PROVE ToldOf(j) # "nothing" /\ e = OutcomeOf(j)
        OBVIOUS
      <3>1. e.kind # "persona"
        BY Events DEF Outcomes
      <3>2. ToldOf(j) # "nothing"
        BY <2>2, <2>3, <3>1 DEF Serves, AllPersonas
      <3>3. Closed(Sent(s), OutcomeOf(j))
        BY <2>3, <3>2 DEF Serves
      <3> DEFINE n == Len(Sent(s))
                 m == Len(received[s])
      <3>4. /\ n \in Nat /\ m \in Nat /\ n >= 2 /\ m + 1 \in 1..n /\ Sent(s)[m + 1] = e
            /\ Sent(s)[n - 1] = OutcomeOf(j) /\ Sent(s)[n] = Sentinel
            /\ \A i \in 1..n - 2 : Sent(s)[i].kind = "persona"
        BY <1>0, <1>3, <2>2, <3>3, ClosedPlaces, LenProperties
      <3> HIDE DEF n, m
      <3>5. m + 1 \notin 1..n - 2 /\ m + 1 # n
        BY <2>1, <3>1, <3>4
      <3>6. m + 1 = n - 1
        BY <3>4, <3>5
      <3>7. QED
        BY <3>2, <3>4, <3>6
    <2>7. \A i \in 1..Len(received'[s]) : received'[s][i] \in Outcomes =>
                ToldOf(j) # "nothing" /\ received'[s][i] = OutcomeOf(j)
      <3>1. \A i \in 1..Len(received[s]) : received[s][i] \in Outcomes =>
                ToldOf(j) # "nothing" /\ received[s][i] = OutcomeOf(j)
        BY <1>0 DEF StreamFits
      <3>2. \A i \in 1..Len(received[s]) + 1 : i \in 1..Len(received[s]) \/ i = Len(received[s]) + 1
        BY <2>2
      <3>3. QED
        BY <2>1, <2>2, <2>6, <3>1, <3>2
    <2>8. QED
      BY <1>0, <1>2, <1>3, <2>1, <2>5, <2>7 DEF StreamFits
  <1>8. ASSUME EndStream(s) PROVE StreamFits(s)'
    <2>1. /\ received' = received /\ stream[s] = "open" /\ stream'[s] = "ended"
          /\ queue[s] # <<>> /\ Head(queue[s]) = Sentinel /\ queue'[s] = Tail(queue[s])
          /\ jobs' = [jobs EXCEPT ![j].subscribers = jobs[j].subscribers \ {s}]
      BY <1>0, <1>8 DEF EndStream, Unsubscribe, StreamsType
    <2>2. /\ jobs'[j].subscribers = jobs[j].subscribers \ {s}
          /\ \A k \in Jobs \ {j} : jobs'[k] = jobs[k]
      BY <1>0, <2>1 DEF Job
    <2>3. Serves(s)
      BY <1>0, <2>1 DEF StreamFits
    <2>4. ToldOf(j) # "nothing"
      <3>1. Len(received[s]) + 1 \in 1..Len(Sent(s)) /\ Sent(s)[Len(received[s]) + 1] = Sentinel
        BY <1>0, <2>1, NextOfSent DEF Sent
      <3>2. Sentinel.kind # "persona"
        BY Events
      <3>3. QED
        BY <2>3, <3>1, <3>2 DEF Serves, AllPersonas
    <2>5. Closed(received[s] \o queue[s], OutcomeOf(j))
      BY <2>3, <2>4 DEF Serves, Sent
    <2>6. /\ Tail(queue[s]) = <<>> /\ received[s] # <<>>
          /\ received[s][Len(received[s])] = OutcomeOf(j)
          /\ received[s] \o Tail(queue[s]) = received[s]
          /\ \A p : Places(received[s], p) = Places(received[s] \o queue[s], p)
      <3> DEFINE r == received[s]
                 q == queue[s]
                 e == OutcomeOf(j)
      <3>1. /\ r \in Seq(Event) /\ q \in Seq(Event) /\ q # <<>> /\ Head(q) = Sentinel
            /\ e \in Outcomes /\ Closed(r \o q, e)
        BY <1>0, <1>3, <2>1, <2>5
      <3> HIDE DEF r, q, e
      <3>2. /\ Tail(q) = <<>> /\ r # <<>> /\ r[Len(r)] = e /\ r \o Tail(q) = r
            /\ \A p : Places(r, p) = Places(r \o q, p)
        BY <3>1, SentinelIsLast
      <3>3. QED
        BY <3>2 DEF r, q, e
    <2>7. \A p : Places(Sent(s)', p) = Places(Sent(s), p)
      BY <2>1, <2>6 DEF Sent
    <2>8. Heard(s)'
      BY <1>1, <2>3, <2>7 DEF Serves, Heard, Once, Never
    <2>9. Heeds(s)'
      BY <1>0, <1>2, <1>3, <2>1, <2>4, <2>6, <2>8 DEF Heeds
    <2>10. QED
      BY <1>0, <1>2, <1>3, <2>1, <2>2, <2>9 DEF StreamFits
  <1>9. ASSUME LeaveStream(s) PROVE StreamFits(s)'
    <2>1. /\ received' = received
          /\ \/ /\ stream'[s] = "gone"
                /\ jobs' = [jobs EXCEPT ![j].subscribers = jobs[j].subscribers \ {s}]
             \/ stream'[s] = "leaked" /\ jobs' = jobs
      BY <1>0, <1>9 DEF LeaveStream, Unsubscribe, StreamsType
    <2>2. /\ \A k \in Jobs : s \in jobs'[k].subscribers => s \in jobs[k].subscribers
          /\ stream'[s] = "gone" => s \notin jobs'[j].subscribers
      BY <1>0, <2>1 DEF Job
    <2>3. QED
      BY <1>0, <1>2, <1>3, <2>1, <2>2 DEF StreamFits
  <1>10. QED
    BY <1>4, <1>5, <1>6, <1>7, <1>8, <1>9 DEF StreamNext, ServeStream

LEMMA StreamHeard ==
    ASSUME IInv, FInv, [Next]_vars, NEW t \in Streams, StreamNext(t)
    PROVE  FInv'
  <1>0. jobs \in [Jobs -> Job] /\ StreamsType /\ Watches[t] \in Jobs
        /\ queue[t] \in Seq(Event) /\ received[t] \in Seq(Event)
    <2>1. StreamsType /\ Watches \in [Streams -> Jobs]
      BY JobStoreAssumption DEF FInv
    <2>2. QED
      BY <2>1, SentType DEF IInv, Types
  <1>1. StreamsType'
    <2>1. stream' \in [Streams -> StreamStep]
      BY <1>0 DEF StreamNext, ServeStream, Subscribe, OpenStream, SendEvent, EndStream,
                  LeaveStream, StreamsType, StreamStep
    <2>2. CASE Subscribe(t)
      <3>1. jobs[Watches[t]].status # "absent" => Replay(Watches[t]) \in Seq(Event)
        BY <1>0, ReplayFits
      <3>2. /\ received' = received
            /\ \/ queue' = queue
               \/ /\ queue' = [queue EXCEPT ![t] = Replay(Watches[t])]
                  /\ Replay(Watches[t]) \in Seq(Event)
        BY <2>2, <3>1 DEF Subscribe
      <3>3. QED
        BY <1>0, <2>1, <3>2 DEF StreamsType
    <2>3. CASE SendEvent(t)
      <3>1. Tail(queue[t]) \in Seq(Event) /\ Append(received[t], Head(queue[t])) \in Seq(Event)
        BY <1>0, <2>3, NextOfSent DEF SendEvent
      <3>2. /\ queue' = [queue EXCEPT ![t] = Tail(queue[t])]
            /\ received' = [received EXCEPT ![t] = Append(received[t], Head(queue[t]))]
        BY <1>0, <2>3 DEF SendEvent, StreamsType
      <3>3. QED
        BY <1>0, <2>1, <3>1, <3>2 DEF StreamsType
    <2>4. CASE EndStream(t)
      <3>1. Tail(queue[t]) \in Seq(Event)
        BY <1>0, <2>4, NextOfSent DEF EndStream
      <3>2. queue' = [queue EXCEPT ![t] = Tail(queue[t])] /\ received' = received
        BY <1>0, <2>4 DEF EndStream, StreamsType
      <3>3. QED
        BY <1>0, <2>1, <3>1, <3>2 DEF StreamsType
    <2>5. CASE OpenStream(t) \/ LeaveStream(t)
      <3>1. <<>> \in Seq(Event)
        OBVIOUS
      <3>2. received' = received /\ (queue' = queue \/ queue' = [queue EXCEPT ![t] = <<>>])
        BY <2>5 DEF OpenStream, LeaveStream
      <3>3. QED
        BY <1>0, <2>1, <3>1, <3>2 DEF StreamsType
    <2>6. QED
      BY <2>2, <2>3, <2>4, <2>5 DEF StreamNext, ServeStream
  <1>2. ASSUME NEW k \in Jobs PROVE PersonasFit(k)'
    <2>1. PersonasFit(k) /\ pc' = pc /\ persona' = persona
      BY StreamsKeep DEF FInv, IInv, runVars
    <2>2. jobs'[k].status = jobs[k].status /\ jobs'[k].personas = jobs[k].personas
      <3>1. \/ jobs' = jobs
            \/ \E S : jobs' = [jobs EXCEPT ![Watches[t]].subscribers = S]
        <4>1. \/ jobs' = jobs
              \/ jobs' = [jobs EXCEPT ![Watches[t]].subscribers = @ \cup {t}]
              \/ jobs' = [jobs EXCEPT ![Watches[t]].subscribers = @ \ {t}]
          BY DEF StreamNext, ServeStream, Subscribe, OpenStream, SendEvent, EndStream, LeaveStream,
                 Unsubscribe
        <4>2. QED
          BY <4>1
      <3>2. ASSUME NEW S, jobs' = [jobs EXCEPT ![Watches[t]].subscribers = S]
            PROVE  jobs'[k].status = jobs[k].status /\ jobs'[k].personas = jobs[k].personas
        BY <1>0, <3>2 DEF Job
      <3>3. QED
        BY <3>1, <3>2
    <2>3. QED
      BY <2>1, <2>2 DEF PersonasFit
  <1>3. \A s \in Streams : StreamFits(s)'
    BY OwnStream, OtherStream
  <1>4. QED
    BY <1>1, <1>2, <1>3 DEF FInv

-----------------------------------------------------------------------------
(* The invariant of the streams.                                           *)

LEMMA InitHeard == Init => FInv
  <1> SUFFICES ASSUME Init PROVE FInv
    OBVIOUS
  <1>1. StreamsType
    BY DEF Init, StoreInit, StreamsType, StreamStep
  <1>2. ASSUME NEW j \in Jobs PROVE PersonasFit(j)
    BY DEF Init, StoreInit, NoJob, PersonasFit
  <1>3. ASSUME NEW s \in Streams PROVE StreamFits(s)
    <2>1. /\ stream[s] = "new" /\ received[s] = <<>> /\ Len(<<>>) = 0
          /\ \A k \in Jobs : jobs[k] = NoJob
      BY DEF Init, StoreInit
    <2>2. NoJob.subscribers = {} /\ Watches[s] \in Jobs
      BY JobStoreAssumption DEF NoJob
    <2>3. QED
      BY <2>1, <2>2 DEF StreamFits
  <1>4. QED
    BY <1>1, <1>2, <1>3 DEF FInv

LEMMA PersonaHeard ==
    ASSUME IInv, FInv, [Next]_vars, NEW j \in Jobs, NEW p \in Personas, PersonaNext(j, p)
    PROVE  FInv'
  <1>1. CASE TakeSlot(j, p)
    BY <1>1, QuietHeard
  <1> DEFINE Update(st, from, to) ==
                /\ UpdatePersona(j, p, st) /\ pc' = pc /\ settled' = settled
                /\ persona' = [persona EXCEPT ![j][p] = to] /\ persona[j][p] = from
  <1>2. \/ Update("running", "scheduled", "queued")
        \/ Update("done", "calling", "done")
        \/ Update("error", "calling", "failed")
        \/ TakeSlot(j, p)
    BY DEF PersonaNext, StartPersona, PersonaDone, PersonaFails, MovePersona
  <1>3. ASSUME NEW st \in PersonaStatus, NEW from \in {"scheduled", "calling"},
               NEW to \in PersonaStep, Update(st, from, to), st \in Settled <=> to \in Ended
        PROVE  FInv'
    BY <1>3, PersonaUpdateHeard
  <1> HIDE DEF Update
  <1>4. /\ {"running", "done", "error"} \subseteq PersonaStatus
        /\ {"queued", "done", "failed"} \subseteq PersonaStep
        /\ "running" \notin Settled /\ {"done", "error"} \subseteq Settled
        /\ "queued" \notin Ended /\ {"done", "failed"} \subseteq Ended
    BY DEF PersonaStatus, PersonaStep, Settled, Ended
  <1>5. QED
    BY <1>1, <1>2, <1>3, <1>4

LEMMA StepFInv == IInv /\ FInv /\ [Next]_vars => FInv'
  <1> SUFFICES ASSUME IInv, FInv, [Next]_vars PROVE FInv'
    OBVIOUS
  <1>1. ASSUME NEW j \in Jobs, StartAnalysis(j) PROVE FInv'
    BY <1>1, StartHeard
  <1>2. ASSUME NEW j \in Jobs, JobNext(j) PROVE FInv'
    <2>1. ASSUME NEW p \in Personas, PersonaNext(j, p) PROVE FInv'
      BY <2>1, PersonaHeard
    <2>2. CASE NothingToRun(j) \/ Stopped(j) \/ Publish(j) \/ Unexpected(j)
      BY <2>2, OutcomeHeard
    <2>3. CASE Gather(j) \/ GroundingEnds(j) \/ NoResults(j) \/ SomeResults(j) \/ Grounded(j)
                  \/ Settle(j)
      BY <2>3, QuietHeard
    <2>4. QED
      BY <1>2, <2>1, <2>2, <2>3 DEF JobNext
  <1>3. ASSUME NEW s \in Streams, StreamNext(s) PROVE FInv'
    BY <1>3, StreamHeard
  <1>4. CASE EvictNext
    BY <1>4, EvictHeard
  <1>5. CASE UNCHANGED vars
    <2>1. /\ jobs' = jobs /\ queue' = queue /\ stream' = stream /\ received' = received
          /\ pc' = pc /\ persona' = persona /\ settled' = settled
      BY <1>5 DEF vars, storeVars, runVars
    <2>2. \A k \in Jobs : PersonasFit(k)' /\ ToldOf(k)' = ToldOf(k)
      BY <2>1 DEF FInv, PersonasFit, ToldOf
    <2>3. QED
      BY <2>1, <2>2, UnheardStep
  <1>6. QED
    BY <1>1, <1>2, <1>3, <1>4, <1>5 DEF Next

LEMMA FInvAlways == Spec => [](IInv /\ FInv)
  <1>1. Init => IInv /\ FInv
    BY InitIInv, InitHeard
  <1>2. IInv /\ FInv /\ [Next]_vars => (IInv /\ FInv)'
    BY StepIInv, StepFInv
  <1>3. QED
    BY <1>1, <1>2, PTL DEF Spec

LEMMA HeardIsTold ==
    ASSUME NEW s, NEW p
    PROVE  Told(s, p) = Places(Sent(s), p)
  BY DEF Told, Places, Tells, Sent

(* "So a subscriber that connects a beat late (or reconnects) still sees   *)
(* the full picture" (job_store.py:112-113): whenever a client subscribed, *)
(* before, between or after the broadcasts, a stream that ended by itself  *)
(* told it how every persona with prompts ended, each exactly once, and    *)
(* then the outcome.                                                       *)
THEOREM LateSubscribersSeeAll == Spec => []FullPicture
  <1>1. ASSUME IInv, FInv PROVE FullPicture
    <2> SUFFICES ASSUME NEW s \in Streams, stream[s] = "ended"
                 PROVE  /\ received[s] # <<>> /\ received[s][Len(received[s])] \in Outcomes
                        /\ \A p \in Prompted(Watches[s]) : Cardinality(Told(s, p)) = 1
      BY DEF FullPicture
    <2> DEFINE j == Watches[s]
    <2>0. j \in Jobs
      BY JobStoreAssumption
    <2>1. Heeds(s)
      BY <1>1 DEF FInv, StreamFits
    <2>2. received[s] # <<>> /\ received[s][Len(received[s])] \in Outcomes
      BY <2>1 DEF Heeds, OutcomeOf, Outcomes
    <2>3. ASSUME NEW p \in Prompted(j) PROVE Cardinality(Told(s, p)) = 1
      <3>1. PersonasFit(j) /\ pc[j] \notin Untold /\ pc[j] \in JobPc
        BY <1>1, <2>0, <2>1, ToldWhere DEF FInv, Heeds, IInv, Types
      <3>2. p \in Personas /\ persona[j][p] \in Ended
        BY <3>1 DEF PersonasFit, Prompted, Untold
      <3>3. PICK i : Places(Sent(s), p) = {i}
        BY <2>1, <3>2 DEF Heeds, Heard, Once
      <3>4. Told(s, p) = {i}
        BY <3>3, HeardIsTold
      <3>5. Cardinality({i}) = 1
        BY FS_Singleton
      <3>6. QED
        BY <3>4, <3>5
    <2>4. QED
      BY <2>2, <2>3
  <1>2. QED
    BY <1>1, FInvAlways, PTL

(* However many streams watch a job, and whenever each came and went: no   *)
(* two clients are told different outcomes, and none is told of an error   *)
(* for a job whose use was kept or given a result whose use went back      *)
(* (runner.py:124-136,150-157, job_store.py:88-107).                       *)
THEOREM OneOutcomePerJob == Spec => []ClientsAgreeWithLedger
  <1>1. ASSUME IInv, FInv PROVE ClientsAgreeWithLedger
    <2> SUFFICES ASSUME NEW s \in Streams, NEW i \in 1..Len(received[s])
                 PROVE  /\ received[s][i] = CompleteEvent => settled[Watches[s]] \notin {"refunded", "owed"}
                        /\ received[s][i] = ErrorEvent => settled[Watches[s]] \notin {"finished", "kept"}
                        /\ \A t \in Streams : Watches[t] = Watches[s] /\ received[s][i] \in Outcomes =>
                            \A k \in 1..Len(received[t]) :
                                received[t][k] \in Outcomes => received[t][k] = received[s][i]
      BY DEF ClientsAgreeWithLedger
    <2> DEFINE j == Watches[s]
    <2>1. \A t \in Streams : \A k \in 1..Len(received[t]) : received[t][k] \in Outcomes =>
                ToldOf(Watches[t]) # "nothing" /\ received[t][k] = OutcomeOf(Watches[t])
      BY <1>1 DEF FInv, StreamFits
    <2>2. j \in Jobs /\ StatusFits(j) /\ pc[j] \in JobPc /\ ToldFit(j)
      BY <1>1, JobStoreAssumption, ToldFits DEF IInv, Types, AllFit
    <2>3. CompleteEvent # ErrorEvent /\ CompleteEvent \in Outcomes /\ ErrorEvent \in Outcomes
      BY Events DEF Outcomes
    <2>4. ASSUME received[s][i] = CompleteEvent PROVE settled[j] \notin {"refunded", "owed"}
      <3>1. ToldOf(j) = "result"
        BY <2>1, <2>3, <2>4 DEF OutcomeOf
      <3>2. QED
        BY <2>2, <3>1 DEF ToldFit, StatusFits, ToldOf, JobPc, Untold
    <2>5. ASSUME received[s][i] = ErrorEvent PROVE settled[j] \notin {"finished", "kept"}
      <3>1. ToldOf(j) # "result"
        BY <2>1, <2>3, <2>5 DEF OutcomeOf
      <3>2. QED
        BY <2>2, <3>1 DEF ToldFit, StatusFits, ToldOf, JobPc, Untold
    <2>6. QED
      BY <2>1, <2>4, <2>5
  <1>2. QED
    BY <1>1, FInvAlways, PTL
=============================================================================
