------------------------------- MODULE RunJob -------------------------------
(***************************************************************************)
(* app/runner.py over the job store: the task that POST /api/analysis      *)
(* starts after its redemption.  It runs the personas of a request at most *)
(* `persona_concurrency` at a time, the grounding beside them, then the    *)
(* aggregation and the insights, tells the streams the outcome and has the *)
(* code store settle the use.  Every await is a point where another task   *)
(* of the event loop may run: it ends an action.                           *)
(***************************************************************************)
EXTENDS JobStore

CONSTANTS
    Concurrency,        \* settings.persona_concurrency
    Raises              \* whether aggregation or insights may raise

ASSUME RunJobAssumption ==
    /\ Concurrency \in Nat \ {0}
    /\ Raises \in BOOLEAN

VARIABLES
    pc,                 \* pc[j]: where run_job() of j is
    persona,            \* persona[j][p]: where _run_one_persona() is
    grounding,          \* grounding[j]: the run_grounding() task of j
    settled             \* settled[j]: "finished" or "refunded" if that call
                        \* returned, "kept" or "owed" if it raised

runVars == <<pc, persona, grounding, settled>>
vars    == <<storeVars, runVars>>

JobPc ==
    { "none",           \* redeem() has not returned True
      "created",        \* the task is scheduled
      "gathering",      \* awaits the personas
      "stopping",       \* _stop(grounding): cancelled it and awaits its end
      "grounding",      \* awaits the grounding
      "insights",       \* awaits generate_insights()
      "finishing",      \* told the result, awaits finish()
      "refunding",      \* told that no persona had a result, awaits refund()
      "unexpected",     \* told of an exception, awaits refund()
      "over" }

PersonaStep   == {"idle", "prompted", "scheduled", "queued", "calling", "done", "failed"}
GroundingStep == {"none", "running", "cancelling", "over"}

TypeOK ==
    /\ StoreTypeOK
    /\ pc \in [Jobs -> JobPc]
    /\ persona \in [Jobs -> [Personas -> PersonaStep]]
    /\ grounding \in [Jobs -> GroundingStep]
    /\ settled \in [Jobs -> {"open", "finished", "kept", "refunded", "owed"}]

Init ==
    /\ StoreInit
    /\ pc = [j \in Jobs |-> "none"]
    /\ persona = [j \in Jobs |-> [p \in Personas |-> "idle"]]
    /\ grounding = [j \in Jobs |-> "none"]
    /\ settled = [j \in Jobs |-> "open"]

Goto(j, from, to) ==
    /\ pc[j] = from
    /\ pc' = [pc EXCEPT ![j] = to]

-----------------------------------------------------------------------------
\* The personas the request of j has prompts for.
Prompted(j) == {p \in Personas : persona[j][p] # "idle"}

\* start_analysis() once redeem() has returned True, for any request.
StartAnalysis(j) ==
    /\ Goto(j, "none", "created")
    /\ CreateJob(j)
    /\ \E prompted \in SUBSET Personas :
          persona' = [persona EXCEPT ![j] =
              [p \in Personas |-> IF p \in prompted THEN "prompted" ELSE "idle"]]
    /\ UNCHANGED <<grounding, settled>>

\* run_job() up to its first await: no persona has prompts ...
NothingToRun(j) ==
    /\ Prompted(j) = {}
    /\ Goto(j, "created", "refunding")
    /\ Fail(j)
    /\ UNCHANGED <<persona, grounding, settled>>

\* ... or the grounding task is created and the personas are gathered.
Gather(j) ==
    /\ Prompted(j) # {}
    /\ Goto(j, "created", "gathering")
    /\ grounding' = [grounding EXCEPT ![j] = "running"]
    /\ persona' = [persona EXCEPT ![j] =
            [p \in Personas |-> IF p \in Prompted(j) THEN "scheduled" ELSE "idle"]]
    /\ UNCHANGED <<storeVars, settled>>

-----------------------------------------------------------------------------
(* _run_one_persona().                                                     *)

MovePersona(j, p, from, to) ==
    /\ persona[j][p] = from
    /\ persona' = [persona EXCEPT ![j][p] = to]
    /\ UNCHANGED <<pc, grounding, settled>>

\* q's place in the order in which gather() started the personas
Before(p, q) == \E i, k \in 1..Len(Order) : i < k /\ Order[i] = p /\ Order[k] = q

\* "running" is shown before the persona has its slot.
StartPersona(j, p) ==
    /\ \A q \in Personas : Before(q, p) => persona[j][q] # "scheduled"
    /\ MovePersona(j, p, "scheduled", "queued")
    /\ UpdatePersona(j, p, "running")

\* The semaphore is this run's own and wakes its waiters in order.
TakeSlot(j, p) ==
    /\ Cardinality({q \in Personas : persona[j][q] = "calling"}) < Concurrency
    /\ \A q \in Personas : Before(q, p) => persona[j][q] \notin {"scheduled", "queued"}
    /\ MovePersona(j, p, "queued", "calling")
    /\ UNCHANGED storeVars

PersonaDone(j, p) ==
    /\ MovePersona(j, p, "calling", "done")
    /\ UpdatePersona(j, p, "done")

PersonaFails(j, p) ==
    /\ MovePersona(j, p, "calling", "failed")
    /\ UpdatePersona(j, p, "error")

-----------------------------------------------------------------------------
(* The grounding task; when it is cancelled it ends at its next await.     *)

\* It returns, raises or is cancelled: run_job() goes on alike, with
\* empty_sources() for one that raised.
GroundingEnds(j) ==
    /\ grounding[j] \in {"running", "cancelling"}
    /\ grounding' = [grounding EXCEPT ![j] = "over"]
    /\ UNCHANGED <<storeVars, pc, persona, settled>>

GroundingOver(j) == grounding[j] = "over"

-----------------------------------------------------------------------------
(* run_job() from gather() on.                                             *)

Results(j)  == {p \in Prompted(j) : persona[j][p] = "done"}
Gathered(j) == \A p \in Prompted(j) : persona[j][p] \in {"done", "failed"}

\* Mutant: the grounding is left running when no persona has a result.
NoResultsUnstopped(j) ==
    /\ Gathered(j) /\ Results(j) = {}
    /\ Goto(j, "gathering", "refunding")
    /\ Fail(j)
    /\ UNCHANGED <<persona, grounding, settled>>

\* Mutant: one persona that failed sinks the job.
NoResultsIfOneFails(j) ==
    /\ Gathered(j) /\ \E p \in Prompted(j) : persona[j][p] = "failed"
    /\ Goto(j, "gathering", "stopping")
    /\ grounding' = [grounding EXCEPT ![j] = IF @ = "running" THEN "cancelling" ELSE @]
    /\ UNCHANGED <<storeVars, persona, settled>>

\* Every persona failed: _stop(grounding) ...
NoResults(j) ==
    /\ Gathered(j) /\ Results(j) = {}
    /\ Goto(j, "gathering", "stopping")
    /\ grounding' = [grounding EXCEPT ![j] = IF @ = "running" THEN "cancelling" ELSE @]
    /\ UNCHANGED <<storeVars, persona, settled>>

\* ... and then _fail().
Stopped(j) ==
    /\ GroundingOver(j)
    /\ Goto(j, "stopping", "refunding")
    /\ grounding' = [grounding EXCEPT ![j] = "none"]
    /\ Fail(j)
    /\ UNCHANGED <<persona, settled>>

SomeResults(j) ==
    /\ Gathered(j) /\ Results(j) # {}
    /\ Goto(j, "gathering", "grounding")
    /\ UNCHANGED <<storeVars, persona, grounding, settled>>

\* No one holds the task any more.
Grounded(j) ==
    /\ GroundingOver(j)
    /\ Goto(j, "grounding", "insights")
    /\ grounding' = [grounding EXCEPT ![j] = "none"]
    /\ UNCHANGED <<storeVars, persona, settled>>

\* job_store.complete() and, with no await between, the call of finish().
Publish(j) ==
    /\ Goto(j, "insights", "finishing")
    /\ Complete(j)
    /\ UNCHANGED <<persona, grounding, settled>>

\* An exception of the aggregation or of the insights: the outer `except`.
Unexpected(j) ==
    /\ Raises
    /\ \/ GroundingOver(j) /\ Goto(j, "grounding", "unexpected")
       \/ Goto(j, "insights", "unexpected")
    /\ grounding' = [grounding EXCEPT ![j] = "none"]
    /\ Fail(j)
    /\ UNCHANGED <<persona, settled>>

\* Mutant: an error of finish() reaches the outer `except` of run_job().
FinishErrorEscapes(j) ==
    /\ Goto(j, "finishing", "unexpected")
    /\ Fail(j)
    /\ UNCHANGED <<persona, grounding, settled>>

\* finish() or refund() returns, or raises and is logged; the task is done.
Settle(j) ==
    /\ \/ /\ Goto(j, "finishing", "over")
          /\ \E s \in {"finished", "kept"} : settled' = [settled EXCEPT ![j] = s]
       \/ /\ Goto(j, "refunding", "over") \/ Goto(j, "unexpected", "over")
          /\ \E s \in {"refunded", "owed"} : settled' = [settled EXCEPT ![j] = s]
    /\ jobs' = [jobs EXCEPT ![j].task = "done"]
    /\ UNCHANGED <<expired, queue, stream, received, persona, grounding>>

-----------------------------------------------------------------------------
PersonaNext(j, p) ==
    StartPersona(j, p) \/ TakeSlot(j, p) \/ PersonaDone(j, p) \/ PersonaFails(j, p)

JobNext(j) ==
    \/ NothingToRun(j) \/ Gather(j)
    \/ \E p \in Personas : PersonaNext(j, p)
    \/ GroundingEnds(j)
    \/ NoResults(j) \/ Stopped(j) \/ SomeResults(j) \/ Grounded(j)
    \/ Publish(j) \/ Unexpected(j) \/ Settle(j)

ServeStream(s) == OpenStream(s) \/ SendEvent(s) \/ EndStream(s)

StreamNext(s) ==
    (Subscribe(s) \/ ServeStream(s) \/ LeaveStream(s)) /\ UNCHANGED runVars

EvictNext == ((\E j \in Jobs : Expire(j)) \/ Evict) /\ UNCHANGED runVars

Next ==
    \/ \E j \in Jobs : StartAnalysis(j) \/ JobNext(j)
    \/ \E s \in Streams : StreamNext(s)
    \/ EvictNext

Spec == Init /\ [][Next]_vars

\* The event loop runs every ready task, every model call ends (the client of
\* services/anthropic_client.py gives each a timeout), the clock advances and
\* the eviction comes round again.  Nothing makes a client post or subscribe.
Fairness ==
    /\ \A j \in Jobs : WF_vars(JobNext(j))
    /\ \A s \in Streams : WF_vars(ServeStream(s) /\ UNCHANGED runVars)
    /\ WF_vars(EvictNext)

FairSpec == Spec /\ Fairness

-----------------------------------------------------------------------------
(* The contract of JobOutcome: what the store shows of a job, or what was  *)
(* settled of one it no longer has, is told once, and the use is settled   *)
(* in agreement with it.                                                   *)

ToldOf(j) ==
    CASE jobs[j].status = "complete" \/ settled[j] \in {"finished", "kept"} -> "result"
      [] jobs[j].status = "error" \/ settled[j] \in {"refunded", "owed"}    -> "error"
      [] OTHER                                                             -> "nothing"

SettledOf(j) == IF settled[j] \in {"kept", "owed"} THEN "open" ELSE settled[j]

Contract == INSTANCE JobOutcome
    WITH told <- [j \in Jobs |-> ToldOf(j)], settled <- [j \in Jobs |-> SettledOf(j)]

\* run_job() over the job store keeps the contract, for any number of streams,
\* evictions and failures: it tells one outcome and settles accordingly.
KeepsContract == Contract!Spec

-----------------------------------------------------------------------------
(* What clients and the code store may rely on.                            *)

Outcomes == {CompleteEvent, ErrorEvent}

\* The positions at which the client of s was told, or will be, how p ended.
Told(s, p) ==
    LET sent == received[s] \o queue[s]
    IN  {i \in 1..Len(sent) : sent[i].kind = "persona" /\ sent[i].of = p
                                /\ sent[i].status \in Settled}

\* "So a subscriber that connects a beat late (or reconnects) still sees the
\* full picture" (job_store.py:112-113): a stream that ended by itself has told
\* its client how every persona with prompts ended, each exactly once, and
\* then the outcome.
FullPicture ==
    \A s \in Streams : stream[s] = "ended" =>
        /\ received[s] # <<>> /\ received[s][Len(received[s])] \in Outcomes
        /\ \A p \in Prompted(Watches[s]) : Cardinality(Told(s, p)) = 1

\* "Deleting it mid-flight would leave its SSE stream hanging forever": the
\* store keeps every job whose task still has something to report, and a job
\* that is over left no grounding behind that still spends calls.
JobAndTasksLiveTogether ==
    \A j \in Jobs :
        /\ pc[j] \notin {"none", "over"} => jobs[j].status # "absent"
        /\ pc[j] = "over" => grounding[j] \notin {"running", "cancelling"}

\* Clients of one job never disagree, and none is told of an error for a job
\* whose use was kept, or given a result whose use went back.
ClientsAgreeWithLedger ==
    \A s \in Streams : \A i \in 1..Len(received[s]) :
        /\ received[s][i] = CompleteEvent => settled[Watches[s]] \notin {"refunded", "owed"}
        /\ received[s][i] = ErrorEvent => settled[Watches[s]] \notin {"finished", "kept"}
        /\ \A t \in Streams : Watches[t] = Watches[s] /\ received[s][i] \in Outcomes =>
            \A k \in 1..Len(received[t]) :
                received[t][k] \in Outcomes => received[t][k] = received[s][i]

\* "One persona's failure must not sink the job" (runner.py:58), nor does a
\* failure of the grounding: one persona with a result is enough for the job
\* to be published, unless the aggregation or the insights raise after it.
OnePersonaIsEnough ==
    \A j \in Jobs :
        pc[j] = "gathering" /\ Results(j) # {}
            ~> settled[j] \in {"finished", "kept"} \/ pc[j] = "unexpected"

\* Every stream that the server serves comes to an end: as each is opened once,
\* there is a time when none of them is still served.
EveryStreamEnds ==
    (\E s \in Streams : stream[s] \in {"subscribed", "open"})
        ~> (\A s \in Streams : stream[s] \notin {"subscribed", "open"})

\* A queue no generator will ever read is not kept for ever.
Leaks(s) == stream[s] = "leaked" /\ s \in jobs[Watches[s]].subscribers
LeakIsReclaimed == (\E s \in Streams : Leaks(s)) ~> (\A s \in Streams : ~Leaks(s))
=============================================================================
