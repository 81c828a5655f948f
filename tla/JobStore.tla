------------------------------ MODULE JobStore ------------------------------
(***************************************************************************)
(* app/job_store.py and the SSE route of app/routes/analysis.py: the jobs  *)
(* of one process, the queue of every subscribed stream, the replay a late *)
(* subscriber gets, the generator that sends a queue to its client, and    *)
(* the eviction of old jobs.                                               *)
(*                                                                         *)
(* No operation of the store awaits, so each is one step of the event      *)
(* loop.  Who calls them, and when, is RunJob.                             *)
(***************************************************************************)
EXTENDS Naturals, Sequences, FiniteSets

CONSTANTS
    Jobs,               \* job ids
    Order,              \* the ids of the personas, in the request's order
    Streams,            \* GET /api/analysis/{job_id}/stream requests, numbered
                        \* in the order in which they arrive
    Watches             \* Watches[s]: the job that stream s asks for

Personas == {Order[i] : i \in 1..Len(Order)}

ASSUME JobStoreAssumption ==
    /\ Order \in Seq(Personas)
    /\ \A i, k \in 1..Len(Order) : Order[i] = Order[k] => i = k
    /\ Streams \subseteq Nat
    /\ Watches \in [Streams -> Jobs]

VARIABLES
    jobs,               \* jobs[j]: the Job of j; status "absent" if there is none
    expired,            \* jobs created more than job_ttl_seconds ago
    queue,              \* queue[s]: what subscribe() and broadcasts have put
    stream,             \* stream[s]: where the request s is
    received            \* received[s]: the events sent to the client of s

storeVars == <<jobs, expired, queue, stream, received>>

PersonaStatus == {"waiting", "running", "done", "error"}
Settled       == {"done", "error"}

Job ==
    [ status      : {"absent", "running", "complete", "error"},
      personas    : [Personas -> PersonaStatus],
      task        : {"none", "pending", "done"},
      subscribers : SUBSET Streams ]

NoJob ==
    [ status |-> "absent", personas |-> [p \in Personas |-> "waiting"],
      task |-> "none", subscribers |-> {} ]

PersonaEvent(p, s) == [kind |-> "persona", of |-> p, status |-> s]
CompleteEvent      == [kind |-> "complete"]
ErrorEvent         == [kind |-> "error"]
Sentinel           == [kind |-> "end"]      \* a None on the queue

Event ==
    [kind : {"persona"}, of : Personas, status : PersonaStatus]
        \cup {CompleteEvent, ErrorEvent, Sentinel}

StreamStep ==
    { "new",            \* the client has not asked
      "missing",        \* 404: the job is not, or no longer, in the store
      "subscribed",     \* the queue exists, the generator has not started
      "open",           \* the generator waits for its queue
      "ended",          \* the generator took the sentinel
      "gone",           \* the client left an open stream
      "leaked" }        \* the client left before the generator started

StoreTypeOK ==
    /\ jobs \in [Jobs -> Job]
    /\ expired \in SUBSET Jobs
    /\ queue \in [Streams -> Seq(Event)]
    /\ stream \in [Streams -> StreamStep]
    /\ received \in [Streams -> Seq(Event)]

StoreInit ==
    /\ jobs = [j \in Jobs |-> NoJob]
    /\ expired = {}
    /\ queue = [s \in Streams |-> <<>>]
    /\ stream = [s \in Streams |-> "new"]
    /\ received = [s \in Streams |-> <<>>]

-----------------------------------------------------------------------------
(* The operations a job calls.  Each but create_job() is a silent no-op on *)
(* a job the store does not have.                                          *)

\* create_job() and attach_task(), with no await between them.
CreateJob(j) ==
    /\ jobs' = [jobs EXCEPT ![j] = [NoJob EXCEPT !.status = "running",
                                                 !.task = "pending"]]
    /\ UNCHANGED <<expired, queue, stream, received>>

\* Every subscriber of j gets the same events.
Broadcast(j, events) ==
    queue' = [s \in Streams |->
                 IF s \in jobs[j].subscribers THEN queue[s] \o events ELSE queue[s]]

\* update_persona(), and set_persona_status(), which goes through it.
UpdatePersona(j, p, s) ==
    /\ IF jobs[j].status = "absent"
       THEN UNCHANGED <<jobs, queue>>
       ELSE /\ jobs' = [jobs EXCEPT ![j].personas[p] = s]
            /\ Broadcast(j, <<PersonaEvent(p, s)>>)
    /\ UNCHANGED <<expired, stream, received>>

\* complete() and fail(): the status, the event, then the sentinel.
Conclude(j, status, event) ==
    /\ IF jobs[j].status = "absent"
       THEN UNCHANGED <<jobs, queue>>
       ELSE /\ jobs' = [jobs EXCEPT ![j].status = status]
            /\ Broadcast(j, <<event, Sentinel>>)
    /\ UNCHANGED <<expired, stream, received>>

Complete(j) == Conclude(j, "complete", CompleteEvent)
Fail(j)     == Conclude(j, "error", ErrorEvent)

-----------------------------------------------------------------------------
(* Streams.                                                                *)

\* The settled personas, in the order of the request.  (Alone, a mutant of
\* Replay: a late subscriber is not told that the job is over.)
ReplayPersonasOnly(j) ==
    LET shown[n \in 0..Len(Order)] ==
            IF n = 0 THEN <<>>
            ELSE IF jobs[j].personas[Order[n]] \in Settled
                 THEN Append(shown[n - 1], PersonaEvent(Order[n], jobs[j].personas[Order[n]]))
                 ELSE shown[n - 1]
    IN  shown[Len(Order)]

\* How the job ended.  (Alone, a mutant of Replay.)
ReplayOutcomeOnly(j) ==
    CASE jobs[j].status = "complete" -> <<CompleteEvent, Sentinel>>
      [] jobs[j].status = "error"    -> <<ErrorEvent, Sentinel>>
      [] OTHER                       -> <<>>

\* "So a subscriber that connects a beat late (or reconnects) still sees the
\* full picture".
Replay(j) == ReplayPersonasOnly(j) \o ReplayOutcomeOnly(j)

Subscribe(s) ==
    LET j == Watches[s]
    IN  /\ stream[s] = "new"
        /\ \A t \in Streams : t < s => stream[t] # "new"
        /\ IF jobs[j].status = "absent"
           THEN /\ stream' = [stream EXCEPT ![s] = "missing"]
                /\ UNCHANGED <<jobs, queue>>
           ELSE /\ stream' = [stream EXCEPT ![s] = "subscribed"]
                /\ jobs' = [jobs EXCEPT ![j].subscribers = @ \cup {s}]
                /\ queue' = [queue EXCEPT ![s] = Replay(j)]
        /\ UNCHANGED <<expired, received>>

\* The server starts to iterate the generator.
OpenStream(s) ==
    /\ stream[s] = "subscribed"
    /\ stream' = [stream EXCEPT ![s] = "open"]
    /\ UNCHANGED <<jobs, expired, queue, received>>

\* One turn of the generator: a keep-alive after 15 s without an item, and the
\* check for a client that left, change nothing.
SendEvent(s) ==
    /\ stream[s] = "open" /\ queue[s] # <<>> /\ Head(queue[s]) # Sentinel
    /\ queue' = [queue EXCEPT ![s] = Tail(@)]
    /\ received' = [received EXCEPT ![s] = Append(@, Head(queue[s]))]
    /\ UNCHANGED <<jobs, expired, stream>>

Unsubscribe(s) ==
    jobs' = [jobs EXCEPT ![Watches[s]].subscribers = @ \ {s}]

EndStream(s) ==
    /\ stream[s] = "open" /\ queue[s] # <<>> /\ Head(queue[s]) = Sentinel
    /\ stream' = [stream EXCEPT ![s] = "ended"]
    /\ queue' = [queue EXCEPT ![s] = Tail(@)]
    /\ Unsubscribe(s)
    /\ UNCHANGED <<expired, received>>

\* The client leaves.  The `finally` of a generator that never started does
\* not run: its queue stays subscribed for as long as the store has the job.
LeaveStream(s) ==
    /\ \/ /\ stream[s] = "open"
          /\ stream' = [stream EXCEPT ![s] = "gone"]
          /\ Unsubscribe(s)
          /\ queue' = [queue EXCEPT ![s] = <<>>]
       \/ /\ stream[s] = "subscribed"
          /\ stream' = [stream EXCEPT ![s] = "leaked"]
          /\ UNCHANGED <<jobs, queue>>
    /\ UNCHANGED <<expired, received>>

-----------------------------------------------------------------------------
(* evict_loop().                                                           *)

\* The TTL counts from the creation of the job, not from its end.
Expire(j) ==
    /\ jobs[j].status # "absent" /\ j \notin expired
    /\ expired' = expired \cup {j}
    /\ UNCHANGED <<jobs, queue, stream, received>>

\* Mutant: the pass does not look at the task.
EvictableByAge(j) == jobs[j].status # "absent" /\ j \in expired

\* Mutant: a job that still has subscribers is not evicted.
EvictableUnwatched(j) ==
    /\ jobs[j].status # "absent" /\ j \in expired /\ jobs[j].task # "pending"
    /\ jobs[j].subscribers = {}

Evictable(j) == jobs[j].status # "absent" /\ j \in expired /\ jobs[j].task # "pending"

Evict ==
    /\ \E j \in Jobs : Evictable(j)
    /\ jobs' = [j \in Jobs |-> IF Evictable(j) THEN NoJob ELSE jobs[j]]
    /\ UNCHANGED <<expired, queue, stream, received>>
=============================================================================
