----------------------------- MODULE CodeStore -----------------------------
(***************************************************************************)
(* app/code_store.py with the tasks that call it: access codes bought in a *)
(* number of uses, a use spent by redeem() when a job starts, and given    *)
(* back by refund() when the job delivers nothing.                         *)
(*                                                                         *)
(* Every `await` of a statement or of commit() is a point where another    *)
(* coroutine of the process, or another process on the file, may run: it   *)
(* ends an action here.                                                    *)
(***************************************************************************)
EXTENDS SharedConnection, Naturals, FiniteSets

CONSTANTS
    Codes,              \* access codes that may be minted
    Jobs,               \* job ids, one per POST /api/analysis
    Calls,              \* throttled generation calls (/api/detect, ...)
    Home,               \* Home[t]: the process that serves job or call t
    CodeOf,             \* CodeOf[t]: the access code that t presents
    MaxUses,            \* bound: a code is minted with 1..MaxUses uses
    MaxPromptCalls,     \* settings.max_prompt_calls_per_code
    SlowJobs,           \* jobs that may still run when older than the cutoff
    MaxCrashes          \* bound on process crashes and restarts

ASSUME CodeStoreAssumption ==
    /\ IsFiniteSet(Jobs) /\ IsFiniteSet(Calls)
    /\ Home \in [Jobs \cup Calls -> Procs]
    /\ CodeOf \in [Jobs \cup Calls -> Codes]
    /\ MaxUses \in Nat
    /\ MaxPromptCalls \in Nat
    /\ MaxCrashes \in Nat

VARIABLES
    job,                \* job[j]: where the request and then the task of j is
    call,               \* call[k]: where the throttled request k is
    old,                \* jobs redeemed longer ago than stale_job_seconds
    sweep,              \* sweep[p]: where the refund sweep of p is
    todo,               \* todo[p]: stale jobs the sweep has yet to refund
    current,            \* current[p]: the job the sweep is refunding
    admin,              \* admin[p]: whether mint() or revoke() awaits commit
    crashes

tasks == <<job, call, old, sweep, todo, current, admin, crashes>>
vars  == <<storage, tasks>>

-----------------------------------------------------------------------------
(* The two tables.                                                         *)

Outcome == {"absent", "open", "complete", "refunded"}

\* total[c] = 0 stands for a code without a row; outcome[j] is "absent" for a
\* job without a redemption row and "open" for one whose outcome is NULL.
Database ==
    [ total     : [Codes -> Nat],
      remaining : [Codes -> Nat],
      calls     : [Codes -> Nat],
      revoked   : [Codes -> BOOLEAN],
      outcome   : [Jobs -> Outcome] ]

EmptyDatabase ==
    [ total     |-> [c \in Codes |-> 0],
      remaining |-> [c \in Codes |-> 0],
      calls     |-> [c \in Codes |-> 0],
      revoked   |-> [c \in Codes |-> FALSE],
      outcome   |-> [j \in Jobs |-> "absent"] ]

\* Mutant: the UPDATE of redeem() without "AND revoked = 0".
RedeemableRevoked(db, c) == db.remaining[c] > 0

\* WHERE code = ? AND uses_remaining > 0 AND revoked = 0
Redeemable(db, c) == db.remaining[c] > 0 /\ ~db.revoked[c]

SpendUse(db, c) ==
    [db EXCEPT !.remaining[c] = @ - 1, !.calls[c] = 0]

\* Mutant: the UPDATE of finish() and refund() without "AND outcome IS NULL".
SetOutcomeAlways(db, j, o) == [db EXCEPT !.outcome[j] = o]

\* ... WHERE job_id = ? AND outcome IS NULL
SetOutcome(db, j, o) ==
    [db EXCEPT !.outcome[j] = IF @ = "open" THEN o ELSE @]

InsertRedemption(db, j) == [db EXCEPT !.outcome[j] = "open"]

GiveUseBack(db, j) == [db EXCEPT !.remaining[CodeOf[j]] = @ + 1]

CountCall(db, c) ==
    [db EXCEPT !.calls[c] = IF @ < MaxPromptCalls THEN @ + 1 ELSE @]

MintCode(db, c, uses) ==
    [db EXCEPT !.total[c] = uses, !.remaining[c] = uses,
               !.calls[c] = 0, !.revoked[c] = FALSE]

RevokeCode(db, c) == [db EXCEPT !.revoked[c] = TRUE]

-----------------------------------------------------------------------------
(* The steps a request, a job's task and a sweep go through.               *)

JobStep ==
    { "new",            \* the client has not posted, or redeem() not begun
      "refusing",       \* redeem() matched no row and commits
      "refused",        \* redeem() returned False or raised: no job
      "inserting",      \* the use is spent, the redemption row is not there
      "committing",     \* the row is inserted, redeem() commits
      "running",        \* redeem() returned True: run_job is a live task
      "delivered",      \* job_store.complete() ran, finish() has not begun
      "finishing",      \* finish() updated the row and commits
      "finished",       \* finish() returned
      "unfinished",     \* delivered, but finish() raised or the process died
      "failed",         \* job_store.fail() ran, refund() has not begun
      "giving",         \* refund() marked the row, the use is not back yet
      "closing",        \* refund() commits
      "closed",         \* refund() returned
      "lost" }          \* the task, or the request, died on the way

InRedeem  == {"inserting", "committing"}
Accepted  == {"running", "delivered", "finishing", "finished", "unfinished",
              "failed", "giving", "closing", "closed"}
Delivered == {"delivered", "finishing", "finished", "unfinished"}
\* job_store.running_job_ids(): the task is attached and not done
Live      == {"running", "delivered", "finishing", "failed", "giving", "closing"}

CallStep  == {"new", "counting", "counted", "limiting",
              "ok", "limited", "denied", "lost"}

TypeOK ==
    /\ ConnTypeOK(Database)
    /\ job \in [Jobs -> JobStep]
    /\ call \in [Calls -> CallStep]
    /\ old \in SUBSET Jobs
    /\ sweep \in [Procs -> {"idle", "giving", "closing"}]
    /\ todo \in [Procs -> SUBSET Jobs]
    /\ current \in [Procs -> SUBSET Jobs]
    /\ admin \in [Procs -> {"idle", "committing"}]
    /\ crashes \in 0..MaxCrashes

Init ==
    /\ ConnInit(EmptyDatabase)
    /\ job = [j \in Jobs |-> "new"]
    /\ call = [k \in Calls |-> "new"]
    /\ old = {}
    /\ sweep = [p \in Procs |-> "idle"]
    /\ todo = [p \in Procs |-> {}]
    /\ current = [p \in Procs |-> {}]
    /\ admin = [p \in Procs |-> "idle"]
    /\ crashes = 0

\* j's request or task moves on; nothing else outside the database changes.
MoveJob(j, from, to) ==
    /\ job[j] = from
    /\ job' = [job EXCEPT ![j] = to]
    /\ UNCHANGED <<call, old, sweep, todo, current, admin, crashes>>

-----------------------------------------------------------------------------
(* redeem(), called by POST /api/analysis.                                 *)

\* UPDATE access_codes SET uses_remaining = uses_remaining - 1, ...
RedeemUpdate(j) ==
    LET p == Home[j]  c == CodeOf[j]
    IN  IF Redeemable(view[p], c)
        THEN /\ MoveJob(j, "new", "inserting")
             /\ Write(p, SpendUse(view[p], c))
        ELSE /\ MoveJob(j, "new", "refusing")
             /\ Write(p, view[p])

\* Mutant: rollback() in place of commit() when no row matched.
RedeemRefuseRollingBack(j) ==
    /\ MoveJob(j, "refusing", "refused")
    /\ Disconnect(Home[j])

\* rowcount 0: commit() "only ever persists"
RedeemRefuse(j) ==
    /\ MoveJob(j, "refusing", "refused")
    /\ Commit(Home[j])

RedeemInsert(j) ==
    /\ MoveJob(j, "inserting", "committing")
    /\ Write(Home[j], InsertRedemption(view[Home[j]], j))

\* After this commit the route creates the job and its task with no await.
RedeemCommit(j) ==
    /\ MoveJob(j, "committing", "running")
    /\ Commit(Home[j])

-----------------------------------------------------------------------------
(* The job's task: run_job() delivers a result or reports a failure.       *)

Deliver(j) ==
    /\ MoveJob(j, "running", "delivered")
    /\ UNCHANGED storage

Fail(j) ==
    /\ MoveJob(j, "running", "failed")
    /\ UNCHANGED storage

FinishUpdate(j) ==
    /\ MoveJob(j, "delivered", "finishing")
    /\ Write(Home[j], SetOutcome(view[Home[j]], j, "complete"))

FinishCommit(j) ==
    /\ MoveJob(j, "finishing", "finished")
    /\ Commit(Home[j])

\* Mutant: refund() marks the row and never gives the use back.
RefundMarkOnly(j) ==
    /\ MoveJob(j, "failed", "closing")
    /\ Write(Home[j], SetOutcome(view[Home[j]], j, "refunded"))

\* refund() as _fail() calls it: mark the row if it is still open ...
RefundMark(j) ==
    LET p == Home[j]
    IN  /\ MoveJob(j, "failed",
                   IF view[p].outcome[j] = "open" THEN "giving" ELSE "closing")
        /\ Write(p, SetOutcome(view[p], j, "refunded"))

\* ... and only then give the use back.
RefundGive(j) ==
    /\ MoveJob(j, "giving", "closing")
    /\ Write(Home[j], GiveUseBack(view[Home[j]], j))

RefundCommit(j) ==
    /\ MoveJob(j, "closing", "closed")
    /\ Commit(Home[j])

\* Mutant: redeem() logs an error of its INSERT and returns True all the same.
InsertErrorIgnored(j) ==
    /\ MoveJob(j, "inserting", "running")
    /\ WriteFails(Home[j])

\* A statement of the request or of the task raises "database is locked".
\* start_analysis() answers 500; run_job() logs the error and its task ends.
JobStatementFails(j) ==
    /\ \/ MoveJob(j, "new", "refused")
       \/ MoveJob(j, "inserting", "lost")
       \/ MoveJob(j, "delivered", "unfinished")
       \/ MoveJob(j, "failed", "lost")
       \/ MoveJob(j, "giving", "lost")
    /\ WriteFails(Home[j])

-----------------------------------------------------------------------------
(* _refund_lost_jobs_loop() of main.py and refund_stale().                 *)

\* The redemption of j grows older than the cutoff.  A job that is not over
\* by then is one of SlowJobs.
Age(j) ==
    /\ j \notin old
    /\ disk.outcome[j] = "open"
    /\ job[j] \in {"unfinished", "lost"} \/ (job[j] \in Live /\ j \in SlowJobs)
    /\ old' = old \cup {j}
    /\ UNCHANGED <<job, call, sweep, todo, current, admin, crashes, storage>>

\* Mutant: refund_stale() ignores `running`.
StaleRowsWithRunning(p) == {j \in old : view[p].outcome[j] = "open"}

\* Mutant: refund_stale() leaves out every job of its own process.
StaleRowsOfOthers(p) == {j \in old : view[p].outcome[j] = "open" /\ Home[j] # p}

\* The rows without outcome that are old and not this process's live jobs.
StaleRows(p) ==
    {j \in old : /\ view[p].outcome[j] = "open"
                 /\ ~(Home[j] = p /\ job[j] \in Live)}

SweepSelect(p) ==
    /\ sweep[p] = "idle" /\ todo[p] = {}
    /\ todo' = [todo EXCEPT ![p] = StaleRows(p)]
    /\ Read(p)
    /\ UNCHANGED <<job, call, old, sweep, current, admin, crashes>>

\* Mutant: the sweep's refund() gives the use back whatever the outcome was.
SweepMarkUnchecked(p, j) ==
    /\ sweep[p] = "idle" /\ j \in todo[p]
    /\ sweep' = [sweep EXCEPT ![p] = "giving"]
    /\ current' = [current EXCEPT ![p] = {j}]
    /\ todo' = [todo EXCEPT ![p] = @ \ {j}]
    /\ Write(p, SetOutcome(view[p], j, "refunded"))
    /\ UNCHANGED <<job, call, old, admin, crashes>>

\* refund(j) of the sweep, one stale row after the other in any order.
SweepMark(p, j) ==
    /\ sweep[p] = "idle" /\ j \in todo[p]
    /\ sweep' = [sweep EXCEPT ![p] =
            IF view[p].outcome[j] = "open" THEN "giving" ELSE "closing"]
    /\ current' = [current EXCEPT ![p] = {j}]
    /\ todo' = [todo EXCEPT ![p] = @ \ {j}]
    /\ Write(p, SetOutcome(view[p], j, "refunded"))
    /\ UNCHANGED <<job, call, old, admin, crashes>>

SweepGive(p, j) ==
    /\ sweep[p] = "giving" /\ j \in current[p]
    /\ sweep' = [sweep EXCEPT ![p] = "closing"]
    /\ Write(p, GiveUseBack(view[p], j))
    /\ UNCHANGED <<job, call, old, todo, current, admin, crashes>>

SweepCommit(p) ==
    /\ sweep[p] = "closing"
    /\ sweep' = [sweep EXCEPT ![p] = "idle"]
    /\ current' = [current EXCEPT ![p] = {}]
    /\ Commit(p)
    /\ UNCHANGED <<job, call, old, todo, admin, crashes>>

\* The exception leaves refund_stale(): the rest of this sweep is dropped.
SweepStatementFails(p) ==
    /\ sweep[p] = "giving" \/ (sweep[p] = "idle" /\ todo[p] # {})
    /\ sweep' = [sweep EXCEPT ![p] = "idle"]
    /\ current' = [current EXCEPT ![p] = {}]
    /\ todo' = [todo EXCEPT ![p] = {}]
    /\ WriteFails(p)
    /\ UNCHANGED <<job, call, old, admin, crashes>>

-----------------------------------------------------------------------------
(* register_prompt_call(), called before each throttled generation call.   *)

MoveCall(k, from, to) ==
    /\ call[k] = from
    /\ call' = [call EXCEPT ![k] = to]
    /\ UNCHANGED <<job, old, sweep, todo, current, admin, crashes>>

\* SELECT uses_remaining, prompt_calls, revoked, and the four early returns.
RegisterSelect(k) ==
    LET db == view[Home[k]]  c == CodeOf[k]
    IN  /\ MoveCall(k, "new",
                    IF ~Redeemable(db, c) THEN "denied"
                    ELSE IF db.calls[c] >= MaxPromptCalls THEN "limited"
                    ELSE "counting")
        /\ Read(Home[k])

\* Mutant: the UPDATE without "AND prompt_calls < ?", trusting the SELECT.
RegisterUpdateUnguarded(k) ==
    LET db == view[Home[k]]  c == CodeOf[k]
    IN  /\ MoveCall(k, "counting", "counted")
        /\ Write(Home[k], [db EXCEPT !.calls[c] = @ + 1])

RegisterUpdate(k) ==
    LET db == view[Home[k]]  c == CodeOf[k]
    IN  /\ MoveCall(k, "counting",
                    IF db.calls[c] < MaxPromptCalls THEN "counted" ELSE "limiting")
        /\ Write(Home[k], CountCall(db, c))

RegisterCommit(k) ==
    /\ \/ MoveCall(k, "counted", "ok")
       \/ MoveCall(k, "limiting", "limited")
    /\ Commit(Home[k])

CallStatementFails(k) ==
    /\ MoveCall(k, "counting", "lost")
    /\ WriteFails(Home[k])

-----------------------------------------------------------------------------
(* mint() and revoke(), called by the /admin routes and mint_codes.py.     *)

MoveAdmin(p, to) ==
    /\ admin' = [admin EXCEPT ![p] = to]
    /\ UNCHANGED <<job, call, old, sweep, todo, current, crashes>>

\* One INSERT of the batch; a code that exists is drawn again.
MintInsert(p, c, uses) ==
    /\ view[p].total[c] = 0
    /\ MoveAdmin(p, "committing")
    /\ Write(p, MintCode(view[p], c, uses))

RevokeUpdate(p, c) ==
    /\ admin[p] = "idle"
    /\ view[p].total[c] > 0 /\ ~view[p].revoked[c]
    /\ MoveAdmin(p, "committing")
    /\ Write(p, RevokeCode(view[p], c))

AdminCommit(p) ==
    /\ admin[p] = "committing"
    /\ MoveAdmin(p, "idle")
    /\ Commit(p)

AdminStatementFails(p) ==
    /\ MoveAdmin(p, "idle")
    /\ WriteFails(p)

\* status(), list_all(): a SELECT whose answer decides nothing in the store.
StatusSelect(p) ==
    /\ Read(p)
    /\ UNCHANGED tasks

-----------------------------------------------------------------------------
(* A crash, a kill, or a shutdown: nothing waits for the live tasks        *)
(* (main.py:47-51).  The process that starts again keeps the name p.       *)

AfterCrash(s) ==
    CASE s \in {"delivered", "finishing"} -> "unfinished"
      [] s \in InRedeem \cup {"refusing", "running", "failed", "giving", "closing"} -> "lost"
      [] OTHER -> s

Crash(p) ==
    /\ crashes < MaxCrashes
    /\ crashes' = crashes + 1
    /\ job' = [j \in Jobs |-> IF Home[j] = p THEN AfterCrash(job[j]) ELSE job[j]]
    /\ call' = [k \in Calls |->
            IF Home[k] = p /\ call[k] \in {"counting", "counted", "limiting"}
            THEN "lost" ELSE call[k]]
    /\ sweep' = [sweep EXCEPT ![p] = "idle"]
    /\ todo' = [todo EXCEPT ![p] = {}]
    /\ current' = [current EXCEPT ![p] = {}]
    /\ admin' = [admin EXCEPT ![p] = "idle"]
    /\ Disconnect(p)
    /\ UNCHANGED old

-----------------------------------------------------------------------------
JobNext(j) ==
    \/ RedeemUpdate(j) \/ RedeemRefuse(j) \/ RedeemInsert(j) \/ RedeemCommit(j)
    \/ Deliver(j) \/ Fail(j)
    \/ FinishUpdate(j) \/ FinishCommit(j)
    \/ RefundMark(j) \/ RefundGive(j) \/ RefundCommit(j)
    \/ JobStatementFails(j)

SweepNext(p) ==
    \/ SweepSelect(p)
    \/ \E j \in Jobs : SweepMark(p, j) \/ SweepGive(p, j)
    \/ SweepCommit(p)
    \/ SweepStatementFails(p)

CallNext(k) ==
    RegisterSelect(k) \/ RegisterUpdate(k) \/ RegisterCommit(k) \/ CallStatementFails(k)

AdminNext(p) ==
    \/ \E c \in Codes : (\E uses \in 1..MaxUses : MintInsert(p, c, uses)) \/ RevokeUpdate(p, c)
    \/ AdminCommit(p) \/ AdminStatementFails(p)
    \/ StatusSelect(p)

Next ==
    \/ \E j \in Jobs : JobNext(j) \/ Age(j)
    \/ \E k \in Calls : CallNext(k)
    \/ \E p \in Procs : SweepNext(p) \/ AdminNext(p) \/ Crash(p)

Spec == Init /\ [][Next]_vars

\* The event loop runs every ready coroutine, the clock advances, and the
\* sweep of main.py:28-37 comes round again.  Nothing makes a client post, an
\* administrator act or a process crash.
Fairness ==
    /\ \A j \in Jobs : WF_vars(JobNext(j) /\ job[j] # "new") /\ WF_vars(Age(j))
    /\ \A p \in Procs : WF_vars(SweepNext(p)) /\ WF_vars(AdminCommit(p))
    /\ \A k \in Calls : WF_vars(CallNext(k) /\ call[k] # "new")

FairSpec == Spec /\ Fairness

-----------------------------------------------------------------------------
(* What the store must guarantee.                                          *)

\* The redemptions of c whose use has not been given back.
Spent(db, c) ==
    {j \in Jobs : CodeOf[j] = c /\ db.outcome[j] \in {"open", "complete"}}

\* A code never pays for more analyses than it was minted with: on disk, what
\* remains and what unrefunded redemptions hold stay within uses_total,
\* whatever siblings, other processes and crashes do between two statements.
NeverOverspent ==
    \A c \in Codes :
        disk.remaining[c] + Cardinality(Spent(disk, c)) <= disk.total[c]

\* A job that redeem() accepted has its redemption row on disk, although a
\* sibling's commit, not its own, may have been the one to persist it.
AcceptedIsRecorded ==
    \A j \in Jobs : job[j] \in Accepted => disk.outcome[j] # "absent"

\* A delivered result is never refunded (main.py:25-26, code_store.py:205),
\* however slow its job, by the process that runs it and has not crashed.
DeliveredNotRefunded ==
    crashes = 0 => \A j \in Jobs : job[j] \in Delivered => disk.outcome[j] # "refunded"

\* A job's use that went back went back with the mark: a refund() that
\* returned left the row marked and, while nothing is in flight, every use is
\* either still there or held by a redemption.
Quiet ==
    /\ \A j \in Jobs : job[j] \notin InRedeem \cup {"refusing", "giving", "closing"}
    /\ \A p \in Procs : sweep[p] = "idle" /\ conn[p] # "writing"

UsesAddUp(c) ==
    disk.remaining[c] + Cardinality(Spent(disk, c)) = disk.total[c]

\* No use is lost while no process crashes.
NoUseLost == Quiet /\ crashes = 0 => \A c \in Codes : UsesAddUp(c)

\* Nor in a crash, after which the sweep gives back what a lost job has spent:
\* redeem() spends "atomically" (code_store.py:169) and a restart refunds
\* (README.md:81-82).  Not so: see the run that refutes it.
CrashLosesNoUse == Quiet => \A c \in Codes : UsesAddUp(c)

\* What a redemption ended as is final on disk: processes that race to finish
\* and to refund one job never overwrite each other.
OutcomeIsFinal ==
    [][\A j \in Jobs : disk.outcome[j] \in {"complete", "refunded"}
            => disk'.outcome[j] = disk.outcome[j]]_vars

\* Revocation holds: after revoke() has committed, the code is never valid
\* again and no redeem(), however far it had got, takes another use of it.
RevocationHolds ==
    [][\A c \in Codes : disk.revoked[c]
            => disk'.revoked[c] /\ disk'.remaining[c] >= disk.remaining[c]]_vars

Granted(c) == {k \in Calls : CodeOf[k] = c /\ call[k] = "ok"}

\* Jobs whose redeem() has spent a use of c, which reset its prompt_calls.
Resets(c) == {j \in Jobs : CodeOf[j] = c /\ job[j] \notin {"new", "refusing", "refused"}}

\* However calls, redemptions and crashes interleave, a code never admits more
\* generation calls than one allowance plus one for every redeem() begun.
CallsWithinAllowances ==
    \A c \in Codes :
        Cardinality(Granted(c)) <= MaxPromptCalls * (1 + Cardinality(Resets(c)))

\* A redemption whose job died is settled in the end: the sweep gives its use
\* back, whatever became of earlier sweeps.
LostJobIsRefunded ==
    \A j \in Jobs :
        job[j] = "lost" /\ disk.outcome[j] = "open" ~> disk.outcome[j] = "refunded"

-----------------------------------------------------------------------------
(* The inductive invariant behind NeverOverspent.                          *)

\* Jobs of the processes P that have spent a use and not inserted its row.
Inserting(P) == {j \in Jobs : Home[j] \in P /\ job[j] = "inserting"}

\* Jobs whose row a task of P has marked refunded, the use not yet given back.
Giving(P) ==
    {j \in Jobs : \/ Home[j] \in P /\ job[j] = "giving"
                  \/ \E p \in P : sweep[p] = "giving" /\ j \in current[p]}

Unposted == {j \in Jobs : job[j] = "new"}

\* The uses of c that are taken: by a redemption, or by a job of pending.
Held(pending, db, c) ==
    {j \in Jobs : /\ CodeOf[j] = c
                  /\ db.outcome[j] \in {"open", "complete"} \/ j \in pending}

\* db is a state the tasks may go on from, when new has not been posted, ins
\* is between the statements of redeem() and giv between those of refund().
Sound(new, ins, giv, db) ==
    /\ \A c \in Codes :
        db.remaining[c] + Cardinality(Held(ins \cup giv, db, c)) <= db.total[c]
    /\ \A j \in new \cup ins : db.outcome[j] = "absent"
    /\ \A j \in giv : db.outcome[j] = "refunded"

SoundFor(P, db) == Sound(Unposted, Inserting(P), Giving(P), db)

\* One writer at a time, and only a pinned or writing connection sees anything
\* else than the committed state.
ConnInv ==
    /\ \A p \in Procs : conn[p] \notin {"stale", "writing"} => view[p] = disk
    /\ \A p, q \in Procs : conn[p] = "writing" /\ conn[q] = "writing" => p = q

\* A marked row has one task that will give its use back.
OneGiver ==
    /\ \A p \in Procs : \A i, j \in current[p] : i = j
    /\ \A p \in Procs : \A j \in current[p] : sweep[p] = "giving" => job[j] # "giving"
    /\ \A p, q \in Procs : \A j \in current[p] \cap current[q] :
            sweep[p] = "giving" /\ sweep[q] = "giving" => p = q

\* What p has written is sound with every task in flight; what is on disk is
\* sound without the tasks of p, which a crash of p would end.
StorageSound ==
    /\ (\A p \in Procs : conn[p] # "writing") => SoundFor(Procs, disk)
    /\ \A p \in Procs : conn[p] = "writing" =>
            SoundFor(Procs, view[p]) /\ SoundFor(Procs \ {p}, disk)

\* The committed uses are bounded although statements of many coroutines, and
\* halves of redeem() and refund(), are persisted by whoever commits first.
IInv == TypeOK /\ ConnInv /\ OneGiver /\ StorageSound
=============================================================================
