# hearsay.ai backend: a TLA+ model

This directory models the service in `src/app`: a FastAPI process that sells analyses by
access code. A client buys a code with a number of uses, asks for personas and prompts
(throttled, no use spent), then starts an analysis (one use spent), follows it over
server-sent events, and gets a result or its use back.

Every definition is translated from the code, and `PROJECT.json` names the lines. The modules say
which step of theirs is which statement; this file says what the parts are, what the checks and proofs show,
within which bounds, and what is left.

## 1. The system

One process runs one event loop. Between two `await`s a coroutine runs alone; at each
`await` any other may run. `docker-entrypoint.sh` starts one worker, and during a rolling
deploy two processes share the database file.

| part | state | operations | hard because | correct when |
|---|---|---|---|---|
| `code_store.py` | SQLite tables `access_codes`, `code_redemptions`; one connection per process | mint, status, redeem, finish, refund, refund_stale, register_prompt_call, revoke | all coroutines share one connection and so one transaction; another process may hold the file; crashes between two statements | no use is spent or given back twice; an accepted job has its row; a settled outcome is final; a lost job is refunded |
| its start-up (`connect`) | `user_version`, the `outcome` column | the migration | first starts race, die half-way | no old row is refunded, no live row is filed as old |
| `job_store.py` | jobs, their personas, the queue of every subscriber | create, subscribe with replay, broadcast, complete, fail, evict | late and reconnecting subscribers, clients that leave, eviction by age | a stream that ends has the full picture once and one outcome |
| `runner.py` | one task per job, one per persona, one for grounding | run_job | partial failures, cancellation, failing settlement | one outcome is told, and the use is settled in agreement with it |
| `main.py` | the eviction and refund loops | lifespan | restarts | as above |
| `rate_limit.py`, `routes/_access.py`, `access.py`, `admin.py` | per scope: recent failures of all and of each client | check, record, evict | checked before an `await`, recorded after it; eviction at the bound | only who failed is refused; nobody gets far past the allowance |
| `services/anthropic_client.py` | semaphore, what is learned of models and countries | text, structured, search, fetch | retries with two counters, paused turns, slots and back-off | what one call may bill is bounded; nobody starves; a search is one whole turn |
| `routes/detect.py`, `categories.py`, `personas.py`, `prompts.py` and their services | - | charge, split, generate, fit, screen | several charges and generations per request; what a model wrote comes back in a bounded field | no unpaid generation; a paid answer can be sent back; no prompt names the brand |
| `services/pipeline.py` | - | the prompts of one persona | partial failure | one answered prompt is enough |
| `services/scoring.py`, `aggregation.py` | - | mentions, ranks, scores, shares | overlaps, ties, rounding, zero totals | numbers agree with each other |
| `services/grounding.py`, `source_quality.py` | - | search, screen, classify, fetch, measure | every stage may fail open | nothing unread is shown as measured |
| `services/inventory.py`, `scripts/` | `sg_inventory.json`, `sg_apps.json` | build from an export, tag with a model, look up | scripts that stop between two files; what is carried over from one run to the next | only real sites are buyable; figures are those of the last export and the present apps; paid labels stay |
| `services/insights_gen.py` | - | one model call | - | formatting and length limits |

Interactions: `POST /api/analysis` redeems, creates the job and its task; the task broadcasts to the queues,
then calls `complete()` and `finish()`, or `fail()` and `refund()`; the refund loop asks the job store for
the jobs that still run; all model calls pass the one semaphore of the client; every route
that presents a code passes the limiter first.

## 2. Modules

| module | models | kind |
|---|---|---|
| `SharedConnection` | the implicit transaction of a connection, SQLite's write lock and snapshots in WAL mode (external) | building block |
| `CodeStore` | `code_store.py` and the tasks that call it | component |
| `OutcomeMigration` | `connect()` / `_migrate_outcomes()` | component, over `SharedConnection` |
| `JobStore` | `job_store.py`, the SSE route | component |
| `RunJob` | `runner.py`, over `JobStore` | composition |
| `JobOutcome` | what a job promises its client and the store | abstract specification |
| `RateLimit` | the limiter and the access, admin and throttled routes | component |
| `RetryClient` | `anthropic_client.py` | component |
| `Lists` | comprehensions with a condition, sums, `sorted()`, keeping what is new | operators, no state |
| `Fitting` | `fit()` and the limits of `models.py`, the normalising of `detect.py`, `category_gen.py`, `persona_gen.py` | operators, no state |
| `GenerationRoutes` | the generation routes, `prompt_gen.py` | component, over `Fitting` |
| `Inventory` | `inventory.py`, `build_inventory.py`, `tag_inventory.py` | component |
| `Scoring` | `scoring.py` and `verified_alias()` | operators, no state |
| `Aggregation` | `_aggregate()` of `pipeline.py`, `aggregation.py` | operators, over `Scoring` |
| `Analysis` | what a job computes: `pipeline.py`, the end of `run_job()` | component, over `Aggregation` |
| `Grounding` | `grounding.py`, `source_quality.py` | component |
| `MC*` | the instances TLC checks | |
| `*_proof` | the theorems | |

### CodeStore and SharedConnection
`job[j]` is the place of the request and then of the task of job `j`; an action ends at each
`await` of a statement or a commit: `RedeemUpdate`, `RedeemInsert`, `RedeemCommit`;
`Deliver`, `FinishUpdate`, `FinishCommit`; `Fail`, `RefundMark`, `RefundGive`, `RefundCommit`;
the same for the sweep and for `register_prompt_call()`. `SharedConnection` keeps, per process, what
its next statement sees (`view`) and the state of the transaction (`conn`), so that a
sibling's commit persists half of another call, a crash discards what nobody committed, a statement
that meets a locked file leaves the transaction begun, and a pinned snapshot can become
stale.

### OutcomeMigration
One action per statement of the migration for each starting process, beside processes that serve. `MigrationFails`
is the `except`: rolled back, and the process ends with its start.

### JobStore and RunJob
No operation of the job store awaits, so each is one step. `RunJob` has the tasks: personas behind
`persona_concurrency`, the grounding beside them, cancellation when no persona has a result, aggregation and
insights, and the settlement, each of which may raise where the code lets it. Streams are
numbered in the order they arrive, which says nothing of how they interleave afterwards; they may subscribe, read and leave at any point, and a client may leave before its generator has started
(`leaked`). `KeepsContract` is the refinement of `JobOutcome`.

### RateLimit
A deque of times is the set of failures it stands for. `LookUp` is the check before the `await`, `Unknown` the
record after it, `Admit` and `WrongSecret` the admin route, which awaits nothing between.
`ClientKey` translates the reduction of an address: a mapped IPv4 address to the IPv4 one, an IPv6 address to its /64.

### RetryClient
A call waits for a slot, has a request in flight, sleeps, or has ended. `attempt` and `rateLimited` are the two
counters of `_with_retry()`; a search keeps the parts of its turn (`messages`, `blocks`) over resumes;
`noForced` and `noCountry` are what the process learned. Anthropic is external: any answer or failure
that the model and the country allow.

### GenerationRoutes and Fitting
A request is charged once, or for prompts once for each category with a share (`Charge`, `Refuse`), then generates. Between
any two charges the code may be redeemed, which resets its calls, a redemption may finish or be refunded, which gives the use
back and leaves the calls reset (`Redeem`, `Finish`, `Refund`), and the code may be revoked. `prompts_per_persona` is at most
`MAX_PROMPTS_PER_PERSONA`, as its field says. What
the model returns for a persona is any short sequence of prompts that are plain, name a brand or are too long; dropping,
cap, screening and fallback act on it in the order of `generate_prompts()`. For the other requests the module keeps of an
answer whether the next request takes it back (`verdict`). `Fitting` computes that over everything the model may write: a text is a
size, the punctuation in it and a word; `Fitted` is any cut that `fit()` may make.

### Inventory
A host is the sequence of its labels. Each script is two actions, one per file it writes (`BuildSites`, `BuildApps`;
`TagApps`, `TagSites`), and may stop between (`Dies`). The export, the labels, the websites the model names and the hosts
that answer are chosen freely; the lookup and the fields of the sitelist are operators over the files.

### Scoring, Aggregation and Analysis
A text is a sequence of tokens, a name a sequence of lower-case words; a regular expression of the code is what it
matches on whole words. The operators have the names and the order of passes of the functions:
`FindMentions` (candidates, stable order, overlaps), `BuildParts`, `ComputeRank`, `VerifiedAlias`, `PersonaResult`,
`ProductCounts`, `Composite`. Where floats compute an inexact quotient, a tie may round either way (`Nearest`).
`Analysis` is the machine around them: the two calls of each prompt (`Answer`, `Classify`), either of which may fail
(`PromptFails`), the persona that keeps what succeeded (`PersonaDone`, `PersonaFails`) and the page (`Complete`), which is
computed from the results by id: a persona has a place in the request and an id (`IdOf`), and where two share one the last
result under it is shown (`Done`, `Shown`). Models are
external: any answer of a list, any reply, right or wrong. `RunJob` has the same tasks with their
bookkeeping and without their data.

### Grounding
One action per stage of `run_grounding()`, with its own failure: search, filter (fails open), classification of origin (fails
closed), page check (fails closed), paid reader (leaves a page unread), measurement. Search results (`Responses`), what the models say of
any domain, asked about or not, and what becomes of each GET (`Fetches`) are chosen freely; a page's text is how often it names the brand and a rival.

## 3. What the runs check

Bounds are in the `.cfg` files. They are chosen so that each hazard has the actors it needs:
two processes for races on the file, two jobs on one connection for torn transactions, one crash, two streams
for a late subscriber beside a prompt one, one slot for a queue.

| run | instance | shows |
|---|---|---|
| `code_store_races` | 2 processes with a job each, one of which may outlive the cutoff, a generation call, 1 use, 1 crash | accepted jobs are recorded, nothing is spent or given back twice, outcomes are final, a revocation holds |
| `code_store_recovery` | 1 process, 2 jobs and 2 calls on its connection, 1 crash | no use is lost at rest and no delivered job refunded while nothing crashes; the allowance bounds the calls; a lost job is refunded in the end |
| `migration` | 2 processes, 2 deaths, every earlier state of the database | no old use goes back; the database is migrated in the end |
| `run_job` | 2 streams, 2 personas, 1 slot, any request, aggregation may raise | full picture, agreement with the ledger, refinement of `JobOutcome`, cancellation; one persona is enough, streams end, leaks are reclaimed |
| `rate_limit` | 2 requests at once, a /64 of two addresses and a mapped IPv4 address, room for one key | how far overlap passes the allowance; a full window tightens it; eviction refuses nobody |
| `retry_client` | a search and a structured call, 1 slot, the code's own retries and resumes, 2 rate limits | bill and turn, no starvation by back-off |
| `generation_routes` | 2 requests of any kind, up to 4 categories, 2 or 3 prompts, a code of 1 use with 2 calls, 1 refund; 7 texts around the limits of 3 and 4 characters, 2 aliases | every generation is paid; the prompts stay within the total; what is answered is taken back; no prompt names a brand the client did not |
| `analysis` | 2 personas, 3 prompts, 4 answers, 4 x 4 x 3 replies | the parts are the answer and the rank can be read off them; no mention without evidence; a persona's card and the page agree with the answers, and the shares are of one whole; the headline score is earned |
| `grounding` | 2 questions, 5 searches (verbatim, repeated, trimmed, astray, a brand lookup), 6 pages on 4 hosts, caps of 2, 2 and 1 | sources are vouched for, badges measured on the linked page, thin coverage said, the paid reader last |
| `inventory` | 2 exports with a site, a mangled name, a hosting platform and 2 apps, an invented website | only real sites are buyable; reach is counted once and is current; paid labels survive |

Counters that grow without bound in the code are capped in the guards by the constants whose
comment says `bound` (`MaxCrashes`, `MaxTime`, `MaxFailures`, `MaxUses`, `MaxRefunds`, `MaxList`, `MaxSources`): one more crash,
tick or use only repeats a case. Smaller counts stand for the configured ones (20 failures, the calls of a code, 5 rate limits): the
properties depend on a counter being at its limit, one below it or above. `CHECK_DEADLOCK FALSE` everywhere: each system stops when its requests are used up.

### Where the code and its documentation part
These runs state what a comment or document says, and TLC finds a behaviour of the code against it.

| run | what it shows |
|---|---|
| `code_store_torn_redeem` | a crash between the two statements of `redeem()`, the first persisted by a sibling's commit, loses a use |
| `inventory_rebuild` | a site that was found through an app and is then in an export loses the figures of the export when the list is tagged |

Other disagreements were met while reading. No run is about them, and where one concerns a property,
the property says what is left out:

- `code_store.py:198`, `:205`: a crash, or a failed `finish()`, between `job_store.complete()` and the commit of `finish()` leaves
  the row open, and the sweep refunds a delivered analysis (`DeliveredNotRefunded` is about a process that has not crashed).
- `code_store.py:9-10`: after "database is locked" the transaction stays begun; a read pins its snapshot, and after another
  process's commit every write of that connection fails until a restart.
- `code_store.py:259`: a revocation between the SELECT and the UPDATE of `register_prompt_call()` does not stop that call.
- `main.py:30`: the sweep spares the jobs that run in its own process. A job that another process still runs past
  `stale_job_seconds` is refunded, and its client gets the result all the same.
- `README.md:81-82`, `docker-entrypoint.sh`: the use of a job that died is given back by the first sweep after `stale_job_seconds`, not at start-up.
- `README.md:77-80`: past either limit lookups get 429; the code lowers the allowance of each client instead (`rate_limit.py:59`).
- `code_store.py:174`: "lifetime exposure still scales with uses_total"; a refund returns the use and not the reset
  (`code_store.py:183`, `:204-217`), so each failed job renews the allowance of calls: a code of one use pays for the allowance of two
  after one failed job (`CallsWithinAllowances` and `EveryGenerationIsPaid` bound the calls by the redemptions, refunded ones included).
- `README.md:127-129`: the overview's `visibilityScore` is the average of the personas' scores; the code weighs five sub-scores
  (`aggregation.py:221-241`), and a brand that no answer names, whose personas all score 0, gets up to 10 for its sources
  (`HeadlineIsEarned` is about the code's score).
- `models.py:347`: a persona's exchanges have "one entry per prompt asked"; a prompt whose calls failed has none (`pipeline.py:435`)
  and is counted in `failed_prompts` (`NumbersAgree` says that the two add up).
- `models.py:376`: `failed_count` is of the personas that errored out; results are collected by id (`runner.py:135`, `:158`), nothing
  keeps the ids of a request apart (`models.py:76`, `:287`), and with a repeated one a persona that is done counts as failed and its
  exchanges are lost (`NumbersAgree` is about ids that differ).
- `code_store.py:103-118`: a second process whose first start straddles the first one's migration files a live redemption as legacy,
  which no sweep refunds: the version is read outside the transaction.
- `anthropic_client.py:227-229`: a paused turn has two resumes; against a country the search refuses it has one, because the
  refusal spends a round (`:275`), and the second pause is returned as the whole.
- `aggregation.py:169-170`: "4 of 10" must not read as the whole run; the prompts of a persona that failed as a whole are in neither number.
- `scoring.py:205`: a rank is the place of the brand among the names mentioned. A competitor may be sent under the brand's own
  name (`models.py:87-97`, `:281`, and `detect.py:231-264` lets it pass): its mentions then rank the brand and give it a share of
  voice (`scoring.py:209-211`, `aggregation.py:38`, `:110-113`) in answers where the brand is not mentioned.
- `scoring.py:206-211` folds the case of names and `aggregation.py:33-38` does not: two names that differ in case are one in the
  rank and two in the products. The model has names in lower case, so that nothing here is about such a pair.
- `grounding.py:687-689`: a source left out as unreadable is one "neither our fetcher nor web_fetch could read"; a domain
  whose best page is unread is left out although another page of it was read, and then `web_fetch` was not asked (`:576`).
- `anthropic_client.py:285-287`: a search is retried once at most; rate limits have a counter of their own.
- `anthropic_client.py:159-162`: only the first call per model pays for a refused forced tool; every call in flight does.
- `prompt_gen.py:123-128`: no generated prompt names the brand; the fallback repeats the industry or category and is not screened
  (`PromptsNameNoBrand` is about topics that name none).
- `prompt_gen.py:140-141`: over-long prompts are dropped because "they'd fail the analysis request's limit"; the fallback around an
  industry of more than some 450 of the 500 characters it may have is over that limit (`AnswersAreAccepted` leaves it out).
- `models.py:56-59`: "Every model-produced field the frontend sends back goes through this where it is produced, or the next request
  422s"; the fields of generated personas (`persona_gen.py:134-144`, `:230-238`) do not.
- `pipeline.py:212-214`: a suggested name adds to an entity's names; for a rival sent without aliases an accepted one replaces the
  display name that its matches fall back on (`pipeline.py:246`, `scoring.py:145`).
- `tag_inventory.py:183-186`, `:230`: a batch that fails is printed and skipped, except when the websites of apps are labelled: there it ends
  the script, after `sg_apps.json` was written and with the labels of that run's sites lost.
- `models.py:234-236`: `prompts_per_persona` prompts per category; the categories share them (`routes/prompts.py:26-39`).
- `README.md:57`: N categories cost N calls; a category without a share costs none.

### Fairness
`CodeStore!FairSpec`: weak fairness of the tasks (the event loop runs every ready coroutine), of ageing and of
the sweep (`main.py:28-37` loops for ever); none of clients, administrators or crashes.
`OutcomeMigration!MigrationFairSpec`: a container that ended is started again, and the start proceeds.
`RunJob!FairSpec`: every ready task runs, every model call ends (the client gives each a timeout), the eviction loop
comes round; clients need not read or stay.
`RetryClient!ClientFairSpec`: a free slot wakes a waiter, and requests are answered or time out. It gives no
fairness to the sleepers, which is what `QueueMoves` is about.

## 4. What is proved

TLAPS checks these for every value of the constants under the named assumptions of the modules:

| assumption | says |
|---|---|
| `CodeStoreAssumption` | jobs and calls are finitely many; each has a process and a code |
| `MigrationAssumption` | the rows of the database before the start are not those redeemed after it |
| `JobStoreAssumption`, `RunJobAssumption` | personas come in an order, each once (so their ids differ); a stream watches one job; there is a slot |
| `RateLimitAssumption` | requests are finitely many; an allowance and the room for keys are at least 1 |
| `RetryAssumption` | only a search names a country; no model refuses a search that names none; at least one resume and one slot |
| `GenerationAssumption`, `FittingAssumption` | `prompts_per_persona` is in 1..`MaxPrompts` (`models.py`), limits are at least 1, a term the next request takes is no longer than a name |
| `GroundingAssumption` | some persona has a prompt (else `run_job()` stops before); a search has pages only if it did not fail; each search of an answer is one of its own (a repeated query is another search with the same words) |
| `InventoryAssumption` | an export has finitely many rows; a row is named; a site is guessed only for a name with a space in it |
| `ScoringAssumption` | lists are lists, a name has a word, a folded token is lower case, a mark that ends a sentence breaks it |
| `AnalysisAssumption` | lists are lists; no prompt of the model (a place in a list, not a text) is in two lists; at most 199 prompts, where `models.py` allows 10 personas of 10: below 200 no share that is not nothing rounds to 0%, and none that is not all to 100%, which `NumbersAgree` needs |

What the code does not enforce stands as a hypothesis in the theorem that needs it, by name:

| hypothesis | theorems | says | code |
|---|---|---|---|
| `OneProcess` | `OneProcessLosesNoUse`, `OneProcessKeepsDelivered` | one process | as `docker-entrypoint.sh` starts it |
| `RivalsApart` | `AnswersAreShownWhole`, `HeadlinesAreEarned`, `AllNumbersAgree` | no competitor is sent under the brand's name | `models.py:281` allows it |
| `IdsApart` | `AllNumbersAgree` | no two personas share an id | `models.py:287` allows it |
| `DistinctiveNames` | `MentionsAreEvidenced` | every name in the request has a head word, which is no corporate suffix | not so of "The Group", which is looked for as "the" while a suggestion for it is checked against "group" |

TLC evaluates all of `Analysis`'s for the instance (`MCNamesAreApart`).

| module | theorems (the property each states) |
|---|---|
| `CodeStore_proof` | `TypeCorrect` (`TypeOK`), `Inductive` (`IInv`), `NoOverspend` (`NeverOverspent`), `OutcomesAreFinal` (`OutcomeIsFinal`), `RevocationsHold` (`RevocationHolds`), `AcceptedStaysRecorded` (`AcceptedIsRecorded`), `CallsStayWithinAllowances` (`CallsWithinAllowances`), and for one process `OneProcessLosesNoUse` (`NoUseLost`), `OneProcessKeepsDelivered` (`DeliveredNotRefunded`); of `OutcomeMigration`, which it extends, `MigrationTypeCorrect` (`MigrationTypeOK`), `OldUsesAreKept` (`OldUsesStayUsed`) |
| `Limits_proof` | of `RateLimit`, `LimiterTypeCorrect` (`LimiterTypeOK`), `NobodyElseIsRefused` (`OnlyGuessersAreRefused`), `EvictionIsSafe` (`GlobalCountsAll`), `OverlapIsBounded` (`AllowanceHolds`), `FloodHoldsBack` (`FloodTightens`); of `RetryClient`, `ClientTypeCorrect` (`ClientTypeOK`), `BillIsBounded` (`RequestsAreBounded`), `TurnsAreWhole` (`TurnIsWhole`) |
| `RunJob_proof` | `JobsAndTasksTogether` (`JobAndTasksLiveTogether`), `ContractKept` (`KeepsContract`: the runner implements `JobOutcome`), `LateSubscribersSeeAll` (`FullPicture`), `OneOutcomePerJob` (`ClientsAgreeWithLedger`) |
| `GenerationRoutes_proof` | `TypeCorrect` (`TypeOK`), `GenerationsArePaid` (`EveryGenerationIsPaid`), `PromptsWithinTheTotal` (`WithinTheTotal`), `WhatIsPaidForIsUsable` (`AnswersAreAccepted`), `NoNameIsBroughtIn` (`PromptsNameNoBrand`) |
| `Analysis_proof` | `AnalysisInvHolds` (`AnalysisInv`), `AnalysisTypeCorrect` (`TypeOK`), `AnswersAreShownWhole` (`AnswerIsShownWhole`), `MentionsAreEvidenced` (`EveryMentionIsEvidenced`), `HeadlinesAreEarned` (`HeadlineIsEarned`), `AllNumbersAgree` (`NumbersAgree`) |
| `Grounding_proof` | `TypeCorrect` (`TypeOK`), `EverySourceIsVouchedFor` (`SourcesAreVouchedFor`), `EveryBadgeIsMeasured` (`BadgeIsMeasured`), `ThinCoverageIsNeverSilent` (`ThinCoverageIsSaid`), `PaidReaderIsLastResort` (`FallbackIsLastResort`) |
| `Inventory_proof` | `BuyableSitesExist` (`OnlyRealSitesAreBuyable`), `LabelsSurvive` (`PaidTagsSurvive`), `ReachStaysCurrent` (`ReachIsCurrent`) |
| `Lists_proof` | the lemmas on lists and recursion the other proofs rest on |

*No use is spent twice.* `NeverOverspent` is about the file, and is not inductive: what is on disk depends on the
halves that open transactions will add. `IInv` counts, for the file and for each open transaction, the uses of a code that are left, those held by
redemptions, and those that a task has taken or marked and has yet to write (`Held`). The
file must be sound without the tasks of the writing process, which a crash would end, and that process's view with
them. `ConnInv` gives one writer at a time, `OneGiver` one task per marked row. Each statement has a lemma
(`SoundSpend`, `SoundInsert`, `SoundMark`, `SoundGive`, ...) about a database alone.

*What is final.* `ViewsLawful` relates every open view to the file: outcomes settled and revocations on disk are so in the
view. Statements keep it (`StatementsKeep`), so no commit takes one back.

*What was accepted.* `AcceptedIsRecorded` is about the file, and a job moves on before its own commit persists anything a sibling has
not. `AcceptedInv` follows the row: from `RedeemInsert` on it is in the view of the job's process or on disk (`Written`), and `RedeemCommit`
finds it in one of them. `ViewsLawful` keeps it there: no commit takes a row away.

*Generation calls.* As for the uses, the calls counted (`Counted`) are bounded by the column `prompt_calls` plus one allowance per use spent
(`Allowed`), for the writer's view with its tasks and for the file without them (`CountsInFlight`). `CountsFits` says that the column never passes the limit, in
the file or in any view; a pinned view may be older than the file, and never beside it (`PinnedBehind`); and a call is only counted against a row that is there (`CallsMinted`).

*One process.* With two processes `NoUseLost` and `DeliveredNotRefunded` do not hold: another can lock the file between the two statements of `redeem()`, and
its sweep refunds what runs here. The container starts one (`docker-entrypoint.sh:11`). Until it crashes no
statement of it fails (`Unlocked`), so no job dies with an open row; every row is what the step of its job says (`RowsFollowJobs`); hence a sweep finds
nothing (`NothingStale`), and the bound of `Sound` is an equation (`Balanced`), with one lemma per statement
(`BalanceSpend`, `BalanceInsert`, ...).

*Migration.* Once the version stands no old row is open; nobody serves before; whoever has written part of
the migration is alone, and what it sees is filed when it has marked.

*Jobs.* `StatusFits` ties the place of `run_job()` to the status the store shows and to the settlement; `TasksFit` says that a task
which has not ended is attached to its job, so eviction spares it, and that a grounding is held only where `run_job()` will await it.
For `KeepsContract` queues and streams drop out: what they do to a job leaves its status and task alone. A finished job may be
evicted, and what was told of it is then read from its settlement, so the mapping to `JobOutcome` stutters there.

*Streams.* What a stream was sent and what is still on its queue make one sequence (`Sent`). `FInv` says of it, for every subscriber and at
every moment: each persona that has ended is told of once, and no other (`Heard`); before the outcome there is nothing but personas, and once
it is told it comes last (`Closed`), the same for all. `subscribe()` builds that sequence for a late comer from what the store shows (`ShownFits`, by
recursion over the personas), and `_broadcast()` adds to all of them alike.

*Limiter.* Every deque holds recorded failures of its client and scope, and what `_all` lacks has left the window. For
`AllowanceHolds` the failures a key holds in the window are counted together with the lookups of its client that are under way (`Together`): a check passes
only below the allowance, and at most all the other requests are between check and record. For `FloodTightens`: what is left of `_all`
after pruning still has every failure of the window (`EvictionIsSafe`'s invariant), so a full window is seen as full.

*Bill and turn.* A call's requests are bounded by the attempts begun and the place in the attempt; a
forced tool is refused at most once per call because the lesson is never unlearned. The parts that a search keeps are those of its present attempt,
one per round and in order, the last from the round before (`InTurn`); a retry drops them, and a refused location, which takes a round without a part, comes before there are any.

*Generation routes.* `Known` says of a request what its kind and phase allow (`Sound`): shares that sum to at most its total, prompts within it, no name of a
brand the topic or the seed does not have, a verdict that is not "refused". Each stage of a generation has a lemma for whatever the model writes: the split
(`Within`), dropping and cap, screening and fallback, the merge of the parts. `EveryGenerationIsPaid` needs the charges that were accepted and whose generation has not begun (`Prepaid`): what was
billed and what is prepaid are together at most what was charged (`Balanced`), and what was charged plus the calls left of this use at most the allowances of all redemptions, refunded ones included (`Allowed`).

*Analysis.* `AnalysisInv` says of every prompt that is done that what it carries is the analysis of its own answer (`Analysed`), of every persona that is done that its summary is
`PersonaResult` of exactly its prompts that are done, and of a page, once there, that no persona runs and that it is computed from their results (`PageFrom`), which no step can change any more. The rest is about
operators, for any answer, names and reply. Mentions do not overlap and come in order (`MentionsAre`), so the parts put together are the answer and each mention is a part (`PartsShow`, `PlacedParts`). Whatever is
highlighted stands in a sentence with the head word of a name of the request (`MentionEvidenced`). A card's counts are numbers of kept items of one list (`CardIs`, `CardsAgree`), and those of the page go through the
lists that personas and prompts are joined into (`ExchangesCome`, `PageCounts`). Each share is a rounding of its part of one total, so what the sum misses of 1000 is at most half a unit for each product (`SlicesSum`). What rounding keeps (`NearestIs`) gives the bounds of the headline (`CompositeIs`), and leaving out the part of a search without sources never lowers it
(`LeavingOutHelps`).

*Grounding.* `GroundingInv` follows a page through the stages: a page under a domain is of that host and a clean search or a quote surfaced it
(`CleanPages`, `GroupsInv`); what was checked are just the best few pages of the domains kept, and a page that was read is alive (`ChecksInv`); nothing is shown before the
run returns (`ShownInv`). Ranking by evidence, then by quote, then by place is a strict order, so the numbers of pages ahead are all different; by counting, each number
below the length occurs (`RanksAreAll`), `Arranged` meets every page, and the head of the living has no less evidence than the others. The paid reader's targets are the head
of a list of one page per domain, and at most its cap.

*Inventory.* `InventoryInv` says that every site in the file exists (listed by an export, or it answered), that a verified app names such a site, and the same of what a
script is about to write to the second file; that write has every label of the file it replaces, so a stop between the two loses none (`Building`, `Tagging`).
`OnlyRealSitesAreBuyable` follows for any host looked up; its proof showed that the platform rule is about the host without "www.", as `lookup()` takes it.
`ReachIsCurrent` compares two sums over sets, of the sites and of the apps. `ReachInv` keeps the files finite and their figures numbers, and no script runs while they are current. A sum of sizes is the
size of a set of units (`SumIsCount`); the units of all sites are those of all verified apps (`UnitsOfSites`), each at the one site its app names, and hence the totals agree (`TotalsAgree`).

*Lists and recursion.* The library's induction theorems take an operator; `InductionOnNat` and `RecursionUpTo` of `Lists_proof` state induction and
recursion over sets and functions instead, which first-order provers can use. With them recursive functions (`Sift`, `Total`, `LeftToRight`, `ReplayPersonasOnly`, the sums of a split) and
`FlattenSeq` and `SumFunction` of the community modules are proved about for sequences and sets of any size; `Arranged` and `FirstSeen` need no recursion of their own. Operators that the model used only with a fixed predicate (`SelectSeq`) are
written with a set for it (`Sift`).

## 5. Only model-checked

Liveness (`LostJobIsRefunded`, `MigratesInTheEnd`, `OnePersonaIsEnough`, `EveryStreamEnds`, `LeakIsReclaimed`, `QueueMoves`):
fairness and ENABLED are beyond the prover. Every other property of a passing run has a theorem. The refutations of section 3 are TLC's.

## 6. Not modelled

The text of requests to models and the wording of their answers, `insights_gen.py` (one call whose answer is passed on), most
declarations (`models.py`, `config.py`, `errors.py`), `mint_codes.py` beyond `mint()`, bundled data, evaluations; of `source_quality.py`
the text of a snippet, the deep link and the reading of HTML. `PROJECT.json` lists every part with its reason.

## 7. State of the work

The plan is carried out: every component of section 2 is modelled and checked, each of its invariants and action properties and the
refinement of `JobOutcome` are proved, and section 5 names what stays with TLC. Section 6 is what a next step would model.
