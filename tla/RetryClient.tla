---------------------------- MODULE RetryClient ----------------------------
(***************************************************************************)
(* app/services/anthropic_client.py: the calls of one event loop to        *)
(* Anthropic.  Each takes one of a fixed number of slots, sends the        *)
(* requests of an attempt (a search sends one for each part of its turn),  *)
(* leaves the slot and, after some failures, sleeps and tries again.       *)
(* Anthropic itself is external: a request in flight may meet with any     *)
(* answer or failure its model and search location allow.                  *)
(***************************************************************************)
EXTENDS Integers, Sequences, FiniteSets

CONSTANTS
    Calls,              \* the calls made
    Kind,               \* Kind[c]: which function was called
    Model,              \* Model[c]: its model
    Location,           \* Location[c]: the country of its user_location
    Nowhere,            \* ... no user_location, or
    Unnamed,            \* ... one without a country
    RejectsForced,      \* models that refuse a forced tool_choice (external)
    Unsupported,        \* locations the search refuses (external)
    Slots,              \* anthropic_max_concurrency
    MaxRetries,         \* anthropic_max_retries
    RateLimitMaxRetries,\* _RATE_LIMIT_MAX_RETRIES
    MaxPauseResumes     \* _MAX_PAUSE_RESUMES

CallKinds == {"text", "structured", "search", "fetch"}

ASSUME RetryAssumption ==
    /\ Kind \in [Calls -> CallKinds]
    /\ \A c \in Calls : Kind[c] # "search" => Location[c] = Nowhere
    /\ Nowhere \notin Unsupported
    /\ Slots \in Nat \ {0}
    /\ MaxRetries \in Nat
    /\ RateLimitMaxRetries \in Nat
    /\ MaxPauseResumes \in Nat \ {0}

Models    == {Model[c] : c \in Calls}
Locations == {Location[c] : c \in Calls}

VARIABLES
    pc,                 \* pc[c]: where the call is
    attempt,            \* attempt[c], rateLimited[c]: the two counters of
    rateLimited,        \*   _with_retry()
    forced,             \* forced[c]: the request in flight forces its tool
    located,            \* located[c]: its search tool has a user_location
    turn,               \* turn[c]: requests this attempt has sent
    messages,           \* messages[c]: the parts sent back to resume
    blocks,             \* blocks[c]: the parts to return
    noForced,           \* _NO_FORCED_TOOL_CHOICE
    noCountry,          \* _UNSUPPORTED_COUNTRIES
    sent                \* sent[c]: requests sent in all

counters == <<attempt, rateLimited>>
learned  == <<noForced, noCountry>>
inFlight == <<forced, located, turn, messages, blocks>>
clientVars == <<pc, counters, inFlight, learned, sent>>

Ended == {"returned", "raised", "cancelled"}
Pc    == Ended \cup {"idle", "waiting", "requesting", "sleeping"}

\* A part of a search turn: the attempt it belongs to and its place in it.
Part == Nat \X Nat

ClientTypeOK ==
    /\ pc \in [Calls -> Pc]
    /\ attempt \in [Calls -> Nat]
    /\ rateLimited \in [Calls -> Nat]
    /\ forced \in [Calls -> BOOLEAN]
    /\ located \in [Calls -> BOOLEAN]
    /\ turn \in [Calls -> 0..(MaxPauseResumes + 1)]
    /\ messages \in [Calls -> Seq(Part)]
    /\ blocks \in [Calls -> Seq(Part)]
    /\ noForced \subseteq Models
    /\ noCountry \subseteq Locations \ {Nowhere, Unnamed}
    /\ sent \in [Calls -> Nat]

ClientInit ==
    /\ pc = [c \in Calls |-> "idle"]
    /\ attempt = [c \in Calls |-> 0]
    /\ rateLimited = [c \in Calls |-> 0]
    /\ forced = [c \in Calls |-> FALSE]
    /\ located = [c \in Calls |-> FALSE]
    /\ turn = [c \in Calls |-> 0]
    /\ messages = [c \in Calls |-> <<>>]
    /\ blocks = [c \in Calls |-> <<>>]
    /\ noForced = {}
    /\ noCountry = {}
    /\ sent = [c \in Calls |-> 0]

-----------------------------------------------------------------------------
Goto(c, to) == pc' = [pc EXCEPT ![c] = to]

\* The retries= of call_text() (line 156), call_structured() (219),
\* call_web_search() (289) and call_web_fetch() (357); the same calls say which
\* retry a timeout.
Retries(c) ==
    CASE Kind[c] \in {"text", "structured"} -> MaxRetries
      [] Kind[c] = "search" -> IF MaxRetries <= 1 THEN MaxRetries ELSE 1
      [] Kind[c] = "fetch" -> 1

RetryTimeouts(c) == Kind[c] \in {"text", "structured"}

Call(c) ==
    /\ pc[c] = "idle"
    /\ Goto(c, "waiting")
    /\ UNCHANGED <<counters, inFlight, learned, sent>>

\* Mutant: a call that sleeps keeps its slot.
HoldingInSleep == {c \in Calls : pc[c] \in {"requesting", "sleeping"}}

\* The slots taken: `async with _in_flight()` is left before any sleep.
Holding == {c \in Calls : pc[c] = "requesting"}

\* Mutant: the list of blocks outlives an attempt.
FreshBlocksOnce(c) == blocks' = blocks

FreshBlocks(c) == blocks' = [blocks EXCEPT ![c] = <<>>]

\* A slot is free: the attempt sends its first request.
TakeSlot(c) ==
    /\ pc[c] = "waiting"
    /\ Cardinality(Holding) < Slots
    /\ Goto(c, "requesting")
    /\ forced' = [forced EXCEPT ![c] = Kind[c] = "structured" /\ Model[c] \notin noForced]
    /\ located' = [located EXCEPT ![c] = Location[c] # Nowhere /\ Location[c] \notin noCountry]
    /\ turn' = [turn EXCEPT ![c] = 1]
    /\ messages' = [messages EXCEPT ![c] = <<>>]
    /\ FreshBlocks(c)
    /\ sent' = [sent EXCEPT ![c] = @ + 1]
    /\ UNCHANGED <<counters, learned>>

-----------------------------------------------------------------------------
\* What the request in flight meets with.

ToolRefused(c)     == forced[c] /\ Model[c] \in RejectsForced
LocationRefused(c) == located[c] /\ Location[c] \in Unsupported
Accepted(c)        == ~ToolRefused(c) /\ ~LocationRefused(c)

ThisPart(c) == <<attempt[c] + rateLimited[c], turn[c]>>

\* The final answer, with the tool called if there is one.
Answer(c) ==
    /\ pc[c] = "requesting"
    /\ Accepted(c)
    /\ Goto(c, "returned")
    /\ blocks' = [blocks EXCEPT ![c] = Append(@, ThisPart(c))]
    /\ UNCHANGED <<counters, forced, located, turn, messages, learned, sent>>

\* stop_reason "pause_turn": the part is kept, and a message with it.
Paused(c) ==
    /\ pc[c] = "requesting"
    /\ Kind[c] = "search"
    /\ Accepted(c)
    /\ blocks' = [blocks EXCEPT ![c] = Append(@, ThisPart(c))]
    /\ messages' = [messages EXCEPT ![c] = Append(@, ThisPart(c))]
    /\ UNCHANGED <<counters, forced, located, learned>>

\* While the loop lasts the parts are sent back ...
Resume(c) ==
    /\ Paused(c)
    /\ turn[c] <= MaxPauseResumes
    /\ turn' = [turn EXCEPT ![c] = @ + 1]
    /\ sent' = [sent EXCEPT ![c] = @ + 1]
    /\ UNCHANGED pc

\* ... and after its last round they are returned as they are.
ReturnPaused(c) ==
    /\ Paused(c)
    /\ turn[c] > MaxPauseResumes
    /\ Goto(c, "returned")
    /\ UNCHANGED <<turn, sent>>

LearnLocation(c) == noCountry' = noCountry \cup ({Location[c]} \ {Unnamed})

\* "Country code ... is not supported": learned, and the loop goes on without
\* the location; the rejection took one of its rounds.
RefuseLocation(c) ==
    /\ pc[c] = "requesting"
    /\ LocationRefused(c)
    /\ LearnLocation(c)
    /\ located' = [located EXCEPT ![c] = FALSE]
    /\ turn' = [turn EXCEPT ![c] = @ + 1]
    /\ sent' = [sent EXCEPT ![c] = @ + 1]
    /\ UNCHANGED <<pc, counters, forced, messages, blocks, noForced>>

\* Mutant: the model is not remembered.
LearnNothing(c) == UNCHANGED noForced

LearnModel(c) == noForced' = noForced \cup {Model[c]}

\* "tool_choice ... not supported for this model": learned, and asked again
\* with tool_choice auto in the same slot.
RefuseForced(c) ==
    /\ pc[c] = "requesting"
    /\ ToolRefused(c)
    /\ LearnModel(c)
    /\ forced' = [forced EXCEPT ![c] = FALSE]
    /\ sent' = [sent EXCEPT ![c] = @ + 1]
    /\ UNCHANGED <<pc, counters, located, turn, messages, blocks, noCountry>>

\* The except clauses of _with_retry().  Any other 400, and 401, 403, 404 and
\* 422 are raised at once, and in some functions a timeout is ...
Raise(c, error) ==
    /\ pc[c] = "requesting"
    /\ error = "not_retryable" \/ (error = "timeout" /\ ~RetryTimeouts(c))
    /\ Goto(c, "raised")
    /\ UNCHANGED <<counters, inFlight, learned, sent>>

\* ... a rate limit has a counter of its own ...
RateLimit(c, error) ==
    /\ pc[c] = "requesting"
    /\ error = "rate_limit"
    /\ rateLimited' = [rateLimited EXCEPT ![c] = @ + 1]
    /\ Goto(c, IF rateLimited[c] < RateLimitMaxRetries THEN "sleeping" ELSE "raised")
    /\ UNCHANGED <<attempt, inFlight, learned, sent>>

\* ... and the rest, a missing tool call among them, count as retries.
Retry(c, error) ==
    /\ pc[c] = "requesting"
    /\ error = "other" \/ (error = "timeout" /\ RetryTimeouts(c))
    /\ attempt' = [attempt EXCEPT ![c] = @ + 1]
    /\ Goto(c, IF attempt[c] < Retries(c) THEN "sleeping" ELSE "raised")
    /\ UNCHANGED <<rateLimited, inFlight, learned, sent>>

Errors == {"not_retryable", "timeout", "rate_limit", "other"}

\* asyncio.sleep() is over.
Wake(c) ==
    /\ pc[c] = "sleeping"
    /\ Goto(c, "waiting")
    /\ UNCHANGED <<counters, inFlight, learned, sent>>

\* The caller's task is cancelled: CancelledError is not an Exception.
Cancel(c) ==
    /\ pc[c] \in {"waiting", "requesting", "sleeping"}
    /\ Goto(c, "cancelled")
    /\ UNCHANGED <<counters, inFlight, learned, sent>>

Response(c) ==
    \/ Answer(c)
    \/ Resume(c) \/ ReturnPaused(c)
    \/ RefuseLocation(c)
    \/ RefuseForced(c)
    \/ \E error \in Errors : Raise(c, error) \/ RateLimit(c, error) \/ Retry(c, error)

ClientNext ==
    \E c \in Calls : Call(c) \/ TakeSlot(c) \/ Response(c) \/ Wake(c) \/ Cancel(c)

ClientSpec == ClientInit /\ [][ClientNext]_clientVars

\* A waiter of the semaphore is woken when a slot is free, and a request ends:
\* every client is made with a timeout.
ClientFairSpec == ClientSpec /\ \A c \in Calls : WF_clientVars(TakeSlot(c)) /\ WF_clientVars(Response(c))

-----------------------------------------------------------------------------
Attempts(c) == 1 + Retries(c) + RateLimitMaxRetries

(* The two counters of _with_retry() and what is learned on the way bound  *)
(* the requests one call bills, whatever mixture of failures it meets and  *)
(* whatever the other calls learn meanwhile: one for each attempt, one     *)
(* more for the first refusal of a forced tool, and for a search no more   *)
(* than the rounds of its loop in each attempt                             *)
(* (anthropic_client.py:101-140, 204-217, 259-279).                        *)
RequestsAreBounded ==
    \A c \in Calls :
        sent[c] <= CASE Kind[c] \in {"text", "fetch"} -> Attempts(c)
                     [] Kind[c] = "structured" -> Attempts(c) + 1
                     [] Kind[c] = "search" -> Attempts(c) * (1 + MaxPauseResumes)

(* A search resumes with exactly the parts it has received and returns     *)
(* the parts of a single attempt, once each and in order: a retry starts   *)
(* its turn anew (anthropic_client.py:242-244, 257-283).                   *)
TurnIsWhole ==
    \A c \in Calls :
        /\ pc[c] = "requesting" => messages[c] = blocks[c]
        /\ pc[c] = "returned" =>
              \A i \in 1..Len(blocks[c]) :
                  /\ blocks[c][i][1] = attempt[c] + rateLimited[c]
                  /\ i > 1 => blocks[c][i][2] = blocks[c][i - 1][2] + 1

(* A call waiting for a slot gets one even if the calls that back off      *)
(* never come back: up to a minute of backing off from a rate limit must   *)
(* not hold the slots of every job (anthropic_client.py:105-107, 133).     *)
QueueMoves == \A c \in Calls : pc[c] = "waiting" ~> pc[c] # "waiting"

=============================================================================
