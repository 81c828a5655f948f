-------------------------- MODULE GenerationRoutes --------------------------
(***************************************************************************)
(* The generation routes on one access code: app/routes/detect.py,         *)
(* categories.py, personas.py and prompts.py with the services they call.  *)
(* A request charges the code, and only then generates; what it answers    *)
(* comes back in the client's next request.  A request for prompts splits  *)
(* the prompts of a persona over its categories, with a charge and a       *)
(* generation for each category that has a share; every other request is   *)
(* one charge and one generation.                                          *)
(*                                                                         *)
(* The charge is the code store's register_prompt_call(), one step here;   *)
(* module CodeStore has its statements.  A prompt, and the topic or the    *)
(* seed it is built from, is what the code looks at: whether it names the  *)
(* brand or a competitor, and whether it is too long for PROMPT_MAX.       *)
(***************************************************************************)
EXTENDS Fitting

CONSTANTS
    Requests,           \* requests in flight at once
    Personas,           \* of every request
    Totals,             \* prompts_per_persona a request may ask for
    CategoryCounts,     \* numbers of categories a request may have, 0 for none
    MaxCalls,           \* max_prompt_calls_per_code
    MaxPrompts,         \* MAX_PROMPTS_PER_PERSONA
    MaxUses,            \* uses_total of the code
    MaxRefunds          \* bound: refunds of jobs redeemed on the code

ASSUME GenerationAssumption ==
    /\ MaxPrompts \in Nat \ {0}
    /\ Totals \subseteq 1..MaxPrompts
    /\ CategoryCounts \subseteq Nat
    /\ {MaxCalls, MaxUses, MaxRefunds} \subseteq Nat

VARIABLES
    calls,              \* prompt_calls of the code
    uses,               \* uses_remaining of the code
    revoked,            \* revoked of the code
    open,               \* redemptions of the code without an outcome
    refunded,           \* redemptions of the code refunded
    request,            \* request[r]: a request and how far it is
    charged,            \* charges the code store accepted
    billed              \* generations started

store == <<uses, revoked, open, refunded>>
vars == <<calls, store, request, charged, billed>>

Prompt == [naming : BOOLEAN, long : BOOLEAN]
NoRequest == [phase |-> "none"]

\* divmod() of the total: the first categories get one prompt more.
Split(total, n) ==
    [i \in 1..n |-> (total \div n) + (IF i <= total % n THEN 1 ELSE 0)]

\* The shares of the active categories; without categories, one generation of
\* the whole.
Shares(total, n) ==
    IF n = 0 THEN <<total>>
    ELSE Sift(Split(total, n), Nat \ {0})

TypeOK ==
    /\ calls \in 0..MaxCalls
    /\ uses \in 0..MaxUses
    /\ revoked \in BOOLEAN
    /\ open \in 0..(MaxUses - uses)
    /\ refunded \in 0..MaxRefunds
    /\ charged \in Nat
    /\ billed \in Nat
    /\ \A r \in Requests :
          \/ request[r] = NoRequest
          \/ /\ request[r].kind \in {"detect", "categories", "personas", "prompts", "seed"}
             /\ request[r].phase \in {"charging", "generating", "answered", "refused", "failed"}
             /\ request[r].topic \in Prompt
             /\ request[r].shares \in Seq(Nat \ {0})
             /\ request[r].due \in 0..Len(request[r].shares)
             /\ request[r].prompts \in [Personas -> Seq(Prompt)]
             /\ request[r].verdict \in {"none", "accepted", "refused", "incomplete"}

Init ==
    /\ calls = 0
    /\ uses = MaxUses
    /\ revoked = FALSE
    /\ open = 0
    /\ refunded = 0
    /\ request = [r \in Requests |-> NoRequest]
    /\ charged = 0
    /\ billed = 0

-----------------------------------------------------------------------------
\* Mutant: one charge for the request, whatever its categories, as it was once.
DueOnce(shares) == 1

\* The charges a request owes before it may generate.
Due(shares) == Len(shares)

Arrive(r, kind, total, shares, topic) ==
    /\ request[r] = NoRequest
    /\ request' = [request EXCEPT ![r] =
           [kind |-> kind, phase |-> "charging", total |-> total, topic |-> topic,
            shares |-> shares, due |-> Due(shares),
            prompts |-> [p \in Personas |-> <<>>], verdict |-> "none"]]
    /\ UNCHANGED <<calls, store, charged, billed>>

\* The topic is the client's: the industry, or the category with its industry,
\* and the market.  An industry of LINE_MAX characters leaves a prompt no room
\* for the words around it; the name of a category always does.
ArrivePrompts(r) ==
    \E total \in Totals, n \in CategoryCounts, topic \in Prompt :
        Arrive(r, "prompts", total, Shares(total, n), [topic EXCEPT !.long = @ /\ n = 0])

ArriveSeed(r) ==
    \E seed \in {prompt \in Prompt : ~prompt.long} : Arrive(r, "seed", 1, <<1>>, seed)

ArriveOther(r) ==
    \E kind \in {"detect", "categories", "personas"} :
        Arrive(r, kind, 1, <<1>>, [naming |-> FALSE, long |-> FALSE])

\* Mutant: the calls are counted and never capped.
ChargeableUncapped == ~revoked /\ uses > 0

Chargeable == ~revoked /\ uses > 0 /\ calls < MaxCalls

\* charge_generation_call(), for prompts one round of the loop over it ...
Charge(r) ==
    /\ request[r].phase = "charging"
    /\ request[r].due > 0
    /\ Chargeable
    /\ calls' = calls + 1
    /\ charged' = charged + 1
    /\ request' = [request EXCEPT ![r].due = @ - 1]
    /\ UNCHANGED <<store, billed>>

\* ... which may raise, on the code or on the failure limiter; the rounds
\* before stay charged.
Refuse(r) ==
    /\ request[r].phase = "charging"
    /\ request[r].due > 0
    /\ request' = [request EXCEPT ![r].phase = "refused"]
    /\ UNCHANGED <<calls, store, charged, billed>>

\* gather() starts one generation for each share.
Generate(r) ==
    /\ request[r].phase = "charging"
    /\ request[r].due = 0
    /\ request' = [request EXCEPT ![r].phase = "generating"]
    /\ billed' = billed + Len(request[r].shares)
    /\ UNCHANGED <<calls, store, charged>>

-----------------------------------------------------------------------------
\* What generate_prompts() makes of the model's prompts for one persona.

\* Mutant: prompts over the limit are left to the next request.
CleanedOfNone(raw) == raw

\* Prompts over the limit are dropped, not cut.
Cleaned(raw) == Sift(raw, {prompt \in Prompt : ~prompt.long})

\* Mutant: what the model returns beyond the share is kept.
CappedNot(raw, share) == raw

Capped(raw, share) == Upto(raw, share)

\* names_a_brand() drops a prompt.
Unnamed(raw) == Sift(raw, {prompt \in Prompt : ~prompt.naming})

\* _fallback_prompt() is written around the topic.
Usable(raw, share, topic) ==
    LET clean == Unnamed(Capped(Cleaned(raw), share))
    IN  IF clean # <<>> THEN clean ELSE <<topic>>

\* The prompts the model may return for a persona, blank ones left out: none when
\* it leaves the persona out or its entry is malformed (external).
Raw == ListsOf({prompt \in Prompt : ~(prompt.naming /\ prompt.long)})

\* Mutant: only a missing or over-long adaptation falls back to the seed.
AdaptedUnscreened(raw, seed) ==
    IF raw = <<>> \/ Head(raw).long THEN seed ELSE Head(raw)

\* adapt_seed_prompt() for one persona: the seed itself where the model wrote
\* nothing, wrote too much, or brought in a name the seed does not have.
Adapted(raw, seed) ==
    IF raw = <<>> \/ Head(raw).long \/ (Head(raw).naming /\ ~seed.naming)
    THEN seed
    ELSE Head(raw)

\* Whether the analysis request takes the prompts of every persona.
PromptsVerdict(prompts) ==
    Verdict(TRUE, \A p \in Personas :
                      /\ Len(prompts[p]) <= MaxPrompts
                      /\ \A prompt \in ToSet(prompts[p]) : ~prompt.long)

AnswerPrompts(r, prompts) ==
    request' = [request EXCEPT ![r].phase = "answered",
                               ![r].prompts = prompts,
                               ![r].verdict = PromptsVerdict(prompts)]

\* All generations return: merged in the order of the categories.
AnswerWithPrompts(r) ==
    /\ request[r].phase = "generating"
    /\ request[r].kind = "prompts"
    /\ \E raw \in [Personas -> [DOMAIN request[r].shares -> Raw]] :
          AnswerPrompts(r, [p \in Personas |->
              FlattenSeq([i \in DOMAIN request[r].shares |->
                  Usable(raw[p][i], request[r].shares[i], request[r].topic)])])
    /\ UNCHANGED <<calls, store, charged, billed>>

AnswerWithSeed(r) ==
    /\ request[r].phase = "generating"
    /\ request[r].kind = "seed"
    /\ \E raw \in [Personas -> Raw] :
          AnswerPrompts(r, [p \in Personas |-> <<Adapted(raw[p], request[r].topic)>>])
    /\ UNCHANGED <<calls, store, charged, billed>>

AnswerOther(r) ==
    /\ request[r].phase = "generating"
    /\ \E verdict \in CASE request[r].kind = "detect" -> DetectVerdicts
                        [] request[r].kind = "categories" -> CategoryVerdicts
                        [] request[r].kind = "personas" -> PersonaVerdicts
                        [] OTHER -> {} :
          request' = [request EXCEPT ![r].phase = "answered", ![r].verdict = verdict]
    /\ UNCHANGED <<calls, store, charged, billed>>

\* One of them raises, upstream or on what the model returned: 502 or 500, the
\* charges stay.
Fail(r) ==
    /\ request[r].phase = "generating"
    /\ request' = [request EXCEPT ![r].phase = "failed"]
    /\ UNCHANGED <<calls, store, charged, billed>>

Leave(r) ==
    /\ request[r].phase \in {"answered", "refused", "failed"}
    /\ request' = [request EXCEPT ![r] = NoRequest]
    /\ UNCHANGED <<calls, store, charged, billed>>

\* An analysis is started on the code: its calls start over ...
Redeem ==
    /\ ~revoked /\ uses > 0
    /\ uses' = uses - 1
    /\ open' = open + 1
    /\ calls' = 0
    /\ UNCHANGED <<revoked, refunded, request, charged, billed>>

\* ... and it delivers, ...
Finish ==
    /\ open > 0
    /\ open' = open - 1
    /\ UNCHANGED <<calls, uses, revoked, refunded, request, charged, billed>>

\* ... or it fails or is lost: refund() and refund_stale() give the use back and
\* leave the calls as redeem() reset them.
Refund ==
    /\ open > 0 /\ refunded < MaxRefunds
    /\ open' = open - 1
    /\ uses' = uses + 1
    /\ refunded' = refunded + 1
    /\ UNCHANGED <<calls, revoked, request, charged, billed>>

Revoke ==
    /\ ~revoked
    /\ revoked' = TRUE
    /\ UNCHANGED <<calls, uses, open, refunded, request, charged, billed>>

Next ==
    \/ \E r \in Requests :
          \/ ArrivePrompts(r) \/ ArriveSeed(r) \/ ArriveOther(r)
          \/ Charge(r) \/ Refuse(r) \/ Generate(r)
          \/ AnswerWithPrompts(r) \/ AnswerWithSeed(r) \/ AnswerOther(r)
          \/ Fail(r) \/ Leave(r)
    \/ Redeem \/ Finish \/ Refund
    \/ Revoke

Spec == Init /\ [][Next]_vars

-----------------------------------------------------------------------------
Redeemed == MaxUses - uses + refunded

(* No generation runs unpaid: however requests with several categories     *)
(* overlap, and whenever a redemption resets the counter, a refund gives   *)
(* the use back or a revocation stops the charges between two of them, the *)
(* generations started are covered by accepted charges, and these by the   *)
(* calls since the last redemption and an allowance for each redemption,   *)
(* those that were refunded among them (prompts.py:41-48,                  *)
(* code_store.py:183, 204-217, 235-256).  Hence not by the uses the code   *)
(* was minted with, as code_store.py:174 has it.                           *)
EveryGenerationIsPaid ==
    /\ billed <= charged
    /\ charged <= calls + MaxCalls * Redeemed

(* Selecting more categories never multiplies the prompts: a persona is    *)
(* left with at least one prompt and never more than the total it asked    *)
(* for, which the analysis request allows, whatever the model returns for  *)
(* whichever category (prompts.py:26-39, 69-73, prompt_gen.py:187-197).    *)
WithinTheTotal ==
    \A r \in Requests :
        request[r] # NoRequest /\ request[r].phase = "answered"
                /\ request[r].kind \in {"prompts", "seed"} =>
            \A p \in Personas : Len(request[r].prompts[p]) \in 1..request[r].total

(* An answer that was paid for can be used: sent back as it is, a detected *)
(* brand, a suggested category and every prompt pass the validation of the *)
(* next request, whatever the model wrote (detect.py:303-304, 188-191,     *)
(* category_gen.py:125-126, prompt_gen.py:140-141).  Personas are not      *)
(* fitted, and a prompt built around an industry that leaves it no room is *)
(* too long: both are left out.                                            *)
AnswersAreAccepted ==
    \A r \in Requests :
        request[r] # NoRequest /\ request[r].kind # "personas" /\ ~request[r].topic.long =>
            request[r].verdict # "refused"

(* A prompt names the brand or a competitor only if what the client wrote  *)
(* does, its topic or its seed: neither what the model brings in nor the   *)
(* fallback for what was dropped adds a name (prompt_gen.py:124-128, 194,  *)
(* 290-298).                                                               *)
PromptsNameNoBrand ==
    \A r \in Requests :
        request[r] # NoRequest /\ ~request[r].topic.naming =>
            \A p \in Personas : \A prompt \in ToSet(request[r].prompts[p]) : ~prompt.naming

=============================================================================
