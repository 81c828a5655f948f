------------------------------ MODULE RateLimit ------------------------------
(***************************************************************************)
(* app/rate_limit.py and the routes that call it: only failed lookups      *)
(* count, per client and over all clients, in a sliding window, one        *)
(* limiter per scope.  A route that looks up an access code checks before  *)
(* an await and records after it; the admin check has no await in it.      *)
(*                                                                         *)
(* A deque of times is the set of the failures it stands for: they are     *)
(* appended in the order of time.monotonic(), so dropping the old ones     *)
(* from the left leaves those of the window.  A key is in _by_key just     *)
(* when its deque is not empty.                                            *)
(***************************************************************************)
EXTENDS Integers, FiniteSets

CONSTANTS
    Hosts,              \* the addresses requests come from
    Requests,           \* requests handled at once
    PerKey,             \* code_failures_per_ip
    TightPerKey,        \* tight_per_key
    GlobalLimit,        \* code_failures_global
    Window,             \* code_failure_window_seconds
    MaxTrackedKeys,     \* _MAX_TRACKED_KEYS
    MaxTime,            \* bound: the clock stops here
    MaxFailures         \* bound: failures recorded in all

AddressKinds == {"v4", "mapped", "v6", "name"}

ASSUME RateLimitAssumption ==
    /\ IsFiniteSet(Requests)
    /\ Hosts \subseteq [kind : AddressKinds, net : Nat, host : Nat]
    /\ PerKey \in Nat \ {0}
    /\ TightPerKey \in Nat \ {0}
    /\ GlobalLimit \in Nat
    /\ Window \in Nat
    /\ MaxTrackedKeys \in Nat \ {0}
    /\ MaxTime \in Nat
    /\ MaxFailures \in Nat

Scopes == {"code", "admin"}

\* A mutant: each address its own client.
ClientKeyByAddress(h) == IF h.kind = "mapped" THEN [h EXCEPT !.kind = "v4"] ELSE h

\* An address: an IPv4 one is its net and host, an IPv4-mapped IPv6 one names
\* the same; the net of any other IPv6 address is its /64.
ClientKey(h) ==
    CASE h.kind = "mapped" -> [h EXCEPT !.kind = "v4"]
      [] h.kind = "v6"     -> [h EXCEPT !.host = 0]
      [] OTHER             -> h

Keys == {ClientKey(h) : h \in Hosts}

VARIABLES
    now,                \* time.monotonic()
    limiter,            \* limiter[sc]: the FailureLimiter of a scope
    request,            \* request[r]: a request in flight or answered
    failures            \* every failure recorded, by whom and when

limiterVars == <<now, limiter, request, failures>>

Failure == [n : Nat, scope : Scopes, host : Hosts, at : Nat]

\* A FailureLimiter: _all, the deques of _by_key, and for the order of its
\* keys the failure with which each came in.
Limiter(fs) == [all   : SUBSET fs,
                hits  : [Keys -> SUBSET fs],
                since : [Keys -> Nat]]

Idle == [phase |-> "idle"]
Phases ==
    { "looking",        \* a code lookup awaits the code store
      "refused",        \* 429, without a lookup
      "failed",         \* 404 or 401, recorded
      "served" }        \* the code or the secret exists

LimiterTypeOK ==
    /\ now \in 0..MaxTime
    /\ failures \in SUBSET Failure
    /\ limiter \in [Scopes -> Limiter(failures)]
    /\ request \in [Requests -> {Idle} \cup
                        [phase : Phases, scope : Scopes, host : Hosts]]

LimiterInit ==
    /\ now = 0
    /\ limiter = [sc \in Scopes |-> [all   |-> {},
                                     hits  |-> [k \in Keys |-> {}],
                                     since |-> [k \in Keys |-> 0]]]
    /\ request = [r \in Requests |-> Idle]
    /\ failures = {}

-----------------------------------------------------------------------------
\* _prune()
Prune(fs) == {f \in fs : now - f.at <= Window}

\* What blocked() leaves of a limiter ...
Pruned(l, k) == [l EXCEPT !.all = Prune(@), !.hits[k] = Prune(@)]

\* A mutant: tight one failure late.
LimitOffByOne(l) == IF Cardinality(l.all) > GlobalLimit THEN TightPerKey ELSE PerKey

Limit(l) == IF Cardinality(l.all) >= GlobalLimit THEN TightPerKey ELSE PerKey

\* A mutant: a full global window refuses everyone, as an earlier version did.
BlockedGlobally(l, k) ==
    \/ Cardinality(Pruned(l, k).hits[k]) >= PerKey
    \/ Cardinality(Prune(l.all)) >= GlobalLimit

\* ... and what it answers from that.
Blocked(l, k) == Cardinality(Pruned(l, k).hits[k]) >= Limit(Pruned(l, k))

Tracked(l) == {k \in Keys : l.hits[k] # {}}

\* next(iter(self._by_key))
Oldest(l) == CHOOSE o \in Tracked(l) :
                 \A p \in Tracked(l) : l.since[o] <= l.since[p]

Full(l, k) == k \notin Tracked(l) /\ Cardinality(Tracked(l)) >= MaxTrackedKeys

\* The first key of _by_key makes room for a new one.
MakeRoom(l, k) ==
    IF Full(l, k) THEN [l EXCEPT !.hits[Oldest(l)] = {}] ELSE l

\* record_failure(): what it leaves of a limiter.
Recorded(l, k, f) ==
    LET room == MakeRoom(l, k)
    IN  [room EXCEPT !.all = @ \cup {f},
                     !.hits[k] = @ \cup {f},
                     !.since[k] = IF k \in Tracked(l) THEN @ ELSE f.n]

NewFailure(sc, h) ==
    [n |-> Cardinality(failures), scope |-> sc, host |-> h, at |-> now]

Become(r, phase, sc, h) ==
    request' = [request EXCEPT ![r] = [phase |-> phase, scope |-> sc, host |-> h]]

-----------------------------------------------------------------------------
\* ensure_not_throttled() answers 429 ...
Refuse(r, sc, h) ==
    LET k == ClientKey(h)
    IN  /\ request[r] = Idle
        /\ Blocked(limiter[sc], k)
        /\ limiter' = [limiter EXCEPT ![sc] = Pruned(@, k)]
        /\ Become(r, "refused", sc, h)
        /\ UNCHANGED <<now, failures>>

\* ... or lets a request with this secret, or this code, go on.
Pass(r, sc, h, phase) ==
    LET k == ClientKey(h)
    IN  /\ request[r] = Idle
        /\ ~Blocked(limiter[sc], k)
        /\ limiter' = [limiter EXCEPT ![sc] = Pruned(@, k)]
        /\ Become(r, phase, sc, h)
        /\ UNCHANGED <<now, failures>>

LookUp(r, h) == Pass(r, "code", h, "looking")

\* The code store answers "unknown" ...
Unknown(r) ==
    LET h == request[r].host
        f == NewFailure("code", h)
    IN  /\ request[r].phase = "looking"
        /\ Cardinality(failures) < MaxFailures
        /\ failures' = failures \cup {f}
        /\ limiter' = [limiter EXCEPT !["code"] = Recorded(@, ClientKey(h), f)]
        /\ Become(r, "failed", "code", h)
        /\ UNCHANGED now

\* ... or anything else.
Known(r) ==
    /\ request[r].phase = "looking"
    /\ Become(r, "served", "code", request[r].host)
    /\ UNCHANGED <<now, limiter, failures>>

\* _require_admin() with the right secret ...
Admit(r, h) == Pass(r, "admin", h, "served")

\* ... and with a wrong one: it checks and records in one step.
WrongSecret(r, h) ==
    LET k == ClientKey(h)
        f == NewFailure("admin", h)
    IN  /\ request[r] = Idle
        /\ ~Blocked(limiter["admin"], k)
        /\ Cardinality(failures) < MaxFailures
        /\ failures' = failures \cup {f}
        /\ limiter' = [limiter EXCEPT !["admin"] = Recorded(Pruned(@, k), k, f)]
        /\ Become(r, "failed", "admin", h)
        /\ UNCHANGED now

\* The response is on its way; the request's place is free.
Leave(r) ==
    /\ request[r].phase \in {"refused", "failed", "served"}
    /\ request' = [request EXCEPT ![r] = Idle]
    /\ UNCHANGED <<now, limiter, failures>>

Tick ==
    /\ now < MaxTime
    /\ now' = now + 1
    /\ UNCHANGED <<limiter, request, failures>>

LimiterNext ==
    \/ \E r \in Requests, h \in Hosts :
          \/ \E sc \in Scopes : Refuse(r, sc, h)
          \/ LookUp(r, h)
          \/ Admit(r, h)
          \/ WrongSecret(r, h)
    \/ \E r \in Requests : Unknown(r) \/ Known(r) \/ Leave(r)
    \/ Tick

LimiterSpec == LimiterInit /\ [][LimiterNext]_limiterVars

-----------------------------------------------------------------------------
\* The failures of the window, of a scope and of a client.  Two addresses are
\* one client when they are one IPv4 address or lie in one /64.
SameClient(g, h) ==
    \/ g = h
    \/ /\ g.kind = "v6" /\ h.kind = "v6"
       /\ g.net = h.net
    \/ /\ {g.kind, h.kind} = {"v4", "mapped"}
       /\ g.net = h.net /\ g.host = h.host

Recent(sc) == {f \in failures : f.scope = sc /\ now - f.at <= Window}
RecentOf(sc, h) == {f \in Recent(sc) : SameClient(f.host, h)}

LookingFor(h) ==
    {r \in Requests : request[r].phase = "looking" /\ SameClient(request[r].host, h)}

Allowance  == IF PerKey >= TightPerKey THEN PerKey ELSE TightPerKey
Forbearance == IF PerKey >= TightPerKey THEN TightPerKey ELSE PerKey

(* Nobody is refused for what others did: whoever gets a 429 has failed    *)
(* the smaller allowance or more by itself in the window, in that scope,   *)
(* however full the global window and however many keys were evicted       *)
(* (the promise of the module's docstring, rate_limit.py:10-14).           *)
OnlyGuessersAreRefused ==
    [][\A r \in Requests :
          request[r] = Idle /\ request'[r] # Idle /\ request'[r].phase = "refused"
          => LET q == request'[r]
             IN  Cardinality(RecentOf(q.scope, q.host)) >= Forbearance]_limiterVars

(* A client whose failures of the window are all there: its key has not    *)
(* been evicted since the first of them.                                   *)
Remembered(sc, h) == RecentOf(sc, h) \subseteq limiter[sc].hits[ClientKey(h)]

(* Lookups that overlap between check and record (_access.py:40-43,        *)
(* access.py:17-20) let a client past its allowance by at most the         *)
(* requests handled at once, less one; the admin check, which awaits       *)
(* nothing, by none.  Only the eviction of its key forgives a client.      *)
AllowanceHolds ==
    \A h \in Hosts :
        /\ Remembered("code", h) =>
              Cardinality(RecentOf("code", h)) + Cardinality(LookingFor(h))
                  <= Allowance + Cardinality(Requests) - 1
        /\ Remembered("admin", h) => Cardinality(RecentOf("admin", h)) <= Allowance

(* Once everyone's failures fill the global window, a client that failed   *)
(* the tight allowance gets no further lookup and no further guess at the  *)
(* secret (rate_limit.py:59), but for one whose key was evicted.           *)
FloodTightens ==
    [][\A r \in Requests :
          request[r] = Idle /\ request'[r] # Idle /\ request'[r].phase # "refused"
          => LET q == request'[r]
             IN  \/ Cardinality(Recent(q.scope)) < GlobalLimit
                 \/ Cardinality(RecentOf(q.scope, q.host)) < TightPerKey
                 \/ ~Remembered(q.scope, q.host)]_limiterVars

(* Eviction bounds the keys a flood of addresses leaves behind, and the    *)
(* global window still counts every failure (rate_limit.py:66-67): a       *)
(* failure of the window is never missing from _all, whoever was evicted.  *)
GlobalCountsAll ==
    \A sc \in Scopes :
        /\ Recent(sc) \subseteq limiter[sc].all
        /\ Cardinality(Tracked(limiter[sc])) <= MaxTrackedKeys
=============================================================================
