---------------------------- MODULE Limits_proof ----------------------------
(***************************************************************************)
(* Proofs about what limits the traffic of the service, RateLimit for what *)
(* comes in and RetryClient for what goes out.                             *)
(*                                                                         *)
(* RateLimit, for any hosts, allowances, windows and number of requests at *)
(* once: nobody is refused for what others did, eviction bounds the keys   *)
(* without losing a failure of the global window, lookups that overlap     *)
(* pass a client's allowance by a bounded number, and a full window holds  *)
(* those back that failed.                                                 *)
(*                                                                         *)
(* RetryClient, for any number of calls, slots, retries and resumes: what  *)
(* is learned and what is counted bounds the requests that one call bills, *)
(* and a search returns one whole turn.                                    *)
(***************************************************************************)
EXTENDS RateLimit, RetryClient, FiniteSetTheorems, WellFoundedInduction, TLAPS

-----------------------------------------------------------------------------
(* client_key() gives two addresses one key just when they are one client. *)

LEMMA OneKeyPerClient ==
    ASSUME NEW g \in Hosts, NEW h \in Hosts
    PROVE  ClientKey(g) = ClientKey(h) <=> SameClient(g, h)
  <1>1. /\ g \in [kind : AddressKinds, net : Nat, host : Nat]
        /\ h \in [kind : AddressKinds, net : Nat, host : Nat]
    BY RateLimitAssumption
  <1>2. /\ ClientKey(g) \in [kind : AddressKinds, net : Nat, host : Nat]
        /\ ClientKey(h) \in [kind : AddressKinds, net : Nat, host : Nat]
    BY <1>1 DEF ClientKey, AddressKinds
  <1>3. ASSUME NEW x \in [kind : AddressKinds, net : Nat, host : Nat],
               NEW y \in [kind : AddressKinds, net : Nat, host : Nat]
        PROVE  x = y <=> x.kind = y.kind /\ x.net = y.net /\ x.host = y.host
    OBVIOUS
  <1>4. ASSUME NEW x \in [kind : AddressKinds, net : Nat, host : Nat]
        PROVE  /\ ClientKey(x).kind = IF x.kind = "mapped" THEN "v4" ELSE x.kind
               /\ ClientKey(x).net = x.net
               /\ ClientKey(x).host = IF x.kind = "v6" THEN 0 ELSE x.host
    BY DEF ClientKey, AddressKinds
  <1>5. ClientKey(g) = ClientKey(h)
        <=> /\ ClientKey(g).kind = ClientKey(h).kind
            /\ ClientKey(g).net = ClientKey(h).net
            /\ ClientKey(g).host = ClientKey(h).host
    BY <1>2, <1>3
  <1>6. g = h <=> g.kind = h.kind /\ g.net = h.net /\ g.host = h.host
    BY <1>1, <1>3
  <1>7. g.kind \in {"v4", "mapped", "v6", "name"} /\ h.kind \in {"v4", "mapped", "v6", "name"}
    BY <1>1 DEF AddressKinds
  <1>8. QED
    BY <1>1, <1>4, <1>5, <1>6, <1>7 DEF SameClient

-----------------------------------------------------------------------------
(* What the two operations leave of a limiter.                             *)

\* A limiter over the failures of a scope, each in the deque of its key.
Filed(l, sc, fs) ==
    /\ l \in Limiter(fs)
    /\ \A f \in l.all : f.scope = sc
    /\ \A k \in Keys : \A f \in l.hits[k] :
          f.scope = sc /\ ClientKey(f.host) = k

\* What record_failure() does to _all.
Counts(new, l, f) == new.all = l.all \cup {f}

LEMMA KeyOfHost ==
    ASSUME NEW h \in Hosts
    PROVE  ClientKey(h) \in Keys
  BY DEF Keys

LEMMA PrunedIsFiled ==
    ASSUME NEW sc \in Scopes, NEW fs, NEW l, NEW k \in Keys, Filed(l, sc, fs)
    PROVE  Filed(Pruned(l, k), sc, fs)
  BY DEF Filed, Pruned, Prune, Limiter

LEMMA RoomIsFiled ==
    ASSUME NEW sc \in Scopes, NEW fs, NEW l, NEW k \in Keys, Filed(l, sc, fs)
    PROVE  Filed(MakeRoom(l, k), sc, fs)
  BY DEF Filed, MakeRoom, Limiter

LEMMA RecordedIsFiled ==
    ASSUME NEW sc \in Scopes, NEW fs \in SUBSET Failure, NEW l \in Limiter(fs),
           NEW f \in Failure, NEW k \in Keys, Filed(l, sc, fs),
           f.scope = sc, ClientKey(f.host) = k
    PROVE  /\ Filed(Recorded(l, k, f), sc, fs \cup {f})
           /\ Counts(Recorded(l, k, f), l, f)
  <1> DEFINE room == MakeRoom(l, k)
             new  == Recorded(l, k, f)
             age  == IF k \in Tracked(l) THEN room.since[k] ELSE f.n
  <1>1. room \in Limiter(fs) /\ room.all = l.all /\ Filed(room, sc, fs)
    BY RoomIsFiled DEF MakeRoom, Limiter
  <1> HIDE DEF room
  <1>2. new = [room EXCEPT !.all = room.all \cup {f},
                           !.hits = [room.hits EXCEPT ![k] = room.hits[k] \cup {f}],
                           !.since = [room.since EXCEPT ![k] = age]]
    BY <1>1 DEF Recorded, room, Limiter
  <1>3. age \in Nat
    BY <1>1 DEF Limiter, Failure
  <1> HIDE DEF age, new
  <1>4. /\ new.all = room.all \cup {f}
        /\ new.hits = [room.hits EXCEPT ![k] = room.hits[k] \cup {f}]
        /\ new.since = [room.since EXCEPT ![k] = age]
    BY <1>1, <1>2 DEF Limiter
  <1>5. [room.hits EXCEPT ![k] = room.hits[k] \cup {f}] \in [Keys -> SUBSET (fs \cup {f})]
    BY <1>1 DEF Limiter
  <1>6. [room.since EXCEPT ![k] = age] \in [Keys -> Nat]
    BY <1>1, <1>3 DEF Limiter
  <1>7. new \in Limiter(fs \cup {f})
    BY <1>1, <1>2, <1>5, <1>6 DEF Limiter
  <1>8. \A g \in new.all : g.scope = sc
    BY <1>1, <1>4 DEF Filed
  <1>9. ASSUME NEW x \in Keys, NEW g \in new.hits[x]
        PROVE  g.scope = sc /\ ClientKey(g.host) = x
    <2>1. room.hits \in [Keys -> SUBSET fs]
      BY <1>1 DEF Limiter
    <2>2. g \in room.hits[x] \/ (x = k /\ g = f)
      BY <1>4, <1>9, <2>1
    <2>3. QED
      BY <1>1, <2>2 DEF Filed
  <1>10. Filed(new, sc, fs \cup {f})
    BY <1>7, <1>8, <1>9 DEF Filed
  <1>11. QED
    BY <1>1, <1>4, <1>10 DEF new, Counts

-----------------------------------------------------------------------------
(* The invariant.                                                          *)

AllFiled == \A sc \in Scopes : Filed(limiter[sc], sc, failures)

NoFailureLost == \A sc \in Scopes : Recent(sc) \subseteq limiter[sc].all

LimiterInv ==
    /\ LimiterTypeOK
    /\ IsFiniteSet(failures)
    /\ AllFiled
    /\ NoFailureLost

LEMMA LimiterInvInit == LimiterInit => LimiterInv
  <1> SUFFICES ASSUME LimiterInit PROVE LimiterInv
    OBVIOUS
  <1>1. limiter \in [Scopes -> Limiter(failures)] /\ AllFiled
    BY DEF LimiterInit, Limiter, AllFiled, Filed
  <1>2. IsFiniteSet(failures)
    BY FS_EmptySet DEF LimiterInit
  <1>3. LimiterTypeOK
    <2>1. now \in 0..MaxTime
      BY RateLimitAssumption DEF LimiterInit
    <2>2. failures \in SUBSET Failure
      BY DEF LimiterInit
    <2>3. request \in [Requests -> {Idle} \cup
                           [phase : Phases, scope : Scopes, host : Hosts]]
      BY DEF LimiterInit
    <2>4. QED
      BY <1>1, <2>1, <2>2, <2>3 DEF LimiterTypeOK
  <1>4. NoFailureLost
    BY DEF LimiterInit, NoFailureLost, Recent
  <1>5. QED
    BY <1>1, <1>2, <1>3, <1>4 DEF LimiterInv

\* What a request may be.
LEMMA BecomeType ==
    ASSUME LimiterInv, NEW r \in Requests, NEW phase \in Phases, NEW sc \in Scopes,
           NEW h \in Hosts, Become(r, phase, sc, h)
    PROVE  request' \in [Requests -> {Idle} \cup
                             [phase : Phases, scope : Scopes, host : Hosts]]
  BY DEF LimiterInv, LimiterTypeOK, Become

\* The steps that only prune.
LEMMA PruneStep ==
    ASSUME LimiterInv, NEW sc \in Scopes, NEW k \in Keys,
           limiter' = [limiter EXCEPT ![sc] = Pruned(@, k)],
           request' \in [Requests -> {Idle} \cup
                             [phase : Phases, scope : Scopes, host : Hosts]],
           UNCHANGED <<now, failures>>
    PROVE  LimiterInv'
  <1>1. limiter' = [x \in Scopes |-> IF x = sc THEN Pruned(limiter[sc], k) ELSE limiter[x]]
    BY DEF LimiterInv, LimiterTypeOK
  <1>2. AllFiled'
    BY <1>1, PrunedIsFiled DEF LimiterInv, AllFiled
  <1>3. \A x \in Scopes : limiter'[x] \in Limiter(failures')
    BY <1>2 DEF AllFiled, Filed
  <1>4. LimiterTypeOK'
    BY <1>1, <1>3 DEF LimiterInv, LimiterTypeOK
  <1>5. NoFailureLost'
    <2>1. Recent(sc) \subseteq Pruned(limiter[sc], k).all
      <3>1. Pruned(limiter[sc], k).all = Prune(limiter[sc].all)
        BY DEF Pruned, LimiterInv, LimiterTypeOK, Limiter
      <3>2. QED
        BY <3>1 DEF LimiterInv, NoFailureLost, Recent, Prune
    <2>2. QED
      BY <1>1, <2>1 DEF LimiterInv, NoFailureLost, Recent
  <1>6. QED
    BY <1>2, <1>4, <1>5 DEF LimiterInv

\* The steps that record a failure in a limiter l, just read or just pruned.
LEMMA RecordStep ==
    ASSUME LimiterInv, NEW sc \in Scopes, NEW h \in Hosts, NEW l,
           Filed(l, sc, failures), Recent(sc) \subseteq l.all,
           failures' = failures \cup {NewFailure(sc, h)},
           limiter' = [limiter EXCEPT ![sc] = Recorded(l, ClientKey(h), NewFailure(sc, h))],
           request' \in [Requests -> {Idle} \cup
                             [phase : Phases, scope : Scopes, host : Hosts]],
           UNCHANGED now
    PROVE  LimiterInv'
  <1> DEFINE f == NewFailure(sc, h)
             k == ClientKey(h)
  <1>1. f \in Failure /\ f.scope = sc /\ ClientKey(f.host) = k
    BY FS_CardinalityType DEF LimiterInv, LimiterTypeOK, NewFailure, Failure
  <1>2. k \in Keys
    BY KeyOfHost
  <1> HIDE DEF f, k
  <1>a. l \in Limiter(failures)
    BY DEF Filed
  <1>3. /\ Filed(Recorded(l, k, f), sc, failures \cup {f})
        /\ Counts(Recorded(l, k, f), l, f)
    BY <1>1, <1>2, <1>a, RecordedIsFiled DEF LimiterInv, LimiterTypeOK
  <1>4. limiter' = [x \in Scopes |-> IF x = sc THEN Recorded(l, k, f) ELSE limiter[x]]
    BY DEF LimiterInv, LimiterTypeOK, f, k
  <1>5. failures' = failures \cup {f}
    BY DEF f
  <1>6. AllFiled'
    <2>1. \A x \in Scopes : Filed(limiter[x], x, failures \cup {f})
      BY DEF LimiterInv, AllFiled, Filed, Limiter
    <2>2. QED
      BY <1>3, <1>4, <1>5, <2>1 DEF AllFiled
  <1>7. LimiterTypeOK'
    <2>1. \A x \in Scopes : limiter'[x] \in Limiter(failures')
      BY <1>6 DEF AllFiled, Filed
    <2>2. limiter' \in [Scopes -> Limiter(failures')]
      BY <1>4, <2>1
    <2>3. failures' \in SUBSET Failure
      BY <1>1, <1>5 DEF LimiterInv, LimiterTypeOK
    <2>4. QED
      BY <2>2, <2>3 DEF LimiterInv, LimiterTypeOK
  <1>8. IsFiniteSet(failures')
    BY <1>5, FS_AddElement DEF LimiterInv
  <1>9. NoFailureLost'
    <2>2. ASSUME NEW x \in Scopes, NEW g \in Recent(x)'
          PROVE  g \in limiter'[x].all
      <3>1. g \in Recent(x) \/ (g = f /\ x = sc)
        BY <1>1, <1>5 DEF Recent
      <3>2. CASE x = sc
        BY <1>3, <1>4, <3>1, <3>2 DEF Counts
      <3>3. CASE x # sc
        BY <1>4, <3>1, <3>3 DEF LimiterInv, NoFailureLost
      <3>4. QED
        BY <3>2, <3>3
    <2>3. QED
      BY <2>2 DEF NoFailureLost
  <1>10. QED
    BY <1>6, <1>7, <1>8, <1>9 DEF LimiterInv

LEMMA LimiterInvStep == LimiterInv /\ [LimiterNext]_limiterVars => LimiterInv'
  <1> SUFFICES ASSUME LimiterInv, [LimiterNext]_limiterVars PROVE LimiterInv'
    OBVIOUS
  <1> USE DEF Scopes, Phases
  <1>1. ASSUME NEW r \in Requests, NEW h \in Hosts, NEW sc \in Scopes, Refuse(r, sc, h)
        PROVE  LimiterInv'
    BY <1>1, PruneStep, BecomeType, KeyOfHost DEF Refuse
  <1>2. ASSUME NEW r \in Requests, NEW h \in Hosts, LookUp(r, h)
        PROVE  LimiterInv'
    BY <1>2, PruneStep, BecomeType, KeyOfHost DEF LookUp, Pass
  <1>3. ASSUME NEW r \in Requests, NEW h \in Hosts, Admit(r, h)
        PROVE  LimiterInv'
    BY <1>3, PruneStep, BecomeType, KeyOfHost DEF Admit, Pass
  <1>4. ASSUME NEW r \in Requests, NEW h \in Hosts, WrongSecret(r, h)
        PROVE  LimiterInv'
    <2> DEFINE l == Pruned(limiter["admin"], ClientKey(h))
    <2>1. Filed(l, "admin", failures)
      BY PrunedIsFiled, KeyOfHost DEF LimiterInv, AllFiled
    <2>2. Recent("admin") \subseteq l.all
      <3>1. l.all = Prune(limiter["admin"].all)
        BY DEF Pruned, LimiterInv, LimiterTypeOK, Limiter
      <3>2. QED
        BY <3>1 DEF LimiterInv, NoFailureLost, Recent, Prune
    <2>3. limiter' = [limiter EXCEPT !["admin"] =
                         Recorded(l, ClientKey(h), NewFailure("admin", h))]
      BY <1>4 DEF WrongSecret
    <2> HIDE DEF l
    <2>4. QED
      BY <1>4, <2>1, <2>2, <2>3, RecordStep, BecomeType DEF WrongSecret
  <1>5. ASSUME NEW r \in Requests, Unknown(r)
        PROVE  LimiterInv'
    <2>1. request[r].host \in Hosts
      BY <1>5 DEF Unknown, LimiterInv, LimiterTypeOK, Idle
    <2>2. Filed(limiter["code"], "code", failures) /\ Recent("code") \subseteq limiter["code"].all
      BY DEF LimiterInv, AllFiled, NoFailureLost
    <2>3. QED
      BY <1>5, <2>1, <2>2, RecordStep, BecomeType DEF Unknown
  <1>6. ASSUME NEW r \in Requests, Known(r) \/ Leave(r)
        PROVE  LimiterInv'
    <2>1. request' \in [Requests -> {Idle} \cup
                            [phase : Phases, scope : Scopes, host : Hosts]]
      BY <1>6 DEF Known, Leave, Become, LimiterInv, LimiterTypeOK, Idle
    <2>2. UNCHANGED <<now, limiter, failures>>
      BY <1>6 DEF Known, Leave
    <2>3. QED
      BY <2>1, <2>2 DEF LimiterInv, LimiterTypeOK, AllFiled, NoFailureLost, Recent
  <1>7. CASE Tick
    <2>1. LimiterTypeOK'
      BY <1>7, RateLimitAssumption DEF Tick, LimiterInv, LimiterTypeOK
    <2>2. \A sc \in Scopes : Recent(sc)' \subseteq Recent(sc)
      <3>1. now' = now + 1 /\ now \in Int /\ failures' = failures
        BY <1>7, RateLimitAssumption DEF Tick, LimiterInv, LimiterTypeOK
      <3>2. \A f \in failures : f.at \in Nat
        BY DEF LimiterInv, LimiterTypeOK, Failure
      <3>3. \A f \in failures : now' - f.at <= Window => now - f.at <= Window
        BY <3>1, <3>2, RateLimitAssumption
      <3>4. QED
        BY <3>1, <3>3 DEF Recent
    <2>3. NoFailureLost'
      BY <1>7, <2>2 DEF Tick, NoFailureLost, LimiterInv
    <2>4. QED
      BY <1>7, <2>1, <2>3 DEF Tick, LimiterInv, AllFiled
  <1>8. CASE UNCHANGED limiterVars
    BY <1>8 DEF limiterVars, LimiterInv, LimiterTypeOK, AllFiled, NoFailureLost, Recent
  <1>9. QED
    BY <1>1, <1>2, <1>3, <1>4, <1>5, <1>6, <1>7, <1>8 DEF LimiterNext

THEOREM LimiterInvHolds == LimiterSpec => []LimiterInv
  BY LimiterInvInit, LimiterInvStep, PTL DEF LimiterSpec

(* Every limiter stays a limiter of the failures recorded: no deque holds  *)
(* a time nothing stands behind, in whatever order checks, lookups and     *)
(* records of different requests follow (rate_limit.py:50-69).             *)
THEOREM LimiterTypeCorrect == LimiterSpec => []LimiterTypeOK
  <1>1. LimiterInv => LimiterTypeOK
    BY DEF LimiterInv
  <1>2. QED
    BY <1>1, LimiterInvHolds, PTL

-----------------------------------------------------------------------------
(* Whoever is refused has itself failed the smaller allowance or more in   *)
(* the window and scope: neither a full global window, nor the failures of *)
(* other clients, nor eviction, nor guessing at the other scope can lock   *)
(* anybody out (rate_limit.py:10-14, 19-20).                               *)
LEMMA RefusedFailed ==
    ASSUME LimiterInv, NEW r \in Requests, NEW sc \in Scopes, NEW h \in Hosts,
           Blocked(limiter[sc], ClientKey(h))
    PROVE  Cardinality(RecentOf(sc, h)) >= Forbearance
  <1> DEFINE l == limiter[sc]
             k == ClientKey(h)
             old == Prune(l.hits[k])
  <1>1. k \in Keys
    BY KeyOfHost
  <1>2. Filed(l, sc, failures)
    BY DEF LimiterInv, AllFiled
  <1>3. Pruned(l, k).hits[k] = old
    BY <1>1, <1>2 DEF Pruned, Filed, Limiter
  <1>4. old \subseteq RecentOf(sc, h)
    <2>1. ASSUME NEW f \in old PROVE f \in RecentOf(sc, h)
      <3>1. f \in failures /\ f.scope = sc /\ ClientKey(f.host) = k /\ now - f.at <= Window
        BY <1>1, <1>2 DEF Filed, Limiter, Prune
      <3>2. f.host \in Hosts
        BY <3>1 DEF LimiterInv, LimiterTypeOK, Failure
      <3>3. SameClient(f.host, h)
        BY <3>1, <3>2, OneKeyPerClient
      <3>4. QED
        BY <3>1, <3>3 DEF RecentOf, Recent
    <2>2. QED
      BY <2>1
  <1>5. IsFiniteSet(RecentOf(sc, h))
    <2>1. RecentOf(sc, h) \in SUBSET failures
      BY DEF RecentOf, Recent
    <2>2. QED
      BY <2>1, FS_Subset DEF LimiterInv
  <1>6. /\ Cardinality(old) <= Cardinality(RecentOf(sc, h))
        /\ Cardinality(old) \in Nat /\ Cardinality(RecentOf(sc, h)) \in Nat
    BY <1>4, <1>5, FS_Subset, FS_CardinalityType
  <1>7. Cardinality(old) >= PerKey \/ Cardinality(old) >= TightPerKey
    BY <1>3 DEF Blocked, Limit
  <1>8. QED
    BY <1>6, <1>7, RateLimitAssumption DEF Forbearance

THEOREM NobodyElseIsRefused == LimiterSpec => OnlyGuessersAreRefused
  <1>1. ASSUME LimiterInv, [LimiterNext]_limiterVars, NEW r \in Requests, request[r] = Idle,
               request'[r] # Idle, request'[r].phase = "refused"
        PROVE  LET q == request'[r]
               IN  Cardinality(RecentOf(q.scope, q.host)) >= Forbearance
    <2>1. PICK sc \in Scopes, h \in Hosts : Refuse(r, sc, h)
      BY <1>1 DEF LimiterNext, limiterVars, Refuse, LookUp, Admit, Pass, WrongSecret, Unknown,
                  Known, Leave, Tick, Become, Idle, LimiterInv, LimiterTypeOK
    <2>2. request'[r].scope = sc /\ request'[r].host = h
      BY <1>1, <2>1 DEF Refuse, Become, LimiterInv, LimiterTypeOK
    <2>3. QED
      BY <1>1, <2>1, <2>2, RefusedFailed DEF Refuse
  <1>2. LimiterInv /\ [LimiterNext]_limiterVars =>
          [\A r \in Requests :
              request[r] = Idle /\ request'[r] # Idle /\ request'[r].phase = "refused"
              => LET q == request'[r]
                 IN  Cardinality(RecentOf(q.scope, q.host)) >= Forbearance]_limiterVars
    BY <1>1
  <1>3. QED
    BY <1>2, LimiterInvHolds, PTL DEF LimiterSpec, OnlyGuessersAreRefused

-----------------------------------------------------------------------------
(* Eviction.                                                               *)

LEMMA OldestIsTracked ==
    ASSUME NEW fs \in SUBSET Failure, NEW l \in Limiter(fs), Tracked(l) # {}
    PROVE  Oldest(l) \in Tracked(l)
  <1> DEFINE R == OpToRel(<, Nat)
             T == {l.since[k] : k \in Tracked(l)}
  <1>1. \A k \in Tracked(l) : l.since[k] \in Nat
    BY DEF Tracked, Limiter
  <1>2. T \subseteq Nat /\ T # {}
    BY <1>1
  <1>3. PICK x \in T : \A y \in T : ~ (<<y, x>> \in R)
    <2> HIDE DEF R, T
    <2>1. IsWellFoundedOn(R, Nat)
      BY NatLessThanWellFounded DEF R
    <2>2. QED
      BY <1>2, <2>1, WFMin
  <1>4. \A y \in T : <<y, x>> \in R <=> y < x
    BY <1>2 DEF OpToRel
  <1>5. \A y \in T : x <= y
    <2> HIDE DEF R, T
    <2>1. x \in Nat /\ \A y \in T : y \in Nat
      BY <1>2
    <2>2. \A y \in T : ~ (y < x)
      BY <1>3, <1>4
    <2>3. QED
      BY <2>1, <2>2
  <1>6. \E o \in Tracked(l) : \A p \in Tracked(l) : l.since[o] <= l.since[p]
    BY <1>5
  <1>7. QED
    BY <1>6 DEF Oldest

\* A limiter that tracks a bounded number of keys.
Bounded(l) ==
    /\ IsFiniteSet(Tracked(l))
    /\ Cardinality(Tracked(l)) <= MaxTrackedKeys

LEMMA PrunedIsBounded ==
    ASSUME NEW fs \in SUBSET Failure, NEW l \in Limiter(fs), NEW k \in Keys, Bounded(l)
    PROVE  Bounded(Pruned(l, k))
  <1>1. Tracked(Pruned(l, k)) \subseteq Tracked(l)
    BY DEF Tracked, Pruned, Prune, Limiter
  <1>2. /\ IsFiniteSet(Tracked(Pruned(l, k)))
        /\ Cardinality(Tracked(Pruned(l, k))) <= Cardinality(Tracked(l))
        /\ Cardinality(Tracked(Pruned(l, k))) \in Nat /\ Cardinality(Tracked(l)) \in Nat
    BY <1>1, FS_Subset, FS_CardinalityType DEF Bounded
  <1>3. QED
    BY <1>2, RateLimitAssumption DEF Bounded

LEMMA RecordedIsBounded ==
    ASSUME NEW fs \in SUBSET Failure, NEW l \in Limiter(fs), NEW f \in Failure,
           NEW k \in Keys, Bounded(l)
    PROVE  Bounded(Recorded(l, k, f))
  <1> DEFINE room == MakeRoom(l, k)
             new  == Recorded(l, k, f)
             kept == IF Full(l, k) THEN Tracked(l) \ {Oldest(l)} ELSE Tracked(l)
  <1>1. Tracked(new) = kept \cup {k}
    <2>1. Full(l, k) => Oldest(l) \in Keys
      <3>1. Full(l, k) => Tracked(l) # {}
        BY FS_EmptySet, RateLimitAssumption DEF Full
      <3>2. QED
        BY <3>1, OldestIsTracked DEF Tracked
    <2>2. room \in Limiter(fs)
      BY DEF MakeRoom, Limiter
    <2>3. room.hits = IF Full(l, k) THEN [l.hits EXCEPT ![Oldest(l)] = {}] ELSE l.hits
      BY DEF MakeRoom, Limiter
    <2>4. Tracked(room) = kept
      BY <2>1, <2>2, <2>3 DEF Tracked, Limiter
    <2> HIDE DEF room
    <2>5. new.hits = [room.hits EXCEPT ![k] = room.hits[k] \cup {f}]
      BY <2>2 DEF Recorded, room, Limiter
    <2>6. QED
      BY <2>2, <2>4, <2>5 DEF Tracked, Limiter
  <1> HIDE DEF new
  <1>2. IsFiniteSet(kept) /\ Cardinality(kept) \in Nat /\ Cardinality(Tracked(l)) \in Nat
    BY FS_RemoveElement, FS_CardinalityType DEF Bounded
  <1>3. CASE k \in Tracked(l)
    <2>1. Tracked(new) = Tracked(l)
      BY <1>1, <1>3 DEF Full
    <2>2. QED
      BY <2>1 DEF Bounded, new
  <1>4. CASE k \notin Tracked(l) /\ Full(l, k)
    <2>1. Oldest(l) \in Tracked(l)
      <3>1. Tracked(l) # {}
        BY <1>4, FS_EmptySet, RateLimitAssumption DEF Full
      <3>2. QED
        BY <3>1, OldestIsTracked
    <2>2. Cardinality(kept) = Cardinality(Tracked(l)) - 1
      BY <1>4, <2>1, FS_RemoveElement DEF Bounded
    <2>3. k \notin kept
      BY <1>4
    <2>4. IsFiniteSet(Tracked(new)) /\ Cardinality(Tracked(new)) = Cardinality(kept) + 1
      BY <1>1, <1>2, <2>3, FS_AddElement
    <2>5. QED
      BY <1>2, <2>2, <2>4 DEF Bounded, new
  <1>5. CASE k \notin Tracked(l) /\ ~Full(l, k)
    <2>1. kept = Tracked(l)
      BY <1>5
    <2>2. IsFiniteSet(Tracked(new)) /\ Cardinality(Tracked(new)) = Cardinality(Tracked(l)) + 1
      BY <1>1, <1>2, <1>5, <2>1, FS_AddElement
    <2>3. Cardinality(Tracked(l)) < MaxTrackedKeys
      BY <1>2, <1>5, RateLimitAssumption DEF Full
    <2>4. QED
      BY <1>2, <2>2, <2>3, RateLimitAssumption DEF Bounded, new
  <1>6. QED
    BY <1>3, <1>4, <1>5

AllBounded == \A sc \in Scopes : Bounded(limiter[sc])

LEMMA BoundedInit == LimiterInit => AllBounded
  <1> SUFFICES ASSUME LimiterInit, NEW sc \in Scopes PROVE Bounded(limiter[sc])
    BY DEF AllBounded
  <1>1. Tracked(limiter[sc]) = {}
    BY DEF LimiterInit, Tracked
  <1>2. QED
    BY <1>1, FS_EmptySet, RateLimitAssumption DEF Bounded

LEMMA BoundedStep == LimiterInv /\ AllBounded /\ [LimiterNext]_limiterVars => AllBounded'
  <1> SUFFICES ASSUME LimiterInv, AllBounded, [LimiterNext]_limiterVars PROVE AllBounded'
    OBVIOUS
  <1> USE DEF Scopes
  <1>a. /\ failures \in SUBSET Failure
        /\ \A sc \in Scopes : limiter[sc] \in Limiter(failures) /\ Bounded(limiter[sc])
    BY DEF LimiterInv, LimiterTypeOK, AllBounded
  <1>b. ASSUME NEW sc \in Scopes, NEW h \in Hosts,
               limiter' = [limiter EXCEPT ![sc] = Pruned(@, ClientKey(h))]
        PROVE  AllBounded'
    <2>1. Bounded(Pruned(limiter[sc], ClientKey(h)))
      BY <1>a, KeyOfHost, PrunedIsBounded
    <2>2. limiter' = [x \in Scopes |-> IF x = sc THEN Pruned(limiter[sc], ClientKey(h))
                                                  ELSE limiter[x]]
      BY <1>b DEF LimiterInv, LimiterTypeOK
    <2>3. QED
      BY <1>a, <2>1, <2>2 DEF AllBounded
  <1>c. ASSUME NEW sc \in Scopes, NEW h \in Hosts, NEW l \in Limiter(failures), Bounded(l),
               limiter' = [limiter EXCEPT ![sc] =
                              Recorded(l, ClientKey(h), NewFailure(sc, h))]
        PROVE  AllBounded'
    <2>1. NewFailure(sc, h) \in Failure
      BY FS_CardinalityType DEF LimiterInv, LimiterTypeOK, NewFailure, Failure
    <2>2. Bounded(Recorded(l, ClientKey(h), NewFailure(sc, h)))
      BY <1>a, <1>c, <2>1, KeyOfHost, RecordedIsBounded
    <2>3. limiter' = [x \in Scopes |-> IF x = sc
                          THEN Recorded(l, ClientKey(h), NewFailure(sc, h)) ELSE limiter[x]]
      BY <1>c DEF LimiterInv, LimiterTypeOK
    <2>4. QED
      BY <1>a, <2>2, <2>3 DEF AllBounded
  <1>1. ASSUME NEW r \in Requests, NEW h \in Hosts, NEW sc \in Scopes,
               Refuse(r, sc, h) \/ LookUp(r, h) \/ Admit(r, h)
        PROVE  AllBounded'
    BY <1>1, <1>b DEF Refuse, LookUp, Admit, Pass
  <1>2. ASSUME NEW r \in Requests, NEW h \in Hosts, WrongSecret(r, h)
        PROVE  AllBounded'
    <2> DEFINE l == Pruned(limiter["admin"], ClientKey(h))
    <2>1. l \in Limiter(failures) /\ Bounded(l)
      BY <1>a, KeyOfHost, PrunedIsBounded, PrunedIsFiled DEF LimiterInv, AllFiled, Filed
    <2>2. limiter' = [limiter EXCEPT !["admin"] =
                         Recorded(l, ClientKey(h), NewFailure("admin", h))]
      BY <1>2 DEF WrongSecret
    <2> HIDE DEF l
    <2>3. QED
      BY <1>c, <2>1, <2>2
  <1>3. ASSUME NEW r \in Requests, Unknown(r)
        PROVE  AllBounded'
    <2>1. request[r].host \in Hosts
      BY <1>3 DEF Unknown, LimiterInv, LimiterTypeOK, Idle
    <2>2. QED
      BY <1>3, <1>a, <1>c, <2>1 DEF Unknown
  <1>4. ASSUME NEW r \in Requests, Known(r) \/ Leave(r)
        PROVE  AllBounded'
    BY <1>4 DEF Known, Leave, AllBounded
  <1>5. CASE Tick \/ UNCHANGED limiterVars
    BY <1>5 DEF Tick, limiterVars, AllBounded
  <1>6. QED
    BY <1>1, <1>2, <1>3, <1>4, <1>5 DEF LimiterNext

(* However many addresses a flood comes from, a limiter tracks at most     *)
(* _MAX_TRACKED_KEYS keys and its global window misses no failure of the   *)
(* window (rate_limit.py:62-69).                                           *)
THEOREM EvictionIsSafe == LimiterSpec => []GlobalCountsAll
  <1>1. LimiterInv /\ AllBounded => GlobalCountsAll
    BY DEF LimiterInv, NoFailureLost, AllBounded, Bounded, GlobalCountsAll
  <1>2. QED
    BY <1>1, BoundedInit, BoundedStep, LimiterInvHolds, PTL DEF LimiterSpec

-----------------------------------------------------------------------------
(* The allowance of a client.  A failure that a limiter still holds, and   *)
(* one that a lookup under way may yet bring, are counted together.        *)

\* The failures of the window that the deque of a key holds ...
Held(sc, k) == Prune(limiter[sc].hits[k])

\* ... and the lookups of its client that have not been answered.
Pending(k) == {r \in Requests : request[r].phase = "looking" /\ ClientKey(request[r].host) = k}

Together(k) ==
    /\ Cardinality(Held("code", k)) + Cardinality(Pending(k))
           <= Allowance + Cardinality(Requests) - 1
    /\ Cardinality(Held("admin", k)) <= Allowance

AllowanceInv == \A k \in Keys : Together(k)

LEMMA Counted ==
    ASSUME LimiterInv, NEW k \in Keys
    PROVE  /\ \A sc \in Scopes : /\ Held(sc, k) \subseteq failures
                                 /\ IsFiniteSet(Held(sc, k)) /\ Cardinality(Held(sc, k)) \in Nat
           /\ IsFiniteSet(Pending(k)) /\ Cardinality(Pending(k)) \in Nat
           /\ Cardinality(Pending(k)) <= Cardinality(Requests)
           /\ Cardinality(Requests) \in Nat
           /\ Allowance \in Nat \ {0} /\ PerKey <= Allowance /\ TightPerKey <= Allowance
  <1>1. ASSUME NEW sc \in Scopes PROVE Held(sc, k) \subseteq failures
    BY DEF Held, Prune, LimiterInv, LimiterTypeOK, Limiter
  <1>2. ASSUME NEW sc \in Scopes
        PROVE  IsFiniteSet(Held(sc, k)) /\ Cardinality(Held(sc, k)) \in Nat
    BY <1>1, FS_Subset, FS_CardinalityType DEF LimiterInv
  <1>3. Pending(k) \subseteq Requests /\ IsFiniteSet(Requests)
    BY RateLimitAssumption DEF Pending
  <1>4. /\ IsFiniteSet(Pending(k)) /\ Cardinality(Pending(k)) \in Nat
        /\ Cardinality(Pending(k)) <= Cardinality(Requests) /\ Cardinality(Requests) \in Nat
    BY <1>3, FS_Subset, FS_CardinalityType
  <1>5. Allowance \in Nat \ {0} /\ PerKey <= Allowance /\ TightPerKey <= Allowance
    BY RateLimitAssumption DEF Allowance
  <1>6. QED
    BY <1>1, <1>2, <1>4, <1>5

\* A client that gets no more failures or lookups keeps its allowance.
LEMMA NoMore ==
    ASSUME LimiterInv, LimiterInv', NEW k \in Keys, Together(k),
           Held("code", k)' \subseteq Held("code", k), Held("admin", k)' \subseteq Held("admin", k),
           Pending(k)' \subseteq Pending(k)
    PROVE  Together(k)'
  <1>1. /\ IsFiniteSet(Held("code", k)) /\ IsFiniteSet(Held("admin", k)) /\ IsFiniteSet(Pending(k))
        /\ Cardinality(Held("code", k)) \in Nat /\ Cardinality(Held("admin", k)) \in Nat
        /\ Cardinality(Pending(k)) \in Nat
        /\ Allowance \in Nat /\ Cardinality(Requests) \in Nat
    BY Counted DEF Scopes
  <1>2. /\ Cardinality(Held("code", k)') <= Cardinality(Held("code", k))
        /\ Cardinality(Held("admin", k)') <= Cardinality(Held("admin", k))
        /\ Cardinality(Pending(k)') <= Cardinality(Pending(k))
        /\ IsFiniteSet(Held("code", k)') /\ IsFiniteSet(Held("admin", k)')
        /\ IsFiniteSet(Pending(k)')
    BY <1>1, FS_Subset
  <1>3. /\ Cardinality(Held("code", k)') \in Nat /\ Cardinality(Held("admin", k)') \in Nat
        /\ Cardinality(Pending(k)') \in Nat
    BY <1>2, FS_CardinalityType
  <1>4. QED
    BY <1>1, <1>2, <1>3 DEF Together

\* What the operations leave of the deques.
LEMMA PrunedHolds ==
    ASSUME LimiterInv, NEW sc \in Scopes, NEW k \in Keys, NEW x \in Keys
    PROVE  /\ Prune(Pruned(limiter[sc], k).hits[x]) = Held(sc, x)
           /\ Pruned(limiter[sc], k).hits[k] = Held(sc, k)
  BY DEF LimiterInv, LimiterTypeOK, Limiter, Pruned, Prune, Held

LEMMA RecordedHolds ==
    ASSUME NEW fs, NEW l \in Limiter(fs), NEW k \in Keys, NEW f, NEW x \in Keys
    PROVE  Recorded(l, k, f).hits[x] \subseteq IF x = k THEN l.hits[x] \cup {f} ELSE l.hits[x]
  <1> DEFINE room == MakeRoom(l, k)
  <1>1. room \in Limiter(fs) /\ room.hits[x] \subseteq l.hits[x]
    BY DEF MakeRoom, Limiter
  <1> HIDE DEF room
  <1>2. Recorded(l, k, f).hits = [room.hits EXCEPT ![k] = @ \cup {f}]
    BY <1>1 DEF Recorded, room, Limiter
  <1>3. room.hits \in [Keys -> SUBSET fs]
    BY <1>1 DEF Limiter
  <1>4. QED
    BY <1>1, <1>2, <1>3

\* A check prunes a deque of the failures outside the window.
LEMMA CheckHolds ==
    ASSUME LimiterInv, NEW sc \in Scopes, NEW k \in Keys, UNCHANGED now,
           limiter' = [limiter EXCEPT ![sc] = Pruned(@, k)]
    PROVE  \A x \in Keys, s \in Scopes : Held(s, x)' \subseteq Held(s, x)
  <1>1. \A s \in Scopes : limiter'[s] = IF s = sc THEN Pruned(limiter[sc], k) ELSE limiter[s]
    BY DEF LimiterInv, LimiterTypeOK
  <1>2. QED
    BY <1>1, PrunedHolds DEF Held, Prune

\* A record adds one failure, to the deque of its key.
LEMMA RecordHolds ==
    ASSUME LimiterInv, NEW sc \in Scopes, NEW k \in Keys, NEW f, UNCHANGED now, NEW l \in Limiter(failures),
           limiter' = [limiter EXCEPT ![sc] = Recorded(l, k, f)],
           \A x \in Keys : Prune(l.hits[x]) \subseteq Held(sc, x)
    PROVE  /\ \A x \in Keys, s \in Scopes : s # sc \/ x # k => Held(s, x)' \subseteq Held(s, x)
           /\ Held(sc, k)' \subseteq Held(sc, k) \cup {f}
  <1>1. \A s \in Scopes : limiter'[s] = IF s = sc THEN Recorded(l, k, f) ELSE limiter[s]
    BY DEF LimiterInv, LimiterTypeOK
  <1>2. \A x \in Keys : Recorded(l, k, f).hits[x]
                            \subseteq IF x = k THEN l.hits[x] \cup {f} ELSE l.hits[x]
    BY RecordedHolds
  <1>3. ASSUME NEW x \in Keys, NEW s \in Scopes, s # sc \/ x # k PROVE Held(s, x)' \subseteq Held(s, x)
    BY <1>1, <1>2, <1>3 DEF Held, Prune
  <1>4. Held(sc, k)' \subseteq Held(sc, k) \cup {f}
    BY <1>1, <1>2 DEF Held, Prune
  <1>5. QED
    BY <1>3, <1>4

\* A request that is not looking, or is no longer, adds nothing.
LEMMA NotLooking ==
    ASSUME LimiterInv, NEW r \in Requests, NEW q, q.phase # "looking", request' = [request EXCEPT ![r] = q]
    PROVE  \A k \in Keys : Pending(k)' \subseteq Pending(k) \ {r}
  BY DEF LimiterInv, LimiterTypeOK, Pending

LEMMA AllowanceStep ==
    ASSUME LimiterInv, LimiterInv', AllowanceInv, [LimiterNext]_limiterVars
    PROVE  AllowanceInv'
  <1> SUFFICES ASSUME NEW k \in Keys PROVE Together(k)'
    BY DEF AllowanceInv
  <1> USE DEF Scopes
  <1>0. Together(k)
    BY DEF AllowanceInv
  <1> DEFINE n == Cardinality(Requests)
  <1>a. /\ IsFiniteSet(Held("code", k)) /\ Cardinality(Held("code", k)) \in Nat
        /\ IsFiniteSet(Held("admin", k)) /\ Cardinality(Held("admin", k)) \in Nat
        /\ IsFiniteSet(Pending(k)) /\ Cardinality(Pending(k)) \in Nat
        /\ n \in Nat /\ Allowance \in Nat \ {0} /\ PerKey <= Allowance /\ TightPerKey <= Allowance
    BY Counted
  <1>b. /\ IsFiniteSet(Pending(k)') /\ Cardinality(Pending(k)') \in Nat
        /\ Cardinality(Pending(k)') <= n
    <2>1. Pending(k)' \subseteq Requests /\ IsFiniteSet(Requests)
      BY RateLimitAssumption DEF Pending
    <2>2. QED
      BY <2>1, FS_Subset, FS_CardinalityType
  \* Who passes the check holds fewer failures than the allowance.
  <1>c. ASSUME NEW sc \in Scopes, ~Blocked(limiter[sc], k)
        PROVE  Cardinality(Held(sc, k)) <= Allowance - 1
    <2>1. Cardinality(Held(sc, k)) < Limit(Pruned(limiter[sc], k))
          \/ ~(Cardinality(Held(sc, k)) \in Nat)
      BY <1>a, <1>c, PrunedHolds, RateLimitAssumption DEF Blocked, Limit
    <2>2. QED
      BY <1>a, <2>1, RateLimitAssumption DEF Limit
  <1>1. ASSUME NEW r \in Requests, NEW h \in Hosts, NEW sc \in Scopes,
               Refuse(r, sc, h) \/ (LookUp(r, h) /\ ClientKey(h) # k) \/ Admit(r, h)
        PROVE  Together(k)'
    <2>1. \A x \in Keys, s \in Scopes : Held(s, x)' \subseteq Held(s, x)
      BY <1>1, CheckHolds, KeyOfHost DEF Refuse, LookUp, Admit, Pass
    <2>2. Pending(k)' \subseteq Pending(k)
      BY <1>1 DEF Refuse, LookUp, Admit, Pass, Become, Pending, LimiterInv, LimiterTypeOK
    <2>3. QED
      BY <1>0, <2>1, <2>2, NoMore
  <1>2. ASSUME NEW r \in Requests, NEW h \in Hosts, LookUp(r, h), ClientKey(h) = k
        PROVE  Together(k)'
    <2>1. \A x \in Keys, s \in Scopes : Held(s, x)' \subseteq Held(s, x)
      BY <1>2, CheckHolds, KeyOfHost DEF LookUp, Pass
    <2>2. Cardinality(Held("code", k)) <= Allowance - 1
      BY <1>2, <1>c DEF LookUp, Pass
    <2>3. /\ Cardinality(Held("code", k)') <= Cardinality(Held("code", k))
          /\ Cardinality(Held("admin", k)') <= Cardinality(Held("admin", k))
          /\ Cardinality(Held("code", k)') \in Nat /\ Cardinality(Held("admin", k)') \in Nat
      BY <1>a, <2>1, FS_Subset, FS_CardinalityType
    <2>4. QED
      BY <1>0, <1>a, <1>b, <2>2, <2>3 DEF Together
  <1>3. ASSUME NEW r \in Requests, NEW h \in Hosts, WrongSecret(r, h)
        PROVE  Together(k)'
    <2> DEFINE l == Pruned(limiter["admin"], ClientKey(h))
               f == NewFailure("admin", h)
    <2>1. /\ limiter' = [limiter EXCEPT !["admin"] = Recorded(l, ClientKey(h), f)]
          /\ UNCHANGED now /\ ~Blocked(limiter["admin"], ClientKey(h))
          /\ request[r] = Idle
      BY <1>3 DEF WrongSecret
    <2>2. l \in Limiter(failures) /\ ClientKey(h) \in Keys
      BY KeyOfHost, PrunedIsFiled DEF LimiterInv, AllFiled, Filed
    <2>3. \A x \in Keys : Prune(l.hits[x]) \subseteq Held("admin", x)
      BY <2>2, PrunedHolds
    <2> HIDE DEF l, f
    <2>4. /\ \A x \in Keys, s \in Scopes : s # "admin" \/ x # ClientKey(h) => Held(s, x)' \subseteq Held(s, x)
          /\ Held("admin", ClientKey(h))' \subseteq Held("admin", ClientKey(h)) \cup {f}
      BY <2>1, <2>2, <2>3, RecordHolds
    <2>5. Pending(k)' \subseteq Pending(k)
      BY <1>3 DEF WrongSecret, Become, Pending, LimiterInv, LimiterTypeOK
    <2>6. CASE k # ClientKey(h)
      BY <1>0, <2>4, <2>5, <2>6, NoMore
    <2>7. CASE k = ClientKey(h)
      <3>1. Cardinality(Held("admin", k)) <= Allowance - 1
        BY <1>c, <2>1, <2>7
      <3>2. /\ IsFiniteSet(Held("admin", k) \cup {f})
            /\ Cardinality(Held("admin", k) \cup {f}) <= Cardinality(Held("admin", k)) + 1
        <4>1. /\ IsFiniteSet(Held("admin", k) \cup {f})
              /\ Cardinality(Held("admin", k) \cup {f}) =
                     IF f \in Held("admin", k) THEN Cardinality(Held("admin", k))
                     ELSE Cardinality(Held("admin", k)) + 1
          BY <1>a, FS_AddElement
        <4>2. QED
          BY <1>a, <4>1
      <3>3. /\ Cardinality(Held("admin", k)') <= Cardinality(Held("admin", k) \cup {f})
            /\ Cardinality(Held("admin", k)') \in Nat
            /\ Cardinality(Held("admin", k) \cup {f}) \in Nat
        <4>1. Held("admin", k)' \subseteq Held("admin", k) \cup {f}
          BY <2>4, <2>7
        <4>2. QED
          BY <3>2, <4>1, FS_Subset, FS_CardinalityType
      <3>4. Cardinality(Held("admin", k)') <= Allowance
        BY <1>a, <3>1, <3>2, <3>3
      <3>5. /\ Cardinality(Held("code", k)') <= Cardinality(Held("code", k))
            /\ Cardinality(Held("code", k)') \in Nat
            /\ Cardinality(Pending(k)') <= Cardinality(Pending(k))
        BY <1>a, <2>4, <2>5, FS_Subset, FS_CardinalityType
      <3>6. QED
        BY <1>0, <1>a, <1>b, <3>4, <3>5 DEF Together
    <2>8. QED
      BY <2>6, <2>7
  <1>4. ASSUME NEW r \in Requests, Unknown(r)
        PROVE  Together(k)'
    <2>2. PICK h \in Hosts : h = request[r].host
      BY <1>4 DEF Unknown, LimiterInv, LimiterTypeOK, Idle
    <2> DEFINE f == NewFailure("code", h)
               l == limiter["code"]
    <2>1. /\ limiter' = [limiter EXCEPT !["code"] = Recorded(l, ClientKey(h), f)]
          /\ UNCHANGED now /\ request[r].phase = "looking" /\ Become(r, "failed", "code", h)
      BY <1>4, <2>2 DEF Unknown
    <2>3. ClientKey(h) \in Keys /\ l \in Limiter(failures)
          /\ \A x \in Keys : Prune(l.hits[x]) \subseteq Held("code", x)
      BY KeyOfHost DEF LimiterInv, AllFiled, Filed, Held
    <2>4. Pending(k)' \subseteq Pending(k) \ {r}
      BY <2>1, NotLooking DEF Become
    <2> HIDE DEF f, l
    <2>5. /\ \A x \in Keys, s \in Scopes : s # "code" \/ x # ClientKey(h) => Held(s, x)' \subseteq Held(s, x)
          /\ Held("code", ClientKey(h))' \subseteq Held("code", ClientKey(h)) \cup {f}
      BY <2>1, <2>3, RecordHolds
    <2>6. CASE k # ClientKey(h)
      BY <1>0, <2>4, <2>5, <2>6, NoMore
    <2>7. CASE k = ClientKey(h)
      <3>1. r \in Pending(k)
        BY <2>1, <2>2, <2>7 DEF Pending
      <3>2. Cardinality(Pending(k)') <= Cardinality(Pending(k)) - 1
        <4>1. /\ IsFiniteSet(Pending(k) \ {r})
              /\ Cardinality(Pending(k) \ {r}) = Cardinality(Pending(k)) - 1
          BY <1>a, <3>1, FS_RemoveElement
        <4>2. Cardinality(Pending(k)') <= Cardinality(Pending(k) \ {r})
          BY <2>4, <4>1, FS_Subset
        <4>3. QED
          BY <1>a, <1>b, <4>1, <4>2
      <3>3. /\ IsFiniteSet(Held("code", k) \cup {f})
            /\ Cardinality(Held("code", k) \cup {f}) <= Cardinality(Held("code", k)) + 1
        <4>1. /\ IsFiniteSet(Held("code", k) \cup {f})
              /\ Cardinality(Held("code", k) \cup {f}) =
                     IF f \in Held("code", k) THEN Cardinality(Held("code", k))
                     ELSE Cardinality(Held("code", k)) + 1
          BY <1>a, FS_AddElement
        <4>2. QED
          BY <1>a, <4>1
      <3>4. /\ Cardinality(Held("code", k)') <= Cardinality(Held("code", k) \cup {f})
            /\ Cardinality(Held("code", k)') \in Nat
            /\ Cardinality(Held("code", k) \cup {f}) \in Nat
        <4>1. Held("code", k)' \subseteq Held("code", k) \cup {f}
          BY <2>5, <2>7
        <4>2. QED
          BY <3>3, <4>1, FS_Subset, FS_CardinalityType
      <3>5. /\ Cardinality(Held("admin", k)') <= Cardinality(Held("admin", k))
            /\ Cardinality(Held("admin", k)') \in Nat
        BY <1>a, <2>5, FS_Subset, FS_CardinalityType
      <3>6. QED
        BY <1>0, <1>a, <1>b, <3>2, <3>3, <3>4, <3>5 DEF Together
    <2>8. QED
      BY <2>6, <2>7
  <1>5. ASSUME NEW r \in Requests, Known(r) \/ Leave(r)
        PROVE  Together(k)'
    <2>1. \A s \in Scopes : Held(s, k)' \subseteq Held(s, k)
      BY <1>5 DEF Known, Leave, Held, Prune
    <2>2. Pending(k)' \subseteq Pending(k)
      BY <1>5 DEF Known, Leave, Become, Pending, LimiterInv, LimiterTypeOK, Idle
    <2>3. QED
      BY <1>0, <2>1, <2>2, NoMore
  <1>6. CASE Tick
    <2>1. \A s \in Scopes : Held(s, k)' \subseteq Held(s, k)
      <3> SUFFICES ASSUME NEW s \in Scopes, NEW f \in Held(s, k)' PROVE f \in Held(s, k)
        OBVIOUS
      <3>1. limiter' = limiter /\ now' = now + 1 /\ now \in Int
        BY <1>6, RateLimitAssumption DEF Tick, LimiterInv, LimiterTypeOK
      <3>2. f \in limiter[s].hits[k] /\ now' - f.at <= Window
        BY <3>1 DEF Held, Prune
      <3>3. f \in Failure
        BY <3>2 DEF LimiterInv, LimiterTypeOK, Limiter
      <3>4. f.at \in Nat
        BY <3>3 DEF Failure
      <3>5. now - f.at <= Window
        BY <3>1, <3>2, <3>4, RateLimitAssumption
      <3>6. QED
        BY <3>2, <3>5 DEF Held, Prune
    <2>2. Pending(k)' \subseteq Pending(k)
      BY <1>6 DEF Tick, Pending
    <2>3. QED
      BY <1>0, <2>1, <2>2, NoMore
  <1>7. CASE UNCHANGED limiterVars
    BY <1>0, <1>7 DEF limiterVars, Together, Held, Prune, Pending
  <1>8. QED
    BY <1>1, <1>2, <1>3, <1>4, <1>5, <1>6, <1>7 DEF LimiterNext

(* Lookups that overlap between check and record let a client past its     *)
(* allowance by at most the requests handled at once, less one; the admin  *)
(* check, which awaits nothing, by none; only the eviction of its key      *)
(* forgives a client (_access.py:40-43, access.py:17-20).                  *)
THEOREM OverlapIsBounded == LimiterSpec => []AllowanceHolds
  <1>1. LimiterInv /\ AllowanceInv => AllowanceHolds
    <2> SUFFICES ASSUME LimiterInv, AllowanceInv, NEW h \in Hosts
                 PROVE  /\ Remembered("code", h) =>
                              Cardinality(RecentOf("code", h)) + Cardinality(LookingFor(h))
                                  <= Allowance + Cardinality(Requests) - 1
                        /\ Remembered("admin", h) => Cardinality(RecentOf("admin", h)) <= Allowance
      BY DEF AllowanceHolds
    <2> DEFINE k == ClientKey(h)
    <2>1. k \in Keys
      BY KeyOfHost
    <2>2. LookingFor(h) = Pending(k)
      <3>1. ASSUME NEW r \in Requests, request[r].phase = "looking"
            PROVE  SameClient(request[r].host, h) <=> ClientKey(request[r].host) = k
        <4>1. request[r].host \in Hosts
          BY <3>1 DEF LimiterInv, LimiterTypeOK, Idle
        <4>2. QED
          BY <4>1, OneKeyPerClient
      <3>2. QED
        BY <3>1 DEF LookingFor, Pending
    <2>3. \A sc \in Scopes : Remembered(sc, h) => RecentOf(sc, h) \subseteq Held(sc, k)
      BY DEF Remembered, RecentOf, Recent, Held, Prune
    <2> HIDE DEF k
    <2>4. /\ \A sc \in Scopes : IsFiniteSet(Held(sc, k)) /\ Cardinality(Held(sc, k)) \in Nat
          /\ Cardinality(Pending(k)) \in Nat /\ Cardinality(Requests) \in Nat /\ Allowance \in Nat
          /\ Together(k)
      BY <2>1, Counted DEF AllowanceInv
    <2>5. ASSUME NEW sc \in Scopes, Remembered(sc, h)
          PROVE  /\ Cardinality(RecentOf(sc, h)) <= Cardinality(Held(sc, k))
                 /\ Cardinality(RecentOf(sc, h)) \in Nat
      BY <2>3, <2>4, <2>5, FS_Subset, FS_CardinalityType
    <2>6. "code" \in Scopes /\ "admin" \in Scopes
      BY DEF Scopes
    <2>7. QED
      BY <2>2, <2>4, <2>5, <2>6 DEF Together
  <1>2. LimiterInit => AllowanceInv
    <2> SUFFICES ASSUME LimiterInit, NEW k \in Keys PROVE Together(k)
      BY DEF AllowanceInv
    <2>1. Held("code", k) = {} /\ Held("admin", k) = {} /\ Pending(k) = {}
      BY DEF LimiterInit, Held, Prune, Pending, Idle, Scopes
    <2>2. Cardinality({}) = 0
      BY FS_EmptySet
    <2>3. QED
      <3>1. LimiterInv
        BY LimiterInvInit
      <3>2. Cardinality(Requests) \in Nat /\ Allowance \in Nat \ {0}
        BY <3>1, Counted
      <3>3. QED
        <4>1. /\ Cardinality(Held("code", k)) = 0 /\ Cardinality(Held("admin", k)) = 0
              /\ Cardinality(Pending(k)) = 0
          BY <2>1, <2>2
        <4>2. QED
          BY <3>2, <4>1 DEF Together
  <1>3. LimiterInv /\ LimiterInv' /\ AllowanceInv /\ [LimiterNext]_limiterVars => AllowanceInv'
    BY AllowanceStep
  <1>4. QED
    BY <1>1, <1>2, <1>3, LimiterInvHolds, PTL DEF LimiterSpec

-----------------------------------------------------------------------------
(* A full global window.  What blocked() still counts after pruning misses *)
(* no failure of the window, so it finds the window full when it is, and   *)
(* holds a remembered client to the tight allowance.                       *)
LEMMA PassedWithinTight ==
    ASSUME LimiterInv, NEW sc \in Scopes, NEW h \in Hosts,
           ~Blocked(limiter[sc], ClientKey(h)),
           Cardinality(Recent(sc)) >= GlobalLimit,
           Remembered(sc, h)
    PROVE  Cardinality(RecentOf(sc, h)) < TightPerKey
  <1> DEFINE k == ClientKey(h)
             l == Pruned(limiter[sc], k)
  <1>1. k \in Keys
    BY KeyOfHost
  <1>2. l.hits[k] = Held(sc, k) /\ l.all = Prune(limiter[sc].all)
    BY <1>1, PrunedHolds DEF Pruned, LimiterInv, LimiterTypeOK, Limiter
  <1>3. IsFiniteSet(Held(sc, k)) /\ Cardinality(Held(sc, k)) \in Nat
    BY <1>1, Counted
  <1>4. IsFiniteSet(Prune(limiter[sc].all)) /\ Cardinality(Prune(limiter[sc].all)) \in Nat
    <2>1. Prune(limiter[sc].all) \subseteq failures
      BY DEF Prune, LimiterInv, LimiterTypeOK, Limiter
    <2>2. QED
      BY <2>1, FS_Subset, FS_CardinalityType DEF LimiterInv
  <1>5. Recent(sc) \subseteq Prune(limiter[sc].all)
    BY DEF LimiterInv, NoFailureLost, Recent, Prune
  <1>6. Cardinality(l.all) >= GlobalLimit
    <2>1. /\ Cardinality(Recent(sc)) <= Cardinality(Prune(limiter[sc].all))
          /\ Cardinality(Recent(sc)) \in Nat
      BY <1>4, <1>5, FS_Subset, FS_CardinalityType
    <2>2. QED
      BY <1>2, <1>4, <2>1, RateLimitAssumption
  <1>7. RecentOf(sc, h) \subseteq Held(sc, k)
    BY DEF Remembered, RecentOf, Recent, Held, Prune
  <1>8. ~(Cardinality(Held(sc, k)) >= TightPerKey)
    BY <1>2, <1>6 DEF Blocked, Limit
  <1> HIDE DEF k, l
  <1>9. /\ Cardinality(RecentOf(sc, h)) <= Cardinality(Held(sc, k))
        /\ Cardinality(RecentOf(sc, h)) \in Nat
    BY <1>3, <1>7, FS_Subset, FS_CardinalityType
  <1>10. QED
    BY <1>3, <1>8, <1>9, RateLimitAssumption

(* Once everyone's failures fill the global window, a client that failed   *)
(* the tight allowance gets no further lookup and no further guess at the  *)
(* secret, for any number of hosts and requests and whichever keys were    *)
(* evicted meanwhile, but for one whose own key was (rate_limit.py:59).    *)
THEOREM FloodHoldsBack == LimiterSpec => FloodTightens
  <1>1. ASSUME LimiterInv, [LimiterNext]_limiterVars, NEW r \in Requests, request[r] = Idle,
               request'[r] # Idle, request'[r].phase # "refused"
        PROVE  LET q == request'[r]
               IN  \/ Cardinality(Recent(q.scope)) < GlobalLimit
                   \/ Cardinality(RecentOf(q.scope, q.host)) < TightPerKey
                   \/ ~Remembered(q.scope, q.host)
    <2>1. PICK h \in Hosts : LookUp(r, h) \/ Admit(r, h) \/ WrongSecret(r, h)
      BY <1>1 DEF LimiterNext, limiterVars, Refuse, LookUp, Admit, Pass, WrongSecret, Unknown,
                  Known, Leave, Tick, Become, Idle, LimiterInv, LimiterTypeOK
    <2>2. PICK sc \in Scopes : /\ ~Blocked(limiter[sc], ClientKey(h))
                               /\ request'[r].scope = sc /\ request'[r].host = h
      <3>1. ASSUME NEW s \in Scopes, NEW phase, Become(r, phase, s, h)
            PROVE  request'[r].scope = s /\ request'[r].host = h
        BY <1>1, <3>1 DEF Become, LimiterInv, LimiterTypeOK
      <3>2. CASE LookUp(r, h)
        BY <3>1, <3>2 DEF LookUp, Pass, Scopes
      <3>3. CASE Admit(r, h) \/ WrongSecret(r, h)
        BY <3>1, <3>3 DEF Admit, Pass, WrongSecret, Scopes
      <3>4. QED
        BY <2>1, <3>2, <3>3
    <2>3. Cardinality(Recent(sc)) \in Nat
      <3>1. Recent(sc) \in SUBSET failures
        BY DEF Recent
      <3>2. IsFiniteSet(Recent(sc))
        BY <1>1, <3>1, FS_Subset DEF LimiterInv
      <3>3. QED
        BY <3>2, FS_CardinalityType
    <2>4. Cardinality(Recent(sc)) < GlobalLimit \/ Cardinality(Recent(sc)) >= GlobalLimit
      BY <2>3, RateLimitAssumption
    <2>5. \/ Cardinality(Recent(sc)) < GlobalLimit
          \/ Cardinality(RecentOf(sc, h)) < TightPerKey
          \/ ~Remembered(sc, h)
      BY <1>1, <2>2, <2>4, PassedWithinTight
    <2>6. QED
      BY <2>2, <2>5
  <1>2. LimiterInv /\ [LimiterNext]_limiterVars =>
          [\A r \in Requests :
              request[r] = Idle /\ request'[r] # Idle /\ request'[r].phase # "refused"
              => LET q == request'[r]
                 IN  \/ Cardinality(Recent(q.scope)) < GlobalLimit
                     \/ Cardinality(RecentOf(q.scope, q.host)) < TightPerKey
                     \/ ~Remembered(q.scope, q.host)]_limiterVars
    BY <1>1
  <1>3. QED
    BY <1>2, LimiterInvHolds, PTL DEF LimiterSpec, FloodTightens

-----------------------------------------------------------------------------
(* RetryClient.                                                            *)

-----------------------------------------------------------------------------
(* Types.                                                                  *)

\* A refused location is refused in the first round.
FirstRound ==
    \A c \in Calls : pc[c] = "requesting" =>
        /\ turn[c] >= 1
        /\ LocationRefused(c) => turn[c] = 1

LEMMA TypeInit == ClientInit => ClientTypeOK
  <1>1. <<>> \in Seq(Part)
    OBVIOUS
  <1>2. QED
    BY <1>1, RetryAssumption DEF ClientInit, ClientTypeOK, Pc, Ended

LEMMA TypeStep == ClientTypeOK /\ FirstRound /\ [ClientNext]_clientVars => ClientTypeOK'
  <1> SUFFICES ASSUME ClientTypeOK, FirstRound, [ClientNext]_clientVars PROVE ClientTypeOK'
    OBVIOUS
  <1>a. MaxPauseResumes \in Nat /\ MaxPauseResumes >= 1
    BY RetryAssumption
  <1>1. ASSUME NEW c \in Calls, Call(c) PROVE ClientTypeOK'
    BY <1>1 DEF Call, Goto, ClientTypeOK, Pc, counters, inFlight, learned
  <1>2. ASSUME NEW c \in Calls, TakeSlot(c) PROVE ClientTypeOK'
    <2>1. <<>> \in Seq(Part)
      OBVIOUS
    <2>2. QED
      BY <1>2, <1>a, <2>1 DEF TakeSlot, Goto, FreshBlocks, ClientTypeOK, Pc, counters, learned
  <1>3. ASSUME NEW c \in Calls, Answer(c) PROVE ClientTypeOK'
    <2>1. ThisPart(c) \in Part
      BY <1>a DEF ClientTypeOK, ThisPart, Part
    <2>2. Append(blocks[c], ThisPart(c)) \in Seq(Part)
      BY <2>1 DEF ClientTypeOK
    <2>3. QED
      BY <1>3, <2>2 DEF Answer, Goto, ClientTypeOK, Pc, Ended, counters, learned
  <1>4. ASSUME NEW c \in Calls, Resume(c) \/ ReturnPaused(c) PROVE ClientTypeOK'
    <2>1. ThisPart(c) \in Part
      BY <1>a DEF ClientTypeOK, ThisPart, Part
    <2>2. /\ Append(blocks[c], ThisPart(c)) \in Seq(Part)
          /\ Append(messages[c], ThisPart(c)) \in Seq(Part)
      BY <2>1 DEF ClientTypeOK
    <2>3. Paused(c)
      BY <1>4 DEF Resume, ReturnPaused
    <2>4. blocks' \in [Calls -> Seq(Part)] /\ messages' \in [Calls -> Seq(Part)]
      BY <2>2, <2>3 DEF Paused, ClientTypeOK
    <2>5. /\ turn' \in [Calls -> 0..(MaxPauseResumes + 1)]
          /\ sent' \in [Calls -> Nat]
          /\ pc' \in [Calls -> Pc]
      <3>1. CASE Resume(c)
        BY <3>1, <1>a DEF Resume, ClientTypeOK
      <3>2. CASE ReturnPaused(c)
        BY <3>2 DEF ReturnPaused, Goto, ClientTypeOK, Pc, Ended
      <3>3. QED
        BY <1>4, <3>1, <3>2
    <2>6. UNCHANGED <<attempt, rateLimited, forced, located, noForced, noCountry>>
      BY <2>3 DEF Paused, counters, learned
    <2>7. QED
      BY <2>4, <2>5, <2>6 DEF ClientTypeOK
  <1>5. ASSUME NEW c \in Calls, RefuseLocation(c) PROVE ClientTypeOK'
    <2>1. turn' \in [Calls -> 0..(MaxPauseResumes + 1)]
      <3>1. turn[c] = 1
        BY <1>5 DEF RefuseLocation, FirstRound
      <3>2. turn' = [turn EXCEPT ![c] = 2]
        BY <1>5, <3>1 DEF RefuseLocation
      <3>3. 2 \in 0..(MaxPauseResumes + 1)
        BY <1>a
      <3>4. QED
        BY <3>2, <3>3 DEF ClientTypeOK
    <2>2. noCountry' \subseteq Locations \ {Nowhere, Unnamed}
      BY <1>5, RetryAssumption DEF RefuseLocation, LearnLocation, LocationRefused, ClientTypeOK, Locations
    <2>3. /\ located' \in [Calls -> BOOLEAN]
          /\ sent' \in [Calls -> Nat]
      BY <1>5 DEF RefuseLocation, ClientTypeOK
    <2>4. UNCHANGED <<pc, attempt, rateLimited, forced, messages, blocks, noForced>>
      BY <1>5 DEF RefuseLocation, counters
    <2>5. QED
      BY <2>1, <2>2, <2>3, <2>4 DEF ClientTypeOK
  <1>6. ASSUME NEW c \in Calls, RefuseForced(c) PROVE ClientTypeOK'
    <2>1. noForced' \subseteq Models
      BY <1>6 DEF RefuseForced, LearnModel, ClientTypeOK, Models
    <2>2. /\ forced' \in [Calls -> BOOLEAN]
          /\ sent' \in [Calls -> Nat]
      BY <1>6 DEF RefuseForced, ClientTypeOK
    <2>3. UNCHANGED <<pc, attempt, rateLimited, located, turn, messages, blocks, noCountry>>
      BY <1>6 DEF RefuseForced, counters
    <2>4. QED
      BY <2>1, <2>2, <2>3 DEF ClientTypeOK
  <1>7. ASSUME NEW c \in Calls, NEW error \in Errors,
               Raise(c, error) \/ RateLimit(c, error) \/ Retry(c, error)
        PROVE  ClientTypeOK'
    <2>1. UNCHANGED <<forced, located, turn, messages, blocks, noForced, noCountry, sent>>
      BY <1>7 DEF Raise, RateLimit, Retry, inFlight, learned
    <2>2. pc' \in [Calls -> Pc]
      BY <1>7 DEF Raise, RateLimit, Retry, Goto, ClientTypeOK, Pc, Ended
    <2>3. attempt' \in [Calls -> Nat] /\ rateLimited' \in [Calls -> Nat]
      <3>1. CASE Raise(c, error)
        BY <3>1 DEF Raise, ClientTypeOK, counters
      <3>2. CASE RateLimit(c, error)
        BY <3>2 DEF RateLimit, ClientTypeOK
      <3>3. CASE Retry(c, error)
        BY <3>3 DEF Retry, ClientTypeOK
      <3>4. QED
        BY <1>7, <3>1, <3>2, <3>3
    <2>4. QED
      BY <2>1, <2>2, <2>3 DEF ClientTypeOK
  <1>8. ASSUME NEW c \in Calls, Wake(c) \/ Cancel(c) PROVE ClientTypeOK'
    BY <1>8 DEF Wake, Cancel, Goto, ClientTypeOK, Pc, Ended, counters, inFlight, learned
  <1>9. CASE UNCHANGED clientVars
    BY <1>9 DEF clientVars, counters, inFlight, learned, ClientTypeOK
  <1>10. QED
    BY <1>1, <1>2, <1>3, <1>4, <1>5, <1>6, <1>7, <1>8, <1>9 DEF ClientNext, Response

-----------------------------------------------------------------------------
(* What a call has sent.                                                   *)

Rounds == 1 + MaxPauseResumes
Failures(c) == attempt[c] + rateLimited[c]

\* The budget that the attempts before this one have used up.
Before(c) == Failures(c) * Rounds

\* Neither counter has passed its limit while the call goes on.
CountedWell(c) ==
    pc[c] \notin Ended => attempt[c] <= Retries(c) /\ rateLimited[c] <= RateLimitMaxRetries

\* Between two attempts, and in one.
Resting(c) == pc[c] \in {"idle", "waiting", "sleeping"}

SentOnce(c) ==
    /\ Resting(c) => sent[c] <= Failures(c)
    /\ pc[c] = "requesting" => sent[c] <= Failures(c) + 1

\* A forced tool costs one request more, and only before it is known.
SentForced(c) ==
    /\ Resting(c) => sent[c] <= Failures(c) + 1
    /\ Resting(c) /\ Model[c] \notin noForced => sent[c] <= Failures(c)
    /\ pc[c] = "requesting" => sent[c] <= Failures(c) + 2
    /\ pc[c] = "requesting" /\ (forced[c] \/ Model[c] \notin noForced)
          => sent[c] <= Failures(c) + 1

SentSearch(c) ==
    /\ Resting(c) => sent[c] <= Before(c)
    /\ pc[c] = "requesting" => sent[c] <= Before(c) + turn[c]

Sent(c) ==
    /\ Kind[c] \in {"text", "fetch"} => SentOnce(c)
    /\ Kind[c] = "structured" => SentForced(c)
    /\ Kind[c] = "search" => SentSearch(c)

\* A request is forced, or located, only in the functions that do so.
Shape(c) ==
    /\ forced[c] => Kind[c] = "structured"
    /\ located[c] => Kind[c] = "search"

Billed(c) ==
    /\ Kind[c] \in {"text", "fetch"} => sent[c] <= Attempts(c)
    /\ Kind[c] = "structured" => sent[c] <= Attempts(c) + 1
    /\ Kind[c] = "search" => sent[c] <= Attempts(c) * Rounds

Sound(c) == CountedWell(c) /\ Shape(c) /\ Sent(c) /\ Billed(c)

ClientInv ==
    /\ ClientTypeOK
    /\ FirstRound
    /\ \A c \in Calls : Sound(c)

LEMMA RetriesType ==
    ASSUME NEW c \in Calls
    PROVE  /\ Kind[c] \in {"text", "structured", "search", "fetch"}
           /\ Retries(c) \in Nat
  BY RetryAssumption DEF Retries, CallKinds

\* While a call goes on, this attempt is within its budget.
LEMMA WithinBudget ==
    ASSUME ClientInv, NEW c \in Calls, pc[c] \notin Ended
    PROVE  /\ Failures(c) \in Nat /\ Before(c) \in Nat /\ Rounds \in Nat
           /\ Attempts(c) \in Nat /\ Attempts(c) * Rounds \in Nat
           /\ Failures(c) + 1 <= Attempts(c)
           /\ Before(c) + Rounds <= Attempts(c) * Rounds
  <1>1. /\ attempt[c] \in Nat /\ rateLimited[c] \in Nat
        /\ attempt[c] <= Retries(c) /\ rateLimited[c] <= RateLimitMaxRetries
    BY DEF ClientInv, ClientTypeOK, Sound, CountedWell
  <1>2. Failures(c) \in Nat /\ Attempts(c) \in Nat /\ Failures(c) + 1 <= Attempts(c)
    BY <1>1, RetriesType, RetryAssumption DEF Failures, Attempts
  <1>3. Rounds \in Nat
    BY RetryAssumption DEF Rounds
  <1>4. \A m, n, k \in Nat : m + 1 <= n => m * k + k <= n * k
    <2> SUFFICES ASSUME NEW m \in Nat, NEW n \in Nat, NEW k \in Nat, m + 1 <= n
                 PROVE  m * k + k <= n * k
      OBVIOUS
    <2>1. PICK d \in Nat : n = m + 1 + d
      <3>1. n - (m + 1) \in Nat /\ n = m + 1 + (n - (m + 1))
        OBVIOUS
      <3>2. QED
        BY <3>1
    <2>2. n * k = m * k + k + d * k
      BY <2>1
    <2>3. m * k \in Nat /\ d * k \in Nat
      OBVIOUS
    <2>4. QED
      BY <2>2, <2>3
  <1>5. Before(c) + Rounds <= Attempts(c) * Rounds
    BY <1>2, <1>3, <1>4 DEF Before
  <1>6. Before(c) \in Nat /\ Attempts(c) * Rounds \in Nat
    BY <1>2, <1>3 DEF Before
  <1>7. QED
    BY <1>2, <1>3, <1>5, <1>6

LEMMA ClientInvInit == ClientInit => ClientInv
  <1> SUFFICES ASSUME ClientInit PROVE ClientInv
    OBVIOUS
  <1>1. FirstRound
    BY DEF ClientInit, FirstRound
  <1>2. ASSUME NEW c \in Calls PROVE Sound(c)
    <2>1. /\ attempt[c] = 0 /\ rateLimited[c] = 0 /\ sent[c] = 0
          /\ pc[c] = "idle" /\ ~forced[c] /\ ~located[c]
      BY DEF ClientInit
    <2>2. Attempts(c) \in Nat /\ MaxPauseResumes \in Nat
      BY RetriesType, RetryAssumption DEF Attempts
    <2>3. Attempts(c) * (1 + MaxPauseResumes) \in Nat
      BY <2>2
    <2>4. Failures(c) = 0 /\ Before(c) = 0
      BY <2>1, RetryAssumption DEF Failures, Before, Rounds
    <2>5. CountedWell(c) /\ Shape(c)
      BY <2>1, RetriesType, RetryAssumption DEF CountedWell, Shape
    <2>6. Sent(c)
      BY <2>1, <2>4 DEF Sent, SentOnce, SentForced, SentSearch, Resting
    <2>7. Billed(c)
      BY <2>1, <2>2, <2>3 DEF Billed, Rounds
    <2>8. QED
      BY <2>5, <2>6, <2>7 DEF Sound
  <1>3. QED
    BY <1>1, <1>2, TypeInit DEF ClientInv

LEMMA FirstRoundStep == ClientInv /\ [ClientNext]_clientVars => FirstRound'
  <1> SUFFICES ASSUME ClientInv, [ClientNext]_clientVars PROVE FirstRound'
    OBVIOUS
  <1> USE DEF ClientInv, ClientTypeOK, FirstRound, LocationRefused
  <1>a. MaxPauseResumes \in Nat /\ \A c \in Calls : turn[c] \in Int
    BY RetryAssumption
  <1>1. CASE UNCHANGED <<pc, turn, located>>
    BY <1>1
  <1>2. ASSUME NEW d \in Calls, TakeSlot(d) PROVE FirstRound'
    BY <1>2 DEF TakeSlot, Goto
  <1>3. ASSUME NEW d \in Calls, Resume(d) PROVE FirstRound'
    <2>1. /\ turn' = [turn EXCEPT ![d] = turn[d] + 1]
          /\ pc' = pc /\ located' = located /\ ~LocationRefused(d)
      BY <1>3 DEF Resume, Paused, Accepted
    <2>2. pc[d] = "requesting"
      BY <1>3 DEF Resume, Paused
    <2>3. QED
      BY <1>a, <2>1, <2>2
  <1>4. ASSUME NEW d \in Calls, RefuseLocation(d) PROVE FirstRound'
    <2>1. /\ turn' = [turn EXCEPT ![d] = turn[d] + 1]
          /\ pc' = pc /\ located' = [located EXCEPT ![d] = FALSE]
          /\ pc[d] = "requesting"
      BY <1>4 DEF RefuseLocation
    <2>2. QED
      BY <1>a, <2>1
  <1>5. ASSUME NEW d \in Calls, NEW to \in Pc \ {"requesting"}, Goto(d, to),
               UNCHANGED <<turn, located>>
        PROVE  FirstRound'
    BY <1>5 DEF Goto
  <1>6. ASSUME NEW d \in Calls,
               Call(d) \/ Answer(d) \/ ReturnPaused(d) \/ Wake(d) \/ Cancel(d)
        PROVE  FirstRound'
    BY <1>6, <1>5 DEF Call, Answer, ReturnPaused, Paused, Wake, Cancel, inFlight, Pc, Ended
  <1>7. ASSUME NEW d \in Calls, NEW error \in Errors,
               Raise(d, error) \/ RateLimit(d, error) \/ Retry(d, error)
        PROVE  FirstRound'
    BY <1>7 DEF Raise, RateLimit, Retry, Goto, inFlight
  <1>8. ASSUME NEW d \in Calls, RefuseForced(d) PROVE FirstRound'
    BY <1>8, <1>1 DEF RefuseForced
  <1>9. QED
    BY <1>1, <1>2, <1>3, <1>4, <1>6, <1>7, <1>8 DEF ClientNext, Response, clientVars, inFlight

\* A step of another call, which may teach that a model refuses forced tools.
LEMMA SoundFrame ==
    ASSUME ClientInv, NEW d \in Calls,
           pc'[d] = pc[d], attempt'[d] = attempt[d], rateLimited'[d] = rateLimited[d],
           forced'[d] = forced[d], located'[d] = located[d], turn'[d] = turn[d],
           sent'[d] = sent[d], noForced \subseteq noForced'
    PROVE  Sound(d)'
  <1>1. Sound(d)
    BY DEF ClientInv
  <1>2. Failures(d)' = Failures(d) /\ Before(d)' = Before(d) /\ Resting(d)' = Resting(d)
    BY DEF Failures, Before, Resting
  <1>3. CountedWell(d)' /\ Shape(d)' /\ Billed(d)'
    BY <1>1 DEF Sound, CountedWell, Shape, Billed
  <1>4. SentOnce(d) => SentOnce(d)'
    BY <1>2 DEF SentOnce
  <1>5. SentForced(d) => SentForced(d)'
    BY <1>2 DEF SentForced
  <1>6. SentSearch(d) => SentSearch(d)'
    BY <1>2 DEF SentSearch
  <1>7. QED
    BY <1>1, <1>3, <1>4, <1>5, <1>6 DEF Sound, Sent

\* A step of the call itself that sends nothing and does not fail an attempt.
LEMMA SoundQuiet ==
    ASSUME ClientInv, NEW c \in Calls,
           \/ pc'[c] \in Ended
           \/ Resting(c) /\ pc'[c] \in {"waiting", "sleeping"},
           attempt'[c] = attempt[c], rateLimited'[c] = rateLimited[c],
           forced'[c] = forced[c], located'[c] = located[c], sent'[c] = sent[c],
           noForced' = noForced
    PROVE  Sound(c)'
  <1>1. Sound(c)
    BY DEF ClientInv
  <1>2. Failures(c)' = Failures(c) /\ Before(c)' = Before(c)
    BY DEF Failures, Before
  <1>3. pc'[c] # "requesting" /\ (pc'[c] \notin Ended => Resting(c) /\ pc[c] \notin Ended)
    BY DEF Ended, Resting
  <1>4. CountedWell(c)' /\ Shape(c)' /\ Billed(c)'
    BY <1>1, <1>3 DEF Sound, CountedWell, Shape, Billed
  <1>5. Resting(c)' => Resting(c)
    BY <1>3 DEF Resting, Ended
  <1>6. SentOnce(c) => SentOnce(c)'
    BY <1>2, <1>3, <1>5 DEF SentOnce
  <1>7. SentForced(c) => SentForced(c)'
    BY <1>2, <1>3, <1>5 DEF SentForced
  <1>8. SentSearch(c) => SentSearch(c)'
    BY <1>2, <1>3, <1>5 DEF SentSearch
  <1>9. QED
    BY <1>1, <1>4, <1>6, <1>7, <1>8 DEF Sound, Sent

\* An attempt fails.
LEMMA SoundFail ==
    ASSUME ClientInv, NEW c \in Calls, pc[c] = "requesting",
           \/ /\ attempt'[c] = attempt[c] + 1 /\ rateLimited'[c] = rateLimited[c]
              /\ pc'[c] = IF attempt[c] < Retries(c) THEN "sleeping" ELSE "raised"
           \/ /\ attempt'[c] = attempt[c] /\ rateLimited'[c] = rateLimited[c] + 1
              /\ pc'[c] = IF rateLimited[c] < RateLimitMaxRetries THEN "sleeping" ELSE "raised",
           forced'[c] = forced[c], located'[c] = located[c], sent'[c] = sent[c],
           noForced' = noForced
    PROVE  Sound(c)'
  <1>a. pc[c] \notin Ended
    BY DEF Ended
  <1>b. /\ attempt[c] \in Nat /\ rateLimited[c] \in Nat /\ sent[c] \in Nat
        /\ turn[c] \in Int /\ turn[c] <= Rounds
        /\ Retries(c) \in Nat /\ RateLimitMaxRetries \in Nat /\ Rounds \in Nat
    BY RetriesType, RetryAssumption DEF ClientInv, ClientTypeOK, Rounds
  <1>1. Sound(c)
    BY DEF ClientInv
  <1>2. Failures(c)' = Failures(c) + 1 /\ Failures(c) \in Nat
    BY <1>b DEF Failures
  <1>3. Before(c)' = Before(c) + Rounds /\ Before(c) \in Nat
    BY <1>b, <1>2 DEF Before, Rounds
  <1>4. CountedWell(c)'
    BY <1>1, <1>a, <1>b DEF Sound, CountedWell, Ended
  <1>5. Shape(c)' /\ Billed(c)'
    BY <1>1 DEF Sound, Shape, Billed
  <1>6. pc'[c] # "requesting"
    OBVIOUS
  <1>7. SentOnce(c) => SentOnce(c)'
    BY <1>b, <1>2, <1>6 DEF SentOnce
  <1>8. SentForced(c) => SentForced(c)'
    BY <1>b, <1>2, <1>6 DEF SentForced
  <1>9. SentSearch(c) => SentSearch(c)'
    BY <1>b, <1>3, <1>6 DEF SentSearch
  <1>10. QED
    BY <1>1, <1>4, <1>5, <1>7, <1>8, <1>9 DEF Sound, Sent

\* An attempt begins.
LEMMA SoundTake ==
    ASSUME ClientInv, NEW c \in Calls, TakeSlot(c)
    PROVE  Sound(c)'
  <1>1. /\ Sound(c) /\ pc[c] = "waiting"
        /\ pc'[c] = "requesting" /\ turn'[c] = 1 /\ sent'[c] = sent[c] + 1
        /\ attempt' = attempt /\ rateLimited' = rateLimited /\ noForced' = noForced
        /\ forced'[c] <=> Kind[c] = "structured" /\ Model[c] \notin noForced
        /\ located'[c] <=> Location[c] # Nowhere /\ Location[c] \notin noCountry
    BY DEF ClientInv, ClientTypeOK, TakeSlot, Goto, counters, learned
  <1>2. /\ Failures(c) \in Nat /\ Before(c) \in Nat /\ Rounds \in Nat
        /\ Attempts(c) \in Nat /\ Attempts(c) * Rounds \in Nat
        /\ Failures(c) + 1 <= Attempts(c)
        /\ Before(c) + Rounds <= Attempts(c) * Rounds
    BY <1>1, WithinBudget DEF Ended
  <1>3. sent[c] \in Nat /\ Rounds >= 1
    BY RetryAssumption DEF ClientInv, ClientTypeOK, Rounds
  <1>4. Failures(c)' = Failures(c) /\ Before(c)' = Before(c) /\ Resting(c) /\ ~Resting(c)'
    BY <1>1 DEF Failures, Before, Resting
  <1>5. CountedWell(c)'
    BY <1>1 DEF Sound, CountedWell, Ended
  <1>6. Shape(c)'
    BY <1>1, RetryAssumption DEF Shape
  <1>7. SentOnce(c) => SentOnce(c)' /\ sent'[c] <= Attempts(c)
    BY <1>1, <1>2, <1>3, <1>4 DEF SentOnce
  <1>8. SentForced(c) => SentForced(c)' /\ sent'[c] <= Attempts(c) + 1
    BY <1>1, <1>2, <1>3, <1>4 DEF SentForced
  <1>9. SentSearch(c) => SentSearch(c)' /\ sent'[c] <= Attempts(c) * Rounds
    <2> DEFINE budget == Attempts(c) * Rounds
    <2>1. budget \in Nat /\ Before(c) + Rounds <= budget
      BY <1>2
    <2> HIDE DEF budget
    <2>2. SentSearch(c) => SentSearch(c)' /\ sent'[c] <= budget
      BY <1>1, <1>2, <1>3, <1>4, <2>1 DEF SentSearch
    <2>3. QED
      BY <2>2 DEF budget
  <1>10. QED
    BY <1>1, <1>5, <1>6, <1>7, <1>8, <1>9 DEF Sound, Sent, Billed

\* A search goes on to its next round.
LEMMA SoundRound ==
    ASSUME ClientInv, NEW c \in Calls, pc[c] = "requesting", Kind[c] = "search",
           pc' = pc, turn'[c] = turn[c] + 1, turn'[c] <= Rounds, sent'[c] = sent[c] + 1,
           located'[c] => located[c],
           UNCHANGED <<attempt, rateLimited, forced, noForced>>
    PROVE  Sound(c)'
  <1>1. Sound(c) /\ pc[c] \notin Ended
    BY DEF ClientInv, Ended
  <1> DEFINE budget == Attempts(c) * Rounds
  <1>2. /\ Before(c) \in Nat /\ Rounds \in Nat
        /\ budget \in Nat /\ Before(c) + Rounds <= budget
    BY <1>1, WithinBudget
  <1>3. sent[c] \in Nat /\ turn[c] \in Int
    BY RetryAssumption DEF ClientInv, ClientTypeOK
  <1>4. Before(c)' = Before(c) /\ ~Resting(c)'
    BY DEF Before, Failures, Resting
  <1>5. CountedWell(c)' /\ Shape(c)'
    BY <1>1 DEF Sound, CountedWell, Shape
  <1> HIDE DEF budget
  <1>6. SentSearch(c)' /\ sent'[c] <= budget
    BY <1>1, <1>2, <1>3, <1>4 DEF Sound, Sent, SentSearch
  <1>7. QED
    BY <1>5, <1>6 DEF Sound, Sent, Billed, budget

\* A refused tool is asked for again.
LEMMA SoundRefused ==
    ASSUME ClientInv, NEW c \in Calls, RefuseForced(c)
    PROVE  Sound(c)'
  <1>1. /\ Sound(c) /\ pc[c] = "requesting" /\ forced[c] /\ Kind[c] = "structured"
        /\ pc' = pc /\ sent'[c] = sent[c] + 1 /\ ~forced'[c] /\ located' = located
        /\ attempt' = attempt /\ rateLimited' = rateLimited
        /\ Model[c] \in noForced'
    BY DEF ClientInv, ClientTypeOK, Sound, Shape, RefuseForced, ToolRefused, LearnModel, counters
  <1>2. Failures(c) \in Nat /\ Attempts(c) \in Nat /\ Failures(c) + 1 <= Attempts(c)
    BY <1>1, WithinBudget DEF Ended
  <1>3. sent[c] \in Nat
    BY DEF ClientInv, ClientTypeOK
  <1>4. Failures(c)' = Failures(c) /\ ~Resting(c)'
    BY <1>1 DEF Failures, Resting
  <1>5. CountedWell(c)' /\ Shape(c)'
    BY <1>1 DEF Sound, CountedWell, Shape
  <1>6. SentForced(c)' /\ sent'[c] <= Attempts(c) + 1
    BY <1>1, <1>2, <1>3, <1>4 DEF Sound, Sent, SentForced
  <1>7. QED
    BY <1>1, <1>5, <1>6 DEF Sound, Sent, Billed

\* What a call leaves alone of the others.
Others(c) ==
    \A d \in Calls \ {c} :
        /\ pc'[d] = pc[d] /\ attempt'[d] = attempt[d] /\ rateLimited'[d] = rateLimited[d]
        /\ forced'[d] = forced[d] /\ located'[d] = located[d] /\ turn'[d] = turn[d]
        /\ sent'[d] = sent[d]

LEMMA SoundStep == ClientInv /\ [ClientNext]_clientVars => \A d \in Calls : Sound(d)'
  <1> SUFFICES ASSUME ClientInv, [ClientNext]_clientVars, NEW d \in Calls PROVE Sound(d)'
    OBVIOUS
  <1> USE DEF Goto, counters, inFlight, learned
  <1>0. ASSUME NEW c \in Calls, Others(c), noForced \subseteq noForced', Sound(c)'
        PROVE  Sound(d)'
    BY <1>0, SoundFrame DEF Others
  <1>1. ASSUME NEW c \in Calls, Call(c) \/ Wake(c) \/ Cancel(c) PROVE Sound(d)'
    <2>1. Others(c)
      BY <1>1 DEF Call, Wake, Cancel, Others, ClientInv, ClientTypeOK
    <2>2. Sound(c)'
      BY <1>1, SoundQuiet DEF Call, Wake, Cancel, ClientInv, ClientTypeOK, Resting, Ended
    <2>3. noForced' = noForced
      BY <1>1 DEF Call, Wake, Cancel
    <2>4. QED
      BY <1>0, <2>1, <2>2, <2>3
  <1>2. ASSUME NEW c \in Calls, Answer(c) \/ ReturnPaused(c) PROVE Sound(d)'
    <2>1. Others(c)
      BY <1>2 DEF Answer, ReturnPaused, Paused, Others, ClientInv, ClientTypeOK
    <2>2. Sound(c)'
      BY <1>2, SoundQuiet DEF Answer, ReturnPaused, Paused, ClientInv, ClientTypeOK, Ended
    <2>3. noForced' = noForced
      BY <1>2 DEF Answer, ReturnPaused, Paused
    <2>4. QED
      BY <1>0, <2>1, <2>2, <2>3
  <1>3. ASSUME NEW c \in Calls, NEW error \in Errors, Raise(c, error) PROVE Sound(d)'
    <2>1. Others(c)
      BY <1>3 DEF Raise, Others, ClientInv, ClientTypeOK
    <2>2. Sound(c)'
      BY <1>3, SoundQuiet DEF Raise, ClientInv, ClientTypeOK, Ended
    <2>3. QED
      BY <1>0, <1>3, <2>1, <2>2 DEF Raise
  <1>4. ASSUME NEW c \in Calls, NEW error \in Errors, RateLimit(c, error) \/ Retry(c, error)
        PROVE  Sound(d)'
    <2>1. Others(c)
      BY <1>4 DEF RateLimit, Retry, Others, ClientInv, ClientTypeOK
    <2>2. /\ pc[c] = "requesting" /\ noForced' = noForced
          /\ forced'[c] = forced[c] /\ located'[c] = located[c] /\ sent'[c] = sent[c]
      BY <1>4 DEF RateLimit, Retry
    <2>3. \/ /\ attempt'[c] = attempt[c] + 1 /\ rateLimited'[c] = rateLimited[c]
             /\ pc'[c] = IF attempt[c] < Retries(c) THEN "sleeping" ELSE "raised"
          \/ /\ attempt'[c] = attempt[c] /\ rateLimited'[c] = rateLimited[c] + 1
             /\ pc'[c] = IF rateLimited[c] < RateLimitMaxRetries THEN "sleeping" ELSE "raised"
      BY <1>4 DEF RateLimit, Retry, ClientInv, ClientTypeOK
    <2>4. Sound(c)'
      BY <2>2, <2>3, SoundFail
    <2>5. QED
      BY <1>0, <2>1, <2>2, <2>4
  <1>5. ASSUME NEW c \in Calls, TakeSlot(c) PROVE Sound(d)'
    <2>1. Others(c)
      BY <1>5 DEF TakeSlot, Others, ClientInv, ClientTypeOK
    <2>2. QED
      BY <1>0, <1>5, <2>1, SoundTake DEF TakeSlot
  <1>6. ASSUME NEW c \in Calls, Resume(c) \/ RefuseLocation(c) PROVE Sound(d)'
    <2>1. Others(c)
      BY <1>6 DEF Resume, Paused, RefuseLocation, Others, ClientInv, ClientTypeOK
    <2>2. /\ pc[c] = "requesting" /\ pc' = pc /\ Kind[c] = "search"
          /\ turn'[c] = turn[c] + 1 /\ sent'[c] = sent[c] + 1
          /\ located'[c] => located[c]
          /\ UNCHANGED <<attempt, rateLimited, forced, noForced>>
      BY <1>6 DEF Resume, Paused, RefuseLocation, LocationRefused, ClientInv, ClientTypeOK, Sound, Shape
    <2>3. turn'[c] <= Rounds
      <3>1. turn[c] \in Int /\ MaxPauseResumes \in Nat \ {0}
        BY RetryAssumption DEF ClientInv, ClientTypeOK
      <3>2. turn[c] <= MaxPauseResumes
        BY <1>6, <3>1 DEF Resume, RefuseLocation, ClientInv, FirstRound
      <3>3. QED
        BY <2>2, <3>1, <3>2 DEF Rounds
    <2>4. Sound(c)'
      BY <2>2, <2>3, SoundRound
    <2>5. QED
      BY <1>0, <2>1, <2>2, <2>4
  <1>7. ASSUME NEW c \in Calls, RefuseForced(c) PROVE Sound(d)'
    <2>1. Others(c)
      BY <1>7 DEF RefuseForced, Others, ClientInv, ClientTypeOK
    <2>2. noForced \subseteq noForced'
      BY <1>7 DEF RefuseForced, LearnModel
    <2>3. QED
      BY <1>0, <1>7, <2>1, <2>2, SoundRefused
  <1>8. CASE UNCHANGED clientVars
    BY <1>8, SoundFrame DEF clientVars
  <1>9. QED
    BY <1>1, <1>2, <1>3, <1>4, <1>5, <1>6, <1>7, <1>8 DEF ClientNext, Response

LEMMA ClientInvHolds == ClientSpec => []ClientInv
  <1>1. ClientInv /\ [ClientNext]_clientVars => ClientInv'
    BY TypeStep, FirstRoundStep, SoundStep DEF ClientInv
  <1>2. QED
    BY <1>1, ClientInvInit, PTL DEF ClientSpec

(* Every counter stays a count, a search never passes the last round of    *)
(* its loop, and no location without a country is ever remembered          *)
(* (anthropic_client.py:101-140, 226-283).                                 *)
THEOREM ClientTypeCorrect == ClientSpec => []ClientTypeOK
  <1>1. ClientInv => ClientTypeOK
    BY DEF ClientInv
  <1>2. QED
    BY <1>1, ClientInvHolds, PTL

(* Whatever mixture of failures a call meets, and whatever other calls     *)
(* learn meanwhile, the two counters of _with_retry() bound what it bills. *)
THEOREM BillIsBounded == ClientSpec => []RequestsAreBounded
  <1>1. ClientInv => RequestsAreBounded
    <2> SUFFICES ASSUME ClientInv, NEW c \in Calls
                 PROVE  sent[c] <= CASE Kind[c] \in {"text", "fetch"} -> Attempts(c)
                                     [] Kind[c] = "structured" -> Attempts(c) + 1
                                     [] Kind[c] = "search" -> Attempts(c) * (1 + MaxPauseResumes)
      BY DEF RequestsAreBounded
    <2>1. Billed(c)
      BY DEF ClientInv, Sound
    <2>2. CASE Kind[c] \in {"text", "fetch"}
      BY <2>1, <2>2 DEF Billed
    <2>3. CASE Kind[c] = "structured"
      BY <2>1, <2>3 DEF Billed
    <2>4. CASE Kind[c] = "search"
      BY <2>1, <2>4 DEF Billed, Rounds
    <2>5. QED
      BY <2>2, <2>3, <2>4, RetriesType
  <1>2. QED
    BY <1>1, ClientInvHolds, PTL

-----------------------------------------------------------------------------
(* The parts of a search turn.                                             *)

\* The parts kept are of this attempt, one for each round, in order.
Ordered(c) ==
    \A i \in 1..Len(blocks[c]) :
        /\ blocks[c][i][1] = Failures(c)
        /\ i > 1 => blocks[c][i][2] = blocks[c][i - 1][2] + 1

\* The last part kept is that of the round before: a refused location, which
\* takes a round without a part, is refused before there is any.
UpToDate(c) ==
    blocks[c] # <<>> =>
        ~LocationRefused(c) /\ blocks[c][Len(blocks[c])][2] = turn[c] - 1

InTurn(c) ==
    /\ pc[c] = "requesting" => messages[c] = blocks[c] /\ Ordered(c) /\ UpToDate(c)
    /\ pc[c] = "returned" => Ordered(c)

TurnInv == \A c \in Calls : InTurn(c)

\* A part more.
LEMMA OrderedAppend ==
    ASSUME ClientTypeOK, NEW c \in Calls, Ordered(c), UpToDate(c),
           blocks'[c] = Append(blocks[c], ThisPart(c)), Failures(c)' = Failures(c)
    PROVE  /\ Ordered(c)'
           /\ blocks'[c] # <<>>
           /\ blocks'[c][Len(blocks'[c])][2] = turn[c]
  <1> DEFINE b == blocks[c]
             n == Len(b)
  <1>1. /\ b \in Seq(Part) /\ n \in Nat
        /\ turn[c] \in Int
    BY RetryAssumption DEF ClientTypeOK
  <1>2. /\ Len(blocks'[c]) = n + 1
        /\ \A i \in 1..n : blocks'[c][i] = b[i]
        /\ blocks'[c][n + 1] = <<Failures(c), turn[c]>>
    BY <1>1 DEF ThisPart, Failures
  <1>3. ASSUME NEW i \in 1..(n + 1)
        PROVE  /\ blocks'[c][i][1] = Failures(c)
               /\ i > 1 => blocks'[c][i][2] = blocks'[c][i - 1][2] + 1
    <2>1. CASE i \in 1..n
      <3>1. i > 1 => i - 1 \in 1..n
        BY <1>1, <2>1
      <3>2. QED
        BY <1>2, <2>1, <3>1 DEF Ordered
    <2>2. CASE i = n + 1
      <3>1. i > 1 => n \in 1..n /\ b # <<>>
        BY <1>1, <2>2
      <3>2. i > 1 => b[n][2] = turn[c] - 1
        BY <3>1 DEF UpToDate
      <3>3. QED
        BY <1>1, <1>2, <2>2, <3>1, <3>2
    <2>3. QED
      BY <1>1, <2>1, <2>2
  <1>4. Ordered(c)'
    BY <1>2, <1>3 DEF Ordered
  <1>5. blocks'[c] # <<>>
    BY <1>1, <1>2
  <1>6. QED
    BY <1>2, <1>4, <1>5

LEMMA TurnFrame ==
    ASSUME NEW c \in Calls, InTurn(c), pc'[c] = pc[c], Failures(c)' = Failures(c),
           located'[c] = located[c], turn'[c] = turn[c], messages'[c] = messages[c],
           blocks'[c] = blocks[c]
    PROVE  InTurn(c)'
  BY DEF InTurn, Ordered, UpToDate, LocationRefused

LEMMA TurnStep ==
    ASSUME ClientInv, TurnInv, [ClientNext]_clientVars, NEW c \in Calls
    PROVE  InTurn(c)'
  <1>0. ClientTypeOK /\ InTurn(c)
    BY DEF ClientInv, TurnInv
  <1> USE DEF ClientTypeOK, Goto, counters, inFlight, learned
  <1>1. CASE /\ pc'[c] = pc[c] /\ attempt'[c] = attempt[c] /\ rateLimited'[c] = rateLimited[c]
             /\ located'[c] = located[c] /\ turn'[c] = turn[c]
             /\ messages'[c] = messages[c] /\ blocks'[c] = blocks[c]
    BY <1>0, <1>1, TurnFrame DEF Failures
  <1>2. ASSUME pc'[c] \notin {"requesting", "returned"} PROVE InTurn(c)'
    BY <1>2 DEF InTurn
  <1>3. CASE TakeSlot(c)
    <2>1. blocks'[c] = <<>> /\ messages'[c] = <<>> /\ pc'[c] = "requesting"
      BY <1>0, <1>3 DEF TakeSlot, FreshBlocks
    <2>2. QED
      BY <2>1 DEF InTurn, Ordered, UpToDate
  <1>4. CASE Answer(c)
    <2>1. /\ blocks'[c] = Append(blocks[c], ThisPart(c)) /\ Failures(c)' = Failures(c)
          /\ pc[c] = "requesting" /\ pc'[c] = "returned"
      BY <1>0, <1>4 DEF Answer, Failures
    <2>2. Ordered(c)'
      BY <1>0, <2>1, OrderedAppend DEF InTurn
    <2>3. QED
      BY <2>1, <2>2 DEF InTurn
  <1>5. CASE Resume(c) \/ ReturnPaused(c)
    <2>1. /\ blocks'[c] = Append(blocks[c], ThisPart(c))
          /\ messages'[c] = Append(messages[c], ThisPart(c))
          /\ Failures(c)' = Failures(c) /\ located' = located
          /\ pc[c] = "requesting" /\ Accepted(c)
          /\ pc'[c] \in {"requesting", "returned"}
      BY <1>0, <1>5 DEF Resume, ReturnPaused, Paused, Failures
    <2>2. messages[c] = blocks[c] /\ Ordered(c) /\ UpToDate(c)
      BY <1>0, <2>1 DEF InTurn
    <2>3. Ordered(c)' /\ blocks'[c] # <<>> /\ blocks'[c][Len(blocks'[c])][2] = turn[c]
      BY <1>0, <2>1, <2>2, OrderedAppend
    <2>4. ~LocationRefused(c)'
      BY <2>1 DEF Accepted, LocationRefused
    <2>5. CASE pc'[c] = "requesting"
      <3>1. turn'[c] = turn[c] + 1
        BY <1>0, <1>5, <2>5 DEF Resume, ReturnPaused
      <3>2. turn[c] \in Int
        BY <1>0, RetryAssumption
      <3>3. QED
        BY <2>1, <2>2, <2>3, <2>4, <2>5, <3>1, <3>2 DEF InTurn, UpToDate
    <2>6. QED
      BY <2>1, <2>3, <2>5 DEF InTurn
  <1>6. CASE RefuseLocation(c)
    <2>1. /\ pc[c] = "requesting" /\ LocationRefused(c) /\ pc' = pc
          /\ blocks' = blocks /\ messages' = messages /\ Failures(c)' = Failures(c)
      BY <1>6 DEF RefuseLocation, Failures
    <2>2. blocks[c] = <<>> /\ messages[c] = blocks[c]
      BY <1>0, <2>1 DEF InTurn, UpToDate
    <2>3. QED
      BY <2>1, <2>2 DEF InTurn, Ordered, UpToDate
  <1>7. ASSUME ClientNext PROVE InTurn(c)'
    <2>1. PICK d \in Calls : Call(d) \/ TakeSlot(d) \/ Response(d) \/ Wake(d) \/ Cancel(d)
      BY <1>7 DEF ClientNext
    <2>2. CASE d = c
      <3>1. CASE Call(c) \/ Wake(c) \/ Cancel(c)
        BY <1>0, <1>2, <3>1 DEF Call, Wake, Cancel
      <3>2. ASSUME NEW error \in Errors, Raise(c, error) \/ RateLimit(c, error) \/ Retry(c, error)
            PROVE  InTurn(c)'
        BY <1>0, <1>2, <3>2 DEF Raise, RateLimit, Retry
      <3>3. CASE RefuseForced(c)
        BY <1>0, <1>1, <3>3 DEF RefuseForced
      <3>4. QED
        BY <2>1, <2>2, <1>3, <1>4, <1>5, <1>6, <3>1, <3>2, <3>3 DEF Response
    <2>3. CASE d # c
      <3>1. CASE Call(d) \/ TakeSlot(d) \/ Wake(d) \/ Cancel(d)
        BY <1>0, <1>1, <2>3, <3>1 DEF Call, TakeSlot, FreshBlocks, Wake, Cancel
      <3>2. CASE Response(d)
        BY <1>0, <1>1, <2>3, <3>2 DEF Response, Answer, Resume, ReturnPaused, Paused,
            RefuseLocation, RefuseForced, Raise, RateLimit, Retry
      <3>3. QED
        BY <2>1, <3>1, <3>2
    <2>4. QED
      BY <2>2, <2>3
  <1>8. CASE UNCHANGED clientVars
    BY <1>1, <1>8 DEF clientVars
  <1>9. QED
    BY <1>7, <1>8

(* However often a search is paused, refused its location, retried after a *)
(* failure or cancelled, it resumes with exactly the parts it has received *)
(* and returns those of one attempt, once each and in order                *)
(* (anthropic_client.py:242-244, 257-283).                                 *)
THEOREM TurnsAreWhole == ClientSpec => []TurnIsWhole
  <1>1. ClientInit => TurnInv
    BY DEF ClientInit, TurnInv, InTurn
  <1>2. ClientInv /\ TurnInv /\ [ClientNext]_clientVars => TurnInv'
    BY TurnStep DEF TurnInv
  <1>3. TurnInv => TurnIsWhole
    BY DEF TurnInv, InTurn, Ordered, TurnIsWhole, Failures
  <1>4. QED
    BY <1>1, <1>2, <1>3, ClientInvHolds, PTL DEF ClientSpec
=============================================================================
