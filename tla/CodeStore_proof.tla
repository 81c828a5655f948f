-------------------------- MODULE CodeStore_proof --------------------------
(***************************************************************************)
(* Proofs about CodeStore, for any number of processes, codes, jobs, calls *)
(* and crashes: its type invariant, and that no code ever pays for more    *)
(* analyses than it was minted with.  Then what it never takes back (a     *)
(* settled outcome, a revocation, the uses a code was minted with); that   *)
(* an accepted redemption stays on disk; that the generation calls of a    *)
(* code stay within its allowances; and that one process loses no use and  *)
(* refunds no delivered result until it crashes.  Last, the migration that *)
(* precedes it all.                                                        *)
(***************************************************************************)
EXTENDS CodeStore, OutcomeMigration, FiniteSetTheorems, TLAPS

-----------------------------------------------------------------------------
(* The statements keep a database a database.                              *)

LEMMA StatementsType ==
    ASSUME NEW db \in Database, NEW c \in Codes, NEW j \in Jobs
    PROVE  /\ Redeemable(db, c) => SpendUse(db, c) \in Database
           /\ InsertRedemption(db, j) \in Database
           /\ \A o \in Outcome : SetOutcome(db, j, o) \in Database
           /\ GiveUseBack(db, j) \in Database
           /\ CountCall(db, c) \in Database
           /\ \A uses \in Nat : MintCode(db, c, uses) \in Database
           /\ RevokeCode(db, c) \in Database
  <1> USE DEF Database
  <1>1. Redeemable(db, c) => SpendUse(db, c) \in Database
    <2>1. SUFFICES ASSUME Redeemable(db, c) PROVE SpendUse(db, c) \in Database
      OBVIOUS
    <2>2. [db.remaining EXCEPT ![c] = db.remaining[c] - 1] \in [Codes -> Nat]
      BY <2>1 DEF Redeemable
    <2>3. [db.calls EXCEPT ![c] = 0] \in [Codes -> Nat]
      OBVIOUS
    <2>4. QED
      BY <2>2, <2>3 DEF SpendUse
  <1>2. InsertRedemption(db, j) \in Database
    BY DEF InsertRedemption, Outcome
  <1>3. \A o \in Outcome : SetOutcome(db, j, o) \in Database
    BY DEF SetOutcome
  <1>4. GiveUseBack(db, j) \in Database
    BY CodeStoreAssumption DEF GiveUseBack
  <1>5. CountCall(db, c) \in Database
    BY DEF CountCall
  <1>6. \A uses \in Nat : MintCode(db, c, uses) \in Database
    BY DEF MintCode
  <1>7. RevokeCode(db, c) \in Database
    BY DEF RevokeCode
  <1>8. QED
    BY <1>1, <1>2, <1>3, <1>4, <1>5, <1>6, <1>7

\* Every step leaves the storage alone or is one operation on one connection.
StorageStep ==
    \/ UNCHANGED storage
    \/ \E p \in Procs : \/ \E db \in Database : Write(p, db)
                        \/ WriteFails(p) \/ Read(p) \/ Commit(p) \/ Disconnect(p)

LEMMA NextIsStorageStep == TypeOK /\ [Next]_vars => StorageStep
  <1> SUFFICES ASSUME TypeOK, [Next]_vars PROVE StorageStep
    OBVIOUS
  <1> USE CodeStoreAssumption
  <1>0. view \in [Procs -> Database]
    BY DEF TypeOK, ConnTypeOK
  <1>1. ASSUME NEW j \in Jobs, JobNext(j) PROVE StorageStep
    <2>0. Home[j] \in Procs /\ CodeOf[j] \in Codes /\ view[Home[j]] \in Database
      BY <1>0
    <2>1. CASE RedeemUpdate(j)
      BY <2>0, <2>1, StatementsType DEF RedeemUpdate, StorageStep
    <2>2. CASE RedeemInsert(j)
      BY <2>0, <2>2, StatementsType DEF RedeemInsert, StorageStep
    <2>3. CASE FinishUpdate(j)
      BY <2>0, <2>3, StatementsType DEF FinishUpdate, StorageStep, Outcome
    <2>4. CASE RefundMark(j)
      BY <2>0, <2>4, StatementsType DEF RefundMark, StorageStep, Outcome
    <2>5. CASE RefundGive(j)
      BY <2>0, <2>5, StatementsType DEF RefundGive, StorageStep
    <2>6. CASE RedeemRefuse(j) \/ RedeemCommit(j) \/ FinishCommit(j) \/ RefundCommit(j)
      BY <2>0, <2>6 DEF RedeemRefuse, RedeemCommit, FinishCommit, RefundCommit, StorageStep
    <2>7. CASE Deliver(j) \/ Fail(j)
      BY <2>7 DEF Deliver, Fail, StorageStep
    <2>8. CASE JobStatementFails(j)
      BY <2>0, <2>8 DEF JobStatementFails, StorageStep
    <2>9. QED
      BY <1>1, <2>1, <2>2, <2>3, <2>4, <2>5, <2>6, <2>7, <2>8 DEF JobNext
  <1>2. ASSUME NEW j \in Jobs, Age(j) PROVE StorageStep
    BY <1>2 DEF Age, StorageStep
  <1>3. ASSUME NEW k \in Calls, CallNext(k) PROVE StorageStep
    <2>0. Home[k] \in Procs /\ CodeOf[k] \in Codes /\ view[Home[k]] \in Database
      BY <1>0
    <2>1. CASE RegisterUpdate(k)
      <3>1. CountCall(view[Home[k]], CodeOf[k]) \in Database
        BY <2>0 DEF CountCall, Database
      <3>2. QED
        BY <2>0, <2>1, <3>1 DEF RegisterUpdate, StorageStep
    <2>2. CASE RegisterSelect(k) \/ RegisterCommit(k) \/ CallStatementFails(k)
      BY <2>0, <2>2 DEF RegisterSelect, RegisterCommit, CallStatementFails, StorageStep
    <2>3. QED
      BY <1>3, <2>1, <2>2 DEF CallNext
  <1>4. ASSUME NEW p \in Procs, SweepNext(p) PROVE StorageStep
    <2>1. CASE SweepSelect(p) \/ SweepCommit(p) \/ SweepStatementFails(p)
      BY <2>1 DEF SweepSelect, SweepCommit, SweepStatementFails, StorageStep
    <2>2. ASSUME NEW j \in Jobs, SweepMark(p, j) \/ SweepGive(p, j) PROVE StorageStep
      BY <1>0, <2>2, StatementsType DEF SweepMark, SweepGive, StorageStep, Outcome
    <2>3. QED
      BY <1>4, <2>1, <2>2 DEF SweepNext
  <1>5. ASSUME NEW p \in Procs, AdminNext(p) PROVE StorageStep
    <2>1. ASSUME NEW c \in Codes, NEW uses \in 1..MaxUses, MintInsert(p, c, uses)
          PROVE  StorageStep
      <3>1. view[p] \in Database /\ uses \in Nat
        BY <1>0
      <3>2. MintCode(view[p], c, uses) \in Database
        BY <3>1 DEF MintCode, Database
      <3>3. QED
        BY <2>1, <3>2 DEF MintInsert, StorageStep
    <2>2. ASSUME NEW c \in Codes, RevokeUpdate(p, c) PROVE StorageStep
      <3>1. RevokeCode(view[p], c) \in Database
        BY <1>0 DEF RevokeCode, Database
      <3>2. QED
        BY <2>2, <3>1 DEF RevokeUpdate, StorageStep
    <2>3. CASE AdminCommit(p) \/ AdminStatementFails(p) \/ StatusSelect(p)
      BY <2>3 DEF AdminCommit, AdminStatementFails, StatusSelect, StorageStep
    <2>4. QED
      BY <1>5, <2>1, <2>2, <2>3 DEF AdminNext
  <1>6. ASSUME NEW p \in Procs, Crash(p) PROVE StorageStep
    BY <1>6 DEF Crash, StorageStep
  <1>7. CASE UNCHANGED vars
    BY <1>7 DEF vars, StorageStep
  <1>8. QED
    BY <1>1, <1>2, <1>3, <1>4, <1>5, <1>6, <1>7 DEF Next

LEMMA StorageStepKeeps ==
    ConnTypeOK(Database) /\ ConnInv /\ StorageStep => ConnTypeOK(Database)' /\ ConnInv'
  <1> SUFFICES ASSUME ConnTypeOK(Database), ConnInv, StorageStep
               PROVE  ConnTypeOK(Database)' /\ ConnInv'
    OBVIOUS
  <1> USE DEF ConnTypeOK, ConnInv, ConnStates
  <1>1. CASE UNCHANGED storage
    BY <1>1 DEF storage
  <1>2. ASSUME NEW p \in Procs, NEW db \in Database, Write(p, db)
        PROVE  ConnTypeOK(Database)' /\ ConnInv'
    BY <1>2 DEF Write, CanWrite
  <1>3. ASSUME NEW p \in Procs, WriteFails(p) \/ Read(p)
        PROVE  ConnTypeOK(Database)' /\ ConnInv'
    BY <1>3 DEF WriteFails, CanWrite, Read
  <1>4. ASSUME NEW p \in Procs, Commit(p)
        PROVE  ConnTypeOK(Database)' /\ ConnInv'
    BY <1>4 DEF Commit
  <1>5. ASSUME NEW p \in Procs, Disconnect(p)
        PROVE  ConnTypeOK(Database)' /\ ConnInv'
    BY <1>5 DEF Disconnect
  <1>6. QED
    BY <1>1, <1>2, <1>3, <1>4, <1>5 DEF StorageStep

TasksTypeOK ==
    /\ job \in [Jobs -> JobStep]
    /\ call \in [Calls -> CallStep]
    /\ old \in SUBSET Jobs
    /\ sweep \in [Procs -> {"idle", "giving", "closing"}]
    /\ todo \in [Procs -> SUBSET Jobs]
    /\ current \in [Procs -> SUBSET Jobs]
    /\ admin \in [Procs -> {"idle", "committing"}]
    /\ crashes \in 0..MaxCrashes

LEMMA TasksTypeKept == TasksTypeOK /\ [Next]_vars => TasksTypeOK'
  <1> SUFFICES ASSUME TasksTypeOK, [Next]_vars PROVE TasksTypeOK'
    OBVIOUS
  <1> USE DEF TasksTypeOK, JobStep, CallStep
  <1>1. ASSUME NEW j \in Jobs, JobNext(j) PROVE TasksTypeOK'
    BY <1>1 DEF JobNext, MoveJob, RedeemUpdate, RedeemRefuse, RedeemInsert, RedeemCommit,
                Deliver, Fail, FinishUpdate, FinishCommit, RefundMark, RefundGive,
                RefundCommit, JobStatementFails
  <1>2. ASSUME NEW j \in Jobs, Age(j) PROVE TasksTypeOK'
    BY <1>2 DEF Age
  <1>3. ASSUME NEW k \in Calls, CallNext(k) PROVE TasksTypeOK'
    BY <1>3 DEF CallNext, MoveCall, RegisterSelect, RegisterUpdate, RegisterCommit,
                CallStatementFails
  <1>4. ASSUME NEW p \in Procs, SweepNext(p) PROVE TasksTypeOK'
    BY <1>4 DEF SweepNext, SweepSelect, SweepMark, SweepGive, SweepCommit,
                SweepStatementFails, StaleRows
  <1>5. ASSUME NEW p \in Procs, AdminNext(p) PROVE TasksTypeOK'
    BY <1>5 DEF AdminNext, MoveAdmin, MintInsert, RevokeUpdate, AdminCommit,
                AdminStatementFails, StatusSelect, tasks
  <1>6. ASSUME NEW p \in Procs, Crash(p) PROVE TasksTypeOK'
    <2>1. crashes' \in 0..MaxCrashes
      BY <1>6, CodeStoreAssumption DEF Crash
    <2>2. \A s \in JobStep : AfterCrash(s) \in JobStep
      BY DEF AfterCrash
    <2>3. QED
      BY <1>6, <2>1, <2>2 DEF Crash
  <1>7. CASE UNCHANGED vars
    BY <1>7 DEF vars, tasks
  <1>8. QED
    BY <1>1, <1>2, <1>3, <1>4, <1>5, <1>6, <1>7 DEF Next

LEMMA InitType == Init => TypeOK /\ ConnInv
  <1> SUFFICES ASSUME Init PROVE TypeOK /\ ConnInv
    OBVIOUS
  <1> USE DEF Init, ConnInit
  <1>1. EmptyDatabase \in Database
    BY DEF EmptyDatabase, Database, Outcome
  <1>2. ConnTypeOK(Database) /\ ConnInv
    BY <1>1 DEF ConnTypeOK, ConnStates, ConnInv
  <1>3. TypeOK
    BY <1>2, CodeStoreAssumption DEF TypeOK, JobStep, CallStep
  <1>4. QED
    BY <1>2, <1>3

LEMMA TypeKept == TypeOK /\ ConnInv /\ [Next]_vars => TypeOK' /\ ConnInv'
  <1>1. TypeOK <=> ConnTypeOK(Database) /\ TasksTypeOK
    BY DEF TypeOK, TasksTypeOK
  <1>2. TypeOK' <=> ConnTypeOK(Database)' /\ TasksTypeOK'
    BY DEF TypeOK, TasksTypeOK
  <1>3. QED
    BY <1>1, <1>2, NextIsStorageStep, StorageStepKeeps, TasksTypeKept

\* Every variable keeps its type; in particular no column is ever negative,
\* whoever updates it.
THEOREM TypeCorrect == Spec => []TypeOK
  <1>1. TypeOK /\ ConnInv /\ UNCHANGED vars => TypeOK' /\ ConnInv'
    BY TypeKept
  <1>2. QED
    BY InitType, TypeKept, PTL DEF Spec

-----------------------------------------------------------------------------
(* What each statement does to the uses that are taken.                    *)

LEMMA HeldFinite ==
    ASSUME NEW pending, NEW db, NEW c
    PROVE  IsFiniteSet(Held(pending, db, c)) /\ Cardinality(Held(pending, db, c)) \in Nat
  <1>1. Held(pending, db, c) \subseteq Jobs
    BY DEF Held
  <1>2. QED
    BY <1>1, CodeStoreAssumption, FS_Subset, FS_CardinalityType

\* Fewer tasks in flight take fewer uses.
LEMMA SoundShrinks ==
    ASSUME NEW new, NEW ins, NEW giv, NEW db \in Database, Sound(new, ins, giv, db),
           NEW new2 \in SUBSET new, NEW ins2 \in SUBSET ins, NEW giv2 \in SUBSET giv
    PROVE  Sound(new2, ins2, giv2, db)
  <1>1. ASSUME NEW c \in Codes
        PROVE  db.remaining[c] + Cardinality(Held(ins2 \cup giv2, db, c)) <= db.total[c]
    <2>1. Held(ins2 \cup giv2, db, c) \subseteq Held(ins \cup giv, db, c)
      BY DEF Held
    <2>2. Cardinality(Held(ins2 \cup giv2, db, c)) <= Cardinality(Held(ins \cup giv, db, c))
      BY <2>1, HeldFinite, FS_Subset
    <2>3. db.remaining[c] \in Nat /\ db.total[c] \in Nat
      BY DEF Database
    <2>4. db.remaining[c] + Cardinality(Held(ins \cup giv, db, c)) <= db.total[c]
      BY DEF Sound
    <2>5. QED
      BY <2>2, <2>3, <2>4, HeldFinite
  <1>2. QED
    BY <1>1 DEF Sound

\* A statement that leaves the columns of the uses alone.
LEMMA SoundSameUses ==
    ASSUME NEW new, NEW ins, NEW giv, NEW db, NEW db2, Sound(new, ins, giv, db),
           db2.remaining = db.remaining, db2.total = db.total, db2.outcome = db.outcome
    PROVE  Sound(new, ins, giv, db2)
  <1>1. \A c : Held(ins \cup giv, db2, c) = Held(ins \cup giv, db, c)
    BY DEF Held
  <1>2. QED
    BY <1>1 DEF Sound

\* The UPDATE of redeem(): one use less remains, one job more holds a use.
LEMMA SoundSpend ==
    ASSUME NEW new \in SUBSET Jobs, NEW ins \in SUBSET Jobs, NEW giv \in SUBSET Jobs,
           NEW db \in Database, Sound(new, ins, giv, db),
           NEW j \in new, j \notin ins, Redeemable(db, CodeOf[j])
    PROVE  Sound(new \ {j}, ins \cup {j}, giv, SpendUse(db, CodeOf[j]))
  <1> DEFINE db2 == SpendUse(db, CodeOf[j])
             ins2 == ins \cup {j}
  <1>0. j \in Jobs /\ CodeOf[j] \in Codes
    BY CodeStoreAssumption
  <1>1. /\ db2.outcome = db.outcome
        /\ db2.total = db.total
        /\ db2.remaining = [db.remaining EXCEPT ![CodeOf[j]] = @ - 1]
    BY DEF SpendUse, Database
  <1>2. db.outcome[j] = "absent" /\ j \notin giv
    BY DEF Sound
  <1>3. ASSUME NEW c \in Codes
        PROVE  db2.remaining[c] + Cardinality(Held(ins2 \cup giv, db2, c)) <= db2.total[c]
    <2>1. db.remaining[c] + Cardinality(Held(ins \cup giv, db, c)) <= db.total[c]
      BY DEF Sound
    <2>2. db.remaining[c] \in Nat /\ db.total[c] \in Nat
      BY DEF Database
    <2>3. CASE c = CodeOf[j]
      <3>1. Held(ins2 \cup giv, db2, c) = Held(ins \cup giv, db, c) \cup {j}
        BY <1>0, <1>1, <2>3 DEF Held
      <3>2. j \notin Held(ins \cup giv, db, c)
        BY <1>2 DEF Held
      <3>3. Cardinality(Held(ins2 \cup giv, db2, c)) = Cardinality(Held(ins \cup giv, db, c)) + 1
        BY <3>1, <3>2, HeldFinite, FS_AddElement
      <3>4. db2.remaining[c] = db.remaining[c] - 1
        BY <1>1, <2>3 DEF Database
      <3>5. QED
        BY <1>1, <2>1, <2>2, <3>3, <3>4, HeldFinite
    <2>4. CASE c # CodeOf[j]
      <3>1. Held(ins2 \cup giv, db2, c) = Held(ins \cup giv, db, c)
        BY <1>1, <2>4 DEF Held
      <3>2. db2.remaining[c] = db.remaining[c]
        BY <1>1, <2>4 DEF Database
      <3>3. QED
        BY <1>1, <2>1, <3>1, <3>2
    <2>5. QED
      BY <2>3, <2>4
  <1>4. \A i \in (new \ {j}) \cup ins2 : db2.outcome[i] = "absent"
    BY <1>1, <1>2 DEF Sound
  <1>5. \A i \in giv : db2.outcome[i] = "refunded"
    BY <1>1 DEF Sound
  <1>6. QED
    BY <1>3, <1>4, <1>5 DEF Sound

\* The INSERT of redeem(): the row holds the use that the job in flight held.
LEMMA SoundInsert ==
    ASSUME NEW new \in SUBSET Jobs, NEW ins \in SUBSET Jobs, NEW giv \in SUBSET Jobs,
           NEW db \in Database, Sound(new, ins, giv, db), NEW j \in ins, j \notin new
    PROVE  Sound(new, ins \ {j}, giv, InsertRedemption(db, j))
  <1> DEFINE db2 == InsertRedemption(db, j)
  <1>1. /\ db2.outcome = [db.outcome EXCEPT ![j] = "open"]
        /\ db2.total = db.total
        /\ db2.remaining = db.remaining
    BY DEF InsertRedemption, Database
  <1>2. db.outcome[j] = "absent" /\ j \notin giv
    BY DEF Sound
  <1>3. \A i \in Jobs : db2.outcome[i] = IF i = j THEN "open" ELSE db.outcome[i]
    BY <1>1 DEF Database
  <1>4. \A c : Held((ins \ {j}) \cup giv, db2, c) = Held(ins \cup giv, db, c)
    BY <1>3 DEF Held
  <1>5. QED
    BY <1>1, <1>2, <1>3, <1>4 DEF Sound

\* finish(): a row that was open still holds its use.
LEMMA SoundFinish ==
    ASSUME NEW new \in SUBSET Jobs, NEW ins \in SUBSET Jobs, NEW giv \in SUBSET Jobs,
           NEW db \in Database, Sound(new, ins, giv, db), NEW j \in Jobs
    PROVE  Sound(new, ins, giv, SetOutcome(db, j, "complete"))
  <1> DEFINE db2 == SetOutcome(db, j, "complete")
  <1>1. /\ db2.outcome = [db.outcome EXCEPT ![j] = IF @ = "open" THEN "complete" ELSE @]
        /\ db2.total = db.total
        /\ db2.remaining = db.remaining
    BY DEF SetOutcome, Database
  <1>2. \A i \in Jobs : db2.outcome[i] =
            IF i = j /\ db.outcome[i] = "open" THEN "complete" ELSE db.outcome[i]
    BY <1>1 DEF Database
  <1>3. \A c : Held(ins \cup giv, db2, c) = Held(ins \cup giv, db, c)
    BY <1>2 DEF Held
  <1>4. QED
    BY <1>1, <1>2, <1>3 DEF Sound

\* The first UPDATE of refund(): the task takes over the use of an open row;
\* a row that is not open is left alone.
LEMMA SoundMark ==
    ASSUME NEW new \in SUBSET Jobs, NEW ins \in SUBSET Jobs, NEW giv \in SUBSET Jobs,
           NEW db \in Database, Sound(new, ins, giv, db), NEW j \in Jobs
    PROVE  /\ db.outcome[j] = "open" =>
                Sound(new, ins, giv \cup {j}, SetOutcome(db, j, "refunded"))
           /\ db.outcome[j] # "open" =>
                Sound(new, ins, giv, SetOutcome(db, j, "refunded"))
  <1> DEFINE db2 == SetOutcome(db, j, "refunded")
  <1>1. /\ db2.outcome = [db.outcome EXCEPT ![j] = IF @ = "open" THEN "refunded" ELSE @]
        /\ db2.total = db.total
        /\ db2.remaining = db.remaining
    BY DEF SetOutcome, Database
  <1>2. \A i \in Jobs : db2.outcome[i] =
            IF i = j /\ db.outcome[i] = "open" THEN "refunded" ELSE db.outcome[i]
    BY <1>1 DEF Database
  <1>3. CASE db.outcome[j] = "open"
    <2>1. \A c : Held(ins \cup (giv \cup {j}), db2, c) = Held(ins \cup giv, db, c)
      BY <1>2, <1>3 DEF Held
    <2>2. j \notin new \cup ins
      BY <1>3 DEF Sound
    <2>3. \A i \in new \cup ins : db2.outcome[i] = "absent"
      BY <1>2, <2>2 DEF Sound
    <2>4. \A i \in giv \cup {j} : db2.outcome[i] = "refunded"
      BY <1>2, <1>3 DEF Sound
    <2>5. \A c \in Codes :
            db2.remaining[c] + Cardinality(Held(ins \cup (giv \cup {j}), db2, c)) <= db2.total[c]
      BY <1>1, <2>1 DEF Sound
    <2>6. QED
      BY <1>3, <2>3, <2>4, <2>5 DEF Sound
  <1>4. CASE db.outcome[j] # "open"
    <2>1. \A c : Held(ins \cup giv, db2, c) = Held(ins \cup giv, db, c)
      BY <1>2, <1>4 DEF Held
    <2>2. QED
      BY <1>1, <1>2, <1>4, <2>1 DEF Sound
  <1>5. QED
    BY <1>3, <1>4

\* The second UPDATE of refund(): the use the task held is back.
LEMMA SoundGive ==
    ASSUME NEW new \in SUBSET Jobs, NEW ins \in SUBSET Jobs, NEW giv \in SUBSET Jobs,
           NEW db \in Database, Sound(new, ins, giv, db), NEW j \in giv
    PROVE  Sound(new, ins, giv \ {j}, GiveUseBack(db, j))
  <1> DEFINE db2 == GiveUseBack(db, j)
             giv2 == giv \ {j}
  <1>0. CodeOf[j] \in Codes
    BY CodeStoreAssumption
  <1>1. /\ db2.outcome = db.outcome
        /\ db2.total = db.total
        /\ db2.remaining = [db.remaining EXCEPT ![CodeOf[j]] = @ + 1]
    BY DEF GiveUseBack, Database
  <1>2. db.outcome[j] = "refunded" /\ j \notin ins
    BY DEF Sound
  <1>3. ASSUME NEW c \in Codes
        PROVE  db2.remaining[c] + Cardinality(Held(ins \cup giv2, db2, c)) <= db2.total[c]
    <2>1. db.remaining[c] + Cardinality(Held(ins \cup giv, db, c)) <= db.total[c]
      BY DEF Sound
    <2>2. db.remaining[c] \in Nat /\ db.total[c] \in Nat
      BY DEF Database
    <2>3. CASE c = CodeOf[j]
      <3>1. Held(ins \cup giv2, db2, c) = Held(ins \cup giv, db, c) \ {j}
        BY <1>1, <1>2 DEF Held
      <3>2. j \in Held(ins \cup giv, db, c)
        BY <2>3 DEF Held
      <3>3. Cardinality(Held(ins \cup giv2, db2, c)) = Cardinality(Held(ins \cup giv, db, c)) - 1
        <4> DEFINE H == Held(ins \cup giv, db, c)
        <4>1. IsFiniteSet(H)
          BY HeldFinite
        <4> HIDE DEF H
        <4>2. Cardinality(H \ {j}) = IF j \in H THEN Cardinality(H) - 1 ELSE Cardinality(H)
          BY <4>1, FS_RemoveElement
        <4> USE DEF H
        <4>3. QED
          BY <3>1, <3>2, <4>2
      <3>4. db2.remaining[c] = db.remaining[c] + 1
        BY <1>1, <2>3 DEF Database
      <3>5. QED
        BY <1>1, <2>1, <2>2, <3>3, <3>4, HeldFinite
    <2>4. CASE c # CodeOf[j]
      <3>1. Held(ins \cup giv2, db2, c) = Held(ins \cup giv, db, c)
        BY <1>1, <2>4 DEF Held
      <3>2. db2.remaining[c] = db.remaining[c]
        BY <1>1, <2>4 DEF Database
      <3>3. QED
        BY <1>1, <2>1, <3>1, <3>2
    <2>5. QED
      BY <2>3, <2>4
  <1>4. /\ \A i \in new \cup ins : db2.outcome[i] = "absent"
        /\ \A i \in giv2 : db2.outcome[i] = "refunded"
    BY <1>1 DEF Sound
  <1>5. QED
    BY <1>3, <1>4 DEF Sound

\* mint(): a code without a row has nothing taken.
LEMMA SoundMint ==
    ASSUME NEW new \in SUBSET Jobs, NEW ins \in SUBSET Jobs, NEW giv \in SUBSET Jobs,
           NEW db \in Database, Sound(new, ins, giv, db),
           NEW c \in Codes, db.total[c] = 0, NEW uses \in Nat
    PROVE  Sound(new, ins, giv, MintCode(db, c, uses))
  <1> DEFINE db2 == MintCode(db, c, uses)
  <1>1. /\ db2.outcome = db.outcome
        /\ db2.total = [db.total EXCEPT ![c] = uses]
        /\ db2.remaining = [db.remaining EXCEPT ![c] = uses]
    BY DEF MintCode, Database
  <1>2. \A d : Held(ins \cup giv, db2, d) = Held(ins \cup giv, db, d)
    BY <1>1 DEF Held
  <1>3. ASSUME NEW d \in Codes
        PROVE  db2.remaining[d] + Cardinality(Held(ins \cup giv, db2, d)) <= db2.total[d]
    <2>1. db.remaining[d] + Cardinality(Held(ins \cup giv, db, d)) <= db.total[d]
      BY DEF Sound
    <2>2. db.remaining[d] \in Nat
      BY DEF Database
    <2>3. CASE d = c
      <3>1. Cardinality(Held(ins \cup giv, db, d)) = 0
        BY <2>1, <2>2, <2>3, HeldFinite
      <3>2. db2.remaining[d] = uses /\ db2.total[d] = uses
        BY <1>1, <2>3 DEF Database
      <3>3. QED
        BY <1>2, <3>1, <3>2
    <2>4. CASE d # c
      BY <1>1, <1>2, <2>1, <2>4 DEF Database
    <2>5. QED
      BY <2>3, <2>4
  <1>4. QED
    BY <1>1, <1>3 DEF Sound

-----------------------------------------------------------------------------
(* What each operation on a connection does to StorageSound, given what    *)
(* the step does to the tasks in flight.                                   *)

\* No task of P comes between two statements by this step.
NoneBegins(P) ==
    /\ Unposted' \subseteq Unposted
    /\ Inserting(P)' \subseteq Inserting(P)
    /\ Giving(P)' \subseteq Giving(P)

LEMMA WriterSees ==
    ASSUME IInv, NEW p \in Procs, CanWrite(p)
    PROVE  /\ view[p] \in Database /\ disk \in Database
           /\ SoundFor(Procs, view[p])
           /\ SoundFor(Procs \ {p}, disk)
  <1>1. view[p] \in Database /\ disk \in Database
    BY DEF IInv, TypeOK, ConnTypeOK
  <1>2. CASE conn[p] = "writing"
    BY <1>1, <1>2 DEF IInv, StorageSound
  <1>3. CASE conn[p] # "writing"
    <2>1. view[p] = disk
      BY <1>3 DEF CanWrite, IInv, ConnInv
    <2>2. SoundFor(Procs, disk)
      BY <1>3 DEF CanWrite, IInv, StorageSound
    <2>3. /\ Inserting(Procs \ {p}) \subseteq Inserting(Procs)
          /\ Giving(Procs \ {p}) \subseteq Giving(Procs)
      BY DEF Inserting, Giving
    <2>4. SoundFor(Procs \ {p}, disk)
      BY <1>1, <2>2, <2>3, SoundShrinks DEF SoundFor
    <2>5. QED
      BY <1>1, <2>1, <2>2, <2>4
  <1>4. QED
    BY <1>2, <1>3

LEMMA AfterWrite ==
    ASSUME IInv, ConnInv', NEW p \in Procs, NEW db \in Database, Write(p, db),
           Sound(Unposted', Inserting(Procs)', Giving(Procs)', db),
           NoneBegins(Procs \ {p})
    PROVE  StorageSound'
  <1>1. /\ view' = [view EXCEPT ![p] = db]
        /\ conn' = [conn EXCEPT ![p] = "writing"]
        /\ disk' = disk
        /\ CanWrite(p)
    BY DEF Write
  <1>2. conn \in [Procs -> ConnStates] /\ view \in [Procs -> Database]
    BY DEF IInv, TypeOK, ConnTypeOK
  <1>3. SoundFor(Procs \ {p}, disk)' 
    BY <1>1, WriterSees, SoundShrinks DEF SoundFor, NoneBegins
  <1>4. conn'[p] = "writing" /\ view'[p] = db
    BY <1>1, <1>2
  <1>5. \A q \in Procs : conn'[q] = "writing" => q = p
    BY <1>4 DEF ConnInv
  <1>6. QED
    BY <1>3, <1>4, <1>5 DEF StorageSound, SoundFor

LEMMA AfterNoWrite ==
    ASSUME IInv, view' = view, disk' = disk,
           \A q \in Procs : conn'[q] = "writing" <=> conn[q] = "writing",
           \A P \in SUBSET Procs : NoneBegins(P)
    PROVE  StorageSound'
  <1>1. disk \in Database /\ \A q \in Procs : view[q] \in Database
    BY DEF IInv, TypeOK, ConnTypeOK
  <1>2. ASSUME NEW P \in SUBSET Procs, NEW db \in Database, SoundFor(P, db)
        PROVE  Sound(Unposted', Inserting(P)', Giving(P)', db)
    BY <1>2, SoundShrinks DEF SoundFor, NoneBegins
  <1>3. ASSUME \A p \in Procs : conn'[p] # "writing"
        PROVE  SoundFor(Procs, disk)'
    <2>1. SoundFor(Procs, disk)
      BY <1>3 DEF IInv, StorageSound
    <2>2. QED
      BY <1>1, <1>2, <2>1 DEF SoundFor
  <1>4. ASSUME NEW p \in Procs, conn'[p] = "writing"
        PROVE  SoundFor(Procs, view[p])' /\ SoundFor(Procs \ {p}, disk)'
    <2>1. SoundFor(Procs, view[p]) /\ SoundFor(Procs \ {p}, disk)
      BY <1>4 DEF IInv, StorageSound
    <2>2. QED
      BY <1>1, <1>2, <2>1 DEF SoundFor
  <1>5. QED
    BY <1>3, <1>4 DEF StorageSound

LEMMA AfterCommit ==
    ASSUME IInv, NEW p \in Procs, Commit(p), \A P \in SUBSET Procs : NoneBegins(P)
    PROVE  StorageSound'
  <1>1. disk \in Database /\ \A q \in Procs : view[q] \in Database
    BY DEF IInv, TypeOK, ConnTypeOK
  <1>2. ASSUME NEW P \in SUBSET Procs, NEW db \in Database, SoundFor(P, db)
        PROVE  Sound(Unposted', Inserting(P)', Giving(P)', db)
    BY <1>2, SoundShrinks DEF SoundFor, NoneBegins
  <1>3. CASE conn[p] = "writing"
    <2>1. disk' = view[p]
      BY <1>3 DEF Commit
    <2>2. \A q \in Procs : conn'[q] # "writing"
      BY <1>3 DEF Commit, IInv, ConnInv
    <2>3. SoundFor(Procs, view[p])
      BY <1>3 DEF IInv, StorageSound
    <2>4. QED
      BY <1>1, <1>2, <2>1, <2>2, <2>3 DEF StorageSound, SoundFor
  <1>4. CASE conn[p] # "writing"
    <2>1. disk' = disk
      BY <1>4 DEF Commit
    <2>2. \A q \in Procs : /\ conn'[q] = "writing" <=> conn[q] = "writing"
                           /\ conn[q] = "writing" => view'[q] = view[q]
      BY <1>4 DEF Commit
    <2>3. ASSUME \A q \in Procs : conn'[q] # "writing"
          PROVE  SoundFor(Procs, disk)'
      <3>1. SoundFor(Procs, disk)
        BY <2>2, <2>3 DEF IInv, StorageSound
      <3>2. QED
        BY <1>1, <1>2, <2>1, <3>1 DEF SoundFor
    <2>4. ASSUME NEW q \in Procs, conn'[q] = "writing"
          PROVE  SoundFor(Procs, view[q])' /\ SoundFor(Procs \ {q}, disk)'
      <3>1. SoundFor(Procs, view[q]) /\ SoundFor(Procs \ {q}, disk) /\ view'[q] = view[q]
        BY <2>2, <2>4 DEF IInv, StorageSound
      <3>2. QED
        BY <1>1, <1>2, <2>1, <3>1 DEF SoundFor
    <2>5. QED
      BY <2>3, <2>4 DEF StorageSound
  <1>5. QED
    BY <1>3, <1>4

-----------------------------------------------------------------------------
(* A job's own steps.                                                      *)

LEMMA MoveJobSets ==
    ASSUME IInv, NEW j \in Jobs, NEW from, NEW to \in JobStep \ {"new"}, MoveJob(j, from, to)
    PROVE  /\ Unposted' = Unposted \ {j}
           /\ \A P \in SUBSET Procs :
                /\ Inserting(P)' = IF Home[j] \in P /\ to = "inserting"
                                   THEN Inserting(P) \cup {j} ELSE Inserting(P) \ {j}
                /\ to = "giving" =>
                        Giving(P)' = IF Home[j] \in P THEN Giving(P) \cup {j} ELSE Giving(P)
                /\ from = "giving" /\ to # "giving" => Giving(P)' = Giving(P) \ {j}
                /\ from # "giving" /\ to # "giving" => Giving(P)' = Giving(P)
  <1>1. /\ job[j] = from /\ job' = [job EXCEPT ![j] = to]
        /\ sweep' = sweep /\ current' = current
    BY DEF MoveJob
  <1>2. job \in [Jobs -> JobStep] /\ current \in [Procs -> SUBSET Jobs]
    BY DEF IInv, TypeOK
  <1>3. Unposted' = Unposted \ {j}
    BY <1>1, <1>2 DEF Unposted
  <1>4. ASSUME NEW P \in SUBSET Procs
        PROVE  Inserting(P)' = IF Home[j] \in P /\ to = "inserting"
                               THEN Inserting(P) \cup {j} ELSE Inserting(P) \ {j}
    BY <1>1, <1>2 DEF Inserting
  <1>5. ASSUME NEW P \in SUBSET Procs
        PROVE  /\ to = "giving" =>
                    Giving(P)' = IF Home[j] \in P THEN Giving(P) \cup {j} ELSE Giving(P)
               /\ from # "giving" /\ to # "giving" => Giving(P)' = Giving(P)
    <2>1. CASE to = "giving" /\ from = "giving"
      <3>1. job' = job
        BY <1>1, <1>2, <2>1
      <3>2. Giving(P)' = Giving(P)
        BY <1>1, <3>1 DEF Giving
      <3>3. Home[j] \in P => j \in Giving(P)
        BY <1>1, <2>1 DEF Giving
      <3>4. QED
        BY <2>1, <3>2, <3>3
    <2>2. CASE to = "giving" /\ from # "giving"
      BY <1>1, <1>2, <2>2 DEF Giving
    <2>3. CASE to # "giving" /\ from # "giving"
      BY <1>1, <1>2, <2>3 DEF Giving
    <2>4. QED
      BY <2>1, <2>2, <2>3
  <1>6. ASSUME NEW P \in SUBSET Procs, from = "giving", to # "giving"
        PROVE  Giving(P)' = Giving(P) \ {j}
    <2>1. \A p \in P : sweep[p] = "giving" => j \notin current[p]
      BY <1>1, <1>6 DEF IInv, OneGiver
    <2>2. QED
      BY <1>1, <1>2, <1>6, <2>1 DEF Giving
  <1>7. QED
    BY <1>3, <1>4, <1>5, <1>6

\* A job that neither spends a use nor marks a row by the step.
LEMMA MoveJobEnds ==
    ASSUME IInv, NEW j \in Jobs, NEW from,
           NEW to \in JobStep \ {"new", "inserting", "giving"}, MoveJob(j, from, to)
    PROVE  \A P \in SUBSET Procs : NoneBegins(P)
  BY MoveJobSets DEF NoneBegins

\* A step of p's tasks begins nothing for the other processes.
LEMMA MoveJobElsewhere ==
    ASSUME IInv, NEW j \in Jobs, NEW from, NEW to \in JobStep \ {"new"}, MoveJob(j, from, to)
    PROVE  NoneBegins(Procs \ {Home[j]})
  BY MoveJobSets DEF NoneBegins

LEMMA JobKeepsSound ==
    ASSUME IInv, ConnInv', NEW j \in Jobs, JobNext(j)
    PROVE  StorageSound'
  <1> DEFINE p == Home[j]
             db == view[Home[j]]
  <1>0. /\ p \in Procs /\ CodeOf[j] \in Codes /\ db \in Database
        /\ Unposted \in SUBSET Jobs /\ Inserting(Procs) \in SUBSET Jobs
        /\ Giving(Procs) \in SUBSET Jobs
    BY CodeStoreAssumption DEF IInv, TypeOK, ConnTypeOK, Unposted, Inserting, Giving
  <1> USE DEF JobStep
  <1>1. CASE RedeemUpdate(j) /\ Redeemable(db, CodeOf[j])
    <2>1. MoveJob(j, "new", "inserting") /\ Write(p, SpendUse(db, CodeOf[j]))
      BY <1>1 DEF RedeemUpdate
    <2>2. /\ Unposted' = Unposted \ {j}
          /\ Inserting(Procs)' = Inserting(Procs) \cup {j}
          /\ Giving(Procs)' = Giving(Procs)
      BY <1>0, <2>1, MoveJobSets
    <2>3. j \in Unposted /\ j \notin Inserting(Procs)
      BY <2>1 DEF MoveJob, Unposted, Inserting
    <2>4. Sound(Unposted, Inserting(Procs), Giving(Procs), db)
      BY <1>0, <2>1, WriterSees DEF Write, SoundFor
    <2>5. Sound(Unposted', Inserting(Procs)', Giving(Procs)', SpendUse(db, CodeOf[j]))
      BY <1>0, <1>1, <2>2, <2>3, <2>4, SoundSpend
    <2>6. SpendUse(db, CodeOf[j]) \in Database
      BY <1>0, <1>1, StatementsType
    <2>7. NoneBegins(Procs \ {p})
      BY <2>1, MoveJobElsewhere
    <2>8. QED
      BY <1>0, <2>1, <2>5, <2>6, <2>7, AfterWrite
  <1>2. CASE RedeemUpdate(j) /\ ~Redeemable(db, CodeOf[j])
    <2>1. MoveJob(j, "new", "refusing") /\ Write(p, db)
      BY <1>2 DEF RedeemUpdate
    <2>2. \A P \in SUBSET Procs : NoneBegins(P)
      BY <2>1, MoveJobEnds
    <2>3. SoundFor(Procs, db)
      BY <1>0, <2>1, WriterSees DEF Write
    <2>4. Sound(Unposted', Inserting(Procs)', Giving(Procs)', db)
      BY <1>0, <2>2, <2>3, SoundShrinks DEF SoundFor, NoneBegins
    <2>5. QED
      BY <1>0, <2>1, <2>2, <2>4, AfterWrite
  <1>3. CASE RedeemInsert(j)
    <2>1. MoveJob(j, "inserting", "committing") /\ Write(p, InsertRedemption(db, j))
      BY <1>3 DEF RedeemInsert
    <2>2. /\ Unposted' = Unposted \ {j}
          /\ Inserting(Procs)' = Inserting(Procs) \ {j}
          /\ Giving(Procs)' = Giving(Procs)
      BY <1>0, <2>1, MoveJobSets
    <2>3. j \notin Unposted /\ j \in Inserting(Procs)
      BY <1>0, <2>1 DEF MoveJob, Unposted, Inserting
    <2>4. Sound(Unposted, Inserting(Procs), Giving(Procs), db)
      BY <1>0, <2>1, WriterSees DEF Write, SoundFor
    <2>5. Unposted' = Unposted
      BY <2>2, <2>3
    <2>6. Sound(Unposted', Inserting(Procs)', Giving(Procs)', InsertRedemption(db, j))
      BY <1>0, <2>2, <2>3, <2>4, <2>5, SoundInsert
    <2>7. NoneBegins(Procs \ {p}) /\ InsertRedemption(db, j) \in Database
      BY <1>0, <2>1, MoveJobElsewhere, StatementsType
    <2>8. QED
      BY <1>0, <2>1, <2>6, <2>7, AfterWrite
  <1>4. CASE FinishUpdate(j)
    <2>1. MoveJob(j, "delivered", "finishing") /\ Write(p, SetOutcome(db, j, "complete"))
      BY <1>4 DEF FinishUpdate
    <2>2. \A P \in SUBSET Procs : NoneBegins(P)
      BY <2>1, MoveJobEnds
    <2>3. Sound(Unposted, Inserting(Procs), Giving(Procs), db)
      BY <1>0, <2>1, WriterSees DEF Write, SoundFor
    <2>4. Sound(Unposted, Inserting(Procs), Giving(Procs), SetOutcome(db, j, "complete"))
      BY <1>0, <2>3, SoundFinish
    <2>5. SetOutcome(db, j, "complete") \in Database
      BY <1>0, StatementsType DEF Outcome
    <2>6. Sound(Unposted', Inserting(Procs)', Giving(Procs)', SetOutcome(db, j, "complete"))
      BY <2>2, <2>4, <2>5, SoundShrinks DEF NoneBegins
    <2>7. QED
      BY <1>0, <2>1, <2>2, <2>5, <2>6, AfterWrite
  <1>5. CASE RefundMark(j)
    <2>1. /\ MoveJob(j, "failed", IF db.outcome[j] = "open" THEN "giving" ELSE "closing")
          /\ Write(p, SetOutcome(db, j, "refunded"))
      BY <1>5 DEF RefundMark
    <2>2. Sound(Unposted, Inserting(Procs), Giving(Procs), db)
      BY <1>0, <2>1, WriterSees DEF Write, SoundFor
    <2>3. SetOutcome(db, j, "refunded") \in Database
      BY <1>0, StatementsType DEF Outcome
    <2>4. NoneBegins(Procs \ {p})
      BY <2>1, MoveJobElsewhere
    <2>5. CASE db.outcome[j] = "open"
      <3>1. /\ Unposted' = Unposted \ {j}
            /\ Inserting(Procs)' = Inserting(Procs) \ {j}
            /\ Giving(Procs)' = Giving(Procs) \cup {j}
        BY <1>0, <2>1, <2>5, MoveJobSets
      <3>2. Sound(Unposted, Inserting(Procs), Giving(Procs) \cup {j}, SetOutcome(db, j, "refunded"))
        BY <1>0, <2>2, <2>5, SoundMark
      <3>3. Sound(Unposted', Inserting(Procs)', Giving(Procs)', SetOutcome(db, j, "refunded"))
        BY <2>3, <3>1, <3>2, SoundShrinks
      <3>4. QED
        BY <1>0, <2>1, <2>3, <2>4, <3>3, AfterWrite
    <2>6. CASE db.outcome[j] # "open"
      <3>1. NoneBegins(Procs)
        BY <2>1, <2>6, MoveJobEnds
      <3>2. Sound(Unposted, Inserting(Procs), Giving(Procs), SetOutcome(db, j, "refunded"))
        BY <1>0, <2>2, <2>6, SoundMark
      <3>3. Sound(Unposted', Inserting(Procs)', Giving(Procs)', SetOutcome(db, j, "refunded"))
        BY <2>3, <3>1, <3>2, SoundShrinks DEF NoneBegins
      <3>4. QED
        BY <1>0, <2>1, <2>3, <2>4, <3>3, AfterWrite
    <2>7. QED
      BY <2>5, <2>6
  <1>6. CASE RefundGive(j)
    <2>1. MoveJob(j, "giving", "closing") /\ Write(p, GiveUseBack(db, j))
      BY <1>6 DEF RefundGive
    <2>2. /\ Unposted' = Unposted \ {j}
          /\ Inserting(Procs)' = Inserting(Procs) \ {j}
          /\ Giving(Procs)' = Giving(Procs) \ {j}
      BY <1>0, <2>1, MoveJobSets
    <2>3. j \in Giving(Procs)
      BY <1>0, <2>1 DEF MoveJob, Giving
    <2>4. Sound(Unposted, Inserting(Procs), Giving(Procs), db)
      BY <1>0, <2>1, WriterSees DEF Write, SoundFor
    <2>5. Sound(Unposted, Inserting(Procs), Giving(Procs) \ {j}, GiveUseBack(db, j))
      BY <1>0, <2>3, <2>4, SoundGive
    <2>6. GiveUseBack(db, j) \in Database
      BY <1>0, StatementsType
    <2>7. Sound(Unposted', Inserting(Procs)', Giving(Procs)', GiveUseBack(db, j))
      BY <2>2, <2>5, <2>6, SoundShrinks
    <2>8. NoneBegins(Procs \ {p})
      BY <2>1, MoveJobElsewhere
    <2>9. QED
      BY <1>0, <2>1, <2>6, <2>7, <2>8, AfterWrite
  <1>7. CASE RedeemRefuse(j) \/ RedeemCommit(j) \/ FinishCommit(j) \/ RefundCommit(j)
    <2>1. Commit(p)
      BY <1>7 DEF RedeemRefuse, RedeemCommit, FinishCommit, RefundCommit
    <2>2. \A P \in SUBSET Procs : NoneBegins(P)
      BY <1>7, MoveJobEnds DEF RedeemRefuse, RedeemCommit, FinishCommit, RefundCommit
    <2>3. QED
      BY <1>0, <2>1, <2>2, AfterCommit
  <1>8. CASE Deliver(j) \/ Fail(j) \/ JobStatementFails(j)
    <2>1. \A P \in SUBSET Procs : NoneBegins(P)
      BY <1>8, MoveJobEnds DEF Deliver, Fail, JobStatementFails
    <2>2. /\ view' = view /\ disk' = disk
          /\ \A q \in Procs : conn'[q] = "writing" <=> conn[q] = "writing"
      <3>1. CASE Deliver(j) \/ Fail(j)
        BY <3>1 DEF Deliver, Fail, storage
      <3>2. CASE JobStatementFails(j)
        BY <1>0, <3>2 DEF JobStatementFails, WriteFails, CanWrite, IInv, TypeOK, ConnTypeOK
      <3>3. QED
        BY <1>8, <3>1, <3>2
    <2>3. QED
      BY <2>1, <2>2, AfterNoWrite
  <1>9. QED
    BY <1>1, <1>2, <1>3, <1>4, <1>5, <1>6, <1>7, <1>8 DEF JobNext

-----------------------------------------------------------------------------
(* The sweep's steps, and the steps that touch no use.                     *)

LEMMA SweepKeepsSound ==
    ASSUME IInv, ConnInv', NEW p \in Procs, SweepNext(p)
    PROVE  StorageSound'
  <1> DEFINE db == view[p]
  <1>0. /\ db \in Database /\ Unposted \in SUBSET Jobs
        /\ Inserting(Procs) \in SUBSET Jobs /\ Giving(Procs) \in SUBSET Jobs
        /\ sweep \in [Procs -> {"idle", "giving", "closing"}]
        /\ current \in [Procs -> SUBSET Jobs]
    BY DEF IInv, TypeOK, ConnTypeOK, Unposted, Inserting, Giving
  <1>1. ASSUME NEW j \in Jobs, SweepMark(p, j) PROVE StorageSound'
    <2>1. /\ Write(p, SetOutcome(db, j, "refunded"))
          /\ job' = job
          /\ sweep' = [sweep EXCEPT ![p] =
                IF db.outcome[j] = "open" THEN "giving" ELSE "closing"]
          /\ current' = [current EXCEPT ![p] = {j}]
          /\ sweep[p] = "idle"
      BY <1>1 DEF SweepMark
    <2>2. Sound(Unposted, Inserting(Procs), Giving(Procs), db)
      BY <2>1, WriterSees DEF Write, SoundFor
    <2>3. SetOutcome(db, j, "refunded") \in Database
      <3>1. CodeOf[j] \in Codes /\ "refunded" \in Outcome
        BY CodeStoreAssumption DEF Outcome
      <3>2. QED
        BY <1>0, <3>1, StatementsType
    <2>4. Unposted' = Unposted /\ \A P \in SUBSET Procs : Inserting(P)' = Inserting(P)
      BY <2>1 DEF Unposted, Inserting
    <2>5. Giving(Procs \ {p})' \subseteq Giving(Procs \ {p})
      BY <1>0, <2>1 DEF Giving
    <2>6. NoneBegins(Procs \ {p})
      BY <2>4, <2>5 DEF NoneBegins
    <2>7. CASE db.outcome[j] = "open"
      <3>1. Giving(Procs)' \subseteq Giving(Procs) \cup {j}
        BY <1>0, <2>1 DEF Giving
      <3>2. Sound(Unposted, Inserting(Procs), Giving(Procs) \cup {j}, SetOutcome(db, j, "refunded"))
        BY <1>0, <2>2, <2>7, SoundMark
      <3>3. Sound(Unposted', Inserting(Procs)', Giving(Procs)', SetOutcome(db, j, "refunded"))
        BY <2>3, <2>4, <3>1, <3>2, SoundShrinks
      <3>4. QED
        BY <2>1, <2>3, <2>6, <3>3, AfterWrite
    <2>8. CASE db.outcome[j] # "open"
      <3>1. Giving(Procs)' \subseteq Giving(Procs)
        BY <1>0, <2>1, <2>8 DEF Giving
      <3>2. Sound(Unposted, Inserting(Procs), Giving(Procs), SetOutcome(db, j, "refunded"))
        BY <1>0, <2>2, <2>8, SoundMark
      <3>3. Sound(Unposted', Inserting(Procs)', Giving(Procs)', SetOutcome(db, j, "refunded"))
        BY <2>3, <2>4, <3>1, <3>2, SoundShrinks
      <3>4. QED
        BY <2>1, <2>3, <2>6, <3>3, AfterWrite
    <2>9. QED
      BY <2>7, <2>8
  <1>2. ASSUME NEW j \in Jobs, SweepGive(p, j) PROVE StorageSound'
    <2>1. /\ Write(p, GiveUseBack(db, j))
          /\ job' = job /\ current' = current
          /\ sweep' = [sweep EXCEPT ![p] = "closing"]
          /\ sweep[p] = "giving" /\ j \in current[p]
      BY <1>2 DEF SweepGive
    <2>2. Sound(Unposted, Inserting(Procs), Giving(Procs), db)
      BY <2>1, WriterSees DEF Write, SoundFor
    <2>3. GiveUseBack(db, j) \in Database
      <3>1. GiveUseBack(db, j) \in Database
        BY <1>0, CodeStoreAssumption, StatementsType
      <3>2. QED
        BY <3>1
    <2>4. Unposted' = Unposted /\ \A P \in SUBSET Procs : Inserting(P)' = Inserting(P)
      BY <2>1 DEF Unposted, Inserting
    <2>5. j \in Giving(Procs)
      BY <2>1 DEF Giving
    <2>6. Giving(Procs \ {p})' \subseteq Giving(Procs \ {p})
      BY <1>0, <2>1 DEF Giving
    <2>7. Giving(Procs)' \subseteq Giving(Procs) \ {j}
      <3>1. job[j] # "giving"
        BY <2>1 DEF IInv, OneGiver
      <3>2. \A q \in Procs \ {p} : ~(sweep[q] = "giving" /\ j \in current[q])
        BY <2>1 DEF IInv, OneGiver
      <3>3. QED
        BY <1>0, <2>1, <3>1, <3>2 DEF Giving
    <2>8. Sound(Unposted, Inserting(Procs), Giving(Procs) \ {j}, GiveUseBack(db, j))
      BY <1>0, <2>2, <2>5, SoundGive
    <2>9. Sound(Unposted', Inserting(Procs)', Giving(Procs)', GiveUseBack(db, j))
      BY <2>3, <2>4, <2>7, <2>8, SoundShrinks
    <2>10. NoneBegins(Procs \ {p})
      BY <2>4, <2>6 DEF NoneBegins
    <2>11. QED
      BY <2>1, <2>3, <2>9, <2>10, AfterWrite
  <1>3. CASE SweepCommit(p)
    <2>1. \A P \in SUBSET Procs : NoneBegins(P)
      BY <1>0, <1>3 DEF SweepCommit, NoneBegins, Unposted, Inserting, Giving
    <2>2. QED
      BY <1>3, <2>1, AfterCommit DEF SweepCommit
  <1>4. CASE SweepSelect(p) \/ SweepStatementFails(p)
    <2>1. \A P \in SUBSET Procs : NoneBegins(P)
      BY <1>0, <1>4 DEF SweepSelect, SweepStatementFails, NoneBegins, Unposted, Inserting, Giving
    <2>2. /\ view' = view /\ disk' = disk
          /\ \A q \in Procs : conn'[q] = "writing" <=> conn[q] = "writing"
      BY <1>4 DEF SweepSelect, SweepStatementFails, Read, WriteFails, CanWrite,
                  IInv, TypeOK, ConnTypeOK
    <2>3. QED
      BY <2>1, <2>2, AfterNoWrite
  <1>5. QED
    BY <1>1, <1>2, <1>3, <1>4 DEF SweepNext

\* Steps that move no job and no sweep.
UsesUntouched == job' = job /\ sweep' = sweep /\ current' = current

LEMMA UntouchedBegins ==
    ASSUME UsesUntouched
    PROVE  /\ \A P \in SUBSET Procs : NoneBegins(P)
           /\ Unposted' = Unposted
           /\ Inserting(Procs)' = Inserting(Procs) /\ Giving(Procs)' = Giving(Procs)
  BY DEF UsesUntouched, NoneBegins, Unposted, Inserting, Giving

\* A write of such a step that keeps the uses sound.
LEMMA UntouchedWrite ==
    ASSUME IInv, ConnInv', UsesUntouched, NEW p \in Procs, NEW db \in Database, Write(p, db),
           Sound(Unposted, Inserting(Procs), Giving(Procs), view[p]) =>
                Sound(Unposted, Inserting(Procs), Giving(Procs), db)
    PROVE  StorageSound'
  <1>1. Sound(Unposted, Inserting(Procs), Giving(Procs), view[p])
    BY WriterSees DEF Write, SoundFor
  <1>2. Sound(Unposted', Inserting(Procs)', Giving(Procs)', db)
    BY <1>1, UntouchedBegins
  <1>3. QED
    BY <1>2, UntouchedBegins, AfterWrite

LEMMA CallKeepsSound ==
    ASSUME IInv, ConnInv', NEW k \in Calls, CallNext(k)
    PROVE  StorageSound' /\ UsesUntouched
  <1>0. UsesUntouched
    BY DEF UsesUntouched, CallNext, MoveCall, RegisterSelect, RegisterUpdate,
           RegisterCommit, CallStatementFails
  <1>1. Home[k] \in Procs /\ CodeOf[k] \in Codes /\ view[Home[k]] \in Database
    BY CodeStoreAssumption DEF IInv, TypeOK, ConnTypeOK
  <1>2. CASE RegisterUpdate(k)
    <2> DEFINE db == view[Home[k]]
               db2 == CountCall(db, CodeOf[k])
    <2>1. db2 \in Database /\ db2.remaining = db.remaining /\ db2.total = db.total
             /\ db2.outcome = db.outcome
      BY <1>1 DEF CountCall, Database
    <2>2. Write(Home[k], db2)
      BY <1>2 DEF RegisterUpdate
    <2> HIDE DEF db2
    <2>3. QED
      BY <1>0, <1>1, <2>1, <2>2, SoundSameUses, UntouchedWrite
  <1>3. CASE RegisterCommit(k)
    BY <1>0, <1>1, <1>3, UntouchedBegins, AfterCommit DEF RegisterCommit
  <1>4. CASE RegisterSelect(k) \/ CallStatementFails(k)
    <2>1. /\ view' = view /\ disk' = disk
          /\ \A q \in Procs : conn'[q] = "writing" <=> conn[q] = "writing"
      BY <1>1, <1>4 DEF RegisterSelect, CallStatementFails, Read, WriteFails, CanWrite,
                       IInv, TypeOK, ConnTypeOK
    <2>2. QED
      BY <1>0, <2>1, UntouchedBegins, AfterNoWrite
  <1>5. QED
    BY <1>0, <1>2, <1>3, <1>4 DEF CallNext

LEMMA AdminKeepsSound ==
    ASSUME IInv, ConnInv', NEW p \in Procs, AdminNext(p)
    PROVE  StorageSound' /\ UsesUntouched
  <1>0. UsesUntouched
    BY DEF UsesUntouched, AdminNext, MoveAdmin, MintInsert, RevokeUpdate, AdminCommit,
           AdminStatementFails, StatusSelect, tasks
  <1>1. view[p] \in Database /\ Unposted \in SUBSET Jobs
           /\ Inserting(Procs) \in SUBSET Jobs /\ Giving(Procs) \in SUBSET Jobs
    BY DEF IInv, TypeOK, ConnTypeOK, Unposted, Inserting, Giving
  <1>2. ASSUME NEW c \in Codes, NEW uses \in 1..MaxUses, MintInsert(p, c, uses)
        PROVE  StorageSound'
    <2>0. uses \in Nat
      BY CodeStoreAssumption
    <2>1. MintCode(view[p], c, uses) \in Database
      BY <1>1, <2>0 DEF MintCode, Database
    <2>2. Write(p, MintCode(view[p], c, uses)) /\ view[p].total[c] = 0
      BY <1>2 DEF MintInsert
    <2>3. QED
      BY <1>0, <1>1, <2>0, <2>1, <2>2, SoundMint, UntouchedWrite
  <1>3. ASSUME NEW c \in Codes, RevokeUpdate(p, c) PROVE StorageSound'
    <2> DEFINE db2 == RevokeCode(view[p], c)
    <2>1. db2 \in Database /\ db2.remaining = view[p].remaining
             /\ db2.total = view[p].total /\ db2.outcome = view[p].outcome
      BY <1>1 DEF RevokeCode, Database
    <2>2. Write(p, db2)
      BY <1>3 DEF RevokeUpdate
    <2> HIDE DEF db2
    <2>3. QED
      BY <1>0, <1>1, <2>1, <2>2, SoundSameUses, UntouchedWrite
  <1>4. CASE AdminCommit(p)
    BY <1>0, <1>4, UntouchedBegins, AfterCommit DEF AdminCommit
  <1>5. CASE AdminStatementFails(p) \/ StatusSelect(p)
    <2>1. /\ view' = view /\ disk' = disk
          /\ \A q \in Procs : conn'[q] = "writing" <=> conn[q] = "writing"
      BY <1>5 DEF AdminStatementFails, StatusSelect, Read, WriteFails, CanWrite,
                  IInv, TypeOK, ConnTypeOK
    <2>2. QED
      BY <1>0, <2>1, UntouchedBegins, AfterNoWrite
  <1>6. QED
    BY <1>0, <1>2, <1>3, <1>4, <1>5 DEF AdminNext

LEMMA CrashKeepsSound ==
    ASSUME IInv, ConnInv', NEW p \in Procs, Crash(p)
    PROVE  StorageSound'
  <1>0. /\ disk \in Database /\ \A q \in Procs : view[q] \in Database
        /\ conn \in [Procs -> ConnStates] /\ view \in [Procs -> Database]
        /\ job \in [Jobs -> JobStep]
        /\ sweep \in [Procs -> {"idle", "giving", "closing"}]
    BY DEF IInv, TypeOK, ConnTypeOK
  <1>1. /\ disk' = disk
        /\ \A q \in Procs : conn'[q] = IF q = p THEN "idle" ELSE conn[q]
        /\ \A q \in Procs \ {p} : view'[q] = view[q]
    BY <1>0 DEF Crash, Disconnect
  <1>2. \A s \in JobStep : /\ AfterCrash(s) \notin {"inserting", "giving"}
                           /\ AfterCrash(s) = "new" => s = "new"
    BY DEF AfterCrash, JobStep, InRedeem
  <1>3. \A j \in Jobs : /\ job'[j] = "inserting" => Home[j] # p /\ job[j] = "inserting"
                        /\ job'[j] = "giving" => Home[j] # p /\ job[j] = "giving"
                        /\ job'[j] = "new" => job[j] = "new"
    <2>1. \A j \in Jobs : job'[j] = IF Home[j] = p THEN AfterCrash(job[j]) ELSE job[j]
      BY DEF Crash
    <2>2. \A j \in Jobs : job[j] \in JobStep
      BY <1>0
    <2>3. QED
      BY <1>2, <2>1, <2>2
  <1>4. /\ Unposted' \subseteq Unposted
        /\ \A P \in SUBSET Procs : Inserting(P)' \subseteq Inserting(P \ {p})
    <2>1. Unposted' \subseteq Unposted
      BY <1>3 DEF Unposted
    <2>2. \A P \in SUBSET Procs : Inserting(P)' \subseteq Inserting(P \ {p})
      BY <1>3 DEF Inserting
    <2>3. QED
      BY <2>1, <2>2
  <1>5. \A P \in SUBSET Procs : Giving(P)' \subseteq Giving(P \ {p})
    <2>1. current \in [Procs -> SUBSET Jobs]
      BY DEF IInv, TypeOK
    <2>2. /\ current' = [current EXCEPT ![p] = {}]
          /\ sweep' = [sweep EXCEPT ![p] = "idle"]
      BY DEF Crash
    <2>3. \A j \in Jobs : job'[j] = "giving" => Home[j] # p /\ job[j] = "giving"
      BY <1>3
    <2>4. \A q \in Procs : sweep'[q] = "giving" =>
                q # p /\ sweep[q] = "giving" /\ current'[q] = current[q]
      BY <1>0, <2>1, <2>2
    <2>5. QED
      BY <2>3, <2>4 DEF Giving
  <1>6. ASSUME NEW P \in SUBSET Procs, NEW Q \in SUBSET Procs, NEW db \in Database,
               SoundFor(Q, db), P \ {p} \subseteq Q
        PROVE  Sound(Unposted', Inserting(P)', Giving(P)', db)
    <2>1. /\ Inserting(P \ {p}) \subseteq Inserting(Q)
          /\ Giving(P \ {p}) \subseteq Giving(Q)
      BY <1>6 DEF Inserting, Giving
    <2>2. /\ Unposted' \subseteq Unposted
          /\ Inserting(P)' \subseteq Inserting(Q)
          /\ Giving(P)' \subseteq Giving(Q)
      BY <1>4, <1>5, <2>1
    <2>3. QED
      BY <1>6, <2>2, SoundShrinks DEF SoundFor
  <1>7. ASSUME \A q \in Procs : conn'[q] # "writing"
        PROVE  SoundFor(Procs, disk)'
    <2>1. CASE conn[p] = "writing"
      <3>1. SoundFor(Procs \ {p}, disk)
        BY <2>1 DEF IInv, StorageSound
      <3>2. QED
        BY <1>0, <1>1, <1>6, <3>1 DEF SoundFor
    <2>2. CASE conn[p] # "writing"
      <3>1. SoundFor(Procs, disk)
        BY <1>1, <1>7, <2>2 DEF IInv, StorageSound
      <3>2. QED
        BY <1>0, <1>1, <1>6, <3>1 DEF SoundFor
    <2>3. QED
      BY <2>1, <2>2
  <1>8. ASSUME NEW q \in Procs, conn'[q] = "writing"
        PROVE  SoundFor(Procs, view[q])' /\ SoundFor(Procs \ {q}, disk)'
    <2>1. q # p /\ conn[q] = "writing" /\ view'[q] = view[q]
      BY <1>1, <1>8
    <2>2. SoundFor(Procs, view[q]) /\ SoundFor(Procs \ {q}, disk)
      BY <2>1 DEF IInv, StorageSound
    <2>3. QED
      BY <1>0, <1>1, <1>6, <2>1, <2>2 DEF SoundFor
  <1>9. QED
    BY <1>7, <1>8 DEF StorageSound

-----------------------------------------------------------------------------
(* A marked row has one task that gives its use back.                      *)

LEMMA OneGiverKept == IInv /\ [Next]_vars => OneGiver'
  <1> SUFFICES ASSUME IInv, [Next]_vars PROVE OneGiver'
    OBVIOUS
  <1>0. /\ job \in [Jobs -> JobStep] /\ current \in [Procs -> SUBSET Jobs]
        /\ sweep \in [Procs -> {"idle", "giving", "closing"}]
        /\ OneGiver
    BY DEF IInv, TypeOK
  <1>1. ASSUME NEW j \in Jobs, JobNext(j) PROVE OneGiver'
    <2>1. CASE RefundMark(j)
      <3>1. /\ job' = [job EXCEPT ![j] =
                    IF view[Home[j]].outcome[j] = "open" THEN "giving" ELSE "closing"]
            /\ sweep' = sweep /\ current' = current /\ CanWrite(Home[j])
        BY <2>1 DEF RefundMark, MoveJob, Write
      <3>2. CASE view[Home[j]].outcome[j] = "open"
        <4>1. SoundFor(Procs, view[Home[j]])
          BY <3>1, CodeStoreAssumption, WriterSees
        <4>2. j \notin Giving(Procs)
          BY <3>2, <4>1 DEF SoundFor, Sound
        <4>3. \A p \in Procs : j \in current[p] => sweep[p] # "giving"
          BY <4>2 DEF Giving
        <4>4. QED
          BY <1>0, <3>1, <4>3 DEF OneGiver
      <3>3. CASE view[Home[j]].outcome[j] # "open"
        BY <1>0, <3>1, <3>3 DEF OneGiver
      <3>4. QED
        BY <3>2, <3>3
    <2>2. CASE ~RefundMark(j)
      <3>1. /\ sweep' = sweep /\ current' = current
            /\ \A i \in Jobs : job'[i] = "giving" => job[i] = "giving"
        BY <1>0, <1>1, <2>2 DEF JobNext, MoveJob, RedeemUpdate, RedeemRefuse, RedeemInsert,
              RedeemCommit, Deliver, Fail, FinishUpdate, FinishCommit, RefundGive,
              RefundCommit, JobStatementFails
      <3>2. QED
        BY <1>0, <3>1 DEF OneGiver
    <2>3. QED
      BY <2>1, <2>2
  <1>2. ASSUME NEW p \in Procs, SweepNext(p) PROVE OneGiver'
    <2>1. ASSUME NEW j \in Jobs, SweepMark(p, j) PROVE OneGiver'
      <3>1. /\ job' = job /\ CanWrite(p)
            /\ sweep' = [sweep EXCEPT ![p] =
                    IF view[p].outcome[j] = "open" THEN "giving" ELSE "closing"]
            /\ current' = [current EXCEPT ![p] = {j}]
        BY <2>1 DEF SweepMark, Write
      <3>2. CASE view[p].outcome[j] = "open"
        <4>1. SoundFor(Procs, view[p])
          BY <3>1, WriterSees
        <4>2. j \notin Giving(Procs)
          BY <3>2, <4>1 DEF SoundFor, Sound
        <4>3. /\ \A q \in Procs : j \in current[q] => sweep[q] # "giving"
              /\ job[j] # "giving"
          BY <4>2, CodeStoreAssumption DEF Giving
        <4>4. QED
          BY <1>0, <3>1, <4>3 DEF OneGiver
      <3>3. CASE view[p].outcome[j] # "open"
        BY <1>0, <3>1, <3>3 DEF OneGiver
      <3>4. QED
        BY <3>2, <3>3
    <2>2. CASE SweepSelect(p) \/ SweepCommit(p) \/ SweepStatementFails(p)
               \/ \E j \in Jobs : SweepGive(p, j)
      <3>1. /\ job' = job
            /\ \A q \in Procs : /\ current'[q] \subseteq current[q]
                                /\ sweep'[q] = "giving" => sweep[q] = "giving"
        BY <1>0, <2>2 DEF SweepSelect, SweepCommit, SweepStatementFails, SweepGive
      <3>2. QED
        BY <1>0, <3>1 DEF OneGiver
    <2>3. QED
      BY <1>2, <2>1, <2>2 DEF SweepNext
  <1>3. ASSUME NEW p \in Procs, Crash(p) PROVE OneGiver'
    <2>1. \A j \in Jobs : job'[j] = IF Home[j] = p THEN AfterCrash(job[j]) ELSE job[j]
      BY <1>3 DEF Crash
    <2>2. \A s \in JobStep : AfterCrash(s) # "giving"
      BY DEF AfterCrash, JobStep, InRedeem
    <2>3. \A q \in Procs : /\ current'[q] \subseteq current[q]
                           /\ sweep'[q] = "giving" => sweep[q] = "giving"
      BY <1>0, <1>3 DEF Crash
    <2>4. \A j \in Jobs : job'[j] = "giving" => job[j] = "giving"
      BY <1>0, <2>1, <2>2
    <2>5. QED
      BY <1>0, <2>3, <2>4 DEF OneGiver
  <1>4. CASE UNCHANGED vars \/ (\E k \in Calls : CallNext(k))
             \/ (\E p \in Procs : AdminNext(p)) \/ (\E j \in Jobs : Age(j))
    <2>1. job' = job /\ sweep' = sweep /\ current' = current
      BY <1>4 DEF vars, tasks, CallNext, MoveCall, RegisterSelect, RegisterUpdate,
            RegisterCommit, CallStatementFails, AdminNext, MoveAdmin, MintInsert,
            RevokeUpdate, AdminCommit, AdminStatementFails, StatusSelect, Age
    <2>2. QED
      BY <1>0, <2>1 DEF OneGiver
  <1>5. QED
    BY <1>1, <1>2, <1>3, <1>4 DEF Next

-----------------------------------------------------------------------------
LEMMA StorageSoundKept == IInv /\ ConnInv' /\ [Next]_vars => StorageSound'
  <1> SUFFICES ASSUME IInv, ConnInv', [Next]_vars PROVE StorageSound'
    OBVIOUS
  <1>1. ASSUME NEW j \in Jobs, Age(j) PROVE StorageSound'
    <2>1. UsesUntouched /\ view' = view /\ disk' = disk /\ conn' = conn
      BY <1>1 DEF Age, UsesUntouched, storage
    <2>2. QED
      BY <2>1, UntouchedBegins, AfterNoWrite
  <1>2. CASE UNCHANGED vars
    <2>1. UsesUntouched /\ view' = view /\ disk' = disk /\ conn' = conn
      BY <1>2 DEF vars, tasks, UsesUntouched, storage
    <2>2. QED
      BY <2>1, UntouchedBegins, AfterNoWrite
  <1>3. QED
    BY <1>1, <1>2, JobKeepsSound, SweepKeepsSound, CallKeepsSound, AdminKeepsSound,
       CrashKeepsSound DEF Next

LEMMA InitIInv == Init => IInv
  <1> SUFFICES ASSUME Init PROVE IInv
    OBVIOUS
  <1>1. TypeOK /\ ConnInv
    BY InitType
  <1>2. OneGiver
    BY DEF Init, OneGiver
  <1>3. StorageSound
    <2>1. Inserting(Procs) = {} /\ Giving(Procs) = {}
      BY CodeStoreAssumption DEF Init, Inserting, Giving
    <2>2. \A c \in Codes : Held({} \cup {}, EmptyDatabase, c) = {}
      BY DEF Held, EmptyDatabase
    <2>3. \A c \in Codes : EmptyDatabase.remaining[c] = 0 /\ EmptyDatabase.total[c] = 0
      BY DEF EmptyDatabase
    <2>4. \A j \in Jobs : EmptyDatabase.outcome[j] = "absent"
      BY DEF EmptyDatabase
    <2>5. Sound(Unposted, {}, {}, EmptyDatabase)
      BY <2>2, <2>3, <2>4, FS_EmptySet DEF Sound, Unposted
    <2>6. disk = EmptyDatabase /\ \A p \in Procs : conn[p] # "writing"
      BY DEF Init, ConnInit
    <2>7. QED
      BY <2>1, <2>5, <2>6 DEF StorageSound, SoundFor
  <1>4. QED
    BY <1>1, <1>2, <1>3 DEF IInv

LEMMA IInvKept == IInv /\ [Next]_vars => IInv'
  <1>1. IInv => TypeOK /\ ConnInv
    BY DEF IInv
  <1>2. QED
    BY <1>1, TypeKept, OneGiverKept, StorageSoundKept DEF IInv

\* The inductive invariant: whoever writes, its view and the disk are sound.
THEOREM Inductive == Spec => []IInv
  <1>1. IInv /\ UNCHANGED vars => IInv'
    BY IInvKept
  <1>2. QED
    BY InitIInv, IInvKept, PTL DEF Spec

LEMMA IInvBoundsUses == IInv => NeverOverspent
  <1> SUFFICES ASSUME IInv, NEW c \in Codes
               PROVE  disk.remaining[c] + Cardinality(Spent(disk, c)) <= disk.total[c]
    BY DEF NeverOverspent
  <1>1. disk \in Database
    BY DEF IInv, TypeOK, ConnTypeOK
  <1>2. \E P \in SUBSET Procs : SoundFor(P, disk)
    BY DEF IInv, StorageSound
  <1>3. PICK P \in SUBSET Procs : SoundFor(P, disk)
    BY <1>2
  <1>4. Sound({}, {}, {}, disk)
    BY <1>1, <1>3, SoundShrinks DEF SoundFor
  <1>5. Held({} \cup {}, disk, c) = Spent(disk, c)
    BY DEF Held, Spent
  <1>6. QED
    BY <1>4, <1>5 DEF Sound

\* No code ever pays for more analyses than it was minted with, for any number
\* of processes, coroutines and crashes.
THEOREM NoOverspend == Spec => []NeverOverspent
  BY Inductive, IInvBoundsUses, PTL

-----------------------------------------------------------------------------
(* Databases that may follow one another.                                  *)

\* Only a minted code can be revoked.
Sane(db) == \A c \in Codes : db.revoked[c] => db.total[c] # 0

Lawful(db1, db2) ==
    /\ \A j \in Jobs : db1.outcome[j] \in {"complete", "refunded"}
                            => db2.outcome[j] = db1.outcome[j]
    /\ \A j \in Jobs : db1.outcome[j] # "absent" => db2.outcome[j] # "absent"
    /\ \A c \in Codes : db1.revoked[c]
                            => db2.revoked[c] /\ db2.remaining[c] >= db1.remaining[c]
    /\ \A c \in Codes : db1.total[c] # 0 => db2.total[c] = db1.total[c]

LEMMA LawfulIsReflexive == ASSUME NEW db \in Database PROVE Lawful(db, db)
  BY DEF Lawful, Database

LEMMA LawfulIsTransitive ==
    ASSUME NEW db1 \in Database, NEW db2 \in Database, NEW db3 \in Database,
           Lawful(db1, db2), Lawful(db2, db3)
    PROVE  Lawful(db1, db3)
  BY DEF Lawful, Database

\* A statement that leaves a sane database sane and takes nothing back.
Keeps(db1, db2) == Sane(db1) => Lawful(db1, db2) /\ Sane(db2)

LEMMA StatementsKeep ==
    ASSUME NEW db \in Database, NEW c \in Codes, NEW j \in Jobs
    PROVE  /\ Keeps(db, db)
           /\ Redeemable(db, c) => Keeps(db, SpendUse(db, c))
           /\ db.outcome[j] = "absent" => Keeps(db, InsertRedemption(db, j))
           /\ \A o \in {"complete", "refunded"} : Keeps(db, SetOutcome(db, j, o))
           /\ Keeps(db, GiveUseBack(db, j))
           /\ Keeps(db, CountCall(db, c))
           /\ \A uses \in Nat : db.total[c] = 0 => Keeps(db, MintCode(db, c, uses))
           /\ db.total[c] > 0 => Keeps(db, RevokeCode(db, c))
  <1> USE DEF Keeps, Sane, Lawful
  <1>0. /\ db.total \in [Codes -> Nat] /\ db.remaining \in [Codes -> Nat]
        /\ db.revoked \in [Codes -> BOOLEAN] /\ db.outcome \in [Jobs -> Outcome]
    BY DEF Database
  <1>1. Keeps(db, db)
    BY <1>0
  <1>2. ASSUME Redeemable(db, c) PROVE Keeps(db, SpendUse(db, c))
    <2>1. /\ SpendUse(db, c).total = db.total /\ SpendUse(db, c).revoked = db.revoked
          /\ SpendUse(db, c).outcome = db.outcome
          /\ \A d \in Codes \ {c} : SpendUse(db, c).remaining[d] = db.remaining[d]
      BY <1>0 DEF SpendUse, Database
    <2>2. ~db.revoked[c]
      BY <1>2 DEF Redeemable
    <2>3. QED
      BY <1>0, <2>1, <2>2
  <1>3. ASSUME db.outcome[j] = "absent" PROVE Keeps(db, InsertRedemption(db, j))
    <2>1. /\ InsertRedemption(db, j).total = db.total
          /\ InsertRedemption(db, j).revoked = db.revoked
          /\ InsertRedemption(db, j).remaining = db.remaining
          /\ InsertRedemption(db, j).outcome[j] = "open"
          /\ \A i \in Jobs \ {j} : InsertRedemption(db, j).outcome[i] = db.outcome[i]
      BY <1>0 DEF InsertRedemption, Database
    <2>2. QED
      BY <1>0, <1>3, <2>1
  <1>4. ASSUME NEW o \in {"complete", "refunded"} PROVE Keeps(db, SetOutcome(db, j, o))
    <2>1. /\ SetOutcome(db, j, o).total = db.total
          /\ SetOutcome(db, j, o).revoked = db.revoked
          /\ SetOutcome(db, j, o).remaining = db.remaining
          /\ \A i \in Jobs : SetOutcome(db, j, o).outcome[i] =
                IF i = j /\ db.outcome[i] = "open" THEN o ELSE db.outcome[i]
      BY <1>0 DEF SetOutcome, Database
    <2>2. QED
      BY <1>0, <2>1
  <1>5. Keeps(db, GiveUseBack(db, j))
    <2>1. /\ GiveUseBack(db, j).total = db.total
          /\ GiveUseBack(db, j).revoked = db.revoked
          /\ GiveUseBack(db, j).outcome = db.outcome
          /\ \A d \in Codes : GiveUseBack(db, j).remaining[d] >= db.remaining[d]
      BY <1>0, CodeStoreAssumption DEF GiveUseBack, Database
    <2>2. QED
      BY <1>0, <2>1
  <1>6. Keeps(db, CountCall(db, c))
    <2>1. /\ CountCall(db, c).total = db.total
          /\ CountCall(db, c).revoked = db.revoked
          /\ CountCall(db, c).outcome = db.outcome
          /\ CountCall(db, c).remaining = db.remaining
      BY DEF CountCall, Database
    <2>2. QED
      BY <1>0, <2>1
  <1>7. ASSUME NEW uses \in Nat, db.total[c] = 0 PROVE Keeps(db, MintCode(db, c, uses))
    <2>1. /\ MintCode(db, c, uses).outcome = db.outcome
          /\ ~MintCode(db, c, uses).revoked[c]
          /\ \A d \in Codes \ {c} :
                /\ MintCode(db, c, uses).total[d] = db.total[d]
                /\ MintCode(db, c, uses).revoked[d] = db.revoked[d]
                /\ MintCode(db, c, uses).remaining[d] = db.remaining[d]
      BY <1>0 DEF MintCode, Database
    <2>2. QED
      BY <1>0, <1>7, <2>1
  <1>8. ASSUME db.total[c] > 0 PROVE Keeps(db, RevokeCode(db, c))
    <2>1. /\ RevokeCode(db, c).outcome = db.outcome
          /\ RevokeCode(db, c).total = db.total
          /\ RevokeCode(db, c).remaining = db.remaining
          /\ \A d \in Codes : RevokeCode(db, c).revoked[d] = (d = c \/ db.revoked[d])
      BY <1>0 DEF RevokeCode, Database
    <2>2. QED
      BY <1>0, <1>8, <2>1
  <1>9. QED
    BY <1>1, <1>2, <1>3, <1>4, <1>5, <1>6, <1>7, <1>8

-----------------------------------------------------------------------------
(* Every statement of the program takes nothing back.                      *)

LawfulStep ==
    \/ UNCHANGED storage
    \/ \E p \in Procs : \/ \E db \in Database : Write(p, db) /\ Keeps(view[p], db)
                        \/ WriteFails(p) \/ Read(p) \/ Commit(p)
                        \/ Crash(p) /\ Disconnect(p)

LEMMA NextIsLawful == IInv /\ [Next]_vars => LawfulStep
  <1> SUFFICES ASSUME IInv, [Next]_vars PROVE LawfulStep
    OBVIOUS
  <1> USE CodeStoreAssumption
  <1>0. TypeOK /\ view \in [Procs -> Database]
    BY DEF IInv, TypeOK, ConnTypeOK
  <1>1. ASSUME NEW j \in Jobs, JobNext(j) PROVE LawfulStep
    <2>0. Home[j] \in Procs /\ CodeOf[j] \in Codes /\ view[Home[j]] \in Database
      BY <1>0
    <2>1. CASE RedeemUpdate(j)
      <3>1. CASE Redeemable(view[Home[j]], CodeOf[j])
        BY <2>0, <2>1, <3>1, StatementsType, StatementsKeep DEF RedeemUpdate, LawfulStep
      <3>2. CASE ~Redeemable(view[Home[j]], CodeOf[j])
        BY <2>0, <2>1, <3>2, StatementsKeep DEF RedeemUpdate, LawfulStep
      <3>3. QED
        BY <3>1, <3>2
    <2>2. CASE RedeemInsert(j)
      <3>1. job[j] = "inserting" /\ CanWrite(Home[j])
        BY <2>2 DEF RedeemInsert, MoveJob, Write
      <3>2. SoundFor(Procs, view[Home[j]])
        BY <2>0, <3>1, WriterSees
      <3>3. view[Home[j]].outcome[j] = "absent"
        BY <2>0, <3>1, <3>2 DEF SoundFor, Sound, Inserting
      <3>4. QED
        BY <2>0, <2>2, <3>3, StatementsType, StatementsKeep DEF RedeemInsert, LawfulStep
    <2>3. CASE FinishUpdate(j)
      <3>1. "complete" \in Outcome
        BY DEF Outcome
      <3>2. QED
        BY <2>0, <2>3, <3>1, StatementsType, StatementsKeep DEF FinishUpdate, LawfulStep
    <2>4. CASE RefundMark(j)
      <3>1. "refunded" \in Outcome
        BY DEF Outcome
      <3>2. QED
        BY <2>0, <2>4, <3>1, StatementsType, StatementsKeep DEF RefundMark, LawfulStep
    <2>5. CASE RefundGive(j)
      BY <2>0, <2>5, StatementsType, StatementsKeep DEF RefundGive, LawfulStep
    <2>6. CASE RedeemRefuse(j) \/ RedeemCommit(j) \/ FinishCommit(j) \/ RefundCommit(j)
      BY <2>0, <2>6 DEF RedeemRefuse, RedeemCommit, FinishCommit, RefundCommit, LawfulStep
    <2>7. CASE Deliver(j) \/ Fail(j)
      BY <2>7 DEF Deliver, Fail, LawfulStep
    <2>8. CASE JobStatementFails(j)
      BY <2>0, <2>8 DEF JobStatementFails, LawfulStep
    <2>9. QED
      BY <1>1, <2>1, <2>2, <2>3, <2>4, <2>5, <2>6, <2>7, <2>8 DEF JobNext
  <1>2. ASSUME NEW j \in Jobs, Age(j) PROVE LawfulStep
    BY <1>2 DEF Age, LawfulStep
  <1>3. ASSUME NEW k \in Calls, CallNext(k) PROVE LawfulStep
    <2>0. Home[k] \in Procs /\ CodeOf[k] \in Codes /\ view[Home[k]] \in Database
      BY <1>0
    <2>1. CASE RegisterUpdate(k)
      <3>1. Keeps(view[Home[k]], CountCall(view[Home[k]], CodeOf[k]))
        BY <2>0 DEF CountCall, Database, Keeps, Sane, Lawful
      <3>2. CountCall(view[Home[k]], CodeOf[k]) \in Database
        BY <2>0 DEF CountCall, Database
      <3>3. QED
        BY <2>0, <2>1, <3>1, <3>2 DEF RegisterUpdate, LawfulStep
    <2>2. CASE RegisterSelect(k) \/ RegisterCommit(k) \/ CallStatementFails(k)
      BY <2>0, <2>2 DEF RegisterSelect, RegisterCommit, CallStatementFails, LawfulStep
    <2>3. QED
      BY <1>3, <2>1, <2>2 DEF CallNext
  <1>4. ASSUME NEW p \in Procs, SweepNext(p) PROVE LawfulStep
    <2>1. CASE SweepSelect(p) \/ SweepCommit(p) \/ SweepStatementFails(p)
      BY <2>1 DEF SweepSelect, SweepCommit, SweepStatementFails, LawfulStep
    <2>2. ASSUME NEW j \in Jobs, SweepMark(p, j) \/ SweepGive(p, j) PROVE LawfulStep
      <3>1. "refunded" \in Outcome /\ CodeOf[j] \in Codes
        BY DEF Outcome
      <3>2. CASE SweepMark(p, j)
        BY <1>0, <3>1, <3>2, StatementsType, StatementsKeep DEF SweepMark, LawfulStep
      <3>3. CASE SweepGive(p, j)
        BY <1>0, <3>1, <3>3, StatementsType, StatementsKeep DEF SweepGive, LawfulStep
      <3>4. QED
        BY <2>2, <3>2, <3>3
    <2>3. QED
      BY <1>4, <2>1, <2>2 DEF SweepNext
  <1>5. ASSUME NEW p \in Procs, AdminNext(p) PROVE LawfulStep
    <2>0. view[p] \in Database
      BY <1>0
    <2>1. ASSUME NEW c \in Codes, NEW uses \in 1..MaxUses, MintInsert(p, c, uses)
          PROVE  LawfulStep
      <3>1. view[p].total[c] = 0 /\ Write(p, MintCode(view[p], c, uses)) /\ uses \in Nat
        BY <2>1 DEF MintInsert
      <3>2. MintCode(view[p], c, uses) \in Database
        BY <2>0, <3>1 DEF MintCode, Database
      <3>3. Keeps(view[p], MintCode(view[p], c, uses))
        <4>1. /\ MintCode(view[p], c, uses).outcome = view[p].outcome
              /\ ~MintCode(view[p], c, uses).revoked[c]
              /\ \A d \in Codes \ {c} :
                    /\ MintCode(view[p], c, uses).total[d] = view[p].total[d]
                    /\ MintCode(view[p], c, uses).revoked[d] = view[p].revoked[d]
                    /\ MintCode(view[p], c, uses).remaining[d] = view[p].remaining[d]
          BY <2>0 DEF MintCode, Database
        <4>2. view[p].remaining \in [Codes -> Nat] /\ view[p].revoked \in [Codes -> BOOLEAN]
          BY <2>0 DEF Database
        <4>3. QED
          BY <3>1, <4>1, <4>2 DEF Keeps, Sane, Lawful
      <3>4. QED
        BY <3>1, <3>2, <3>3 DEF LawfulStep
    <2>2. ASSUME NEW c \in Codes, RevokeUpdate(p, c) PROVE LawfulStep
      <3>1. view[p].total[c] > 0 /\ Write(p, RevokeCode(view[p], c))
        BY <2>2 DEF RevokeUpdate
      <3>2. RevokeCode(view[p], c) \in Database
        BY <2>0 DEF RevokeCode, Database
      <3>3. Keeps(view[p], RevokeCode(view[p], c))
        <4>1. /\ RevokeCode(view[p], c).outcome = view[p].outcome
              /\ RevokeCode(view[p], c).total = view[p].total
              /\ RevokeCode(view[p], c).remaining = view[p].remaining
              /\ \A d \in Codes : RevokeCode(view[p], c).revoked[d]
                                        = (d = c \/ view[p].revoked[d])
          BY <2>0 DEF RevokeCode, Database
        <4>2. /\ view[p].remaining \in [Codes -> Nat] /\ view[p].total \in [Codes -> Nat]
              /\ view[p].revoked \in [Codes -> BOOLEAN]
          BY <2>0 DEF Database
        <4>3. QED
          BY <3>1, <4>1, <4>2 DEF Keeps, Sane, Lawful
      <3>4. QED
        BY <3>1, <3>2, <3>3 DEF LawfulStep
    <2>3. CASE AdminCommit(p) \/ AdminStatementFails(p) \/ StatusSelect(p)
      BY <2>3 DEF AdminCommit, AdminStatementFails, StatusSelect, LawfulStep
    <2>4. QED
      BY <1>5, <2>1, <2>2, <2>3 DEF AdminNext
  <1>6. ASSUME NEW p \in Procs, Crash(p) PROVE LawfulStep
    BY <1>6 DEF Crash, LawfulStep
  <1>7. CASE UNCHANGED vars
    BY <1>7 DEF vars, LawfulStep
  <1>8. QED
    BY <1>1, <1>2, <1>3, <1>4, <1>5, <1>6, <1>7 DEF Next

-----------------------------------------------------------------------------
(* Nor does a commit: a writer's view is a lawful successor of the disk.   *)

ViewsLawful ==
    /\ Sane(disk)
    /\ \A p \in Procs : Sane(view[p]) /\ (conn[p] = "writing" => Lawful(disk, view[p]))

DiskLawful == Lawful(disk, disk')

LEMMA LawfulKept ==
    ASSUME ConnTypeOK(Database), ConnInv, ViewsLawful, LawfulStep
    PROVE  ViewsLawful' /\ DiskLawful
  <1>0. /\ disk \in Database /\ view \in [Procs -> Database]
        /\ conn \in [Procs -> ConnStates]
    BY DEF ConnTypeOK
  <1>1. Lawful(disk, disk)
    BY <1>0, LawfulIsReflexive
  <1>2. CASE UNCHANGED storage
    BY <1>1, <1>2 DEF storage, ViewsLawful, DiskLawful
  <1>3. ASSUME NEW p \in Procs, NEW db \in Database, Write(p, db), Keeps(view[p], db)
        PROVE  ViewsLawful' /\ DiskLawful
    <2>1. /\ disk' = disk /\ conn[p] # "stale"
          /\ \A q \in Procs : view'[q] = IF q = p THEN db ELSE view[q]
          /\ \A q \in Procs : conn'[q] = IF q = p THEN "writing" ELSE conn[q]
      BY <1>0, <1>3 DEF Write, CanWrite
    <2>2. Sane(view[p]) /\ Lawful(view[p], db) /\ Sane(db)
      BY <1>3 DEF ViewsLawful, Keeps
    <2>3. Lawful(disk, view[p])
      <3>1. CASE conn[p] = "writing"
        BY <3>1 DEF ViewsLawful
      <3>2. CASE conn[p] # "writing"
        BY <1>1, <2>1, <3>2 DEF ConnInv
      <3>3. QED
        BY <3>1, <3>2
    <2>4. Lawful(disk, db)
      BY <1>0, <2>2, <2>3, LawfulIsTransitive
    <2>5. QED
      BY <1>1, <2>1, <2>2, <2>4 DEF ViewsLawful, DiskLawful
  <1>4. ASSUME NEW p \in Procs, WriteFails(p) \/ Read(p) PROVE ViewsLawful' /\ DiskLawful
    <2>1. /\ disk' = disk /\ view' = view
          /\ \A q \in Procs : conn'[q] = "writing" => conn[q] = "writing"
      BY <1>0, <1>4 DEF WriteFails, Read
    <2>2. QED
      BY <1>1, <2>1 DEF ViewsLawful, DiskLawful
  <1>5. ASSUME NEW p \in Procs, Disconnect(p) PROVE ViewsLawful' /\ DiskLawful
    <2>1. /\ disk' = disk
          /\ \A q \in Procs : view'[q] = IF q = p THEN disk ELSE view[q]
          /\ \A q \in Procs : conn'[q] = IF q = p THEN "idle" ELSE conn[q]
      BY <1>0, <1>5 DEF Disconnect
    <2>2. QED
      BY <1>1, <2>1 DEF ViewsLawful, DiskLawful
  <1>6. ASSUME NEW p \in Procs, Commit(p) PROVE ViewsLawful' /\ DiskLawful
    <2>1. disk' = IF conn[p] = "writing" THEN view[p] ELSE disk
      BY <1>6 DEF Commit
    <2>2. Lawful(disk, disk') /\ Sane(disk')
      BY <1>1, <2>1 DEF ViewsLawful
    <2>3. \A q \in Procs : view'[q] = disk' \/ view'[q] = view[q]
      BY <1>6, <2>1 DEF Commit
    <2>4. \A q \in Procs : conn'[q] = "writing" => q # p /\ conn[q] = "writing" /\ view'[q] = view[q]
      BY <1>6, <2>1 DEF Commit
    <2>5. \A q \in Procs : conn'[q] = "writing" => disk' = disk
      BY <2>1, <2>4 DEF ConnInv
    <2>6. QED
      BY <2>2, <2>3, <2>4, <2>5 DEF ViewsLawful, DiskLawful
  <1>7. QED
    BY <1>2, <1>3, <1>4, <1>5, <1>6 DEF LawfulStep

LEMMA InitLawful == Init => ViewsLawful
  <1> SUFFICES ASSUME Init PROVE ViewsLawful
    OBVIOUS
  <1>1. Sane(EmptyDatabase)
    BY DEF Sane, EmptyDatabase
  <1>2. /\ disk = EmptyDatabase
        /\ \A p \in Procs : view[p] = EmptyDatabase /\ conn[p] = "idle"
    BY DEF Init, ConnInit
  <1>3. QED
    BY <1>1, <1>2 DEF ViewsLawful

LEMMA LawfulKeptByNext ==
    IInv /\ ViewsLawful /\ [Next]_vars => ViewsLawful' /\ DiskLawful
  <1>1. IInv => ConnTypeOK(Database) /\ ConnInv
    BY DEF IInv, TypeOK
  <1>2. QED
    BY <1>1, NextIsLawful, LawfulKept

LEMMA AlwaysLawful == Spec => []ViewsLawful
  BY InitLawful, LawfulKeptByNext, Inductive, PTL DEF Spec

-----------------------------------------------------------------------------
(* The action properties.                                                  *)

\* A settled outcome is never overwritten, whoever races to settle the job.
THEOREM OutcomesAreFinal == Spec => OutcomeIsFinal
  <1>1. DiskLawful => \A j \in Jobs : disk.outcome[j] \in {"complete", "refunded"}
                                        => disk'.outcome[j] = disk.outcome[j]
    BY DEF DiskLawful, Lawful
  <1>2. IInv /\ ViewsLawful /\ [Next]_vars =>
            [\A j \in Jobs : disk.outcome[j] \in {"complete", "refunded"}
                                => disk'.outcome[j] = disk.outcome[j]]_vars
    BY <1>1, LawfulKeptByNext
  <1>3. QED
    BY <1>2, Inductive, AlwaysLawful, PTL DEF Spec, OutcomeIsFinal

\* A committed revocation holds, and no use is taken after it.
THEOREM RevocationsHold == Spec => RevocationHolds
  <1>1. DiskLawful => \A c \in Codes : disk.revoked[c]
                        => disk'.revoked[c] /\ disk'.remaining[c] >= disk.remaining[c]
    BY DEF DiskLawful, Lawful
  <1>2. IInv /\ ViewsLawful /\ [Next]_vars =>
            [\A c \in Codes : disk.revoked[c]
                => disk'.revoked[c] /\ disk'.remaining[c] >= disk.remaining[c]]_vars
    BY <1>1, LawfulKeptByNext
  <1>3. QED
    BY <1>2, Inductive, AlwaysLawful, PTL DEF Spec, RevocationHolds

-----------------------------------------------------------------------------
(* Acceptance.                                                             *)

\* The row of j is on disk, or in the open transaction of its process.
Recorded(j) == disk.outcome[j] # "absent"
Written(j) ==
    \/ Recorded(j)
    \/ conn[Home[j]] = "writing" /\ view[Home[j]].outcome[j] # "absent"

AcceptedInv ==
    \A j \in Jobs :
        /\ job[j] \in Accepted => Recorded(j)
        /\ job[j] = "committing" => Written(j)

\* Whoever commits, a row that is written stays, but for a crash of its process.
LEMMA WrittenStays ==
    ASSUME ConnTypeOK(Database), ConnInv, ViewsLawful, LawfulStep, NEW j \in Jobs, Written(j)
    PROVE  Written(j)' \/ Crash(Home[j])
  <1> DEFINE p == Home[j]
  <1>0. /\ disk \in Database /\ view \in [Procs -> Database] /\ conn \in [Procs -> ConnStates]
        /\ p \in Procs
    BY CodeStoreAssumption DEF ConnTypeOK
  <1>1. CASE Recorded(j)
    <2>1. DiskLawful
      BY LawfulKept
    <2>2. QED
      BY <1>1, <2>1 DEF DiskLawful, Lawful, Recorded, Written
  <1>2. CASE conn[p] = "writing" /\ view[p].outcome[j] # "absent"
    <2>1. CASE UNCHANGED storage
      BY <1>2, <2>1 DEF storage, Written, Recorded
    <2>2. ASSUME NEW q \in Procs, NEW db \in Database, Write(q, db), Keeps(view[q], db)
          PROVE  Written(j)'
      <3>1. q = p
        BY <1>0, <1>2, <2>2 DEF Write, CanWrite
      <3>2. conn'[p] = "writing" /\ view'[p] = db
        BY <1>0, <2>2, <3>1 DEF Write
      <3>3. Lawful(view[p], db)
        BY <2>2, <3>1 DEF Keeps, ViewsLawful
      <3>4. QED
        BY <1>2, <3>2, <3>3 DEF Lawful, Written
    <2>3. ASSUME NEW q \in Procs, WriteFails(q) \/ Read(q) PROVE Written(j)'
      <3>1. view' = view /\ conn'[p] = "writing"
        BY <1>0, <1>2, <2>3 DEF WriteFails, Read
      <3>2. QED
        BY <1>2, <3>1 DEF Written
    <2>4. ASSUME NEW q \in Procs, Commit(q) PROVE Written(j)'
      <3>1. CASE q = p
        BY <1>2, <2>4, <3>1 DEF Commit, Written, Recorded
      <3>2. CASE q # p
        BY <1>0, <1>2, <2>4, <3>2 DEF Commit, Written
      <3>3. QED
        BY <3>1, <3>2
    <2>5. ASSUME NEW q \in Procs, Crash(q), Disconnect(q), q # p PROVE Written(j)'
      BY <1>0, <1>2, <2>5 DEF Disconnect, Written
    <2>6. QED
      BY <2>1, <2>2, <2>3, <2>4, <2>5 DEF LawfulStep
  <1>3. QED
    BY <1>1, <1>2 DEF Written

\* Only the steps of a job and a crash move jobs.
LEMMA JobMoves ==
    ASSUME [Next]_vars
    PROVE  \/ job' = job
           \/ \E i \in Jobs : JobNext(i)
           \/ \E p \in Procs : Crash(p)
  <1>1. ASSUME NEW i \in Jobs, Age(i) PROVE job' = job
    BY <1>1 DEF Age
  <1>2. ASSUME NEW k \in Calls, CallNext(k) PROVE job' = job
    BY <1>2 DEF CallNext, RegisterSelect, RegisterUpdate, RegisterCommit, CallStatementFails,
        MoveCall
  <1>3. ASSUME NEW p \in Procs, SweepNext(p) \/ AdminNext(p) PROVE job' = job
    BY <1>3 DEF SweepNext, SweepSelect, SweepMark, SweepGive, SweepCommit,
        SweepStatementFails, AdminNext, MintInsert, RevokeUpdate, AdminCommit,
        AdminStatementFails, StatusSelect, MoveAdmin, tasks
  <1>4. QED
    BY <1>1, <1>2, <1>3 DEF Next, vars, tasks

\* A job is accepted by the commit of redeem() alone, after its INSERT.
LEMMA AcceptedByCommit ==
    ASSUME TypeOK, [Next]_vars, NEW j \in Jobs
    PROVE  /\ job'[j] \in Accepted => job[j] \in Accepted \/ RedeemCommit(j)
           /\ job'[j] = "committing" =>
                  RedeemInsert(j) \/ (job[j] = "committing" /\ ~Crash(Home[j]))
  <1>0. job \in [Jobs -> JobStep] /\ job[j] \in JobStep
    BY DEF TypeOK
  <1>1. job'[j] = "committing" => ~Crash(Home[j])
    BY <1>0 DEF Crash, AfterCrash, InRedeem, JobStep
  <1>2. CASE job' = job
    BY <1>1, <1>2
  <1>3. ASSUME NEW i \in Jobs, JobNext(i)
        PROVE  /\ job'[j] \in Accepted => job[j] \in Accepted \/ RedeemCommit(j)
               /\ job'[j] = "committing" => RedeemInsert(j) \/ job[j] = "committing"
    BY <1>0, <1>3 DEF JobNext, RedeemUpdate, RedeemRefuse, RedeemInsert, RedeemCommit,
        Deliver, Fail, FinishUpdate, FinishCommit, RefundMark, RefundGive, RefundCommit,
        JobStatementFails, MoveJob, Accepted
  <1>4. ASSUME NEW p \in Procs, Crash(p)
        PROVE  /\ job'[j] \in Accepted => job[j] \in Accepted
               /\ job'[j] = "committing" => job[j] = "committing"
    BY <1>0, <1>4 DEF Crash, AfterCrash, Accepted, InRedeem, JobStep
  <1>5. QED
    BY <1>1, <1>2, <1>3, <1>4, JobMoves

LEMMA AcceptedKept ==
    IInv /\ ViewsLawful /\ AcceptedInv /\ [Next]_vars => AcceptedInv'
  <1> SUFFICES ASSUME IInv, ViewsLawful, AcceptedInv, [Next]_vars, NEW j \in Jobs
               PROVE  /\ job'[j] \in Accepted => Recorded(j)'
                      /\ job'[j] = "committing" => Written(j)'
    BY DEF AcceptedInv
  <1>0. /\ TypeOK /\ ConnTypeOK(Database) /\ ConnInv /\ LawfulStep
        /\ Home[j] \in Procs /\ view \in [Procs -> Database] /\ conn \in [Procs -> ConnStates]
    BY NextIsLawful, CodeStoreAssumption DEF IInv, TypeOK, ConnTypeOK
  <1>1. Recorded(j) => Recorded(j)'
    BY <1>0, LawfulKept DEF DiskLawful, Lawful, Recorded
  <1>2. RedeemCommit(j) => Recorded(j)'
    <2>1. ASSUME RedeemCommit(j) PROVE Written(j) /\ Commit(Home[j])
      BY <2>1 DEF RedeemCommit, MoveJob, AcceptedInv
    <2>2. ASSUME Written(j), Commit(Home[j]) PROVE Recorded(j)'
      <3>1. disk' = IF conn[Home[j]] = "writing" THEN view[Home[j]] ELSE disk
        BY <2>2 DEF Commit
      <3>2. CASE Recorded(j)
        BY <1>1, <3>2
      <3>3. CASE ~Recorded(j)
        BY <2>2, <3>1, <3>3 DEF Written, Recorded
      <3>4. QED
        BY <3>2, <3>3
    <2>3. QED
      BY <2>1, <2>2
  <1>3. RedeemInsert(j) => Written(j)'
    <2>1. view[Home[j]].outcome \in [Jobs -> Outcome]
      BY <1>0 DEF Database
    <2>2. InsertRedemption(view[Home[j]], j).outcome[j] = "open"
      BY <2>1, <1>0 DEF InsertRedemption, Database
    <2>3. QED
      BY <1>0, <2>2 DEF RedeemInsert, Write, Written
  <1>4. QED
    BY <1>0, <1>1, <1>2, <1>3, AcceptedByCommit, WrittenStays DEF AcceptedInv

(* A job that runs has its redemption on disk, whichever coroutine's       *)
(* commit() put it there (code_store.py:163-194): what a crash leaves      *)
(* behind is a row for the sweep, never an accepted job without one.       *)
THEOREM AcceptedStaysRecorded == Spec => []AcceptedIsRecorded
  <1>1. Init => AcceptedInv
    BY DEF Init, AcceptedInv, Accepted
  <1>2. AcceptedInv => AcceptedIsRecorded
    BY DEF AcceptedInv, AcceptedIsRecorded, Recorded
  <1>3. QED
    BY <1>1, <1>2, AcceptedKept, Inductive, AlwaysLawful, PTL DEF Spec

-----------------------------------------------------------------------------
(* Generation calls.                                                       *)

\* The calls of c that a database has counted when it holds what the
\* coroutines of the processes P have written.
Counted(P, c) ==
    {k \in Calls : /\ CodeOf[k] = c
                   /\ call[k] = "ok" \/ (call[k] = "counted" /\ Home[k] \in P)}

\* One allowance for every use spent.
Allowed(c) == MaxPromptCalls * Cardinality(Resets(c))

CountsWithin(P, db) ==
    \A c \in Codes : Cardinality(Counted(P, c)) <= db.calls[c] + Allowed(c)

\* A row's counter is within the allowance, and only a row counts or has uses.
CountsFit(db) ==
    \A c \in Codes : /\ db.calls[c] <= MaxPromptCalls
                     /\ db.remaining[c] # 0 \/ db.calls[c] # 0 => db.total[c] # 0

CountsFits == CountsFit(disk) /\ \A p \in Procs : CountsFit(view[p])

\* A connection pinned to a replaced state is only behind.
PinnedBehind == \A p \in Procs : conn[p] = "stale" => Lawful(view[p], disk)

\* A call is counted against a row that its process still sees.
CallsMinted ==
    \A k \in Calls : call[k] = "counting" => view[Home[k]].total[CodeOf[k]] # 0

\* What a writer has counted covers every call, and the disk those of the others.
CountsInFlight ==
    /\ (\A p \in Procs : conn[p] # "writing") => CountsWithin(Procs, disk)
    /\ \A p \in Procs : conn[p] = "writing" =>
            CountsWithin(Procs, view[p]) /\ CountsWithin(Procs \ {p}, disk)

CountsInv == CountsFits /\ PinnedBehind /\ CallsMinted /\ CountsInFlight

\* A view that is not pinned to a replaced state never has more uses than it
\* was minted with.
LEMMA ViewsWithin ==
    ASSUME IInv, NEW p \in Procs, conn[p] # "stale", NEW c \in Codes
    PROVE  /\ view[p].remaining[c] <= view[p].total[c]
           /\ view[p].remaining[c] \in Nat /\ view[p].total[c] \in Nat
  <1>0. view[p] \in Database /\ disk \in Database
    BY DEF IInv, TypeOK, ConnTypeOK
  <1>1. ASSUME NEW P, NEW db \in Database, SoundFor(P, db)
        PROVE  db.remaining[c] <= db.total[c]
    <2>1. Cardinality(Held(Inserting(P) \cup Giving(P), db, c)) \in Nat
      BY HeldFinite
    <2>2. db.remaining[c] + Cardinality(Held(Inserting(P) \cup Giving(P), db, c)) <= db.total[c]
      BY <1>1 DEF SoundFor, Sound
    <2>3. QED
      BY <2>1, <2>2 DEF Database
  <1>2. CASE conn[p] = "writing"
    BY <1>0, <1>1, <1>2 DEF IInv, StorageSound, Database
  <1>3. CASE conn[p] # "writing"
    <2>1. view[p] = disk
      BY <1>3 DEF IInv, ConnInv
    <2>2. \E P : SoundFor(P, disk)
      BY DEF IInv, StorageSound
    <2>3. QED
      BY <1>0, <1>1, <2>1, <2>2 DEF Database
  <1>4. QED
    BY <1>2, <1>3

LEMMA CountedFinite ==
    ASSUME NEW P, NEW c
    PROVE  IsFiniteSet(Counted(P, c)) /\ Cardinality(Counted(P, c)) \in Nat
  <1>1. Counted(P, c) \subseteq Calls
    BY DEF Counted
  <1>2. QED
    BY <1>1, CodeStoreAssumption, FS_Subset, FS_CardinalityType

LEMMA ResetsFinite ==
    ASSUME NEW c
    PROVE  IsFiniteSet(Resets(c)) /\ Cardinality(Resets(c)) \in Nat /\ Allowed(c) \in Nat
  <1>1. Resets(c) \subseteq Jobs
    BY DEF Resets
  <1>2. IsFiniteSet(Resets(c)) /\ Cardinality(Resets(c)) \in Nat
    BY <1>1, CodeStoreAssumption, FS_Subset, FS_CardinalityType
  <1>3. QED
    BY <1>2, CodeStoreAssumption DEF Allowed

LEMMA ProductGrows ==
    ASSUME NEW k \in Nat, NEW m \in Nat, NEW n \in Nat, m <= n
    PROVE  k * m <= k * n
  <1>1. n - m \in Nat /\ n = m + (n - m)
    OBVIOUS
  <1>2. k * n = k * m + k * (n - m)
    BY <1>1
  <1>3. k * (n - m) \in Nat /\ k * m \in Nat
    BY <1>1
  <1>4. QED
    BY <1>2, <1>3

\* A use spent is never unspent, so allowances only grow.
LEMMA AllowedGrows ==
    ASSUME TypeOK, [Next]_vars, NEW c \in Codes
    PROVE  Allowed(c)' \in Nat /\ Allowed(c) <= Allowed(c)'
  <1>0. job \in [Jobs -> JobStep]
    BY DEF TypeOK
  <1>1. \A j \in Jobs : job[j] \notin {"new", "refusing", "refused"}
                            => job'[j] \notin {"new", "refusing", "refused"}
    <2>1. CASE job' = job
      BY <2>1
    <2>2. ASSUME NEW i \in Jobs, JobNext(i)
          PROVE  \A j \in Jobs : job[j] \notin {"new", "refusing", "refused"}
                                    => job'[j] \notin {"new", "refusing", "refused"}
      BY <1>0, <2>2 DEF JobNext, RedeemUpdate, RedeemRefuse, RedeemInsert, RedeemCommit,
          Deliver, Fail, FinishUpdate, FinishCommit, RefundMark, RefundGive, RefundCommit,
          JobStatementFails, MoveJob
    <2>3. ASSUME NEW p \in Procs, Crash(p)
          PROVE  \A j \in Jobs : job[j] \notin {"new", "refusing", "refused"}
                                    => job'[j] \notin {"new", "refusing", "refused"}
      BY <1>0, <2>3 DEF Crash, AfterCrash, InRedeem
    <2>4. QED
      BY <2>1, <2>2, <2>3, JobMoves
  <1>2. Resets(c) \subseteq Resets(c)'
    BY <1>1 DEF Resets
  <1>3. IsFiniteSet(Resets(c)') /\ Cardinality(Resets(c)') \in Nat
    <2>1. Resets(c)' \subseteq Jobs
      BY DEF Resets
    <2>2. QED
      BY <2>1, CodeStoreAssumption, FS_Subset, FS_CardinalityType
  <1>4. Cardinality(Resets(c)) <= Cardinality(Resets(c)')
    BY <1>2, <1>3, FS_Subset
  <1>5. QED
    BY <1>3, <1>4, ResetsFinite, ProductGrows, CodeStoreAssumption DEF Allowed

\* What a connection sees only moves to a lawful successor, but for a crash.
LEMMA ViewsFollow ==
    ASSUME ConnTypeOK(Database), ConnInv, ViewsLawful, LawfulStep, PinnedBehind
    PROVE  /\ PinnedBehind'
           /\ \A p \in Procs : Crash(p) \/ Lawful(view[p], view'[p])
  <1> USE DEF PinnedBehind
  <1>0. /\ disk \in Database /\ view \in [Procs -> Database] /\ conn \in [Procs -> ConnStates]
    BY DEF ConnTypeOK
  <1>1. Lawful(disk, disk) /\ \A p \in Procs : Lawful(view[p], view[p])
    BY <1>0, LawfulIsReflexive
  <1>2. Lawful(disk, disk')
    BY LawfulKept DEF DiskLawful
  <1>3. CASE UNCHANGED storage
    BY <1>1, <1>3 DEF storage
  <1>4. ASSUME NEW p \in Procs, NEW db \in Database, Write(p, db), Keeps(view[p], db)
        PROVE  /\ \A q \in Procs : conn'[q] = "stale" => Lawful(view'[q], disk')
               /\ \A q \in Procs : Lawful(view[q], view'[q])
    <2>1. Lawful(view[p], db)
      BY <1>4 DEF Keeps, ViewsLawful
    <2>2. QED
      BY <1>0, <1>1, <1>4, <2>1 DEF Write
  <1>5. ASSUME NEW p \in Procs, WriteFails(p) \/ Read(p)
        PROVE  /\ \A q \in Procs : conn'[q] = "stale" => Lawful(view'[q], disk')
               /\ \A q \in Procs : Lawful(view[q], view'[q])
    BY <1>0, <1>1, <1>5 DEF WriteFails, Read
  <1>6. ASSUME NEW p \in Procs, Commit(p)
        PROVE  /\ \A q \in Procs : conn'[q] = "stale" => Lawful(view'[q], disk')
               /\ \A q \in Procs : Lawful(view[q], view'[q])
    <2>1. disk' = IF conn[p] = "writing" THEN view[p] ELSE disk
      BY <1>6 DEF Commit
    <2>2. disk' \in Database
      BY <1>0, <2>1
    <2>3. ASSUME NEW q \in Procs PROVE conn'[q] = "stale" => Lawful(view'[q], disk')
      <3>1. conn'[q] = "stale" => view'[q] = view[q] /\ conn[q] \in {"stale", "reading"}
        BY <1>6 DEF Commit
      <3>2. conn[q] = "stale" => Lawful(view[q], disk')
        BY <1>0, <1>2, <2>2, LawfulIsTransitive
      <3>3. conn[q] = "reading" => view[q] = disk
        BY DEF ConnInv
      <3>4. QED
        BY <1>2, <3>1, <3>2, <3>3
    <2>4. ASSUME NEW q \in Procs PROVE Lawful(view[q], view'[q])
      <3>1. view'[q] = view[q] \/ view'[q] = disk'
        BY <1>6, <2>1 DEF Commit
      <3>2. CASE view'[q] = view[q]
        BY <1>1, <3>2
      <3>3. CASE view'[q] = disk' /\ conn[q] = "stale"
        BY <1>0, <1>2, <2>2, <3>3, LawfulIsTransitive
      <3>4. CASE view'[q] = disk' /\ conn[q] = "writing"
        <4>1. conn[p] = "writing" => p = q
          BY <3>4 DEF ConnInv
        <4>2. CASE p = q
          BY <1>1, <2>1, <3>4, <4>2
        <4>3. CASE p # q
          BY <1>1, <1>6, <3>4, <4>3 DEF Commit
        <4>4. QED
          BY <4>2, <4>3
      <3>5. CASE view'[q] = disk' /\ conn[q] \notin {"stale", "writing"}
        BY <1>2, <3>5 DEF ConnInv
      <3>6. QED
        BY <3>1, <3>2, <3>3, <3>4, <3>5
    <2>5. QED
      BY <2>3, <2>4
  <1>7. ASSUME NEW p \in Procs, Crash(p), Disconnect(p)
        PROVE  /\ \A q \in Procs : conn'[q] = "stale" => Lawful(view'[q], disk')
               /\ \A q \in Procs : Crash(q) \/ Lawful(view[q], view'[q])
    BY <1>0, <1>1, <1>7 DEF Disconnect
  <1>8. QED
    BY <1>3, <1>4, <1>5, <1>6, <1>7 DEF LawfulStep

\* The calls counted within P are, after the step, among those of Q before it.
Fewer(P, Q) == \A c \in Codes : Counted(P, c)' \subseteq Counted(Q, c)

CountsNext(P, db) ==
    \A c \in Codes : Cardinality(Counted(P, c)') <= db.calls[c] + Allowed(c)'

LEMMA CountsShrink ==
    ASSUME TypeOK, [Next]_vars, NEW P, NEW Q, NEW db \in Database,
           CountsWithin(Q, db), Fewer(P, Q)
    PROVE  CountsNext(P, db)
  <1> SUFFICES ASSUME NEW c \in Codes
               PROVE  Cardinality(Counted(P, c)') <= db.calls[c] + Allowed(c)'
    BY DEF CountsNext
  <1>1. Cardinality(Counted(P, c)') <= Cardinality(Counted(Q, c))
        /\ Cardinality(Counted(P, c)') \in Nat
    BY CountedFinite, FS_Subset, FS_CardinalityType DEF Fewer
  <1>2. Cardinality(Counted(Q, c)) <= db.calls[c] + Allowed(c)
        /\ Cardinality(Counted(Q, c)) \in Nat
    BY CountedFinite DEF CountsWithin
  <1>3. Allowed(c) \in Nat /\ Allowed(c)' \in Nat /\ Allowed(c) <= Allowed(c)'
    BY ResetsFinite, AllowedGrows
  <1>4. db.calls[c] \in Nat
    BY DEF Database
  <1>5. QED
    BY <1>1, <1>2, <1>3, <1>4

\* A process that may write counts on what it sees, and leaves the others on disk.
LEMMA WriterCounts ==
    ASSUME IInv, CountsInFlight, NEW p \in Procs, CanWrite(p)
    PROVE  CountsWithin(Procs, view[p]) /\ CountsWithin(Procs \ {p}, disk)
  <1>1. CASE conn[p] = "writing"
    BY <1>1 DEF CountsInFlight
  <1>2. CASE conn[p] # "writing"
    <2>1. view[p] = disk /\ disk \in Database
      BY <1>2 DEF CanWrite, IInv, ConnInv, TypeOK, ConnTypeOK
    <2>2. CountsWithin(Procs, disk)
      BY <1>2 DEF CanWrite, CountsInFlight
    <2>3. ASSUME NEW c \in Codes
          PROVE  Cardinality(Counted(Procs \ {p}, c)) <= disk.calls[c] + Allowed(c)
      <3>1. Counted(Procs \ {p}, c) \subseteq Counted(Procs, c)
        BY DEF Counted
      <3>2. Cardinality(Counted(Procs \ {p}, c)) <= Cardinality(Counted(Procs, c))
        BY <3>1, CountedFinite, FS_Subset
      <3>3. disk.calls[c] \in Nat
        BY <2>1 DEF Database
      <3>4. QED
        BY <2>2, <3>2, <3>3, CountedFinite, ResetsFinite DEF CountsWithin
    <2>4. QED
      BY <2>1, <2>2, <2>3 DEF CountsWithin
  <1>3. QED
    BY <1>1, <1>2

\* Nothing is written, and no call is counted.
LEMMA CountsAfterNoWrite ==
    ASSUME IInv, CountsInFlight, [Next]_vars, view' = view, disk' = disk,
           \A q \in Procs : conn'[q] = "writing" <=> conn[q] = "writing",
           \A P \in SUBSET Procs : Fewer(P, P)
    PROVE  CountsInFlight'
  <1>0. TypeOK /\ disk \in Database /\ \A q \in Procs : view[q] \in Database
    BY DEF IInv, TypeOK, ConnTypeOK
  <1>1. ASSUME \A p \in Procs : conn'[p] # "writing" PROVE CountsWithin(Procs, disk)'
    <2>1. CountsWithin(Procs, disk) /\ Fewer(Procs, Procs)
      BY <1>1 DEF CountsInFlight
    <2>2. QED
      BY <1>0, <2>1, CountsShrink DEF CountsNext, CountsWithin
  <1>2. ASSUME NEW p \in Procs, conn'[p] = "writing"
        PROVE  CountsWithin(Procs, view[p])' /\ CountsWithin(Procs \ {p}, disk)'
    <2>1. /\ CountsWithin(Procs, view[p]) /\ CountsWithin(Procs \ {p}, disk)
          /\ Fewer(Procs, Procs) /\ Fewer(Procs \ {p}, Procs \ {p})
      BY <1>2 DEF CountsInFlight
    <2>2. CountsNext(Procs, view[p]) /\ CountsNext(Procs \ {p}, disk)
      BY <1>0, <2>1, CountsShrink
    <2>3. QED
      BY <2>2 DEF CountsNext, CountsWithin
  <1>3. QED
    BY <1>1, <1>2 DEF CountsInFlight

\* p writes db, and counts there what it counts.
LEMMA CountsAfterWrite ==
    ASSUME IInv, ConnInv', CountsInFlight, [Next]_vars, NEW p \in Procs, NEW db \in Database,
           Write(p, db), CountsNext(Procs, db), Fewer(Procs \ {p}, Procs \ {p})
    PROVE  CountsInFlight'
  <1>0. /\ TypeOK /\ disk \in Database
        /\ conn \in [Procs -> ConnStates] /\ view \in [Procs -> Database]
    BY DEF IInv, TypeOK, ConnTypeOK
  <1>1. disk' = disk /\ view'[p] = db /\ conn'[p] = "writing" /\ CanWrite(p)
    BY <1>0 DEF Write
  <1>2. \A q \in Procs : conn'[q] = "writing" => q = p
    BY <1>1 DEF ConnInv
  <1>3. CountsNext(Procs \ {p}, disk)
    BY <1>0, <1>1, WriterCounts, CountsShrink
  <1>4. CountsWithin(Procs, view[p])' /\ CountsWithin(Procs \ {p}, disk)'
    BY <1>1, <1>3 DEF CountsNext, CountsWithin
  <1>5. QED
    BY <1>1, <1>2, <1>4 DEF CountsInFlight

\* p commits: what it has counted is on disk.
LEMMA CountsAfterCommit ==
    ASSUME IInv, CountsInFlight, [Next]_vars, NEW p \in Procs, Commit(p),
           \A P \in SUBSET Procs : p \in P => Fewer(P, P)
    PROVE  CountsInFlight'
  <1>0. TypeOK /\ disk \in Database /\ \A q \in Procs : view[q] \in Database
    BY DEF IInv, TypeOK, ConnTypeOK
  <1>1. /\ disk' = IF conn[p] = "writing" THEN view[p] ELSE disk
        /\ \A q \in Procs : conn'[q] = "writing" => 
                q # p /\ conn[q] = "writing" /\ view'[q] = view[q] /\ p \in Procs \ {q}
    BY DEF Commit
  <1>2. CASE conn[p] = "writing"
    <2>1. \A q \in Procs : conn'[q] # "writing"
      BY <1>1, <1>2 DEF IInv, ConnInv
    <2>2. CountsWithin(Procs, view[p]) /\ Fewer(Procs, Procs)
      BY <1>2 DEF CountsInFlight
    <2>3. CountsNext(Procs, view[p])
      BY <1>0, <2>2, CountsShrink
    <2>4. CountsWithin(Procs, disk)'
      BY <1>1, <1>2, <2>3 DEF CountsNext, CountsWithin
    <2>5. QED
      BY <2>1, <2>4 DEF CountsInFlight
  <1>3. CASE conn[p] # "writing"
    <2>0. disk' = disk
      BY <1>1, <1>3
    <2>1. ASSUME \A q \in Procs : conn'[q] # "writing" PROVE CountsWithin(Procs, disk)'
      <3>1. \A q \in Procs : conn[q] # "writing"
        BY <1>3, <2>1 DEF Commit
      <3>2. CountsWithin(Procs, disk) /\ Fewer(Procs, Procs)
        BY <3>1 DEF CountsInFlight
      <3>3. QED
        BY <1>0, <2>0, <3>2, CountsShrink DEF CountsNext, CountsWithin
    <2>2. ASSUME NEW q \in Procs, conn'[q] = "writing"
          PROVE  CountsWithin(Procs, view[q])' /\ CountsWithin(Procs \ {q}, disk)'
      <3>1. /\ CountsWithin(Procs, view[q]) /\ CountsWithin(Procs \ {q}, disk)
            /\ Fewer(Procs, Procs) /\ Fewer(Procs \ {q}, Procs \ {q})
        BY <1>1, <2>2 DEF CountsInFlight
      <3>2. CountsNext(Procs, view[q]) /\ CountsNext(Procs \ {q}, disk)
        BY <1>0, <3>1, CountsShrink
      <3>3. view'[q] = view[q]
        BY <1>1, <2>2
      <3>4. QED
        BY <2>0, <3>2, <3>3 DEF CountsNext, CountsWithin
    <2>3. QED
      BY <2>1, <2>2 DEF CountsInFlight
  <1>4. QED
    BY <1>2, <1>3

\* p dies with what it has counted.
LEMMA CountsAfterCrash ==
    ASSUME IInv, CountsInFlight, [Next]_vars, NEW p \in Procs, Disconnect(p),
           \A P \in SUBSET Procs : Fewer(P, P \ {p})
    PROVE  CountsInFlight'
  <1>0. /\ TypeOK /\ disk \in Database
        /\ conn \in [Procs -> ConnStates] /\ view \in [Procs -> Database]
    BY DEF IInv, TypeOK, ConnTypeOK
  <1>1. /\ disk' = disk
        /\ \A q \in Procs : conn'[q] = IF q = p THEN "idle" ELSE conn[q]
        /\ \A q \in Procs : view'[q] = IF q = p THEN disk ELSE view[q]
    BY <1>0 DEF Disconnect
  <1>2. \A P \in SUBSET Procs : Fewer(P, P)
    BY DEF Fewer, Counted
  <1>3. ASSUME \A q \in Procs : conn'[q] # "writing" PROVE CountsWithin(Procs, disk)'
    <2>1. CASE conn[p] = "writing"
      <3>1. CountsWithin(Procs \ {p}, disk) /\ Fewer(Procs, Procs \ {p})
        BY <2>1 DEF CountsInFlight
      <3>2. QED
        BY <1>0, <1>1, <3>1, CountsShrink DEF CountsNext, CountsWithin
    <2>2. CASE conn[p] # "writing"
      <3>1. CountsWithin(Procs, disk) /\ Fewer(Procs, Procs)
        BY <1>1, <1>2, <1>3, <2>2 DEF CountsInFlight
      <3>2. QED
        BY <1>0, <1>1, <3>1, CountsShrink DEF CountsNext, CountsWithin
    <2>3. QED
      BY <2>1, <2>2
  <1>4. ASSUME NEW q \in Procs, conn'[q] = "writing"
        PROVE  CountsWithin(Procs, view[q])' /\ CountsWithin(Procs \ {q}, disk)'
    <2>1. q # p /\ conn[q] = "writing" /\ view'[q] = view[q]
      BY <1>1, <1>4
    <2>2. /\ CountsWithin(Procs, view[q]) /\ CountsWithin(Procs \ {q}, disk)
          /\ Fewer(Procs, Procs) /\ Fewer(Procs \ {q}, Procs \ {q})
      BY <1>2, <2>1 DEF CountsInFlight
    <2>3. CountsNext(Procs, view[q]) /\ CountsNext(Procs \ {q}, disk)
      BY <1>0, <2>2, CountsShrink
    <2>4. QED
      BY <1>1, <2>1, <2>3 DEF CountsNext, CountsWithin
  <1>5. QED
    BY <1>3, <1>4 DEF CountsInFlight

\* What the steps do to calls and to their column.
CountStep ==
    \/ call' = call /\ \/ UNCHANGED storage
                       \/ \E p \in Procs : WriteFails(p) \/ Read(p) \/ Commit(p)
                       \/ \E p \in Procs : \E db \in Database :
                            Write(p, db) /\ db.calls = view[p].calls
                       \/ \E j \in Jobs : RedeemUpdate(j) /\ Redeemable(view[Home[j]], CodeOf[j])
                       \/ \E p \in Procs, c \in Codes, uses \in 1..MaxUses :
                            MintInsert(p, c, uses)
    \/ \E k \in Calls : CallNext(k)
    \/ \E p \in Procs : Crash(p)

LEMMA CallsUntouched ==
    ASSUME NEW db \in Database, NEW j \in Jobs
    PROVE  /\ \A o \in {"complete", "refunded"} :
                /\ SetOutcome(db, j, o) \in Database
                /\ SetOutcome(db, j, o).calls = db.calls
           /\ InsertRedemption(db, j) \in Database
           /\ InsertRedemption(db, j).calls = db.calls
           /\ GiveUseBack(db, j) \in Database
           /\ GiveUseBack(db, j).calls = db.calls
  <1>1. CodeOf[j] \in Codes /\ {"complete", "refunded"} \subseteq Outcome
    BY CodeStoreAssumption DEF Outcome
  <1>2. /\ \A o \in {"complete", "refunded"} : SetOutcome(db, j, o) \in Database
        /\ InsertRedemption(db, j) \in Database /\ GiveUseBack(db, j) \in Database
    BY <1>1, StatementsType
  <1>3. /\ \A o \in {"complete", "refunded"} : SetOutcome(db, j, o).calls = db.calls
        /\ InsertRedemption(db, j).calls = db.calls /\ GiveUseBack(db, j).calls = db.calls
    BY DEF SetOutcome, InsertRedemption, GiveUseBack, Database
  <1>4. QED
    BY <1>2, <1>3

LEMMA NextCounts == IInv /\ [Next]_vars => CountStep
  <1> SUFFICES ASSUME IInv, [Next]_vars PROVE CountStep
    OBVIOUS
  <1> USE CodeStoreAssumption
  <1>0. view \in [Procs -> Database]
    BY DEF IInv, TypeOK, ConnTypeOK
  <1>1. ASSUME NEW j \in Jobs, JobNext(j) PROVE CountStep
    <2>0. Home[j] \in Procs /\ CodeOf[j] \in Codes /\ view[Home[j]] \in Database
      BY <1>0
    <2>1. call' = call
      BY <1>1 DEF JobNext, RedeemUpdate, RedeemRefuse, RedeemInsert, RedeemCommit, Deliver,
          Fail, FinishUpdate, FinishCommit, RefundMark, RefundGive, RefundCommit,
          JobStatementFails, MoveJob
    <2>2. CASE RedeemUpdate(j)
      <3>1. CASE Redeemable(view[Home[j]], CodeOf[j])
        BY <2>1, <2>2, <3>1 DEF CountStep
      <3>2. CASE ~Redeemable(view[Home[j]], CodeOf[j])
        BY <2>0, <2>1, <2>2, <3>2 DEF RedeemUpdate, CountStep
      <3>3. QED
        BY <3>1, <3>2
    <2>3. CASE RedeemInsert(j) \/ FinishUpdate(j) \/ RefundMark(j) \/ RefundGive(j)
      BY <2>0, <2>1, <2>3, CallsUntouched
      DEF RedeemInsert, FinishUpdate, RefundMark, RefundGive, CountStep
    <2>4. CASE RedeemRefuse(j) \/ RedeemCommit(j) \/ FinishCommit(j) \/ RefundCommit(j)
      BY <2>0, <2>1, <2>4 DEF RedeemRefuse, RedeemCommit, FinishCommit, RefundCommit, CountStep
    <2>5. CASE Deliver(j) \/ Fail(j) \/ JobStatementFails(j)
      BY <2>0, <2>1, <2>5 DEF Deliver, Fail, JobStatementFails, CountStep
    <2>6. QED
      BY <1>1, <2>2, <2>3, <2>4, <2>5 DEF JobNext
  <1>2. ASSUME NEW j \in Jobs, Age(j) PROVE CountStep
    BY <1>2 DEF Age, CountStep
  <1>3. ASSUME NEW p \in Procs, SweepNext(p) PROVE CountStep
    <2>1. call' = call
      BY <1>3 DEF SweepNext, SweepSelect, SweepMark, SweepGive, SweepCommit, SweepStatementFails
    <2>2. ASSUME NEW j \in Jobs, SweepMark(p, j) \/ SweepGive(p, j) PROVE CountStep
      BY <1>0, <2>1, <2>2, CallsUntouched DEF SweepMark, SweepGive, CountStep
    <2>3. QED
      BY <1>3, <2>1, <2>2
      DEF SweepNext, SweepSelect, SweepCommit, SweepStatementFails, CountStep
  <1>4. ASSUME NEW p \in Procs, AdminNext(p) PROVE CountStep
    <2>1. call' = call
      BY <1>4 DEF AdminNext, MintInsert, RevokeUpdate, AdminCommit, AdminStatementFails,
          StatusSelect, MoveAdmin, tasks
    <2>2. ASSUME NEW c \in Codes, RevokeUpdate(p, c) PROVE CountStep
      <3>1. /\ RevokeCode(view[p], c) \in Database
            /\ RevokeCode(view[p], c).calls = view[p].calls
        BY <1>0 DEF RevokeCode, Database
      <3>2. QED
        BY <2>1, <2>2, <3>1 DEF RevokeUpdate, CountStep
    <2>3. QED
      BY <1>4, <2>1, <2>2
      DEF AdminNext, AdminCommit, AdminStatementFails, StatusSelect, CountStep
  <1>5. CASE UNCHANGED vars
    BY <1>5 DEF vars, tasks, CountStep
  <1>6. QED
    BY <1>1, <1>2, <1>3, <1>4, <1>5 DEF Next, CountStep

\* A use spent resets the counter, and allows as many calls again.
LEMMA CountsAfterSpend ==
    ASSUME IInv, ConnInv', CountsFits, CountsInFlight, [Next]_vars, call' = call,
           NEW j \in Jobs, RedeemUpdate(j), Redeemable(view[Home[j]], CodeOf[j])
    PROVE  CountsInFlight'
  <1> DEFINE p == Home[j]
             d == CodeOf[j]
             db == SpendUse(view[p], d)
  <1>0. /\ TypeOK /\ p \in Procs /\ d \in Codes /\ view[p] \in Database /\ db \in Database
        /\ job \in [Jobs -> JobStep]
    BY CodeStoreAssumption, StatementsType DEF IInv, TypeOK, ConnTypeOK
  <1>1. Write(p, db) /\ job[j] = "new" /\ job' = [job EXCEPT ![j] = "inserting"]
    BY DEF RedeemUpdate, MoveJob
  <1>2. Allowed(d)' = Allowed(d) + MaxPromptCalls
    <2>1. Resets(d)' = Resets(d) \cup {j} /\ j \notin Resets(d)
      BY <1>0, <1>1 DEF Resets
    <2>2. Cardinality(Resets(d)') = Cardinality(Resets(d)) + 1
      BY <2>1, ResetsFinite, FS_AddElement
    <2>3. \A n \in Nat : MaxPromptCalls * (n + 1) = MaxPromptCalls * n + MaxPromptCalls
      BY CodeStoreAssumption
    <2>4. QED
      BY <2>2, <2>3, ResetsFinite DEF Allowed
  <1>3. /\ db.calls[d] = 0
        /\ \A c \in Codes \ {d} : db.calls[c] = view[p].calls[c]
    BY <1>0 DEF SpendUse, Database
  <1>4. CountsWithin(Procs, view[p])
    BY <1>0, <1>1, WriterCounts DEF Write
  <1>5. ASSUME NEW c \in Codes PROVE Cardinality(Counted(Procs, c)') <= db.calls[c] + Allowed(c)'
    <2>1. Counted(Procs, c)' = Counted(Procs, c)
      BY DEF Counted
    <2>2. Cardinality(Counted(Procs, c)) <= view[p].calls[c] + Allowed(c)
      BY <1>4 DEF CountsWithin
    <2>3. view[p].calls[c] \in Nat /\ view[p].calls[c] <= MaxPromptCalls
      BY <1>0 DEF CountsFits, CountsFit, Database
    <2>4. Allowed(c) \in Nat /\ Allowed(c)' \in Nat /\ Allowed(c) <= Allowed(c)'
      BY <1>0, ResetsFinite, AllowedGrows
    <2>5. CASE c = d
      BY <1>2, <1>3, <2>1, <2>2, <2>3, <2>4, <2>5, CountedFinite, CodeStoreAssumption
    <2>6. CASE c # d
      BY <1>3, <2>1, <2>2, <2>3, <2>4, <2>6, CountedFinite
    <2>7. QED
      BY <2>5, <2>6
  <1>6. Fewer(Procs \ {p}, Procs \ {p})
    BY DEF Fewer, Counted
  <1>7. QED
    BY <1>0, <1>1, <1>5, <1>6, CountsAfterWrite DEF CountsNext

\* A call is counted where the counter has room, and goes up with it.
LEMMA CountsAfterCount ==
    ASSUME IInv, ConnInv', CountsInFlight, [Next]_vars, NEW k \in Calls, RegisterUpdate(k)
    PROVE  CountsInFlight'
  <1> DEFINE p == Home[k]
             d == CodeOf[k]
             db == CountCall(view[p], d)
  <1>a. /\ TypeOK /\ p \in Procs /\ d \in Codes /\ view[p] \in Database
        /\ call \in [Calls -> CallStep]
    BY CodeStoreAssumption DEF IInv, TypeOK, ConnTypeOK
  <1>b. db \in Database
    BY <1>a DEF CountCall, Database
  <1>0. /\ TypeOK /\ p \in Procs /\ d \in Codes /\ view[p] \in Database /\ db \in Database
        /\ call \in [Calls -> CallStep]
    BY <1>a, <1>b
  <1>1. /\ Write(p, db) /\ call[k] = "counting"
        /\ call' = [call EXCEPT ![k] =
                IF view[p].calls[d] < MaxPromptCalls THEN "counted" ELSE "limiting"]
    BY DEF RegisterUpdate, MoveCall
  <1>2. CountsWithin(Procs, view[p])
    BY <1>0, <1>1, WriterCounts DEF Write
  <1>3. ASSUME NEW c \in Codes PROVE Cardinality(Counted(Procs, c)') <= db.calls[c] + Allowed(c)'
    <2>1. Cardinality(Counted(Procs, c)) <= view[p].calls[c] + Allowed(c)
      BY <1>2 DEF CountsWithin
    <2>2. Allowed(c) \in Nat /\ Allowed(c)' \in Nat /\ Allowed(c) <= Allowed(c)'
      BY <1>0, ResetsFinite, AllowedGrows
    <2>3. view[p].calls[c] \in Nat /\ view[p].calls \in [Codes -> Nat]
      BY <1>0 DEF Database
    <2>4. CASE c = d /\ view[p].calls[d] < MaxPromptCalls
      <3>1. Counted(Procs, c)' = Counted(Procs, c) \cup {k}
        BY <1>0, <1>1, <2>4 DEF Counted
      <3>2. Cardinality(Counted(Procs, c)') <= Cardinality(Counted(Procs, c)) + 1
        <4>1. Cardinality(Counted(Procs, c) \cup {k}) \in
                {Cardinality(Counted(Procs, c)), Cardinality(Counted(Procs, c)) + 1}
          BY CountedFinite, FS_AddElement
        <4>2. QED
          BY <3>1, <4>1, CountedFinite
      <3>3. db.calls[c] = view[p].calls[c] + 1
        BY <1>0, <2>3, <2>4 DEF CountCall, Database
      <3>4. Cardinality(Counted(Procs, c)') \in Nat
        BY <3>1, CountedFinite, FS_AddElement, FS_CardinalityType
      <3>5. QED
        BY <2>1, <2>2, <2>3, <3>2, <3>3, <3>4, CountedFinite
    <2>5. CASE ~(c = d /\ view[p].calls[d] < MaxPromptCalls)
      <3>1. Counted(Procs, c)' = Counted(Procs, c)
        BY <1>0, <1>1, <2>5 DEF Counted
      <3>2. db.calls[c] = view[p].calls[c]
        BY <1>0, <2>3, <2>5 DEF CountCall, Database
      <3>3. QED
        BY <2>1, <2>2, <2>3, <3>1, <3>2, CountedFinite
    <2>6. QED
      BY <2>4, <2>5
  <1>4. Fewer(Procs \ {p}, Procs \ {p})
    BY <1>0, <1>1 DEF Fewer, Counted
  <1>5. QED
    BY <1>0, <1>1, <1>3, <1>4, CountsAfterWrite DEF CountsNext

\* A code is minted with a counter at zero, where there was none.
LEMMA CountsAfterMint ==
    ASSUME IInv, ConnInv', CountsFits, CountsInFlight, [Next]_vars, call' = call,
           NEW p \in Procs, NEW d \in Codes, NEW uses \in 1..MaxUses, MintInsert(p, d, uses)
    PROVE  CountsInFlight'
  <1> DEFINE db == MintCode(view[p], d, uses)
  <1>0. TypeOK /\ view[p] \in Database /\ uses \in Nat
    BY DEF IInv, TypeOK, ConnTypeOK
  <1>1. db \in Database
    BY <1>0 DEF MintCode, Database
  <1>2. Write(p, db) /\ view[p].total[d] = 0
    BY DEF MintInsert
  <1>3. db.calls = view[p].calls
    <2>1. view[p].calls \in [Codes -> Nat]
      BY <1>0 DEF Database
    <2>2. view[p].calls[d] = 0
      BY <1>2 DEF CountsFits, CountsFit
    <2>3. db.calls = [view[p].calls EXCEPT ![d] = 0]
      BY <1>0 DEF MintCode, Database
    <2>4. QED
      BY <2>1, <2>2, <2>3
  <1>4. \A P \in SUBSET Procs : Fewer(P, P)
    BY DEF Fewer, Counted
  <1>5. CountsNext(Procs, view[p])
    BY <1>0, <1>2, <1>4, WriterCounts, CountsShrink DEF Write
  <1>6. CountsNext(Procs, db)
    BY <1>3, <1>5 DEF CountsNext
  <1>7. QED
    BY <1>1, <1>2, <1>4, <1>6, CountsAfterWrite

LEMMA CountsInFlightKept ==
    ASSUME IInv, ConnInv', CountsFits, CountsInFlight, [Next]_vars
    PROVE  CountsInFlight'
  <1> USE CodeStoreAssumption
  <1>0. /\ TypeOK /\ CountStep /\ conn \in [Procs -> ConnStates]
        /\ view \in [Procs -> Database] /\ call \in [Calls -> CallStep]
    BY NextCounts DEF IInv, TypeOK, ConnTypeOK
  <1>1. ASSUME call' = call PROVE \A P \in SUBSET Procs : Fewer(P, P)
    BY <1>1 DEF Fewer, Counted
  <1>2. CASE call' = call /\ UNCHANGED storage
    BY <1>1, <1>2, CountsAfterNoWrite DEF storage
  <1>3. ASSUME NEW p \in Procs, call' = call, WriteFails(p) \/ Read(p) PROVE CountsInFlight'
    <2>1. /\ view' = view /\ disk' = disk
          /\ \A q \in Procs : conn'[q] = "writing" <=> conn[q] = "writing"
      BY <1>0, <1>3 DEF WriteFails, Read
    <2>2. QED
      BY <1>1, <1>3, <2>1, CountsAfterNoWrite
  <1>4. ASSUME NEW p \in Procs, call' = call, Commit(p) PROVE CountsInFlight'
    BY <1>1, <1>4, CountsAfterCommit
  <1>5. ASSUME NEW p \in Procs, NEW db \in Database, call' = call, Write(p, db),
               db.calls = view[p].calls
        PROVE  CountsInFlight'
    <2>1. \A P \in SUBSET Procs : Fewer(P, P)
      BY <1>1, <1>5
    <2>2. CountsNext(Procs, view[p])
      BY <1>0, <1>5, <2>1, WriterCounts, CountsShrink DEF Write
    <2>3. CountsNext(Procs, db)
      BY <1>5, <2>2 DEF CountsNext
    <2>4. QED
      BY <1>5, <2>1, <2>3, CountsAfterWrite
  <1>6. ASSUME NEW k \in Calls, CallNext(k) PROVE CountsInFlight'
    <2>0. Home[k] \in Procs
      OBVIOUS
    <2>1. CASE RegisterUpdate(k)
      BY <2>1, CountsAfterCount
    <2>2. CASE RegisterSelect(k) \/ CallStatementFails(k)
      <3>1. /\ view' = view /\ disk' = disk
            /\ \A q \in Procs : conn'[q] = "writing" <=> conn[q] = "writing"
        BY <1>0, <2>0, <2>2 DEF RegisterSelect, CallStatementFails, WriteFails, Read
      <3>2. \A P \in SUBSET Procs : Fewer(P, P)
        BY <1>0, <2>2 DEF RegisterSelect, CallStatementFails, MoveCall, Fewer, Counted
      <3>3. QED
        BY <3>1, <3>2, CountsAfterNoWrite
    <2>3. CASE RegisterCommit(k)
      <3>1. \A P \in SUBSET Procs : Home[k] \in P => Fewer(P, P)
        BY <1>0, <2>3 DEF RegisterCommit, MoveCall, Fewer, Counted
      <3>2. QED
        BY <2>0, <2>3, <3>1, CountsAfterCommit DEF RegisterCommit
    <2>4. QED
      BY <1>6, <2>1, <2>2, <2>3 DEF CallNext
  <1>7. ASSUME NEW p \in Procs, Crash(p) PROVE CountsInFlight'
    <2>1. \A P \in SUBSET Procs : Fewer(P, P \ {p})
      BY <1>0, <1>7 DEF Crash, Fewer, Counted
    <2>2. QED
      BY <1>7, <2>1, CountsAfterCrash DEF Crash
  <1>8. QED
    BY <1>0, <1>2, <1>3, <1>4, <1>5, <1>6, <1>7, CountsAfterSpend, CountsAfterMint DEF CountStep

\* Only rows have uses, but where a connection is pinned to a replaced state.
RowsOnly ==
    /\ \A c \in Codes : disk.remaining[c] # 0 => disk.total[c] # 0
    /\ \A p \in Procs : conn[p] # "stale" =>
            \A c \in Codes : view[p].remaining[c] # 0 => view[p].total[c] # 0

LEMMA RowsOnlyHaveUses == IInv => RowsOnly
  <1> SUFFICES ASSUME IInv, NEW c \in Codes
               PROVE  /\ disk.remaining[c] # 0 => disk.total[c] # 0
                      /\ \A p \in Procs : conn[p] # "stale" =>
                            (view[p].remaining[c] # 0 => view[p].total[c] # 0)
    BY DEF RowsOnly
  <1>1. disk.remaining[c] \in Nat /\ disk.total[c] \in Nat
    BY DEF IInv, TypeOK, ConnTypeOK, Database
  <1>2. disk.remaining[c] + Cardinality(Spent(disk, c)) <= disk.total[c]
    BY IInvBoundsUses DEF NeverOverspent
  <1>3. Spent(disk, c) \subseteq Jobs
    BY DEF Spent
  <1>4. Cardinality(Spent(disk, c)) \in Nat
    BY <1>3, CodeStoreAssumption, FS_Subset, FS_CardinalityType
  <1>5. disk.remaining[c] # 0 => disk.total[c] # 0
    BY <1>1, <1>2, <1>4
  <1>6. \A p \in Procs : conn[p] # "stale" =>
            (view[p].remaining[c] # 0 => view[p].total[c] # 0)
    BY ViewsWithin
  <1>7. QED
    BY <1>5, <1>6

\* The counter of a row is within the allowance.
ColumnFits(db) ==
    \A c \in Codes : db.calls[c] <= MaxPromptCalls /\ (db.calls[c] # 0 => db.total[c] # 0)

LEMMA ColumnKept ==
    ASSUME IInv, ViewsLawful, PinnedBehind, CallsMinted, CountStep, LawfulStep,
           ColumnFits(disk), \A q \in Procs : ColumnFits(view[q])
    PROVE  ColumnFits(disk') /\ \A q \in Procs : ColumnFits(view'[q])
  <1> USE CodeStoreAssumption
  <1>0. /\ ConnTypeOK(Database) /\ ConnInv
        /\ disk \in Database /\ view \in [Procs -> Database] /\ conn \in [Procs -> ConnStates]
    BY DEF IInv, TypeOK, ConnTypeOK
  <1>1. ASSUME NEW p \in Procs, NEW db, Write(p, db), ColumnFits(db)
        PROVE  ColumnFits(disk') /\ \A q \in Procs : ColumnFits(view'[q])
    BY <1>0, <1>1 DEF Write
  <1>2. ASSUME NEW p \in Procs, WriteFails(p) \/ Read(p)
        PROVE  ColumnFits(disk') /\ \A q \in Procs : ColumnFits(view'[q])
    BY <1>2 DEF WriteFails, Read
  <1>3. ASSUME NEW p \in Procs, Commit(p)
        PROVE  ColumnFits(disk') /\ \A q \in Procs : ColumnFits(view'[q])
    <2>1. disk' \in {disk, view[p]} /\ \A q \in Procs : view'[q] \in {disk', view[q]}
      BY <1>3 DEF Commit
    <2>2. QED
      BY <2>1
  <1>4. ASSUME NEW p \in Procs, Disconnect(p)
        PROVE  ColumnFits(disk') /\ \A q \in Procs : ColumnFits(view'[q])
    BY <1>0, <1>4 DEF Disconnect
  <1>5. ASSUME NEW p \in Procs, NEW db \in Database, Write(p, db), db.calls = view[p].calls
        PROVE  ColumnFits(disk') /\ \A q \in Procs : ColumnFits(view'[q])
    <2>1. view'[p] = db /\ conn'[p] = "writing"
      BY <1>0, <1>5 DEF Write
    <2>2. ~Crash(p)
      BY <1>0, <2>1 DEF Crash, Disconnect
    <2>3. Lawful(view[p], db)
      BY <1>0, <2>1, <2>2, ViewsFollow
    <2>4. ColumnFits(db)
      BY <1>5, <2>3 DEF ColumnFits, Lawful
    <2>5. QED
      BY <1>1, <1>5, <2>4
  <1>6. ASSUME NEW j \in Jobs, RedeemUpdate(j), Redeemable(view[Home[j]], CodeOf[j])
        PROVE  ColumnFits(disk') /\ \A q \in Procs : ColumnFits(view'[q])
    <2>1. /\ Home[j] \in Procs /\ CodeOf[j] \in Codes /\ view[Home[j]] \in Database
          /\ Write(Home[j], SpendUse(view[Home[j]], CodeOf[j]))
      BY <1>0, <1>6 DEF RedeemUpdate
    <2>2. ColumnFits(SpendUse(view[Home[j]], CodeOf[j]))
      BY <2>1 DEF ColumnFits, SpendUse, Database
    <2>3. QED
      BY <1>1, <2>1, <2>2
  <1>7. ASSUME NEW p \in Procs, NEW c \in Codes, NEW uses \in 1..MaxUses, MintInsert(p, c, uses)
        PROVE  ColumnFits(disk') /\ \A q \in Procs : ColumnFits(view'[q])
    <2>1. view[p] \in Database /\ Write(p, MintCode(view[p], c, uses)) /\ uses # 0
      BY <1>0, <1>7 DEF MintInsert
    <2>2. ColumnFits(MintCode(view[p], c, uses))
      BY <2>1 DEF ColumnFits, MintCode, Database
    <2>3. QED
      BY <1>1, <2>1, <2>2
  <1>8. ASSUME NEW k \in Calls, RegisterUpdate(k)
        PROVE  ColumnFits(disk') /\ \A q \in Procs : ColumnFits(view'[q])
    <2>1. /\ Home[k] \in Procs /\ CodeOf[k] \in Codes /\ view[Home[k]] \in Database
          /\ Write(Home[k], CountCall(view[Home[k]], CodeOf[k]))
          /\ view[Home[k]].total[CodeOf[k]] # 0
      BY <1>0, <1>8 DEF RegisterUpdate, MoveCall, CallsMinted
    <2>2. ColumnFits(CountCall(view[Home[k]], CodeOf[k]))
      BY <2>1 DEF ColumnFits, CountCall, Database
    <2>3. QED
      BY <1>1, <2>1, <2>2
  <1>9. ASSUME NEW k \in Calls, CallNext(k)
        PROVE  ColumnFits(disk') /\ \A q \in Procs : ColumnFits(view'[q])
    <2>1. Home[k] \in Procs
      OBVIOUS
    <2>2. QED
      BY <1>2, <1>3, <1>8, <1>9, <2>1
      DEF CallNext, RegisterSelect, RegisterCommit, CallStatementFails
  <1>10. QED
    BY <1>2, <1>3, <1>4, <1>5, <1>6, <1>7, <1>9 DEF CountStep, storage, Crash

LEMMA CountsFitsKept ==
    ASSUME IInv, IInv', ViewsLawful, CountsInv, [Next]_vars
    PROVE  CountsFits'
  <1>1. LawfulStep /\ CountStep /\ ConnTypeOK(Database) /\ ConnInv
    BY NextIsLawful, NextCounts DEF IInv, TypeOK
  <1>2. ColumnFits(disk) /\ \A q \in Procs : ColumnFits(view[q])
    BY DEF CountsInv, CountsFits, CountsFit, ColumnFits
  <1>3. ColumnFits(disk') /\ \A q \in Procs : ColumnFits(view'[q])
    BY <1>1, <1>2, ColumnKept DEF CountsInv
  <1>4. IInv' => RowsOnly'
    BY RowsOnlyHaveUses, PTL
  <1>5. ASSUME NEW q \in Procs, conn'[q] = "stale" PROVE view'[q] = view[q]
    <2>1. conn \in [Procs -> ConnStates] /\ view \in [Procs -> Database]
      BY <1>1 DEF ConnTypeOK
    <2>2. QED
      BY <1>1, <1>5, <2>1
      DEF LawfulStep, Write, WriteFails, Read, Commit, Disconnect, storage
  <1>6. QED
    BY <1>3, <1>4, <1>5 DEF CountsInv, CountsFits, CountsFit, ColumnFits, RowsOnly

LEMMA CallsMintedKept ==
    ASSUME IInv, ViewsLawful, CountsInv, [Next]_vars
    PROVE  CallsMinted'
  <1> SUFFICES ASSUME NEW k \in Calls, call'[k] = "counting"
               PROVE  view'[Home[k]].total[CodeOf[k]] # 0
    BY DEF CallsMinted
  <1>0. /\ LawfulStep /\ ConnTypeOK(Database) /\ ConnInv /\ PinnedBehind
        /\ call \in [Calls -> CallStep]
        /\ Home[k] \in Procs /\ CodeOf[k] \in Codes
        /\ view \in [Procs -> Database]
    BY NextIsLawful, CodeStoreAssumption DEF IInv, TypeOK, ConnTypeOK, CountsInv
  <1>1. ~Crash(Home[k])
    BY <1>0 DEF Crash, CallStep
  <1>2. Lawful(view[Home[k]], view'[Home[k]])
    BY <1>0, <1>1, ViewsFollow
  <1>3. CASE call[k] = "counting"
    BY <1>0, <1>2, <1>3 DEF CountsInv, CallsMinted, Lawful
  <1>4. CASE call[k] # "counting"
    <2>1. RegisterSelect(k)
      <3>1. CASE call' = call
        BY <1>4, <3>1
      <3>2. ASSUME NEW i \in Calls, CallNext(i) PROVE RegisterSelect(k)
        BY <1>0, <1>4, <3>2 DEF CallNext, RegisterSelect, RegisterUpdate, RegisterCommit,
            CallStatementFails, MoveCall
      <3>3. ASSUME NEW p \in Procs, Crash(p) PROVE RegisterSelect(k)
        BY <1>0, <1>4, <3>3 DEF Crash
      <3>4. QED
        BY <3>1, <3>2, <3>3, NextCounts DEF CountStep
    <2>2. Redeemable(view[Home[k]], CodeOf[k]) /\ view' = view
      BY <1>0, <2>1 DEF RegisterSelect, MoveCall, Read
    <2>3. view[Home[k]].remaining[CodeOf[k]] # 0
      BY <1>0, <2>2 DEF Redeemable, Database
    <2>4. QED
      BY <1>0, <2>2, <2>3 DEF CountsInv, CountsFits, CountsFit
  <1>5. QED
    BY <1>3, <1>4

LEMMA CountsKept == IInv /\ IInv' /\ ViewsLawful /\ CountsInv /\ [Next]_vars => CountsInv'
  <1> SUFFICES ASSUME IInv, IInv', ViewsLawful, CountsInv, [Next]_vars PROVE CountsInv'
    OBVIOUS
  <1>1. PinnedBehind'
    <2>1. LawfulStep /\ ConnTypeOK(Database) /\ ConnInv
      BY NextIsLawful DEF IInv, TypeOK
    <2>2. QED
      BY <2>1, ViewsFollow DEF CountsInv
  <1>2. CountsInFlight'
    BY CountsInFlightKept DEF CountsInv, IInv
  <1>3. QED
    BY <1>1, <1>2, CountsFitsKept, CallsMintedKept DEF CountsInv

LEMMA InitCounts == Init => CountsInv
  <1> SUFFICES ASSUME Init PROVE CountsInv
    OBVIOUS
  <1>1. /\ disk = EmptyDatabase /\ \A p \in Procs : view[p] = EmptyDatabase /\ conn[p] = "idle"
        /\ \A k \in Calls : call[k] = "new"
    BY DEF Init, ConnInit
  <1>2. CountsFit(EmptyDatabase)
    BY CodeStoreAssumption DEF CountsFit, EmptyDatabase
  <1>3. \A c \in Codes : Cardinality(Counted(Procs, c)) = 0
    <2>1. \A c \in Codes : Counted(Procs, c) = {}
      BY <1>1 DEF Counted
    <2>2. QED
      BY <2>1, FS_EmptySet
  <1>4. CountsWithin(Procs, EmptyDatabase)
    BY <1>3, ResetsFinite DEF CountsWithin, EmptyDatabase
  <1>5. QED
    BY <1>1, <1>2, <1>4 DEF CountsInv, CountsFits, PinnedBehind, CallsMinted, CountsInFlight

LEMMA AlwaysCounts == Spec => []CountsInv
  <1>1. Spec => [](IInv /\ ViewsLawful)
    BY Inductive, AlwaysLawful, PTL
  <1>2. QED
    BY <1>1, InitCounts, CountsKept, PTL DEF Spec

\* Every granted call is on disk, or in the transaction its commit persisted.
LEMMA CountsBoundCalls == IInv /\ CountsInv => CallsWithinAllowances
  <1> SUFFICES ASSUME IInv, CountsInv, NEW c \in Codes
               PROVE  Cardinality(Granted(c)) <= MaxPromptCalls * (1 + Cardinality(Resets(c)))
    BY DEF CallsWithinAllowances
  <1>1. \E P \in SUBSET Procs : CountsWithin(P, disk)
    BY DEF CountsInv, CountsInFlight
  <1>2. PICK P \in SUBSET Procs : CountsWithin(P, disk)
    BY <1>1
  <1>3. Granted(c) \subseteq Counted(P, c)
    BY DEF Granted, Counted
  <1>4. Cardinality(Granted(c)) <= Cardinality(Counted(P, c)) /\ Cardinality(Granted(c)) \in Nat
    BY <1>3, CountedFinite, FS_Subset, FS_CardinalityType
  <1>5. disk.calls[c] \in Nat /\ disk.calls[c] <= MaxPromptCalls
    BY DEF IInv, TypeOK, ConnTypeOK, Database, CountsInv, CountsFits, CountsFit
  <1>6. Cardinality(Counted(P, c)) <= disk.calls[c] + Allowed(c)
    BY <1>2 DEF CountsWithin
  <1>7. MaxPromptCalls * (1 + Cardinality(Resets(c))) = MaxPromptCalls + Allowed(c)
    <2>1. \A n \in Nat : MaxPromptCalls * (1 + n) = MaxPromptCalls + MaxPromptCalls * n
      BY CodeStoreAssumption
    <2>2. QED
      BY <2>1, ResetsFinite DEF Allowed
  <1>8. QED
    BY <1>4, <1>5, <1>6, <1>7, CountedFinite, ResetsFinite, CodeStoreAssumption

(* A code admits at most one allowance of generation calls, and one more   *)
(* for every use spent (code_store.py:140-161, 180): the SELECT and the    *)
(* UPDATE of register_prompt_call() are two statements, the count may be   *)
(* in another coroutine's transaction, and a crash may take it along.      *)
THEOREM CallsStayWithinAllowances == Spec => []CallsWithinAllowances
  BY CountsBoundCalls, AlwaysCounts, Inductive, PTL

-----------------------------------------------------------------------------
(* One process, as docker-entrypoint.sh starts it, that has not crashed:   *)
(* no statement finds the file locked, the sweep finds nothing, and every  *)
(* use is accounted for.  (A second process can lock the file between the  *)
(* two statements of redeem(), and its sweep refunds what runs here.)      *)

OneProcess == \E p : Procs = {p}

\* What a job's row is in the eyes of its process.
RowOf(s) ==
    CASE s \in {"new", "refusing", "refused", "inserting"}      -> "absent"
      [] s \in {"committing", "running", "delivered", "failed"} -> "open"
      [] s \in {"finishing", "finished"}                        -> "complete"
      [] OTHER                                                  -> "refunded"

\* Jobs between the two statements of redeem() or of refund().
Pending == Inserting(Procs) \cup Giving(Procs)

\* The uses of c that are left or taken.
Balance(pending, db, c) == db.remaining[c] + Cardinality(Held(pending, db, c))

Unlocked == \A p \in Procs : conn[p] \in {"idle", "writing"}

NothingStale ==
    /\ \A p \in Procs : sweep[p] = "idle" /\ todo[p] = {}
    /\ \A j \in old : job[j] \in Live \cup {"finished", "closed"}
    /\ \A j \in Jobs : job[j] \notin {"lost", "unfinished"}

RowsFollowJobs == \A p \in Procs : \A j \in Jobs : view[p].outcome[j] = RowOf(job[j])

Balanced ==
    \A p \in Procs : \A c \in Codes : Balance(Pending, view[p], c) = view[p].total[c]

SoloInv == Unlocked /\ NothingStale /\ RowsFollowJobs /\ Balanced

-----------------------------------------------------------------------------
(* What each statement does to the balance.                                *)

LEMMA BalanceSpend ==
    ASSUME NEW pending \in SUBSET Jobs, NEW db \in Database, NEW j \in Jobs, j \notin pending,
           db.outcome[j] = "absent", Redeemable(db, CodeOf[j]), NEW c \in Codes
    PROVE  /\ SpendUse(db, CodeOf[j]).total = db.total
           /\ Balance(pending \cup {j}, SpendUse(db, CodeOf[j]), c) = Balance(pending, db, c)
  <1> DEFINE db2 == SpendUse(db, CodeOf[j])
             H == Held(pending, db, c)
             H2 == Held(pending \cup {j}, db2, c)
  <1>0. CodeOf[j] \in Codes
    BY CodeStoreAssumption
  <1>1. /\ db2.outcome = db.outcome
        /\ db2.total = db.total
        /\ db2.remaining = [db.remaining EXCEPT ![CodeOf[j]] = @ - 1]
    BY DEF SpendUse, Database
  <1>2. db.remaining[c] \in Nat /\ Cardinality(H) \in Nat /\ IsFiniteSet(H)
    BY HeldFinite DEF Database
  <1>3. CASE c = CodeOf[j]
    <2>1. H2 = H \cup {j} /\ j \notin H
      BY <1>1, <1>3 DEF Held
    <2>2. Cardinality(H2) = Cardinality(H) + 1
      <3> HIDE DEF H, H2
      <3>1. QED
        BY <1>2, <2>1, FS_AddElement
    <2>3. db2.remaining[c] = db.remaining[c] - 1
      BY <1>1, <1>3 DEF Database
    <2>4. QED
      BY <1>1, <1>2, <2>2, <2>3 DEF Balance
  <1>4. CASE c # CodeOf[j]
    <2>1. H2 = H
      BY <1>1, <1>4 DEF Held
    <2>2. db2.remaining[c] = db.remaining[c]
      BY <1>1, <1>4 DEF Database
    <2>3. QED
      BY <1>1, <2>1, <2>2 DEF Balance
  <1>5. QED
    BY <1>3, <1>4

LEMMA BalanceInsert ==
    ASSUME NEW pending \in SUBSET Jobs, NEW db \in Database, NEW j \in pending, NEW c \in Codes
    PROVE  /\ InsertRedemption(db, j).total = db.total
           /\ Balance(pending \ {j}, InsertRedemption(db, j), c) = Balance(pending, db, c)
  <1> DEFINE db2 == InsertRedemption(db, j)
  <1>1. /\ db2.outcome = [db.outcome EXCEPT ![j] = "open"]
        /\ db2.total = db.total
        /\ db2.remaining = db.remaining
    BY DEF InsertRedemption, Database
  <1>2. \A i \in Jobs : db2.outcome[i] = IF i = j THEN "open" ELSE db.outcome[i]
    BY <1>1 DEF Database
  <1>3. Held(pending \ {j}, db2, c) = Held(pending, db, c)
    BY <1>2 DEF Held
  <1>4. QED
    BY <1>1, <1>3 DEF Balance

LEMMA BalanceFinish ==
    ASSUME NEW pending \in SUBSET Jobs, NEW db \in Database, NEW j \in Jobs, NEW c \in Codes
    PROVE  /\ SetOutcome(db, j, "complete").total = db.total
           /\ Balance(pending, SetOutcome(db, j, "complete"), c) = Balance(pending, db, c)
  <1> DEFINE db2 == SetOutcome(db, j, "complete")
  <1>1. /\ db2.outcome = [db.outcome EXCEPT ![j] = IF @ = "open" THEN "complete" ELSE @]
        /\ db2.total = db.total
        /\ db2.remaining = db.remaining
    BY DEF SetOutcome, Database
  <1>2. \A i \in Jobs : db2.outcome[i] =
            IF i = j /\ db.outcome[i] = "open" THEN "complete" ELSE db.outcome[i]
    BY <1>1 DEF Database
  <1>3. Held(pending, db2, c) = Held(pending, db, c)
    BY <1>2 DEF Held
  <1>4. QED
    BY <1>1, <1>3 DEF Balance

LEMMA BalanceMark ==
    ASSUME NEW pending \in SUBSET Jobs, NEW db \in Database, NEW j \in Jobs,
           db.outcome[j] = "open", NEW c \in Codes
    PROVE  /\ SetOutcome(db, j, "refunded").total = db.total
           /\ Balance(pending \cup {j}, SetOutcome(db, j, "refunded"), c) = Balance(pending, db, c)
  <1> DEFINE db2 == SetOutcome(db, j, "refunded")
  <1>1. /\ db2.outcome = [db.outcome EXCEPT ![j] = "refunded"]
        /\ db2.total = db.total
        /\ db2.remaining = db.remaining
    BY DEF SetOutcome, Database
  <1>2. \A i \in Jobs : db2.outcome[i] = IF i = j THEN "refunded" ELSE db.outcome[i]
    BY <1>1 DEF Database
  <1>3. Held(pending \cup {j}, db2, c) = Held(pending, db, c)
    BY <1>2 DEF Held
  <1>4. QED
    BY <1>1, <1>3 DEF Balance

LEMMA BalanceGive ==
    ASSUME NEW pending \in SUBSET Jobs, NEW db \in Database, NEW j \in pending,
           db.outcome[j] = "refunded", NEW c \in Codes
    PROVE  /\ GiveUseBack(db, j).total = db.total
           /\ Balance(pending \ {j}, GiveUseBack(db, j), c) = Balance(pending, db, c)
  <1> DEFINE db2 == GiveUseBack(db, j)
             H == Held(pending, db, c)
             H2 == Held(pending \ {j}, db2, c)
  <1>0. CodeOf[j] \in Codes
    BY CodeStoreAssumption
  <1>1. /\ db2.outcome = db.outcome
        /\ db2.total = db.total
        /\ db2.remaining = [db.remaining EXCEPT ![CodeOf[j]] = @ + 1]
    BY DEF GiveUseBack, Database
  <1>2. db.remaining[c] \in Nat /\ Cardinality(H) \in Nat /\ IsFiniteSet(H)
    BY HeldFinite DEF Database
  <1>3. CASE c = CodeOf[j]
    <2>1. H2 = H \ {j} /\ j \in H
      BY <1>1, <1>3 DEF Held
    <2>2. Cardinality(H2) = Cardinality(H) - 1
      <3> HIDE DEF H, H2
      <3>1. Cardinality(H \ {j}) = IF j \in H THEN Cardinality(H) - 1 ELSE Cardinality(H)
        BY <1>2, FS_RemoveElement
      <3>2. QED
        BY <2>1, <3>1
    <2>3. db2.remaining[c] = db.remaining[c] + 1
      BY <1>1, <1>3 DEF Database
    <2>4. QED
      BY <1>1, <1>2, <2>2, <2>3 DEF Balance
  <1>4. CASE c # CodeOf[j]
    <2>1. H2 = H
      BY <1>1, <1>4 DEF Held
    <2>2. db2.remaining[c] = db.remaining[c]
      BY <1>1, <1>4 DEF Database
    <2>3. QED
      BY <1>1, <2>1, <2>2 DEF Balance
  <1>5. QED
    BY <1>3, <1>4

LEMMA BalanceMint ==
    ASSUME NEW pending \in SUBSET Jobs, NEW db \in Database, NEW d \in Codes, db.total[d] = 0,
           NEW uses \in Nat, NEW c \in Codes, Balance(pending, db, c) = db.total[c]
    PROVE  Balance(pending, MintCode(db, d, uses), c) = MintCode(db, d, uses).total[c]
  <1> DEFINE db2 == MintCode(db, d, uses)
  <1>1. /\ db2.outcome = db.outcome
        /\ db2.total = [db.total EXCEPT ![d] = uses]
        /\ db2.remaining = [db.remaining EXCEPT ![d] = uses]
    BY DEF MintCode, Database
  <1>2. Held(pending, db2, c) = Held(pending, db, c)
    BY <1>1 DEF Held
  <1>3. db.remaining[c] \in Nat /\ Cardinality(Held(pending, db, c)) \in Nat
    BY HeldFinite DEF Database
  <1>4. CASE c = d
    <2>1. Cardinality(Held(pending, db, c)) = 0
      BY <1>3, <1>4 DEF Balance
    <2>2. db2.remaining[c] = uses /\ db2.total[c] = uses
      BY <1>1, <1>4 DEF Database
    <2>3. QED
      BY <1>2, <2>1, <2>2 DEF Balance
  <1>5. CASE c # d
    <2>1. db2.remaining[c] = db.remaining[c] /\ db2.total[c] = db.total[c]
      BY <1>1, <1>5 DEF Database
    <2>2. QED
      BY <1>2, <2>1 DEF Balance
  <1>6. QED
    BY <1>4, <1>5

LEMMA BalanceSame ==
    ASSUME NEW pending, NEW db, NEW db2, NEW c, db2.remaining = db.remaining,
           db2.outcome = db.outcome
    PROVE  Balance(pending, db2, c) = Balance(pending, db, c)
  BY DEF Balance, Held

-----------------------------------------------------------------------------
(* The steps of a process that is alone.                                   *)

\* What p's next statement sees is db, whether or not anyone has committed it.
Sees(p, db) == view'[p] = db /\ conn'[p] \in {"idle", "writing"}

LEMMA AloneOnTheFile ==
    ASSUME IInv, Unlocked, NEW p, Procs = {p}
    PROVE  /\ ~WriteFails(p)
           /\ \A db : Write(p, db) => Sees(p, db)
           /\ Read(p) \/ Commit(p) \/ UNCHANGED storage => Sees(p, view[p])
  <1> USE DEF Sees, Unlocked
  <1>0. /\ view \in [Procs -> Database] /\ conn \in [Procs -> ConnStates]
        /\ conn[p] = "writing" \/ view[p] = disk
    BY DEF IInv, TypeOK, ConnTypeOK, ConnInv
  <1>1. ~WriteFails(p)
    BY DEF WriteFails, CanWrite
  <1>2. ASSUME NEW db, Write(p, db) PROVE Sees(p, db)
    BY <1>0, <1>2 DEF Write
  <1>3. Read(p) => Sees(p, view[p])
    BY <1>0 DEF Read
  <1>4. Commit(p) => Sees(p, view[p])
    BY <1>0 DEF Commit
  <1>5. UNCHANGED storage => Sees(p, view[p])
    BY DEF storage
  <1>6. QED
    BY <1>1, <1>2, <1>3, <1>4, <1>5

\* The job's task does not die, and only what is over ends its life.
Onward(from, to) ==
    /\ to \in JobStep \ {"lost", "unfinished"}
    /\ from \in Live => to \in Live \cup {"finished", "closed"}
    /\ from \notin {"finished", "closed"}

\* p's next statement sees db, with j's row as its step wants it and the uses
\* of every code accounted for.
Settles(p, j, to, db) ==
    /\ Sees(p, db)
    /\ \A i \in Jobs : db.outcome[i] = IF i = j THEN RowOf(to) ELSE view[p].outcome[i]
    /\ \A c \in Codes : Balance(Pending', db, c) = db.total[c]

\* A step of job j to db: the row follows the job, the balance is kept.
LEMMA AfterJobMoves ==
    ASSUME IInv, SoloInv, NEW p, Procs = {p}, NEW j \in Jobs, NEW from, NEW to,
           MoveJob(j, from, to), Onward(from, to), NEW db, Settles(p, j, to, db)
    PROVE  SoloInv'
  <1>1. job \in [Jobs -> JobStep] /\ old \in SUBSET Jobs
    BY DEF IInv, TypeOK
  <1>2. /\ job' = [job EXCEPT ![j] = to] /\ job[j] = from
        /\ old' = old /\ sweep' = sweep /\ todo' = todo
    BY DEF MoveJob
  <1>3. Unlocked'
    BY DEF Unlocked, Settles, Sees
  <1>4. NothingStale'
    BY <1>1, <1>2 DEF SoloInv, NothingStale, Onward
  <1>5. RowsFollowJobs'
    BY <1>1, <1>2 DEF SoloInv, RowsFollowJobs, Settles, Sees
  <1>6. Balanced'
    BY DEF Balanced, Settles, Sees
  <1>7. QED
    BY <1>3, <1>4, <1>5, <1>6 DEF SoloInv

LEMMA JobKeepsSolo ==
    ASSUME IInv, SoloInv, NEW p, Procs = {p}, NEW j \in Jobs, JobNext(j)
    PROVE  SoloInv'
  <1> DEFINE db == view[p]
             c == CodeOf[j]
  <1>0. /\ Home[j] = p /\ c \in Codes /\ db \in Database /\ p \in Procs
        /\ Inserting(Procs) \in SUBSET Jobs /\ Giving(Procs) \in SUBSET Jobs
        /\ Pending \in SUBSET Jobs
    BY CodeStoreAssumption DEF IInv, TypeOK, ConnTypeOK, Inserting, Giving, Pending
  <1>a. Unlocked /\ NothingStale /\ RowsFollowJobs /\ Balanced
    BY DEF SoloInv
  <1>b. /\ \A i \in Jobs : db.outcome[i] = RowOf(job[i])
        /\ \A d \in Codes : Balance(Pending, db, d) = db.total[d]
    BY <1>0, <1>a DEF RowsFollowJobs, Balanced
  <1>c. \A i \in Jobs : i \in Inserting(Procs) <=> job[i] = "inserting"
    BY <1>0, CodeStoreAssumption DEF Inserting
  <1>d. \A i \in Jobs : i \in Giving(Procs) <=> job[i] = "giving"
    BY <1>0, <1>a, CodeStoreAssumption DEF Giving, NothingStale
  <1>e. \A i \in Jobs : i \in Pending <=> job[i] \in {"inserting", "giving"}
    BY <1>c, <1>d DEF Pending
  <1> USE DEF JobStep, Live
  <1>f. ASSUME NEW to \in JobStep \ {"new", "inserting", "giving"}, NEW from,
               MoveJob(j, from, to), from \notin {"inserting", "giving"}
        PROVE  Pending' = Pending
    <2>1. /\ Inserting(Procs)' = Inserting(Procs) \ {j}
          /\ Giving(Procs)' = Giving(Procs)
      BY <1>f, MoveJobSets
    <2>2. j \notin Inserting(Procs)
      BY <1>c, <1>f DEF MoveJob
    <2>3. QED
      BY <2>1, <2>2 DEF Pending
  <1>1. CASE RedeemUpdate(j) /\ Redeemable(db, c)
    <2>0. Onward("new", "inserting")
      BY DEF Onward
    <2>1. MoveJob(j, "new", "inserting") /\ Write(p, SpendUse(db, c))
      BY <1>0, <1>1 DEF RedeemUpdate
    <2>2. Pending' = Pending \cup {j}
      <3>1. /\ Inserting(Procs)' = Inserting(Procs) \cup {j}
            /\ Giving(Procs)' = Giving(Procs)
        BY <1>0, <2>1, MoveJobSets
      <3>2. QED
        BY <3>1 DEF Pending
    <2>3. job[j] = "new" /\ j \notin Pending /\ db.outcome[j] = "absent"
      BY <1>b, <1>e, <2>1 DEF MoveJob, RowOf
    <2>4. \A d \in Codes : Balance(Pending', SpendUse(db, c), d) = SpendUse(db, c).total[d]
      <3>1. /\ SpendUse(db, CodeOf[j]).total = db.total
            /\ \A d \in Codes :
                    Balance(Pending \cup {j}, SpendUse(db, CodeOf[j]), d) = Balance(Pending, db, d)
        BY <1>0, <1>1, <2>3, BalanceSpend
      <3>2. QED
        BY <1>b, <2>2, <3>1
    <2>5. SpendUse(db, c) \in Database /\ SpendUse(db, c).outcome = db.outcome
      <3>1. SpendUse(db, CodeOf[j]) \in Database
        BY <1>0, <1>1, StatementsType
      <3>2. SpendUse(db, CodeOf[j]).outcome = db.outcome
        BY <1>0 DEF SpendUse, Database
      <3>3. QED
        BY <3>1, <3>2
    <2>6. Sees(p, SpendUse(db, c))
      BY <1>a, <2>1, AloneOnTheFile
    <2>7. \A i \in Jobs : SpendUse(db, c).outcome[i] =
                IF i = j THEN RowOf("inserting") ELSE db.outcome[i]
      BY <2>3, <2>5 DEF RowOf
    <2>8. Settles(p, j, "inserting", SpendUse(db, c))
      BY <2>4, <2>6, <2>7 DEF Settles
    <2>9. QED
      BY <2>1, <2>0, <2>8, AfterJobMoves
  <1>2. CASE RedeemUpdate(j) /\ ~Redeemable(db, c)
    <2>0. Onward("new", "refusing")
      BY DEF Onward
    <2>1. MoveJob(j, "new", "refusing") /\ Write(p, db)
      BY <1>0, <1>2 DEF RedeemUpdate
    <2>2. Pending' = Pending /\ db.outcome[j] = "absent" /\ RowOf("refusing") = "absent"
      BY <1>b, <1>f, <2>1 DEF MoveJob, RowOf
    <2>3. Sees(p, db)
      BY <1>a, <2>1, AloneOnTheFile
    <2>8. Settles(p, j, "refusing", db)
      BY <1>b, <2>2, <2>3 DEF Settles
    <2>9. QED
      BY <2>1, <2>0, <2>8, AfterJobMoves
  <1>3. CASE RedeemInsert(j)
    <2>0. Onward("inserting", "committing")
      BY DEF Onward
    <2>1. MoveJob(j, "inserting", "committing") /\ Write(p, InsertRedemption(db, j))
      BY <1>0, <1>3 DEF RedeemInsert
    <2>2. Pending' = Pending \ {j}
      <3>1. /\ Inserting(Procs)' = Inserting(Procs) \ {j}
            /\ Giving(Procs)' = Giving(Procs)
        BY <1>0, <2>1, MoveJobSets
      <3>2. j \notin Giving(Procs)
        BY <1>d, <2>1 DEF MoveJob
      <3>3. QED
        BY <3>1, <3>2 DEF Pending
    <2>3. j \in Pending
      BY <1>e, <2>1 DEF MoveJob
    <2>4. \A d \in Codes :
            Balance(Pending', InsertRedemption(db, j), d) = InsertRedemption(db, j).total[d]
      BY <1>0, <1>b, <2>2, <2>3, BalanceInsert
    <2>5. /\ InsertRedemption(db, j) \in Database
          /\ InsertRedemption(db, j).outcome = [db.outcome EXCEPT ![j] = "open"]
      BY <1>0, StatementsType DEF InsertRedemption, Database
    <2>6. Sees(p, InsertRedemption(db, j))
      BY <1>a, <2>1, AloneOnTheFile
    <2>7. \A i \in Jobs : InsertRedemption(db, j).outcome[i] =
                IF i = j THEN RowOf("committing") ELSE db.outcome[i]
      BY <1>0, <2>5 DEF Database, RowOf
    <2>8. Settles(p, j, "committing", InsertRedemption(db, j))
      BY <2>4, <2>6, <2>7 DEF Settles
    <2>9. QED
      BY <2>1, <2>0, <2>8, AfterJobMoves
  <1>4. CASE FinishUpdate(j)
    <2> DEFINE db2 == SetOutcome(db, j, "complete")
    <2>0. Onward("delivered", "finishing")
      BY DEF Onward
    <2>1. MoveJob(j, "delivered", "finishing") /\ Write(p, db2)
      BY <1>0, <1>4 DEF FinishUpdate
    <2>2. Pending' = Pending /\ db.outcome[j] = "open"
      BY <1>b, <1>f, <2>1 DEF MoveJob, RowOf
    <2>3. \A d \in Codes : Balance(Pending', db2, d) = db2.total[d]
      BY <1>0, <1>b, <2>2, BalanceFinish
    <2>4. db2 \in Database /\ db2.outcome = [db.outcome EXCEPT ![j] = "complete"]
      BY <1>0, <2>2, StatementsType DEF SetOutcome, Database, Outcome
    <2>5. Sees(p, db2)
      BY <1>a, <2>1, AloneOnTheFile
    <2>6. \A i \in Jobs : db2.outcome[i] =
                IF i = j THEN RowOf("finishing") ELSE db.outcome[i]
      BY <1>0, <2>4 DEF Database, RowOf
    <2>8. Settles(p, j, "finishing", db2)
      BY <2>3, <2>5, <2>6 DEF Settles
    <2>9. QED
      BY <2>1, <2>0, <2>8, AfterJobMoves
  <1>5. CASE RefundMark(j)
    <2> DEFINE db2 == SetOutcome(db, j, "refunded")
    <2>1. db.outcome[j] = "open"
      BY <1>b, <1>5 DEF RefundMark, MoveJob, RowOf
    <2>0. Onward("failed", "giving")
      BY DEF Onward
    <2>2. MoveJob(j, "failed", "giving") /\ Write(p, db2)
      BY <1>0, <1>5, <2>1 DEF RefundMark
    <2>3. Pending' = Pending \cup {j}
      <3>1. /\ Inserting(Procs)' = Inserting(Procs) \ {j}
            /\ Giving(Procs)' = Giving(Procs) \cup {j}
        BY <1>0, <2>2, MoveJobSets
      <3>2. QED
        BY <3>1 DEF Pending
    <2>4. \A d \in Codes : Balance(Pending', db2, d) = db2.total[d]
      BY <1>0, <1>b, <2>1, <2>3, BalanceMark
    <2>5. db2 \in Database /\ db2.outcome = [db.outcome EXCEPT ![j] = "refunded"]
      BY <1>0, <2>1, StatementsType DEF SetOutcome, Database, Outcome
    <2>6. Sees(p, db2)
      BY <1>a, <2>2, AloneOnTheFile
    <2>7. \A i \in Jobs : db2.outcome[i] =
                IF i = j THEN RowOf("giving") ELSE db.outcome[i]
      BY <1>0, <2>5 DEF Database, RowOf
    <2>8. Settles(p, j, "giving", db2)
      BY <2>4, <2>6, <2>7 DEF Settles
    <2>9. QED
      BY <2>2, <2>0, <2>8, AfterJobMoves
  <1>6. CASE RefundGive(j)
    <2> DEFINE db2 == GiveUseBack(db, j)
    <2>0. Onward("giving", "closing")
      BY DEF Onward
    <2>1. MoveJob(j, "giving", "closing") /\ Write(p, db2)
      BY <1>0, <1>6 DEF RefundGive
    <2>2. Pending' = Pending \ {j}
      <3>1. /\ Inserting(Procs)' = Inserting(Procs) \ {j}
            /\ Giving(Procs)' = Giving(Procs) \ {j}
        BY <1>0, <2>1, MoveJobSets
      <3>2. QED
        BY <3>1 DEF Pending
    <2>3. j \in Pending /\ db.outcome[j] = "refunded"
      BY <1>b, <1>e, <2>1 DEF MoveJob, RowOf
    <2>4. \A d \in Codes : Balance(Pending', db2, d) = db2.total[d]
      BY <1>0, <1>b, <2>2, <2>3, BalanceGive
    <2>5. db2 \in Database /\ db2.outcome = db.outcome
      BY <1>0, StatementsType DEF GiveUseBack, Database
    <2>6. Sees(p, db2)
      BY <1>a, <2>1, AloneOnTheFile
    <2>7. \A i \in Jobs : db2.outcome[i] =
                IF i = j THEN RowOf("closing") ELSE db.outcome[i]
      BY <2>3, <2>5 DEF RowOf
    <2>8. Settles(p, j, "closing", db2)
      BY <2>4, <2>6, <2>7 DEF Settles
    <2>9. QED
      BY <2>1, <2>0, <2>8, AfterJobMoves
  <1>7. CASE RedeemRefuse(j) \/ RedeemCommit(j) \/ FinishCommit(j) \/ RefundCommit(j)
             \/ Deliver(j) \/ Fail(j)
    <2>1. Read(p) \/ Commit(p) \/ UNCHANGED storage
      BY <1>0, <1>7 DEF RedeemRefuse, RedeemCommit, FinishCommit, RefundCommit, Deliver, Fail
    <2>2. Sees(p, db)
      BY <1>a, <2>1, AloneOnTheFile
    <2>3. \E from, to \in JobStep \ {"new", "inserting", "giving", "lost", "unfinished"} :
                MoveJob(j, from, to) /\ RowOf(to) = RowOf(from) /\ Onward(from, to)
      BY <1>7 DEF RedeemRefuse, RedeemCommit, FinishCommit, RefundCommit, Deliver, Fail, RowOf,
                     Onward
    <2>4. PICK from, to \in JobStep \ {"new", "inserting", "giving", "lost", "unfinished"} :
                MoveJob(j, from, to) /\ RowOf(to) = RowOf(from) /\ Onward(from, to)
      BY <2>3
    <2>5. Pending' = Pending
      BY <1>f, <2>4
    <2>6. db.outcome[j] = RowOf(to)
      BY <1>b, <2>4 DEF MoveJob
    <2>7. /\ \A i \in Jobs : db.outcome[i] = IF i = j THEN RowOf(to) ELSE db.outcome[i]
          /\ \A d \in Codes : Balance(Pending', db, d) = db.total[d]
      BY <1>b, <2>5, <2>6
    <2>8. Settles(p, j, to, db)
      BY <2>2, <2>7 DEF Settles
    <2>9. QED
      BY <2>4, <2>8, AfterJobMoves
  <1>8. ~JobStatementFails(j)
    BY <1>0, <1>a, AloneOnTheFile DEF JobStatementFails
  <1>9. QED
    BY <1>0, <1>1, <1>2, <1>3, <1>4, <1>5, <1>6, <1>7, <1>8 DEF JobNext, RedeemUpdate

\* A step that moves no job and no sweep.
LEMMA AfterOtherSteps ==
    ASSUME IInv, SoloInv, NEW p, Procs = {p}, job' = job, NothingStale',
           NEW db, Sees(p, db), db.outcome = view[p].outcome,
           \A c \in Codes : Balance(Pending, db, c) = db.total[c]
    PROVE  SoloInv'
  <1>1. Giving(Procs) = {j \in Jobs : job[j] = "giving"}
    BY CodeStoreAssumption DEF Giving, SoloInv, NothingStale
  <1>2. Giving(Procs)' = {j \in Jobs : job[j] = "giving"}
    BY CodeStoreAssumption DEF Giving, NothingStale
  <1>3. Pending' = Pending
    BY <1>1, <1>2 DEF Pending, Inserting
  <1>4. Unlocked' /\ RowsFollowJobs' /\ Balanced'
    BY <1>3 DEF Unlocked, RowsFollowJobs, Balanced, Sees, SoloInv
  <1>5. QED
    BY <1>4 DEF SoloInv

LEMMA OthersKeepSolo ==
    ASSUME IInv, SoloInv, NEW p, Procs = {p}, [Next]_vars,
           ~\E j \in Jobs : JobNext(j), crashes' = 0
    PROVE  SoloInv'
  <1> DEFINE db == view[p]
  <1>0. /\ db \in Database /\ p \in Procs /\ \A t \in Jobs \cup Calls : Home[t] = p
        /\ Pending \in SUBSET Jobs /\ old \in SUBSET Jobs
        /\ sweep \in [Procs -> {"idle", "giving", "closing"}]
        /\ todo \in [Procs -> SUBSET Jobs]
        /\ crashes \in Nat
    BY CodeStoreAssumption DEF IInv, TypeOK, ConnTypeOK, Pending, Inserting, Giving
  <1>a. Unlocked /\ NothingStale /\ RowsFollowJobs /\ Balanced
    BY DEF SoloInv
  <1>b. /\ \A i \in Jobs : db.outcome[i] = RowOf(job[i])
        /\ \A d \in Codes : Balance(Pending, db, d) = db.total[d]
    BY <1>0, <1>a DEF RowsFollowJobs, Balanced
  <1>c. ~WriteFails(p)
    BY <1>a, AloneOnTheFile
  <1>d. ASSUME job' = job, NothingStale', Read(p) \/ Commit(p) \/ UNCHANGED storage
        PROVE  SoloInv'
    <2>1. Sees(p, db)
      BY <1>a, <1>d, AloneOnTheFile
    <2>2. QED
      BY <1>b, <1>d, <2>1, AfterOtherSteps
  <1>e. ASSUME old' = old, job' = job, sweep' = sweep, todo' = todo
        PROVE  NothingStale'
    BY <1>a, <1>e DEF NothingStale
  <1>f. ASSUME job' = job, NothingStale', NEW db2 \in Database, Write(p, db2),
               db2.outcome = db.outcome, db2.remaining = db.remaining, db2.total = db.total
        PROVE  SoloInv'
    <2>1. Sees(p, db2)
      BY <1>a, <1>f, AloneOnTheFile
    <2>2. \A d \in Codes : Balance(Pending, db2, d) = db2.total[d]
      BY <1>b, <1>f, BalanceSame
    <2>3. QED
      BY <1>f, <2>1, <2>2, AfterOtherSteps
  <1>1. ASSUME NEW j \in Jobs, Age(j) PROVE SoloInv'
    <2>1. NothingStale'
      BY <1>1, <1>a DEF Age, NothingStale
    <2>2. QED
      BY <1>1, <1>d, <2>1 DEF Age
  <1>2. ASSUME NEW k \in Calls, CallNext(k) PROVE SoloInv'
    <2>1. job' = job /\ NothingStale'
      BY <1>2, <1>e DEF CallNext, MoveCall, RegisterSelect, RegisterUpdate, RegisterCommit,
                        CallStatementFails
    <2>2. CASE RegisterSelect(k) \/ RegisterCommit(k)
      BY <1>0, <1>d, <2>1, <2>2 DEF RegisterSelect, RegisterCommit
    <2>3. CASE RegisterUpdate(k)
      <3> DEFINE db2 == CountCall(db, CodeOf[k])
      <3>1. /\ db2 \in Database /\ db2.outcome = db.outcome
            /\ db2.remaining = db.remaining /\ db2.total = db.total
        BY <1>0 DEF CountCall, Database
      <3>2. Write(p, db2)
        BY <1>0, <2>3 DEF RegisterUpdate
      <3>3. QED
        BY <1>f, <2>1, <3>1, <3>2
    <2>4. ~CallStatementFails(k)
      BY <1>0, <1>c DEF CallStatementFails
    <2>5. QED
      BY <1>2, <2>2, <2>3, <2>4 DEF CallNext
  <1>3. CASE SweepNext(p)
    <2>1. StaleRows(p) = {}
      <3>1. SUFFICES ASSUME NEW j \in old, db.outcome[j] = "open" PROVE job[j] \in Live
        BY <1>0 DEF StaleRows
      <3>2. job[j] \in Live \cup {"finished", "closed"} /\ RowOf(job[j]) = "open"
        BY <1>0, <1>a, <1>b, <3>1 DEF NothingStale
      <3>3. QED
        BY <3>2 DEF RowOf
    <2>2. SweepSelect(p)
      BY <1>0, <1>3, <1>a, <1>c DEF SweepNext, SweepMark, SweepGive, SweepCommit,
                                    SweepStatementFails, NothingStale
    <2>3. job' = job /\ Read(p)
      BY <2>2 DEF SweepSelect
    <2>4. NothingStale'
      BY <1>0, <1>a, <2>1, <2>2 DEF SweepSelect, NothingStale
    <2>5. QED
      BY <1>d, <2>3, <2>4
  <1>4. CASE AdminNext(p)
    <2>1. ASSUME NEW c \in Codes, NEW uses \in 1..MaxUses, MintInsert(p, c, uses)
          PROVE  SoloInv'
      <3> DEFINE db2 == MintCode(db, c, uses)
      <3>1. /\ Write(p, db2) /\ db.total[c] = 0 /\ job' = job
            /\ sweep' = sweep /\ todo' = todo /\ old' = old
        BY <2>1 DEF MintInsert, MoveAdmin
      <3>2. Sees(p, db2)
        BY <1>a, <3>1, AloneOnTheFile
      <3>3. \A d \in Codes : Balance(Pending, db2, d) = db2.total[d]
        BY <1>0, <1>b, <3>1, BalanceMint
      <3>4. db2.outcome = db.outcome
        BY <1>0 DEF MintCode, Database
      <3>5. QED
        BY <1>e, <3>1, <3>2, <3>3, <3>4, AfterOtherSteps
    <2>2. ASSUME NEW c \in Codes, RevokeUpdate(p, c) PROVE SoloInv'
      <3> DEFINE db2 == RevokeCode(db, c)
      <3>1. /\ db2 \in Database /\ db2.outcome = db.outcome
            /\ db2.remaining = db.remaining /\ db2.total = db.total
        BY <1>0 DEF RevokeCode, Database
      <3>2. Write(p, db2) /\ job' = job /\ NothingStale'
        BY <2>2, <1>e DEF RevokeUpdate, MoveAdmin
      <3>3. QED
        BY <1>f, <3>1, <3>2
    <2>3. CASE AdminCommit(p) \/ StatusSelect(p)
      <3>1. job' = job /\ NothingStale' /\ (Read(p) \/ Commit(p))
        BY <2>3, <1>e DEF AdminCommit, StatusSelect, MoveAdmin, tasks
      <3>2. QED
        BY <1>d, <3>1
    <2>4. ~AdminStatementFails(p)
      BY <1>c DEF AdminStatementFails
    <2>5. QED
      BY <1>4, <2>1, <2>2, <2>3, <2>4 DEF AdminNext
  <1>5. ~Crash(p)
    BY <1>0 DEF Crash
  <1>6. CASE UNCHANGED vars
    <2>1. job' = job /\ NothingStale' /\ UNCHANGED storage
      BY <1>6, <1>e DEF vars, tasks
    <2>2. QED
      BY <1>d, <2>1
  <1>7. QED
    BY <1>1, <1>2, <1>3, <1>4, <1>5, <1>6 DEF Next

\* The invariant of one process up to its first crash.
Solo == OneProcess /\ crashes = 0 => SoloInv

LEMMA SoloKept == IInv /\ Solo /\ [Next]_vars => Solo'
  <1> SUFFICES ASSUME IInv, Solo, [Next]_vars, OneProcess, crashes' = 0 PROVE SoloInv'
    BY DEF Solo, OneProcess
  <1>1. PICK p : Procs = {p}
    BY DEF OneProcess
  <1>2. crashes = 0
    <2>1. crashes \in Nat
      BY CodeStoreAssumption DEF IInv, TypeOK
    <2>2. crashes' = crashes \/ crashes' = crashes + 1
      BY DEF Next, vars, tasks, JobNext, MoveJob, RedeemUpdate, RedeemRefuse, RedeemInsert,
            RedeemCommit, Deliver, Fail, FinishUpdate, FinishCommit, RefundMark, RefundGive,
            RefundCommit, JobStatementFails, Age, CallNext, MoveCall, RegisterSelect,
            RegisterUpdate, RegisterCommit, CallStatementFails, SweepNext, SweepSelect,
            SweepMark, SweepGive, SweepCommit, SweepStatementFails, AdminNext, MoveAdmin,
            MintInsert, RevokeUpdate, AdminCommit, AdminStatementFails, StatusSelect, Crash
    <2>3. QED
      BY <2>1, <2>2
  <1>3. SoloInv
    BY <1>2 DEF Solo
  <1>4. CASE \E j \in Jobs : JobNext(j)
    BY <1>1, <1>3, <1>4, JobKeepsSolo
  <1>5. CASE ~\E j \in Jobs : JobNext(j)
    BY <1>1, <1>3, <1>5, OthersKeepSolo
  <1>6. QED
    BY <1>4, <1>5

LEMMA InitSolo == Init => Solo
  <1> SUFFICES ASSUME Init PROVE SoloInv
    BY DEF Solo
  <1>1. Pending = {}
    BY DEF Init, Pending, Inserting, Giving
  <1>2. \A c \in Codes : Held({}, EmptyDatabase, c) = {}
    BY DEF Held, EmptyDatabase
  <1>3. \A c \in Codes : Balance({}, EmptyDatabase, c) = EmptyDatabase.total[c]
    <2>1. \A c \in Codes : EmptyDatabase.remaining[c] = 0 /\ EmptyDatabase.total[c] = 0
      BY DEF EmptyDatabase
    <2>2. QED
      BY <1>2, <2>1, FS_EmptySet DEF Balance
  <1>4. Unlocked /\ NothingStale
    BY DEF Init, ConnInit, Unlocked, NothingStale
  <1>5. \A p \in Procs : view[p] = EmptyDatabase
    BY DEF Init, ConnInit
  <1>6. RowsFollowJobs
    BY <1>5 DEF Init, RowsFollowJobs, RowOf, EmptyDatabase
  <1>7. QED
    BY <1>1, <1>3, <1>4, <1>5, <1>6 DEF SoloInv, Balanced

LEMMA AlwaysSolo == Spec => []Solo
  <1>1. IInv /\ Solo /\ UNCHANGED vars => Solo'
    BY SoloKept
  <1>2. QED
    BY InitSolo, SoloKept, Inductive, PTL DEF Spec

\* While the one process runs, no use is lost: at rest, each that was minted
\* is still there or held by a redemption (code_store.py:163-226).
THEOREM OneProcessLosesNoUse == ASSUME OneProcess PROVE Spec => []NoUseLost
  <1>1. ASSUME IInv, Solo PROVE NoUseLost
    <2>1. SUFFICES ASSUME Quiet, crashes = 0, NEW c \in Codes PROVE UsesAddUp(c)
      BY DEF NoUseLost
    <2>2. PICK p : Procs = {p}
      BY DEF OneProcess
    <2>3. SoloInv
      BY <1>1, <2>1 DEF Solo
    <2>4. view[p] = disk
      BY <1>1, <2>1, <2>2, <2>3 DEF Quiet, SoloInv, Unlocked, IInv, ConnInv
    <2>5. Pending = {}
      BY <2>1 DEF Quiet, Pending, Inserting, Giving, InRedeem
    <2>6. Held({}, disk, c) = Spent(disk, c)
      BY DEF Held, Spent
    <2>7. QED
      BY <2>2, <2>3, <2>4, <2>5, <2>6 DEF SoloInv, Balanced, Balance, UsesAddUp
  <1>2. QED
    BY <1>1, Inductive, AlwaysSolo, PTL

\* And it never refunds what it has delivered, however long a job takes: the
\* sweep spares what runs (main.py:25-26, code_store.py:205).
THEOREM OneProcessKeepsDelivered == ASSUME OneProcess PROVE Spec => []DeliveredNotRefunded
  <1>1. ASSUME IInv, ViewsLawful, Solo PROVE DeliveredNotRefunded
    <2>1. SUFFICES ASSUME crashes = 0, NEW j \in Jobs, job[j] \in Delivered,
                          disk.outcome[j] = "refunded"
                   PROVE  FALSE
      BY DEF DeliveredNotRefunded
    <2>2. PICK p : Procs = {p}
      BY DEF OneProcess
    <2>3. SoloInv
      BY <1>1, <2>1 DEF Solo
    <2>4. view[p].outcome[j] # "refunded"
      BY <2>1, <2>2, <2>3 DEF SoloInv, NothingStale, RowsFollowJobs, RowOf, Delivered
    <2>5. CASE conn[p] = "writing"
      BY <1>1, <2>1, <2>2, <2>4, <2>5 DEF ViewsLawful, Lawful
    <2>6. CASE conn[p] # "writing"
      BY <1>1, <2>1, <2>2, <2>3, <2>4, <2>6 DEF SoloInv, Unlocked, IInv, ConnInv
    <2>7. QED
      BY <2>5, <2>6
  <1>2. QED
    BY <1>1, Inductive, AlwaysLawful, AlwaysSolo, PTL

-----------------------------------------------------------------------------
(* The start of the processes, before any of them serves: the migration of *)
(* the outcome column (module OutcomeMigration), on the same file.         *)
(* However many processes start at once on an old database, and wherever   *)
(* they die, no redemption from before the column is refunded.             *)

LEMMA MigrationMarkType ==
    ASSUME NEW db \in MigrationDatabase, NEW rows \in SUBSET Rows,
           NEW o \in {"null", "legacy", "complete", "refunded"}
    PROVE  /\ Mark(db, rows, o) \in MigrationDatabase
           /\ Mark(db, rows, o).version = db.version
           /\ \A r \in Rows : Mark(db, rows, o).outcome[r] = IF r \in rows THEN o ELSE db.outcome[r]
  BY DEF Mark, MigrationDatabase

LEMMA MigrationNullRows == ASSUME NEW db \in MigrationDatabase PROVE NullRows(db) \in SUBSET Rows
  BY DEF NullRows

LEMMA MigrationInvInit ==
    ASSUME MigrationInit
    PROVE  MigrationInv
  <1> PICK column \in BOOLEAN, rows \in SUBSET OldRows :
          ConnInit([ version |-> 0, column |-> column,
                     outcome |-> [r \in Rows |-> IF r \in rows THEN "null" ELSE "absent"] ])
    BY DEF MigrationInit
  <1> DEFINE db == [ version |-> 0, column |-> column,
                     outcome |-> [r \in Rows |-> IF r \in rows THEN "null" ELSE "absent"] ]
  <1>1. db \in MigrationDatabase
    BY DEF MigrationDatabase
  <1>2. disk = db /\ view = [p \in Procs |-> db] /\ conn = [p \in Procs |-> "idle"]
    BY DEF ConnInit
  <1>3. MigrationTypeOK
    <2>1. ConnTypeOK(MigrationDatabase)
      BY <1>1, <1>2 DEF ConnTypeOK, ConnStates
    <2> HIDE DEF db
    <2>2. QED
      BY <1>2, <2>1, MigrationAssumption DEF MigrationInit, MigrationTypeOK, Boot, Migrating
  <1>4. QED
    BY <1>2, <1>3 DEF MigrationInit, MigrationInv, Filed, Unsettled, Migrating, Rows

-----------------------------------------------------------------------------
(* What p's step leaves of the other processes.                            *)

\* Nobody else is in the middle of a migration when p may write.
LEMMA MigratesAlone ==
    ASSUME MigrationTypeOK, NEW p \in Procs, CanWrite(p)
    PROVE  \A q \in Procs \ {p} : boot[q] \notin Migrating
  BY DEF MigrationTypeOK, CanWrite

LEMMA MigrationWrites ==
    ASSUME MigrationInv, NEW p \in Procs, NEW db \in MigrationDatabase, NEW to \in Migrating,
           Write(p, db), boot' = [boot EXCEPT ![p] = to],
           UNCHANGED <<running, deaths, hasColumn>>,
           to = "altered" => Unsettled(db),
           to \in {"marked", "versioned"} => Filed(db),
           to \in {"altered", "marked"} => db.version = disk.version,
           to = "versioned" => db.version = 1
    PROVE  MigrationInv'
  <1> USE DEF MigrationInv
  <1>1. /\ disk' = disk /\ view' = [view EXCEPT ![p] = db]
        /\ conn' = [conn EXCEPT ![p] = "writing"] /\ CanWrite(p)
    BY DEF Write
  <1>2. \A q \in Procs \ {p} : boot[q] \notin Migrating
    BY <1>1, MigratesAlone
  <1>3. MigrationTypeOK'
    BY <1>1 DEF MigrationTypeOK, ConnTypeOK, ConnStates, Boot, Migrating
  <1>4. boot \in [Procs -> Boot] /\ view \in [Procs -> MigrationDatabase]
    BY DEF MigrationTypeOK, ConnTypeOK
  <1>5. QED
    BY <1>1, <1>2, <1>3, <1>4 DEF Unsettled, Filed, Migrating

\* A statement that is persisted at once, of a process that serves.
LEMMA ServingPersists ==
    ASSUME MigrationInv, NEW p \in Procs, NEW db \in MigrationDatabase, boot[p] = "serving", Persist(p, db),
           Filed(db), db.version = 1, UNCHANGED <<boot, deaths, hasColumn>>,
           running' \in [Procs -> SUBSET NewRows]
    PROVE  MigrationInv'
  <1> USE DEF MigrationInv
  <1>0. boot \in [Procs -> Boot] /\ view \in [Procs -> MigrationDatabase] /\ conn \in [Procs -> ConnStates]
    BY DEF MigrationTypeOK, ConnTypeOK
  <1>1. \A q \in Procs : boot[q] \notin Migrating
    BY MigratesAlone DEF Persist, Migrating
  <1>2. \A q \in Procs : conn[q] \in {"idle", "begun"}
    BY <1>1 DEF MigrationTypeOK
  <1>3. conn' = conn /\ disk' = db /\ view' = [q \in Procs |-> db]
    BY <1>0, <1>1, <1>2 DEF Persist, MigrationTypeOK, Migrating
  <1>4. MigrationTypeOK'
    BY <1>0, <1>3 DEF MigrationTypeOK, ConnTypeOK
  <1>5. QED
    BY <1>1, <1>3, <1>4 DEF Unsettled, Filed

LEMMA MigrationCommits ==
    ASSUME MigrationInv, NEW p \in Procs, CommitMigration(p)
    PROVE  MigrationInv'
  <1> USE DEF MigrationInv
  <1>0. boot \in [Procs -> Boot] /\ view \in [Procs -> MigrationDatabase] /\ conn \in [Procs -> ConnStates]
    BY DEF MigrationTypeOK, ConnTypeOK
  <1>1. /\ boot[p] = "versioned" /\ boot' = [boot EXCEPT ![p] = "serving"] /\ Commit(p)
        /\ UNCHANGED <<running, deaths, hasColumn>>
    BY DEF CommitMigration, Go
  <1>2. conn[p] = "writing" /\ \A q \in Procs \ {p} : boot[q] \notin Migrating
    BY <1>1 DEF MigrationTypeOK, Migrating
  <1>3. \A q \in Procs \ {p} : conn[q] \in {"idle", "begun"}
    BY <1>2 DEF MigrationTypeOK
  <1>4. /\ disk' = view[p] /\ conn' = [conn EXCEPT ![p] = "idle"]
        /\ view' = [q \in Procs |-> view[p]]
    BY <1>0, <1>1, <1>2, <1>3 DEF Commit
  <1>5. view[p].version = 1 /\ Filed(view[p])
    BY <1>1
  <1>6. MigrationTypeOK'
    BY <1>0, <1>1, <1>2, <1>4 DEF MigrationTypeOK, ConnTypeOK, ConnStates, Boot, Migrating
  <1>7. QED
    BY <1>0, <1>1, <1>2, <1>4, <1>5, <1>6 DEF Unsettled, Filed, Migrating

LEMMA MigrationEnds ==
    ASSUME MigrationInv, NEW p \in Procs, Down(p), deaths' \in 0..MaxDeaths
    PROVE  MigrationInv'
  <1> USE DEF MigrationInv
  <1>1. /\ disk' = disk /\ view' = [view EXCEPT ![p] = disk]
        /\ conn' = [conn EXCEPT ![p] = "idle"] /\ boot' = [boot EXCEPT ![p] = "down"]
        /\ running' = [running EXCEPT ![p] = {}] /\ hasColumn' = hasColumn
    BY DEF Down, Disconnect
  <1>2. MigrationTypeOK'
    BY <1>1 DEF MigrationTypeOK, ConnTypeOK, ConnStates, Boot, Migrating
  <1>3. boot \in [Procs -> Boot] /\ view \in [Procs -> MigrationDatabase]
    BY DEF MigrationTypeOK, ConnTypeOK
  <1>4. QED
    BY <1>1, <1>2, <1>3 DEF Migrating

-----------------------------------------------------------------------------
LEMMA StartKeeps ==
    ASSUME MigrationInv, NEW p \in Procs, Start(p)
    PROVE  MigrationInv'
  <1>0. /\ MigrationTypeOK /\ boot \in [Procs -> Boot] /\ view[p] \in MigrationDatabase /\ disk \in MigrationDatabase
        /\ NullRows(view[p]) \in SUBSET Rows
    BY MigrationNullRows DEF MigrationInv, MigrationTypeOK, ConnTypeOK
  <1>1. CASE Connect(p)
    BY <1>0, <1>1 DEF Connect, Go, MigrationInv, MigrationTypeOK, ConnTypeOK, Boot, Migrating, storage
  <1>2. CASE ReadVersion(p)
    <2> DEFINE to == IF Migrated(disk) THEN "serving" ELSE "unmigrated"
    <2>1. to \in {"serving", "unmigrated"} /\ (to = "serving" => disk.version = 1)
      BY <1>0 DEF Migrated, MigrationDatabase
    <2>2. boot[p] = "connected" /\ boot' = [boot EXCEPT ![p] = to]
      BY <1>2 DEF ReadVersion, Go
    <2> HIDE DEF to
    <2>3. QED
      BY <1>0, <1>2, <2>1, <2>2
         DEF ReadVersion, Go, MigrationInv, MigrationTypeOK, ConnTypeOK, Boot, Migrating, storage
  <1>3. CASE ReadColumns(p)
    <2>1. disk.column \in BOOLEAN
      BY <1>0 DEF MigrationDatabase
    <2>2. QED
      BY <1>0, <1>3, <2>1
         DEF ReadColumns, Go, MigrationInv, MigrationTypeOK, ConnTypeOK, ConnStates, Boot, Migrating
  <1>4. CASE Alter(p)
    <2> DEFINE db == [view[p] EXCEPT !.column = TRUE]
    <2>1. db \in MigrationDatabase /\ db.version = view[p].version /\ db.outcome = view[p].outcome
      BY <1>0 DEF MigrationDatabase
    <2>2. boot[p] = "begun" /\ view[p] = disk
      BY <1>4 DEF Alter, Go, MigrationInv, Migrating
    <2>3. Unsettled(db) /\ db.version = disk.version
      BY <2>1, <2>2 DEF MigrationInv, Unsettled
    <2>4. QED
      BY <1>4, <2>1, <2>3, MigrationWrites DEF Alter, Go, Migrating
  <1>5. CASE MarkLegacy(p)
    <2> DEFINE db == Mark(view[p], NullRows(view[p]), "legacy")
    <2>1. /\ db \in MigrationDatabase /\ db.version = view[p].version
          /\ \A r \in Rows : db.outcome[r] =
                IF r \in NullRows(view[p]) THEN "legacy" ELSE view[p].outcome[r]
      BY <1>0, MigrationMarkType
    <2>2. boot[p] \in {"begun", "altered"}
      BY <1>5 DEF MarkLegacy, Go
    <2>3. Unsettled(view[p]) /\ view[p].version = disk.version
      BY <2>2 DEF MigrationInv, Migrating
    <2>4. Filed(db)
      BY <2>1, <2>3 DEF Filed, Unsettled, Rows, NullRows
    <2>5. QED
      BY <1>5, <2>1, <2>3, <2>4, MigrationWrites DEF MarkLegacy, Go, Migrating
  <1>6. CASE SetVersion(p)
    <2> DEFINE db == [view[p] EXCEPT !.version = 1]
    <2>1. db \in MigrationDatabase /\ db.version = 1 /\ db.outcome = view[p].outcome
      BY <1>0 DEF MigrationDatabase
    <2>2. Filed(db)
      BY <1>6, <2>1 DEF SetVersion, Go, MigrationInv, Filed
    <2>3. QED
      BY <1>6, <2>1, <2>2, MigrationWrites DEF SetVersion, Go, Migrating
  <1>7. CASE CommitMigration(p)
    BY <1>7, MigrationCommits
  <1>8. CASE MigrationFails(p)
    BY <1>0, <1>8, MigrationEnds DEF MigrationFails, MigrationTypeOK
  <1>9. QED
    BY <1>1, <1>2, <1>3, <1>4, <1>5, <1>6, <1>7, <1>8 DEF Start

LEMMA ServingKeeps ==
    ASSUME MigrationInv, NEW p \in Procs, Redeem(p) \/ Settle(p) \/ Sweep(p)
    PROVE  MigrationInv'
  <1>0. /\ disk \in MigrationDatabase /\ boot[p] = "serving" /\ disk.version = 1 /\ Filed(disk)
        /\ running \in [Procs -> SUBSET NewRows]
        /\ NullRows(disk) \in SUBSET Rows
    BY MigrationNullRows DEF MigrationInv, MigrationTypeOK, ConnTypeOK, Redeem, Settle, Sweep
  \* No old row is open any more, so only new rows are written.
  <1>1. ASSUME NEW rows \in SUBSET NewRows, NEW o \in {"null", "complete", "refunded"}
        PROVE  /\ Mark(disk, rows, o) \in MigrationDatabase /\ Filed(Mark(disk, rows, o))
               /\ Mark(disk, rows, o).version = 1
    BY <1>0, MigrationMarkType, MigrationAssumption DEF Filed, Rows
  <1>2. NullRows(disk) \subseteq NewRows
    BY <1>0 DEF NullRows, Filed, Rows
  <1>3. CASE Redeem(p)
    <2>1. PICK r \in NewRows : /\ Persist(p, Mark(disk, {r}, "null"))
                               /\ running' = [running EXCEPT ![p] = @ \cup {r}]
      BY <1>3 DEF Redeem
    <2>2. QED
      BY <1>0, <1>1, <1>3, <2>1, ServingPersists DEF Redeem
  <1>4. CASE Settle(p)
    <2>1. PICK r \in running[p], o \in {"complete", "refunded"} :
              /\ Persist(p, Mark(disk, {r} \cap NullRows(disk), o))
              /\ running' = [running EXCEPT ![p] = @ \ {r}]
      BY <1>4 DEF Settle
    <2>2. QED
      BY <1>0, <1>1, <1>2, <1>4, <2>1, ServingPersists DEF Settle
  <1>5. CASE Sweep(p)
    BY <1>0, <1>1, <1>2, <1>5, ServingPersists DEF Sweep
  <1>6. QED
    BY <1>3, <1>4, <1>5

LEMMA MigrationKept ==
    ASSUME MigrationInv, [MigrationNext]_migrationVars
    PROVE  MigrationInv'
  <1>1. CASE UNCHANGED migrationVars
    BY <1>1 DEF migrationVars, storage, MigrationInv, MigrationTypeOK, ConnTypeOK
  <1>2. ASSUME NEW p \in Procs, Die(p) PROVE MigrationInv'
    <2>1. deaths' \in 0..MaxDeaths
      BY <1>2, MigrationAssumption DEF Die, MigrationInv, MigrationTypeOK
    <2>2. QED
      BY <1>2, <2>1, MigrationEnds DEF Die
  <1>3. QED
    BY <1>1, <1>2, StartKeeps, ServingKeeps DEF MigrationNext

\* Every start keeps its transaction: whoever has written part of the migration
\* holds the write lock until it commits or dies.
THEOREM MigrationTypeCorrect == MigrationSpec => []MigrationTypeOK
  <1>1. MigrationInv => MigrationTypeOK
    BY DEF MigrationInv
  <1>2. QED
    BY <1>1, MigrationInvInit, MigrationKept, PTL DEF MigrationSpec

\* No redemption from before the column is ever refunded.
THEOREM OldUsesAreKept == MigrationSpec => []OldUsesStayUsed
  <1>1. MigrationInv => OldUsesStayUsed
    BY DEF MigrationInv, Unsettled, OldUsesStayUsed
  <1>2. QED
    BY <1>1, MigrationInvInit, MigrationKept, PTL DEF MigrationSpec
=============================================================================
