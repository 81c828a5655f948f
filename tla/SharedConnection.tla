-------------------------- MODULE SharedConnection --------------------------
(***************************************************************************)
(* The SQLite file and the aiosqlite connections on it, as                 *)
(* app/code_store.py uses them: every process opens ONE connection and all *)
(* the coroutines of the process run their statements on it, so they share *)
(* one implicit transaction.  The library begins that transaction before   *)
(* the first INSERT or UPDATE and any coroutine's commit() ends it.        *)
(* Nothing in the program calls rollback() outside the start-up migration. *)
(*                                                                         *)
(* The file is in WAL mode (code_store.py:91): one connection at a time    *)
(* may write; the others keep reading the last committed state.  A         *)
(* statement that cannot get the write lock within the connection's five   *)
(* seconds raises OperationalError and leaves the transaction BEGUN.  The  *)
(* next SELECT then pins that transaction to the state it reads, and once  *)
(* another process has committed a change, no write of this connection     *)
(* can succeed any more until some coroutine of the process commits.       *)
(***************************************************************************)
CONSTANT Procs          \* the processes that have the file open

VARIABLES
    disk,               \* the committed database
    view,               \* view[p]: the database as p's next statement sees it
    conn                \* conn[p]: the state of p's implicit transaction

storage == <<disk, view, conn>>

ConnStates ==
    { "idle",           \* no transaction
      "begun",          \* BEGIN ran, but no statement has read or written yet
      "reading",        \* pinned to the committed state it read
      "stale",          \* pinned to a state another process has replaced
      "writing" }       \* holds the write lock

ConnTypeOK(Database) ==
    /\ disk \in Database
    /\ view \in [Procs -> Database]
    /\ conn \in [Procs -> ConnStates]

ConnInit(db) ==
    /\ disk = db
    /\ view = [p \in Procs |-> db]
    /\ conn = [p \in Procs |-> "idle"]

\* The write lock is free for p, and p is not pinned to a replaced state.
CanWrite(p) ==
    /\ conn[p] # "stale"
    /\ \A q \in Procs \ {p} : conn[q] # "writing"

\* An INSERT or UPDATE of p that leaves db in its open transaction.  One that
\* matches no row still begins the transaction and takes the write lock.
Write(p, db) ==
    /\ CanWrite(p)
    /\ view' = [view EXCEPT ![p] = db]
    /\ conn' = [conn EXCEPT ![p] = "writing"]
    /\ UNCHANGED disk

\* "database is locked": the statement raises, the transaction stays begun.
WriteFails(p) ==
    /\ ~CanWrite(p)
    /\ conn' = [conn EXCEPT ![p] = IF @ = "idle" THEN "begun" ELSE @]
    /\ UNCHANGED <<disk, view>>

\* A SELECT of p: inside a begun transaction it pins the state it reads.
Read(p) ==
    /\ conn' = [conn EXCEPT ![p] = IF @ = "begun" THEN "reading" ELSE @]
    /\ UNCHANGED <<disk, view>>

\* commit(): persists whatever any coroutine of p has written, and ends the
\* transaction.  Connections pinned to the state it replaces become stale.
Commit(p) ==
    LET db == IF conn[p] = "writing" THEN view[p] ELSE disk
        After(q) == IF q = p THEN "idle"
                    ELSE IF conn[q] = "reading" /\ db # disk THEN "stale"
                    ELSE conn[q]
    IN  /\ disk' = db
        /\ conn' = [q \in Procs |-> After(q)]
        /\ view' = [q \in Procs |->
                        IF After(q) \in {"idle", "begun"} THEN db ELSE view[q]]

\* The process ends, or the connection is closed: SQLite discards what was
\* not committed.
Disconnect(p) ==
    /\ conn' = [conn EXCEPT ![p] = "idle"]
    /\ view' = [view EXCEPT ![p] = disk]
    /\ UNCHANGED disk
=============================================================================
