---------------------------- MODULE StoreInitialization ----------------------------
(***************************************************************************)
(* Several processes that open one SQLite checkpoint database for the first*)
(* time (_initialize), beside an application that may use the same path,   *)
(* through crashes and retries.                                            *)
(*                                                                         *)
(* SQLite is modelled by what it promises here: BEGIN IMMEDIATE takes the  *)
(* one write lock, a commit writes the file and is atomic, a reader rolls  *)
(* an interrupted commit back, and a process that waits for a lock may give*)
(* up with SQLITE_BUSY.  Schema, identity and version are written in one   *)
(* transaction, so the database is either "ours" or not.                   *)
(***************************************************************************)
EXTENDS FiniteSets

CONSTANTS
    Processes,   \* store instances, each of which opens the database
    Readers,     \* those with create=False, as the inspection commands
    NoProcess,
    Foreign      \* may another application use the path?

ASSUME InitializationAssumption ==
    Readers \subseteq Processes /\ NoProcess \notin Processes /\ Foreign \in BOOLEAN

VARIABLES
    file,      \* the file's size, as stat() shows it
    db,        \* the committed content
    journal,   \* the file holds a commit that was interrupted
    wal,       \* the journal mode is WAL
    lock,      \* who holds the write lock
    pc,        \* where each process is
    wasNew,    \* what it saw of the file before it connected
    torn       \* history: a commit was ever interrupted

vars == <<file, db, journal, wal, lock, pc, wasNew, torn>>

Refused == {"missing", "unowned", "busy", "broken"}
Place   == {"closed", "connecting", "locking", "inside", "writing", "enabling", "checking", "open"} \cup Refused

Init ==
    /\ file = "absent" /\ db = "none" /\ journal = FALSE /\ wal = FALSE
    /\ lock = NoProcess /\ torn = FALSE
    /\ pc = [p \in Processes |-> "closed"] /\ wasNew = [p \in Processes |-> FALSE]

-----------------------------------------------------------------------------
(* _initialize *)

Go(p, place) == pc' = [pc EXCEPT ![p] = place]

\* _validate_path, then was_new.
Look(p) ==
    /\ pc[p] = "closed"
    /\ IF p \in Readers /\ file = "absent" THEN Go(p, "missing") ELSE Go(p, "connecting")
    /\ wasNew' = [wasNew EXCEPT ![p] = file # "written"]
    /\ UNCHANGED <<file, db, journal, wal, lock, torn>>

\* connect creates the file; the first read rolls an interrupted commit back.
Opened ==
    /\ journal' = FALSE
    /\ file' = IF journal \/ file = "absent" THEN "empty" ELSE file

\* BEGIN, application_id, and another BEGIN if it is not set.
Peek(p) ==
    /\ pc[p] = "connecting" /\ \A q \in Processes : pc[q] # "writing"
    /\ Opened /\ Go(p, IF db = "ours" THEN "enabling" ELSE "locking")
    /\ UNCHANGED <<db, wal, lock, wasNew, torn>>

BeginImmediate(p) ==
    /\ pc[p] = "locking" /\ lock = NoProcess
    /\ lock' = p /\ Opened /\ Go(p, "inside")
    /\ UNCHANGED <<db, wal, wasNew, torn>>

\* Mutants: the identity is not read again under the lock; the tables are not read.
IdentityBefore == FALSE
SizeOnly(p)    == ~ wasNew[p]

IdentityIsOurs == db = "ours"
MustRefuse(p)  == ~ wasNew[p] \/ db # "none"

\* application_id again, now under the lock; the schema, if it is to be created.
Decide(p) ==
    /\ pc[p] = "inside"
    /\ IF IdentityIsOurs \/ MustRefuse(p)
         THEN /\ Go(p, IF IdentityIsOurs THEN "enabling" ELSE "unowned")
              /\ lock' = NoProcess /\ UNCHANGED file
         ELSE Go(p, "writing") /\ file' = "written" /\ UNCHANGED lock
    /\ UNCHANGED <<db, journal, wal, wasNew, torn>>

Commit(p) ==
    /\ pc[p] = "writing" /\ Go(p, "enabling")
    /\ db' = "ours" /\ lock' = NoProcess
    /\ UNCHANGED <<file, journal, wal, wasNew, torn>>

\* Mutant: a lock error while the mode is changed is passed over.
ChangesMode == wal' = (wal \/ lock = NoProcess)

CanChangeMode == (wal \/ lock = NoProcess) /\ wal' = TRUE

\* _enable_wal, with its retries; the change needs the database to itself.
EnableWal(p) ==
    /\ pc[p] = "enabling" /\ CanChangeMode /\ Go(p, "checking")
    /\ UNCHANGED <<file, db, journal, lock, wasNew, torn>>

\* _validate_identity, _validate_schema
Check(p) ==
    /\ pc[p] = "checking" /\ Go(p, IF db = "ours" THEN "open" ELSE "broken")
    /\ UNCHANGED <<file, db, journal, wal, lock, wasNew, torn>>

Step(p) ==
    \/ Look(p) \/ Peek(p) \/ BeginImmediate(p) \/ Decide(p)
    \/ Commit(p) \/ EnableWal(p) \/ Check(p)

-----------------------------------------------------------------------------
(* What can interfere *)

\* Mutant: the lock outlives its connection.
KeepLock(p) == UNCHANGED lock

FreeLock(p) == lock' = IF lock = p THEN NoProcess ELSE lock

\* busy_timeout_ms passes while another process has the lock.
Busy(p) ==
    /\ pc[p] \in {"connecting", "locking", "enabling"} /\ lock \notin {p, NoProcess}
    /\ Go(p, "busy")
    /\ UNCHANGED <<file, db, journal, wal, lock, wasNew, torn>>

\* The commit fails, and SQLite undoes what it has written.
CommitFails(p) ==
    /\ pc[p] = "writing" /\ Go(p, "broken")
    /\ file' = "empty" /\ torn' = TRUE /\ FreeLock(p)
    /\ UNCHANGED <<db, journal, wal, wasNew>>

\* The process stops; a commit it was in stays in the file for readers to undo.
Crash(p) ==
    /\ pc[p] # "closed" /\ Go(p, "closed") /\ FreeLock(p)
    /\ IF pc[p] = "writing" THEN journal' = TRUE /\ torn' = TRUE ELSE UNCHANGED <<journal, torn>>
    /\ UNCHANGED <<file, db, wal, wasNew>>

\* The caller tries again after an error.
Retry(p) ==
    /\ pc[p] \in Refused /\ Go(p, "closed")
    /\ UNCHANGED <<file, db, journal, wal, lock, wasNew, torn>>

\* Another application, which sets no application_id, creates its own tables in what
\* it takes for a new database.
ForeignWrites ==
    /\ Foreign /\ db = "none" /\ lock = NoProcess
    /\ db' = "foreign" /\ file' = "written" /\ journal' = FALSE
    /\ UNCHANGED <<wal, lock, pc, wasNew, torn>>

Interruption == \E p \in Processes : Busy(p) \/ CommitFails(p) \/ Crash(p)

Next == Interruption \/ ForeignWrites \/ \E p \in Processes : Step(p) \/ Retry(p)

Spec == Init /\ [][Next]_vars /\ \A p \in Processes : WF_vars(Step(p))

-----------------------------------------------------------------------------
\* What the file, the lock and the processes can be, by type.
TypeOK ==
    /\ file \in {"absent", "empty", "written"} /\ db \in {"none", "ours", "foreign"}
    /\ journal \in BOOLEAN /\ wal \in BOOLEAN /\ torn \in BOOLEAN
    /\ lock \in Processes \cup {NoProcess}
    /\ pc \in [Processes -> Place] /\ wasNew \in [Processes -> BOOLEAN]

WrittenTo == db # "none" \/ torn \/ \E p \in Processes : pc[p] = "writing"

\* The inductive invariant.  The write lock is with the process inside its
\* transaction; a process that has opened the database has all of it, in WAL mode;
\* and whoever took the file for an old one saw content, a commit in progress, or
\* what an interrupted one left.
DatabaseIsSound ==
    /\ TypeOK
    /\ \A p \in Processes :
         /\ lock = p <=> pc[p] \in {"inside", "writing"}
         /\ pc[p] = "writing" => db = "none" /\ file = "written"
         /\ pc[p] \in {"inside", "writing"} => ~ journal
         /\ pc[p] \in {"enabling", "checking", "open"} => db = "ours"
         /\ pc[p] \in {"checking", "open"} => wal
         /\ pc[p] \in {"connecting", "locking", "inside"} /\ ~ wasNew[p] => WrittenTo
    /\ file = "written" => WrittenTo
    /\ journal => db = "none" /\ torn

\* Whatever is in a database, ours or another application's, nobody replaces it.
ContentStays == [][db # "none" => db' = db]_vars

\* Nobody is refused a new or a finished database as another's, unless somebody's
\* first commit was interrupted.
RefusalIsJustified ==
    \A p \in Processes : pc[p] = "unowned" => db = "foreign" \/ torn

\* Whoever tries again after every error opens the database at last, unless it is
\* another's, once interruptions cease.
OpensAtLast ==
    /\ \A p \in Processes : WF_vars(Retry(p))
    /\ [](db # "foreign") /\ <>[][~ Interruption]_vars
    => <>[](\A p \in Processes : pc[p] = "open")
=============================================================================
