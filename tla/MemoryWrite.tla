------------------------------ MODULE MemoryWrite ------------------------------
(****************************************************************************)
(* How a memory is written: the markdown file, its row in comemory.db, the   *)
(* revision the replication journal announces, and the write intent that     *)
(* brackets them (src/src/domains/memories, src/src/store/memory_*.rs).      *)
(*                                                                           *)
(* Several processes (CLI commands, `comemory serve`, the MCP server) share  *)
(* one data directory.  A memory's markdown moves under memory-save.lock;    *)
(* the database changes one SQLite transaction at a time.  A process may be  *)
(* killed, or get an error back, between any two of those steps; every       *)
(* writable session starts by reconciling the intents it finds outstanding.  *)
(****************************************************************************)
EXTENDS Naturals, FiniteSets

CONSTANTS
    Ids,          \* memory ids: each names one body, the id is its digest
    Attrs,        \* the replicated frontmatter a memory can carry
    Procs,        \* processes sharing the data directory
    None,         \* no file, no value
    Kinds,        \* the commands the processes issue
    MaxOps,       \* bound: commands started
    MaxCrashes,   \* bound: processes killed in the middle of a command
    MaxFailures   \* bound: commands that get an I/O or SQLite error

AllKinds == {"save", "delete", "patch", "restore", "refresh", "prune", "gc"}

ASSUME ConstantsAssumption ==
    /\ None \notin Attrs /\ None \notin Procs /\ None \notin Ids
    /\ Kinds \subseteq AllKinds
    /\ MaxOps \in Nat /\ MaxCrashes \in Nat /\ MaxFailures \in Nat

VARIABLES
    live,       \* memories/{id}-{slug}.md: its frontmatter, or None
    trash,      \* memories/.trash/{id}-{slug}.md
    oldTrash,   \* trashed files whose mtime is past the retention window
    row,        \* the `memories` row: absent, live, or stamped deleted_at
    oldRow,     \* deleted rows whose deleted_at is past the window
    intent,     \* memory_write_intent, one row per id
    rev,        \* replica_revision: the newest journalled operation of an id
    journaled,  \* operation ids with a position in replica_feed
    lock,       \* the process holding memory-save.lock, or None
    pc,         \* the next step of a process
    req,        \* what its command has read or decided so far
    minted,     \* commands started; the n-th journals under operation id n
    crashes,
    failures

disk == <<live, trash, oldTrash>>
db == <<row, oldRow, intent, rev, journaled>>
faults == <<crashes, failures>>
vars == <<disk, db, lock, pc, req, minted, faults>>

OpIds == 0 .. MaxOps
Intents == [kind : {"none", "write", "delete"}, op : OpIds]
Revisions == [op : {"none", "upsert", "restore", "tombstone"},
              attr : Attrs \cup {None}, oid : OpIds]
Rows == [state : {"absent", "live", "deleted"}, attr : Attrs \cup {None}]
Owed == [id : Ids, kind : {"none", "write", "delete"}, op : OpIds]
Requests == [kind : AllKinds \cup {"none"}, id : Ids \cup {None},
             attr : Attrs \cup {None}, op : OpIds,
             owed : SUBSET Owed, purge : SUBSET Ids, kept : SUBSET Ids]

NoIntent == [kind |-> "none", op |-> 0]
NoRevision == [op |-> "none", attr |-> None, oid |-> 0]
NoRow == [state |-> "absent", attr |-> None]
LiveRow(a) == [state |-> "live", attr |-> a]
NoRequest == [kind |-> "none", id |-> None, attr |-> None, op |-> 0,
              owed |-> {}, purge |-> {}, kept |-> {}]

\* Steps taken while holding memory-save.lock.
LockedSteps == {"recover", "save_locked", "save_placed", "save_purged",
                "delete_moved", "patch_placed", "patch_mirrored",
                "refresh_placed", "restore_moved", "restore_mirrored"}
\* Steps blocked on it, which give up after [sync] pause_wait.
WaitingSteps == {"delete_wait", "patch_wait", "refresh_wait", "restore_wait"}
OtherSteps == {"recover_wait", "delete_load", "delete_loaded", "heal",
               "patch_loaded", "restore_loaded", "gc_reaped", "gc_expired"}
Steps == {"down", "ready"} \cup LockedSteps \cup WaitingSteps \cup OtherSteps
\* Steps at which req names the memory the command works on.
OnMemory == Steps \ {"down", "ready", "recover_wait", "recover",
                     "gc_reaped", "gc_expired"}

Outstanding == {i \in Ids : intent[i].kind # "none"}

--------------------------------------------------------------------------------
\* One transaction's effects on the database.

Mirror(i, a) ==
    /\ row' = [row EXCEPT ![i] = LiveRow(a)]
    /\ oldRow' = oldRow \ {i}

MarkDeleted(i) ==
    /\ row' = [row EXCEPT ![i].state = IF @ = "absent" THEN @ ELSE "deleted"]
    /\ oldRow' = oldRow \ {i}

\* Mutant: journals under an id minted anew, not the one the intent named.
JournalAnew(i, op, a, oid) ==
    /\ rev' = [rev EXCEPT ![i] = [op |-> op, attr |-> a, oid |-> oid + 1]]
    /\ journaled' = journaled \cup {oid + 1}

\* An operation id that already has a feed position violates
\* uq_replica_feed_operation: the transaction rolls back, the command fails.
Journal(i, op, a, oid) ==
    /\ rev' = [rev EXCEPT ![i] = [op |-> op, attr |-> a, oid |-> oid]]
    /\ journaled' = journaled \cup {oid}

Record(i, kind, oid) ==
    intent' = [intent EXCEPT ![i] = [kind |-> kind, op |-> oid]]

\* By entity key: whichever intent the id carries goes, whoever recorded it.
Clear(i) == intent' = [intent EXCEPT ![i] = NoIntent]

--------------------------------------------------------------------------------
\* Moving a process on.

Goto(p, step) == pc' = [pc EXCEPT ![p] = step]
Finish(p) == Goto(p, "ready") /\ req' = [req EXCEPT ![p] = NoRequest]
Acquire(p) == lock = None /\ lock' = p
Release == lock' = None

\* A command of the given kind starts on memory i.
Start(p, kind, i, a, step) ==
    /\ pc[p] = "ready" /\ kind \in Kinds /\ minted < MaxOps
    /\ minted' = minted + 1
    /\ req' = [req EXCEPT ![p] = [NoRequest EXCEPT !.kind = kind, !.id = i,
                                      !.attr = a, !.op = minted + 1]]
    /\ Goto(p, step)

--------------------------------------------------------------------------------
\* A session opens: reconcile what earlier processes left outstanding.

Probe(p) ==
    /\ pc[p] = "down"
    /\ Goto(p, IF Outstanding = {} THEN "ready" ELSE "recover_wait")
    /\ UNCHANGED <<disk, db, lock, req, minted, faults>>

\* The lock is granted and the intents are read again under it.
RecoverLock(p) ==
    /\ pc[p] = "recover_wait" /\ Acquire(p)
    /\ req' = [req EXCEPT ![p].owed =
                  {[id |-> i, kind |-> intent[i].kind, op |-> intent[i].op]
                      : i \in Outstanding}]
    /\ Goto(p, "recover")
    /\ UNCHANGED <<disk, db, minted, faults>>

\* Mutants: a delete is finished without looking for its file; a live row is
\* taken for a write that was mirrored already.
MoveLandedUnseen(t) ==
    \/ t.kind = "write" /\ live[t.id] # None
    \/ t.kind = "delete" /\ row[t.id].state = "live"

MoveLandedUnlessMirrored(t) ==
    \/ t.kind = "write" /\ live[t.id] # None /\ row[t.id].state # "live"
    \/ t.kind = "delete" /\ live[t.id] = None /\ row[t.id].state = "live"

\* Whether the markdown move an intent describes landed and is not yet in
\* the database: a deleted row reads as a deletion already committed.
MoveLanded(t) ==
    \/ t.kind = "write" /\ live[t.id] # None
    \/ t.kind = "delete" /\ live[t.id] = None /\ row[t.id].state = "live"

\* Read from the journal: a write of a memory announced deleted restores it.
FinishedOp(t) ==
    IF t.kind = "delete" THEN "tombstone"
    ELSE IF rev[t.id].op = "tombstone" THEN "restore" ELSE "upsert"

RecoverOne(p, t) ==
    /\ pc[p] = "recover" /\ t \in req[p].owed
    /\ Clear(t.id)
    /\ \/ /\ MoveLanded(t)
          /\ IF t.kind = "write" THEN Mirror(t.id, live[t.id])
                                 ELSE MarkDeleted(t.id)
          /\ IF t.op \in journaled THEN UNCHANGED <<rev, journaled>>
             ELSE Journal(t.id, FinishedOp(t), live[t.id], t.op)
       \/ /\ ~MoveLanded(t)
          /\ UNCHANGED <<row, oldRow, rev, journaled>>
    /\ req' = [req EXCEPT ![p].owed = @ \ {t}]
    /\ UNCHANGED <<disk, lock, pc, minted, faults>>

\* Mutant: the pass ends without dropping its guard.
RecoverDoneLocked(p) ==
    /\ pc[p] = "recover" /\ req[p].owed = {}
    /\ Finish(p)
    /\ UNCHANGED <<disk, db, lock, minted, faults>>

RecoverDone(p) ==
    /\ pc[p] = "recover" /\ req[p].owed = {}
    /\ Release /\ Finish(p)
    /\ UNCHANGED <<disk, db, minted, faults>>

Exit(p) ==
    /\ pc[p] = "ready" /\ Goto(p, "down")
    /\ UNCHANGED <<disk, db, lock, req, minted, faults>>

--------------------------------------------------------------------------------
\* save: the lock first, then the intent, the file, and one transaction.

SaveBegin(p, i, a) ==
    /\ Start(p, "save", i, a, "save_locked") /\ Acquire(p)
    /\ Record(i, "write", minted + 1)
    /\ UNCHANGED <<disk, row, oldRow, rev, journaled, faults>>

SavePlace(p) ==
    /\ pc[p] = "save_locked"
    /\ live' = [live EXCEPT ![req[p].id] = req[p].attr]
    /\ Goto(p, "save_placed")
    /\ UNCHANGED <<trash, oldTrash, db, lock, req, minted, faults>>

\* The stale trash copy goes, best effort: a failure is only logged.
SavePurge(p) ==
    /\ pc[p] = "save_placed"
    /\ \/ /\ trash' = [trash EXCEPT ![req[p].id] = None]
          /\ oldTrash' = oldTrash \ {req[p].id}
       \/ UNCHANGED <<trash, oldTrash>>
    /\ Goto(p, "save_purged")
    /\ UNCHANGED <<live, db, lock, req, minted, faults>>

SaveCommit(p) ==
    LET r == req[p] IN
    /\ pc[p] = "save_purged"
    /\ Mirror(r.id, r.attr) /\ Journal(r.id, "upsert", r.attr, r.op)
    /\ Clear(r.id) /\ Release /\ Finish(p)
    /\ UNCHANGED <<disk, minted, faults>>

--------------------------------------------------------------------------------
\* delete, and prune over one flagged memory: the intent goes down before the
\* lock is asked for.

DeleteBegin(p, i) ==
    /\ Start(p, "delete", i, None, "delete_load")
    /\ UNCHANGED <<disk, db, lock, faults>>

\* prune acts on the live rows its scan flagged.
PruneBegin(p, i) ==
    /\ row[i].state = "live"
    /\ Start(p, "prune", i, None, "delete_load")
    /\ UNCHANGED <<disk, db, lock, faults>>

\* NotFound ends a delete; prune takes it for a half-deleted memory.
DeleteLoad(p) ==
    /\ pc[p] = "delete_load"
    /\ \/ /\ live[req[p].id] # None
          /\ Goto(p, "delete_loaded") /\ UNCHANGED req
       \/ /\ live[req[p].id] = None /\ req[p].kind = "prune"
          /\ Goto(p, "heal") /\ UNCHANGED req
       \/ /\ live[req[p].id] = None /\ req[p].kind = "delete"
          /\ Finish(p)
    /\ UNCHANGED <<disk, db, lock, minted, faults>>

\* Mutant: the intent is forgotten.
DeleteIntentForgotten(p) ==
    /\ pc[p] = "delete_loaded" /\ Goto(p, "delete_wait")
    /\ UNCHANGED <<disk, db, lock, req, minted, faults>>

DeleteIntent(p) ==
    /\ pc[p] = "delete_loaded"
    /\ Record(req[p].id, "delete", req[p].op)
    /\ Goto(p, "delete_wait")
    /\ UNCHANGED <<disk, row, oldRow, rev, journaled, lock, req, minted, faults>>

\* The move into .trash/, its mtime stamped as the instant of deletion.
DeleteMove(p) ==
    LET i == req[p].id IN
    /\ pc[p] = "delete_wait" /\ live[i] # None /\ Acquire(p)
    /\ trash' = [trash EXCEPT ![i] = live[i]]
    /\ live' = [live EXCEPT ![i] = None]
    /\ oldTrash' = oldTrash \ {i}
    /\ Goto(p, "delete_moved")
    /\ UNCHANGED <<db, req, minted, faults>>

DeleteCommit(p) ==
    LET r == req[p] IN
    /\ pc[p] = "delete_moved"
    /\ \/ /\ r.op \notin journaled
          /\ MarkDeleted(r.id) /\ Journal(r.id, "tombstone", None, r.op)
          /\ Clear(r.id)
       \/ /\ r.op \in journaled
          /\ UNCHANGED db
    /\ Release /\ Finish(p)
    /\ UNCHANGED <<disk, minted, faults>>

\* The file went while the command waited for the lock: an I/O error, which
\* not even prune heals, and the intent stays.
DeleteGone(p) ==
    /\ pc[p] = "delete_wait" /\ lock = None /\ live[req[p].id] = None
    /\ Finish(p)
    /\ UNCHANGED <<disk, db, lock, minted, faults>>

\* prune's heal: the row only, without the lock and without an operation.
Heal(p) ==
    /\ pc[p] = "heal"
    /\ MarkDeleted(req[p].id) /\ Finish(p)
    /\ UNCHANGED <<disk, intent, rev, journaled, lock, minted, faults>>

--------------------------------------------------------------------------------
\* patch in place, and the reference refresh: both write back the record they
\* loaded before they held the lock.

PatchBegin(p, i, a) ==
    /\ live[i] \notin {None, a}
    /\ Start(p, "patch", i, a, "patch_loaded")
    /\ UNCHANGED <<disk, db, lock, faults>>

PatchIntent(p) ==
    /\ pc[p] = "patch_loaded"
    /\ Record(req[p].id, "write", req[p].op)
    /\ Goto(p, "patch_wait")
    /\ UNCHANGED <<disk, row, oldRow, rev, journaled, lock, req, minted, faults>>

RefreshBegin(p, i) ==
    /\ live[i] # None
    /\ Start(p, "refresh", i, live[i], "refresh_wait")
    /\ UNCHANGED <<disk, db, lock, faults>>

\* Mutant: the file is rewritten without the lock.
RewriteUnlocked(p) ==
    /\ pc[p] \in {"patch_wait", "refresh_wait"}
    /\ live' = [live EXCEPT ![req[p].id] = req[p].attr]
    /\ Goto(p, IF pc[p] = "patch_wait" THEN "patch_placed" ELSE "refresh_placed")
    /\ UNCHANGED <<trash, oldTrash, db, lock, req, minted, faults>>

\* The file is replaced at the path the record was loaded from, or created
\* there again when it has gone.
Rewrite(p) ==
    /\ pc[p] \in {"patch_wait", "refresh_wait"} /\ Acquire(p)
    /\ live' = [live EXCEPT ![req[p].id] = req[p].attr]
    /\ Goto(p, IF pc[p] = "patch_wait" THEN "patch_placed" ELSE "refresh_placed")
    /\ UNCHANGED <<trash, oldTrash, db, req, minted, faults>>

PatchMirror(p) ==
    /\ pc[p] = "patch_placed"
    /\ Mirror(req[p].id, req[p].attr)
    /\ Goto(p, "patch_mirrored")
    /\ UNCHANGED <<disk, intent, rev, journaled, lock, req, minted, faults>>

\* A refresh announces nothing: it ends with its row.
RefreshMirror(p) ==
    /\ pc[p] = "refresh_placed"
    /\ Mirror(req[p].id, req[p].attr)
    /\ Release /\ Finish(p)
    /\ UNCHANGED <<disk, intent, rev, journaled, minted, faults>>

--------------------------------------------------------------------------------
\* restore: out of .trash/, the row, then the operation.

RestoreBegin(p, i) ==
    /\ live[i] = None /\ trash[i] # None
    /\ Start(p, "restore", i, None, "restore_loaded")
    /\ UNCHANGED <<disk, db, lock, faults>>

RestoreIntent(p) ==
    /\ pc[p] = "restore_loaded"
    /\ Record(req[p].id, "write", req[p].op)
    /\ Goto(p, "restore_wait")
    /\ UNCHANGED <<disk, row, oldRow, rev, journaled, lock, req, minted, faults>>

Restorable(i) == live[i] = None /\ trash[i] # None

RestoreMove(p) ==
    LET i == req[p].id IN
    /\ pc[p] = "restore_wait" /\ Restorable(i) /\ Acquire(p)
    /\ live' = [live EXCEPT ![i] = trash[i]]
    /\ trash' = [trash EXCEPT ![i] = None]
    /\ oldTrash' = oldTrash \ {i}
    /\ req' = [req EXCEPT ![p].attr = trash[i]]
    /\ Goto(p, "restore_moved")
    /\ UNCHANGED <<db, minted, faults>>

\* Live again, or reaped by gc, while the command waited.
RestoreGone(p) ==
    /\ pc[p] = "restore_wait" /\ lock = None /\ ~Restorable(req[p].id)
    /\ Finish(p)
    /\ UNCHANGED <<disk, db, lock, minted, faults>>

RestoreMirror(p) ==
    /\ pc[p] = "restore_moved"
    /\ Mirror(req[p].id, req[p].attr)
    /\ Goto(p, "restore_mirrored")
    /\ UNCHANGED <<disk, intent, rev, journaled, lock, req, minted, faults>>

\* Mutant: the intent survives the transaction that journals its operation.
JournalEditOwing(p) ==
    LET r == req[p] IN
    /\ pc[p] \in {"patch_mirrored", "restore_mirrored"} /\ r.op \notin journaled
    /\ Journal(r.id, IF pc[p] = "patch_mirrored" THEN "upsert" ELSE "restore",
               r.attr, r.op)
    /\ Release /\ Finish(p)
    /\ UNCHANGED <<disk, row, oldRow, intent, minted, faults>>

\* The last transaction of a patch or a restore.
JournalEdit(p) ==
    LET r == req[p] IN
    /\ pc[p] \in {"patch_mirrored", "restore_mirrored"}
    /\ \/ /\ r.op \notin journaled
          /\ Journal(r.id, IF pc[p] = "patch_mirrored" THEN "upsert" ELSE "restore",
                     r.attr, r.op)
          /\ Clear(r.id)
       \/ /\ r.op \in journaled
          /\ UNCHANGED <<intent, rev, journaled>>
    /\ Release /\ Finish(p)
    /\ UNCHANGED <<disk, row, oldRow, minted, faults>>

--------------------------------------------------------------------------------
\* gc: expired trash files, then the deleted rows behind them.  No lock.

GcSweep(p) ==
    /\ pc[p] = "ready" /\ "gc" \in Kinds /\ minted < MaxOps
    /\ minted' = minted + 1
    /\ trash' = [i \in Ids |-> IF i \in oldTrash THEN None ELSE trash[i]]
    /\ oldTrash' = {}
    /\ req' = [req EXCEPT ![p] = [NoRequest EXCEPT !.kind = "gc",
                  !.purge = oldTrash,
                  !.kept = {i \in Ids : trash[i] # None} \ oldTrash]]
    /\ Goto(p, "gc_reaped")
    /\ UNCHANGED <<live, db, lock, faults>>

\* One transaction per id; a row that is live again is left alone.
GcPurge(p, i) ==
    /\ pc[p] \in {"gc_reaped", "gc_expired"} /\ i \in req[p].purge
    /\ row' = [row EXCEPT ![i] = IF @.state = "deleted" THEN NoRow ELSE @]
    /\ oldRow' = oldRow \ {i}
    /\ req' = [req EXCEPT ![p].purge = @ \ {i}]
    /\ UNCHANGED <<disk, intent, rev, journaled, lock, pc, minted, faults>>

\* Then the rows past the window whose trash file is already gone.
GcExpired(p) ==
    /\ pc[p] = "gc_reaped" /\ req[p].purge = {}
    /\ req' = [req EXCEPT ![p].purge = oldRow \ req[p].kept]
    /\ Goto(p, "gc_expired")
    /\ UNCHANGED <<disk, db, lock, minted, faults>>

GcDone(p) ==
    /\ pc[p] = "gc_expired" /\ req[p].purge = {}
    /\ Finish(p)
    /\ UNCHANGED <<disk, db, lock, minted, faults>>

Quiet == \A p \in Procs : pc[p] \in {"down", "ready"}

\* The retention window, days long, passes between commands.
DaysPass ==
    /\ "gc" \in Kinds /\ Quiet
    /\ oldTrash' = {i \in Ids : trash[i] # None}
    /\ oldRow' = {i \in Ids : row[i].state = "deleted"}
    /\ <<oldTrash', oldRow'>> # <<oldTrash, oldRow>>
    /\ UNCHANGED <<live, trash, row, intent, rev, journaled, lock, pc, req, minted, faults>>

--------------------------------------------------------------------------------
\* What can go wrong between two steps.

\* The lock was not granted within pause_wait: Error::Busy.
Busy(p) ==
    /\ pc[p] \in WaitingSteps /\ lock # None
    /\ Finish(p)
    /\ UNCHANGED <<disk, db, lock, minted, faults>>

Abandon(p) ==
    /\ req' = [req EXCEPT ![p] = NoRequest]
    /\ lock' = IF lock = p THEN None ELSE lock
    /\ UNCHANGED <<disk, db, minted>>

\* Killed: the operating system drops its lock, an open transaction rolls back.
Crash(p) ==
    /\ pc[p] \notin {"down", "ready"} /\ crashes < MaxCrashes
    /\ crashes' = crashes + 1
    /\ Goto(p, "down") /\ Abandon(p)
    /\ UNCHANGED failures

\* An I/O or SQLite error ends the command but not the session that ran it;
\* a session whose reconciliation fails does not start.
Fail(p) ==
    /\ pc[p] \notin {"down", "ready"} /\ failures < MaxFailures
    /\ failures' = failures + 1
    /\ Goto(p, IF pc[p] \in {"recover_wait", "recover"} THEN "down" ELSE "ready")
    /\ Abandon(p)
    /\ UNCHANGED crashes

--------------------------------------------------------------------------------
\* A data directory earlier sessions left settled: some memories live, some
\* trashed, and the journal's newest operation says so.
Init ==
    /\ \E present, gone \in SUBSET Ids, a \in Attrs :
        /\ present \cap gone = {}
        /\ live = [i \in Ids |-> IF i \in present THEN a ELSE None]
        /\ trash = [i \in Ids |-> IF i \in gone THEN a ELSE None]
        /\ row = [i \in Ids |->
                    IF i \in present THEN LiveRow(a)
                    ELSE IF i \in gone THEN [state |-> "deleted", attr |-> a]
                    ELSE NoRow]
        /\ rev = [i \in Ids |->
                    IF i \in present THEN [op |-> "upsert", attr |-> a, oid |-> 0]
                    ELSE IF i \in gone THEN [op |-> "tombstone", attr |-> None, oid |-> 0]
                    ELSE NoRevision]
    /\ oldTrash = {} /\ oldRow = {} /\ journaled = {}
    /\ intent = [i \in Ids |-> NoIntent]
    /\ lock = None
    /\ pc = [p \in Procs |-> "down"]
    /\ req = [p \in Procs |-> NoRequest]
    /\ minted = 0 /\ crashes = 0 /\ failures = 0

\* What a process does of its own once its command has started.
Proceed(p) ==
    \/ RecoverLock(p) \/ RecoverDone(p)
    \/ \E t \in Owed : RecoverOne(p, t)
    \/ SavePlace(p) \/ SavePurge(p) \/ SaveCommit(p)
    \/ DeleteLoad(p) \/ DeleteIntent(p) \/ DeleteMove(p) \/ DeleteCommit(p)
    \/ DeleteGone(p) \/ Heal(p)
    \/ PatchIntent(p) \/ Rewrite(p) \/ PatchMirror(p) \/ RefreshMirror(p)
    \/ RestoreIntent(p) \/ RestoreMove(p) \/ RestoreGone(p)
    \/ RestoreMirror(p) \/ JournalEdit(p)
    \/ \E i \in Ids : GcPurge(p, i)
    \/ GcExpired(p) \/ GcDone(p) \/ Busy(p)

Command(p) ==
    \/ \E i \in Ids, a \in Attrs : SaveBegin(p, i, a) \/ PatchBegin(p, i, a)
    \/ \E i \in Ids : \/ DeleteBegin(p, i) \/ PruneBegin(p, i)
                       \/ RefreshBegin(p, i) \/ RestoreBegin(p, i)
    \/ GcSweep(p)

Next ==
    \/ \E p \in Procs : Probe(p) \/ Proceed(p) \/ Command(p) \/ Exit(p)
                        \/ Crash(p) \/ Fail(p)
    \/ DaysPass

Spec == Init /\ [][Next]_vars

\* A started command is scheduled until it ends; nothing makes anyone start one.
FairSpec == Spec /\ \A p \in Procs : WF_vars(Proceed(p))

--------------------------------------------------------------------------------
\* The variables hold what the tables and files can hold.
TypeOK ==
    /\ live \in [Ids -> Attrs \cup {None}] /\ trash \in [Ids -> Attrs \cup {None}]
    /\ oldTrash \subseteq Ids /\ oldRow \subseteq Ids
    /\ row \in [Ids -> Rows] /\ intent \in [Ids -> Intents]
    /\ rev \in [Ids -> Revisions] /\ journaled \subseteq OpIds
    /\ lock \in Procs \cup {None}
    /\ pc \in [Procs -> Steps] /\ req \in [Procs -> Requests]
    /\ minted \in OpIds /\ crashes \in 0 .. MaxCrashes /\ failures \in 0 .. MaxFailures

\* An outstanding intent names an operation the journal does not hold: whatever
\* journals an operation settles its intent with it, so no operation is owed
\* that peers have already been told of.
OwedIsUnjournaled ==
    \A i \in Outstanding : intent[i].op \notin journaled

\* Nothing is announced to peers that is not on disk when it is announced: the
\* operation a transaction journals carries the frontmatter of the live file,
\* and a tombstone is journalled only while there is none.
FeedFollowsDisk ==
    [][\A i \in Ids : rev'[i] # rev[i] =>
          /\ rev'[i].op # "none"
          /\ rev'[i].attr = live[i]
          /\ (rev'[i].op = "tombstone") <=> (live[i] = None)]_vars

\* The row is derived from the markdown: but for prune's heal, which holds no
\* lock, it goes live only with what the file holds, and is marked deleted only
\* while there is no file.
RowFollowsDisk ==
    [][\A i \in Ids : row'[i] # row[i] =>
          \/ row'[i].state = "live" /\ row'[i].attr = live[i]
          \/ row'[i].state = "deleted" /\ live[i] = None
          \/ row'[i].state = "absent"
          \/ \E p \in Procs : Heal(p)]_vars

Settled == Quiet /\ Outstanding = {}

\* With nobody in the middle of a command and no intent outstanding, the file,
\* the row and the newest journalled operation tell one story, memory by memory.
Agreement ==
    Settled => \A i \in Ids :
        IF live[i] # None
        THEN /\ row[i] = LiveRow(live[i])
             /\ rev[i].op \in {"upsert", "restore"} /\ rev[i].attr = live[i]
        ELSE row[i].state # "live" /\ rev[i].op \in {"none", "tombstone"}

\* What the documents say of single commands (docs/guides/cloud-sync.md and the
\* comments beside the code); the runs that check these show where it is not so.

\* A change on disk reaches peers: once everything has settled, the newest
\* journalled operation of a live memory carries what its file holds.
EditReachesPeers ==
    Settled => \A i \in Ids : live[i] # None => rev[i].attr = live[i]

\* A memory gone from disk is one whose deletion peers will hear about.
DeletionReachesPeers ==
    Settled => \A i \in Ids :
        live[i] = None /\ trash[i] # None => rev[i].op = "tombstone"

\* A command that started ends, whatever the others do with the lock.
CommandsEnd ==
    \A p \in Procs : pc[p] \notin {"down", "ready"} ~> pc[p] \in {"down", "ready"}
================================================================================
