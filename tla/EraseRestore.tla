---- MODULE EraseRestore ----
(***************************************************************************)
(* What an erase promises, and what a backup could bring back.             *)
(*                                                                         *)
(* One data directory: the database, memories/, and replica/ with the      *)
(* stream identity and the erasure manifest, which a restore never         *)
(* replaces.  Commands that write hold memory-save.lock, so one of them    *)
(* runs at a time (`writer`); it can be killed between any two steps.  A   *)
(* replica request (`request`) is admitted without that lock and reads     *)
(* later.                                                                  *)
(*                                                                         *)
(* A memory id is the digest of its body; each save of it is a new payload *)
(* <<id, n>>, because a payload carries its creation time.  Version 0 is   *)
(* "none" in a row or a file and a tombstone in the feed.                  *)
(***************************************************************************)
EXTENDS Naturals, Sequences, FiniteSets, SequencesExt

CONSTANTS
    Entities,        \* memory ids
    Dirs,            \* backup directories
    None,            \* no file, no record, nobody
    StampsAnywhere,  \* FALSE: no erase, no merge-erasures in a database gone back and not yet checked
    MaxSaves, MaxErases, MaxEpochs, MaxKills, MaxLosses, MaxCopies

VARIABLES
    db,        \* the live database
    files,     \* memories/: the version each file holds; None while the directory is gone
    backups,   \* backup directories: a database and, once copied, its markdown
    manifest,  \* replica/erasures.jsonl
    kept,      \* the operator's copy of a manifest since lost
    ident,     \* replica/identity.json: epoch and erasure count
    pending,   \* restore.pending
    staged,    \* comemory.db.restore.tmp and memories.restore/
    pre,       \* memories.pre-restore/
    writer,    \* the command that holds memory-save.lock, and its next step
    request,   \* a replica request: its step, and the epoch it was checked under
    epochs,    \* epochs minted
    saves,     \* payloads minted
    erases,    \* erases begun
    kills, losses, copies,
    erased,    \* history: payloads a committed erase blanked
    served,    \* history: the last feed served under each epoch, to a request checked under it
    goal       \* history: what a swap is to install, while no command wrote since it began

disk  == <<db, files, manifest, ident, pending, staged, pre>>
hist  == <<erased, served, goal>>
count == <<epochs, saves, erases, kills, losses, copies>>
vars  == <<disk, backups, kept, writer, request, hist, count>>

Versions == 0 .. MaxSaves
Payloads == Entities \X (1 .. MaxSaves)
Epochs   == 0 .. MaxEpochs
Trees    == [Entities -> Versions]
Empty    == [e \in Entities |-> 0]
Lines    == [key : Entities, digests : SUBSET Payloads]
Databases ==
    [epoch : Epochs, stamp : 0 .. MaxErases, state : {"none", "merging", "unknown"},
     row : Trees, feed : Seq(Entities \X Versions), bytes : SUBSET Payloads, barred : SUBSET Payloads]

ASSUME EraseAssumption ==
    /\ None \notin Entities \cup Dirs
    /\ None \notin [phase : {"staging", "swapping"}, source : Dirs]
    /\ None \notin Trees \cup Databases \cup [db : Databases, files : Trees \cup {None}]
    /\ StampsAnywhere \in BOOLEAN
    /\ {MaxSaves, MaxErases, MaxEpochs, MaxKills, MaxLosses, MaxCopies} \subseteq Nat

Idle == [op |-> "idle", step |-> "idle", entity |-> None, dir |-> None,
         digests |-> {}, live |-> FALSE, file |-> FALSE]
NoStage == [db |-> None, files |-> None]

Larger(a, b) == IF a > b THEN a ELSE b
----------------------------------------------------------------------------
(* The operators of the code.                                              *)

\* Stamped::agrees: this database is the stream the identity names.
Agrees(d) == d.epoch = ident.epoch /\ d.stamp >= ident.erasures

\* Mutant: a short manifest passes.
EstablishedShort(m) == m.there /\ ~m.torn

\* Manifest::established: present, whole, and no shorter than the identity counts.
Established(m) == m.there /\ ~m.torn /\ Len(m.lines) >= ident.erasures

\* Mutant: the lines are counted on top.
CountedTwice(m) == ident.erasures + Len(m.lines)

\* The erasures an identity counts once it has read `m`.
Counted(m) == Larger(ident.erasures, Len(m.lines))

\* The file merge-erasures and --erasure-manifest name, or the default one.
Source(named) == IF named THEN kept ELSE manifest

Own(e)        == {p \in Payloads : p[1] = e}
Held(d, t, e) == t[e] # 0 \/ d.row[e] # 0 \/ \E i \in DOMAIN d.feed : d.feed[i][1] = e
Live(d, t, e) == d.row[e] # 0 \/ t[e] # 0

\* replica_redaction::bar: digests whose bytes are gone and stay out.
Bar(d, digests) ==
    [epoch |-> d.epoch, stamp |-> d.stamp, state |-> d.state, row |-> d.row, feed |-> d.feed,
     bytes |-> d.bytes \ digests, barred |-> d.barred \cup digests]

\* One erase transaction: rows gone, payloads blanked, a tombstone for what was live.
EraseRows(d, e, live) ==
    [Bar(d, d.bytes \cap Own(e)) EXCEPT
        !.row[e] = 0,
        !.feed = IF live THEN Append(@, <<e, 0>>) ELSE @]

\* A tombstone for each entity that was live, in the order the lines name them first.
Tombstones(lines, live) ==
    LET first   == {i \in DOMAIN lines : lines[i].key \in live
                       /\ \A j \in 1 .. i - 1 : lines[j].key # lines[i].key}
        Rank(i) == Cardinality({j \in first : j <= i})
    IN [n \in 1 .. Cardinality(first) |-> <<lines[CHOOSE i \in first : Rank(i) = n].key, 0>>]

\* backup_merge::lines_into: every entity the lines name erased in full, then every digest barred.
Digests(lines) == UNION {lines[i].digests : i \in DOMAIN lines}
LinesInto(at, lines) ==
    LET gone    == {e \in {lines[i].key : i \in DOMAIN lines} : Held(at.db, at.files, e)}
        live    == {e \in gone : Live(at.db, at.files, e)}
        blanked == {p \in at.db.bytes : p[1] \in gone}
    IN  [db    |-> [Bar(at.db, blanked \cup Digests(lines)) EXCEPT
                      !.row = [e \in Entities |-> IF e \in gone THEN 0 ELSE @[e]],
                      !.feed = @ \o Tombstones(lines, live)],
         files |-> [e \in Entities |-> IF e \in gone THEN 0 ELSE at.files[e]]]

\* identity.lock is held: throughout an erase, a merge and a repair, and while a restore stages.
IdentityHeld ==
    writer.op \in {"erase", "merge", "repair"} \/ (writer.op = "restore" /\ writer.step = "merge")

\* The database has not gone back behind what it served under its epoch (a bound, not the code's).
Onward == IsPrefix(served[db.epoch], db.feed)

Free == writer = Idle
Step(op, step) == writer.op = op /\ writer.step = step
Goto(step) == writer' = [writer EXCEPT !.step = step]
----------------------------------------------------------------------------
Init ==
    /\ db = [epoch |-> 0, stamp |-> 0, state |-> "none", row |-> Empty, feed |-> <<>>,
             bytes |-> {}, barred |-> {}]
    /\ files = Empty
    /\ backups = [b \in Dirs |-> None]
    /\ manifest = [there |-> TRUE, torn |-> FALSE, lines |-> <<>>]
    /\ kept = None
    /\ ident = [epoch |-> 0, erasures |-> 0]
    /\ pending = None
    /\ staged = NoStage
    /\ pre = None
    /\ writer = Idle
    /\ request = [step |-> "idle", epoch |-> 0]
    /\ epochs = 0 /\ saves = 0 /\ erases = 0 /\ kills = 0 /\ losses = 0 /\ copies = 0
    /\ erased = {}
    /\ served = [x \in Epochs |-> <<>>]
    /\ goal = None
----------------------------------------------------------------------------
(* A local save: the write path of MemoryWrite, one step here.  Neither it *)
(* nor an erase looks at restore.pending.                                  *)

Store(d, e, v) ==
    [d EXCEPT !.row[e] = v, !.feed = Append(@, <<e, v>>), !.bytes = @ \cup {<<e, v>>}]
Place(t, e, v) == IF t = None THEN [Empty EXCEPT ![e] = v] ELSE [t EXCEPT ![e] = v]

Save(e) ==
    /\ Free
    /\ saves < MaxSaves
    /\ saves' = saves + 1
    /\ db' = Store(db, e, saves')
    /\ files' = Place(files, e, saves')
    /\ goal' = None
    /\ UNCHANGED <<backups, manifest, kept, ident, pending, staged, pre, writer, request,
                   epochs, erases, kills, losses, copies, erased, served>>
----------------------------------------------------------------------------
(* comemory erase --memory: the files under the open transaction, the      *)
(* manifest line, the count in identity.json, then the commit.             *)

Tree == IF files = None THEN Empty ELSE files

EraseFiles(e) ==
    /\ Free
    /\ erases < MaxErases
    /\ Held(db, Tree, e)
    /\ StampsAnywhere \/ (Onward /\ erased \subseteq db.barred)
    /\ erases' = erases + 1
    /\ writer' = [Idle EXCEPT !.op = "erase", !.step = "line", !.entity = e,
                              !.digests = db.bytes \cap Own(e), !.live = Live(db, Tree, e)]
    /\ files' = IF files = None THEN None ELSE [files EXCEPT ![e] = 0]
    /\ goal' = None
    /\ UNCHANGED <<db, backups, manifest, kept, ident, pending, staged, pre, request,
                   epochs, saves, kills, losses, copies, erased, served>>

EraseLine ==
    /\ Step("erase", "line")
    /\ manifest' = [there |-> TRUE, torn |-> FALSE,
                    lines |-> Append(manifest.lines, [key |-> writer.entity, digests |-> writer.digests])]
    /\ Goto("count")
    /\ UNCHANGED <<db, files, backups, kept, ident, pending, staged, pre, request, hist, count>>

EraseCount ==
    /\ Step("erase", "count")
    /\ ident' = [ident EXCEPT !.erasures = @ + 1]
    /\ Goto("commit")
    /\ UNCHANGED <<db, files, backups, manifest, kept, pending, staged, pre, request, hist, count>>

EraseCommit ==
    /\ Step("erase", "commit")
    /\ db' = [EraseRows(db, writer.entity, writer.live) EXCEPT !.stamp = ident.erasures]
    /\ erased' = erased \cup writer.digests
    /\ writer' = Idle
    /\ UNCHANGED <<files, backups, manifest, kept, ident, pending, staged, pre, request,
                   served, goal, count>>
----------------------------------------------------------------------------
(* comemory backup create: the snapshot, then the markdown.                *)

BackupDatabase(b) ==
    /\ Free
    /\ backups[b] = None
    /\ backups' = [backups EXCEPT ![b] = [db |-> db, files |-> None]]
    /\ writer' = [Idle EXCEPT !.op = "backup", !.step = "files", !.dir = b]
    /\ UNCHANGED <<disk, kept, request, hist, count>>

BackupFiles ==
    /\ Step("backup", "files")
    /\ backups' = [backups EXCEPT ![writer.dir].files = Tree]
    /\ writer' = Idle
    /\ UNCHANGED <<disk, kept, request, hist, count>>
----------------------------------------------------------------------------
(* comemory backup restore.  What is staged is invisible until the swap;   *)
(* identity.json is not.                                                   *)

RestoreBegin(b, named) ==
    /\ Free
    /\ pending # None => pending.phase = "staging"
    /\ backups[b] # None
    /\ epochs < MaxEpochs
    /\ named => kept # None
    /\ staged' = NoStage
    /\ pending' = [phase |-> "staging", source |-> b]
    /\ writer' = [Idle EXCEPT !.op = "restore", !.step = "stage", !.dir = b, !.file = named]
    /\ UNCHANGED <<db, files, backups, manifest, kept, ident, pre, request, hist, count>>

\* Copy and open the snapshot, mark it merging, and mint the epoch into identity.json.
RestoreStage ==
    /\ Step("restore", "stage")
    /\ epochs < MaxEpochs
    /\ LET snapshot == backups[writer.dir] IN
       staged' = [db    |-> [snapshot.db EXCEPT !.state = "merging"],
                  files |-> IF snapshot.files = None THEN Empty ELSE snapshot.files]
    /\ epochs' = epochs + 1
    /\ ident' = [epoch |-> epochs', erasures |-> Counted(Source(writer.file))]
    /\ Goto("merge")
    /\ UNCHANGED <<db, files, backups, manifest, kept, pending, pre, request, hist,
                   saves, erases, kills, losses, copies>>

\* Mutant: the lines that verify are taken for all there are.
RestoreTrusts ==
    /\ Step("restore", "merge")
    /\ LET merged == LinesInto(staged, Source(writer.file).lines)
       IN  staged' = [merged EXCEPT !.db.epoch = ident.epoch, !.db.stamp = ident.erasures,
                                    !.db.state = "none"]
    /\ Goto("keep")
    /\ UNCHANGED <<db, files, backups, manifest, kept, ident, pending, pre, request, hist, count>>

\* The new identity, the manifest's erasures, and whether they are all there is.
RestoreMerge ==
    /\ Step("restore", "merge")
    /\ LET found  == Source(writer.file)
           merged == LinesInto(staged, found.lines)
       IN  staged' = [merged EXCEPT
                        !.db.epoch = ident.epoch,
                        !.db.stamp = ident.erasures,
                        !.db.state = IF Established(found) THEN "none" ELSE "unknown"]
    /\ Goto("keep")
    /\ UNCHANGED <<db, files, backups, manifest, kept, ident, pending, pre, request, hist, count>>

\* The previous restore's markdown goes, and the record turns to swapping.
RestoreKeep ==
    /\ Step("restore", "keep")
    /\ pre' = None
    /\ pending' = [pending EXCEPT !.phase = "swapping"]
    /\ goal' = staged
    /\ Goto("aside")
    /\ UNCHANGED <<db, files, backups, manifest, kept, ident, staged, request, erased, served, count>>

\* A staging that fails discards what it staged and its record.
RestoreFail ==
    /\ Step("restore", "stage") \/ Step("restore", "merge") \/ Step("restore", "keep")
    /\ staged' = NoStage
    /\ pending' = None
    /\ writer' = Idle
    /\ UNCHANGED <<db, files, backups, manifest, kept, ident, pre, request, hist, count>>

\* Mutant: the rerun takes the markdown for moved.
ResumeInstalls(b) ==
    /\ Free
    /\ pending # None /\ pending.phase = "swapping" /\ pending.source = b
    /\ writer' = [Idle EXCEPT !.op = "restore", !.step = "install", !.dir = b]
    /\ UNCHANGED <<disk, backups, kept, request, hist, count>>

\* A rerun with the same directory finishes a swap; another directory is refused.
RestoreResume(b) ==
    /\ Free
    /\ pending # None /\ pending.phase = "swapping" /\ pending.source = b
    /\ writer' = [Idle EXCEPT !.op = "restore", !.step = "aside", !.dir = b]
    /\ UNCHANGED <<disk, backups, kept, request, hist, count>>
----------------------------------------------------------------------------
(* The swap: each step checks what a killed run already did.               *)

SwapAside ==
    /\ Step("restore", "aside")
    /\ \/ /\ staged.files = None
          /\ Goto("install")
          /\ UNCHANGED <<files, pre>>
       \/ /\ staged.files # None /\ files = None
          /\ Goto("in")
          /\ UNCHANGED <<files, pre>>
       \/ /\ staged.files # None /\ files # None /\ pre = None
          /\ pre' = files /\ files' = None
          /\ Goto("in")
       \/ /\ staged.files # None /\ pre # None /\ files = Empty
          /\ files' = None
          /\ Goto("in")
          /\ UNCHANGED pre
       \/ /\ staged.files # None /\ pre # None /\ files \notin {None, Empty}
          /\ writer' = Idle     \* Conflict: memories/ was recreated and written
          /\ UNCHANGED <<files, pre>>
    /\ UNCHANGED <<db, backups, manifest, kept, ident, pending, staged, request, hist, count>>

SwapIn ==
    /\ Step("restore", "in")
    /\ files' = staged.files
    /\ staged' = [staged EXCEPT !.files = None]
    /\ Goto("install")
    /\ UNCHANGED <<db, backups, manifest, kept, ident, pending, pre, request, hist, count>>

SwapInstall ==
    /\ Step("restore", "install")
    /\ db' = IF staged.db = None THEN db ELSE staged.db
    /\ Goto("drop")
    /\ UNCHANGED <<files, backups, manifest, kept, ident, pending, staged, pre, request, hist, count>>

SwapDrop ==
    /\ Step("restore", "drop")
    /\ staged' = [staged EXCEPT !.db = None]
    /\ Goto("finish")
    /\ UNCHANGED <<db, files, backups, manifest, kept, ident, pending, pre, request, hist, count>>

SwapFinish ==
    /\ Step("restore", "finish")
    /\ pending' = None
    /\ writer' = Idle
    /\ goal' = None
    /\ UNCHANGED <<db, files, backups, manifest, kept, ident, staged, pre, request, erased, served, count>>
----------------------------------------------------------------------------
(* comemory backup merge-erasures FILE.                                    *)

MergeInstall ==
    /\ Free
    /\ pending = None
    /\ kept # None /\ Established(kept)
    /\ StampsAnywhere \/ Onward
    /\ manifest' = kept
    /\ writer' = [Idle EXCEPT !.op = "merge", !.step = "lines"]
    /\ UNCHANGED <<db, files, backups, kept, ident, pending, staged, pre, request, hist, count>>

MergeLines ==
    /\ Step("merge", "lines")
    /\ LET merged == LinesInto([db |-> db, files |-> Tree], manifest.lines)
       IN  db' = merged.db /\ files' = IF files = None THEN None ELSE merged.files
    /\ Goto("clear")
    /\ UNCHANGED <<backups, manifest, kept, ident, pending, staged, pre, request, hist, count>>

MergeClear ==
    /\ Step("merge", "clear")
    /\ db' = [db EXCEPT !.stamp = Counted(manifest), !.state = "none"]
    /\ writer' = Idle
    /\ UNCHANGED <<files, backups, manifest, kept, ident, pending, staged, pre, request, hist, count>>
----------------------------------------------------------------------------
(* A replica request: refuse_unverified, identity::ensure, then the route, *)
(* all on one connection and without a lock across them.                   *)

\* Mutant: only the file is looked for, not the state the database carries.
VerifiedByFile == pending = None

\* restore_state::refuse_unverified lets a request on.
Verified == pending = None /\ db.state = "none"

RequestCheck ==
    /\ request.step = "idle"
    /\ Verified
    /\ request' = [step |-> "checked", epoch |-> db.epoch]
    /\ UNCHANGED <<disk, backups, kept, writer, hist, count>>

RequestCurrent ==
    /\ request.step = "checked"
    /\ ~IdentityHeld
    /\ Agrees(db)
    /\ request' = [request EXCEPT !.step = "admitted"]
    /\ UNCHANGED <<disk, backups, kept, writer, hist, count>>

\* Mutant: the repair merges the erasures and keeps the stream.
RepairKeepsEpoch ==
    /\ request.step = "checked"
    /\ Free
    /\ ~Agrees(db)
    /\ db' = [Bar(db, Digests(manifest.lines)) EXCEPT !.stamp = Counted(manifest),
                !.epoch = ident.epoch, !.state = IF Established(manifest) THEN "none" ELSE "unknown"]
    /\ writer' = [Idle EXCEPT !.op = "repair", !.step = "rotate"]
    /\ request' = [request EXCEPT !.step = "repairing"]
    /\ goal' = None
    /\ UNCHANGED <<files, backups, manifest, kept, ident, pending, staged, pre, erased, served, count>>

\* A mismatch: the digests of the manifest barred, a new epoch, in one transaction.
RepairDatabase ==
    /\ request.step = "checked"
    /\ Free
    /\ ~Agrees(db)
    /\ epochs < MaxEpochs
    /\ epochs' = epochs + 1
    /\ db' = [Bar(db, Digests(manifest.lines)) EXCEPT
                !.epoch = epochs',
                !.stamp = Counted(manifest),
                !.state = IF Established(manifest) THEN "none" ELSE "unknown"]
    /\ writer' = [Idle EXCEPT !.op = "repair", !.step = "rotate"]
    /\ request' = [request EXCEPT !.step = "repairing"]
    /\ goal' = None
    /\ UNCHANGED <<files, backups, manifest, kept, ident, pending, staged, pre, erased, served,
                   saves, erases, kills, losses, copies>>

RepairIdentity ==
    /\ Step("repair", "rotate")
    /\ ident' = [epoch |-> db.epoch, erasures |-> Counted(manifest)]
    /\ writer' = Idle
    /\ request' = IF Verified THEN [step |-> "admitted", epoch |-> db.epoch]
                              ELSE [step |-> "idle", epoch |-> 0]
    /\ UNCHANGED <<db, files, backups, manifest, kept, pending, staged, pre, hist, count>>

NoRequest == [step |-> "idle", epoch |-> 0]

\* GET changes and manifest: the feed from the database as it is now.
RequestRead ==
    /\ request.step = "admitted"
    /\ request' = NoRequest
    /\ served' = IF request.epoch = db.epoch THEN [served EXCEPT ![db.epoch] = db.feed] ELSE served
    /\ UNCHANGED <<disk, backups, kept, writer, erased, goal, count>>

\* POST import: a peer sends a payload it still holds.  What is barred stays out.
RequestImport(p) ==
    /\ request.step = "admitted"
    /\ Free
    /\ p[2] <= saves
    /\ p \notin db.barred
    /\ \A i \in DOMAIN db.feed : db.feed[i] # p     \* else answered from its receipt
    /\ request' = NoRequest
    /\ db' = Store(db, p[1], p[2])
    /\ files' = Place(files, p[1], p[2])
    /\ goal' = None
    /\ UNCHANGED <<backups, manifest, kept, ident, pending, staged, pre, writer, erased, served, count>>
----------------------------------------------------------------------------
(* What goes wrong.  A run of the system sees kills, or loses manifest     *)
(* lines, but not both: see LedgerCovers.                                  *)

\* The command is killed, or gives up; a line being appended may be left torn.
Kill ==
    /\ ~Free
    /\ losses = 0 /\ kills < MaxKills
    /\ kills' = kills + 1
    /\ writer' = Idle
    /\ request' = IF writer.op = "repair" THEN NoRequest ELSE request
    /\ \/ UNCHANGED manifest
       \/ Step("erase", "line") /\ manifest' = [manifest EXCEPT !.there = TRUE, !.torn = TRUE]
    /\ UNCHANGED <<db, files, backups, kept, ident, pending, staged, pre, hist,
                   epochs, saves, erases, losses, copies>>

\* The manifest is replaced by an older copy, or gone; the operator has the newer one.
Lose(n) ==
    /\ Free
    /\ kills = 0 /\ losses < MaxLosses
    /\ n < Len(manifest.lines)
    /\ losses' = losses + 1
    /\ kept' = manifest
    /\ manifest' = [there |-> n > 0, torn |-> FALSE, lines |-> SubSeq(manifest.lines, 1, n)]
    /\ UNCHANGED <<db, files, backups, ident, pending, staged, pre, writer, request, hist,
                   epochs, saves, erases, kills, copies>>

\* A backup's database copied over the live one by hand, with nothing running -- one that
\* identity.json tells apart (a copy of the same epoch and count it does not).
CopyByHand(b) ==
    /\ Free /\ request.step = "idle" /\ pending = None
    /\ copies < MaxCopies
    /\ backups[b] # None /\ ~Agrees(backups[b].db)
    /\ copies' = copies + 1
    /\ db' = backups[b].db
    /\ UNCHANGED <<files, backups, manifest, kept, ident, pending, staged, pre, writer, request, hist,
                   epochs, saves, erases, kills, losses>>
----------------------------------------------------------------------------
Erase   == (\E e \in Entities : EraseFiles(e)) \/ EraseLine \/ EraseCount \/ EraseCommit
Backup  == (\E b \in Dirs : BackupDatabase(b)) \/ BackupFiles
Restore == \/ \E b \in Dirs : RestoreResume(b) \/ \E named \in BOOLEAN : RestoreBegin(b, named)
           \/ RestoreStage \/ RestoreMerge \/ RestoreKeep \/ RestoreFail
           \/ SwapAside \/ SwapIn \/ SwapInstall \/ SwapDrop \/ SwapFinish
Merge   == MergeInstall \/ MergeLines \/ MergeClear
Request == \/ RequestCheck \/ RequestCurrent \/ RepairDatabase \/ RepairIdentity
           \/ RequestRead \/ \E p \in Payloads : RequestImport(p)
Mishap  == Kill \/ (\E n \in 0 .. MaxErases : Lose(n)) \/ (\E b \in Dirs : CopyByHand(b))

Next == (\E e \in Entities : Save(e)) \/ Erase \/ Backup \/ Restore \/ Merge \/ Request \/ Mishap
Spec == Init /\ [][Next]_vars
----------------------------------------------------------------------------
TypeOK ==
    /\ db \in Databases
    /\ files \in Trees \cup {None}
    /\ \A b \in Dirs : backups[b] = None \/ (backups[b].db \in Databases /\ backups[b].files \in Trees \cup {None})
    /\ manifest.lines \in Seq(Lines)
    /\ kept = None \/ kept.lines \in Seq(Lines)
    /\ ident \in [epoch : Epochs, erasures : 0 .. MaxErases]
    /\ staged.db = None \/ staged.db \in Databases
    /\ staged.files \in Trees \cup {None}
    /\ pre \in Trees \cup {None}
    /\ request \in [step : {"idle", "checked", "repairing", "admitted"}, epoch : Epochs]
    /\ erased \subseteq Payloads

\* A manifest that passes for established names every payload a committed erase blanked:
\* otherwise a restore would serve what it does not know it must erase (established, record).
LedgerCovers ==
    writer.op # "erase" /\ Established(manifest) => erased \subseteq Digests(manifest.lines)

\* Whenever the engine would admit a replica request to its current database, that database holds
\* nothing that was erased: not after a restore, a copy by hand, a merge or a kill in any of them.
OpenIsClean ==
    Verified /\ Agrees(db) => db.bytes \cap erased = {}

\* A request serves nothing erased, however long ago it was admitted, unless the database was
\* replaced by another stream under it.
ServedClean ==
    [][RequestRead => (db.bytes \cap erased = {} \/ db.epoch # request.epoch)]_vars

\* Under one epoch the feed only grows: a client's cursor never points into another history.
OneStreamPerEpoch ==
    [][\A x \in Epochs : IsPrefix(served[x], served'[x])]_vars

\* A restore that ends installed one snapshot, database and markdown, exactly as it was staged,
\* however often it was killed on the way; and nothing erased comes back with it.
RestoreIsWhole ==
    [][SwapFinish /\ goal # None =>
          /\ db = goal.db /\ files = goal.files
          /\ db.state = "none" =>
                \A e \in Entities : <<e, db.row[e]>> \notin erased /\ <<e, files[e]>> \notin erased]_vars
====
