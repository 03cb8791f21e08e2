------------------------- MODULE EraseRestoreProofs -------------------------
(* That a manifest which passes for whole names every erased payload, that what
   the engine opens and serves holds none of them, that a restore installs what
   it staged, and that a feed only grows under its epoch - for any entities,
   backups and bounds.

   The ledger first: how long the manifest and its copy are against the count
   in identity.json, and what they cover.  Then the databases - the live one,
   the staged one, the ones in backups: what each has barred, and under which
   epoch it can be taken for the current stream.  Then the types; what a swap
   has still to move, and that it brings nothing erased; and last, what was
   served under each epoch. *)
EXTENDS EraseRestore, FiniteSetTheorems, TLAPS

(****************************** the ledger ********************************)

Ops == {"idle", "erase", "backup", "restore", "merge", "repair"}
Steps == {"idle", "line", "count", "commit", "files", "stage", "merge", "keep", "aside", "in",
          "install", "drop", "finish", "lines", "clear", "rotate"}
Writers ==
    [op : Ops, step : Steps, entity : Entities \cup {None}, dir : Dirs \cup {None},
     digests : SUBSET Payloads, live : BOOLEAN, file : BOOLEAN]
Manifests == [there : BOOLEAN, torn : BOOLEAN, lines : Seq(Lines)]

LedgerTypes ==
    /\ writer \in Writers
    /\ manifest \in Manifests
    /\ kept # None => kept \in Manifests
    /\ ident = [epoch |-> ident.epoch, erasures |-> ident.erasures]
    /\ ident.erasures \in Nat
    /\ losses \in Nat /\ kills \in Nat
    /\ writer.op = "erase" => writer.entity \in Entities
    /\ writer.op = "restore" /\ writer.step \in {"stage", "merge"} /\ writer.file => kept # None

\* An erase between its line and its commit: the manifest names what it blanks,
\* and from "commit" on the identity counts it.
LateErase == writer.op = "erase" /\ writer.step \in {"count", "commit"}
Uncounted == IF Step("erase", "count") THEN 1 ELSE 0
Owed      == IF LateErase THEN erased \cup writer.digests ELSE erased

CoveredUnlessLost == losses = 0 => kept = None /\ Owed \subseteq Digests(manifest.lines)
NoKillAfterLoss   == losses > 0 => kills = 0
NeverLonger ==
    kills = 0 =>
        /\ Len(manifest.lines) <= ident.erasures + Uncounted
        /\ kept # None => /\ Len(kept.lines) <= ident.erasures
                          /\ Step("erase", "commit") => Len(kept.lines) < ident.erasures
CoversOrShort ==
    losses > 0 => \/ Owed \subseteq Digests(manifest.lines)
                  \/ Len(manifest.lines) < ident.erasures + Uncounted
KeptCoversOrShort ==
    kept # None => erased \subseteq Digests(kept.lines) \/ Len(kept.lines) < ident.erasures

LedgerInv ==
    /\ LedgerTypes /\ CoveredUnlessLost /\ NoKillAfterLoss
    /\ NeverLonger /\ CoversOrShort /\ KeptCoversOrShort

LEMMA AppendLine ==
    ASSUME NEW s \in Seq(Lines), NEW line \in Lines
    PROVE  /\ Append(s, line) \in Seq(Lines) /\ Len(Append(s, line)) = Len(s) + 1
           /\ Digests(Append(s, line)) = Digests(s) \cup line.digests
<1> DEFINE t == Append(s, line)
<1>1. t \in Seq(Lines) /\ Len(t) = Len(s) + 1 /\ DOMAIN t = 1 .. (Len(s) + 1) /\ Len(s) \in Nat
  OBVIOUS
<1>2. \A i \in DOMAIN s : i \in DOMAIN t /\ t[i] = s[i]
  OBVIOUS
<1>3. t[Len(s) + 1] = line /\ Len(s) + 1 \in DOMAIN t
  OBVIOUS
<1>4. \A i \in DOMAIN t : i \in DOMAIN s \/ i = Len(s) + 1
  OBVIOUS
<1> HIDE DEF t
<1>5. Digests(t) = Digests(s) \cup line.digests
  BY <1>2, <1>3, <1>4, Zenon DEF Digests
<1> QED BY <1>1, <1>5 DEF t

LEMMA CutLines ==
    ASSUME NEW s \in Seq(Lines), NEW n \in Nat, n < Len(s)
    PROVE  SubSeq(s, 1, n) \in Seq(Lines) /\ Len(SubSeq(s, 1, n)) = n
OBVIOUS

LEMMA CountedIsLarger ==
    ASSUME ident.erasures \in Nat, NEW m, m.lines \in Seq(Lines)
    PROVE  Counted(m) \in Nat /\ Counted(m) >= ident.erasures /\ Counted(m) >= Len(m.lines)
BY DEF Counted, Larger

LEMMA GotoIsWriter ==
    ASSUME writer \in Writers, NEW step \in Steps
    PROVE  /\ [writer EXCEPT !.step = step] \in Writers
           /\ [writer EXCEPT !.step = step].step = step
           /\ [writer EXCEPT !.step = step].op = writer.op
           /\ [writer EXCEPT !.step = step].entity = writer.entity
           /\ [writer EXCEPT !.step = step].dir = writer.dir
           /\ [writer EXCEPT !.step = step].digests = writer.digests
           /\ [writer EXCEPT !.step = step].live = writer.live
           /\ [writer EXCEPT !.step = step].file = writer.file
BY DEF Writers

LEMMA IdleIsWriter == Idle \in Writers /\ Idle.op = "idle" /\ Idle.step = "idle"
BY DEF Idle, Writers, Ops, Steps

LEMMA LedgerInit == Init => LedgerInv
<1> SUFFICES ASSUME Init PROVE LedgerInv
  OBVIOUS
<1>1. <<>> \in Seq(Lines) /\ Len(<<>>) = 0
  OBVIOUS
<1>2. manifest \in Manifests /\ manifest.lines = <<>>
  BY <1>1 DEF Init, Manifests
<1>3. LedgerTypes
  BY <1>2, IdleIsWriter DEF Init, LedgerTypes, Idle
<1>4. ~LateErase /\ Uncounted = 0 /\ Owed = {}
  BY IdleIsWriter DEF Init, LateErase, Uncounted, Owed, Step
<1> QED BY <1>1, <1>2, <1>3, <1>4
        DEF Init, LedgerInv, CoveredUnlessLost, NoKillAfterLoss, NeverLonger, CoversOrShort, KeptCoversOrShort

LEMMA TypesKept ==
    ASSUME LedgerTypes, UNCHANGED <<manifest, kept, ident, losses, kills>>,
           writer' \in Writers, writer'.op = "erase" => writer'.entity \in Entities,
           writer'.op = "restore" /\ writer'.step \in {"stage", "merge"} /\ writer'.file => kept # None
    PROVE  LedgerTypes'
BY DEF LedgerTypes

\* The next step of a command, when it is no step that reads the named manifest.
LEMMA TypesGo ==
    ASSUME LedgerTypes, UNCHANGED <<manifest, kept, ident, losses, kills>>,
           NEW step \in Steps \ {"stage", "merge"}, writer' = [writer EXCEPT !.step = step]
    PROVE  LedgerTypes'
<1>1. writer \in Writers
  BY DEF LedgerTypes
<1>2. writer' \in Writers /\ writer'.step = step /\ writer'.op = writer.op
      /\ writer'.entity = writer.entity
  BY <1>1, GotoIsWriter
<1> QED BY <1>2, TypesKept DEF LedgerTypes

LEMMA TypesRest ==
    ASSUME LedgerTypes, UNCHANGED <<manifest, kept, ident, losses, kills>>,
           writer' = Idle \/ writer' = writer
    PROVE  LedgerTypes'
<1>1. CASE writer' = Idle
  BY <1>1, IdleIsWriter, TypesKept
<1>2. CASE writer' = writer
  BY <1>2 DEF LedgerTypes
<1> QED BY <1>1, <1>2

LEMMA EraseTypes == LedgerTypes /\ Erase => LedgerTypes'
<1> SUFFICES ASSUME LedgerTypes, Erase PROVE LedgerTypes'
  OBVIOUS
<1>0. writer \in Writers
  BY DEF LedgerTypes
<1>1. ASSUME NEW e \in Entities, EraseFiles(e) PROVE LedgerTypes'
  <2>1. db.bytes \cap Own(e) \in SUBSET Payloads
    BY DEF Own
  <2>2. Live(db, Tree, e) \in BOOLEAN
    BY DEF Live
  <2> DEFINE digests == db.bytes \cap Own(e)
             live    == Live(db, Tree, e)
  <2>3. writer' = [Idle EXCEPT !.op = "erase", !.step = "line", !.entity = e,
                               !.digests = digests, !.live = live]
    BY <1>1 DEF EraseFiles
  <2>4. UNCHANGED <<manifest, kept, ident, losses, kills>>
    BY <1>1 DEF EraseFiles
  <2>5. digests \in SUBSET Payloads /\ live \in BOOLEAN
    BY <2>1, <2>2
  <2> HIDE DEF digests, live
  <2>6. writer' \in Writers /\ writer'.op = "erase" /\ writer'.entity = e
    BY <2>3, <2>5 DEF Idle, Writers, Ops, Steps
  <2> QED BY <2>4, <2>6, TypesKept
<1>2. CASE EraseLine
  <2>1. writer' = [writer EXCEPT !.step = "count"] /\ writer.op = "erase"
        /\ UNCHANGED <<kept, ident, losses, kills>>
    BY <1>2 DEF EraseLine, Goto, Step, count
  <2>2. writer' \in Writers /\ writer'.op = "erase" /\ writer'.entity = writer.entity
    BY <1>0, <2>1, GotoIsWriter DEF Steps
  <2> DEFINE line == [key |-> writer.entity, digests |-> writer.digests]
  <2>3. line \in Lines
    BY <1>0, <2>1 DEF LedgerTypes, Lines, Writers
  <2>4. manifest' = [there |-> TRUE, torn |-> FALSE, lines |-> Append(manifest.lines, line)]
    BY <1>2 DEF EraseLine
  <2>5. Append(manifest.lines, line) \in Seq(Lines)
    BY <2>3, AppendLine DEF LedgerTypes, Manifests
  <2>6. manifest' \in Manifests
    BY <2>4, <2>5 DEF Manifests
  <2> QED BY <2>1, <2>2, <2>6 DEF LedgerTypes
<1>3. CASE EraseCount
  <2>1. writer' = [writer EXCEPT !.step = "commit"] /\ writer.op = "erase"
        /\ UNCHANGED <<manifest, kept, losses, kills>>
    BY <1>3 DEF EraseCount, Goto, Step, count
  <2>2. writer' \in Writers /\ writer'.op = "erase" /\ writer'.entity = writer.entity
    BY <1>0, <2>1, GotoIsWriter DEF Steps
  <2>3. ident' = [ident EXCEPT !.erasures = @ + 1]
    BY <1>3 DEF EraseCount
  <2>4. ident' = [epoch |-> ident.epoch, erasures |-> ident.erasures + 1]
    BY <2>3 DEF LedgerTypes
  <2> QED BY <2>1, <2>2, <2>4 DEF LedgerTypes
<1>4. CASE EraseCommit
  BY <1>4, TypesRest DEF EraseCommit, count
<1> QED BY <1>1, <1>2, <1>3, <1>4 DEF Erase

LEMMA SourceIsManifest ==
    ASSUME LedgerTypes, writer.op = "restore", writer.step \in {"stage", "merge"}
    PROVE  Source(writer.file) \in Manifests /\ Source(writer.file).lines \in Seq(Lines)
<1>1. writer.file \in BOOLEAN
  BY DEF LedgerTypes, Writers
<1>2. CASE writer.file
  BY <1>2 DEF Source, LedgerTypes, Manifests
<1>3. CASE ~writer.file
  BY <1>3 DEF Source, LedgerTypes, Manifests
<1> QED BY <1>1, <1>2, <1>3

LEMMA RestoreTypes == LedgerTypes /\ Restore => LedgerTypes'
<1> SUFFICES ASSUME LedgerTypes, Restore PROVE LedgerTypes'
  OBVIOUS
<1>0. writer \in Writers
  BY DEF LedgerTypes
<1>1. ASSUME NEW b \in Dirs, NEW named \in BOOLEAN, RestoreBegin(b, named) PROVE LedgerTypes'
  <2>1. writer' = [Idle EXCEPT !.op = "restore", !.step = "stage", !.dir = b, !.file = named]
        /\ UNCHANGED <<manifest, kept, ident, losses, kills>> /\ (named => kept # None)
    BY <1>1 DEF RestoreBegin, count
  <2>2. writer' \in Writers /\ writer'.op = "restore" /\ writer'.file = named
    BY <2>1 DEF Idle, Writers, Ops, Steps
  <2> QED BY <2>1, <2>2, TypesKept
<1>2. ASSUME NEW b \in Dirs, RestoreResume(b) PROVE LedgerTypes'
  <2>1. writer' = [Idle EXCEPT !.op = "restore", !.step = "aside", !.dir = b]
        /\ UNCHANGED <<manifest, kept, ident, losses, kills>>
    BY <1>2 DEF RestoreResume, disk, count
  <2>2. writer' \in Writers /\ writer'.op = "restore" /\ writer'.step = "aside"
    BY <2>1 DEF Idle, Writers, Ops, Steps
  <2> QED BY <2>1, <2>2, TypesKept
<1>3. CASE RestoreStage
  <2>1. writer' = [writer EXCEPT !.step = "merge"] /\ writer.op = "restore" /\ writer.step = "stage"
        /\ UNCHANGED <<manifest, kept, losses, kills>>
        /\ ident' = [epoch |-> epochs', erasures |-> Counted(Source(writer.file))]
    BY <1>3 DEF RestoreStage, Goto, Step
  <2>2. writer' \in Writers /\ writer'.op = "restore" /\ writer'.file = writer.file
    BY <1>0, <2>1, GotoIsWriter DEF Steps
  <2>3. Counted(Source(writer.file)) \in Nat
    BY <2>1, SourceIsManifest, CountedIsLarger DEF LedgerTypes
  <2>4. ident'.epoch = epochs' /\ ident'.erasures = Counted(Source(writer.file))
    BY <2>1
  <2> QED BY <2>1, <2>2, <2>3, <2>4 DEF LedgerTypes
<1>4. CASE RestoreMerge
  BY <1>4, TypesGo DEF RestoreMerge, Goto, Steps, count
<1>5. CASE RestoreKeep
  BY <1>5, TypesGo DEF RestoreKeep, Goto, Steps, count
<1>6. CASE RestoreFail
  BY <1>6, TypesRest DEF RestoreFail, count
<1>7. CASE SwapAside
  <2>1. UNCHANGED <<manifest, kept, ident, losses, kills>>
        /\ (writer' = Idle \/ \E step \in Steps \ {"stage", "merge"} : writer' = [writer EXCEPT !.step = step])
    BY <1>7 DEF SwapAside, Goto, Steps, count
  <2> QED BY <2>1, TypesGo, TypesRest
<1>8. CASE SwapIn
  BY <1>8, TypesGo DEF SwapIn, Goto, Steps, count
<1>9. CASE SwapInstall
  BY <1>9, TypesGo DEF SwapInstall, Goto, Steps, count
<1>10. CASE SwapDrop
  BY <1>10, TypesGo DEF SwapDrop, Goto, Steps, count
<1>11. CASE SwapFinish
  BY <1>11, TypesRest DEF SwapFinish, count
<1> QED BY <1>1, <1>2, <1>3, <1>4, <1>5, <1>6, <1>7, <1>8, <1>9, <1>10, <1>11 DEF Restore

LEMMA OtherTypes ==
    LedgerTypes /\ ((\E e \in Entities : Save(e)) \/ Backup \/ Merge \/ Request \/ Mishap) => LedgerTypes'
<1> SUFFICES ASSUME LedgerTypes,
                    (\E e \in Entities : Save(e)) \/ Backup \/ Merge \/ Request \/ Mishap
             PROVE  LedgerTypes'
  OBVIOUS
<1>0. writer \in Writers
  BY DEF LedgerTypes
<1>1. ASSUME NEW e \in Entities, Save(e) PROVE LedgerTypes'
  BY <1>1, TypesRest DEF Save
<1>2. CASE Backup
  <2>1. ASSUME NEW b \in Dirs, BackupDatabase(b) PROVE LedgerTypes'
    <3>1. writer' = [Idle EXCEPT !.op = "backup", !.step = "files", !.dir = b]
          /\ UNCHANGED <<manifest, kept, ident, losses, kills>>
      BY <2>1 DEF BackupDatabase, disk, count
    <3>2. writer' \in Writers /\ writer'.op = "backup"
      BY <3>1 DEF Idle, Writers, Ops, Steps
    <3> QED BY <3>1, <3>2, TypesKept
  <2>2. CASE BackupFiles
    BY <2>2, TypesRest DEF BackupFiles, disk, count
  <2> QED BY <1>2, <2>1, <2>2 DEF Backup
<1>3. CASE MergeInstall
  <2>1. writer' = [Idle EXCEPT !.op = "merge", !.step = "lines"] /\ manifest' = kept /\ kept # None
        /\ UNCHANGED <<kept, ident, losses, kills>>
    BY <1>3 DEF MergeInstall, count
  <2>2. writer' \in Writers /\ writer'.op = "merge"
    BY <2>1 DEF Idle, Writers, Ops, Steps
  <2> QED BY <2>1, <2>2 DEF LedgerTypes
<1>4. CASE MergeLines
  BY <1>4, TypesGo DEF MergeLines, Goto, Steps, count
<1>5. CASE MergeClear
  BY <1>5, TypesRest DEF MergeClear, count
<1>6. CASE RequestCheck \/ RequestCurrent \/ RequestRead \/ \E p \in Payloads : RequestImport(p)
  BY <1>6, TypesRest DEF RequestCheck, RequestCurrent, RequestRead, RequestImport, disk, count
<1>7. CASE RepairDatabase
  <2>1. writer' = [Idle EXCEPT !.op = "repair", !.step = "rotate"]
        /\ UNCHANGED <<manifest, kept, ident, losses, kills>>
    BY <1>7 DEF RepairDatabase
  <2>2. writer' \in Writers /\ writer'.op = "repair"
    BY <2>1 DEF Idle, Writers, Ops, Steps
  <2> QED BY <2>1, <2>2, TypesKept
<1>8. CASE RepairIdentity
  <2>1. writer' = Idle /\ ident' = [epoch |-> db.epoch, erasures |-> Counted(manifest)]
        /\ UNCHANGED <<manifest, kept, losses, kills>>
    BY <1>8 DEF RepairIdentity, count
  <2>2. Counted(manifest) \in Nat
    BY CountedIsLarger DEF LedgerTypes, Manifests
  <2>3. ident'.epoch = db.epoch /\ ident'.erasures = Counted(manifest)
    BY <2>1
  <2> QED BY <2>1, <2>2, <2>3, IdleIsWriter DEF LedgerTypes
<1>9. CASE Kill
  <2>1. writer' = Idle /\ kills' = kills + 1 /\ UNCHANGED <<kept, ident, losses>>
    BY <1>9 DEF Kill
  <2>2. manifest' \in Manifests
    <3>1. manifest' = manifest \/ manifest' = [manifest EXCEPT !.there = TRUE, !.torn = TRUE]
      BY <1>9 DEF Kill
    <3> QED BY <3>1 DEF LedgerTypes, Manifests
  <2> QED BY <2>1, <2>2, IdleIsWriter DEF LedgerTypes
<1>10. ASSUME NEW n \in 0 .. MaxErases, Lose(n) PROVE LedgerTypes'
  <2>1. n \in Nat /\ n < Len(manifest.lines) /\ manifest.lines \in Seq(Lines)
    BY <1>10, EraseAssumption DEF Lose, LedgerTypes, Manifests, EraseAssumption
  <2>2. SubSeq(manifest.lines, 1, n) \in Seq(Lines)
    BY <2>1, CutLines
  <2>3. manifest' = [there |-> n > 0, torn |-> FALSE, lines |-> SubSeq(manifest.lines, 1, n)]
        /\ kept' = manifest /\ losses' = losses + 1 /\ UNCHANGED <<writer, ident, kills>>
        /\ writer = Idle
    BY <1>10 DEF Lose, Free
  <2>4. manifest' \in Manifests
    BY <2>2, <2>3 DEF Manifests
  <2> QED BY <2>3, <2>4, IdleIsWriter DEF LedgerTypes
<1>11. ASSUME NEW b \in Dirs, CopyByHand(b) PROVE LedgerTypes'
  BY <1>11, TypesRest DEF CopyByHand
<1> QED BY <1>1, <1>2, <1>3, <1>4, <1>5, <1>6, <1>7, <1>8, <1>9, <1>10, <1>11
        DEF Merge, Request, Mishap

LEMMA TypesStep == LedgerTypes /\ [Next]_vars => LedgerTypes'
<1> SUFFICES ASSUME LedgerTypes, [Next]_vars PROVE LedgerTypes'
  OBVIOUS
<1>1. CASE UNCHANGED vars
  BY <1>1, TypesRest DEF vars, disk, count
<1>2. CASE Next
  BY <1>2, EraseTypes, RestoreTypes, OtherTypes DEF Next
<1> QED BY <1>1, <1>2

\* A step that leaves manifest, copy, count and history alone, and no late erase behind.
LEMMA LedgerQuiet ==
    ASSUME LedgerInv, LedgerTypes', UNCHANGED <<manifest, kept, ident, erased, losses, kills>>,
           writer' = writer \/ (~LateErase /\ ~LateErase')
    PROVE  LedgerInv'
<1>1. Owed' = Owed /\ Uncounted' = Uncounted
  BY DEF Owed, Uncounted, LateErase, Step
<1>2. (Step("erase", "commit"))' => Step("erase", "commit")
  BY DEF LateErase, Step
<1> QED BY <1>1, <1>2 DEF LedgerInv, CoveredUnlessLost, NoKillAfterLoss, NeverLonger, CoversOrShort,
                          KeptCoversOrShort

\* A step that only raises the count.
LEMMA LedgerCounts ==
    ASSUME LedgerInv, LedgerTypes', UNCHANGED <<manifest, kept, erased, losses, kills>>,
           ~LateErase, ~LateErase', ident'.erasures >= ident.erasures
    PROVE  LedgerInv'
<1>1. Owed' = Owed /\ Owed = erased /\ Uncounted' = 0 /\ Uncounted = 0
      /\ ~Step("erase", "commit") /\ ~(Step("erase", "commit"))'
  BY DEF Owed, Uncounted, LateErase, Step
<1>2. manifest.lines \in Seq(Lines) /\ ident.erasures \in Nat /\ ident'.erasures \in Nat
      /\ (kept # None => kept.lines \in Seq(Lines))
  BY DEF LedgerInv, LedgerTypes, Manifests
<1>3. Len(manifest.lines) \in Nat /\ (kept # None => Len(kept.lines) \in Nat)
  BY <1>2
<1>4. CoveredUnlessLost' /\ NoKillAfterLoss'
  BY <1>1 DEF LedgerInv, CoveredUnlessLost, NoKillAfterLoss
<1>5. NeverLonger'
  BY <1>1, <1>2, <1>3 DEF LedgerInv, NeverLonger
<1>6. CoversOrShort'
  BY <1>1, <1>2, <1>3 DEF LedgerInv, CoversOrShort
<1>7. KeptCoversOrShort'
  BY <1>1, <1>2, <1>3 DEF LedgerInv, KeptCoversOrShort
<1> QED BY <1>4, <1>5, <1>6, <1>7 DEF LedgerInv

LEMMA LedgerErase == LedgerInv /\ LedgerTypes' /\ Erase => LedgerInv'
<1> SUFFICES ASSUME LedgerInv, LedgerTypes', Erase PROVE LedgerInv'
  OBVIOUS
<1>0. /\ writer \in Writers /\ manifest.lines \in Seq(Lines) /\ Len(manifest.lines) \in Nat
      /\ ident.erasures \in Nat /\ losses \in Nat /\ kills \in Nat
      /\ kept # None => kept.lines \in Seq(Lines) /\ Len(kept.lines) \in Nat
  BY DEF LedgerInv, LedgerTypes, Manifests
<1>1. ASSUME NEW e \in Entities, EraseFiles(e) PROVE LedgerInv'
  <2>1. UNCHANGED <<manifest, kept, ident, erased, losses, kills>>
    BY <1>1 DEF EraseFiles
  <2>2. ~LateErase /\ ~LateErase'
    BY <1>1 DEF EraseFiles, LateErase, Free, Idle
  <2> QED BY <2>1, <2>2, LedgerQuiet
<1>2. CASE EraseLine
  <2> DEFINE line == [key |-> writer.entity, digests |-> writer.digests]
  <2>1. writer.op = "erase" /\ writer.step = "line" /\ writer' = [writer EXCEPT !.step = "count"]
        /\ manifest' = [there |-> TRUE, torn |-> FALSE, lines |-> Append(manifest.lines, line)]
        /\ UNCHANGED <<kept, ident, erased, losses, kills>>
    BY <1>2 DEF EraseLine, Goto, Step, hist, count
  <2>2. writer'.op = "erase" /\ writer'.step = "count" /\ writer'.digests = writer.digests
    BY <1>0, <2>1, GotoIsWriter DEF Steps
  <2>3. line \in Lines /\ line.digests = writer.digests
    BY <1>0, <2>1 DEF LedgerInv, LedgerTypes, Lines, Writers
  <2>4. manifest'.lines = Append(manifest.lines, line)
    BY <2>1
  <2> HIDE DEF line
  <2>5. Digests(manifest'.lines) = Digests(manifest.lines) \cup writer.digests
        /\ Len(manifest'.lines) = Len(manifest.lines) + 1
    BY <1>0, <2>3, <2>4, AppendLine
  <2>6. Owed = erased /\ Owed' = erased \cup writer.digests /\ Uncounted = 0 /\ Uncounted' = 1
        /\ ~(Step("erase", "commit"))'
    BY <2>1, <2>2 DEF Owed, Uncounted, LateErase, Step
  <2>7. CoveredUnlessLost' /\ NoKillAfterLoss'
    BY <2>1, <2>5, <2>6 DEF LedgerInv, CoveredUnlessLost, NoKillAfterLoss
  <2>8. NeverLonger'
    BY <1>0, <2>1, <2>5, <2>6 DEF LedgerInv, NeverLonger
  <2>9. CoversOrShort'
    BY <1>0, <2>1, <2>5, <2>6 DEF LedgerInv, CoversOrShort
  <2>10. KeptCoversOrShort'
    BY <2>1 DEF LedgerInv, KeptCoversOrShort
  <2> QED BY <2>7, <2>8, <2>9, <2>10 DEF LedgerInv
<1>3. CASE EraseCount
  <2>1. writer.op = "erase" /\ writer.step = "count" /\ writer' = [writer EXCEPT !.step = "commit"]
        /\ ident' = [ident EXCEPT !.erasures = @ + 1]
        /\ UNCHANGED <<manifest, kept, erased, losses, kills>>
    BY <1>3 DEF EraseCount, Goto, Step, hist, count
  <2>2. writer'.op = "erase" /\ writer'.step = "commit" /\ writer'.digests = writer.digests
    BY <1>0, <2>1, GotoIsWriter DEF Steps
  <2>3. ident'.erasures = ident.erasures + 1
    BY <2>1 DEF LedgerInv, LedgerTypes
  <2>4. Owed' = Owed /\ Uncounted = 1 /\ Uncounted' = 0
    BY <2>1, <2>2 DEF Owed, Uncounted, LateErase, Step
  <2>5. CoveredUnlessLost' /\ NoKillAfterLoss'
    BY <2>1, <2>4 DEF LedgerInv, CoveredUnlessLost, NoKillAfterLoss
  <2>6. NeverLonger'
    BY <1>0, <2>1, <2>3, <2>4 DEF LedgerInv, NeverLonger
  <2>7. CoversOrShort'
    BY <1>0, <2>1, <2>3, <2>4 DEF LedgerInv, CoversOrShort
  <2>8. KeptCoversOrShort'
    BY <1>0, <2>1, <2>3 DEF LedgerInv, KeptCoversOrShort
  <2> QED BY <2>5, <2>6, <2>7, <2>8 DEF LedgerInv
<1>4. CASE EraseCommit
  <2>1. writer.op = "erase" /\ writer.step = "commit" /\ writer' = Idle
        /\ erased' = erased \cup writer.digests
        /\ UNCHANGED <<manifest, kept, ident, losses, kills>>
    BY <1>4 DEF EraseCommit, Step, count
  <2>2. Owed' = Owed /\ Uncounted = 0 /\ Uncounted' = 0 /\ ~(Step("erase", "commit"))'
    BY <2>1, IdleIsWriter DEF Owed, Uncounted, LateErase, Step
  <2>3. CoveredUnlessLost' /\ NoKillAfterLoss'
    BY <2>1, <2>2 DEF LedgerInv, CoveredUnlessLost, NoKillAfterLoss
  <2>4. NeverLonger'
    BY <2>1, <2>2 DEF LedgerInv, NeverLonger
  <2>5. CoversOrShort'
    BY <2>1, <2>2 DEF LedgerInv, CoversOrShort
  <2>6. KeptCoversOrShort'
    <3>1. kept # None => losses > 0
      BY <1>0 DEF LedgerInv, CoveredUnlessLost
    <3>2. kept # None => Len(kept.lines) < ident.erasures
      BY <1>0, <2>1, <3>1 DEF LedgerInv, NoKillAfterLoss, NeverLonger, Step
    <3> QED BY <2>1, <3>2 DEF KeptCoversOrShort
  <2> QED BY <2>3, <2>4, <2>5, <2>6 DEF LedgerInv
<1> QED BY <1>1, <1>2, <1>3, <1>4 DEF Erase

LEMMA LedgerRestore == LedgerInv /\ LedgerTypes' /\ Restore => LedgerInv'
<1> SUFFICES ASSUME LedgerInv, LedgerTypes', Restore PROVE LedgerInv'
  OBVIOUS
<1>0. writer \in Writers
  BY DEF LedgerInv, LedgerTypes
<1>1. CASE RestoreStage
  <2>1. writer' = [writer EXCEPT !.step = "merge"] /\ writer.op = "restore" /\ writer.step = "stage"
        /\ UNCHANGED <<manifest, kept, erased, losses, kills>>
        /\ ident' = [epoch |-> epochs', erasures |-> Counted(Source(writer.file))]
    BY <1>1 DEF RestoreStage, Goto, Step, hist
  <2>2. writer'.op = "restore"
    BY <1>0, <2>1, GotoIsWriter DEF Steps
  <2>3. ident'.erasures >= ident.erasures
    BY <2>1, SourceIsManifest, CountedIsLarger DEF LedgerInv, LedgerTypes
  <2> QED BY <2>1, <2>2, <2>3, LedgerCounts DEF LateErase
<1>2. ASSUME UNCHANGED <<manifest, kept, ident, erased, losses, kills>>,
             writer.op # "erase", writer'.op # "erase"
      PROVE  LedgerInv'
  BY <1>2, LedgerQuiet DEF LateErase
<1>3. ASSUME NEW b \in Dirs, NEW named \in BOOLEAN, RestoreBegin(b, named) PROVE LedgerInv'
  BY <1>2, <1>3 DEF RestoreBegin, Free, Idle, hist, count
<1>4. ASSUME NEW b \in Dirs, RestoreResume(b) PROVE LedgerInv'
  BY <1>2, <1>4 DEF RestoreResume, Free, Idle, disk, hist, count
<1>5. ASSUME NEW step \in Steps, writer.op = "restore", writer' = Idle \/ Goto(step)
      PROVE  writer'.op # "erase"
  BY <1>0, <1>5, GotoIsWriter, IdleIsWriter DEF Goto
<1>6. CASE RestoreMerge
  BY <1>2, <1>5, <1>6 DEF RestoreMerge, Step, Steps, hist, count
<1>7. CASE RestoreKeep
  BY <1>2, <1>5, <1>7 DEF RestoreKeep, Step, Steps, count
<1>8. CASE RestoreFail
  BY <1>2, <1>8, IdleIsWriter DEF RestoreFail, Step, hist, count
<1>9. CASE SwapAside
  <2>1. writer.op = "restore" /\ UNCHANGED <<manifest, kept, ident, erased, losses, kills>>
        /\ \E step \in Steps : writer' = Idle \/ Goto(step)
    BY <1>9 DEF SwapAside, Step, Steps, hist, count
  <2> QED BY <1>2, <1>5, <2>1
<1>10. CASE SwapIn
  BY <1>2, <1>5, <1>10 DEF SwapIn, Step, Steps, hist, count
<1>11. CASE SwapInstall
  BY <1>2, <1>5, <1>11 DEF SwapInstall, Step, Steps, hist, count
<1>12. CASE SwapDrop
  BY <1>2, <1>5, <1>12 DEF SwapDrop, Step, Steps, hist, count
<1>13. CASE SwapFinish
  BY <1>2, <1>13, IdleIsWriter DEF SwapFinish, Step, hist, count
<1> QED BY <1>1, <1>3, <1>4, <1>6, <1>7, <1>8, <1>9, <1>10, <1>11, <1>12, <1>13 DEF Restore

\* While nothing is written, a manifest or copy that is long enough covers.
LEMMA LongEnoughCovers ==
    ASSUME LedgerInv, writer.op # "erase"
    PROVE  /\ Len(manifest.lines) >= ident.erasures => erased \subseteq Digests(manifest.lines)
           /\ kept # None /\ Len(kept.lines) >= ident.erasures => erased \subseteq Digests(kept.lines)
<1>0. /\ manifest.lines \in Seq(Lines) /\ Len(manifest.lines) \in Nat
      /\ ident.erasures \in Nat /\ losses \in Nat
      /\ kept # None => kept.lines \in Seq(Lines) /\ Len(kept.lines) \in Nat
  BY DEF LedgerInv, LedgerTypes, Manifests
<1>1. Owed = erased /\ Uncounted = 0
  BY DEF Owed, Uncounted, LateErase, Step
<1>2. CASE losses = 0
  BY <1>1, <1>2 DEF LedgerInv, CoveredUnlessLost
<1>3. CASE losses > 0
  <2>1. Len(manifest.lines) >= ident.erasures => erased \subseteq Digests(manifest.lines)
    BY <1>0, <1>1, <1>3 DEF LedgerInv, CoversOrShort
  <2>2. kept # None /\ Len(kept.lines) >= ident.erasures => erased \subseteq Digests(kept.lines)
    BY <1>0 DEF LedgerInv, KeptCoversOrShort
  <2> QED BY <2>1, <2>2
<1> QED BY <1>0, <1>2, <1>3

LEMMA LedgerOther ==
    LedgerInv /\ LedgerTypes' /\ ((\E e \in Entities : Save(e)) \/ Backup \/ Merge \/ Request \/ Mishap)
        => LedgerInv'
<1> SUFFICES ASSUME LedgerInv, LedgerTypes',
                    (\E e \in Entities : Save(e)) \/ Backup \/ Merge \/ Request \/ Mishap
             PROVE  LedgerInv'
  OBVIOUS
<1>0. /\ writer \in Writers /\ manifest.lines \in Seq(Lines) /\ Len(manifest.lines) \in Nat
      /\ ident.erasures \in Nat /\ losses \in Nat /\ kills \in Nat
      /\ kept # None => kept.lines \in Seq(Lines) /\ Len(kept.lines) \in Nat
  BY DEF LedgerInv, LedgerTypes, Manifests
<1>1. ASSUME UNCHANGED <<manifest, kept, ident, erased, losses, kills>>,
             writer' = writer \/ (writer.op # "erase" /\ writer'.op # "erase")
      PROVE  LedgerInv'
  BY <1>1, LedgerQuiet DEF LateErase
<1>2. ASSUME NEW e \in Entities, Save(e) PROVE LedgerInv'
  BY <1>1, <1>2 DEF Save
<1>3. CASE Backup
  <2>1. ASSUME NEW b \in Dirs, BackupDatabase(b) PROVE LedgerInv'
    BY <1>1, <2>1 DEF BackupDatabase, Free, Idle, disk, hist, count
  <2>2. CASE BackupFiles
    BY <1>1, <2>2, IdleIsWriter DEF BackupFiles, Step, disk, hist, count
  <2> QED BY <1>3, <2>1, <2>2 DEF Backup
<1>4. CASE MergeInstall
  <2>1. writer.op = "idle" /\ manifest' = kept /\ kept # None /\ Len(kept.lines) >= ident.erasures
        /\ UNCHANGED <<kept, ident, erased, losses, kills>>
        /\ writer'.op = "merge" /\ ~LateErase'
    BY <1>4 DEF MergeInstall, Established, Free, Idle, hist, count, LateErase
  <2>2. erased \subseteq Digests(kept.lines)
    BY <2>1, LongEnoughCovers
  <2>3. Owed' = erased /\ Uncounted' = 0 /\ ~(Step("erase", "commit"))' /\ losses > 0 /\ kills = 0
    BY <1>0, <2>1 DEF Owed, Uncounted, LateErase, Step, LedgerInv, CoveredUnlessLost, NoKillAfterLoss
  <2>4. CoveredUnlessLost' /\ NoKillAfterLoss'
    BY <1>0, <2>1, <2>3 DEF CoveredUnlessLost, NoKillAfterLoss
  <2>5. NeverLonger'
    BY <1>0, <2>1, <2>3 DEF LedgerInv, NeverLonger
  <2>6. CoversOrShort' /\ KeptCoversOrShort'
    BY <2>1, <2>2, <2>3 DEF CoversOrShort, KeptCoversOrShort
  <2> QED BY <2>4, <2>5, <2>6 DEF LedgerInv
<1>5. CASE MergeLines
  <2>1. writer.op = "merge" /\ writer' = [writer EXCEPT !.step = "clear"]
        /\ UNCHANGED <<manifest, kept, ident, erased, losses, kills>>
    BY <1>5 DEF MergeLines, Goto, Step, hist, count
  <2> QED BY <1>0, <1>1, <2>1, GotoIsWriter DEF Steps
<1>6. CASE MergeClear
  BY <1>1, <1>6, IdleIsWriter DEF MergeClear, Step, hist, count
<1>7. CASE RequestCheck \/ RequestCurrent \/ RequestRead \/ \E p \in Payloads : RequestImport(p)
  BY <1>1, <1>7 DEF RequestCheck, RequestCurrent, RequestRead, RequestImport, disk, hist, count
<1>8. CASE RepairDatabase
  BY <1>1, <1>8 DEF RepairDatabase, Free, Idle
<1>9. CASE RepairIdentity
  <2>1. writer.op = "repair" /\ writer' = Idle
        /\ ident' = [epoch |-> db.epoch, erasures |-> Counted(manifest)]
        /\ UNCHANGED <<manifest, kept, erased, losses, kills>>
    BY <1>9 DEF RepairIdentity, Step, hist, count
  <2>2. ident'.erasures >= ident.erasures
    BY <1>0, <2>1, CountedIsLarger
  <2> QED BY <2>1, <2>2, LedgerCounts, IdleIsWriter DEF LateErase
<1>10. CASE Kill
  <2>1. writer' = Idle /\ kills' = kills + 1 /\ losses = 0 /\ UNCHANGED <<kept, ident, erased, losses>>
        /\ (manifest' = manifest \/ manifest' = [manifest EXCEPT !.there = TRUE, !.torn = TRUE])
    BY <1>10 DEF Kill, hist
  <2>2. manifest'.lines = manifest.lines
    BY <2>1 DEF LedgerInv, LedgerTypes, Manifests
  <2>3. Owed' = erased /\ erased \subseteq Owed
    BY <2>1, IdleIsWriter DEF Owed, LateErase
  <2>4. CoveredUnlessLost' /\ NoKillAfterLoss' /\ NeverLonger' /\ CoversOrShort' /\ KeptCoversOrShort'
    BY <1>0, <2>1, <2>2, <2>3
       DEF LedgerInv, CoveredUnlessLost, NoKillAfterLoss, NeverLonger, CoversOrShort, KeptCoversOrShort
  <2> QED BY <2>4 DEF LedgerInv
<1>11. ASSUME NEW n \in 0 .. MaxErases, Lose(n) PROVE LedgerInv'
  <2>1. n \in Nat /\ n < Len(manifest.lines) /\ kills = 0 /\ writer = Idle
        /\ manifest' = [there |-> n > 0, torn |-> FALSE, lines |-> SubSeq(manifest.lines, 1, n)]
        /\ kept' = manifest /\ losses' = losses + 1 /\ UNCHANGED <<writer, ident, erased, kills>>
    BY <1>11, EraseAssumption DEF Lose, Free, EraseAssumption, hist
  <2>2. manifest'.lines = SubSeq(manifest.lines, 1, n)
    BY <2>1
  <2>3. Len(manifest'.lines) = n
    BY <1>0, <2>1, <2>2, CutLines
  <2>4. Owed = erased /\ Owed' = erased /\ Uncounted = 0 /\ Uncounted' = 0
        /\ ~Step("erase", "commit") /\ ~(Step("erase", "commit"))'
    BY <2>1, IdleIsWriter DEF Owed, Uncounted, LateErase, Step
  <2>5. Len(manifest.lines) <= ident.erasures
    BY <1>0, <2>1, <2>4 DEF LedgerInv, NeverLonger
  <2>6. erased \subseteq Digests(manifest.lines) \/ Len(manifest.lines) < ident.erasures
    BY <1>0, <2>4 DEF LedgerInv, CoveredUnlessLost, CoversOrShort
  <2>7. losses' > 0
    BY <1>0, <2>1
  <2>8. CoveredUnlessLost' /\ NoKillAfterLoss'
    BY <2>1, <2>7, <1>0 DEF CoveredUnlessLost, NoKillAfterLoss
  <2>9. NeverLonger'
    BY <1>0, <2>1, <2>3, <2>4, <2>5 DEF NeverLonger
  <2>10. CoversOrShort'
    BY <1>0, <2>1, <2>3, <2>4, <2>5 DEF CoversOrShort
  <2>11. KeptCoversOrShort'
    BY <2>1, <2>6 DEF KeptCoversOrShort
  <2> QED BY <2>8, <2>9, <2>10, <2>11 DEF LedgerInv
<1>12. ASSUME NEW b \in Dirs, CopyByHand(b) PROVE LedgerInv'
  BY <1>1, <1>12 DEF CopyByHand, hist
<1> QED BY <1>2, <1>3, <1>4, <1>5, <1>6, <1>7, <1>8, <1>9, <1>10, <1>11, <1>12
        DEF Merge, Request, Mishap

LEMMA LedgerStep == LedgerInv /\ [Next]_vars => LedgerInv'
<1> SUFFICES ASSUME LedgerInv, [Next]_vars PROVE LedgerInv'
  OBVIOUS
<1>1. LedgerTypes'
  BY TypesStep DEF LedgerInv
<1>2. CASE UNCHANGED vars
  BY <1>1, <1>2, LedgerQuiet DEF vars, disk, hist, count
<1>3. CASE Next
  BY <1>1, <1>3, LedgerErase, LedgerRestore, LedgerOther DEF Next
<1> QED BY <1>2, <1>3

\* A manifest that passes for established names every erased payload: whatever is
\* killed and however it is rerun, or whatever manifest lines are lost.
THEOREM LedgerCoversAlways == Spec => []LedgerCovers
<1>1. LedgerInv => LedgerCovers
  BY LongEnoughCovers DEF LedgerCovers, Established
<1> QED BY <1>1, LedgerInit, LedgerStep, PTL DEF Spec

(*************************** the databases ********************************)

MintedAt(n) == {p \in Entities \X Nat : p[2] <= n}

\* What a database is, as far as erases go: bytes and bars apart, all of them minted.
SoundAt(d, epoch, n) ==
    /\ d = [epoch |-> d.epoch, stamp |-> d.stamp, state |-> d.state, row |-> d.row, feed |-> d.feed,
            bytes |-> d.bytes, barred |-> d.barred]
    /\ d.epoch \in Nat /\ d.epoch <= epoch /\ d.stamp \in Nat
    /\ d.bytes \cap d.barred = {}
    /\ d.bytes \subseteq MintedAt(n) /\ d.barred \subseteq MintedAt(n)
Sound(d) == SoundAt(d, epochs, saves)

LEMMA SoundGrows ==
    ASSUME NEW d, NEW e1 \in Nat, NEW e2 \in Nat, NEW n1 \in Nat, NEW n2 \in Nat,
           e1 <= e2, n1 <= n2, SoundAt(d, e1, n1)
    PROVE  SoundAt(d, e2, n2)
<1>1. MintedAt(n1) \subseteq MintedAt(n2)
  BY DEF MintedAt
<1>2. d.epoch <= e2
  BY DEF SoundAt
<1> QED BY <1>1, <1>2 DEF SoundAt

\* A database keeps its epoch, count and state, and what it barred, in this step.
Keeps(new, d) ==
    /\ new.epoch = d.epoch /\ new.stamp = d.stamp /\ new.state = d.state
    /\ d.barred \subseteq new.barred

LEMMA BarKeeps ==
    ASSUME NEW d, NEW epoch \in Nat, NEW n \in Nat, SoundAt(d, epoch, n),
           NEW digests, digests \subseteq MintedAt(n)
    PROVE  /\ SoundAt(Bar(d, digests), epoch, n) /\ Keeps(Bar(d, digests), d)
           /\ digests \subseteq Bar(d, digests).barred
BY DEF SoundAt, Bar, Keeps

\* Rows and feed do not matter to it.
LEMMA RowKeeps ==
    ASSUME NEW d, NEW epoch, NEW n, SoundAt(d, epoch, n), NEW r
    PROVE  /\ SoundAt([d EXCEPT !.row = r], epoch, n) /\ Keeps([d EXCEPT !.row = r], d)
           /\ [d EXCEPT !.row = r].barred = d.barred
BY DEF SoundAt, Keeps

LEMMA FeedKeeps ==
    ASSUME NEW d, NEW epoch, NEW n, SoundAt(d, epoch, n), NEW f
    PROVE  /\ SoundAt([d EXCEPT !.feed = f], epoch, n) /\ Keeps([d EXCEPT !.feed = f], d)
           /\ [d EXCEPT !.feed = f].barred = d.barred
BY DEF SoundAt, Keeps

LEMMA EraseRowsKeeps ==
    ASSUME NEW d, NEW epoch \in Nat, NEW n \in Nat, SoundAt(d, epoch, n), NEW e, NEW live
    PROVE  /\ SoundAt(EraseRows(d, e, live), epoch, n) /\ Keeps(EraseRows(d, e, live), d)
           /\ d.bytes \cap Own(e) \subseteq EraseRows(d, e, live).barred
<1> DEFINE b == Bar(d, d.bytes \cap Own(e))
           feed == IF live THEN Append(b.feed, <<e, 0>>) ELSE b.feed
           row == [b.row EXCEPT ![e] = 0]
<1>0. d.bytes \cap Own(e) \subseteq MintedAt(n)
  BY DEF SoundAt
<1>1. SoundAt(b, epoch, n) /\ Keeps(b, d) /\ d.bytes \cap Own(e) \subseteq b.barred
  BY <1>0, BarKeeps
<1> DEFINE new == EraseRows(d, e, live)
<1> DEFINE half == [b EXCEPT !.row = row]
<1>2. new = [half EXCEPT !.feed = feed]
  BY DEF EraseRows, Bar
<1> HIDE DEF b, feed, row, new
<1>5. SoundAt(half, epoch, n) /\ Keeps(half, b) /\ half.barred = b.barred
  BY <1>1, RowKeeps
<1> HIDE DEF half
<1>6. SoundAt(new, epoch, n) /\ Keeps(new, half) /\ new.barred = half.barred
  BY <1>2, <1>5, FeedKeeps
<1>3. SoundAt(new, epoch, n) /\ Keeps(new, b) /\ new.barred = b.barred
  BY <1>5, <1>6 DEF Keeps
<1>4. SoundAt(new, epoch, n) /\ Keeps(new, d) /\ d.bytes \cap Own(e) \subseteq new.barred
  BY <1>1, <1>3 DEF Keeps
<1> QED BY <1>4 DEF new

LEMMA LinesIntoKeeps ==
    ASSUME NEW at, NEW epoch \in Nat, NEW n \in Nat, SoundAt(at.db, epoch, n),
           NEW lines, Digests(lines) \subseteq MintedAt(n)
    PROVE  /\ LinesInto(at, lines) = [db |-> LinesInto(at, lines).db, files |-> LinesInto(at, lines).files]
           /\ SoundAt(LinesInto(at, lines).db, epoch, n) /\ Keeps(LinesInto(at, lines).db, at.db)
           /\ Digests(lines) \subseteq LinesInto(at, lines).db.barred
<1> DEFINE gone    == {e \in {lines[i].key : i \in DOMAIN lines} : Held(at.db, at.files, e)}
           live    == {e \in gone : Live(at.db, at.files, e)}
           blanked == {p \in at.db.bytes : p[1] \in gone}
           b       == Bar(at.db, blanked \cup Digests(lines))
           row     == [e \in Entities |-> IF e \in gone THEN 0 ELSE b.row[e]]
           feed    == b.feed \o Tombstones(lines, live)
           files1  == [e \in Entities |-> IF e \in gone THEN 0 ELSE at.files[e]]
<1>1. blanked \cup Digests(lines) \subseteq MintedAt(n)
  BY DEF SoundAt
<1>2. SoundAt(b, epoch, n) /\ Keeps(b, at.db) /\ blanked \cup Digests(lines) \subseteq b.barred
  <2> HIDE DEF blanked
  <2> QED BY <1>1, BarKeeps
<1> DEFINE new == [b EXCEPT !.row = row, !.feed = feed]
<1>3. LinesInto(at, lines) = [db |-> new, files |-> files1]
  BY Zenon DEF LinesInto
<1> DEFINE half == [b EXCEPT !.row = row]
<1>4. new = [half EXCEPT !.feed = feed]
  OBVIOUS
<1> HIDE DEF b, row, feed, files1, blanked, new
<1>8. SoundAt(half, epoch, n) /\ Keeps(half, b) /\ half.barred = b.barred
  BY <1>2, RowKeeps
<1> HIDE DEF half
<1>9. SoundAt(new, epoch, n) /\ Keeps(new, half) /\ new.barred = half.barred
  BY <1>4, <1>8, FeedKeeps
<1>5. SoundAt(new, epoch, n) /\ Keeps(new, b) /\ new.barred = b.barred
  BY <1>8, <1>9 DEF Keeps
<1>6. SoundAt(new, epoch, n) /\ Keeps(new, at.db) /\ Digests(lines) \subseteq new.barred
  BY <1>2, <1>5 DEF Keeps
<1>7. LinesInto(at, lines).db = new /\ LinesInto(at, lines).files = files1
  BY <1>3
<1> QED BY <1>3, <1>6, <1>7

LEMMA StoreKeeps ==
    ASSUME NEW d, NEW epoch \in Nat, NEW n \in Nat, SoundAt(d, epoch, n),
           NEW e \in Entities, NEW v \in Nat, v <= n, <<e, v>> \notin d.barred
    PROVE  SoundAt(Store(d, e, v), epoch, n) /\ Keeps(Store(d, e, v), d)
<1> DEFINE row == [d.row EXCEPT ![e] = v]
           feed == Append(d.feed, <<e, v>>)
           bytes == d.bytes \cup {<<e, v>>}
<1>1. Store(d, e, v) = [d EXCEPT !.row = row, !.feed = feed, !.bytes = bytes]
  BY DEF Store, SoundAt
<1>2. <<e, v>> \in MintedAt(n)
  BY DEF MintedAt
<1> HIDE DEF row, feed
<1>3. bytes \cap d.barred = {} /\ bytes \subseteq MintedAt(n)
  BY <1>2 DEF SoundAt
<1> HIDE DEF bytes
<1> QED BY <1>1, <1>3 DEF SoundAt, Keeps

Numbers ==
    /\ epochs \in Nat /\ saves \in Nat
    /\ ident.epoch \in Nat /\ ident.epoch <= epochs
    /\ request = [step |-> request.step, epoch |-> request.epoch]
    /\ request.epoch \in Nat /\ request.epoch <= epochs

LinesMinted ==
    /\ Digests(manifest.lines) \subseteq MintedAt(saves)
    /\ kept # None => Digests(kept.lines) \subseteq MintedAt(saves)

SoundBackup(b) == b = [db |-> b.db, files |-> b.files] /\ Sound(b.db)

StoresSound ==
    /\ Sound(db)
    /\ staged = [db |-> staged.db, files |-> staged.files]
    /\ staged.db # None \/ Step("restore", "merge") => Sound(staged.db)
    /\ backups = [b \in Dirs |-> backups[b]]
    /\ \A b \in Dirs : backups[b] # None => SoundBackup(backups[b])
    /\ writer.op = "backup" \/ Step("restore", "stage") =>
          writer.dir \in Dirs /\ SoundBackup(backups[writer.dir])

Staging  == writer.op = "restore" /\ writer.step \in {"stage", "merge", "keep"}
Swapping == writer.op = "restore" /\ writer.step \in {"aside", "in", "install", "drop", "finish"}
StagedOver == staged.db # None /\ staged.db.state # "merging"

\* restore.pending guards what is staged, and names a swap only of what is merged.
PendingInv ==
    /\ pending # None => pending \in [phase : {"staging", "swapping"}, source : Dirs]
    /\ staged.db # None => pending # None
    /\ Staging => pending # None /\ pending.phase = "staging"
    /\ Swapping => pending # None /\ pending.phase = "swapping"
    /\ Step("restore", "finish") => staged.db = None
    /\ staged.db # None /\ (Step("restore", "keep") \/ (pending # None /\ pending.phase = "swapping"))
          => StagedOver

\* What the command at work has seen to so far.
WriterInv ==
    /\ writer.op = "erase" =>
          erased \subseteq db.barred /\ writer.digests = db.bytes \cap Own(writer.entity)
    /\ Step("merge", "lines") => erased \subseteq Digests(manifest.lines)
    /\ Step("merge", "clear") => erased \subseteq db.barred
    /\ writer.op = "repair" =>
          /\ db.state = "none" => erased \subseteq db.barred
          /\ staged.db # None => staged.db.epoch # db.epoch

\* A database the identity names, and counts no further than, has barred all that was erased.
Clean(d) == Agrees(d) /\ d.state = "none" => erased \subseteq d.barred

CleanInv ==
    /\ Clean(db)
    /\ staged.db # None => Clean(staged.db)
    /\ StagedOver => /\ staged.db.stamp <= ident.erasures
                     /\ Step("erase", "commit") => staged.db.stamp < ident.erasures

Asked == request.step \in {"checked", "admitted"}

\* A request holds on to an epoch; what is staged to be swapped in is another one.
RequestInv ==
    /\ request.step = "checked" /\ db.epoch = request.epoch => db.state = "none"
    /\ request.step = "admitted" /\ db.epoch = request.epoch => erased \subseteq db.barred
    /\ Asked /\ StagedOver => staged.db.epoch # request.epoch
    /\ Asked /\ Step("restore", "merge") => ident.epoch # request.epoch

DataInv ==
    /\ Numbers /\ LinesMinted /\ StoresSound
    /\ PendingInv /\ WriterInv /\ CleanInv /\ RequestInv
SafeInv == LedgerInv /\ DataInv

(* What a step leaves alone: one lemma for each part of the invariant.     *)

\* No step of a backup or a restore begins.
Light == writer' = writer \/ writer'.op \notin {"backup", "restore"}

SameStage == staged'.db = staged.db /\ staged' = [db |-> staged'.db, files |-> staged'.files]

Grown == epochs' \in Nat /\ saves' \in Nat /\ epochs <= epochs' /\ saves <= saves'

LEMMA SoundLasts ==
    ASSUME Numbers, Grown, NEW d, Sound(d)
    PROVE  SoundAt(d, epochs', saves')
BY SoundGrows DEF Numbers, Grown, Sound

LEMMA StoresStay ==
    ASSUME Numbers, StoresSound, Grown, Light, SameStage, UNCHANGED backups,
           SoundAt(db', epochs', saves')
    PROVE  StoresSound'
<1>1. Sound(db)'
  BY DEF Sound
<1>2. (staged.db # None \/ Step("restore", "merge") => Sound(staged.db))'
  <2>1. (staged.db # None \/ Step("restore", "merge"))' => staged.db # None \/ Step("restore", "merge")
    BY DEF SameStage, Light, Step
  <2>2. Sound(staged.db) => SoundAt(staged.db, epochs', saves')
    BY SoundLasts
  <2> QED BY <2>1, <2>2 DEF StoresSound, SameStage, Sound
<1>3. ASSUME NEW b, SoundBackup(b) PROVE b = [db |-> b.db, files |-> b.files] /\ SoundAt(b.db, epochs', saves')
  BY <1>3, SoundLasts DEF SoundBackup
<1>4. \A b \in Dirs : backups'[b] # None => SoundBackup(backups[b])'
  BY <1>3 DEF StoresSound, SoundBackup, Sound
<1>5. (writer.op = "backup" \/ Step("restore", "stage"))'
         => writer'.dir \in Dirs /\ SoundBackup(backups[writer.dir])'
  <2> SUFFICES ASSUME (writer.op = "backup" \/ Step("restore", "stage"))'
               PROVE  writer'.dir \in Dirs /\ SoundBackup(backups[writer.dir])'
    OBVIOUS
  <2>1. writer' = writer /\ writer.dir \in Dirs /\ SoundBackup(backups[writer.dir])
    BY DEF Light, Step, StoresSound
  <2>2. backups' = backups
    OBVIOUS
  <2> QED BY <2>1, <2>2, <1>3 DEF SoundBackup, Sound
<1>6. backups' = [b \in Dirs |-> backups'[b]]
  BY DEF StoresSound
<1> QED BY <1>1, <1>2, <1>4, <1>5, <1>6 DEF StoresSound, SameStage

LEMMA PendingStays ==
    ASSUME PendingInv, Light, staged'.db = staged.db, UNCHANGED pending
    PROVE  PendingInv'
BY DEF PendingInv, Light, Staging, Swapping, Step, StagedOver

LEMMA WriterStays ==
    ASSUME WriterInv,
           \/ writer'.op \in {"idle", "backup", "restore"}
           \/ UNCHANGED <<writer, db, erased, manifest>> /\ staged'.db = staged.db
    PROVE  WriterInv'
BY DEF WriterInv, Step

LEMMA CleanStays ==
    ASSUME CleanInv, staged'.db = staged.db, UNCHANGED <<ident, erased>>, Clean(db)',
           writer' = writer \/ ~(Step("erase", "commit"))'
    PROVE  CleanInv'
BY DEF CleanInv, Clean, Agrees, StagedOver, Step

LEMMA RequestStays ==
    ASSUME RequestInv, staged'.db = staged.db, ident'.epoch = ident.epoch, UNCHANGED <<erased, request>>,
           Keeps(db', db), writer' = writer \/ ~(Step("restore", "merge"))'
    PROVE  RequestInv'
BY DEF RequestInv, Asked, StagedOver, Step, Keeps

LEMMA LinesStay ==
    ASSUME Numbers, LinesMinted, Grown, manifest'.lines = manifest.lines, UNCHANGED kept
    PROVE  LinesMinted'
BY DEF LinesMinted, Numbers, Grown, MintedAt

\* Nothing but the writer, and what no part of the invariant mentions.
LEMMA WriterAlone ==
    ASSUME SafeInv, Light, SameStage, manifest'.lines = manifest.lines,
           UNCHANGED <<db, backups, kept, ident, pending, erased, request, epochs, saves>>,
           WriterInv', writer' = writer \/ ~(Step("erase", "commit"))'
    PROVE  DataInv'
<1>1. Grown /\ Numbers /\ Numbers'
  BY DEF SafeInv, DataInv, Numbers, Grown
<1>2. LinesMinted'
  BY <1>1, LinesStay DEF SafeInv, DataInv
<1>3. SoundAt(db', epochs', saves')
  BY DEF SafeInv, DataInv, StoresSound, Sound
<1>4. StoresSound'
  BY <1>1, <1>3, StoresStay DEF SafeInv, DataInv
<1>5. PendingInv'
  BY PendingStays DEF SafeInv, DataInv, SameStage
<1>6. CleanInv'
  <2>1. Clean(db)'
    BY DEF SafeInv, DataInv, CleanInv, Clean, Agrees
  <2> QED BY <2>1, CleanStays DEF SafeInv, DataInv, SameStage
<1>7. RequestInv'
  <2>1. Keeps(db', db)
    BY DEF Keeps
  <2>2. writer' = writer \/ ~(Step("restore", "merge"))'
    BY DEF Light, Step
  <2> QED BY <2>1, <2>2, RequestStays DEF SafeInv, DataInv, SameStage
<1> QED BY <1>1, <1>2, <1>4, <1>5, <1>6, <1>7 DEF DataInv

LEMMA DataInit == Init => DataInv
<1> SUFFICES ASSUME Init PROVE DataInv
  OBVIOUS
<1>0. /\ writer = Idle /\ writer.op = "idle" /\ writer.step = "idle"
      /\ db = [epoch |-> 0, stamp |-> 0, state |-> "none", row |-> Empty, feed |-> <<>>,
               bytes |-> {}, barred |-> {}]
      /\ staged = [db |-> None, files |-> None] /\ backups = [b \in Dirs |-> None]
      /\ manifest.lines = <<>> /\ kept = None /\ pending = None /\ erased = {}
      /\ request.step = "idle" /\ request.epoch = 0 /\ epochs = 0 /\ saves = 0
  BY IdleIsWriter DEF Init, NoStage
<1>1. Numbers
  BY DEF Init, Numbers
<1>2. LinesMinted
  BY <1>0 DEF LinesMinted, Digests
<1>3. StoresSound
  BY <1>0 DEF StoresSound, Sound, SoundAt, Step
<1>4. PendingInv
  BY <1>0 DEF PendingInv, Staging, Swapping, Step
<1>5. WriterInv
  BY <1>0 DEF WriterInv, Step
<1>6. CleanInv
  BY <1>0 DEF CleanInv, Clean, StagedOver
<1>7. RequestInv
  BY <1>0 DEF RequestInv, Asked
<1> QED BY <1>1, <1>2, <1>3, <1>4, <1>5, <1>6, <1>7 DEF DataInv

LEMMA FreshIsNotBarred ==
    ASSUME NEW d, NEW epoch, NEW n \in Nat, SoundAt(d, epoch, n), NEW e
    PROVE  <<e, n + 1>> \notin d.barred
BY DEF SoundAt, MintedAt

LEMMA SaveData == ASSUME SafeInv, NEW e \in Entities, Save(e) PROVE DataInv'
<1>1. /\ writer = Idle /\ writer.op = "idle" /\ saves \in Nat /\ epochs \in Nat
      /\ saves' = saves + 1 /\ db' = Store(db, e, saves + 1)
      /\ UNCHANGED <<backups, manifest, kept, ident, pending, staged, writer, request, epochs, erased>>
  BY IdleIsWriter DEF Save, Free, SafeInv, DataInv, Numbers
<1>2. Grown /\ Light /\ SameStage
  BY <1>1 DEF Grown, Light, SameStage, SafeInv, DataInv, StoresSound
<1>3. SoundAt(db, epochs, saves + 1) /\ <<e, saves + 1>> \notin db.barred
  BY <1>1, FreshIsNotBarred, SoundGrows DEF SafeInv, DataInv, StoresSound, Sound
<1>4. SoundAt(db', epochs', saves') /\ Keeps(db', db)
  BY <1>1, <1>3, StoreKeeps
<1>5. Numbers'
  BY <1>1 DEF SafeInv, DataInv, Numbers
<1>6. LinesMinted'
  BY <1>1, <1>2, LinesStay DEF SafeInv, DataInv
<1>7. StoresSound'
  BY <1>1, <1>2, <1>4, StoresStay DEF SafeInv, DataInv
<1>8. PendingInv'
  BY <1>1, <1>2, PendingStays DEF SafeInv, DataInv, SameStage
<1>9. WriterInv'
  BY <1>1, WriterStays DEF SafeInv, DataInv
<1>10. CleanInv'
  <2>1. Clean(db)'
    BY <1>1, <1>4 DEF SafeInv, DataInv, CleanInv, Clean, Agrees, Keeps
  <2> QED BY <1>1, <2>1, CleanStays DEF SafeInv, DataInv
<1>11. RequestInv'
  BY <1>1, <1>4, RequestStays DEF SafeInv, DataInv
<1> QED BY <1>5, <1>6, <1>7, <1>8, <1>9, <1>10, <1>11 DEF DataInv

LEMMA StampKeeps ==
    ASSUME NEW d, NEW epoch, NEW n, SoundAt(d, epoch, n), NEW stamp \in Nat
    PROVE  /\ SoundAt([d EXCEPT !.stamp = stamp], epoch, n)
           /\ [d EXCEPT !.stamp = stamp].epoch = d.epoch /\ [d EXCEPT !.stamp = stamp].stamp = stamp
           /\ [d EXCEPT !.stamp = stamp].state = d.state /\ [d EXCEPT !.stamp = stamp].barred = d.barred
BY DEF SoundAt

LEMMA EraseData == ASSUME ~StampsAnywhere, SafeInv, LedgerInv', Erase PROVE DataInv'
<1>0. /\ writer \in Writers /\ ident = [epoch |-> ident.epoch, erasures |-> ident.erasures]
      /\ ident.erasures \in Nat /\ manifest.lines \in Seq(Lines)
      /\ epochs \in Nat /\ saves \in Nat /\ Sound(db) /\ staged = [db |-> staged.db, files |-> staged.files]
  BY DEF SafeInv, DataInv, LedgerInv, LedgerTypes, Manifests, Numbers, StoresSound
<1>1. ASSUME NEW e \in Entities, EraseFiles(e) PROVE DataInv'
  <2>1. /\ UNCHANGED <<db, backups, manifest, kept, ident, pending, staged, request, epochs, saves, erased>>
        /\ erased \subseteq db.barred
        /\ writer' = [Idle EXCEPT !.op = "erase", !.step = "line", !.entity = e,
                                  !.digests = db.bytes \cap Own(e), !.live = Live(db, Tree, e)]
    BY <1>1 DEF EraseFiles
  <2> DEFINE digests == db.bytes \cap Own(e)
             live    == Live(db, Tree, e)
  <2>2. writer' = [Idle EXCEPT !.op = "erase", !.step = "line", !.entity = e,
                               !.digests = digests, !.live = live]
    BY <2>1
  <2> HIDE DEF digests, live
  <2>3. writer'.op = "erase" /\ writer'.step = "line" /\ writer'.entity = e /\ writer'.digests = digests
    BY <2>2 DEF Idle
  <2>4. WriterInv'
    BY <2>1, <2>3 DEF WriterInv, Step, digests
  <2>5. Light /\ SameStage /\ ~(Step("erase", "commit"))'
    BY <1>0, <2>1, <2>3 DEF Light, SameStage, Step
  <2> QED BY <2>1, <2>4, <2>5, WriterAlone
<1>2. CASE EraseLine
  <2>1. /\ UNCHANGED <<db, backups, kept, ident, pending, staged, request, epochs, saves, erased>>
        /\ writer.op = "erase" /\ writer' = [writer EXCEPT !.step = "count"]
        /\ manifest'.lines = Append(manifest.lines, [key |-> writer.entity, digests |-> writer.digests])
    BY <1>2 DEF EraseLine, Goto, Step, hist, count
  <2>2. /\ writer'.op = "erase" /\ writer'.step = "count"
        /\ writer'.entity = writer.entity /\ writer'.digests = writer.digests
    BY <1>0, <2>1, GotoIsWriter DEF Steps
  <2>3. Light /\ SameStage /\ Grown
    BY <1>0, <2>1, <2>2 DEF Light, SameStage, Grown
  <2>4. writer.digests \subseteq MintedAt(saves) /\ writer.digests = db.bytes \cap Own(writer.entity)
        /\ erased \subseteq db.barred
    BY <1>0, <2>1 DEF SafeInv, DataInv, WriterInv, Sound, SoundAt
  <2>5. [key |-> writer.entity, digests |-> writer.digests] \in Lines
    BY <1>0, <2>1 DEF SafeInv, LedgerInv, LedgerTypes, Lines, Writers
  <2>6. Digests(manifest'.lines) = Digests(manifest.lines) \cup writer.digests
    BY <1>0, <2>1, <2>5, AppendLine
  <2>7. LinesMinted'
    BY <2>1, <2>4, <2>6 DEF SafeInv, DataInv, LinesMinted
  <2>8. Numbers'
    BY <2>1 DEF SafeInv, DataInv, Numbers
  <2>9. StoresSound'
    BY <1>0, <2>1, <2>3, StoresStay DEF SafeInv, DataInv, Sound
  <2>10. PendingInv'
    BY <2>1, <2>3, PendingStays DEF SafeInv, DataInv
  <2>11. WriterInv'
    BY <2>1, <2>2, <2>4 DEF WriterInv, Step
  <2>12. CleanInv'
    BY <2>1, <2>2, CleanStays DEF SafeInv, DataInv, CleanInv, Clean, Agrees, Step
  <2>13. RequestInv'
    BY <2>1, <2>2, RequestStays DEF SafeInv, DataInv, Keeps, Step
  <2> QED BY <2>7, <2>8, <2>9, <2>10, <2>11, <2>12, <2>13 DEF DataInv
<1>3. CASE EraseCount
  <2>1. /\ UNCHANGED <<db, backups, manifest, kept, pending, staged, request, epochs, saves, erased>>
        /\ writer.op = "erase" /\ writer' = [writer EXCEPT !.step = "commit"]
        /\ ident' = [ident EXCEPT !.erasures = @ + 1]
    BY <1>3 DEF EraseCount, Goto, Step, hist, count
  <2>2. /\ writer'.op = "erase" /\ writer'.step = "commit"
        /\ writer'.entity = writer.entity /\ writer'.digests = writer.digests
    BY <1>0, <2>1, GotoIsWriter DEF Steps
  <2>3. ident'.epoch = ident.epoch /\ ident'.erasures = ident.erasures + 1
    BY <1>0, <2>1
  <2>4. Light /\ SameStage /\ Grown
    BY <1>0, <2>1, <2>2 DEF Light, SameStage, Grown
  <2>5. LinesMinted'
    BY <2>1, <2>4, LinesStay DEF SafeInv, DataInv
  <2>6. Numbers'
    BY <2>1, <2>3 DEF SafeInv, DataInv, Numbers
  <2>7. StoresSound'
    BY <1>0, <2>1, <2>4, StoresStay DEF SafeInv, DataInv, Sound
  <2>8. PendingInv'
    BY <2>1, <2>4, PendingStays DEF SafeInv, DataInv
  <2>9. WriterInv'
    BY <2>1, <2>2 DEF SafeInv, DataInv, WriterInv, Step
  <2>10. CleanInv'
    <3>1. erased \subseteq db.barred
      BY <2>1 DEF SafeInv, DataInv, WriterInv
    <3>2. Clean(db)'
      BY <2>1, <3>1 DEF Clean
    <3>3. staged.db # None => Sound(staged.db)
      BY DEF SafeInv, DataInv, StoresSound
    <3>4. staged.db # None => Clean(staged.db)'
      <4>1. staged.db # None => staged.db.stamp \in Nat
        BY <3>3 DEF Sound, SoundAt
      <4> QED BY <1>0, <2>1, <2>3, <4>1 DEF SafeInv, DataInv, CleanInv, Clean, Agrees
    <3>5. StagedOver => staged.db.stamp <= ident.erasures /\ staged.db.stamp \in Nat
      BY <3>3 DEF SafeInv, DataInv, CleanInv, StagedOver, Sound, SoundAt
    <3> QED BY <1>0, <2>1, <2>3, <3>2, <3>4, <3>5 DEF CleanInv, StagedOver
  <2>11. RequestInv'
    BY <2>1, <2>2, <2>3, RequestStays DEF SafeInv, DataInv, Keeps, Step
  <2> QED BY <2>5, <2>6, <2>7, <2>8, <2>9, <2>10, <2>11 DEF DataInv
<1>4. CASE EraseCommit
  <2> DEFINE rows == EraseRows(db, writer.entity, writer.live)
  <2>1. /\ UNCHANGED <<backups, manifest, kept, ident, pending, staged, request, epochs, saves>>
        /\ writer.op = "erase" /\ writer.step = "commit" /\ writer' = Idle
        /\ db' = [rows EXCEPT !.stamp = ident.erasures]
        /\ erased' = erased \cup writer.digests
    BY <1>4 DEF EraseCommit, Step, count
  <2>2. erased \subseteq db.barred /\ writer.digests = db.bytes \cap Own(writer.entity)
    BY <2>1 DEF SafeInv, DataInv, WriterInv
  <2>3. SoundAt(rows, epochs, saves) /\ Keeps(rows, db) /\ writer.digests \subseteq rows.barred
    BY <1>0, <2>2, EraseRowsKeeps DEF Sound
  <2> HIDE DEF rows
  <2>4. /\ SoundAt(db', epochs', saves') /\ db'.epoch = db.epoch /\ db'.state = db.state
        /\ erased' \subseteq db'.barred /\ db.barred \subseteq db'.barred
    BY <1>0, <2>1, <2>2, <2>3, StampKeeps DEF Keeps
  <2>5. Light /\ SameStage /\ Grown
    BY <1>0, <2>1, IdleIsWriter DEF Light, SameStage, Grown
  <2>6. LinesMinted'
    BY <2>1, <2>5, LinesStay DEF SafeInv, DataInv
  <2>7. Numbers'
    BY <2>1 DEF SafeInv, DataInv, Numbers
  <2>8. StoresSound'
    BY <2>1, <2>4, <2>5, StoresStay DEF SafeInv, DataInv
  <2>9. PendingInv'
    BY <2>1, <2>5, PendingStays DEF SafeInv, DataInv
  <2>10. WriterInv'
    BY <2>1, IdleIsWriter, WriterStays DEF SafeInv, DataInv
  <2>11. CleanInv'
    <3>1. Clean(db)'
      BY <2>4 DEF Clean
    <3>2. staged.db # None => staged.db.stamp \in Nat
      BY DEF SafeInv, DataInv, StoresSound, Sound, SoundAt
    <3>3. StagedOver => staged.db.stamp < ident.erasures
      BY <2>1 DEF SafeInv, DataInv, CleanInv, Step
    <3>4. staged.db # None => Clean(staged.db)'
      BY <1>0, <2>1, <3>2, <3>3 DEF Clean, Agrees, StagedOver
    <3>5. ~(Step("erase", "commit"))'
      BY <2>1, IdleIsWriter DEF Step
    <3> QED BY <1>0, <2>1, <3>1, <3>2, <3>3, <3>4, <3>5 DEF CleanInv, StagedOver
  <2>12. RequestInv'
    BY <2>1, <2>4, IdleIsWriter DEF SafeInv, DataInv, RequestInv, Asked, StagedOver, Step
  <2> QED BY <2>6, <2>7, <2>8, <2>9, <2>10, <2>11, <2>12 DEF DataInv
<1> QED BY <1>1, <1>2, <1>3, <1>4 DEF Erase

LEMMA BackupData == ASSUME SafeInv, Backup PROVE DataInv'
<1>0. /\ writer \in Writers /\ epochs \in Nat /\ saves \in Nat /\ Sound(db)
      /\ staged = [db |-> staged.db, files |-> staged.files] /\ backups = [b \in Dirs |-> backups[b]]
      /\ \A b \in Dirs : backups[b] # None => SoundBackup(backups[b])
  BY DEF SafeInv, DataInv, LedgerInv, LedgerTypes, Numbers, StoresSound
<1>1. ASSUME UNCHANGED <<db, manifest, kept, ident, pending, staged, request, epochs, saves, erased>>,
             writer'.op \in {"idle", "backup"}, StoresSound'
      PROVE  DataInv'
  <2>1. Numbers' /\ Grown
    BY <1>0, <1>1 DEF SafeInv, DataInv, Numbers, Grown
  <2>2. LinesMinted'
    BY <1>1, <2>1, LinesStay DEF SafeInv, DataInv
  <2>3. PendingInv'
    BY <1>1 DEF SafeInv, DataInv, PendingInv, Staging, Swapping, Step, StagedOver
  <2>4. WriterInv'
    BY <1>1, WriterStays DEF SafeInv, DataInv
  <2>5. CleanInv'
    BY <1>1, CleanStays DEF SafeInv, DataInv, CleanInv, Clean, Agrees, Step
  <2>6. RequestInv'
    BY <1>1, RequestStays DEF SafeInv, DataInv, Keeps, Step
  <2> QED BY <1>1, <2>1, <2>2, <2>3, <2>4, <2>5, <2>6 DEF DataInv
<1>2. ASSUME NEW b \in Dirs, BackupDatabase(b) PROVE DataInv'
  <2>1. /\ UNCHANGED <<db, manifest, kept, ident, pending, staged, request, epochs, saves, erased>>
        /\ backups' = [backups EXCEPT ![b] = [db |-> db, files |-> None]]
        /\ writer' = [Idle EXCEPT !.op = "backup", !.step = "files", !.dir = b]
    BY <1>2 DEF BackupDatabase, disk, hist, count
  <2>2. writer'.op = "backup" /\ writer'.step = "files" /\ writer'.dir = b
    BY <2>1 DEF Idle
  <2>3. /\ backups' = [x \in Dirs |-> backups'[x]] /\ backups'[b] = [db |-> db, files |-> None]
        /\ \A x \in Dirs : x # b => backups'[x] = backups[x]
    BY <1>0, <2>1
  <2>4. SoundBackup(backups'[b])
    BY <1>0, <2>3 DEF SoundBackup
  <2>5. ASSUME NEW x \in Dirs, backups'[x] # None PROVE SoundBackup(backups'[x])
    BY <1>0, <2>3, <2>4, <2>5
  <2>6. ASSUME NEW x, SoundBackup(x) PROVE x = [db |-> x.db, files |-> x.files] /\ SoundAt(x.db, epochs', saves')
    BY <2>1, <2>6 DEF SoundBackup, Sound
  <2>7. Sound(db)' /\ SoundAt(db', epochs', saves')
    BY <1>0, <2>1 DEF Sound
  <2>8. staged'.db # None => Sound(staged.db)'
    BY <2>1 DEF SafeInv, DataInv, StoresSound, Sound
  <2>9. StoresSound'
    BY <1>0, <2>1, <2>2, <2>3, <2>4, <2>5, <2>6, <2>7, <2>8 DEF StoresSound, SoundBackup, Sound, Step
  <2> QED BY <1>1, <2>1, <2>2, <2>9
<1>3. CASE BackupFiles
  <2>1. /\ UNCHANGED <<db, manifest, kept, ident, pending, staged, request, epochs, saves, erased>>
        /\ writer.op = "backup" /\ writer' = Idle
        /\ backups' = [backups EXCEPT ![writer.dir].files = Tree]
    BY <1>3 DEF BackupFiles, disk, hist, count, Step
  <2>2. writer.dir \in Dirs /\ SoundBackup(backups[writer.dir])
    BY <2>1 DEF SafeInv, DataInv, StoresSound
  <2>3. /\ backups' = [x \in Dirs |-> backups'[x]]
        /\ backups'[writer.dir] = [backups[writer.dir] EXCEPT !.files = Tree]
        /\ \A x \in Dirs : x # writer.dir => backups'[x] = backups[x]
    BY <1>0, <2>1, <2>2
  <2>4. SoundBackup(backups'[writer.dir])
    BY <2>2, <2>3 DEF SoundBackup
  <2>5. ASSUME NEW x \in Dirs, backups'[x] # None PROVE SoundBackup(backups'[x])
    BY <1>0, <2>3, <2>4, <2>5
  <2>6. ASSUME NEW x, SoundBackup(x) PROVE x = [db |-> x.db, files |-> x.files] /\ SoundAt(x.db, epochs', saves')
    BY <2>1, <2>6 DEF SoundBackup, Sound
  <2>7. Sound(db)'
    BY <1>0, <2>1 DEF Sound
  <2>8. staged'.db # None => Sound(staged.db)'
    BY <2>1 DEF SafeInv, DataInv, StoresSound, Sound
  <2>9. StoresSound'
    BY <1>0, <2>1, <2>3, <2>5, <2>6, <2>7, <2>8, IdleIsWriter DEF StoresSound, SoundBackup, Sound, Step
  <2> QED BY <1>1, <2>1, <2>9, IdleIsWriter
<1> QED BY <1>2, <1>3 DEF Backup

\* Staging: nothing but what is staged, its record, the identity and its epoch.
LEMMA StageData ==
    ASSUME SafeInv, LedgerInv', RestoreStage
    PROVE  DataInv'
<1> DEFINE source == backups[writer.dir]
<1>0. /\ writer \in Writers /\ epochs \in Nat /\ saves \in Nat /\ Sound(db)
      /\ ident.epoch <= epochs /\ request.epoch \in Nat /\ request.epoch <= epochs
      /\ writer.op = "restore" /\ writer.step = "stage" /\ SoundBackup(source)
      /\ db.epoch \in Nat /\ db.epoch <= epochs
  BY DEF SafeInv, DataInv, LedgerInv, LedgerTypes, Numbers, StoresSound, RestoreStage, Step, Sound, SoundAt
<1> DEFINE snapshot == source.db
           tree     == IF source.files = None THEN Empty ELSE source.files
<1>1. /\ UNCHANGED <<db, backups, manifest, kept, pending, request, saves, erased>>
      /\ staged' = [db |-> [snapshot EXCEPT !.state = "merging"], files |-> tree]
      /\ epochs' = epochs + 1
      /\ ident' = [epoch |-> epochs + 1, erasures |-> Counted(Source(writer.file))]
      /\ writer' = [writer EXCEPT !.step = "merge"]
  BY DEF RestoreStage, Goto, hist
<1>2. Sound(snapshot)
  BY <1>0 DEF SoundBackup
<1> HIDE DEF snapshot, tree, source
<1>3. writer'.op = "restore" /\ writer'.step = "merge"
  BY <1>0, <1>1, GotoIsWriter DEF Steps
<1>4. Grown
  BY <1>0, <1>1 DEF Grown
<1>5. /\ staged' = [db |-> staged'.db, files |-> staged'.files] /\ staged'.db.state = "merging"
      /\ SoundAt(staged'.db, epochs', saves')
  <2>1. SoundAt(snapshot, epochs', saves')
    BY <1>2, <1>4, SoundLasts DEF SafeInv, DataInv
  <2>2. SoundAt([snapshot EXCEPT !.state = "merging"], epochs', saves')
        /\ [snapshot EXCEPT !.state = "merging"].state = "merging"
    BY <2>1 DEF SoundAt
  <2> QED BY <1>1, <2>2
<1>6. Numbers'
  BY <1>0, <1>1 DEF SafeInv, DataInv, Numbers
<1>7. LinesMinted'
  BY <1>1, <1>4, LinesStay DEF SafeInv, DataInv
<1>8. StoresSound'
  <2>1. Sound(db)'
    BY <1>0, <1>1, <1>4, SoundLasts DEF SafeInv, DataInv, Sound
  <2>2. Sound(staged.db)'
    BY <1>5 DEF Sound
  <2>3. ASSUME NEW b \in Dirs, backups[b] # None PROVE SoundBackup(backups[b])'
    <3>1. SoundBackup(backups[b])
      BY <2>3 DEF SafeInv, DataInv, StoresSound
    <3>2. SoundAt(backups[b].db, epochs', saves')
      BY <1>4, <3>1, SoundLasts DEF SafeInv, DataInv, SoundBackup
    <3> QED BY <1>1, <3>1, <3>2 DEF SoundBackup, Sound
  <2>4. backups' = [b \in Dirs |-> backups'[b]]
    BY <1>1 DEF SafeInv, DataInv, StoresSound
  <2> QED BY <1>1, <1>3, <1>5, <2>1, <2>2, <2>3, <2>4 DEF StoresSound, Step
<1>9. PendingInv'
  BY <1>0, <1>1, <1>3 DEF SafeInv, DataInv, PendingInv, Staging, Swapping, Step, StagedOver
<1>10. WriterInv'
  BY <1>3, WriterStays DEF SafeInv, DataInv
<1>11. CleanInv'
  <2>1. ident'.epoch = epochs + 1
    BY <1>1
  <2>2. db'.epoch # ident'.epoch
    BY <1>0, <1>1, <2>1
  <2> QED BY <1>1, <1>5, <2>2 DEF CleanInv, Clean, Agrees, StagedOver
<1>12. RequestInv'
  <2>1. ident'.epoch # request'.epoch
    BY <1>0, <1>1
  <2> QED BY <1>1, <1>5, <2>1 DEF SafeInv, DataInv, RequestInv, Asked, StagedOver
<1> QED BY <1>6, <1>7, <1>8, <1>9, <1>10, <1>11, <1>12 DEF DataInv

LEMMA MergeStagedData ==
    ASSUME SafeInv, LedgerInv', RestoreMerge
    PROVE  DataInv'
<1> DEFINE found  == Source(writer.file)
           merged == LinesInto(staged, found.lines)
           state  == IF Established(found) THEN "none" ELSE "unknown"
<1>0. /\ writer \in Writers /\ epochs \in Nat /\ saves \in Nat /\ Sound(db) /\ Sound(staged.db)
      /\ ident.epoch \in Nat /\ ident.epoch <= epochs /\ ident.erasures \in Nat
      /\ writer.op = "restore" /\ writer.step = "merge" /\ (writer.file => kept # None)
  BY DEF SafeInv, DataInv, LedgerInv, LedgerTypes, Numbers, StoresSound, RestoreMerge, Step
<1>1. /\ UNCHANGED <<db, backups, manifest, kept, ident, pending, request, epochs, saves, erased>>
      /\ staged' = [merged EXCEPT !.db.epoch = ident.epoch, !.db.stamp = ident.erasures, !.db.state = state]
      /\ writer' = [writer EXCEPT !.step = "keep"]
  BY DEF RestoreMerge, Goto, hist, count
<1>2. Digests(found.lines) \subseteq MintedAt(saves)
  BY <1>0 DEF SafeInv, DataInv, LinesMinted, Source
<1>3. Established(found) => erased \subseteq Digests(found.lines)
  <2>1. Len(manifest.lines) >= ident.erasures => erased \subseteq Digests(manifest.lines)
    BY <1>0, LongEnoughCovers DEF SafeInv
  <2>2. kept # None /\ Len(kept.lines) >= ident.erasures => erased \subseteq Digests(kept.lines)
    BY <1>0, LongEnoughCovers DEF SafeInv
  <2> QED BY <1>0, <2>1, <2>2 DEF Source, Established
<1>4. /\ merged = [db |-> merged.db, files |-> merged.files]
      /\ SoundAt(merged.db, epochs, saves) /\ Digests(found.lines) \subseteq merged.db.barred
  BY <1>0, <1>2, LinesIntoKeeps DEF Sound
<1>5. PICK m, v : m = merged.db /\ v = state
  OBVIOUS
<1>6. staged' = [db |-> [m EXCEPT !.epoch = ident.epoch, !.stamp = ident.erasures, !.state = v],
                 files |-> merged.files]
  BY <1>1, <1>4, <1>5
<1>7. SoundAt(m, epochs, saves) /\ Digests(found.lines) \subseteq m.barred
  BY <1>4, <1>5
<1>8. v # "merging" /\ (v = "none" => erased \subseteq Digests(found.lines))
  BY <1>3, <1>5
<1> HIDE DEF merged, state, found
<1>9. PICK d : d = [m EXCEPT !.epoch = ident.epoch, !.stamp = ident.erasures, !.state = v]
  OBVIOUS
<1>19. SoundAt(d, epochs, saves) /\ d.epoch = ident.epoch /\ d.stamp = ident.erasures
       /\ d.state = v /\ d.barred = m.barred
  <2>1. d = [epoch |-> ident.epoch, stamp |-> ident.erasures, state |-> v, row |-> m.row,
             feed |-> m.feed, bytes |-> m.bytes, barred |-> m.barred]
    BY <1>7, <1>9 DEF SoundAt
  <2> QED BY <1>0, <1>7, <2>1 DEF SoundAt
<1>20. /\ staged' = [db |-> staged'.db, files |-> staged'.files] /\ SoundAt(staged'.db, epochs, saves)
       /\ staged'.db.epoch = ident.epoch /\ staged'.db.stamp = ident.erasures /\ staged'.db.state # "merging"
       /\ staged'.db.state = "none" => erased \subseteq staged'.db.barred
  <2>1. staged'.db = d /\ staged' = [db |-> staged'.db, files |-> staged'.files]
    BY <1>6, <1>9
  <2> QED BY <1>7, <1>8, <1>19, <2>1
<1>10. writer'.op = "restore" /\ writer'.step = "keep"
  BY <1>0, <1>1, GotoIsWriter DEF Steps
<1>11. Grown
  BY <1>0, <1>1 DEF Grown
<1>12. Numbers'
  BY <1>1 DEF SafeInv, DataInv, Numbers
<1>13. LinesMinted'
  BY <1>1, <1>11, LinesStay DEF SafeInv, DataInv
<1>14. StoresSound'
  BY <1>1, <1>20, <1>10 DEF SafeInv, DataInv, StoresSound, Sound, SoundBackup, Step
<1>15. PendingInv'
  BY <1>0, <1>1, <1>20, <1>10 DEF SafeInv, DataInv, PendingInv, Staging, Swapping, Step, StagedOver
<1>16. WriterInv'
  BY <1>10, WriterStays DEF SafeInv, DataInv
<1>17. CleanInv'
  <2>1. Clean(db)'
    BY <1>1 DEF SafeInv, DataInv, CleanInv, Clean, Agrees
  <2>2. Clean(staged.db)'
    BY <1>1, <1>20 DEF Clean
  <2>3. staged'.db.stamp <= ident'.erasures /\ ~(Step("erase", "commit"))'
    BY <1>0, <1>1, <1>20, <1>10 DEF Step
  <2> QED BY <2>1, <2>2, <2>3 DEF CleanInv
<1>18. RequestInv'
  BY <1>0, <1>1, <1>20, <1>10 DEF SafeInv, DataInv, RequestInv, Asked, StagedOver, Step
<1> QED BY <1>12, <1>13, <1>14, <1>15, <1>16, <1>17, <1>18 DEF DataInv

\* A step of a restore that leaves the database alone, and what is staged or drops it.
LEMMA RestoreMoves ==
    ASSUME SafeInv, UNCHANGED <<db, backups, manifest, kept, ident, request, erased, epochs, saves>>,
           staged' = [db |-> staged'.db, files |-> staged'.files],
           staged'.db # None => staged'.db = staged.db,
           writer'.op \in {"idle", "restore"}, ~(Step("restore", "merge"))',
           (Step("restore", "stage"))' => writer'.dir \in Dirs /\ SoundBackup(backups[writer'.dir]),
           PendingInv'
    PROVE  DataInv'
<1>1. Numbers' /\ Grown
  BY DEF SafeInv, DataInv, Numbers, Grown
<1>2. LinesMinted'
  BY <1>1, LinesStay DEF SafeInv, DataInv
<1>3. StoresSound'
  <2>1. /\ Sound(db) /\ (staged.db # None => Sound(staged.db)) /\ backups = [b \in Dirs |-> backups[b]]
        /\ \A b \in Dirs : backups[b] # None => SoundBackup(backups[b])
    BY DEF SafeInv, DataInv, StoresSound
  <2>2. ASSUME NEW b, SoundBackup(b) PROVE b = [db |-> b.db, files |-> b.files] /\ SoundAt(b.db, epochs', saves')
    BY <2>2 DEF SoundBackup, Sound
  <2>3. \A b \in Dirs : backups'[b] # None => SoundBackup(backups[b])'
    BY <2>1, <2>2 DEF SoundBackup, Sound
  <2>4. (Step("restore", "stage"))' => writer'.dir \in Dirs /\ SoundBackup(backups[writer.dir])'
    BY <2>2 DEF SoundBackup, Sound
  <2>5. Sound(db)' /\ (staged'.db # None => Sound(staged.db)')
    BY <2>1 DEF Sound
  <2> QED BY <2>1, <2>3, <2>4, <2>5 DEF StoresSound
<1>4. WriterInv'
  BY WriterStays DEF SafeInv, DataInv
<1>5. CleanInv'
  <2>1. Clean(db)' /\ (staged'.db # None => Clean(staged.db)')
    BY DEF SafeInv, DataInv, CleanInv, Clean, Agrees
  <2>2. ~(Step("erase", "commit"))'
    BY DEF Step
  <2> QED BY <2>1, <2>2 DEF SafeInv, DataInv, CleanInv, StagedOver
<1>6. RequestInv'
  BY DEF SafeInv, DataInv, RequestInv, Asked, StagedOver
<1> QED BY <1>1, <1>2, <1>3, <1>4, <1>5, <1>6 DEF DataInv

LEMMA RestoreData == ASSUME SafeInv, LedgerInv', Restore PROVE DataInv'
<1>0. /\ writer \in Writers /\ epochs \in Nat /\ saves \in Nat
      /\ staged = [db |-> staged.db, files |-> staged.files] /\ PendingInv
      /\ \A b \in Dirs : backups[b] # None => SoundBackup(backups[b])
  BY DEF SafeInv, DataInv, LedgerInv, LedgerTypes, Numbers, StoresSound
<1>1. ASSUME NEW b \in Dirs, NEW named \in BOOLEAN, RestoreBegin(b, named) PROVE DataInv'
  <2>1. /\ UNCHANGED <<db, backups, manifest, kept, ident, request, erased, epochs, saves>>
        /\ staged' = NoStage /\ pending' = [phase |-> "staging", source |-> b] /\ backups[b] # None
        /\ writer' = [Idle EXCEPT !.op = "restore", !.step = "stage", !.dir = b, !.file = named]
    BY <1>1 DEF RestoreBegin, hist, count
  <2>2. writer'.op = "restore" /\ writer'.step = "stage" /\ writer'.dir = b
    BY <2>1 DEF Idle
  <2>3. staged'.db = None /\ staged' = [db |-> staged'.db, files |-> staged'.files]
    BY <2>1 DEF NoStage
  <2>4. pending' # None /\ pending'.phase = "staging" /\ pending' \in [phase : {"staging", "swapping"}, source : Dirs]
    BY <2>1, EraseAssumption DEF EraseAssumption
  <2>5. PendingInv'
    BY <2>2, <2>3, <2>4 DEF PendingInv, Staging, Swapping, Step
  <2> QED BY <1>0, <2>1, <2>2, <2>3, <2>5, RestoreMoves DEF Step
<1>2. CASE RestoreKeep
  <2>1. /\ UNCHANGED <<db, backups, manifest, kept, ident, request, erased, epochs, saves, staged>>
        /\ writer.op = "restore" /\ writer.step = "keep" /\ writer' = [writer EXCEPT !.step = "aside"]
        /\ pending' = [pending EXCEPT !.phase = "swapping"]
    BY <1>2 DEF RestoreKeep, Goto, Step, count
  <2>2. writer'.op = "restore" /\ writer'.step = "aside"
    BY <1>0, <2>1, GotoIsWriter DEF Steps
  <2>3. pending \in [phase : {"staging", "swapping"}, source : Dirs]
    BY <1>0, <2>1 DEF PendingInv, Staging
  <2>4. pending' # None /\ pending'.phase = "swapping" /\ pending' \in [phase : {"staging", "swapping"}, source : Dirs]
    BY <2>1, <2>3, EraseAssumption DEF EraseAssumption
  <2>5. staged.db # None => StagedOver
    BY <1>0, <2>1 DEF PendingInv, Step
  <2>6. PendingInv'
    BY <2>1, <2>2, <2>4, <2>5 DEF PendingInv, Staging, Swapping, Step, StagedOver
  <2> QED BY <1>0, <2>1, <2>2, <2>6, RestoreMoves DEF Step
<1>3. CASE RestoreFail
  <2>1. /\ UNCHANGED <<db, backups, manifest, kept, ident, request, erased, epochs, saves>>
        /\ staged' = NoStage /\ pending' = None /\ writer' = Idle
    BY <1>3 DEF RestoreFail, hist, count
  <2>2. staged'.db = None /\ staged' = [db |-> staged'.db, files |-> staged'.files]
    BY <2>1 DEF NoStage
  <2>3. PendingInv'
    BY <2>1, <2>2, IdleIsWriter DEF PendingInv, Staging, Swapping, Step
  <2> QED BY <2>1, <2>2, <2>3, IdleIsWriter, RestoreMoves DEF Step
<1>4. ASSUME NEW b \in Dirs, RestoreResume(b) PROVE DataInv'
  <2>1. /\ UNCHANGED <<db, backups, manifest, kept, ident, request, erased, epochs, saves, staged, pending>>
        /\ pending # None /\ pending.phase = "swapping"
        /\ writer' = [Idle EXCEPT !.op = "restore", !.step = "aside", !.dir = b]
    BY <1>4 DEF RestoreResume, disk, hist, count
  <2>2. writer'.op = "restore" /\ writer'.step = "aside"
    BY <2>1 DEF Idle
  <2>3. PendingInv'
    BY <1>0, <2>1, <2>2 DEF PendingInv, Staging, Swapping, Step, StagedOver
  <2> QED BY <1>0, <2>1, <2>2, <2>3, RestoreMoves DEF Step
<1>5. ASSUME UNCHANGED <<db, backups, manifest, kept, ident, request, erased, epochs, saves, pending>>,
             staged' = [db |-> staged'.db, files |-> staged'.files], Swapping,
             writer' = Idle \/ \E step \in {"aside", "in", "install", "drop", "finish"} :
                                 writer' = [writer EXCEPT !.step = step],
             staged'.db = staged.db \/ staged'.db = None,
             (Step("restore", "finish"))' => staged'.db = None
      PROVE  DataInv'
  <2>1. /\ writer'.op \in {"idle", "restore"} /\ ~(Step("restore", "merge"))' /\ ~(Step("restore", "stage"))'
        /\ ~Staging' /\ ~(Step("restore", "keep"))'
    <3>1. CASE writer' = Idle
      BY <3>1, IdleIsWriter DEF Step, Staging
    <3>2. ASSUME NEW step \in {"aside", "in", "install", "drop", "finish"}, writer' = [writer EXCEPT !.step = step]
          PROVE  writer'.op = "restore" /\ writer'.step = step
      <4>1. step \in Steps
        BY DEF Steps
      <4> QED BY <1>0, <1>5, <3>2, <4>1, GotoIsWriter DEF Swapping
    <3>3. CASE writer'.op = "restore" /\ writer'.step \in {"aside", "in", "install", "drop", "finish"}
      BY <3>3 DEF Step, Staging
    <3> QED BY <1>5, <3>1, <3>2, <3>3
  <2>2. PendingInv'
    BY <1>0, <1>5, <2>1 DEF PendingInv, StagedOver
  <2> QED BY <1>5, <2>1, <2>2, RestoreMoves
<1>6. CASE SwapAside
  <2>1. UNCHANGED <<db, backups, manifest, kept, ident, request, erased, epochs, saves, pending, staged>>
        /\ Swapping
    BY <1>6 DEF SwapAside, hist, count, Swapping, Step
  <2>2. writer' = Idle \/ writer' = [writer EXCEPT !.step = "in"] \/ writer' = [writer EXCEPT !.step = "install"]
    BY <1>6, Zenon DEF SwapAside, Goto
  <2>3. ~(Step("restore", "finish"))'
    BY <1>0, <2>2, GotoIsWriter, IdleIsWriter DEF Step, Steps
  <2> QED BY <1>0, <1>5, <2>1, <2>2, <2>3
<1>7. CASE SwapIn
  <2>1. UNCHANGED <<db, backups, manifest, kept, ident, request, erased, epochs, saves, pending>>
        /\ Swapping /\ staged' = [staged EXCEPT !.files = None] /\ writer' = [writer EXCEPT !.step = "install"]
    BY <1>7 DEF SwapIn, hist, count, Swapping, Step, Goto
  <2>2. staged' = [db |-> staged'.db, files |-> staged'.files] /\ staged'.db = staged.db
    BY <1>0, <2>1
  <2>3. ~(Step("restore", "finish"))'
    BY <1>0, <2>1, GotoIsWriter DEF Step, Steps
  <2> QED BY <1>5, <2>1, <2>2, <2>3
<1>8. CASE SwapDrop
  <2>1. UNCHANGED <<db, backups, manifest, kept, ident, request, erased, epochs, saves, pending>>
        /\ Swapping /\ staged' = [staged EXCEPT !.db = None] /\ writer' = [writer EXCEPT !.step = "finish"]
    BY <1>8 DEF SwapDrop, hist, count, Swapping, Step, Goto
  <2>2. staged' = [db |-> staged'.db, files |-> staged'.files] /\ staged'.db = None
    BY <1>0, <2>1
  <2> QED BY <1>5, <2>1, <2>2
<1>9. CASE SwapFinish
  <2>1. UNCHANGED <<db, backups, manifest, kept, ident, request, erased, epochs, saves, staged>>
        /\ writer.op = "restore" /\ writer.step = "finish" /\ pending' = None /\ writer' = Idle
    BY <1>9 DEF SwapFinish, count, Step
  <2>2. staged.db = None
    BY <1>0, <2>1 DEF PendingInv, Step
  <2>3. PendingInv'
    BY <2>1, <2>2, IdleIsWriter DEF PendingInv, Staging, Swapping, Step
  <2> QED BY <1>0, <2>1, <2>2, <2>3, IdleIsWriter, RestoreMoves DEF Step
<1>10. CASE SwapInstall
  <2>1. /\ UNCHANGED <<backups, manifest, kept, ident, request, erased, epochs, saves, pending, staged>>
        /\ db' = IF staged.db = None THEN db ELSE staged.db
        /\ writer.op = "restore" /\ writer.step = "install" /\ writer' = [writer EXCEPT !.step = "drop"]
    BY <1>10 DEF SwapInstall, hist, count, Step, Goto
  <2>2. writer'.op = "restore" /\ writer'.step = "drop"
    BY <1>0, <2>1, GotoIsWriter DEF Steps
  <2>3. staged.db # None => StagedOver /\ Sound(staged.db) /\ Clean(staged.db)
    BY <2>1 DEF SafeInv, DataInv, PendingInv, Swapping, Step, StoresSound, CleanInv
  <2>4. Grown /\ Numbers'
    BY <2>1 DEF SafeInv, DataInv, Numbers, Grown
  <2>5. LinesMinted'
    BY <2>1, <2>4, LinesStay DEF SafeInv, DataInv
  <2>6. StoresSound'
    <3>1. Sound(db)'
      BY <2>1, <2>3 DEF SafeInv, DataInv, StoresSound, Sound
    <3>2. ASSUME NEW b \in Dirs, backups[b] # None PROVE SoundBackup(backups[b])'
      BY <1>0, <2>1, <3>2 DEF SoundBackup, Sound
    <3> QED BY <2>1, <2>2, <3>1, <3>2 DEF SafeInv, DataInv, StoresSound, Sound, Step
  <2>7. PendingInv'
    BY <1>0, <2>1, <2>2 DEF PendingInv, Staging, Swapping, Step, StagedOver
  <2>8. WriterInv'
    BY <2>2, WriterStays DEF SafeInv, DataInv
  <2>9. CleanInv'
    <3>1. Clean(db)'
      BY <2>1, <2>3 DEF SafeInv, DataInv, CleanInv, Clean, Agrees
    <3> QED BY <2>1, <2>2, <3>1, CleanStays DEF SafeInv, DataInv, Step
  <2>10. RequestInv'
    BY <2>1, <2>2, <2>3 DEF SafeInv, DataInv, RequestInv, Asked, StagedOver, Step
  <2> QED BY <2>4, <2>5, <2>6, <2>7, <2>8, <2>9, <2>10 DEF DataInv
<1> QED BY <1>1, <1>2, <1>3, <1>4, <1>6, <1>7, <1>8, <1>9, <1>10, StageData, MergeStagedData DEF Restore

LEMMA MergeData == ASSUME SafeInv, LedgerInv', Merge PROVE DataInv'
<1>0. /\ writer \in Writers /\ epochs \in Nat /\ saves \in Nat /\ Sound(db)
      /\ staged = [db |-> staged.db, files |-> staged.files]
      /\ ident.erasures \in Nat /\ manifest.lines \in Seq(Lines)
  BY DEF SafeInv, DataInv, LedgerInv, LedgerTypes, Manifests, Numbers, StoresSound
<1>4. Grown
  BY <1>0 DEF Merge, MergeInstall, MergeLines, MergeClear, Grown, count
<1>1. CASE MergeInstall
  <2>1. /\ UNCHANGED <<db, backups, kept, ident, pending, staged, request, erased, epochs, saves>>
        /\ kept # None /\ Len(kept.lines) >= ident.erasures
        /\ manifest' = kept /\ writer' = [Idle EXCEPT !.op = "merge", !.step = "lines"]
    BY <1>1 DEF MergeInstall, Established, hist, count
  <2>2. writer'.op = "merge" /\ writer'.step = "lines" /\ Light /\ SameStage
    BY <1>0, <2>1 DEF Idle, Light, SameStage
  <2>3. erased \subseteq Digests(kept.lines)
    BY <1>1, <2>1, IdleIsWriter, LongEnoughCovers DEF SafeInv, MergeInstall, Free
  <2>4. LinesMinted'
    BY <2>1 DEF SafeInv, DataInv, LinesMinted
  <2>5. WriterInv'
    BY <2>1, <2>2, <2>3 DEF WriterInv, Step
  <2>6. Numbers' /\ StoresSound' /\ PendingInv'
    <3>1. Numbers' /\ SoundAt(db', epochs', saves')
      BY <1>0, <2>1 DEF SafeInv, DataInv, Numbers, Sound
    <3> QED BY <1>0, <1>4, <2>1, <2>2, <3>1, StoresStay, PendingStays DEF SafeInv, DataInv
  <2>7. CleanInv'
    BY <2>1, <2>2, CleanStays DEF SafeInv, DataInv, CleanInv, Clean, Agrees, Step
  <2>8. RequestInv'
    BY <2>1, <2>2, RequestStays DEF SafeInv, DataInv, Keeps, Step
  <2> QED BY <2>4, <2>5, <2>6, <2>7, <2>8 DEF DataInv
<1>2. CASE MergeLines
  <2> DEFINE merged == LinesInto([db |-> db, files |-> Tree], manifest.lines)
  <2>1. /\ UNCHANGED <<backups, manifest, kept, ident, pending, staged, request, erased, epochs, saves>>
        /\ db' = merged.db /\ writer.op = "merge" /\ writer.step = "lines"
        /\ writer' = [writer EXCEPT !.step = "clear"]
    BY <1>2 DEF MergeLines, Goto, Step, hist, count
  <2>2. writer'.op = "merge" /\ writer'.step = "clear" /\ Light /\ SameStage
    BY <1>0, <2>1, GotoIsWriter DEF Steps, Light, SameStage
  <2>3. erased \subseteq Digests(manifest.lines) /\ Digests(manifest.lines) \subseteq MintedAt(saves)
    BY <2>1 DEF SafeInv, DataInv, WriterInv, Step, LinesMinted
  <2>4. SoundAt(merged.db, epochs, saves) /\ Keeps(merged.db, db) /\ Digests(manifest.lines) \subseteq merged.db.barred
    <3> DEFINE at == [db |-> db, files |-> Tree]
    <3>1. at.db = db
      OBVIOUS
    <3>2. SoundAt(at.db, epochs, saves)
      BY <1>0 DEF Sound
    <3> HIDE DEF at
    <3>3. SoundAt(LinesInto(at, manifest.lines).db, epochs, saves)
          /\ Keeps(LinesInto(at, manifest.lines).db, at.db)
          /\ Digests(manifest.lines) \subseteq LinesInto(at, manifest.lines).db.barred
      BY <1>0, <2>3, <3>2, LinesIntoKeeps
    <3> QED BY <3>1, <3>3 DEF at
  <2> HIDE DEF merged
  <2>5. SoundAt(db', epochs', saves') /\ Keeps(db', db) /\ erased \subseteq db'.barred
    BY <2>1, <2>3, <2>4
  <2>6. WriterInv'
    BY <2>1, <2>2, <2>5 DEF WriterInv, Step
  <2>7. Numbers' /\ StoresSound' /\ PendingInv' /\ LinesMinted'
    <3>1. Numbers'
      BY <2>1 DEF SafeInv, DataInv, Numbers
    <3> QED BY <1>0, <1>4, <2>1, <2>2, <2>5, <3>1, StoresStay, PendingStays, LinesStay DEF SafeInv, DataInv
  <2>8. CleanInv'
    <3>1. Clean(db)' /\ ~(Step("erase", "commit"))'
      BY <2>1, <2>2, <2>5 DEF Clean, Step
    <3> QED BY <2>1, <3>1, CleanStays DEF SafeInv, DataInv
  <2>9. RequestInv'
    BY <2>1, <2>2, <2>5, RequestStays DEF SafeInv, DataInv, Step
  <2> QED BY <2>6, <2>7, <2>8, <2>9 DEF DataInv
<1>3. CASE MergeClear
  <2>1. /\ UNCHANGED <<backups, manifest, kept, ident, pending, staged, request, erased, epochs, saves>>
        /\ db' = [db EXCEPT !.stamp = Counted(manifest), !.state = "none"]
        /\ writer.op = "merge" /\ writer.step = "clear" /\ writer' = Idle
    BY <1>3 DEF MergeClear, Step, hist, count
  <2>2. Counted(manifest) \in Nat
    BY <1>0, CountedIsLarger
  <2>3. erased \subseteq db.barred
    BY <2>1 DEF SafeInv, DataInv, WriterInv, Step
  <2>4. db' = [epoch |-> db.epoch, stamp |-> Counted(manifest), state |-> "none", row |-> db.row,
               feed |-> db.feed, bytes |-> db.bytes, barred |-> db.barred]
    BY <1>0, <2>1 DEF Sound, SoundAt
  <2>5. SoundAt(db', epochs', saves') /\ db'.epoch = db.epoch /\ db'.state = "none" /\ db'.barred = db.barred
    BY <1>0, <2>1, <2>2, <2>4 DEF Sound, SoundAt
  <2>6. writer'.op = "idle" /\ writer'.step = "idle" /\ Light /\ SameStage
    BY <1>0, <2>1, IdleIsWriter DEF Light, SameStage
  <2>7. Numbers' /\ StoresSound' /\ PendingInv' /\ LinesMinted' /\ WriterInv'
    <3>1. Numbers'
      BY <2>1 DEF SafeInv, DataInv, Numbers
    <3> QED BY <1>0, <1>4, <2>1, <2>5, <2>6, <3>1, StoresStay, PendingStays, LinesStay, WriterStays DEF SafeInv, DataInv
  <2>8. CleanInv'
    <3>1. Clean(db)' /\ ~(Step("erase", "commit"))'
      BY <2>1, <2>3, <2>5, <2>6 DEF Clean, Step
    <3> QED BY <2>1, <3>1, CleanStays DEF SafeInv, DataInv
  <2>9. RequestInv'
    BY <2>1, <2>5, <2>6 DEF SafeInv, DataInv, RequestInv, Asked, StagedOver, Step
  <2> QED BY <2>7, <2>8, <2>9 DEF DataInv
<1> QED BY <1>1, <1>2, <1>3 DEF Merge


\* The request alone.
LEMMA RequestAlone ==
    ASSUME SafeInv, UNCHANGED <<disk, backups, kept, writer, erased, epochs, saves>>,
           request' = [step |-> request'.step, epoch |-> request'.epoch],
           request'.epoch \in Nat, request'.epoch <= epochs, RequestInv'
    PROVE  DataInv'
<1>1. Numbers' /\ Grown /\ Light /\ SameStage
  BY DEF SafeInv, DataInv, Numbers, Grown, Light, SameStage, StoresSound, disk
<1>2. StoresSound'
  BY <1>1, StoresStay DEF SafeInv, DataInv, StoresSound, Sound, disk
<1>3. LinesMinted' /\ PendingInv' /\ WriterInv'
  BY <1>1, LinesStay, PendingStays, WriterStays DEF SafeInv, DataInv, disk
<1>4. CleanInv'
  BY CleanStays DEF SafeInv, DataInv, CleanInv, Clean, Agrees, disk
<1> QED BY <1>1, <1>2, <1>3, <1>4 DEF DataInv

LEMMA RequestData == ASSUME SafeInv, LedgerInv', Request PROVE DataInv'
<1>0. /\ writer \in Writers /\ epochs \in Nat /\ saves \in Nat /\ Sound(db)
      /\ staged = [db |-> staged.db, files |-> staged.files] /\ PendingInv
      /\ ident.erasures \in Nat /\ manifest.lines \in Seq(Lines)
      /\ ident.epoch \in Nat /\ ident.epoch <= epochs
      /\ db.epoch \in Nat /\ db.epoch <= epochs /\ request.epoch \in Nat /\ request.epoch <= epochs
      /\ request = [step |-> request.step, epoch |-> request.epoch]
  BY DEF SafeInv, DataInv, LedgerInv, LedgerTypes, Manifests, Numbers, StoresSound, Sound, SoundAt
<1>1. CASE RequestCheck
  <2>1. /\ UNCHANGED <<disk, backups, kept, writer, erased, epochs, saves>>
        /\ pending = None /\ db.state = "none" /\ request' = [step |-> "checked", epoch |-> db.epoch]
    BY <1>1 DEF RequestCheck, Verified, hist, count
  <2>2. staged.db = None /\ ~Step("restore", "merge")
    BY <1>0, <2>1 DEF PendingInv, Staging, Step
  <2>3. RequestInv'
    BY <2>1, <2>2 DEF RequestInv, Asked, StagedOver, Step, disk
  <2> QED BY <1>0, <2>1, <2>3, RequestAlone
<1>2. CASE RequestCurrent
  <2>1. /\ UNCHANGED <<disk, backups, kept, writer, erased, epochs, saves>>
        /\ Agrees(db) /\ request.step = "checked" /\ request' = [request EXCEPT !.step = "admitted"]
    BY <1>2 DEF RequestCurrent, hist, count
  <2>2. request'.step = "admitted" /\ request'.epoch = request.epoch
    BY <1>0, <2>1
  <2>3. db.epoch = request.epoch => erased \subseteq db.barred
    BY <2>1 DEF SafeInv, DataInv, RequestInv, CleanInv, Clean
  <2>4. RequestInv'
    BY <2>1, <2>2, <2>3 DEF SafeInv, DataInv, RequestInv, Asked, StagedOver, Step, disk
  <2> QED BY <1>0, <2>1, <2>2, <2>4, RequestAlone
<1>3. CASE RequestRead
  <2>1. /\ UNCHANGED <<disk, backups, kept, writer, erased, epochs, saves>>
        /\ request' = [step |-> "idle", epoch |-> 0]
    BY <1>3 DEF RequestRead, NoRequest, count
  <2>2. RequestInv'
    BY <2>1 DEF RequestInv, Asked
  <2> QED BY <1>0, <2>1, <2>2, RequestAlone
<1>4. CASE RepairDatabase
  <2>1. /\ UNCHANGED <<backups, manifest, kept, ident, pending, staged, erased, saves>>
        /\ epochs' = epochs + 1 /\ writer = Idle
        /\ db' = [Bar(db, Digests(manifest.lines)) EXCEPT
                   !.epoch = epochs + 1, !.stamp = Counted(manifest),
                   !.state = IF Established(manifest) THEN "none" ELSE "unknown"]
        /\ writer' = [Idle EXCEPT !.op = "repair", !.step = "rotate"]
        /\ request' = [request EXCEPT !.step = "repairing"]
    BY <1>4 DEF RepairDatabase, Free
  <2>2. writer'.op = "repair" /\ writer'.step = "rotate" /\ Light /\ SameStage /\ Grown
    BY <1>0, <2>1 DEF Idle, Light, SameStage, Grown
  <2>3. Established(manifest) => erased \subseteq Digests(manifest.lines)
    BY <2>1, IdleIsWriter, LongEnoughCovers DEF SafeInv, Established
  <2>4. Digests(manifest.lines) \subseteq MintedAt(saves)
    BY DEF SafeInv, DataInv, LinesMinted
  <2>5. PICK b, v : b = Bar(db, Digests(manifest.lines)) /\ v = IF Established(manifest) THEN "none" ELSE "unknown"
    OBVIOUS
  <2>6. SoundAt(b, epochs, saves) /\ Digests(manifest.lines) \subseteq b.barred
    BY <1>0, <2>4, <2>5, BarKeeps DEF Sound
  <2>7. v = "none" => erased \subseteq Digests(manifest.lines)
    BY <2>3, <2>5
  <2>8. Counted(manifest) \in Nat
    BY <1>0, CountedIsLarger
  <2>9. db' = [epoch |-> epochs + 1, stamp |-> Counted(manifest), state |-> v, row |-> b.row,
               feed |-> b.feed, bytes |-> b.bytes, barred |-> b.barred]
    <3>1. db' = [b EXCEPT !.epoch = epochs + 1, !.stamp = Counted(manifest), !.state = v]
      BY <2>1, <2>5
    <3> QED BY <2>6, <3>1 DEF SoundAt
  <2>10. /\ SoundAt(db', epochs', saves') /\ db'.epoch = epochs + 1
         /\ db'.state = "none" => erased \subseteq db'.barred
    <3>1. /\ db' = [epoch |-> db'.epoch, stamp |-> db'.stamp, state |-> db'.state, row |-> db'.row,
                     feed |-> db'.feed, bytes |-> db'.bytes, barred |-> db'.barred]
          /\ db'.epoch = epochs + 1 /\ db'.stamp = Counted(manifest) /\ db'.state = v
          /\ db'.bytes = b.bytes /\ db'.barred = b.barred
      BY <2>9
    <3>2. epochs' = epochs + 1 /\ saves' = saves
      BY <2>1
    <3>3. b.bytes \cap b.barred = {} /\ b.bytes \subseteq MintedAt(saves) /\ b.barred \subseteq MintedAt(saves)
      BY <2>6 DEF SoundAt
    <3>4. SoundAt(db', epochs', saves')
      BY <1>0, <2>8, <3>1, <3>2, <3>3 DEF SoundAt
    <3> QED BY <2>6, <2>7, <3>1, <3>4
  <2>11. staged.db # None => staged.db.epoch # epochs + 1
    BY <1>0 DEF SafeInv, DataInv, StoresSound, Sound, SoundAt
  <2>12. request'.step = "repairing" /\ request'.epoch = request.epoch
         /\ request' = [step |-> request'.step, epoch |-> request'.epoch]
    BY <1>0, <2>1
  <2>13. Numbers'
    BY <1>0, <2>1, <2>12 DEF Numbers
  <2>14. StoresSound' /\ PendingInv' /\ LinesMinted'
    BY <2>1, <2>2, <2>10, StoresStay, PendingStays, LinesStay DEF SafeInv, DataInv
  <2>15. WriterInv'
    BY <2>1, <2>2, <2>10, <2>11 DEF WriterInv, Step
  <2>16. CleanInv'
    <3>1. Clean(db)' /\ ~(Step("erase", "commit"))'
      BY <1>0, <2>1, <2>2, <2>10 DEF Clean, Step
    <3> QED BY <2>1, <3>1, CleanStays DEF SafeInv, DataInv
  <2>17. RequestInv'
    BY <2>12 DEF RequestInv, Asked
  <2> QED BY <2>13, <2>14, <2>15, <2>16, <2>17 DEF DataInv
<1>5. CASE RepairIdentity
  <2>1. /\ UNCHANGED <<db, backups, manifest, kept, pending, staged, erased, epochs, saves>>
        /\ writer.op = "repair" /\ writer' = Idle
        /\ ident' = [epoch |-> db.epoch, erasures |-> Counted(manifest)]
        /\ request' = IF Verified THEN [step |-> "admitted", epoch |-> db.epoch]
                                  ELSE [step |-> "idle", epoch |-> 0]
    BY <1>5 DEF RepairIdentity, Step, hist, count
  <2>2. writer'.op = "idle" /\ writer'.step = "idle" /\ Light /\ SameStage /\ Grown
    BY <1>0, <2>1, IdleIsWriter DEF Light, SameStage, Grown
  <2>3. ident'.epoch = db.epoch /\ ident'.erasures = Counted(manifest)
        /\ ident'.erasures >= ident.erasures /\ ident'.erasures \in Nat
    BY <1>0, <2>1, CountedIsLarger
  <2>4. /\ db.state = "none" => erased \subseteq db.barred
        /\ staged.db # None => staged.db.epoch # db.epoch
    BY <2>1 DEF SafeInv, DataInv, WriterInv
  <2>5. /\ request' = [step |-> request'.step, epoch |-> request'.epoch]
        /\ request'.epoch \in Nat /\ request'.epoch <= epochs
    BY <1>0, <2>1
  <2>6. Numbers'
    BY <1>0, <2>1, <2>3, <2>5 DEF Numbers
  <2>7. StoresSound' /\ PendingInv' /\ LinesMinted' /\ WriterInv'
    BY <1>0, <2>1, <2>2, StoresStay, PendingStays, LinesStay, WriterStays DEF SafeInv, DataInv, Sound
  <2>8. CleanInv'
    <3>1. Clean(db)' /\ (staged.db # None => Clean(staged.db)')
      BY <2>1, <2>3, <2>4 DEF Clean, Agrees
    <3>2. StagedOver => staged.db.stamp <= ident'.erasures
      <4>1. StagedOver => staged.db.stamp <= ident.erasures /\ staged.db.stamp \in Nat
        BY DEF SafeInv, DataInv, CleanInv, StoresSound, StagedOver, Sound, SoundAt
      <4> QED BY <1>0, <2>3, <4>1
    <3> QED BY <2>1, <2>2, <3>1, <3>2 DEF CleanInv, StagedOver, Step
  <2>9. RequestInv'
    <3>1. CASE Verified
      <4>1. request'.step = "admitted" /\ request'.epoch = db.epoch /\ erased \subseteq db.barred
        BY <2>1, <2>4, <3>1 DEF Verified
      <4> QED BY <2>1, <2>2, <2>4, <4>1 DEF RequestInv, Asked, StagedOver, Step
    <3>2. CASE ~Verified
      BY <2>1, <3>2 DEF RequestInv, Asked
    <3> QED BY <3>1, <3>2
  <2> QED BY <2>6, <2>7, <2>8, <2>9 DEF DataInv
<1>6. ASSUME NEW p \in Payloads, RequestImport(p) PROVE DataInv'
  <2>1. /\ UNCHANGED <<backups, manifest, kept, ident, pending, staged, writer, erased, epochs, saves>>
        /\ writer = Idle /\ p[2] <= saves /\ p \notin db.barred
        /\ db' = Store(db, p[1], p[2]) /\ request' = [step |-> "idle", epoch |-> 0]
    BY <1>6 DEF RequestImport, Free, NoRequest, count
  <2>2. p[1] \in Entities /\ p[2] \in Nat /\ p = <<p[1], p[2]>>
    BY EraseAssumption DEF Payloads, EraseAssumption
  <2>3. SoundAt(db', epochs', saves') /\ Keeps(db', db)
    BY <1>0, <2>1, <2>2, StoreKeeps DEF Sound
  <2>4. Light /\ SameStage /\ Grown /\ Numbers'
    BY <1>0, <2>1 DEF Light, SameStage, Grown, Numbers
  <2>5. StoresSound' /\ PendingInv' /\ LinesMinted' /\ WriterInv'
    BY <2>1, <2>3, <2>4, IdleIsWriter, StoresStay, PendingStays, LinesStay, WriterStays DEF SafeInv, DataInv
  <2>6. CleanInv'
    <3>1. Clean(db)'
      BY <2>1, <2>3 DEF SafeInv, DataInv, CleanInv, Clean, Agrees, Keeps
    <3> QED BY <2>1, <3>1, CleanStays DEF SafeInv, DataInv
  <2>7. RequestInv'
    BY <2>1 DEF RequestInv, Asked
  <2> QED BY <2>4, <2>5, <2>6, <2>7 DEF DataInv
<1> QED BY <1>1, <1>2, <1>3, <1>4, <1>5, <1>6 DEF Request

LEMMA MishapData == ASSUME SafeInv, LedgerInv', Mishap PROVE DataInv'
<1>0. /\ writer \in Writers /\ epochs \in Nat /\ saves \in Nat /\ Sound(db)
      /\ staged = [db |-> staged.db, files |-> staged.files]
      /\ manifest \in Manifests /\ manifest.lines \in Seq(Lines) /\ Numbers
  BY DEF SafeInv, DataInv, LedgerInv, LedgerTypes, Manifests, Numbers, StoresSound
<1>1. CASE Kill
  <2>1. /\ UNCHANGED <<db, backups, kept, ident, pending, staged, erased, epochs, saves>>
        /\ writer' = Idle
        /\ request' = request \/ request' = [step |-> "idle", epoch |-> 0]
        /\ manifest' = manifest \/ manifest' = [manifest EXCEPT !.there = TRUE, !.torn = TRUE]
    BY <1>1 DEF Kill, NoRequest, hist
  <2>2. manifest'.lines = manifest.lines
    BY <1>0, <2>1 DEF Manifests
  <2>3. writer'.op = "idle" /\ writer'.step = "idle" /\ Light /\ SameStage /\ Grown
    BY <1>0, <2>1, IdleIsWriter DEF Light, SameStage, Grown
  <2>4. Numbers'
    BY <1>0, <2>1 DEF Numbers
  <2>5. StoresSound' /\ PendingInv' /\ LinesMinted' /\ WriterInv'
    BY <1>0, <2>1, <2>2, <2>3, StoresStay, PendingStays, LinesStay, WriterStays DEF SafeInv, DataInv, Sound
  <2>6. CleanInv'
    <3>1. Clean(db)' /\ ~(Step("erase", "commit"))'
      BY <2>1, <2>3 DEF SafeInv, DataInv, CleanInv, Clean, Agrees, Step
    <3> QED BY <2>1, <3>1, CleanStays DEF SafeInv, DataInv
  <2>7. RequestInv'
    <3>1. CASE request' = request
      BY <2>1, <2>3, <3>1, RequestStays DEF SafeInv, DataInv, Keeps, Step
    <3>2. CASE request' = [step |-> "idle", epoch |-> 0]
      BY <3>2 DEF RequestInv, Asked
    <3> QED BY <2>1, <3>1, <3>2
  <2> QED BY <2>4, <2>5, <2>6, <2>7 DEF DataInv
<1>2. ASSUME NEW n \in 0 .. MaxErases, Lose(n) PROVE DataInv'
  <2>1. /\ UNCHANGED <<db, backups, ident, pending, staged, writer, request, erased, epochs, saves>>
        /\ writer = Idle /\ kept' = manifest /\ n < Len(manifest.lines) /\ n \in Nat
        /\ manifest'.lines = SubSeq(manifest.lines, 1, n)
    BY <1>2, EraseAssumption DEF Lose, Free, EraseAssumption, hist
  <2>2. Digests(SubSeq(manifest.lines, 1, n)) \subseteq Digests(manifest.lines)
    <3> DEFINE cut == SubSeq(manifest.lines, 1, n)
    <3>1. \A i \in DOMAIN cut : i \in DOMAIN manifest.lines /\ cut[i] = manifest.lines[i]
      BY <1>0, <2>1
    <3> HIDE DEF cut
    <3>2. Digests(cut) \subseteq Digests(manifest.lines)
      BY <3>1, Zenon DEF Digests
    <3> QED BY <3>2 DEF cut
  <2>3. Digests(manifest.lines) \subseteq MintedAt(saves)
    BY DEF SafeInv, DataInv, LinesMinted
  <2>4. LinesMinted'
    BY <2>1, <2>2, <2>3 DEF LinesMinted
  <2>5. Light /\ SameStage /\ Grown /\ Numbers'
    BY <1>0, <2>1 DEF Light, SameStage, Grown, Numbers
  <2>6. StoresSound' /\ PendingInv' /\ WriterInv'
    BY <1>0, <2>1, <2>5, IdleIsWriter, StoresStay, PendingStays, WriterStays DEF SafeInv, DataInv, Sound
  <2>7. CleanInv'
    BY <2>1, CleanStays DEF SafeInv, DataInv, CleanInv, Clean, Agrees
  <2>8. RequestInv'
    BY <2>1, RequestStays DEF SafeInv, DataInv, Keeps
  <2> QED BY <2>4, <2>5, <2>6, <2>7, <2>8 DEF DataInv
<1>3. ASSUME NEW b \in Dirs, CopyByHand(b) PROVE DataInv'
  <2>1. /\ UNCHANGED <<backups, manifest, kept, ident, pending, staged, writer, request, erased, epochs, saves>>
        /\ writer = Idle /\ request.step = "idle" /\ backups[b] # None /\ ~Agrees(backups[b].db)
        /\ db' = backups[b].db
    BY <1>3 DEF CopyByHand, Free, hist
  <2>2. Sound(backups[b].db)
    BY <2>1 DEF SafeInv, DataInv, StoresSound, SoundBackup
  <2>3. Light /\ SameStage /\ Grown /\ Numbers'
    BY <1>0, <2>1 DEF Light, SameStage, Grown, Numbers
  <2>4. StoresSound' /\ PendingInv' /\ LinesMinted' /\ WriterInv'
    BY <1>0, <2>1, <2>2, <2>3, IdleIsWriter, StoresStay, PendingStays, LinesStay, WriterStays
       DEF SafeInv, DataInv, Sound
  <2>5. CleanInv'
    <3>1. Clean(db)'
      BY <2>1 DEF Clean, Agrees
    <3> QED BY <2>1, <3>1, CleanStays DEF SafeInv, DataInv
  <2>6. RequestInv'
    BY <2>1 DEF RequestInv, Asked
  <2> QED BY <2>3, <2>4, <2>5, <2>6 DEF DataInv
<1> QED BY <1>1, <1>2, <1>3 DEF Mishap

LEMMA DataStays == ASSUME SafeInv, UNCHANGED vars PROVE DataInv'
<1>1. UNCHANGED <<disk, backups, kept, writer, request, erased, epochs, saves>>
  BY DEF vars, hist, count
<1>2. RequestInv'
  BY <1>1, RequestStays DEF SafeInv, DataInv, Keeps, disk
<1>3. /\ request = [step |-> request.step, epoch |-> request.epoch]
      /\ request.epoch \in Nat /\ request.epoch <= epochs
  BY DEF SafeInv, DataInv, Numbers
<1> QED BY <1>1, <1>2, <1>3, RequestAlone

LEMMA SafeStep == ASSUME ~StampsAnywhere PROVE SafeInv /\ [Next]_vars => SafeInv'
<1> SUFFICES ASSUME SafeInv, [Next]_vars PROVE SafeInv'
  OBVIOUS
<1>1. LedgerInv'
  BY LedgerStep DEF SafeInv
<1>2. CASE UNCHANGED vars
  BY <1>1, <1>2, DataStays DEF SafeInv
<1>3. CASE Next
  <2>1. ASSUME NEW e \in Entities, Save(e) PROVE DataInv'
    BY <2>1, SaveData
  <2> QED BY <1>1, <1>3, <2>1, EraseData, BackupData, RestoreData, MergeData, RequestData, MishapData
          DEF Next, SafeInv
<1> QED BY <1>2, <1>3

LEMMA Safely == ASSUME ~StampsAnywhere PROVE Spec => []SafeInv
<1>1. Init => SafeInv
  BY LedgerInit, DataInit DEF SafeInv
<1>2. SafeInv /\ [Next]_vars => SafeInv'
  BY SafeStep
<1> QED BY <1>1, <1>2, PTL DEF Spec

\* What the engine would open for a replica request holds no erased payload, when an erase
\* and a merge of erasures are made in a database that holds none already.
THEOREM OpenIsCleanAlways == ASSUME ~StampsAnywhere PROVE Spec => []OpenIsClean
<1>1. SafeInv => OpenIsClean
  BY DEF SafeInv, DataInv, CleanInv, Clean, StoresSound, Sound, SoundAt, OpenIsClean, Verified
<1> QED BY <1>1, Safely, PTL

\* Nothing erased is served, however long ago the request was admitted, unless under
\* another stream than the one it was checked for.
THEOREM ServedCleanAlways == ASSUME ~StampsAnywhere PROVE Spec => ServedClean
<1>1. SafeInv /\ RequestRead => db.bytes \cap erased = {} \/ db.epoch # request.epoch
  BY DEF SafeInv, DataInv, RequestInv, StoresSound, Sound, SoundAt, RequestRead
<1> QED BY <1>1, Safely, PTL DEF ServedClean, Spec


(****************************** the types *********************************)

LEMMA LeastOf ==
    ASSUME NEW T \in SUBSET Nat, T # {}
    PROVE  \E x \in T : \A y \in T : x <= y
<1> DEFINE R == OpToRel(<, Nat)
<1>1. IsWellFoundedOn(R, Nat)
  BY NatLessThanWellFounded
<1>2. \A y, x \in Nat : <<y, x>> \in R <=> y < x
  BY DEF OpToRel
<1> HIDE DEF R
<1>3. PICK x \in T : \A y \in T : ~(<<y, x>> \in R)
  BY <1>1, WFMin
<1>4. \A y \in T : y \in Nat /\ x \in Nat /\ ~(y < x)
  BY <1>2, <1>3
<1> QED BY <1>4

\* Of a set of positions, some position has each rank.
LEMMA RankExists ==
    ASSUME NEW L \in Nat, NEW S \in SUBSET (1 .. L), NEW n \in 1 .. Cardinality(S)
    PROVE  \E i \in S : Cardinality({j \in S : j <= i}) = n
<1> DEFINE Ranked(k) == \E i \in S : Cardinality({j \in S : j <= i}) = k
           T == {k \in 1 .. Cardinality(S) : ~Ranked(k)}
<1>1. IsFiniteSet(S) /\ Cardinality(S) \in Nat
  <2>1. IsFiniteSet(1 .. L)
    BY FS_Interval
  <2>2. IsFiniteSet(S)
    BY <2>1, FS_Subset
  <2> QED BY <2>2, FS_CardinalityType
<1> SUFFICES ASSUME T # {} PROVE FALSE
  BY <1>1
<1>2. PICK k \in T : \A l \in T : k <= l
  <2>1. T \in SUBSET Nat
    BY <1>1
  <2> HIDE DEF T
  <2> QED BY <2>1, LeastOf
<1>3. k \in 1 .. Cardinality(S) /\ ~Ranked(k)
  BY <1>2
<1>4. CASE k = 1
  <2>1. S # {} /\ S \in SUBSET Nat
    BY <1>1, <1>3, FS_EmptySet
  <2>2. PICK i \in S : \A j \in S : i <= j
    BY <2>1, LeastOf
  <2>3. {j \in S : j <= i} = {i}
    <3>1. \A j \in S : j <= i <=> j = i
      BY <2>1, <2>2
    <3> QED BY <2>2, <3>1, Zenon
  <2>4. Cardinality({i}) = 1
    BY FS_Singleton
  <2> QED BY <1>3, <1>4, <2>3, <2>4
<1>5. CASE k # 1
  <2>1. k - 1 \in 1 .. Cardinality(S) /\ k - 1 \notin T
    BY <1>1, <1>2, <1>3, <1>5
  <2>2. PICK i \in S : Cardinality({j \in S : j <= i}) = k - 1
    BY <2>1
  <2> DEFINE B == {j \in S : j <= i}
  <2>3. IsFiniteSet(B) /\ B \subseteq S
    BY <1>1, FS_Subset
  <2>4. S \ B # {} /\ S \ B \in SUBSET Nat
    <3>1. Cardinality(B) = k - 1 /\ k \in Nat /\ k <= Cardinality(S)
      BY <1>1, <1>3, <2>2
    <3> HIDE DEF B
    <3>2. B # S
      <4> SUFFICES ASSUME B = S PROVE FALSE
        OBVIOUS
      <4>1. Cardinality(S) = k - 1
        BY <3>1, Zenon
      <4> QED BY <1>1, <3>1, <4>1
    <3>3. S \ B # {}
      BY <2>3, <3>2, Zenon
    <3>4. \A j \in S : j \in Nat
      OBVIOUS
    <3>5. S \ B \in SUBSET Nat
      BY <3>4
    <3> QED BY <3>3, <3>5
  <2>5. PICK q \in S \ B : \A j \in S \ B : q <= j
    <3> HIDE DEF B
    <3> QED BY <2>4, LeastOf
  <2>6. {j \in S : j <= q} = B \cup {q}
    <3>1. i \in Nat /\ q \in Nat /\ q > i
      BY <2>2, <2>5
    <3>2. \A j \in S : j <= q <=> (j <= i \/ j = q)
      BY <2>2, <2>5, <3>1
    <3> QED BY <2>5, <3>2, Zenon
  <2>7. Cardinality(B \cup {q}) = Cardinality(B) + 1
    BY <2>3, <2>5, FS_AddElement
  <2>8. Cardinality(B) + 1 = k
    BY <1>1, <1>3, <2>2
  <2> QED BY <1>3, <2>5, <2>6, <2>7, <2>8
<1> QED BY <1>4, <1>5

Entries == Entities \X Versions

LEMMA TombstonesType ==
    ASSUME NEW lines \in Seq(Lines), NEW live
    PROVE  Tombstones(lines, live) \in Seq(Entries)
<1> DEFINE first == {i \in DOMAIN lines : lines[i].key \in live
                       /\ \A j \in 1 .. i - 1 : lines[j].key # lines[i].key}
           Rank(i) == Cardinality({j \in first : j <= i})
           pick(n) == CHOOSE i \in first : Rank(i) = n
<1>1. first \in SUBSET (1 .. Len(lines)) /\ Len(lines) \in Nat
  OBVIOUS
<1>2. Cardinality(first) \in Nat
  <2> HIDE DEF first
  <2>1. IsFiniteSet(1 .. Len(lines))
    BY <1>1, FS_Interval
  <2> QED BY <1>1, <2>1, FS_Subset, FS_CardinalityType
<1>3. ASSUME NEW n \in 1 .. Cardinality(first) PROVE <<lines[pick(n)].key, 0>> \in Entries
  <2>1. \E i \in first : Rank(i) = n
    <3> HIDE DEF first
    <3> QED BY <1>1, RankExists
  <2>2. pick(n) \in first
    <3> HIDE DEF first
    <3> QED BY <2>1
  <2>3. lines[pick(n)] \in Lines
    <3> HIDE DEF pick
    <3> QED BY <2>2
  <2>4. 0 \in Versions
    BY EraseAssumption DEF Versions
  <2> HIDE DEF pick
  <2> QED BY <2>3, <2>4 DEF Lines, Entries
<1>4. Tombstones(lines, live) = [n \in 1 .. Cardinality(first) |-> <<lines[pick(n)].key, 0>>]
  BY DEF Tombstones
<1> HIDE DEF first, pick
<1> QED BY <1>2, <1>3, <1>4

LEMMA BarType ==
    ASSUME NEW d \in Databases, NEW digests \in SUBSET Payloads
    PROVE  Bar(d, digests) \in Databases
BY DEF Bar, Databases

LEMMA StoreType ==
    ASSUME NEW d \in Databases, NEW e \in Entities, NEW v \in 1 .. MaxSaves
    PROVE  Store(d, e, v) \in Databases
<1> DEFINE row   == [d.row EXCEPT ![e] = v]
           feed  == Append(d.feed, <<e, v>>)
           bytes == d.bytes \cup {<<e, v>>}
<1>0. MaxSaves \in Nat /\ v \in Versions /\ <<e, v>> \in Payloads /\ <<e, v>> \in Entries
  BY EraseAssumption DEF Versions, Payloads, Entries
<1>1. Store(d, e, v) = [d EXCEPT !.row = row, !.feed = feed, !.bytes = bytes]
  BY DEF Store, Databases
<1>2. row \in Trees
  BY <1>0 DEF Databases, Trees
<1>3. feed \in Seq(Entries)
  BY <1>0 DEF Databases, Entries
<1>4. bytes \in SUBSET Payloads
  BY <1>0 DEF Databases
<1> HIDE DEF row, feed, bytes
<1> QED BY <1>1, <1>2, <1>3, <1>4 DEF Databases, Entries

LEMMA EraseRowsType ==
    ASSUME NEW d \in Databases, NEW e \in Entities, NEW live
    PROVE  EraseRows(d, e, live) \in Databases
<1> DEFINE b    == Bar(d, d.bytes \cap Own(e))
           row  == [b.row EXCEPT ![e] = 0]
           feed == IF live THEN Append(b.feed, <<e, 0>>) ELSE b.feed
<1>0. 0 \in Versions /\ <<e, 0>> \in Entries
  BY EraseAssumption DEF Versions, Entries
<1>1. b \in Databases
  <2>1. d.bytes \cap Own(e) \in SUBSET Payloads
    BY DEF Own
  <2> QED BY <2>1, BarType
<1>2. EraseRows(d, e, live) = [b EXCEPT !.row = row, !.feed = feed]
  BY DEF EraseRows, Bar
<1> HIDE DEF b
<1>3. row \in Trees
  BY <1>0, <1>1 DEF Databases, Trees
<1>4. feed \in Seq(Entries)
  BY <1>0, <1>1 DEF Databases, Entries
<1> HIDE DEF row, feed
<1> QED BY <1>1, <1>2, <1>3, <1>4 DEF Databases, Entries

LEMMA DigestsType ==
    ASSUME NEW lines \in Seq(Lines)
    PROVE  Digests(lines) \in SUBSET Payloads
<1>1. \A i \in DOMAIN lines : lines[i] \in Lines
  OBVIOUS
<1> QED BY <1>1 DEF Digests, Lines

LEMMA LinesIntoType ==
    ASSUME NEW at, at.db \in Databases, at.files \in Trees, NEW lines \in Seq(Lines)
    PROVE  /\ LinesInto(at, lines) \in [db : Databases, files : Trees]
           /\ LinesInto(at, lines).db.epoch = at.db.epoch
           /\ \E tombs \in Seq(Entries) : LinesInto(at, lines).db.feed = at.db.feed \o tombs
<1> DEFINE gone    == {e \in {lines[i].key : i \in DOMAIN lines} : Held(at.db, at.files, e)}
           live    == {e \in gone : Live(at.db, at.files, e)}
           blanked == {p \in at.db.bytes : p[1] \in gone}
           b       == Bar(at.db, blanked \cup Digests(lines))
           row     == [e \in Entities |-> IF e \in gone THEN 0 ELSE b.row[e]]
           tombs   == Tombstones(lines, live)
           files1  == [e \in Entities |-> IF e \in gone THEN 0 ELSE at.files[e]]
           new     == [b EXCEPT !.row = row, !.feed = b.feed \o tombs]
<1>1. LinesInto(at, lines) = [db |-> new, files |-> files1]
  BY Zenon DEF LinesInto
<1>2. 0 \in Versions
  BY EraseAssumption DEF Versions
<1>3. tombs \in Seq(Entries)
  <2> HIDE DEF live
  <2> QED BY TombstonesType
<1>4. b \in Databases /\ b.epoch = at.db.epoch /\ b.feed = at.db.feed
  <2>1. blanked \cup Digests(lines) \in SUBSET Payloads
    BY DigestsType DEF Databases
  <2> HIDE DEF blanked
  <2>2. b \in Databases
    BY <2>1, BarType
  <2> QED BY <2>2 DEF Bar
<1> HIDE DEF b, tombs, gone
<1>5. row \in Trees
  BY <1>2, <1>4 DEF Databases, Trees
<1>6. files1 \in Trees
  BY <1>2 DEF Trees
<1>7. b.feed \o tombs \in Seq(Entries)
  BY <1>3, <1>4 DEF Databases, Entries
<1> HIDE DEF row, files1
<1>8. new \in Databases /\ new.epoch = b.epoch /\ new.feed = b.feed \o tombs
  BY <1>4, <1>5, <1>7 DEF Databases, Entries
<1> HIDE DEF new
<1>9. LinesInto(at, lines).db = new /\ LinesInto(at, lines).files = files1
  BY <1>1
<1>10. new.feed = at.db.feed \o tombs
  BY <1>4, <1>8
<1> QED BY <1>1, <1>3, <1>4, <1>6, <1>8, <1>9, <1>10


LEMMA MarkType ==
    ASSUME NEW d \in Databases, NEW x \in Epochs, NEW n \in 0 .. MaxErases,
           NEW s \in {"none", "merging", "unknown"}
    PROVE  [d EXCEPT !.epoch = x, !.stamp = n, !.state = s] \in Databases
BY DEF Databases

Snapshots == [db : Databases, files : Trees \cup {None}]

StoreTypes ==
    /\ db \in Databases /\ files \in Trees \cup {None} /\ pre \in Trees \cup {None}
    /\ backups \in [Dirs -> Snapshots \cup {None}]
    /\ staged \in [db : Databases \cup {None}, files : Trees \cup {None}]
    /\ ident \in [epoch : Epochs, erasures : Nat]
    /\ request \in [step : {"idle", "checked", "repairing", "admitted"}, epoch : Epochs]
    /\ erased \subseteq Payloads
    /\ served \in [Epochs -> Seq(Entries)]
    /\ epochs \in Epochs /\ saves \in Versions /\ erases \in 0 .. MaxErases

\* Neither a manifest nor the count runs ahead of the erases that were begun.
Lengths ==
    /\ Len(manifest.lines) <= erases /\ ident.erasures <= erases
    /\ kept # None => Len(kept.lines) <= erases
    /\ Step("erase", "line") => Len(manifest.lines) < erases
    /\ Step("erase", "line") \/ Step("erase", "count") => ident.erasures < erases

\* What a backup and a restore work on is there.
Hands ==
    /\ writer.op = "backup" \/ Step("restore", "stage") =>
          writer.dir \in Dirs /\ backups[writer.dir] \in Snapshots
    /\ Step("restore", "merge") \/ Step("restore", "keep") => staged \in [db : Databases, files : Trees]

TypeInv == LedgerTypes /\ StoreTypes /\ Lengths /\ Hands

LEMMA BoundsAreNat == {MaxSaves, MaxErases, MaxEpochs, MaxKills, MaxLosses, MaxCopies} \subseteq Nat
BY EraseAssumption DEF EraseAssumption

LEMMA NoneIsNoStore ==
    /\ \A d \in Databases : d # None
    /\ \A t \in Trees : t # None
    /\ \A b \in Snapshots : b # None
BY EraseAssumption DEF EraseAssumption, Snapshots

LEMMA EmptyIsTree == Empty \in Trees /\ 0 \in Versions /\ 0 \in Epochs
BY BoundsAreNat DEF Empty, Trees, Versions, Epochs

LEMMA TypeInit == Init => TypeInv
<1> SUFFICES ASSUME Init PROVE TypeInv
  OBVIOUS
<1>1. LedgerTypes
  BY LedgerInit DEF LedgerInv
<1>2. db \in Databases
  <2>1. <<>> \in Seq(Entries) /\ 0 \in 0 .. MaxErases
    BY BoundsAreNat
  <2> QED BY <2>1, EmptyIsTree DEF Init, Databases, Entries
<1>3. StoreTypes
  <2>1. <<>> \in Seq(Entries) /\ 0 \in 0 .. MaxErases
    BY BoundsAreNat
  <2>2. served \in [Epochs -> Seq(Entries)]
    BY <2>1 DEF Init
  <2> QED BY <1>2, <2>1, <2>2, EmptyIsTree DEF Init, StoreTypes, NoStage
<1>4. Lengths /\ Hands
  BY IdleIsWriter DEF Init, Lengths, Hands, Step
<1> QED BY <1>1, <1>3, <1>4 DEF TypeInv

LEMMA LengthsStay ==
    ASSUME Lengths, UNCHANGED <<kept, erases>>, ident'.erasures = ident.erasures,
           manifest'.lines = manifest.lines,
           writer' = writer \/ ~(Step("erase", "line") \/ Step("erase", "count"))'
    PROVE  Lengths'
BY DEF Lengths, Step

LEMMA HandsStay ==
    ASSUME Hands,
           \/ UNCHANGED <<writer, backups, staged>>
           \/ writer'.op \notin {"backup", "restore"}
           \/ writer'.op = "restore" /\ writer'.step \notin {"stage", "merge", "keep"}
    PROVE  Hands'
BY DEF Hands, Step

LEMMA PlaceType ==
    ASSUME NEW t \in Trees \cup {None}, NEW e \in Entities, NEW v \in Versions
    PROVE  Place(t, e, v) \in Trees
BY EmptyIsTree DEF Place, Trees

LEMMA SaveTyped == ASSUME TypeInv, NEW e \in Entities, Save(e) PROVE StoreTypes' /\ Lengths' /\ Hands'
<1>1. /\ saves' \in 1 .. MaxSaves /\ writer = Idle
      /\ db' = Store(db, e, saves') /\ files' = Place(files, e, saves')
      /\ UNCHANGED <<backups, manifest, kept, ident, staged, pre, writer, request, epochs, erases,
                     erased, served>>
  BY BoundsAreNat DEF Save, TypeInv, StoreTypes, Versions, Free
<1>2. db' \in Databases /\ files' \in Trees /\ saves' \in Versions
  <2>1. saves' \in Versions
    BY <1>1, BoundsAreNat DEF Versions
  <2> QED BY <1>1, <2>1, StoreType, PlaceType DEF TypeInv, StoreTypes
<1> QED BY <1>1, <1>2, LengthsStay, HandsStay DEF TypeInv, StoreTypes


LEMMA WriterFields ==
    ASSUME writer \in Writers, NEW op, NEW step, NEW e, NEW digests, NEW live
    PROVE  LET w == [Idle EXCEPT !.op = op, !.step = step, !.entity = e, !.digests = digests, !.live = live]
           IN w.op = op /\ w.step = step /\ w.entity = e /\ w.digests = digests
BY DEF Idle

LEMMA EraseTyped == ASSUME TypeInv, LedgerTypes', Erase PROVE StoreTypes' /\ Lengths' /\ Hands'
<1>0. /\ writer \in Writers /\ erases \in 0 .. MaxErases /\ MaxErases \in Nat /\ erased \subseteq Payloads
      /\ db \in Databases /\ files \in Trees \cup {None} /\ ident \in [epoch : Epochs, erasures : Nat]
      /\ ident.erasures <= erases /\ Len(manifest.lines) <= erases
  BY BoundsAreNat DEF TypeInv, StoreTypes, LedgerTypes, Lengths
<1>1. ASSUME NEW e \in Entities, EraseFiles(e) PROVE StoreTypes' /\ Lengths' /\ Hands'
  <2>1. /\ erases' = erases + 1 /\ erases < MaxErases /\ writer'.op = "erase"
        /\ files' = IF files = None THEN None ELSE [files EXCEPT ![e] = 0]
        /\ UNCHANGED <<db, backups, manifest, kept, ident, staged, pre, request, epochs, saves, erased, served>>
    BY <1>0, <1>1, WriterFields DEF EraseFiles
  <2>2. files' \in Trees \cup {None}
    BY <1>0, <2>1, EmptyIsTree DEF Trees
  <2>3. StoreTypes'
    BY <1>0, <2>1, <2>2 DEF TypeInv, StoreTypes
  <2>4. Lengths'
    <3>1. Len(manifest.lines) \in Nat /\ (kept # None => Len(kept.lines) \in Nat)
      BY DEF TypeInv, LedgerTypes, Manifests
    <3> QED BY <1>0, <2>1, <3>1 DEF TypeInv, Lengths
  <2> QED BY <2>1, <2>3, <2>4, HandsStay DEF TypeInv
<1>2. CASE EraseLine
  <2>1. /\ manifest'.lines = Append(manifest.lines, [key |-> writer.entity, digests |-> writer.digests])
        /\ writer'.op = "erase" /\ writer'.step = "count" /\ Step("erase", "line")
        /\ UNCHANGED <<db, files, backups, kept, ident, staged, pre, request, hist, count>>
    BY <1>0, <1>2, GotoIsWriter DEF EraseLine, Goto, Step, Steps
  <2>2. Len(manifest'.lines) = Len(manifest.lines) + 1
    <3>1. manifest.lines \in Seq(Lines)
      BY DEF TypeInv, LedgerTypes, Manifests
    <3> QED BY <2>1, <3>1
  <2>3. StoreTypes'
    BY <2>1 DEF TypeInv, StoreTypes, hist, count
  <2>4. Lengths'
    BY <1>0, <2>1, <2>2 DEF TypeInv, Lengths, Step, count, LedgerTypes, Manifests
  <2> QED BY <2>1, <2>3, <2>4, HandsStay DEF TypeInv
<1>3. CASE EraseCount
  <2>1. /\ ident' = [ident EXCEPT !.erasures = @ + 1]
        /\ writer'.op = "erase" /\ writer'.step = "commit" /\ Step("erase", "count")
        /\ UNCHANGED <<db, files, backups, manifest, kept, staged, pre, request, hist, count>>
    BY <1>0, <1>3, GotoIsWriter DEF EraseCount, Goto, Step, Steps
  <2>2. ident' \in [epoch : Epochs, erasures : Nat] /\ ident'.erasures = ident.erasures + 1
    BY <1>0, <2>1
  <2>3. StoreTypes'
    BY <2>1, <2>2 DEF TypeInv, StoreTypes, hist, count
  <2>4. Lengths'
    BY <1>0, <2>1, <2>2 DEF TypeInv, Lengths, Step, count
  <2> QED BY <2>1, <2>3, <2>4, HandsStay DEF TypeInv
<1>4. CASE EraseCommit
  <2>1. /\ db' = [EraseRows(db, writer.entity, writer.live) EXCEPT !.stamp = ident.erasures]
        /\ erased' = erased \cup writer.digests /\ writer'.op = "idle" /\ writer.op = "erase"
        /\ UNCHANGED <<files, backups, manifest, kept, ident, staged, pre, request, served, count>>
    BY <1>4, IdleIsWriter DEF EraseCommit, Step
  <2>2. db' \in Databases
    <3>1. writer.entity \in Entities /\ ident.erasures \in 0 .. MaxErases
      BY <1>0, <2>1 DEF TypeInv, LedgerTypes
    <3>2. EraseRows(db, writer.entity, writer.live) \in Databases
      BY <1>0, <3>1, EraseRowsType
    <3>3. \A d \in Databases : [d EXCEPT !.stamp = ident.erasures] \in Databases
      BY <3>1 DEF Databases
    <3> QED BY <2>1, <3>2, <3>3
  <2>3. StoreTypes'
    BY <1>0, <2>1, <2>2 DEF TypeInv, StoreTypes, count, Writers
  <2> QED BY <2>1, <2>3, LengthsStay, HandsStay DEF TypeInv, count, Step
<1> QED BY <1>1, <1>2, <1>3, <1>4 DEF Erase

LEMMA BackupTyped == ASSUME TypeInv, Backup PROVE StoreTypes' /\ Lengths' /\ Hands'
<1>0. /\ writer \in Writers /\ db \in Databases /\ files \in Trees \cup {None}
      /\ backups \in [Dirs -> Snapshots \cup {None}] /\ Tree \in Trees
  BY EmptyIsTree DEF TypeInv, StoreTypes, LedgerTypes, Tree
<1>1. ASSUME NEW b \in Dirs, BackupDatabase(b) PROVE StoreTypes' /\ Lengths' /\ Hands'
  <2>1. /\ backups' = [backups EXCEPT ![b] = [db |-> db, files |-> None]]
        /\ writer'.op = "backup" /\ writer'.step = "files" /\ writer'.dir = b
        /\ UNCHANGED <<disk, kept, request, hist, count>>
    BY <1>1 DEF BackupDatabase, Idle
  <2>2. [db |-> db, files |-> None] \in Snapshots
    BY <1>0 DEF Snapshots
  <2>3. backups' \in [Dirs -> Snapshots \cup {None}] /\ backups'[b] \in Snapshots
    BY <1>0, <2>1, <2>2
  <2>4. StoreTypes'
    BY <2>1, <2>3 DEF TypeInv, StoreTypes, disk, hist, count
  <2>5. Hands'
    BY <2>1, <2>3 DEF Hands, Step
  <2> QED BY <2>1, <2>4, <2>5, LengthsStay DEF TypeInv, Step, disk, count
<1>2. CASE BackupFiles
  <2>1. /\ backups' = [backups EXCEPT ![writer.dir].files = Tree]
        /\ writer'.op = "idle" /\ writer.op = "backup"
        /\ UNCHANGED <<disk, kept, request, hist, count>>
    BY <1>2, IdleIsWriter DEF BackupFiles, Step
  <2>2. writer.dir \in Dirs /\ backups[writer.dir] \in Snapshots
    BY <2>1 DEF TypeInv, Hands
  <2>3. [backups[writer.dir] EXCEPT !.files = Tree] \in Snapshots
    BY <1>0, <2>2 DEF Snapshots
  <2>4. backups' \in [Dirs -> Snapshots \cup {None}]
    BY <1>0, <2>1, <2>2, <2>3
  <2>5. StoreTypes'
    BY <2>1, <2>4 DEF TypeInv, StoreTypes, disk, hist, count
  <2> QED BY <2>1, <2>5, LengthsStay, HandsStay DEF TypeInv, Step, disk, count
<1> QED BY <1>1, <1>2 DEF Backup


LEMMA CountedType ==
    ASSUME TypeInv, NEW m, m.lines \in Seq(Lines), Len(m.lines) <= erases
    PROVE  Counted(m) \in 0 .. MaxErases /\ Counted(m) <= erases
<1>1. /\ ident.erasures \in Nat /\ ident.erasures <= erases /\ erases \in 0 .. MaxErases
      /\ MaxErases \in Nat /\ Len(m.lines) \in Nat
  BY BoundsAreNat DEF TypeInv, StoreTypes, Lengths
<1> QED BY <1>1 DEF Counted, Larger

LEMMA SourceIsShort ==
    ASSUME TypeInv, writer.op = "restore", writer.step \in {"stage", "merge"}
    PROVE  Source(writer.file).lines \in Seq(Lines) /\ Len(Source(writer.file).lines) <= erases
<1>1. Source(writer.file).lines \in Seq(Lines)
  BY SourceIsManifest DEF TypeInv
<1>2. writer.file => kept # None
  BY DEF TypeInv, LedgerTypes
<1> QED BY <1>1, <1>2 DEF Source, TypeInv, Lengths

LEMMA NextRestoreStep ==
    ASSUME writer \in Writers, NEW step \in Steps, writer' = [writer EXCEPT !.step = step], writer.op = "restore"
    PROVE  /\ writer'.op = "restore" /\ writer'.step = step /\ writer'.dir = writer.dir
           /\ writer'.file = writer.file
BY GotoIsWriter

\* The steps of a restore that move stores and leave the identity alone.
LEMMA RestoreMovesTyped ==
    ASSUME TypeInv, UNCHANGED <<backups, kept, ident, request, erases, epochs, saves, erased, served>>,
           manifest' = manifest, writer'.op \in {"idle", "restore"},
           (Step("restore", "stage"))' => writer'.dir \in Dirs /\ backups[writer'.dir] \in Snapshots,
           (Step("restore", "merge") \/ Step("restore", "keep"))' => staged' \in [db : Databases, files : Trees],
           db' \in Databases, files' \in Trees \cup {None}, pre' \in Trees \cup {None},
           staged' \in [db : Databases \cup {None}, files : Trees \cup {None}]
    PROVE  StoreTypes' /\ Lengths' /\ Hands'
<1>1. StoreTypes'
  BY DEF TypeInv, StoreTypes
<1>2. Lengths'
  BY LengthsStay DEF TypeInv, Step
<1>3. Hands'
  BY DEF Hands, Step
<1> QED BY <1>1, <1>2, <1>3

LEMMA RestoreTyped == ASSUME TypeInv, LedgerTypes', Restore PROVE StoreTypes' /\ Lengths' /\ Hands'
<1>0. /\ writer \in Writers /\ db \in Databases /\ files \in Trees \cup {None} /\ pre \in Trees \cup {None}
      /\ backups \in [Dirs -> Snapshots \cup {None}]
      /\ staged \in [db : Databases \cup {None}, files : Trees \cup {None}]
      /\ ident \in [epoch : Epochs, erasures : Nat]
      /\ NoStage \in [db : Databases \cup {None}, files : Trees \cup {None}]
      /\ {"merge", "keep", "aside", "in", "install", "drop", "finish"} \subseteq Steps
  BY DEF TypeInv, StoreTypes, LedgerTypes, NoStage, Steps
<1>1. ASSUME NEW b \in Dirs, RestoreResume(b) PROVE StoreTypes' /\ Lengths' /\ Hands'
  <2>1. /\ writer'.op = "restore" /\ writer'.step = "aside"
        /\ UNCHANGED <<disk, backups, kept, request, hist, count>>
    BY <1>1 DEF RestoreResume, Idle
  <2> QED BY <1>0, <2>1, RestoreMovesTyped DEF disk, hist, count, Step
<1>2. ASSUME NEW b \in Dirs, NEW named \in BOOLEAN, RestoreBegin(b, named)
      PROVE  StoreTypes' /\ Lengths' /\ Hands'
  <2>1. /\ writer'.op = "restore" /\ writer'.step = "stage" /\ writer'.dir = b
        /\ backups[b] # None /\ staged' = NoStage
        /\ UNCHANGED <<db, files, backups, manifest, kept, ident, pre, request, hist, count>>
    BY <1>2 DEF RestoreBegin, Idle
  <2>2. backups[b] \in Snapshots
    BY <1>0, <2>1
  <2> QED BY <1>0, <2>1, <2>2, RestoreMovesTyped DEF hist, count, Step
<1>3. CASE RestoreStage
  <2>1. /\ Step("restore", "stage") /\ epochs < MaxEpochs
        /\ staged' = [db    |-> [backups[writer.dir].db EXCEPT !.state = "merging"],
                      files |-> IF backups[writer.dir].files = None THEN Empty ELSE backups[writer.dir].files]
        /\ epochs' = epochs + 1
        /\ ident' = [epoch |-> epochs', erasures |-> Counted(Source(writer.file))]
        /\ writer'.op = "restore" /\ writer'.step = "merge"
        /\ UNCHANGED <<db, files, backups, manifest, kept, pending, pre, request, hist, saves, erases>>
    BY <1>0, <1>3, NextRestoreStep DEF RestoreStage, Goto, Step
  <2>2. backups[writer.dir] \in Snapshots
    BY <2>1 DEF TypeInv, Hands
  <2>3. staged' \in [db : Databases, files : Trees]
    <3>1. [backups[writer.dir].db EXCEPT !.state = "merging"] \in Databases
      <4>1. backups[writer.dir].db \in Databases
        BY <2>2 DEF Snapshots
      <4>2. \A d \in Databases : [d EXCEPT !.state = "merging"] \in Databases
        BY DEF Databases
      <4> QED BY <4>1, <4>2
    <3>2. backups[writer.dir].files \in Trees \cup {None}
      BY <2>2 DEF Snapshots
    <3> QED BY <2>1, <3>1, <3>2, EmptyIsTree
  <2>4. Counted(Source(writer.file)) \in 0 .. MaxErases /\ Counted(Source(writer.file)) <= erases
    BY <2>1, SourceIsShort, CountedType DEF Step
  <2>5. epochs' \in Epochs
    BY <2>1, BoundsAreNat DEF TypeInv, StoreTypes, Epochs
  <2>6. StoreTypes'
    BY <2>1, <2>3, <2>4, <2>5, BoundsAreNat DEF TypeInv, StoreTypes, hist
  <2>7. Lengths' /\ Hands'
    BY <2>1, <2>3, <2>4 DEF TypeInv, Lengths, Hands, Step
  <2> QED BY <2>6, <2>7
<1>4. CASE RestoreMerge
  <2> DEFINE found == Source(writer.file)
             into  == LinesInto(staged, found.lines)
             state == IF Established(found) THEN "none" ELSE "unknown"
             new   == [into.db EXCEPT !.epoch = ident.epoch, !.stamp = ident.erasures, !.state = state]
  <2>1. /\ Step("restore", "merge")
        /\ staged' = [into EXCEPT !.db.epoch = ident.epoch, !.db.stamp = ident.erasures, !.db.state = state]
        /\ writer'.op = "restore" /\ writer'.step = "keep"
        /\ UNCHANGED <<db, files, backups, manifest, kept, ident, pre, request, hist, count>>
    BY <1>0, <1>4, NextRestoreStep DEF RestoreMerge, Goto, Step
  <2>2. into \in [db : Databases, files : Trees]
    <3>1. staged \in [db : Databases, files : Trees] /\ found.lines \in Seq(Lines)
      BY <2>1, SourceIsShort DEF TypeInv, Hands, Step
    <3> HIDE DEF found
    <3> QED BY <3>1, LinesIntoType
  <2> HIDE DEF into
  <2>3. staged' = [db |-> new, files |-> into.files]
    BY <2>1, <2>2
  <2>4. ident.epoch \in Epochs /\ ident.erasures \in 0 .. MaxErases
    BY <1>0, BoundsAreNat DEF TypeInv, StoreTypes, Lengths
  <2>5. new \in Databases
    BY <2>2, <2>4, MarkType
  <2> HIDE DEF new
  <2>6. staged' \in [db : Databases, files : Trees]
    BY <2>2, <2>3, <2>5
  <2>7. staged' \in [db : Databases \cup {None}, files : Trees \cup {None}]
    BY <2>6
  <2> QED BY <1>0, <2>1, <2>6, <2>7, RestoreMovesTyped DEF hist, count, Step
<1>5. CASE RestoreKeep
  <2>1. /\ pre' = None /\ writer'.op = "restore" /\ writer'.step = "aside"
        /\ UNCHANGED <<db, files, backups, manifest, kept, ident, staged, request, erased, served, count>>
    BY <1>0, <1>5, NextRestoreStep DEF RestoreKeep, Goto, Step
  <2> QED BY <1>0, <2>1, RestoreMovesTyped DEF count, Step
<1>6. CASE RestoreFail
  <2>1. /\ staged' = NoStage /\ writer'.op = "idle"
        /\ UNCHANGED <<db, files, backups, manifest, kept, ident, pre, request, hist, count>>
    BY <1>6, IdleIsWriter DEF RestoreFail
  <2> QED BY <1>0, <2>1, RestoreMovesTyped DEF hist, count, Step
<1>7. CASE SwapAside
  <2>1. /\ writer'.op \in {"idle", "restore"} /\ writer'.step \in {"idle", "install", "in"}
        /\ files' \in {files, None} /\ pre' \in {pre, files}
        /\ UNCHANGED <<db, backups, manifest, kept, ident, pending, staged, request, hist, count>>
    BY <1>0, <1>7, NextRestoreStep, IdleIsWriter DEF SwapAside, Goto, Step
  <2>2. files' \in Trees \cup {None} /\ pre' \in Trees \cup {None}
    BY <1>0, <2>1
  <2> QED BY <1>0, <2>1, <2>2, RestoreMovesTyped DEF hist, count, Step
<1>8. CASE SwapIn
  <2>1. /\ files' = staged.files /\ staged' = [staged EXCEPT !.files = None]
        /\ writer'.op = "restore" /\ writer'.step = "install"
        /\ UNCHANGED <<db, backups, manifest, kept, ident, pending, pre, request, hist, count>>
    BY <1>0, <1>8, NextRestoreStep DEF SwapIn, Goto, Step
  <2> QED BY <1>0, <2>1, RestoreMovesTyped DEF hist, count, Step
<1>9. CASE SwapInstall
  <2>1. /\ db' = IF staged.db = None THEN db ELSE staged.db
        /\ writer'.op = "restore" /\ writer'.step = "drop"
        /\ UNCHANGED <<files, backups, manifest, kept, ident, pending, staged, pre, request, hist, count>>
    BY <1>0, <1>9, NextRestoreStep DEF SwapInstall, Goto, Step
  <2>2. db' \in Databases
    BY <1>0, <2>1
  <2> QED BY <1>0, <2>1, <2>2, RestoreMovesTyped DEF hist, count, Step
<1>10. CASE SwapDrop
  <2>1. /\ staged' = [staged EXCEPT !.db = None]
        /\ writer'.op = "restore" /\ writer'.step = "finish"
        /\ UNCHANGED <<db, files, backups, manifest, kept, ident, pending, pre, request, hist, count>>
    BY <1>0, <1>10, NextRestoreStep DEF SwapDrop, Goto, Step
  <2> QED BY <1>0, <2>1, RestoreMovesTyped DEF hist, count, Step
<1>11. CASE SwapFinish
  <2>1. /\ writer'.op = "idle"
        /\ UNCHANGED <<db, files, backups, manifest, kept, ident, staged, pre, request, erased, served, count>>
    BY <1>11, IdleIsWriter DEF SwapFinish
  <2> QED BY <1>0, <2>1, RestoreMovesTyped DEF count, Step
<1> QED BY <1>1, <1>2, <1>3, <1>4, <1>5, <1>6, <1>7, <1>8, <1>9, <1>10, <1>11 DEF Restore


LEMMA ManifestIsShort ==
    ASSUME TypeInv
    PROVE  /\ manifest.lines \in Seq(Lines) /\ Len(manifest.lines) <= erases
           /\ kept # None => kept.lines \in Seq(Lines) /\ Len(kept.lines) <= erases
BY DEF TypeInv, LedgerTypes, Manifests, Lengths

LEMMA MergeTyped == ASSUME TypeInv, LedgerTypes', Merge PROVE StoreTypes' /\ Lengths' /\ Hands'
<1>0. writer \in Writers /\ db \in Databases /\ files \in Trees \cup {None} /\ Tree \in Trees
  BY EmptyIsTree DEF TypeInv, StoreTypes, LedgerTypes, Tree
<1>1. CASE MergeInstall
  <2>1. /\ manifest' = kept /\ kept # None /\ writer'.op = "merge"
        /\ UNCHANGED <<db, files, backups, kept, ident, pending, staged, pre, request, hist, count>>
    BY <1>1 DEF MergeInstall, Idle
  <2>2. StoreTypes'
    BY <2>1 DEF TypeInv, StoreTypes, hist, count
  <2>3. Lengths'
    BY <2>1 DEF TypeInv, Lengths, Step, count
  <2> QED BY <2>1, <2>2, <2>3, HandsStay DEF TypeInv
<1>2. CASE MergeLines
  <2> DEFINE into == LinesInto([db |-> db, files |-> Tree], manifest.lines)
  <2>1. /\ db' = into.db /\ files' = (IF files = None THEN None ELSE into.files) /\ writer'.op = "merge"
        /\ UNCHANGED <<backups, manifest, kept, ident, pending, staged, pre, request, hist, count>>
    BY <1>0, <1>2, GotoIsWriter DEF MergeLines, Goto, Step, Steps
  <2>2. into \in [db : Databases, files : Trees]
    <3> DEFINE at == [db |-> db, files |-> Tree]
    <3>1. at.db \in Databases /\ at.files \in Trees
      BY <1>0
    <3> HIDE DEF at
    <3>2. LinesInto(at, manifest.lines) \in [db : Databases, files : Trees]
      BY <3>1, ManifestIsShort, LinesIntoType
    <3> QED BY <3>2 DEF at
  <2> HIDE DEF into
  <2>3. db' \in Databases /\ files' \in Trees \cup {None}
    BY <2>1, <2>2
  <2>4. StoreTypes'
    BY <2>1, <2>3 DEF TypeInv, StoreTypes, hist, count
  <2> QED BY <2>1, <2>4, LengthsStay, HandsStay DEF TypeInv, Step, count
<1>3. CASE MergeClear
  <2>1. /\ db' = [db EXCEPT !.stamp = Counted(manifest), !.state = "none"] /\ writer'.op = "idle"
        /\ UNCHANGED <<files, backups, manifest, kept, ident, pending, staged, pre, request, hist, count>>
    BY <1>3, IdleIsWriter DEF MergeClear
  <2>2. Counted(manifest) \in 0 .. MaxErases
    BY ManifestIsShort, CountedType
  <2>3. db' \in Databases
    BY <1>0, <2>1, <2>2 DEF Databases
  <2>4. StoreTypes'
    BY <2>1, <2>3 DEF TypeInv, StoreTypes, hist, count
  <2> QED BY <2>1, <2>4, LengthsStay, HandsStay DEF TypeInv, Step, count
<1> QED BY <1>1, <1>2, <1>3 DEF Merge

LEMMA RequestTyped == ASSUME TypeInv, LedgerTypes', Request PROVE StoreTypes' /\ Lengths' /\ Hands'
<1>0. /\ writer \in Writers /\ db \in Databases /\ files \in Trees \cup {None}
      /\ ident \in [epoch : Epochs, erasures : Nat] /\ db.epoch \in Epochs /\ db.feed \in Seq(Entries)
      /\ request \in [step : {"idle", "checked", "repairing", "admitted"}, epoch : Epochs]
      /\ served \in [Epochs -> Seq(Entries)] /\ saves \in Versions
  BY DEF TypeInv, StoreTypes, LedgerTypes, Databases, Entries
<1>a. NoRequest \in [step : {"idle", "checked", "repairing", "admitted"}, epoch : Epochs]
  BY EmptyIsTree DEF NoRequest
<1>1. CASE RequestCheck
  <2>1. /\ request' = [step |-> "checked", epoch |-> db.epoch]
        /\ UNCHANGED <<disk, backups, kept, writer, hist, count>>
    BY <1>1 DEF RequestCheck
  <2>2. StoreTypes'
    BY <1>0, <2>1 DEF TypeInv, StoreTypes, disk, hist, count
  <2> QED BY <2>1, <2>2, LengthsStay, HandsStay DEF TypeInv, disk, count
<1>2. CASE RequestCurrent
  <2>1. request' = [request EXCEPT !.step = "admitted"] /\ UNCHANGED <<disk, backups, kept, writer, hist, count>>
    BY <1>2 DEF RequestCurrent
  <2>2. request' \in [step : {"idle", "checked", "repairing", "admitted"}, epoch : Epochs]
    BY <1>0, <2>1
  <2>3. StoreTypes'
    BY <2>1, <2>2 DEF TypeInv, StoreTypes, disk, hist, count
  <2> QED BY <2>1, <2>3, LengthsStay, HandsStay DEF TypeInv, disk, count
<1>3. CASE RepairDatabase
  <2> DEFINE state == IF Established(manifest) THEN "none" ELSE "unknown"
             b     == Bar(db, Digests(manifest.lines))
  <2>1. /\ epochs < MaxEpochs /\ epochs' = epochs + 1 /\ writer'.op = "repair"
        /\ db' = [b EXCEPT !.epoch = epochs', !.stamp = Counted(manifest), !.state = state]
        /\ request' = [request EXCEPT !.step = "repairing"]
        /\ UNCHANGED <<files, backups, manifest, kept, ident, pending, staged, pre, erased, served,
                       saves, erases, kills, losses, copies>>
    BY <1>3 DEF RepairDatabase, Idle
  <2>2. epochs' \in Epochs
    BY <2>1, BoundsAreNat DEF TypeInv, StoreTypes, Epochs
  <2>3. Counted(manifest) \in 0 .. MaxErases /\ b \in Databases
    BY <1>0, ManifestIsShort, CountedType, DigestsType, BarType
  <2> HIDE DEF b
  <2>4. db' \in Databases
    BY <2>1, <2>2, <2>3, MarkType
  <2>5. request' \in [step : {"idle", "checked", "repairing", "admitted"}, epoch : Epochs]
    BY <1>0, <2>1
  <2>6. StoreTypes'
    BY <2>1, <2>2, <2>4, <2>5 DEF TypeInv, StoreTypes
  <2> QED BY <2>1, <2>6, LengthsStay, HandsStay DEF TypeInv, Step
<1>4. CASE RepairIdentity
  <2>1. /\ ident' = [epoch |-> db.epoch, erasures |-> Counted(manifest)] /\ writer'.op = "idle"
        /\ request' \in {[step |-> "admitted", epoch |-> db.epoch], NoRequest}
        /\ UNCHANGED <<db, files, backups, manifest, kept, pending, staged, pre, hist, count>>
    BY <1>4, IdleIsWriter DEF RepairIdentity, NoRequest
  <2>2. Counted(manifest) \in 0 .. MaxErases /\ Counted(manifest) <= erases
    BY ManifestIsShort, CountedType
  <2>3. request' \in [step : {"idle", "checked", "repairing", "admitted"}, epoch : Epochs]
    BY <1>0, <1>a, <2>1
  <2>4. StoreTypes'
    BY <1>0, <2>1, <2>2, <2>3, BoundsAreNat DEF TypeInv, StoreTypes, hist, count
  <2>5. Lengths'
    BY <2>1, <2>2 DEF TypeInv, Lengths, Step, count
  <2> QED BY <2>1, <2>4, <2>5, HandsStay DEF TypeInv
<1>5. CASE RequestRead
  <2>1. /\ request' = NoRequest /\ UNCHANGED <<disk, backups, kept, writer, erased, goal, count>>
        /\ served' = IF request.epoch = db.epoch THEN [served EXCEPT ![db.epoch] = db.feed] ELSE served
    BY <1>5 DEF RequestRead
  <2>2. served' \in [Epochs -> Seq(Entries)]
    BY <1>0, <2>1
  <2>3. StoreTypes'
    BY <1>a, <2>1, <2>2 DEF TypeInv, StoreTypes, disk, count
  <2> QED BY <2>1, <2>3, LengthsStay, HandsStay DEF TypeInv, disk, count
<1>6. ASSUME NEW p \in Payloads, RequestImport(p) PROVE StoreTypes' /\ Lengths' /\ Hands'
  <2>1. /\ request' = NoRequest /\ db' = Store(db, p[1], p[2]) /\ files' = Place(files, p[1], p[2])
        /\ UNCHANGED <<backups, manifest, kept, ident, pending, staged, pre, writer, erased, served, count>>
    BY <1>6 DEF RequestImport
  <2>2. p[1] \in Entities /\ p[2] \in 1 .. MaxSaves /\ p[2] \in Versions
    BY BoundsAreNat DEF Payloads, Versions
  <2>3. db' \in Databases /\ files' \in Trees
    BY <1>0, <2>1, <2>2, StoreType, PlaceType
  <2>4. StoreTypes'
    BY <1>a, <2>1, <2>3 DEF TypeInv, StoreTypes, count
  <2> QED BY <2>1, <2>4, LengthsStay, HandsStay DEF TypeInv, count
<1> QED BY <1>1, <1>2, <1>3, <1>4, <1>5, <1>6 DEF Request

LEMMA MishapTyped == ASSUME TypeInv, LedgerTypes', Mishap PROVE StoreTypes' /\ Lengths' /\ Hands'
<1>1. CASE Kill
  <2>1. /\ writer'.op = "idle" /\ request' \in {request, NoRequest}
        /\ manifest' \in {manifest, [manifest EXCEPT !.there = TRUE, !.torn = TRUE]}
        /\ UNCHANGED <<db, files, backups, kept, ident, pending, staged, pre, hist, epochs, saves, erases>>
    BY <1>1, IdleIsWriter DEF Kill
  <2>2. manifest'.lines = manifest.lines
    BY <2>1 DEF TypeInv, LedgerTypes, Manifests
  <2>3. request' \in [step : {"idle", "checked", "repairing", "admitted"}, epoch : Epochs]
    BY <2>1, EmptyIsTree DEF TypeInv, StoreTypes, NoRequest
  <2>4. StoreTypes'
    BY <2>1, <2>3 DEF TypeInv, StoreTypes, hist
  <2> QED BY <2>1, <2>2, <2>4, LengthsStay, HandsStay DEF TypeInv, Step
<1>2. ASSUME NEW n \in 0 .. MaxErases, Lose(n) PROVE StoreTypes' /\ Lengths' /\ Hands'
  <2>1. /\ kept' = manifest /\ n < Len(manifest.lines) /\ n \in Nat /\ writer = Idle
        /\ manifest'.lines = SubSeq(manifest.lines, 1, n)
        /\ UNCHANGED <<db, files, backups, ident, pending, staged, pre, writer, request, hist,
                       epochs, saves, erases>>
    BY <1>2 DEF Lose, Free
  <2>2. Len(manifest'.lines) = n /\ Len(manifest.lines) <= erases /\ erases \in Nat /\ Len(manifest.lines) \in Nat
    <3>1. manifest.lines \in Seq(Lines) /\ Len(manifest.lines) <= erases
      BY ManifestIsShort
    <3>2. erases \in Nat
      BY DEF TypeInv, StoreTypes
    <3> QED BY <2>1, <3>1, <3>2, CutLines
  <2>3. StoreTypes'
    BY <2>1 DEF TypeInv, StoreTypes, hist
  <2>4. Lengths'
    BY <2>1, <2>2, IdleIsWriter DEF TypeInv, Lengths, Step
  <2> QED BY <2>1, <2>3, <2>4, HandsStay DEF TypeInv
<1>3. ASSUME NEW b \in Dirs, CopyByHand(b) PROVE StoreTypes' /\ Lengths' /\ Hands'
  <2>1. /\ db' = backups[b].db /\ backups[b] # None
        /\ UNCHANGED <<files, backups, manifest, kept, ident, pending, staged, pre, writer, request, hist,
                       epochs, saves, erases>>
    BY <1>3 DEF CopyByHand
  <2>2. db' \in Databases
    BY <2>1 DEF TypeInv, StoreTypes, Snapshots
  <2>3. StoreTypes'
    BY <2>1, <2>2 DEF TypeInv, StoreTypes, hist
  <2> QED BY <2>1, <2>3, LengthsStay, HandsStay DEF TypeInv
<1> QED BY <1>1, <1>2, <1>3 DEF Mishap

LEMMA TypeStep == TypeInv /\ [Next]_vars => TypeInv'
<1> SUFFICES ASSUME TypeInv, [Next]_vars PROVE TypeInv'
  OBVIOUS
<1>1. LedgerTypes'
  BY TypesStep DEF TypeInv
<1>2. CASE UNCHANGED vars
  <2>1. StoreTypes'
    BY <1>2 DEF TypeInv, StoreTypes, vars, disk, hist, count
  <2> QED BY <1>1, <1>2, <2>1, LengthsStay, HandsStay DEF TypeInv, vars, disk, hist, count
<1>3. CASE Next
  <2>1. ASSUME NEW e \in Entities, Save(e) PROVE StoreTypes' /\ Lengths' /\ Hands'
    BY <2>1, SaveTyped
  <2> QED BY <1>1, <1>3, <2>1, EraseTyped, BackupTyped, RestoreTyped, MergeTyped, RequestTyped, MishapTyped
          DEF Next, TypeInv
<1> QED BY <1>2, <1>3

LEMMA Typed == Spec => []TypeInv
<1>1. Init => TypeInv
  BY TypeInit
<1> QED BY <1>1, TypeStep, PTL DEF Spec

\* Type correctness: no database, markdown tree or manifest leaves its type, no stamp and no
\* count runs past the erases begun, and no epoch past those minted.
THEOREM EraseTypeCorrect == Spec => []TypeOK
<1>1. TypeInv => TypeOK
  <2> SUFFICES ASSUME TypeInv PROVE TypeOK
    OBVIOUS
  <2>1. ident \in [epoch : Epochs, erasures : 0 .. MaxErases]
    BY BoundsAreNat DEF TypeInv, StoreTypes, Lengths
  <2>2. \A b \in Dirs : backups[b] = None \/ (backups[b].db \in Databases /\ backups[b].files \in Trees \cup {None})
    BY DEF TypeInv, StoreTypes, Snapshots
  <2>3. manifest.lines \in Seq(Lines) /\ (kept = None \/ kept.lines \in Seq(Lines))
    BY ManifestIsShort
  <2> QED BY <2>1, <2>2, <2>3 DEF TypeInv, StoreTypes, TypeOK
<1> QED BY <1>1, Typed, PTL


(************************ what a restore installs *************************)

\* A line of the manifest names payloads of the memory it is about.
OwnLines(lines) == \A i \in DOMAIN lines : lines[i].digests \subseteq Own(lines[i].key)

LinesOwn ==
    /\ OwnLines(manifest.lines)
    /\ kept # None => OwnLines(kept.lines)
    /\ writer.op = "erase" => writer.digests \subseteq Own(writer.entity)

\* Neither the rows nor the markdown hold a payload that was erased.
WholeIn(d, t) == \A e \in Entities : <<e, d.row[e]>> \notin erased /\ <<e, t[e]>> \notin erased

SwapGoing == pending # None /\ pending.phase = "swapping"

\* The record of a restore is of the phase its command is in.
RecordInv ==
    /\ pending # None => pending \in [phase : {"staging", "swapping"}, source : Dirs]
    /\ Staging => pending # None /\ pending.phase = "staging"
    /\ Swapping => SwapGoing

\* Each step of a swap knows what the steps before it moved.
MovedInv ==
    /\ Step("restore", "in") => staged.files # None
    /\ Step("restore", "install") \/ Step("restore", "drop") \/ Step("restore", "finish") => staged.files = None
    /\ Step("restore", "finish") => staged.db = None

\* What a swap is to install is still staged, or already in place.
GoalInv ==
    /\ Step("restore", "keep") /\ staged.db.state = "none" => WholeIn(staged.db, staged.files)
    /\ goal # None =>
        /\ SwapGoing /\ goal.db # None /\ goal.files # None
        /\ writer.op \in {"idle", "backup", "restore"}
        /\ staged.files = goal.files \/ (staged.files = None /\ files = goal.files)
        /\ staged.db = goal.db \/ (staged.db = None /\ db = goal.db)
        /\ Step("restore", "drop") => db = goal.db
        /\ goal.db.state = "none" => WholeIn(goal.db, goal.files)

SwapInv == RecordInv /\ MovedInv /\ GoalInv
WholeInv == TypeInv /\ LedgerInv /\ LinesOwn /\ SwapInv

LEMMA OwnAppend ==
    ASSUME NEW s \in Seq(Lines), OwnLines(s), NEW line \in Lines, line.digests \subseteq Own(line.key)
    PROVE  OwnLines(Append(s, line))
BY DEF OwnLines

LEMMA OwnCut ==
    ASSUME NEW s \in Seq(Lines), OwnLines(s), NEW n \in Nat, n < Len(s)
    PROVE  OwnLines(SubSeq(s, 1, n))
BY DEF OwnLines

LEMMA LinesOwnStay ==
    ASSUME LinesOwn, manifest'.lines = manifest.lines, UNCHANGED kept,
           writer'.op # "erase" \/ (writer'.op = writer.op /\ writer'.digests = writer.digests
                                    /\ writer'.entity = writer.entity)
    PROVE  LinesOwn'
BY DEF LinesOwn, OwnLines, Own

LEMMA LinesOwnStep == ASSUME TypeInv, LinesOwn, [Next]_vars PROVE LinesOwn'
<1>0. writer \in Writers /\ manifest \in Manifests /\ manifest.lines \in Seq(Lines)
  BY DEF TypeInv, LedgerTypes, Manifests
<1>1. CASE UNCHANGED vars
  BY <1>1, LinesOwnStay DEF vars, disk
<1>2. ASSUME NEW e \in Entities, Save(e) PROVE LinesOwn'
  BY <1>2, LinesOwnStay DEF Save
<1>3. CASE Erase
  <2>1. ASSUME NEW e \in Entities, EraseFiles(e) PROVE LinesOwn'
    <3>1. writer'.digests = db.bytes \cap Own(e) /\ writer'.entity = e /\ UNCHANGED <<manifest, kept>>
      BY <1>0, <2>1, WriterFields DEF EraseFiles
    <3> QED BY <3>1 DEF LinesOwn, OwnLines, Own
  <2>2. CASE EraseLine
    <3> DEFINE line == [key |-> writer.entity, digests |-> writer.digests]
    <3>1. /\ manifest'.lines = Append(manifest.lines, line) /\ kept' = kept /\ writer.op = "erase"
          /\ writer'.op = writer.op /\ writer'.digests = writer.digests /\ writer'.entity = writer.entity
      BY <1>0, <2>2, GotoIsWriter DEF EraseLine, Goto, Step, Steps
    <3>2. line \in Lines /\ line.digests \subseteq Own(line.key)
      BY <1>0, <3>1 DEF TypeInv, LedgerTypes, LinesOwn, Lines, Writers
    <3> HIDE DEF line
    <3>3. OwnLines(manifest.lines)
      BY DEF LinesOwn
    <3>4. OwnLines(Append(manifest.lines, line))
      BY <1>0, <3>2, <3>3, OwnAppend
    <3>5. OwnLines(manifest.lines)'
      BY <3>1, <3>4 DEF OwnLines, Own
    <3> QED BY <3>1, <3>5 DEF LinesOwn, OwnLines, Own
  <2>3. CASE EraseCount
    BY <1>0, <2>3, GotoIsWriter, LinesOwnStay DEF EraseCount, Goto, Step, Steps
  <2>4. CASE EraseCommit
    BY <2>4, IdleIsWriter, LinesOwnStay DEF EraseCommit
  <2> QED BY <1>3, <2>1, <2>2, <2>3, <2>4 DEF Erase
<1>4. CASE Backup
  <2>1. UNCHANGED <<manifest, kept>> /\ writer'.op \in {"backup", "idle"}
    BY <1>4, IdleIsWriter DEF Backup, BackupDatabase, BackupFiles, disk, Idle
  <2> QED BY <2>1, LinesOwnStay
<1>5. CASE Restore
  <2>1. UNCHANGED <<manifest, kept>>
    BY <1>5 DEF Restore, RestoreResume, RestoreBegin, RestoreStage, RestoreMerge, RestoreKeep, RestoreFail,
                SwapAside, SwapIn, SwapInstall, SwapDrop, SwapFinish, disk
  <2>2. writer'.op \in {"restore", "idle"}
    <3>1. CASE (\E b \in Dirs : RestoreResume(b) \/ \E named \in BOOLEAN : RestoreBegin(b, named))
               \/ RestoreFail \/ SwapFinish
      BY <3>1, IdleIsWriter DEF RestoreResume, RestoreBegin, RestoreFail, SwapFinish, Idle
    <3>2. CASE RestoreStage \/ RestoreMerge \/ RestoreKeep
      BY <1>0, <3>2 DEF RestoreStage, RestoreMerge, RestoreKeep, Step, Goto, Writers
    <3>3. CASE SwapAside \/ SwapIn \/ SwapInstall \/ SwapDrop
      BY <1>0, <3>3, IdleIsWriter DEF SwapAside, SwapIn, SwapInstall, SwapDrop, Step, Goto, Writers
    <3> QED BY <1>5, <3>1, <3>2, <3>3 DEF Restore
  <2> QED BY <2>1, <2>2, LinesOwnStay
<1>6. CASE Merge
  <2>1. /\ UNCHANGED kept /\ writer'.op \in {"merge", "idle"}
        /\ manifest' = manifest \/ (manifest' = kept /\ kept # None)
    BY <1>0, <1>6, IdleIsWriter DEF Merge, MergeInstall, MergeLines, MergeClear, Step, Goto, Idle, Writers
  <2> QED BY <2>1 DEF LinesOwn, OwnLines, Own
<1>7. CASE Request
  <2>1. UNCHANGED <<manifest, kept>>
    BY <1>7 DEF Request, RequestCheck, RequestCurrent, RepairDatabase, RepairIdentity, RequestRead, RequestImport, disk
  <2>2. writer' = writer \/ writer'.op \in {"repair", "idle"}
    BY <1>7, IdleIsWriter DEF Request, RequestCheck, RequestCurrent, RepairDatabase, RepairIdentity, RequestRead,
                              RequestImport, Idle
  <2> QED BY <2>1, <2>2, LinesOwnStay
<1>8. CASE Mishap
  <2>1. CASE Kill
    BY <1>0, <2>1, IdleIsWriter, LinesOwnStay DEF Kill, Manifests
  <2>2. ASSUME NEW n \in 0 .. MaxErases, Lose(n) PROVE LinesOwn'
    <3>1. /\ kept' = manifest /\ n < Len(manifest.lines) /\ n \in Nat /\ writer' = writer /\ writer = Idle
          /\ manifest'.lines = SubSeq(manifest.lines, 1, n)
      BY <2>2 DEF Lose, Free
    <3>2. OwnLines(SubSeq(manifest.lines, 1, n)) /\ OwnLines(manifest.lines)
      BY <1>0, <3>1, OwnCut DEF LinesOwn
    <3> QED BY <3>1, <3>2, IdleIsWriter DEF LinesOwn, OwnLines, Own
  <2>3. ASSUME NEW b \in Dirs, CopyByHand(b) PROVE LinesOwn'
    BY <2>3, LinesOwnStay DEF CopyByHand
  <2> QED BY <1>8, <2>1, <2>2, <2>3 DEF Mishap
<1> QED BY <1>1, <1>2, <1>3, <1>4, <1>5, <1>6, <1>7, <1>8 DEF Next


LEMMA LinesIntoRows ==
    ASSUME NEW at, at.db \in Databases, NEW lines, NEW e \in Entities
    PROVE  LET named == \E i \in DOMAIN lines : lines[i].key = e
           IN  /\ named /\ Held(at.db, at.files, e) =>
                     LinesInto(at, lines).db.row[e] = 0 /\ LinesInto(at, lines).files[e] = 0
               /\ ~(named /\ Held(at.db, at.files, e)) =>
                     /\ LinesInto(at, lines).db.row[e] = at.db.row[e]
                     /\ LinesInto(at, lines).files[e] = at.files[e]
<1> DEFINE gone    == {x \in {lines[i].key : i \in DOMAIN lines} : Held(at.db, at.files, x)}
           live    == {x \in gone : Live(at.db, at.files, x)}
           blanked == {p \in at.db.bytes : p[1] \in gone}
           b       == Bar(at.db, blanked \cup Digests(lines))
           row     == [x \in Entities |-> IF x \in gone THEN 0 ELSE b.row[x]]
           feed    == b.feed \o Tombstones(lines, live)
           files1  == [x \in Entities |-> IF x \in gone THEN 0 ELSE at.files[x]]
           new     == [b EXCEPT !.row = row, !.feed = feed]
<1>1. LinesInto(at, lines) = [db |-> new, files |-> files1]
  BY Zenon DEF LinesInto
<1>2. b = [epoch |-> b.epoch, stamp |-> b.stamp, state |-> b.state, row |-> b.row, feed |-> b.feed,
           bytes |-> b.bytes, barred |-> b.barred] /\ b.row = at.db.row
  BY DEF Bar
<1>3. e \in gone <=> (\E i \in DOMAIN lines : lines[i].key = e) /\ Held(at.db, at.files, e)
  OBVIOUS
<1> HIDE DEF b, feed, gone
<1>4. new.row[e] = (IF e \in gone THEN 0 ELSE at.db.row[e])
      /\ files1[e] = (IF e \in gone THEN 0 ELSE at.files[e])
  BY <1>2
<1> HIDE DEF new, files1
<1>5. LinesInto(at, lines).db = new /\ LinesInto(at, lines).files = files1
  BY <1>1
<1> QED BY <1>3, <1>4, <1>5

\* A database merged with lines that name all that was erased holds none of it, nor does its markdown.
LEMMA MergedIsWhole ==
    ASSUME TypeInv, NEW at, at.db \in Databases, NEW lines, OwnLines(lines), erased \subseteq Digests(lines)
    PROVE  WholeIn(LinesInto(at, lines).db, LinesInto(at, lines).files)
<1> DEFINE into == LinesInto(at, lines)
<1>1. \A e \in Entities : <<e, 0>> \notin erased
  BY BoundsAreNat DEF TypeInv, StoreTypes, Payloads
<1>2. ASSUME NEW e \in Entities PROVE <<e, into.db.row[e]>> \notin erased /\ <<e, into.files[e]>> \notin erased
  <2> DEFINE named == \E i \in DOMAIN lines : lines[i].key = e
  <2>1. CASE named /\ Held(at.db, at.files, e)
    <3>1. into.db.row[e] = 0 /\ into.files[e] = 0
      BY <2>1, LinesIntoRows
    <3> QED BY <1>1, <3>1
  <2>2. CASE ~named
    <3>1. \A v : <<e, v>> \notin Digests(lines)
      BY <2>2 DEF Digests, OwnLines, Own
    <3> QED BY <3>1
  <2>3. CASE named /\ ~Held(at.db, at.files, e)
    <3>1. into.db.row[e] = at.db.row[e] /\ into.files[e] = at.files[e]
      BY <2>3, LinesIntoRows
    <3>2. at.db.row[e] = 0 /\ at.files[e] = 0
      BY <2>3 DEF Held
    <3> QED BY <1>1, <3>1, <3>2
  <2> QED BY <2>1, <2>2, <2>3
<1> QED BY <1>2 DEF WholeIn


LEMMA SwapStays ==
    ASSUME SwapInv, UNCHANGED <<pending, staged, goal, erased>>,
           writer' = writer \/ writer'.op \in {"idle", "backup"},
           goal # None => UNCHANGED <<db, files>>
    PROVE  SwapInv'
<1>1. RecordInv' /\ MovedInv'
  BY DEF SwapInv, RecordInv, MovedInv, Staging, Swapping, SwapGoing, Step
<1>2. GoalInv'
  BY DEF SwapInv, GoalInv, WholeIn, SwapGoing, Step
<1> QED BY <1>1, <1>2 DEF SwapInv

LEMMA SwapIdles ==
    ASSUME SwapInv, UNCHANGED <<pending, staged>>, goal' = None, writer'.op # "restore"
    PROVE  SwapInv'
<1>1. RecordInv' /\ MovedInv'
  BY DEF SwapInv, RecordInv, MovedInv, Staging, Swapping, SwapGoing, Step
<1>2. GoalInv'
  BY DEF GoalInv, Step
<1> QED BY <1>1, <1>2 DEF SwapInv

LEMMA SwapOthers ==
    ASSUME WholeInv, (\E e \in Entities : Save(e)) \/ Erase \/ Backup \/ Merge \/ Request \/ Mishap
    PROVE  SwapInv'
<1>0. writer \in Writers /\ SwapInv
  BY DEF WholeInv, TypeInv, LedgerTypes
<1>w. /\ writer.op \in {"erase", "merge", "repair"} \/ pending = None => goal = None
      /\ \A step \in Steps : [writer EXCEPT !.step = step].op = writer.op
  BY <1>0 DEF SwapInv, GoalInv, SwapGoing, Writers
<1>1. ASSUME NEW e \in Entities, Save(e) PROVE SwapInv'
  BY <1>0, <1>1, IdleIsWriter, SwapIdles DEF Save, Free
<1>2. CASE Erase
  <2>1. ASSUME NEW e \in Entities, EraseFiles(e) PROVE SwapInv'
    <3>1. goal' = None /\ writer'.op = "erase" /\ UNCHANGED <<pending, staged>>
      BY <1>0, <2>1, WriterFields DEF EraseFiles
    <3> QED BY <1>0, <3>1, SwapIdles
  <2>2. CASE EraseLine \/ EraseCount
    BY <1>0, <1>w, <2>2, SwapIdles DEF EraseLine, EraseCount, Step, Goto, Steps, hist
  <2>3. CASE EraseCommit
    BY <1>0, <1>w, <2>3, IdleIsWriter, SwapIdles DEF EraseCommit, Step
  <2> QED BY <1>2, <2>1, <2>2, <2>3 DEF Erase
<1>3. CASE Backup
  <2>1. UNCHANGED <<disk, hist>> /\ writer'.op \in {"backup", "idle"}
    BY <1>3, IdleIsWriter DEF Backup, BackupDatabase, BackupFiles, Idle
  <2> QED BY <1>0, <2>1, SwapStays DEF disk, hist
<1>4. CASE Merge
  <2>1. CASE MergeInstall
    BY <1>0, <1>w, <2>1, SwapIdles DEF MergeInstall, Idle, hist
  <2>2. CASE MergeLines
    BY <1>0, <1>w, <2>2, SwapIdles DEF MergeLines, Step, Goto, Steps, hist
  <2>3. CASE MergeClear
    BY <1>0, <1>w, <2>3, IdleIsWriter, SwapIdles DEF MergeClear, Step, hist
  <2> QED BY <1>4, <2>1, <2>2, <2>3 DEF Merge
<1>5. CASE Request
  <2>1. CASE RequestCheck \/ RequestCurrent \/ RequestRead
    BY <1>0, <2>1, SwapStays DEF RequestCheck, RequestCurrent, RequestRead, disk, hist
  <2>2. CASE RepairDatabase
    BY <1>0, <2>2, SwapIdles DEF RepairDatabase, Idle
  <2>3. CASE RepairIdentity
    BY <1>0, <1>w, <2>3, IdleIsWriter, SwapIdles DEF RepairIdentity, Step, hist
  <2>4. ASSUME NEW p \in Payloads, RequestImport(p) PROVE SwapInv'
    BY <1>0, <2>4, IdleIsWriter, SwapIdles DEF RequestImport, Free
  <2> QED BY <1>5, <2>1, <2>2, <2>3, <2>4 DEF Request
<1>6. CASE Mishap
  <2>1. CASE Kill
    BY <1>0, <2>1, IdleIsWriter, SwapStays DEF Kill, hist
  <2>2. ASSUME NEW n \in 0 .. MaxErases, Lose(n) PROVE SwapInv'
    BY <1>0, <2>2, SwapStays DEF Lose, hist
  <2>3. ASSUME NEW b \in Dirs, CopyByHand(b) PROVE SwapInv'
    BY <1>0, <1>w, <2>3, IdleIsWriter, SwapIdles DEF CopyByHand, Free, hist
  <2> QED BY <1>6, <2>1, <2>2, <2>3 DEF Mishap
<1> QED BY <1>1, <1>2, <1>3, <1>4, <1>5, <1>6

LEMMA SwapStaging ==
    ASSUME WholeInv, NEW b \in Dirs, NEW named \in BOOLEAN,
           RestoreBegin(b, named) \/ RestoreStage \/ RestoreMerge \/ RestoreKeep \/ RestoreFail
    PROVE  SwapInv'
<1>0. /\ writer \in Writers /\ SwapInv
      /\ {"merge", "keep", "aside", "in", "install", "drop", "finish"} \subseteq Steps
  BY DEF WholeInv, TypeInv, LedgerTypes, Steps
<1>1. CASE RestoreBegin(b, named)
  <2>1. /\ writer'.op = "restore" /\ writer'.step = "stage" /\ pending' = [phase |-> "staging", source |-> b]
        /\ goal' = goal /\ (pending # None => pending.phase = "staging") /\ staged' = NoStage
    BY <1>1 DEF RestoreBegin, Idle, hist
  <2>2. goal = None
    BY <1>0, <2>1 DEF SwapInv, GoalInv, SwapGoing
  <2>3. pending' # None
    BY <2>1, EraseAssumption DEF EraseAssumption
  <2>4. RecordInv' /\ MovedInv' /\ GoalInv'
    BY <2>1, <2>2, <2>3 DEF RecordInv, MovedInv, GoalInv, Staging, Swapping, Step
  <2> QED BY <2>4 DEF SwapInv
<1>2. CASE RestoreStage
  <2>1. /\ Step("restore", "stage") /\ writer'.op = "restore" /\ writer'.step = "merge"
        /\ UNCHANGED <<pending, goal, erased, db, files>>
    BY <1>0, <1>2, NextRestoreStep DEF RestoreStage, Goto, Step, hist
  <2>2. goal = None
    BY <1>0, <2>1 DEF SwapInv, RecordInv, GoalInv, SwapGoing, Staging, Step
  <2>3. RecordInv' /\ MovedInv' /\ GoalInv'
    BY <1>0, <2>1, <2>2 DEF SwapInv, RecordInv, MovedInv, GoalInv, Staging, Swapping, Step
  <2> QED BY <2>3 DEF SwapInv
<1>3. CASE RestoreMerge
  <2> DEFINE found == Source(writer.file)
             into  == LinesInto(staged, found.lines)
             state == IF Established(found) THEN "none" ELSE "unknown"
             new   == [into.db EXCEPT !.epoch = ident.epoch, !.stamp = ident.erasures, !.state = state]
  <2>1. /\ Step("restore", "merge") /\ writer'.op = "restore" /\ writer'.step = "keep"
        /\ staged' = [into EXCEPT !.db.epoch = ident.epoch, !.db.stamp = ident.erasures, !.db.state = state]
        /\ UNCHANGED <<pending, goal, erased, db, files>>
    BY <1>0, <1>3, NextRestoreStep DEF RestoreMerge, Goto, Step, hist
  <2>2. goal = None
    BY <1>0, <2>1 DEF SwapInv, RecordInv, GoalInv, SwapGoing, Staging, Step
  <2>3. /\ staged \in [db : Databases, files : Trees] /\ found.lines \in Seq(Lines)
        /\ found = manifest \/ (kept # None /\ found = kept)
    <3>1. writer.file => kept # None
      BY <2>1 DEF WholeInv, TypeInv, LedgerTypes, Step
    <3> QED BY <2>1, <3>1, SourceIsShort DEF WholeInv, TypeInv, Hands, Step, Source
  <2>4. Established(found) => WholeIn(into.db, into.files)
    <3> SUFFICES ASSUME Established(found) PROVE WholeIn(into.db, into.files)
      OBVIOUS
    <3>1. erased \subseteq Digests(found.lines)
      BY <2>1, <2>3, LongEnoughCovers DEF Established, WholeInv, Step
    <3>2. OwnLines(found.lines)
      BY <2>3 DEF WholeInv, LinesOwn
    <3> HIDE DEF found
    <3> QED BY <2>3, <3>1, <3>2, MergedIsWhole DEF WholeInv
  <2>5. into \in [db : Databases, files : Trees]
    <3> HIDE DEF found
    <3> QED BY <2>3, LinesIntoType
  <2> HIDE DEF into
  <2>6. staged' = [db |-> new, files |-> into.files] /\ new.row = into.db.row /\ new.state = state
    BY <2>1, <2>5 DEF Databases
  <2>7. staged'.db.row = into.db.row /\ staged'.db.state = state /\ staged'.files = into.files
    BY <2>6
  <2>8. RecordInv' /\ MovedInv'
    BY <1>0, <2>1 DEF SwapInv, RecordInv, MovedInv, Staging, Swapping, Step
  <2>9. GoalInv'
    BY <2>1, <2>2, <2>4, <2>7 DEF GoalInv, WholeIn, Step
  <2> QED BY <2>8, <2>9 DEF SwapInv
<1>4. CASE RestoreKeep
  <2>1. /\ Step("restore", "keep") /\ writer'.op = "restore" /\ writer'.step = "aside"
        /\ pending' = [pending EXCEPT !.phase = "swapping"] /\ goal' = staged
        /\ UNCHANGED <<staged, erased, db, files>>
    BY <1>0, <1>4, NextRestoreStep DEF RestoreKeep, Goto, Step
  <2>2. pending \in [phase : {"staging", "swapping"}, source : Dirs]
    BY <1>0, <2>1 DEF SwapInv, RecordInv, Staging, Step
  <2>3. pending' \in [phase : {"staging", "swapping"}, source : Dirs] /\ pending'.phase = "swapping"
    BY <2>1, <2>2
  <2>4. SwapGoing'
    BY <2>3, EraseAssumption DEF EraseAssumption, SwapGoing
  <2>5. staged.db # None /\ staged.files # None
    BY <2>1, NoneIsNoStore DEF WholeInv, TypeInv, Hands
  <2>6. RecordInv' /\ MovedInv'
    BY <2>1, <2>3, <2>4 DEF RecordInv, MovedInv, Staging, Swapping, Step
  <2>7. GoalInv'
    BY <1>0, <2>1, <2>4, <2>5 DEF SwapInv, GoalInv, WholeIn, Step
  <2> QED BY <2>6, <2>7 DEF SwapInv
<1>5. CASE RestoreFail
  <2>1. /\ Staging /\ writer'.op = "idle" /\ pending' = None /\ goal' = goal
    BY <1>5, IdleIsWriter DEF RestoreFail, Staging, Step, hist
  <2>2. goal = None
    BY <1>0, <2>1 DEF SwapInv, RecordInv, GoalInv, SwapGoing
  <2>3. RecordInv' /\ MovedInv' /\ GoalInv'
    BY <2>1, <2>2 DEF RecordInv, MovedInv, GoalInv, Staging, Swapping, Step
  <2> QED BY <2>3 DEF SwapInv
<1> QED BY <1>1, <1>2, <1>3, <1>4, <1>5


LEMMA SwapMoves ==
    ASSUME WholeInv, NEW b \in Dirs,
           RestoreResume(b) \/ SwapAside \/ SwapIn \/ SwapInstall \/ SwapDrop \/ SwapFinish
    PROVE  SwapInv'
<1>0. /\ writer \in Writers /\ SwapInv
      /\ {"aside", "in", "install", "drop", "finish"} \subseteq Steps
      /\ staged \in [db : Databases \cup {None}, files : Trees \cup {None}]
  BY DEF WholeInv, TypeInv, StoreTypes, LedgerTypes, Steps
<1>1. CASE RestoreResume(b)
  <2>1. /\ writer'.op = "restore" /\ writer'.step = "aside" /\ SwapGoing
        /\ UNCHANGED <<pending, staged, goal, erased, db, files>>
    BY <1>1 DEF RestoreResume, Idle, SwapGoing, disk, hist
  <2>2. RecordInv' /\ MovedInv' /\ GoalInv'
    BY <1>0, <2>1 DEF SwapInv, RecordInv, MovedInv, GoalInv, WholeIn, Staging, Swapping, SwapGoing, Step
  <2> QED BY <2>2 DEF SwapInv
<1>2. CASE SwapAside
  <2>1. /\ Swapping /\ UNCHANGED <<db, pending, staged, goal, erased>>
        /\ \/ writer'.op = "restore" /\ writer'.step = "install" /\ staged.files = None /\ files' = files
           \/ writer'.op = "restore" /\ writer'.step = "in" /\ staged.files # None
           \/ writer'.op = "idle" /\ staged.files # None
    BY <1>0, <1>2, NextRestoreStep, IdleIsWriter DEF SwapAside, Goto, Step, Swapping, hist
  <2>2. RecordInv' /\ MovedInv'
    BY <1>0, <2>1 DEF SwapInv, RecordInv, MovedInv, Staging, Swapping, SwapGoing, Step
  <2>3. GoalInv'
    BY <1>0, <2>1 DEF SwapInv, GoalInv, WholeIn, SwapGoing, Step
  <2> QED BY <2>2, <2>3 DEF SwapInv
<1>3. CASE SwapIn
  <2>1. /\ Swapping /\ Step("restore", "in") /\ UNCHANGED <<db, pending, goal, erased>>
        /\ writer'.op = "restore" /\ writer'.step = "install"
        /\ files' = staged.files /\ staged' = [staged EXCEPT !.files = None]
    BY <1>0, <1>3, NextRestoreStep DEF SwapIn, Goto, Step, Swapping, hist
  <2>2. staged'.files = None /\ staged'.db = staged.db /\ staged.files # None
    BY <1>0, <2>1 DEF SwapInv, MovedInv
  <2>3. RecordInv' /\ MovedInv'
    BY <1>0, <2>1, <2>2 DEF SwapInv, RecordInv, MovedInv, Staging, Swapping, SwapGoing, Step
  <2>4. GoalInv'
    BY <1>0, <2>1, <2>2 DEF SwapInv, GoalInv, WholeIn, SwapGoing, Step
  <2> QED BY <2>3, <2>4 DEF SwapInv
<1>4. CASE SwapInstall
  <2>1. /\ Swapping /\ Step("restore", "install") /\ UNCHANGED <<files, pending, staged, goal, erased>>
        /\ writer'.op = "restore" /\ writer'.step = "drop"
        /\ db' = IF staged.db = None THEN db ELSE staged.db
    BY <1>0, <1>4, NextRestoreStep DEF SwapInstall, Goto, Step, Swapping, hist
  <2>2. RecordInv' /\ MovedInv'
    BY <1>0, <2>1 DEF SwapInv, RecordInv, MovedInv, Staging, Swapping, SwapGoing, Step
  <2>3. GoalInv'
    BY <1>0, <2>1 DEF SwapInv, GoalInv, WholeIn, SwapGoing, Step
  <2> QED BY <2>2, <2>3 DEF SwapInv
<1>5. CASE SwapDrop
  <2>1. /\ Swapping /\ Step("restore", "drop") /\ UNCHANGED <<db, files, pending, goal, erased>>
        /\ writer'.op = "restore" /\ writer'.step = "finish"
        /\ staged' = [staged EXCEPT !.db = None]
    BY <1>0, <1>5, NextRestoreStep DEF SwapDrop, Goto, Step, Swapping, hist
  <2>2. staged'.files = staged.files /\ staged'.db = None
    BY <1>0, <2>1
  <2>3. RecordInv' /\ MovedInv'
    BY <1>0, <2>1, <2>2 DEF SwapInv, RecordInv, MovedInv, Staging, Swapping, SwapGoing, Step
  <2>4. GoalInv'
    BY <1>0, <2>1, <2>2 DEF SwapInv, GoalInv, WholeIn, SwapGoing, Step
  <2> QED BY <2>3, <2>4 DEF SwapInv
<1>6. CASE SwapFinish
  <2>1. writer'.op = "idle" /\ pending' = None /\ goal' = None
    BY <1>6, IdleIsWriter DEF SwapFinish
  <2>2. RecordInv' /\ MovedInv' /\ GoalInv'
    BY <2>1 DEF RecordInv, MovedInv, GoalInv, Staging, Swapping, Step
  <2> QED BY <2>2 DEF SwapInv
<1> QED BY <1>1, <1>2, <1>3, <1>4, <1>5, <1>6

LEMMA WholeStep == WholeInv /\ [Next]_vars => WholeInv'
<1> SUFFICES ASSUME WholeInv, [Next]_vars PROVE WholeInv'
  OBVIOUS
<1>1. TypeInv' /\ LedgerInv' /\ LinesOwn'
  BY TypeStep, LedgerStep, LinesOwnStep DEF WholeInv
<1>2. CASE UNCHANGED vars
  <2>1. SwapInv'
    BY <1>2, SwapStays DEF WholeInv, vars, disk, hist
  <2> QED BY <1>1, <2>1 DEF WholeInv
<1>3. CASE Next
  <2>1. ASSUME Restore PROVE SwapInv'
    <3>1. ASSUME NEW b \in Dirs, RestoreResume(b) PROVE SwapInv'
      BY <3>1, SwapMoves
    <3>2. ASSUME NEW b \in Dirs, NEW named \in BOOLEAN, RestoreBegin(b, named) PROVE SwapInv'
      BY <3>2, SwapStaging
    <3>3. CASE RestoreStage \/ RestoreMerge \/ RestoreKeep \/ RestoreFail
      <4>1. Staging
        BY <3>3 DEF Staging, RestoreStage, RestoreMerge, RestoreKeep, RestoreFail, Step
      <4>2. pending.source \in Dirs
        BY <4>1 DEF WholeInv, SwapInv, RecordInv
      <4> QED BY <3>3, <4>2, SwapStaging
    <3>4. CASE SwapAside \/ SwapIn \/ SwapInstall \/ SwapDrop \/ SwapFinish
      <4>1. Swapping
        BY <3>4 DEF Swapping, SwapAside, SwapIn, SwapInstall, SwapDrop, SwapFinish, Step
      <4>2. pending.source \in Dirs
        BY <4>1 DEF WholeInv, SwapInv, RecordInv, SwapGoing
      <4> QED BY <3>4, <4>2, SwapMoves
    <3> QED BY <2>1, <3>1, <3>2, <3>3, <3>4 DEF Restore
  <2>2. SwapInv'
    BY <1>3, <2>1, SwapOthers DEF Next
  <2> QED BY <1>1, <2>2 DEF WholeInv
<1> QED BY <1>2, <1>3

LEMMA WholeInit == Init => WholeInv
<1> SUFFICES ASSUME Init PROVE WholeInv
  OBVIOUS
<1>1. TypeInv /\ LedgerInv
  BY TypeInit, LedgerInit
<1>2. LinesOwn
  BY IdleIsWriter DEF Init, LinesOwn, OwnLines
<1>3. SwapInv
  BY IdleIsWriter DEF Init, SwapInv, RecordInv, MovedInv, GoalInv, Staging, Swapping, Step
<1> QED BY <1>1, <1>2, <1>3 DEF WholeInv

LEMMA Wholly == Spec => []WholeInv
BY WholeInit, WholeStep, PTL DEF Spec

\* A restore that ends has installed the database and the markdown it staged, however often
\* it was killed and rerun on the way, and nothing erased came back with them.
THEOREM RestoreIsWholeAlways == Spec => RestoreIsWhole
<1>1. ASSUME WholeInv, SwapFinish, goal # None
      PROVE  /\ db = goal.db /\ files = goal.files
             /\ db.state = "none" =>
                   \A e \in Entities : <<e, db.row[e]>> \notin erased /\ <<e, files[e]>> \notin erased
  <2>1. staged.files = None /\ staged.db = None
    BY <1>1 DEF WholeInv, SwapInv, MovedInv, SwapFinish
  <2>2. db = goal.db
    BY <1>1, <2>1 DEF WholeInv, SwapInv, GoalInv
  <2>3. files = goal.files
    BY <1>1, <2>1 DEF WholeInv, SwapInv, GoalInv
  <2> QED BY <1>1, <2>2, <2>3 DEF WholeInv, SwapInv, GoalInv, WholeIn
<1>2. WholeInv =>
        (SwapFinish /\ goal # None =>
            /\ db = goal.db /\ files = goal.files
            /\ db.state = "none" =>
                  \A e \in Entities : <<e, db.row[e]>> \notin erased /\ <<e, files[e]>> \notin erased)
  BY <1>1
<1> QED BY <1>2, Wholly, PTL DEF RestoreIsWhole


(***************************** the streams ********************************)

LEMMA PrefixOfSelf == ASSUME NEW S, NEW s \in Seq(S) PROVE IsPrefix(s, s)
BY DEF IsPrefix

LEMMA EmptyIsPrefix == ASSUME NEW S, NEW t \in Seq(S) PROVE IsPrefix(<<>>, t)
BY DEF IsPrefix

LEMMA PrefixAppended ==
    ASSUME NEW S, NEW s \in Seq(S), NEW t \in Seq(S), NEW x \in S, IsPrefix(s, t)
    PROVE  IsPrefix(s, Append(t, x))
<1>1. Len(s) \in Nat /\ Len(t) \in Nat /\ Len(s) <= Len(t) /\ SubSeq(s, 1, Len(s)) = SubSeq(t, 1, Len(s))
  BY DEF IsPrefix
<1>2. Len(Append(t, x)) = Len(t) + 1 /\ SubSeq(Append(t, x), 1, Len(s)) = SubSeq(t, 1, Len(s))
  BY <1>1
<1> QED BY <1>1, <1>2 DEF IsPrefix

LEMMA PrefixExtended ==
    ASSUME NEW S, NEW s \in Seq(S), NEW t \in Seq(S), NEW u \in Seq(S), IsPrefix(s, t)
    PROVE  IsPrefix(s, t \o u)
<1>1. Len(s) \in Nat /\ Len(t) \in Nat /\ Len(u) \in Nat /\ Len(s) <= Len(t)
      /\ SubSeq(s, 1, Len(s)) = SubSeq(t, 1, Len(s))
  BY DEF IsPrefix
<1>2. Len(t \o u) = Len(t) + Len(u) /\ SubSeq(t \o u, 1, Len(s)) = SubSeq(t, 1, Len(s))
  BY <1>1
<1> QED BY <1>1, <1>2 DEF IsPrefix

\* An epoch nothing was served under, and which no request was checked under.
New(x) == served[x] = <<>> /\ (request.step # "idle" => request.epoch # x)

\* A database that could be served has not gone back behind what was served of it; one
\* that is to become the live one is of an epoch nobody has seen.
StreamInv ==
    /\ \A x \in Epochs : x > epochs => served[x] = <<>>
    /\ Agrees(db) => Onward
    /\ request.step = "admitted" /\ request.epoch = db.epoch => Onward
    /\ writer.op \in {"erase", "merge"} => Onward
    /\ writer.op = "repair" => served[db.epoch] = <<>> /\ request.step = "repairing"
    /\ Step("restore", "merge") => New(ident.epoch)
    /\ (Step("restore", "keep") \/ SwapGoing) /\ staged.db # None => New(staged.db.epoch)

FlowInv == WholeInv /\ SafeInv /\ StreamInv

\* A step that serves nothing, admits nothing and mints nothing.
LEMMA StreamStays ==
    ASSUME StreamInv, UNCHANGED <<served, request, epochs>>,
           ident'.epoch = ident.epoch, db'.epoch = db.epoch, Onward => Onward',
           Agrees(db)' => Agrees(db) \/ Onward',
           writer'.op \in {"erase", "merge"} => Onward',
           writer'.op = "repair" => writer.op = "repair",
           (Step("restore", "merge"))' => Step("restore", "merge"),
           (Step("restore", "keep") \/ SwapGoing)' /\ staged'.db # None =>
               /\ Step("restore", "keep") \/ SwapGoing
               /\ staged.db # None /\ staged'.db.epoch = staged.db.epoch
    PROVE  StreamInv'
BY DEF StreamInv, New

\* A step that touches neither the stores of a restore nor the live database.
LEMMA StreamRests ==
    ASSUME StreamInv, UNCHANGED <<served, request, epochs, db, ident, pending>>, staged'.db = staged.db,
           writer' = writer \/ writer'.op \in {"idle", "backup"}
    PROVE  StreamInv'
<1>1. (Onward => Onward') /\ (Agrees(db)' => Agrees(db)) /\ (SwapGoing' <=> SwapGoing)
  BY DEF Onward, Agrees, SwapGoing
<1>2. CASE writer' = writer
  BY <1>1, <1>2, StreamStays DEF StreamInv, Step
<1>3. CASE writer'.op \in {"idle", "backup"}
  BY <1>1, <1>3, StreamStays DEF Step
<1> QED BY <1>2, <1>3

LEMMA FlowTypes ==
    ASSUME FlowInv
    PROVE  /\ writer \in Writers /\ db.feed \in Seq(Entries) /\ db.epoch \in Epochs /\ db \in Databases
           /\ served \in [Epochs -> Seq(Entries)] /\ epochs \in Epochs /\ epochs \in Nat
           /\ \A x \in Epochs : served[x] \in Seq(Entries) /\ x \in Nat
           /\ db.epoch <= epochs /\ ident.epoch <= epochs /\ request.epoch <= epochs
           /\ ident.epoch \in Epochs /\ request.epoch \in Epochs
<1>1. db.epoch <= epochs /\ ident.epoch <= epochs /\ request.epoch <= epochs
  BY DEF FlowInv, SafeInv, DataInv, Numbers, StoresSound, Sound, SoundAt
<1>2. \A x \in Epochs : x \in Nat
  BY DEF Epochs
<1> QED BY <1>1, <1>2 DEF FlowInv, WholeInv, TypeInv, LedgerTypes, StoreTypes, Databases, Entries

LEMMA SaveFlows == ASSUME FlowInv, NEW e \in Entities, Save(e) PROVE StreamInv'
<1>1. /\ db' = Store(db, e, saves') /\ saves' \in Versions /\ writer = Idle
      /\ UNCHANGED <<ident, pending, staged, writer, request, epochs, served>>
  BY BoundsAreNat DEF Save, Free, FlowInv, WholeInv, TypeInv, StoreTypes, Versions
<1>2. db'.feed = Append(db.feed, <<e, saves'>>) /\ db'.epoch = db.epoch /\ db'.stamp = db.stamp
  BY <1>1, FlowTypes DEF Store, Databases
<1>3. <<e, saves'>> \in Entries
  BY <1>1 DEF Entries
<1>4. Onward => Onward'
  BY <1>1, <1>2, <1>3, FlowTypes, PrefixAppended DEF Onward
<1>5. (Agrees(db)' => Agrees(db)) /\ (SwapGoing' <=> SwapGoing)
  BY <1>1, <1>2 DEF Agrees, SwapGoing
<1> QED BY <1>1, <1>2, <1>4, <1>5, IdleIsWriter, StreamStays DEF FlowInv, Step

LEMMA EraseFlows == ASSUME ~StampsAnywhere, FlowInv, Erase PROVE StreamInv'
<1>0. writer \in Writers /\ StreamInv
  BY DEF FlowInv, WholeInv, TypeInv, LedgerTypes
<1>1. ASSUME NEW e \in Entities, EraseFiles(e) PROVE StreamInv'
  <2>1. /\ Onward /\ writer'.op = "erase"
        /\ UNCHANGED <<db, ident, pending, staged, request, epochs, served>>
    BY <1>0, <1>1, WriterFields DEF EraseFiles
  <2>2. Onward' /\ (Agrees(db)' => Agrees(db)) /\ (SwapGoing' <=> SwapGoing)
    BY <2>1 DEF Onward, Agrees, SwapGoing
  <2>3. ~(Step("restore", "merge"))' /\ ~(Step("restore", "keep"))'
    BY <2>1 DEF Step
  <2> QED BY <1>0, <2>1, <2>2, <2>3, StreamStays
<1>2. CASE EraseLine \/ EraseCount
  <2>0. ident \in [epoch : Epochs, erasures : Nat] /\ {"count", "commit"} \subseteq Steps
    BY DEF FlowInv, WholeInv, TypeInv, StoreTypes, Steps
  <2>1. /\ writer'.op = "erase" /\ writer.op = "erase" /\ ident'.epoch = ident.epoch
        /\ UNCHANGED <<db, pending, staged, request, epochs, served>>
    <3>1. CASE EraseLine
      BY <1>0, <2>0, <3>1, GotoIsWriter DEF EraseLine, Goto, Step, hist, count
    <3>2. CASE EraseCount
      BY <1>0, <2>0, <3>2, GotoIsWriter DEF EraseCount, Goto, Step, hist, count
    <3> QED BY <1>2, <3>1, <3>2
  <2>2. Onward' /\ (SwapGoing' <=> SwapGoing)
    BY <1>0, <2>1 DEF StreamInv, Onward, SwapGoing
  <2>3. ~(Step("restore", "merge"))' /\ ~(Step("restore", "keep"))'
    BY <2>1 DEF Step
  <2> QED BY <1>0, <2>1, <2>2, <2>3, StreamStays
<1>3. CASE EraseCommit
  <2>1. /\ db' = [EraseRows(db, writer.entity, writer.live) EXCEPT !.stamp = ident.erasures]
        /\ writer'.op = "idle" /\ writer.op = "erase" /\ writer.entity \in Entities
        /\ UNCHANGED <<ident, pending, staged, request, epochs, served>>
    BY <1>3, IdleIsWriter DEF EraseCommit, Step, count, FlowInv, WholeInv, TypeInv, LedgerTypes
  <2>2. /\ db'.epoch = db.epoch
        /\ db'.feed = db.feed \/ db'.feed = Append(db.feed, <<writer.entity, 0>>)
    BY <2>1, FlowTypes DEF EraseRows, Bar, Databases
  <2>3. Onward'
    <3>1. Onward /\ <<writer.entity, 0>> \in Entries
      BY <1>0, <2>1, EmptyIsTree DEF StreamInv, Entries
    <3> QED BY <2>1, <2>2, <3>1, FlowTypes, PrefixAppended DEF Onward
  <2>4. ~(Step("restore", "merge"))' /\ ~(Step("restore", "keep"))' /\ (SwapGoing' <=> SwapGoing)
    BY <2>1 DEF Step, SwapGoing
  <2> QED BY <1>0, <2>1, <2>2, <2>3, <2>4, StreamStays
<1> QED BY <1>1, <1>2, <1>3 DEF Erase


LEMMA BackupFlows == ASSUME FlowInv, Backup PROVE StreamInv'
<1>1. UNCHANGED <<disk, request, hist, count>> /\ writer'.op \in {"backup", "idle"}
  BY IdleIsWriter DEF Backup, BackupDatabase, BackupFiles, Idle
<1> QED BY <1>1, StreamRests DEF FlowInv, disk, hist, count

\* An epoch beyond those minted is new to everybody.
LEMMA MintedIsNew ==
    ASSUME FlowInv, epochs < MaxEpochs
    PROVE  epochs + 1 \in Epochs /\ New(epochs + 1) /\ db.epoch # epochs + 1
<1>1. epochs + 1 \in Epochs
  <2>1. epochs \in Nat /\ MaxEpochs \in Nat
    BY FlowTypes, BoundsAreNat
  <2> QED BY <2>1 DEF Epochs
<1>2. served[epochs + 1] = <<>>
  BY <1>1, FlowTypes DEF FlowInv, StreamInv
<1> QED BY <1>1, <1>2, FlowTypes DEF New

LEMMA RestoreFlows == ASSUME FlowInv, Restore PROVE StreamInv'
<1>0. /\ writer \in Writers /\ StreamInv /\ RecordInv
      /\ {"merge", "keep", "aside", "in", "install", "drop", "finish"} \subseteq Steps
      /\ staged \in [db : Databases \cup {None}, files : Trees \cup {None}]
  BY DEF FlowInv, WholeInv, SwapInv, TypeInv, LedgerTypes, StoreTypes, Steps
<1>1. ASSUME NEW b \in Dirs, RestoreResume(b) PROVE StreamInv'
  <2>1. /\ UNCHANGED <<disk, backups, request, hist, count>>
        /\ writer'.op = "restore" /\ writer'.step = "aside"
    BY <1>1 DEF RestoreResume, Idle
  <2>2. (Onward => Onward') /\ (Agrees(db)' => Agrees(db)) /\ (SwapGoing' <=> SwapGoing)
    BY <2>1 DEF Onward, Agrees, SwapGoing, disk, hist
  <2> QED BY <1>0, <2>1, <2>2, StreamStays DEF Step, disk, hist, count
<1>2. ASSUME NEW b \in Dirs, NEW named \in BOOLEAN, RestoreBegin(b, named) PROVE StreamInv'
  <2>1. /\ UNCHANGED <<db, ident, request, hist, count>> /\ staged' = NoStage
        /\ writer'.op = "restore" /\ writer'.step = "stage"
    BY <1>2 DEF RestoreBegin, Idle
  <2>2. (Onward => Onward') /\ (Agrees(db)' => Agrees(db)) /\ staged'.db = None
    BY <2>1 DEF Onward, Agrees, NoStage, hist
  <2> QED BY <1>0, <2>1, <2>2, StreamStays DEF Step, hist, count
<1>3. CASE RestoreStage
  <2>1. /\ Step("restore", "stage") /\ epochs < MaxEpochs /\ epochs' = epochs + 1 /\ ident'.epoch = epochs'
        /\ writer'.op = "restore" /\ writer'.step = "merge"
        /\ UNCHANGED <<db, pending, request, hist>>
    BY <1>0, <1>3, NextRestoreStep DEF RestoreStage, Goto, Step
  <2>2. New(epochs + 1) /\ db.epoch # epochs + 1
    BY <2>1, MintedIsNew
  <2>3. (Step("restore", "merge") => New(ident.epoch))' /\ ~(Step("restore", "keep"))'
    BY <2>1, <2>2 DEF New, Step, hist
  <2>4. ~SwapGoing'
    BY <1>0, <2>1 DEF RecordInv, Staging, SwapGoing, Step
  <2>5. ~Agrees(db)'
    BY <2>1, <2>2 DEF Agrees
  <2>6. (\A x \in Epochs : x > epochs => served[x] = <<>>)'
    BY <1>0, <2>1, FlowTypes DEF StreamInv, hist
  <2>7. (request.step = "admitted" /\ request.epoch = db.epoch => Onward)'
    BY <1>0, <2>1 DEF StreamInv, Onward, hist
  <2> QED BY <2>1, <2>3, <2>4, <2>5, <2>6, <2>7 DEF StreamInv
<1>4. CASE RestoreMerge
  <2> DEFINE into == LinesInto(staged, Source(writer.file).lines)
             state == IF Established(Source(writer.file)) THEN "none" ELSE "unknown"
             new   == [into.db EXCEPT !.epoch = ident.epoch, !.stamp = ident.erasures, !.state = state]
  <2>1. /\ Step("restore", "merge") /\ UNCHANGED <<db, ident, pending, request, hist, count>>
        /\ staged' = [into EXCEPT !.db.epoch = ident.epoch, !.db.stamp = ident.erasures, !.db.state = state]
        /\ writer'.op = "restore" /\ writer'.step = "keep"
    BY <1>0, <1>4, NextRestoreStep DEF RestoreMerge, Goto, Step
  <2>2. into \in [db : Databases, files : Trees]
    <3>1. staged.db \in Databases /\ staged.files \in Trees
      BY <2>1 DEF FlowInv, WholeInv, TypeInv, Hands
    <3>2. Source(writer.file).lines \in Seq(Lines)
      BY <2>1, SourceIsShort DEF FlowInv, WholeInv, Step
    <3> QED BY <3>1, <3>2, LinesIntoType
  <2> HIDE DEF into
  <2>3. staged'.db = new /\ new.epoch = ident.epoch
    BY <2>1, <2>2 DEF Databases
  <2>4. New(ident.epoch) /\ ~SwapGoing
    BY <1>0, <2>1 DEF StreamInv, RecordInv, Staging, SwapGoing, Step
  <2>5. New(staged.db.epoch)' /\ ~SwapGoing'
    BY <2>1, <2>3, <2>4 DEF New, SwapGoing, hist
  <2>6. (Agrees(db)' <=> Agrees(db)) /\ (Onward' <=> Onward)
    BY <2>1 DEF Agrees, Onward, hist
  <2>7. ~(Step("restore", "merge"))'
    BY <2>1 DEF Step
  <2> QED BY <1>0, <2>1, <2>5, <2>6, <2>7 DEF StreamInv, hist, count
<1>5. CASE RestoreKeep
  <2>1. /\ Step("restore", "keep") /\ UNCHANGED <<db, ident, staged, request, served, count>>
        /\ writer'.op = "restore" /\ writer'.step = "aside"
    BY <1>0, <1>5, NextRestoreStep DEF RestoreKeep, Goto, Step
  <2>2. (Onward => Onward') /\ (Agrees(db)' => Agrees(db))
    BY <2>1 DEF Onward, Agrees
  <2> QED BY <1>0, <2>1, <2>2, StreamStays DEF Step, count
<1>6. CASE RestoreFail
  <2>1. /\ UNCHANGED <<db, ident, request, hist, count>> /\ staged' = NoStage /\ writer'.op = "idle"
    BY <1>6, IdleIsWriter DEF RestoreFail
  <2>2. (Onward => Onward') /\ (Agrees(db)' => Agrees(db)) /\ staged'.db = None
    BY <2>1 DEF Onward, Agrees, NoStage, hist
  <2> QED BY <1>0, <2>1, <2>2, StreamStays DEF Step, hist, count
<1>7. CASE SwapAside \/ SwapIn \/ SwapDrop
  <2>1. /\ UNCHANGED <<db, ident, pending, request, hist, count>>
        /\ staged'.db \in {staged.db, None}
        /\ writer'.op = "idle" \/ (writer'.op = "restore" /\ writer'.step \notin {"merge", "keep"})
    <3>1. CASE SwapAside
      BY <1>0, <3>1, NextRestoreStep, IdleIsWriter DEF SwapAside, Goto, Step
    <3>2. CASE SwapIn \/ SwapDrop
      BY <1>0, <3>2, NextRestoreStep DEF SwapIn, SwapDrop, Goto, Step
    <3> QED BY <1>7, <3>1, <3>2
  <2>2. (Onward => Onward') /\ (Agrees(db)' => Agrees(db)) /\ (SwapGoing' <=> SwapGoing)
    BY <2>1 DEF Onward, Agrees, SwapGoing, hist
  <2> QED BY <1>0, <2>1, <2>2, StreamStays DEF Step, hist, count
<1>8. CASE SwapInstall
  <2>1. /\ UNCHANGED <<ident, pending, staged, request, hist, count>>
        /\ db' = IF staged.db = None THEN db ELSE staged.db
        /\ Swapping /\ writer'.op = "restore" /\ writer'.step = "drop"
    BY <1>0, <1>8, NextRestoreStep DEF SwapInstall, Goto, Step, Swapping
  <2>2. CASE staged.db = None
    <3>1. (Onward => Onward') /\ (Agrees(db)' => Agrees(db)) /\ (SwapGoing' <=> SwapGoing)
      BY <2>1, <2>2 DEF Onward, Agrees, SwapGoing, hist
    <3> QED BY <1>0, <2>1, <2>2, <3>1, StreamStays DEF Step, hist, count
  <2>3. CASE staged.db # None
    <3>1. staged.db \in Databases /\ served[staged.db.epoch] = <<>>
      BY <1>0, <2>1, <2>3 DEF StreamInv, RecordInv, New
    <3>2. staged.db.feed \in Seq(Entries)
      BY <3>1 DEF Databases, Entries
    <3>3. Onward'
      BY <2>1, <2>3, <3>1, <3>2, EmptyIsPrefix DEF Onward, hist
    <3>4. (New(staged.db.epoch)' <=> New(staged.db.epoch)) /\ (SwapGoing' <=> SwapGoing)
      BY <2>1 DEF New, SwapGoing, hist
    <3> QED BY <1>0, <2>1, <3>3, <3>4 DEF StreamInv, Step, hist, count
  <2> QED BY <2>2, <2>3
<1>9. CASE SwapFinish
  <2>1. /\ UNCHANGED <<db, ident, staged, request, served, count>> /\ pending' = None /\ writer'.op = "idle"
    BY <1>9, IdleIsWriter DEF SwapFinish
  <2>2. (Onward => Onward') /\ (Agrees(db)' => Agrees(db)) /\ ~SwapGoing'
    BY <2>1 DEF Onward, Agrees, SwapGoing
  <2> QED BY <1>0, <2>1, <2>2, StreamStays DEF Step, count
<1> QED BY <1>1, <1>2, <1>3, <1>4, <1>5, <1>6, <1>7, <1>8, <1>9 DEF Restore


LEMMA MergeFlows == ASSUME ~StampsAnywhere, FlowInv, Merge PROVE StreamInv'
<1>0. /\ writer \in Writers /\ StreamInv /\ {"lines", "clear"} \subseteq Steps
      /\ files \in Trees \cup {None}
  BY DEF FlowInv, WholeInv, TypeInv, LedgerTypes, StoreTypes, Steps
<1>1. CASE MergeInstall
  <2>1. Onward /\ UNCHANGED <<db, ident, pending, staged, request, hist, count>> /\ writer'.op = "merge"
    BY <1>1 DEF MergeInstall, Idle
  <2>2. Onward' /\ (SwapGoing' <=> SwapGoing)
    BY <2>1 DEF Onward, SwapGoing, hist
  <2> QED BY <1>0, <2>1, <2>2, StreamStays DEF Step, hist, count
<1>2. CASE MergeLines
  <2> DEFINE at == [db |-> db, files |-> Tree]
  <2>1. /\ writer.op = "merge" /\ db' = LinesInto(at, manifest.lines).db /\ writer'.op = "merge"
        /\ UNCHANGED <<ident, pending, staged, request, hist, count>>
    BY <1>0, <1>2, GotoIsWriter DEF MergeLines, Goto, Step
  <2>2. db'.epoch = db.epoch /\ \E tombs \in Seq(Entries) : db'.feed = db.feed \o tombs
    <3>1. at.db \in Databases /\ at.files \in Trees /\ at.db = db
      BY <1>0, FlowTypes, EmptyIsTree DEF Tree
    <3>2. manifest.lines \in Seq(Lines)
      BY ManifestIsShort DEF FlowInv, WholeInv
    <3> HIDE DEF at
    <3> QED BY <2>1, <3>1, <3>2, LinesIntoType
  <2> HIDE DEF at
  <2>3. Onward' /\ (SwapGoing' <=> SwapGoing)
    <3>1. Onward
      BY <1>0, <2>1 DEF StreamInv
    <3>2. IsPrefix(served[db.epoch], db'.feed)
      BY <2>2, <3>1, FlowTypes, PrefixExtended DEF Onward
    <3> QED BY <2>1, <2>2, <3>2 DEF Onward, SwapGoing, hist
  <2> QED BY <1>0, <2>1, <2>2, <2>3, StreamStays DEF Step, hist, count
<1>3. CASE MergeClear
  <2>1. /\ writer.op = "merge" /\ db' = [db EXCEPT !.stamp = Counted(manifest), !.state = "none"]
        /\ writer'.op = "idle" /\ UNCHANGED <<ident, pending, staged, request, hist, count>>
    BY <1>3, IdleIsWriter DEF MergeClear, Step
  <2>2. db'.epoch = db.epoch /\ db'.feed = db.feed
    BY <2>1, FlowTypes DEF Databases
  <2>3. Onward' /\ (SwapGoing' <=> SwapGoing)
    BY <1>0, <2>1, <2>2 DEF StreamInv, Onward, SwapGoing, hist
  <2> QED BY <1>0, <2>1, <2>2, <2>3, StreamStays DEF Step, hist, count
<1> QED BY <1>1, <1>2, <1>3 DEF Merge

LEMMA RequestFlows == ASSUME FlowInv, Request PROVE StreamInv'
<1>0. /\ writer \in Writers /\ StreamInv /\ RecordInv
      /\ request \in [step : {"idle", "checked", "repairing", "admitted"}, epoch : Epochs]
  BY DEF FlowInv, WholeInv, SwapInv, TypeInv, LedgerTypes, StoreTypes
<1>1. CASE RequestCheck
  <2>1. /\ request.step = "idle" /\ pending = None /\ request' = [step |-> "checked", epoch |-> db.epoch]
        /\ UNCHANGED <<disk, backups, kept, writer, hist, count>>
    BY <1>1 DEF RequestCheck, Verified
  <2>2. ~Staging /\ ~SwapGoing /\ writer.op # "repair"
    BY <1>0, <2>1 DEF RecordInv, SwapGoing, StreamInv
  <2>3. (Onward' <=> Onward) /\ (Agrees(db)' <=> Agrees(db)) /\ ~SwapGoing'
    BY <2>1, <2>2 DEF Onward, Agrees, SwapGoing, disk, hist
  <2> QED BY <1>0, <2>1, <2>2, <2>3 DEF StreamInv, Staging, Step, disk, hist, count
<1>2. CASE RequestCurrent
  <2>1. /\ request.step = "checked" /\ request' = [request EXCEPT !.step = "admitted"] /\ Agrees(db)
        /\ UNCHANGED <<disk, backups, kept, writer, hist, count>>
    BY <1>2 DEF RequestCurrent
  <2>2. request'.step = "admitted" /\ request'.epoch = request.epoch /\ Onward /\ writer.op # "repair"
    BY <1>0, <2>1 DEF StreamInv
  <2>3. /\ (Onward' <=> Onward) /\ (Agrees(db)' <=> Agrees(db)) /\ (SwapGoing' <=> SwapGoing)
        /\ \A x : New(x) => New(x)'
    BY <2>1, <2>2 DEF Onward, Agrees, SwapGoing, New, disk, hist
  <2> QED BY <1>0, <2>1, <2>2, <2>3 DEF StreamInv, Step, disk, hist, count
<1>3. CASE RepairDatabase
  <2> DEFINE state == IF Established(manifest) THEN "none" ELSE "unknown"
             b     == Bar(db, Digests(manifest.lines))
  <2>1. /\ request.step = "checked" /\ epochs < MaxEpochs /\ epochs' = epochs + 1 /\ writer'.op = "repair"
        /\ db' = [b EXCEPT !.epoch = epochs', !.stamp = Counted(manifest), !.state = state]
        /\ request' = [request EXCEPT !.step = "repairing"] /\ writer = Idle
        /\ UNCHANGED <<ident, pending, staged, served>>
    BY <1>3 DEF RepairDatabase, Idle, Free
  <2>2. New(epochs + 1)
    BY <2>1, MintedIsNew
  <2>3. b \in Databases
    <3>1. manifest.lines \in Seq(Lines)
      BY ManifestIsShort DEF FlowInv, WholeInv
    <3> QED BY <3>1, FlowTypes, DigestsType, BarType
  <2> HIDE DEF b
  <2>4. db'.epoch = epochs + 1 /\ db'.feed \in Seq(Entries)
    BY <2>1, <2>3 DEF Databases, Entries
  <2>5. served'[db'.epoch] = <<>> /\ Onward'
    BY <2>1, <2>2, <2>4, EmptyIsPrefix DEF New, Onward
  <2>6. request'.step = "repairing" /\ request'.epoch = request.epoch
    BY <1>0, <2>1
  <2>7. (\A x : New(x) => New(x)') /\ (SwapGoing' <=> SwapGoing)
    BY <2>1, <2>6 DEF New, SwapGoing
  <2>8. (\A x \in Epochs : x > epochs => served[x] = <<>>)'
    BY <1>0, <2>1, FlowTypes DEF StreamInv
  <2> QED BY <1>0, <2>1, <2>5, <2>6, <2>7, <2>8 DEF StreamInv, Step
<1>4. CASE RepairIdentity
  <2>1. /\ writer.op = "repair" /\ ident' = [epoch |-> db.epoch, erasures |-> Counted(manifest)]
        /\ writer'.op = "idle" /\ UNCHANGED <<db, pending, staged, served, epochs>>
        /\ \/ pending = None /\ request' = [step |-> "admitted", epoch |-> db.epoch]
           \/ request' = [step |-> "idle", epoch |-> 0]
    BY <1>4, IdleIsWriter DEF RepairIdentity, Step, Verified, hist, count
  <2>2. Onward'
    BY <1>0, <2>1, FlowTypes, EmptyIsPrefix DEF StreamInv, Onward
  <2>3. SwapGoing' => \A x : New(x) => New(x)'
    BY <2>1 DEF New, SwapGoing
  <2>4. SwapGoing' <=> SwapGoing
    BY <2>1 DEF SwapGoing
  <2> QED BY <1>0, <2>1, <2>2, <2>3, <2>4 DEF StreamInv, Step
<1>5. CASE RequestRead
  <2>1. /\ request.step = "admitted" /\ request'.step = "idle"
        /\ UNCHANGED <<db, ident, pending, staged, writer, epochs>>
        /\ served' = IF request.epoch = db.epoch THEN [served EXCEPT ![db.epoch] = db.feed] ELSE served
    BY <1>5 DEF RequestRead, NoRequest, disk, count
  <2>2. \A x \in Epochs : served'[x] = served[x] \/ (x = db.epoch /\ x = request.epoch /\ served'[x] = db.feed)
    BY <2>1, FlowTypes
  <2>3. (\A x \in Epochs : x > epochs => served[x] = <<>>)'
    BY <1>0, <2>1, <2>2, FlowTypes DEF StreamInv
  <2>4. Onward => Onward'
    BY <2>1, <2>2, FlowTypes, PrefixOfSelf DEF Onward
  <2>5. \A x \in Epochs : New(x) => New(x)'
    BY <2>1, <2>2 DEF New
  <2>6. staged.db # None => staged.db.epoch \in Epochs
    BY DEF FlowInv, WholeInv, TypeInv, StoreTypes, Databases
  <2>7. writer.op # "repair" /\ (SwapGoing' <=> SwapGoing) /\ (Agrees(db)' <=> Agrees(db))
    BY <1>0, <2>1 DEF StreamInv, SwapGoing, Agrees
  <2> QED BY <1>0, <2>1, <2>3, <2>4, <2>5, <2>6, <2>7, FlowTypes DEF StreamInv, Step
<1>6. ASSUME NEW p \in Payloads, RequestImport(p) PROVE StreamInv'
  <2>1. /\ request.step = "admitted" /\ request'.step = "idle" /\ writer = Idle /\ db' = Store(db, p[1], p[2])
        /\ UNCHANGED <<ident, pending, staged, writer, epochs, served>>
    BY <1>6 DEF RequestImport, NoRequest, Free, count
  <2>2. db'.feed = Append(db.feed, <<p[1], p[2]>>) /\ db'.epoch = db.epoch /\ db'.stamp = db.stamp
    BY <2>1, FlowTypes DEF Store, Databases
  <2>3. <<p[1], p[2]>> \in Entries
    BY BoundsAreNat DEF Entries, Payloads, Versions
  <2>4. Onward => Onward'
    BY <2>1, <2>2, <2>3, FlowTypes, PrefixAppended DEF Onward
  <2>5. (Agrees(db)' => Agrees(db)) /\ (SwapGoing' <=> SwapGoing) /\ (\A x : New(x) => New(x)')
    BY <2>1, <2>2 DEF Agrees, SwapGoing, New
  <2> QED BY <1>0, <2>1, <2>2, <2>4, <2>5, IdleIsWriter DEF StreamInv, Step
<1> QED BY <1>1, <1>2, <1>3, <1>4, <1>5, <1>6 DEF Request

LEMMA MishapFlows == ASSUME FlowInv, Mishap PROVE StreamInv'
<1>0. StreamInv
  BY DEF FlowInv
<1>1. CASE Kill
  <2>1. /\ writer'.op = "idle" /\ UNCHANGED <<db, ident, pending, staged, served, epochs>>
        /\ request' = request \/ request' = [step |-> "idle", epoch |-> 0]
    BY <1>1, IdleIsWriter DEF Kill, NoRequest, hist
  <2>2. /\ (Onward' <=> Onward) /\ (Agrees(db)' <=> Agrees(db)) /\ (SwapGoing' <=> SwapGoing)
        /\ \A x : New(x) => New(x)'
    BY <2>1 DEF Onward, Agrees, SwapGoing, New
  <2> QED BY <1>0, <2>1, <2>2 DEF StreamInv, Step
<1>2. ASSUME NEW n \in 0 .. MaxErases, Lose(n) PROVE StreamInv'
  BY <1>0, <1>2, StreamRests DEF Lose, hist
<1>3. ASSUME NEW b \in Dirs, CopyByHand(b) PROVE StreamInv'
  <2>1. /\ writer' = Idle /\ request'.step = "idle" /\ pending' = None /\ ~Agrees(backups[b].db)
        /\ db' = backups[b].db /\ UNCHANGED <<ident, served, epochs>>
    BY <1>3 DEF CopyByHand, Free, hist
  <2>2. ~Agrees(db)' /\ ~SwapGoing'
    BY <2>1 DEF Agrees, SwapGoing
  <2> QED BY <1>0, <2>1, <2>2, IdleIsWriter DEF StreamInv, Step
<1> QED BY <1>1, <1>2, <1>3 DEF Mishap

LEMMA FlowStep == ASSUME ~StampsAnywhere PROVE FlowInv /\ [Next]_vars => FlowInv'
<1> SUFFICES ASSUME FlowInv, [Next]_vars PROVE FlowInv'
  OBVIOUS
<1>1. WholeInv' /\ SafeInv'
  BY WholeStep, SafeStep DEF FlowInv
<1>2. CASE UNCHANGED vars
  <2>1. StreamInv'
    BY <1>2, StreamRests DEF FlowInv, vars, disk, hist, count
  <2> QED BY <1>1, <2>1 DEF FlowInv
<1>3. CASE Next
  <2>1. ASSUME NEW e \in Entities, Save(e) PROVE StreamInv'
    BY <2>1, SaveFlows
  <2> QED BY <1>1, <1>3, <2>1, EraseFlows, BackupFlows, RestoreFlows, MergeFlows, RequestFlows, MishapFlows
          DEF Next, FlowInv
<1> QED BY <1>2, <1>3

LEMMA Flowing == ASSUME ~StampsAnywhere PROVE Spec => []FlowInv
<1>1. Init => FlowInv
  <2> SUFFICES ASSUME Init PROVE FlowInv
    OBVIOUS
  <2>1. IsPrefix(<<>>, <<>>)
    <3>1. <<>> \in Seq(Entries)
      OBVIOUS
    <3> QED BY <3>1, EmptyIsPrefix
  <2>2. StreamInv
    BY <2>1, EmptyIsTree, IdleIsWriter DEF Init, StreamInv, Onward, SwapGoing, Step
  <2>3. WholeInv
    BY WholeInit
  <2> QED BY <2>2, <2>3, LedgerInit, DataInit DEF FlowInv, SafeInv
<1> QED BY <1>1, FlowStep, PTL DEF Spec

\* Under one epoch the feed served only grows, through every restore, copy, repair and kill:
\* a client's cursor never points into another history.
THEOREM OneStreamAlways == ASSUME ~StampsAnywhere PROVE Spec => OneStreamPerEpoch
<1>1. ASSUME FlowInv, [Next]_vars PROVE \A x \in Epochs : IsPrefix(served[x], served'[x])
  <2>1. CASE served' = served
    BY <1>1, <2>1, FlowTypes, PrefixOfSelf
  <2>2. CASE RequestRead
    <3>1. request.step = "admitted"
          /\ served' = IF request.epoch = db.epoch THEN [served EXCEPT ![db.epoch] = db.feed] ELSE served
      BY <2>2 DEF RequestRead
    <3>2. request.epoch = db.epoch => IsPrefix(served[db.epoch], db.feed)
      BY <1>1, <3>1 DEF FlowInv, StreamInv, Onward
    <3> QED BY <1>1, <3>1, <3>2, FlowTypes, PrefixOfSelf
  <2>3. served' = served \/ RequestRead
    <3>1. CASE UNCHANGED vars
      BY <3>1 DEF vars, hist
    <3>2. CASE Request
      BY <3>2 DEF Request, RequestCheck, RequestCurrent, RepairDatabase, RepairIdentity, RequestImport, hist
    <3>3. CASE (\E e \in Entities : Save(e)) \/ Erase \/ Backup \/ Merge \/ Mishap
      BY <3>3 DEF Save, Erase, EraseFiles, EraseLine, EraseCount, EraseCommit, Backup, BackupDatabase, BackupFiles,
                  Merge, MergeInstall, MergeLines, MergeClear, Mishap, Kill, Lose, CopyByHand, hist
    <3>4. CASE Restore
      BY <3>4 DEF Restore, RestoreResume, RestoreBegin, RestoreStage, RestoreMerge, RestoreKeep, RestoreFail,
                  SwapAside, SwapIn, SwapInstall, SwapDrop, SwapFinish, hist
    <3> QED BY <1>1, <3>1, <3>2, <3>3, <3>4 DEF Next
  <2> QED BY <2>1, <2>2, <2>3
<1>2. FlowInv /\ [Next]_vars => \A x \in Epochs : IsPrefix(served[x], served'[x])
  BY <1>1
<1> QED BY <1>2, Flowing, PTL DEF OneStreamPerEpoch, Spec
================================================================================
