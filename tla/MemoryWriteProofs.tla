--------------------------- MODULE MemoryWriteProofs ---------------------------
(****************************************************************************)
(* Theorems about MemoryWrite for every set of memories, processes, commands *)
(* and every bound: type correctness, the discipline of memory-save.lock,    *)
(* and what follows from it for the journal, for the rows, and for the       *)
(* agreement of file, row and journal once what a kill left is reconciled.   *)
(****************************************************************************)
EXTENDS MemoryWrite, TLAPS

--------------------------------------------------------------------------------
\* What the transactions' effects preserve.

LEMMA IntentTypes ==
    ASSUME intent \in [Ids -> Intents],
           \/ \E i \in Ids : Clear(i)
           \/ \E i \in Ids, k \in {"write", "delete"}, o \in OpIds : Record(i, k, o)
    PROVE  intent' \in [Ids -> Intents]
<1>1. NoIntent \in Intents
  BY ConstantsAssumption DEF Intents, NoIntent, OpIds
<1>2. \A k \in {"write", "delete"}, o \in OpIds : [kind |-> k, op |-> o] \in Intents
  BY DEF Intents
<1> QED BY <1>1, <1>2 DEF Clear, Record

LEMMA RowTypes ==
    ASSUME row \in [Ids -> Rows], oldRow \subseteq Ids, NEW i \in Ids,
           MarkDeleted(i) \/ \E a \in Attrs \cup {None} : Mirror(i, a)
    PROVE  row' \in [Ids -> Rows] /\ oldRow' \subseteq Ids
BY DEF MarkDeleted, Mirror, LiveRow, Rows

LEMMA JournalTypes ==
    ASSUME rev \in [Ids -> Revisions], journaled \subseteq OpIds, NEW i \in Ids,
           NEW k \in {"upsert", "restore", "tombstone"},
           NEW a \in Attrs \cup {None}, NEW o \in OpIds, Journal(i, k, a, o)
    PROVE  rev' \in [Ids -> Revisions] /\ journaled' \subseteq OpIds
BY DEF Journal, Revisions

\* What a command keeps of its request when one field of it changes.
LEMMA RequestTypes ==
    ASSUME NEW r \in Requests
    PROVE  /\ NoRequest \in Requests
           /\ \A s \in SUBSET Owed : [r EXCEPT !.owed = s] \in Requests
           /\ \A s \in SUBSET Ids : [r EXCEPT !.purge = s] \in Requests
           /\ \A a \in Attrs \cup {None} : [r EXCEPT !.attr = a] \in Requests
           /\ \A k \in AllKinds, i \in Ids \cup {None}, a \in Attrs \cup {None}, o \in OpIds :
                 [NoRequest EXCEPT !.kind = k, !.id = i, !.attr = a, !.op = o] \in Requests
           /\ \A s, t \in SUBSET Ids :
                 [NoRequest EXCEPT !.kind = "gc", !.purge = s, !.kept = t] \in Requests
           /\ r.owed \subseteq Owed /\ r.purge \subseteq Ids
           /\ r.attr \in Attrs \cup {None} /\ r.op \in OpIds
<1>1. NoRequest \in Requests
  BY ConstantsAssumption DEF NoRequest, Requests, OpIds
<1>2. \A k \in AllKinds, i \in Ids \cup {None}, a \in Attrs \cup {None}, o \in OpIds :
         [NoRequest EXCEPT !.kind = k, !.id = i, !.attr = a, !.op = o] \in Requests
  BY <1>1, Zenon DEF Requests
<1>3. \A s, t \in SUBSET Ids :
         [NoRequest EXCEPT !.kind = "gc", !.purge = s, !.kept = t] \in Requests
  <2>1. "gc" \in AllKinds \cup {"none"}
    BY DEF AllKinds
  <2> QED BY <1>1, <2>1, Zenon DEF Requests
<1> QED BY <1>1, <1>2, <1>3 DEF Requests

--------------------------------------------------------------------------------
\* A command in progress names the memory it works on.
NamesMemory == \A p \in Procs : pc[p] \in OnMemory => req[p].id \in Ids

\* Type correctness needs the memory a command names: the file a restore moves
\* is looked up under it.
TypeInv == TypeOK /\ NamesMemory

LEMMA InitTypeInv == Init => TypeInv
<1> SUFFICES ASSUME Init PROVE TypeInv
  OBVIOUS
<1>1. NoRequest \in Requests /\ req \in [Procs -> Requests]
  BY ConstantsAssumption DEF Init, NoRequest, Requests, OpIds
<1> QED BY <1>1, ConstantsAssumption
     DEF Init, TypeInv, TypeOK, NamesMemory, Rows, LiveRow, NoRow, Intents, NoIntent,
         Revisions, NoRevision, OpIds, Steps, OnMemory

\* What every step of a process on its command keeps: the request it carries
\* and the step it goes to are well typed, and the step names a memory.
LEMMA MoveTypes ==
    ASSUME TypeInv, NEW p \in Procs,
           \/ UNCHANGED req /\ \E step \in Steps :
                 /\ Goto(p, step)
                 /\ step \in OnMemory => pc[p] \in OnMemory
           \/ Finish(p)
    PROVE  /\ pc' \in [Procs -> Steps] /\ req' \in [Procs -> Requests]
           /\ NamesMemory'
<1>1. NoRequest \in Requests
  BY ConstantsAssumption DEF NoRequest, Requests, OpIds
<1> QED BY <1>1 DEF TypeInv, TypeOK, NamesMemory, Goto, Finish, Steps, OnMemory

\* Starting a command.
LEMMA StartTypes ==
    ASSUME TypeInv, NEW p \in Procs, NEW k \in AllKinds, NEW i \in Ids,
           NEW a \in Attrs \cup {None}, NEW step \in Steps, Start(p, k, i, a, step)
    PROVE  /\ pc' \in [Procs -> Steps] /\ req' \in [Procs -> Requests]
           /\ NamesMemory' /\ minted' \in OpIds /\ minted + 1 \in OpIds
<1>1. minted' \in OpIds /\ minted' = minted + 1
  BY ConstantsAssumption DEF Start, TypeInv, TypeOK, OpIds
<1> DEFINE r == [NoRequest EXCEPT !.kind = k, !.id = i, !.attr = a, !.op = minted + 1]
<1>2. NoRequest \in Requests
  BY ConstantsAssumption DEF NoRequest, Requests, OpIds
<1>3. r \in Requests
  BY <1>1, <1>2, RequestTypes
<1>4. r.id = i
  BY <1>2 DEF Requests
<1> HIDE DEF r
<1>5. req' = [req EXCEPT ![p] = r] /\ pc' = [pc EXCEPT ![p] = step]
  BY DEF Start, Goto, r
<1> QED BY <1>1, <1>3, <1>4, <1>5 DEF TypeInv, TypeOK, NamesMemory

\* Reconciliation keeps the types.
LEMMA RecoveryTypeInv ==
    ASSUME TypeInv, NEW p \in Procs,
           Probe(p) \/ RecoverLock(p) \/ RecoverDone(p) \/ Exit(p)
              \/ \E t \in Owed : RecoverOne(p, t)
    PROVE  TypeInv'
<1> USE DEF disk, db, faults
<1>1. CASE Probe(p)
  <2>1. {"ready", "recover_wait"} \subseteq Steps \ OnMemory
    BY DEF Steps, OnMemory, LockedSteps, WaitingSteps, OtherSteps
  <2>2. pc' \in [Procs -> Steps] /\ req' \in [Procs -> Requests] /\ NamesMemory'
    BY <1>1, <2>1, MoveTypes DEF Probe
  <2> QED BY <1>1, <2>2 DEF Probe, TypeInv, TypeOK
<1>2. CASE RecoverLock(p)
  <2> DEFINE s == {[id |-> i, kind |-> intent[i].kind, op |-> intent[i].op] : i \in Outstanding}
  <2>1. s \subseteq Owed
    BY DEF Owed, Outstanding, Intents, TypeInv, TypeOK
  <2> HIDE DEF s
  <2>2. req' = [req EXCEPT ![p] = [req[p] EXCEPT !.owed = s]]
    BY <1>2 DEF RecoverLock, s
  <2>3. req' \in [Procs -> Requests]
    BY <2>1, <2>2, RequestTypes DEF TypeInv, TypeOK
  <2>4. pc' = [pc EXCEPT ![p] = "recover"] /\ "recover" \in Steps \ OnMemory
    BY <1>2 DEF RecoverLock, Goto, Steps, LockedSteps, OnMemory
  <2>5. pc' \in [Procs -> Steps] /\ NamesMemory'
    BY <2>2, <2>4 DEF TypeInv, TypeOK, NamesMemory
  <2> QED BY <1>2, <2>3, <2>5 DEF RecoverLock, Acquire, TypeInv, TypeOK
<1>3. CASE RecoverDone(p)
  BY <1>3, MoveTypes DEF RecoverDone, Release, TypeInv, TypeOK
<1>4. CASE Exit(p)
  <2>1. "down" \in Steps \ OnMemory
    BY DEF Steps, OnMemory
  <2> QED BY <1>4, <2>1, MoveTypes DEF Exit, TypeInv, TypeOK
<1>5. ASSUME NEW t \in Owed, RecoverOne(p, t)
      PROVE  TypeInv'
  <2>1. req' = [req EXCEPT ![p] = [req[p] EXCEPT !.owed = req[p].owed \ {t}]]
    BY <1>5 DEF RecoverOne
  <2>2. req' \in [Procs -> Requests]
    BY <2>1, RequestTypes DEF TypeInv, TypeOK
  <2>3. NamesMemory'
    BY <1>5, <2>1 DEF RecoverOne, TypeInv, TypeOK, NamesMemory, OnMemory
  <2>4. t.id \in Ids /\ t.op \in OpIds
    BY DEF Owed
  <2>5. intent' \in [Ids -> Intents]
    BY <1>5, <2>4, IntentTypes DEF RecoverOne, TypeInv, TypeOK
  <2>6. row' \in [Ids -> Rows] /\ oldRow' \subseteq Ids
    BY <1>5, <2>4, RowTypes DEF RecoverOne, TypeInv, TypeOK
  <2>7. rev' \in [Ids -> Revisions] /\ journaled' \subseteq OpIds
    <3>1. FinishedOp(t) \in {"upsert", "restore", "tombstone"}
      BY DEF FinishedOp
    <3> QED BY <1>5, <2>4, <3>1, JournalTypes DEF RecoverOne, TypeInv, TypeOK
  <2> QED BY <1>5, <2>2, <2>5, <2>6, <2>7, <2>3 DEF RecoverOne, TypeInv, TypeOK
<1> QED BY <1>1, <1>2, <1>3, <1>4, <1>5

\* The steps of save keep the types.
LEMMA SaveTypeInv ==
    ASSUME TypeInv, NEW p \in Procs,
           SavePlace(p) \/ SavePurge(p) \/ SaveCommit(p)
              \/ \E i \in Ids, a \in Attrs : SaveBegin(p, i, a)
    PROVE  TypeInv'
<1> USE DEF disk, db, faults
<1>1. ASSUME NEW i \in Ids, NEW a \in Attrs, SaveBegin(p, i, a)
      PROVE  TypeInv'
  <2>1. "save" \in AllKinds /\ "save_locked" \in Steps
    BY DEF AllKinds, Steps, LockedSteps
  <2>2. /\ pc' \in [Procs -> Steps] /\ req' \in [Procs -> Requests]
        /\ NamesMemory' /\ minted' \in OpIds /\ minted + 1 \in OpIds
    BY <1>1, <2>1, StartTypes DEF SaveBegin
  <2>3. intent' \in [Ids -> Intents]
    BY <1>1, <2>2, IntentTypes DEF SaveBegin, TypeInv, TypeOK
  <2> QED BY <1>1, <2>2, <2>3 DEF SaveBegin, Acquire, TypeInv, TypeOK
<1>2. CASE SavePlace(p)
  <2>1. "save_placed" \in Steps /\ pc[p] \in OnMemory
    BY <1>2 DEF SavePlace, Steps, OnMemory, LockedSteps
  <2>2. req[p].attr \in Attrs \cup {None}
    BY DEF TypeInv, TypeOK, Requests
  <2> QED BY <1>2, <2>1, <2>2, MoveTypes DEF SavePlace, TypeInv, TypeOK
<1>3. CASE SavePurge(p)
  <2>1. "save_purged" \in Steps /\ pc[p] \in OnMemory
    BY <1>3 DEF SavePurge, Steps, OnMemory, LockedSteps
  <2> QED BY <1>3, <2>1, MoveTypes DEF SavePurge, TypeInv, TypeOK
<1>4. CASE SaveCommit(p)
  <2>1. req[p].id \in Ids
    BY <1>4 DEF SaveCommit, TypeInv, NamesMemory, Steps, OnMemory, LockedSteps
  <2>2. req[p].attr \in Attrs \cup {None} /\ req[p].op \in OpIds
    BY DEF TypeInv, TypeOK, Requests
  <2>3. intent' \in [Ids -> Intents] /\ row' \in [Ids -> Rows] /\ oldRow' \subseteq Ids
    BY <1>4, <2>1, <2>2, IntentTypes, RowTypes DEF SaveCommit, TypeInv, TypeOK
  <2>4. rev' \in [Ids -> Revisions] /\ journaled' \subseteq OpIds
    BY <1>4, <2>1, <2>2, JournalTypes DEF SaveCommit, TypeInv, TypeOK
  <2> QED BY <1>4, <2>3, <2>4, MoveTypes DEF SaveCommit, Release, TypeInv, TypeOK
<1> QED BY <1>1, <1>2, <1>3, <1>4

\* The steps of delete and prune keep the types.
LEMMA DeleteTypeInv ==
    ASSUME TypeInv, NEW p \in Procs,
           \/ DeleteLoad(p) \/ DeleteIntent(p) \/ DeleteMove(p) \/ DeleteCommit(p)
           \/ DeleteGone(p) \/ Heal(p)
           \/ \E i \in Ids : DeleteBegin(p, i) \/ PruneBegin(p, i)
    PROVE  TypeInv'
<1> USE DEF disk, db, faults
<1>1. ASSUME NEW i \in Ids, DeleteBegin(p, i) \/ PruneBegin(p, i)
      PROVE  TypeInv'
  <2>1. {"delete", "prune"} \subseteq AllKinds /\ "delete_load" \in Steps
    BY DEF AllKinds, Steps, OtherSteps
  <2>2. /\ pc' \in [Procs -> Steps] /\ req' \in [Procs -> Requests]
        /\ NamesMemory' /\ minted' \in OpIds
    BY <1>1, <2>1, StartTypes DEF DeleteBegin, PruneBegin
  <2> QED BY <1>1, <2>2 DEF DeleteBegin, PruneBegin, TypeInv, TypeOK
<1>2. CASE DeleteLoad(p)
  <2>1. {"delete_loaded", "heal"} \subseteq Steps /\ pc[p] \in OnMemory
    BY <1>2 DEF DeleteLoad, Steps, OnMemory, OtherSteps
  <2>2. pc' \in [Procs -> Steps] /\ req' \in [Procs -> Requests] /\ NamesMemory'
    BY <1>2, <2>1, MoveTypes DEF DeleteLoad
  <2> QED BY <1>2, <2>2 DEF DeleteLoad, TypeInv, TypeOK
<1>3. CASE DeleteIntent(p)
  <2>1. "delete_wait" \in Steps /\ pc[p] \in OnMemory
    BY <1>3 DEF DeleteIntent, Steps, OnMemory, OtherSteps, WaitingSteps
  <2>2. req[p].id \in Ids /\ req[p].op \in OpIds
    BY <2>1 DEF TypeInv, TypeOK, NamesMemory, Requests
  <2>3. intent' \in [Ids -> Intents]
    BY <1>3, <2>2, IntentTypes DEF DeleteIntent, TypeInv, TypeOK
  <2> QED BY <1>3, <2>1, <2>3, MoveTypes DEF DeleteIntent, TypeInv, TypeOK
<1>4. CASE DeleteMove(p)
  <2>1. "delete_moved" \in Steps /\ pc[p] \in OnMemory
    BY <1>4 DEF DeleteMove, Steps, OnMemory, LockedSteps, WaitingSteps
  <2>2. req[p].id \in Ids
    BY <2>1 DEF TypeInv, NamesMemory
  <2>3. pc' \in [Procs -> Steps] /\ req' \in [Procs -> Requests] /\ NamesMemory'
    BY <1>4, <2>1, MoveTypes DEF DeleteMove
  <2> QED BY <1>4, <2>2, <2>3 DEF DeleteMove, Acquire, TypeInv, TypeOK
<1>5. CASE DeleteCommit(p)
  <2>1. req[p].id \in Ids
    BY <1>5 DEF DeleteCommit, TypeInv, NamesMemory, Steps, OnMemory, LockedSteps
  <2>2. req[p].op \in OpIds
    BY DEF TypeInv, TypeOK, Requests
  <2>3. intent' \in [Ids -> Intents] /\ row' \in [Ids -> Rows] /\ oldRow' \subseteq Ids
    BY <1>5, <2>1, IntentTypes, RowTypes DEF DeleteCommit, TypeInv, TypeOK
  <2>4. rev' \in [Ids -> Revisions] /\ journaled' \subseteq OpIds
    BY <1>5, <2>1, <2>2, JournalTypes DEF DeleteCommit, TypeInv, TypeOK
  <2> QED BY <1>5, <2>3, <2>4, MoveTypes DEF DeleteCommit, Release, TypeInv, TypeOK
<1>6. CASE DeleteGone(p)
  BY <1>6, MoveTypes DEF DeleteGone, TypeInv, TypeOK
<1>7. CASE Heal(p)
  <2>1. req[p].id \in Ids
    BY <1>7 DEF Heal, TypeInv, NamesMemory, Steps, OnMemory, OtherSteps
  <2>2. row' \in [Ids -> Rows] /\ oldRow' \subseteq Ids
    BY <1>7, <2>1, RowTypes DEF Heal, TypeInv, TypeOK
  <2> QED BY <1>7, <2>2, MoveTypes DEF Heal, TypeInv, TypeOK
<1> QED BY <1>1, <1>2, <1>3, <1>4, <1>5, <1>6, <1>7

\* The steps of patch, the reference refresh and restore keep the types.
LEMMA EditTypeInv ==
    ASSUME TypeInv, NEW p \in Procs,
           \/ PatchIntent(p) \/ Rewrite(p) \/ PatchMirror(p) \/ RefreshMirror(p)
           \/ RestoreIntent(p) \/ RestoreMove(p) \/ RestoreGone(p)
           \/ RestoreMirror(p) \/ JournalEdit(p)
           \/ \E i \in Ids : RefreshBegin(p, i) \/ RestoreBegin(p, i)
           \/ \E i \in Ids, a \in Attrs : PatchBegin(p, i, a)
    PROVE  TypeInv'
<1> USE DEF disk, db, faults
<1>1. ASSUME NEW i \in Ids, NEW a \in Attrs, PatchBegin(p, i, a)
      PROVE  TypeInv'
  <2>1. "patch" \in AllKinds /\ "patch_loaded" \in Steps
    BY DEF AllKinds, Steps, OtherSteps
  <2>2. /\ pc' \in [Procs -> Steps] /\ req' \in [Procs -> Requests]
        /\ NamesMemory' /\ minted' \in OpIds
    BY <1>1, <2>1, StartTypes DEF PatchBegin
  <2> QED BY <1>1, <2>2 DEF PatchBegin, TypeInv, TypeOK
<1>2. ASSUME NEW i \in Ids, RefreshBegin(p, i) \/ RestoreBegin(p, i)
      PROVE  TypeInv'
  <2>1. {"refresh", "restore"} \subseteq AllKinds /\ {"refresh_wait", "restore_loaded"} \subseteq Steps
    BY DEF AllKinds, Steps, OtherSteps, WaitingSteps
  <2>2. live[i] \in Attrs \cup {None}
    BY DEF TypeInv, TypeOK
  <2>3. /\ pc' \in [Procs -> Steps] /\ req' \in [Procs -> Requests]
        /\ NamesMemory' /\ minted' \in OpIds
    BY <1>2, <2>1, <2>2, StartTypes DEF RefreshBegin, RestoreBegin
  <2> QED BY <1>2, <2>3 DEF RefreshBegin, RestoreBegin, TypeInv, TypeOK
<1>3. CASE PatchIntent(p) \/ RestoreIntent(p)
  <2>1. {"patch_wait", "restore_wait"} \subseteq Steps /\ pc[p] \in OnMemory
    BY <1>3 DEF PatchIntent, RestoreIntent, Steps, OnMemory, OtherSteps, WaitingSteps
  <2>2. req[p].id \in Ids /\ req[p].op \in OpIds
    BY <2>1 DEF TypeInv, TypeOK, NamesMemory, Requests
  <2>3. intent' \in [Ids -> Intents]
    BY <1>3, <2>2, IntentTypes DEF PatchIntent, RestoreIntent, TypeInv, TypeOK
  <2>4. pc' \in [Procs -> Steps] /\ req' \in [Procs -> Requests] /\ NamesMemory'
    BY <1>3, <2>1, MoveTypes DEF PatchIntent, RestoreIntent
  <2> QED BY <1>3, <2>3, <2>4 DEF PatchIntent, RestoreIntent, TypeInv, TypeOK
<1>4. CASE Rewrite(p)
  <2>1. {"patch_placed", "refresh_placed"} \subseteq Steps /\ pc[p] \in OnMemory
    BY <1>4 DEF Rewrite, Steps, OnMemory, LockedSteps, WaitingSteps
  <2>2. req[p].attr \in Attrs \cup {None}
    BY DEF TypeInv, TypeOK, Requests
  <2>3. pc' \in [Procs -> Steps] /\ req' \in [Procs -> Requests] /\ NamesMemory'
    BY <1>4, <2>1, MoveTypes DEF Rewrite
  <2> QED BY <1>4, <2>2, <2>3 DEF Rewrite, Acquire, TypeInv, TypeOK
<1>5. CASE PatchMirror(p) \/ RestoreMirror(p) \/ RefreshMirror(p)
  <2>1. {"patch_mirrored", "restore_mirrored"} \subseteq Steps /\ pc[p] \in OnMemory
    BY <1>5 DEF PatchMirror, RestoreMirror, RefreshMirror, Steps, OnMemory, LockedSteps
  <2>2. req[p].id \in Ids /\ req[p].attr \in Attrs \cup {None}
    BY <2>1 DEF TypeInv, TypeOK, NamesMemory, Requests
  <2>3. row' \in [Ids -> Rows] /\ oldRow' \subseteq Ids
    BY <1>5, <2>2, RowTypes DEF PatchMirror, RestoreMirror, RefreshMirror, TypeInv, TypeOK
  <2>4. pc' \in [Procs -> Steps] /\ req' \in [Procs -> Requests] /\ NamesMemory'
    BY <1>5, <2>1, MoveTypes DEF PatchMirror, RestoreMirror, RefreshMirror
  <2> QED BY <1>5, <2>3, <2>4
          DEF PatchMirror, RestoreMirror, RefreshMirror, Release, TypeInv, TypeOK
<1>6. CASE RestoreMove(p)
  <2>1. "restore_moved" \in Steps \cap OnMemory /\ pc[p] \in OnMemory
    BY <1>6 DEF RestoreMove, Steps, OnMemory, LockedSteps, WaitingSteps
  <2>2. req[p].id \in Ids
    BY <2>1 DEF TypeInv, NamesMemory
  <2>3. trash[req[p].id] \in Attrs \cup {None}
    BY <2>2 DEF TypeInv, TypeOK
  <2>4. req' = [req EXCEPT ![p] = [req[p] EXCEPT !.attr = trash[req[p].id]]]
    BY <1>6 DEF RestoreMove
  <2>5. req' \in [Procs -> Requests]
    BY <2>3, <2>4, RequestTypes DEF TypeInv, TypeOK
  <2>6. pc' = [pc EXCEPT ![p] = "restore_moved"]
    BY <1>6 DEF RestoreMove, Goto
  <2>7. pc' \in [Procs -> Steps] /\ NamesMemory'
    BY <2>1, <2>2, <2>4, <2>6 DEF TypeInv, TypeOK, NamesMemory
  <2> QED BY <1>6, <2>2, <2>3, <2>5, <2>7 DEF RestoreMove, Acquire, TypeInv, TypeOK
<1>7. CASE RestoreGone(p)
  BY <1>7, MoveTypes DEF RestoreGone, TypeInv, TypeOK
<1>8. CASE JournalEdit(p)
  <2>1. req[p].id \in Ids
    BY <1>8 DEF JournalEdit, TypeInv, NamesMemory, Steps, OnMemory, LockedSteps
  <2>2. req[p].attr \in Attrs \cup {None} /\ req[p].op \in OpIds
    BY DEF TypeInv, TypeOK, Requests
  <2>3. intent' \in [Ids -> Intents]
    BY <1>8, <2>1, IntentTypes DEF JournalEdit, TypeInv, TypeOK
  <2>4. rev' \in [Ids -> Revisions] /\ journaled' \subseteq OpIds
    BY <1>8, <2>1, <2>2, JournalTypes DEF JournalEdit, TypeInv, TypeOK
  <2> QED BY <1>8, <2>3, <2>4, MoveTypes DEF JournalEdit, Release, TypeInv, TypeOK
<1> QED BY <1>1, <1>2, <1>3, <1>4, <1>5, <1>6, <1>7, <1>8

\* gc, the passing of days and the faults keep the types.
LEMMA GcAndFaultTypeInv ==
    ASSUME TypeInv,
           \/ DaysPass
           \/ \E p \in Procs :
                 \/ GcSweep(p) \/ GcExpired(p) \/ GcDone(p) \/ Busy(p) \/ Crash(p) \/ Fail(p)
                 \/ \E i \in Ids : GcPurge(p, i)
    PROVE  TypeInv'
<1> USE DEF disk, db, faults
<1>1. CASE DaysPass
  BY <1>1 DEF DaysPass, TypeInv, TypeOK, NamesMemory
<1>2. ASSUME NEW p \in Procs, GcSweep(p)
      PROVE  TypeInv'
  <2> DEFINE r == [NoRequest EXCEPT !.kind = "gc", !.purge = oldTrash,
                      !.kept = {i \in Ids : trash[i] # None} \ oldTrash]
  <2>1. NoRequest \in Requests
    BY ConstantsAssumption DEF NoRequest, Requests, OpIds
  <2>2. oldTrash \subseteq Ids /\ {i \in Ids : trash[i] # None} \ oldTrash \subseteq Ids
    BY DEF TypeInv, TypeOK
  <2>3. r \in Requests
    BY <2>1, <2>2, RequestTypes
  <2> HIDE DEF r
  <2>4. req' = [req EXCEPT ![p] = r] /\ pc' = [pc EXCEPT ![p] = "gc_reaped"]
    BY <1>2 DEF GcSweep, Goto, r
  <2>5. "gc_reaped" \in Steps \ OnMemory
    BY DEF Steps, OnMemory, OtherSteps
  <2>6. pc' \in [Procs -> Steps] /\ req' \in [Procs -> Requests] /\ NamesMemory'
    BY <2>3, <2>4, <2>5 DEF TypeInv, TypeOK, NamesMemory
  <2>7. minted < MaxOps /\ minted' = minted + 1
    BY <1>2 DEF GcSweep
  <2>8. minted' \in OpIds
    BY <2>7, ConstantsAssumption DEF TypeInv, TypeOK, OpIds
  <2> QED BY <1>2, <2>6, <2>8 DEF GcSweep, TypeInv, TypeOK
<1>3. ASSUME NEW p \in Procs, NEW i \in Ids, GcPurge(p, i)
      PROVE  TypeInv'
  <2>1. req' = [req EXCEPT ![p] = [req[p] EXCEPT !.purge = req[p].purge \ {i}]]
    BY <1>3 DEF GcPurge
  <2>2. req' \in [Procs -> Requests]
    BY <2>1, RequestTypes DEF TypeInv, TypeOK
  <2>3. NamesMemory'
    BY <1>3, <2>1 DEF GcPurge, TypeInv, TypeOK, NamesMemory, OnMemory
  <2>4. row' \in [Ids -> Rows] /\ oldRow' \subseteq Ids
    BY <1>3 DEF GcPurge, TypeInv, TypeOK, Rows, NoRow
  <2> QED BY <1>3, <2>2, <2>3, <2>4 DEF GcPurge, TypeInv, TypeOK
<1>4. ASSUME NEW p \in Procs, GcExpired(p)
      PROVE  TypeInv'
  <2>1. req' = [req EXCEPT ![p] = [req[p] EXCEPT !.purge = oldRow \ req[p].kept]]
    BY <1>4 DEF GcExpired
  <2>2. req' \in [Procs -> Requests]
    BY <2>1, RequestTypes DEF TypeInv, TypeOK
  <2>3. pc' = [pc EXCEPT ![p] = "gc_expired"] /\ "gc_expired" \in Steps \ OnMemory
    BY <1>4 DEF GcExpired, Goto, Steps, OnMemory, OtherSteps
  <2>4. pc' \in [Procs -> Steps] /\ NamesMemory'
    BY <2>1, <2>3 DEF TypeInv, TypeOK, NamesMemory
  <2> QED BY <1>4, <2>2, <2>4 DEF GcExpired, TypeInv, TypeOK
<1>5. ASSUME NEW p \in Procs, GcDone(p) \/ Busy(p)
      PROVE  TypeInv'
  BY <1>5, MoveTypes DEF GcDone, Busy, TypeInv, TypeOK
<1>6. ASSUME NEW p \in Procs, Crash(p) \/ Fail(p)
      PROVE  TypeInv'
  <2>1. {"down", "ready"} \subseteq Steps \ OnMemory
    BY DEF Steps, OnMemory
  <2>2. NoRequest \in Requests
    BY ConstantsAssumption DEF NoRequest, Requests, OpIds
  <2>3. pc' \in [Procs -> Steps] /\ req' \in [Procs -> Requests] /\ NamesMemory'
    BY <1>6, <2>1, <2>2 DEF Crash, Fail, Abandon, Goto, TypeInv, TypeOK, NamesMemory
  <2>4. crashes' \in 0 .. MaxCrashes /\ failures' \in 0 .. MaxFailures
    BY <1>6, ConstantsAssumption DEF Crash, Fail, TypeInv, TypeOK
  <2> QED BY <1>6, <2>3, <2>4 DEF Crash, Fail, Abandon, TypeInv, TypeOK
<1> QED BY <1>1, <1>2, <1>3, <1>4, <1>5, <1>6

\* The tables, the files and the processes' steps are always well typed, for
\* any number of memories, processes and commands.
THEOREM TypeCorrect == Spec => []TypeOK
<1>1. TypeInv /\ [Next]_vars => TypeInv'
  <2> SUFFICES ASSUME TypeInv, [Next]_vars PROVE TypeInv'
    OBVIOUS
  <2>1. CASE Next
    BY <2>1, RecoveryTypeInv, SaveTypeInv, DeleteTypeInv, EditTypeInv, GcAndFaultTypeInv
       DEF Next, Proceed, Command
  <2>2. CASE UNCHANGED vars
    BY <2>2 DEF vars, disk, db, faults, TypeInv, TypeOK, NamesMemory
  <2> QED BY <2>1, <2>2
<1>2. Init => TypeInv
  BY InitTypeInv
<1>3. TypeInv => TypeOK
  BY DEF TypeInv
<1> QED BY <1>1, <1>2, <1>3, PTL DEF Spec

--------------------------------------------------------------------------------
\* Steps of a command that carries the frontmatter it will write or has written,
\* and those after its file is in place.
Placed == {"save_placed", "save_purged", "patch_placed", "patch_mirrored",
           "refresh_placed", "restore_moved", "restore_mirrored"}
Carrying == Placed \cup {"save_locked", "patch_loaded", "patch_wait", "refresh_wait"}

\* What a process relies on while it is at a step: the lock is its own, what it
\* writes is some frontmatter, and the file is as it left it.
HoldsLock(p) == pc[p] \in LockedSteps => lock = p
FileStays(p) ==
    /\ pc[p] \in Carrying => req[p].attr \in Attrs
    /\ pc[p] \in Placed => live[req[p].id] = req[p].attr
    /\ pc[p] = "delete_moved" => live[req[p].id] = None

\* The discipline of memory-save.lock.
LockInv == \A p \in Procs : HoldsLock(p) /\ FileStays(p)

\* A step of one process.
Move(p) == Probe(p) \/ Proceed(p) \/ Command(p) \/ Exit(p) \/ Crash(p) \/ Fail(p)

\* No step of a process moves another one, or touches a file under a lock that
\* the other one holds.
LEMMA OthersStay ==
    ASSUME TypeInv, LockInv, NEW p \in Procs, NEW q \in Procs, p # q, Move(p)
    PROVE  /\ pc'[q] = pc[q] /\ req'[q] = req[q]
           /\ pc[q] \in LockedSteps => lock' = q /\ live' = live
<1>1. pc'[q] = pc[q] /\ req'[q] = req[q]
  <2>1. CASE Probe(p) \/ Exit(p) \/ Crash(p) \/ Fail(p)
    BY <2>1 DEF Probe, Exit, Crash, Fail, Abandon, Goto, TypeInv, TypeOK
  <2>2. CASE Command(p)
    BY <2>2 DEF Command, SaveBegin, PatchBegin, DeleteBegin, PruneBegin, RefreshBegin,
                RestoreBegin, GcSweep, Start, Goto, TypeInv, TypeOK
  <2>3. CASE Proceed(p)
    BY <2>3 DEF Proceed, RecoverLock, RecoverDone, RecoverOne, SavePlace, SavePurge,
                SaveCommit, DeleteLoad, DeleteIntent, DeleteMove, DeleteCommit,
                DeleteGone, Heal, PatchIntent, Rewrite, PatchMirror, RefreshMirror,
                RestoreIntent, RestoreMove, RestoreGone, RestoreMirror, JournalEdit,
                GcPurge, GcExpired, GcDone, Busy, Finish, Goto, TypeInv, TypeOK
  <2> QED BY <2>1, <2>2, <2>3 DEF Move
<1>2. ASSUME pc[q] \in LockedSteps
      PROVE  lock' = q /\ live' = live
  <2>1. lock = q /\ q # None
    BY <1>2, ConstantsAssumption DEF LockInv, HoldsLock
  <2>2. pc[p] \notin LockedSteps
    BY <2>1 DEF LockInv, HoldsLock
  <2>3. CASE Probe(p) \/ Exit(p) \/ Crash(p) \/ Fail(p)
    BY <2>1, <2>3 DEF Probe, Exit, Crash, Fail, Abandon, disk
  <2>4. CASE Command(p)
    BY <2>1, <2>4 DEF Command, SaveBegin, PatchBegin, DeleteBegin, PruneBegin,
                      RefreshBegin, RestoreBegin, GcSweep, Acquire, disk
  <2>5. CASE Proceed(p)
    BY <2>1, <2>2, <2>5
       DEF Proceed, RecoverLock, RecoverDone, RecoverOne, SavePlace, SavePurge,
           SaveCommit, DeleteLoad, DeleteIntent, DeleteMove, DeleteCommit,
           DeleteGone, Heal, PatchIntent, Rewrite, PatchMirror, RefreshMirror,
           RestoreIntent, RestoreMove, RestoreGone, RestoreMirror, JournalEdit,
           GcPurge, GcExpired, GcDone, Busy, Acquire, LockedSteps, disk
  <2> QED BY <2>3, <2>4, <2>5 DEF Move
<1> QED BY <1>1, <1>2

\* A process that moves keeps to the discipline itself.
LEMMA OwnStep ==
    ASSUME TypeInv, LockInv, NEW p \in Procs, Move(p)
    PROVE  HoldsLock(p)' /\ FileStays(p)'
<1> USE DEF LockedSteps, Placed, Carrying, Goto, disk
<1>1. CASE pc'[p] \notin LockedSteps \cup Carrying
  BY <1>1 DEF HoldsLock, FileStays
<1>2. CASE pc'[p] \in LockedSteps \cup Carrying /\ Command(p)
  <2>1. ASSUME NEW i \in Ids, NEW a \in Attrs, SaveBegin(p, i, a) \/ PatchBegin(p, i, a)
        PROVE  HoldsLock(p)' /\ FileStays(p)'
    <3>1. pc'[p] \in {"save_locked", "patch_loaded"} /\ req'[p].attr = a
      BY <2>1 DEF SaveBegin, PatchBegin, Start, NoRequest, TypeInv, TypeOK
    <3>2. pc'[p] = "save_locked" => lock' = p
      BY <2>1 DEF SaveBegin, PatchBegin, Start, Acquire, TypeInv, TypeOK
    <3> QED BY <3>1, <3>2 DEF HoldsLock, FileStays
  <2>2. ASSUME NEW i \in Ids, RefreshBegin(p, i)
        PROVE  HoldsLock(p)' /\ FileStays(p)'
    <3>1. pc'[p] = "refresh_wait" /\ req'[p].attr = live[i]
      BY <2>2 DEF RefreshBegin, Start, NoRequest, TypeInv, TypeOK
    <3>2. live[i] \in Attrs
      BY <2>2 DEF RefreshBegin, TypeInv, TypeOK
    <3> QED BY <3>1, <3>2 DEF HoldsLock, FileStays
  <2>3. ASSUME \/ \E i \in Ids : DeleteBegin(p, i) \/ PruneBegin(p, i) \/ RestoreBegin(p, i)
               \/ GcSweep(p)
        PROVE  FALSE
    BY <1>2, <2>3 DEF DeleteBegin, PruneBegin, RestoreBegin, GcSweep, Start, TypeInv, TypeOK
  <2> QED BY <1>2, <2>1, <2>2, <2>3 DEF Command
<1>3. CASE pc'[p] \in LockedSteps \cup Carrying /\ Proceed(p)
  <2>1. CASE RecoverLock(p) \/ \E t \in Owed : RecoverOne(p, t)
    BY <2>1 DEF RecoverLock, RecoverOne, Acquire, HoldsLock, FileStays, LockInv, TypeInv, TypeOK
  <2>2. CASE SavePlace(p) \/ SavePurge(p)
    <3>1. req[p].id \in Ids
      BY <2>2 DEF SavePlace, SavePurge, TypeInv, NamesMemory, Steps, OnMemory
    <3> QED BY <2>2, <3>1
            DEF SavePlace, SavePurge, HoldsLock, FileStays, LockInv, TypeInv, TypeOK
  <2>3. CASE DeleteMove(p)
    <3>1. req[p].id \in Ids
      BY <2>3 DEF DeleteMove, TypeInv, NamesMemory, Steps, OnMemory, WaitingSteps
    <3> QED BY <2>3, <3>1
            DEF DeleteMove, Acquire, HoldsLock, FileStays, TypeInv, TypeOK
  <2>4. CASE PatchIntent(p)
    BY <2>4 DEF PatchIntent, HoldsLock, FileStays, LockInv, TypeInv, TypeOK
  <2>5. CASE Rewrite(p)
    <3>1. req[p].id \in Ids
      BY <2>5 DEF Rewrite, TypeInv, NamesMemory, Steps, OnMemory, WaitingSteps
    <3> QED BY <2>5, <3>1
            DEF Rewrite, Acquire, HoldsLock, FileStays, LockInv, TypeInv, TypeOK
  <2>6. CASE PatchMirror(p) \/ RestoreMirror(p)
    BY <2>6 DEF PatchMirror, RestoreMirror, HoldsLock, FileStays, LockInv, TypeInv, TypeOK
  <2>7. CASE RestoreMove(p)
    <3>1. req[p].id \in Ids
      BY <2>7 DEF RestoreMove, TypeInv, NamesMemory, Steps, OnMemory, WaitingSteps
    <3>2. trash[req[p].id] \in Attrs
      BY <2>7, <3>1 DEF RestoreMove, Restorable, TypeInv, TypeOK
    <3>3. /\ req'[p].attr = trash[req[p].id] /\ req'[p].id = req[p].id
          /\ live'[req[p].id] = trash[req[p].id]
      BY <2>7, <3>1 DEF RestoreMove, TypeInv, TypeOK, Requests
    <3> QED BY <2>7, <3>2, <3>3
            DEF RestoreMove, Acquire, HoldsLock, FileStays, TypeInv, TypeOK
  <2>8. ASSUME \/ RecoverDone(p) \/ SaveCommit(p) \/ DeleteLoad(p) \/ DeleteIntent(p)
               \/ DeleteCommit(p) \/ DeleteGone(p) \/ Heal(p) \/ RefreshMirror(p)
               \/ RestoreIntent(p) \/ RestoreGone(p) \/ JournalEdit(p)
               \/ GcExpired(p) \/ GcDone(p) \/ Busy(p) \/ \E i \in Ids : GcPurge(p, i)
        PROVE  FALSE
    BY <1>3, <2>8
       DEF RecoverDone, SaveCommit, DeleteLoad, DeleteIntent, DeleteCommit, DeleteGone,
           Heal, RefreshMirror, RestoreIntent, RestoreGone, JournalEdit, GcExpired,
           GcDone, Busy, GcPurge, Finish, TypeInv, TypeOK
  <2> QED BY <1>3, <2>1, <2>2, <2>3, <2>4, <2>5, <2>6, <2>7, <2>8 DEF Proceed
<1>4. CASE Probe(p) \/ Exit(p) \/ Crash(p) \/ Fail(p)
  BY <1>4 DEF Probe, Exit, Crash, Fail, HoldsLock, FileStays, TypeInv, TypeOK
<1> QED BY <1>1, <1>2, <1>3, <1>4 DEF Move

SafeInv == TypeInv /\ LockInv

\* memory-save.lock is held by whoever takes a locked step, and while one does
\* the file it has placed or moved away stays as it left it.
THEOREM LockDiscipline == Spec => []SafeInv
<1>1. Init => SafeInv
  <2> SUFFICES ASSUME Init PROVE LockInv
    BY InitTypeInv DEF SafeInv
  <2> QED BY DEF Init, LockInv, HoldsLock, FileStays, LockedSteps, Placed, Carrying
<1>2. SafeInv /\ [Next]_vars => SafeInv'
  <2> SUFFICES ASSUME SafeInv, [Next]_vars PROVE SafeInv'
    OBVIOUS
  <2>1. TypeInv'
    <3>1. CASE Next
      BY <3>1, RecoveryTypeInv, SaveTypeInv, DeleteTypeInv, EditTypeInv, GcAndFaultTypeInv
         DEF SafeInv, Next, Proceed, Command
    <3>2. CASE UNCHANGED vars
      BY <3>2 DEF SafeInv, vars, disk, db, faults, TypeInv, TypeOK, NamesMemory
    <3> QED BY <3>1, <3>2
  <2>2. ASSUME NEW q \in Procs
        PROVE  HoldsLock(q)' /\ FileStays(q)'
    <3>1. ASSUME NEW p \in Procs, Move(p)
          PROVE  HoldsLock(q)' /\ FileStays(q)'
      <4>1. CASE p = q
        BY <3>1, <4>1, OwnStep DEF SafeInv
      <4>2. CASE p # q
        BY <3>1, <4>2, OthersStay
           DEF SafeInv, LockInv, HoldsLock, FileStays, Placed, Carrying, LockedSteps
      <4> QED BY <4>1, <4>2
    <3>2. CASE DaysPass \/ UNCHANGED vars
      BY <3>2 DEF DaysPass, vars, disk, SafeInv, LockInv, HoldsLock, FileStays
    <3> QED BY <3>1, <3>2 DEF Next, Move
  <2> QED BY <2>1, <2>2 DEF SafeInv, LockInv
<1> QED BY <1>1, <1>2, PTL DEF Spec

\* Which steps touch the journal's newest operations, and which the rows.
LEMMA WhatMoves ==
    ASSUME Next
    PROVE  /\ \/ UNCHANGED rev
              \/ \E p \in Procs : \/ \E t \in Owed : RecoverOne(p, t)
                                 \/ SaveCommit(p) \/ DeleteCommit(p) \/ JournalEdit(p)
           /\ \/ UNCHANGED row
              \/ \E p \in Procs : \/ \E t \in Owed : RecoverOne(p, t)
                                 \/ SaveCommit(p) \/ PatchMirror(p) \/ RefreshMirror(p) \/ RestoreMirror(p)
                                 \/ DeleteCommit(p) \/ Heal(p)
                                 \/ \E j \in Ids : GcPurge(p, j)
<1>1. CASE DaysPass
  BY <1>1 DEF DaysPass
<1>2. ASSUME NEW p \in Procs, Probe(p) \/ Exit(p) \/ Crash(p) \/ Fail(p)
      PROVE  UNCHANGED <<rev, row>>
  BY <1>2 DEF Probe, Exit, Crash, Fail, Abandon, db
<1>3. ASSUME NEW p \in Procs, Command(p)
      PROVE  UNCHANGED <<rev, row>>
  BY <1>3 DEF Command, SaveBegin, PatchBegin, DeleteBegin, PruneBegin, RefreshBegin, RestoreBegin,
              GcSweep, db
<1>4. ASSUME NEW p \in Procs, RecoverLock(p) \/ RecoverDone(p) \/ SavePlace(p) \/ SavePurge(p)
                \/ DeleteLoad(p) \/ DeleteIntent(p) \/ DeleteMove(p) \/ DeleteGone(p)
      PROVE  UNCHANGED <<rev, row>>
  BY <1>4 DEF RecoverLock, RecoverDone, SavePlace, SavePurge, DeleteLoad, DeleteIntent, DeleteMove,
              DeleteGone, db
<1>5. ASSUME NEW p \in Procs, PatchIntent(p) \/ Rewrite(p) \/ RestoreIntent(p) \/ RestoreMove(p)
                \/ RestoreGone(p) \/ GcExpired(p) \/ GcDone(p) \/ Busy(p)
      PROVE  UNCHANGED <<rev, row>>
  BY <1>5 DEF PatchIntent, Rewrite, RestoreIntent, RestoreMove, RestoreGone, GcExpired, GcDone, Busy, db
<1>6. ASSUME NEW p \in Procs, PatchMirror(p) \/ RefreshMirror(p) \/ RestoreMirror(p) \/ Heal(p)
                \/ \E j \in Ids : GcPurge(p, j)
      PROVE  UNCHANGED rev
  BY <1>6 DEF PatchMirror, RefreshMirror, RestoreMirror, Heal, GcPurge
<1>7. ASSUME NEW p \in Procs, JournalEdit(p)
      PROVE  UNCHANGED row
  BY <1>7 DEF JournalEdit
<1>8. ASSUME NEW p \in Procs, Proceed(p)
      PROVE  \/ UNCHANGED <<rev, row>>
             \/ (\E t \in Owed : RecoverOne(p, t)) \/ SaveCommit(p) \/ DeleteCommit(p) \/ JournalEdit(p)
             \/ PatchMirror(p) \/ RefreshMirror(p) \/ RestoreMirror(p) \/ Heal(p)
             \/ \E j \in Ids : GcPurge(p, j)
  BY <1>4, <1>5, <1>8 DEF Proceed
<1>9. CASE \E p \in Procs : Probe(p) \/ Proceed(p) \/ Command(p) \/ Exit(p) \/ Crash(p) \/ Fail(p)
  BY <1>2, <1>3, <1>6, <1>7, <1>8, <1>9
<1> QED BY <1>1, <1>9 DEF Next

\* Whatever is announced to peers is on disk when it is announced: an upsert or
\* a restore carries the frontmatter of the live file, a tombstone is journalled
\* only while there is none.
THEOREM FeedFollowsDiskAlways == Spec => FeedFollowsDisk
<1> DEFINE Announced(i) == rev'[i] # rev[i] =>
          /\ rev'[i].op # "none"
          /\ rev'[i].attr = live[i]
          /\ (rev'[i].op = "tombstone") <=> (live[i] = None)
<1>1. SafeInv /\ [Next]_vars => [\A i \in Ids : Announced(i)]_vars
  <2> SUFFICES ASSUME SafeInv, Next, NEW i \in Ids, rev'[i] # rev[i]
               PROVE  Announced(i)
    OBVIOUS
  <2> USE ConstantsAssumption DEF SafeInv, TypeInv, TypeOK
  <2>1. PICK p \in Procs :
           \/ \E t \in Owed : RecoverOne(p, t)
           \/ SaveCommit(p) \/ DeleteCommit(p) \/ JournalEdit(p)
    BY WhatMoves
  <2>2. ASSUME NEW t \in Owed, RecoverOne(p, t)
        PROVE  Announced(i)
    <3>1. i = t.id /\ MoveLanded(t)
          /\ rev'[i] = [op |-> FinishedOp(t), attr |-> live[i], oid |-> t.op]
      BY <2>2 DEF RecoverOne, Journal
    <3> QED BY <3>1 DEF MoveLanded, FinishedOp, Owed
  <2>3. CASE SaveCommit(p) \/ JournalEdit(p)
    <3>1. /\ i = req[p].id /\ pc[p] \in Placed
          /\ rev'[i].attr = req[p].attr /\ rev'[i].op \in {"upsert", "restore"}
      BY <2>3 DEF SaveCommit, JournalEdit, Journal, Placed
    <3> QED BY <3>1 DEF LockInv, FileStays, Carrying
  <2>4. CASE DeleteCommit(p)
    <3>1. /\ i = req[p].id /\ pc[p] = "delete_moved"
          /\ rev'[i].attr = None /\ rev'[i].op = "tombstone"
      BY <2>4 DEF DeleteCommit, Journal, db
    <3> QED BY <3>1 DEF LockInv, FileStays
  <2> QED BY <2>1, <2>2, <2>3, <2>4
<1> QED BY <1>1, LockDiscipline, PTL DEF Spec, FeedFollowsDisk

\* A row goes live only with what the file holds and is marked deleted only
\* while there is no file, but for prune's heal.
THEOREM RowFollowsDiskAlways == Spec => RowFollowsDisk
<1> DEFINE Derived(i) == row'[i] # row[i] =>
          \/ row'[i].state = "live" /\ row'[i].attr = live[i]
          \/ row'[i].state = "deleted" /\ live[i] = None
          \/ row'[i].state = "absent"
          \/ \E p \in Procs : Heal(p)
<1>1. SafeInv /\ [Next]_vars => [\A i \in Ids : Derived(i)]_vars
  <2> SUFFICES ASSUME SafeInv, Next, NEW i \in Ids, row'[i] # row[i],
                      ~ \E p \in Procs : Heal(p)
               PROVE  Derived(i)
    OBVIOUS
  <2> USE DEF SafeInv, TypeInv, TypeOK
  <2>1. PICK p \in Procs :
           \/ \E t \in Owed : RecoverOne(p, t)
           \/ SaveCommit(p) \/ PatchMirror(p) \/ RefreshMirror(p) \/ RestoreMirror(p)
           \/ DeleteCommit(p)
           \/ \E j \in Ids : GcPurge(p, j)
    BY WhatMoves
  <2>2. ASSUME NEW t \in Owed, RecoverOne(p, t)
        PROVE  Derived(i)
    <3>1. i = t.id /\ MoveLanded(t)
      BY <2>2 DEF RecoverOne, Mirror, MarkDeleted
    <3>2. CASE t.kind = "write"
      BY <2>2, <3>1, <3>2 DEF RecoverOne, Mirror, LiveRow
    <3>3. CASE t.kind # "write"
      <4>1. row'[i].state \in {"absent", "deleted"}
        BY <2>2, <3>1, <3>3 DEF RecoverOne, MarkDeleted, Rows
      <4> QED BY <3>1, <3>3, <4>1 DEF MoveLanded
    <3> QED BY <3>2, <3>3
  <2>3. CASE SaveCommit(p) \/ PatchMirror(p) \/ RefreshMirror(p) \/ RestoreMirror(p)
    <3>1. /\ i = req[p].id /\ pc[p] \in Placed
          /\ row'[i] = LiveRow(req[p].attr)
      BY <2>3 DEF SaveCommit, PatchMirror, RefreshMirror, RestoreMirror, Mirror, Placed
    <3> QED BY <3>1 DEF LockInv, FileStays, LiveRow
  <2>4. CASE DeleteCommit(p)
    <3>1. i = req[p].id /\ pc[p] = "delete_moved" /\ row'[i].state \in {"absent", "deleted"}
      BY <2>4 DEF DeleteCommit, MarkDeleted, Rows, db
    <3> QED BY <3>1 DEF LockInv, FileStays
  <2>5. ASSUME NEW j \in Ids, GcPurge(p, j)
        PROVE  Derived(i)
    BY <2>5 DEF GcPurge, NoRow
  <2> QED BY <2>1, <2>2, <2>3, <2>4, <2>5
<1> QED BY <1>1, LockDiscipline, PTL DEF Spec, RowFollowsDisk

--------------------------------------------------------------------------------
\* Who may still journal an operation: the command that minted it, the intent
\* that names it, and a reconciliation that has read that intent.
InFlight(p) == pc[p] \in OnMemory
Unrecorded == {"delete_load", "delete_loaded", "patch_loaded", "restore_loaded"}

\* Operations are minted once and in order.
OpsMinted ==
    /\ \A o \in journaled : o <= minted
    /\ \A i \in Outstanding : intent[i].op <= minted
    /\ \A p \in Procs : InFlight(p) => req[p].op <= minted
    /\ \A p \in Procs : \A t \in req[p].owed : t.op <= minted

\* Two that may journal one operation work on one memory, and two commands
\* never share an operation.
OpsApart ==
    /\ \A i, j \in Outstanding : intent[i].op = intent[j].op => i = j
    /\ \A i \in Outstanding, p \in Procs :
          InFlight(p) /\ intent[i].op = req[p].op => i = req[p].id
    /\ \A i \in Outstanding, p \in Procs : \A t \in req[p].owed :
          intent[i].op = t.op => i = t.id
    /\ \A p, q \in Procs : InFlight(p) /\ InFlight(q) /\ req[p].op = req[q].op => p = q
    /\ \A p, q \in Procs : \A t \in req[q].owed :
          InFlight(p) /\ req[p].op = t.op => req[p].id = t.id
    /\ \A p, q \in Procs : \A t \in req[p].owed, u \in req[q].owed :
          t.op = u.op => t.id = u.id

\* Until a command has recorded its intent, nobody else knows its operation.
OpsPrivate ==
    \A p \in Procs : pc[p] \in Unrecorded =>
        /\ req[p].op \notin journaled
        /\ \A i \in Outstanding : intent[i].op # req[p].op
        /\ \A q \in Procs : \A t \in req[q].owed : t.op # req[p].op

OpsInv == OpsMinted /\ OpsApart /\ OpsPrivate /\ OwedIsUnjournaled

\* What one step can do to those: mint one operation, record the intent of a
\* command, read intents into a reconciliation, journal and settle one operation.
Minting(p) ==
    minted' = minted + 1 /\ InFlight(p)' /\ req'[p].op = minted'
Recording(p, i) ==
    \/ pc[p] \in Unrecorded /\ pc'[p] \notin Unrecorded
       /\ i = req[p].id /\ intent'[i].op = req[p].op
    \/ Minting(p) /\ pc'[p] \notin Unrecorded /\ i = req'[p].id /\ intent'[i].op = minted'
Settling(p, o) ==
    \/ InFlight(p) /\ pc[p] \notin Unrecorded
       /\ o = req[p].op /\ req[p].id \notin Outstanding'
    \/ \E t \in req[p].owed : o = t.op /\ t.id \notin Outstanding'

\* An intent is an old one, or the one its command has just recorded.
LEMMA StepOfIntent ==
    ASSUME TypeInv, NEW p \in Procs, Move(p), NEW i \in Outstanding'
    PROVE  (i \in Outstanding /\ intent'[i] = intent[i]) \/ Recording(p, i)
<1> USE DEF TypeInv, TypeOK, Outstanding, db
<1>1. CASE Probe(p) \/ Exit(p) \/ Crash(p) \/ Fail(p)
  BY <1>1 DEF Probe, Exit, Crash, Fail, Abandon
<1>2. ASSUME NEW j \in Ids, NEW a \in Attrs, SaveBegin(p, j, a)
      PROVE  (i \in Outstanding /\ intent'[i] = intent[i]) \/ Recording(p, i)
  <2>1. /\ intent' = [intent EXCEPT ![j] = [kind |-> "write", op |-> minted + 1]]
        /\ minted' = minted + 1 /\ pc'[p] = "save_locked"
    BY <1>2 DEF SaveBegin, Record, Start, Goto
  <2>2. req'[p].op = minted + 1 /\ req'[p].id = j
    BY <1>2 DEF SaveBegin, Start, NoRequest
  <2>3. "save_locked" \in OnMemory \ Unrecorded
    BY DEF OnMemory, Unrecorded, Steps, LockedSteps
  <2>4. i # j => i \in Outstanding /\ intent'[i] = intent[i]
    BY <2>1
  <2> QED BY <2>1, <2>2, <2>3, <2>4 DEF Recording, Minting, InFlight
<1>3. CASE \/ \E j \in Ids, a \in Attrs : PatchBegin(p, j, a)
           \/ \E j \in Ids : DeleteBegin(p, j) \/ PruneBegin(p, j) \/ RefreshBegin(p, j)
                              \/ RestoreBegin(p, j)
           \/ GcSweep(p)
  BY <1>3 DEF PatchBegin, DeleteBegin, PruneBegin, RefreshBegin, RestoreBegin, GcSweep
<1>4. CASE DeleteIntent(p) \/ PatchIntent(p) \/ RestoreIntent(p)
  BY <1>4 DEF DeleteIntent, PatchIntent, RestoreIntent, Record, Goto, Recording, Unrecorded
<1>5. CASE \/ SaveCommit(p) \/ DeleteCommit(p) \/ JournalEdit(p)
           \/ \E t \in Owed : RecoverOne(p, t)
  BY <1>5 DEF SaveCommit, DeleteCommit, JournalEdit, RecoverOne, Clear, NoIntent
<1>6. CASE \/ RecoverLock(p) \/ RecoverDone(p) \/ SavePlace(p) \/ SavePurge(p)
           \/ DeleteLoad(p) \/ DeleteMove(p) \/ DeleteGone(p) \/ Heal(p) \/ Rewrite(p)
           \/ PatchMirror(p) \/ RefreshMirror(p) \/ RestoreMove(p) \/ RestoreGone(p)
           \/ RestoreMirror(p) \/ GcExpired(p) \/ GcDone(p) \/ Busy(p)
           \/ \E j \in Ids : GcPurge(p, j)
  BY <1>6 DEF RecoverLock, RecoverDone, SavePlace, SavePurge, DeleteLoad, DeleteMove,
              DeleteGone, Heal, Rewrite, PatchMirror, RefreshMirror, RestoreMove,
              RestoreGone, RestoreMirror, GcExpired, GcDone, Busy, GcPurge
<1> QED BY <1>1, <1>2, <1>3, <1>4, <1>5, <1>6 DEF Move, Proceed, Command

\* A command in flight was in flight, or has just minted its operation.
LEMMA StepOfRequest ==
    ASSUME TypeInv, NEW p \in Procs, Move(p), InFlight(p)'
    PROVE  \/ /\ InFlight(p) /\ req'[p].op = req[p].op /\ req'[p].id = req[p].id
              /\ pc'[p] \in Unrecorded => pc[p] \in Unrecorded
           \/ Minting(p)
<1> USE DEF TypeInv, TypeOK
<1>1. CASE \/ Probe(p) \/ Exit(p) \/ Crash(p) \/ Fail(p) \/ RecoverLock(p) \/ RecoverDone(p)
           \/ SaveCommit(p) \/ DeleteCommit(p) \/ DeleteGone(p) \/ Heal(p) \/ RefreshMirror(p)
           \/ RestoreGone(p) \/ JournalEdit(p) \/ GcExpired(p) \/ GcDone(p) \/ Busy(p)
           \/ GcSweep(p)
  <2>1. pc'[p] \notin OnMemory
    BY <1>1 DEF Probe, Exit, Crash, Fail, RecoverLock, RecoverDone, SaveCommit, DeleteCommit,
                DeleteGone, Heal, RefreshMirror, RestoreGone, JournalEdit, GcExpired,
                GcDone, Busy, GcSweep, Finish, Goto, OnMemory
  <2> QED BY <2>1 DEF InFlight
<1>2. CASE \/ \E t \in Owed : RecoverOne(p, t)
           \/ \E i \in Ids : GcPurge(p, i)
  BY <1>2 DEF RecoverOne, GcPurge, InFlight, OnMemory
<1>3. CASE \/ SavePlace(p) \/ SavePurge(p) \/ DeleteLoad(p) \/ DeleteIntent(p)
           \/ DeleteMove(p) \/ PatchIntent(p) \/ Rewrite(p) \/ PatchMirror(p)
           \/ RestoreIntent(p) \/ RestoreMirror(p)
  BY <1>3 DEF SavePlace, SavePurge, DeleteLoad, DeleteIntent, DeleteMove, PatchIntent, Rewrite,
              PatchMirror, RestoreIntent, RestoreMirror, Finish, Goto, InFlight, OnMemory,
              Unrecorded, Steps, LockedSteps, WaitingSteps, OtherSteps
<1>4. CASE RestoreMove(p)
  <2>1. pc[p] = "restore_wait" /\ pc'[p] = "restore_moved"
    BY <1>4 DEF RestoreMove, Goto
  <2>2. req'[p] = [req[p] EXCEPT !.attr = trash[req[p].id]]
    BY <1>4 DEF RestoreMove
  <2>3. req'[p].op = req[p].op /\ req'[p].id = req[p].id
    BY <2>2 DEF Requests
  <2> QED BY <2>1, <2>3 DEF InFlight, OnMemory, Unrecorded, Steps, LockedSteps, WaitingSteps
<1>5. ASSUME NEW k, NEW i \in Ids, NEW a, NEW step, Start(p, k, i, a, step)
      PROVE  Minting(p)
  <2>1. minted' = minted + 1 /\ req'[p].op = minted + 1
    BY <1>5 DEF Start, NoRequest
  <2> QED BY <2>1 DEF Minting
<1>6. ASSUME NEW i \in Ids, NEW a \in Attrs, SaveBegin(p, i, a) \/ PatchBegin(p, i, a)
      PROVE  Minting(p)
  BY <1>5, <1>6 DEF SaveBegin, PatchBegin
<1>7. ASSUME NEW i \in Ids,
             DeleteBegin(p, i) \/ PruneBegin(p, i) \/ RefreshBegin(p, i) \/ RestoreBegin(p, i)
      PROVE  Minting(p)
  BY <1>5, <1>7 DEF DeleteBegin, PruneBegin, RefreshBegin, RestoreBegin
<1> QED BY <1>1, <1>2, <1>3, <1>4, <1>6, <1>7 DEF Move, Proceed, Command

\* What a reconciliation owes was owed before, or is an intent it has just read.
LEMMA StepOfOwed ==
    ASSUME TypeInv, NEW p \in Procs, Move(p), NEW t \in req'[p].owed
    PROVE  t \in req[p].owed \/ (t.id \in Outstanding /\ intent[t.id].op = t.op)
<1> USE DEF TypeInv, TypeOK
<1>1. NoRequest.owed = {}
  BY DEF NoRequest
<1>2. CASE \/ Probe(p) \/ Exit(p) \/ SavePlace(p) \/ SavePurge(p) \/ DeleteLoad(p)
           \/ DeleteIntent(p) \/ DeleteMove(p) \/ PatchIntent(p) \/ Rewrite(p)
           \/ PatchMirror(p) \/ RestoreIntent(p) \/ RestoreMirror(p)
           \/ Crash(p) \/ Fail(p) \/ RecoverDone(p) \/ SaveCommit(p) \/ DeleteCommit(p)
           \/ DeleteGone(p) \/ Heal(p) \/ RefreshMirror(p) \/ RestoreGone(p)
           \/ JournalEdit(p) \/ GcDone(p) \/ Busy(p)
  BY <1>1, <1>2
     DEF Probe, Exit, SavePlace, SavePurge, DeleteLoad, DeleteIntent, DeleteMove,
         PatchIntent, Rewrite, PatchMirror, RestoreIntent, RestoreMirror, Crash, Fail,
         Abandon, RecoverDone, SaveCommit, DeleteCommit, DeleteGone, Heal, RefreshMirror,
         RestoreGone, JournalEdit, GcDone, Busy, Finish
<1>3. CASE RecoverLock(p)
  <2>1. req'[p] = [req[p] EXCEPT !.owed =
              {[id |-> i, kind |-> intent[i].kind, op |-> intent[i].op] : i \in Outstanding}]
    BY <1>3 DEF RecoverLock
  <2>2. req'[p].owed =
              {[id |-> i, kind |-> intent[i].kind, op |-> intent[i].op] : i \in Outstanding}
    BY <2>1 DEF Requests
  <2> QED BY <2>2
<1>4. CASE \/ RestoreMove(p) \/ GcExpired(p)
           \/ \E i \in Ids : GcPurge(p, i)
  BY <1>4 DEF RestoreMove, GcExpired, GcPurge, Requests
<1>5. CASE \E u \in Owed : RecoverOne(p, u)
  BY <1>5 DEF RecoverOne, Requests
<1>6. ASSUME NEW k, NEW i \in Ids, NEW a, NEW step, Start(p, k, i, a, step)
      PROVE  FALSE
  BY <1>1, <1>6 DEF Start, NoRequest
<1>7. ASSUME NEW i \in Ids, NEW a \in Attrs, SaveBegin(p, i, a) \/ PatchBegin(p, i, a)
      PROVE  FALSE
  BY <1>6, <1>7 DEF SaveBegin, PatchBegin
<1>8. ASSUME NEW i \in Ids,
             DeleteBegin(p, i) \/ PruneBegin(p, i) \/ RefreshBegin(p, i) \/ RestoreBegin(p, i)
      PROVE  FALSE
  BY <1>6, <1>8 DEF DeleteBegin, PruneBegin, RefreshBegin, RestoreBegin
<1>9. CASE GcSweep(p)
  BY <1>9 DEF GcSweep, NoRequest
<1> QED BY <1>2, <1>3, <1>4, <1>5, <1>7, <1>8, <1>9 DEF Move, Proceed, Command

\* An operation is journalled by a command that has recorded it or by a
\* reconciliation, and settles the intent of that memory.
LEMMA StepOfJournal ==
    ASSUME TypeInv, NEW p \in Procs, Move(p), NEW o \in journaled', o \notin journaled
    PROVE  Settling(p, o)
<1> USE DEF TypeInv, TypeOK, Outstanding, db
<1>1. \/ SaveCommit(p) \/ DeleteCommit(p) \/ JournalEdit(p)
      \/ \E t \in Owed : RecoverOne(p, t)
  BY DEF Move, Proceed, Command, Probe, Exit, Crash, Fail, Abandon,
         SaveBegin, PatchBegin, DeleteBegin, PruneBegin, RefreshBegin, RestoreBegin,
         GcSweep, RecoverLock, RecoverDone, SavePlace, SavePurge, DeleteLoad,
         DeleteIntent, DeleteMove, DeleteGone, Heal, PatchIntent, Rewrite,
         PatchMirror, RefreshMirror, RestoreIntent, RestoreMove, RestoreGone,
         RestoreMirror, GcPurge, GcExpired, GcDone, Busy
<1>2. CASE SaveCommit(p) \/ DeleteCommit(p) \/ JournalEdit(p)
  <2>1. pc[p] \in {"save_purged", "delete_moved", "patch_mirrored", "restore_mirrored"}
        /\ o = req[p].op /\ Clear(req[p].id)
    BY <1>2 DEF SaveCommit, DeleteCommit, JournalEdit, Journal
  <2> QED BY <2>1 DEF Settling, Clear, NoIntent, InFlight, OnMemory, Unrecorded, Steps,
                      LockedSteps
<1>3. ASSUME NEW t \in Owed, RecoverOne(p, t)
      PROVE  Settling(p, o)
  <2>1. t \in req[p].owed /\ o = t.op /\ Clear(t.id)
    BY <1>3 DEF RecoverOne, Journal
  <2> QED BY <2>1 DEF Settling, Clear, NoIntent
<1> QED BY <1>1, <1>2, <1>3

\* The operation counter never goes back.
LEMMA StepOfCounter ==
    ASSUME TypeInv, NEW p \in Procs, Move(p)
    PROVE  minted \in Nat /\ minted' \in {minted, minted + 1}
<1>1. minted \in Nat
  BY ConstantsAssumption DEF TypeInv, TypeOK, OpIds
<1>2. minted' \in {minted, minted + 1}
  BY DEF Move, Proceed, Command, Probe, Exit, Crash, Fail, Abandon, Start,
         SaveBegin, PatchBegin, DeleteBegin, PruneBegin, RefreshBegin, RestoreBegin,
         GcSweep, RecoverLock, RecoverOne, RecoverDone, SavePlace, SavePurge, SaveCommit,
         DeleteLoad, DeleteIntent, DeleteMove, DeleteCommit, DeleteGone, Heal, PatchIntent,
         Rewrite, PatchMirror, RefreshMirror, RestoreIntent, RestoreMove, RestoreGone,
         RestoreMirror, JournalEdit, GcPurge, GcExpired, GcDone, Busy
<1> QED BY <1>1, <1>2

\* Operations are numbers, so that the counter orders them.
LEMMA OpsAreNumbers ==
    ASSUME TypeInv
    PROVE  /\ \A i \in Outstanding : intent[i].op \in Nat
           /\ \A p \in Procs : req[p].op \in Nat
           /\ \A p \in Procs : \A t \in req[p].owed : t.op \in Nat /\ t.id \in Ids
           /\ \A o \in journaled : o \in Nat
BY ConstantsAssumption DEF TypeInv, TypeOK, OpIds, Intents, Requests, Owed, Outstanding

LEMMA OpsStep ==
    ASSUME SafeInv, SafeInv', OpsInv, NEW p \in Procs, Move(p)
    PROVE  OpsInv'
<1>1. TypeInv /\ TypeInv' /\ minted \in Nat /\ minted' \in {minted, minted + 1}
  BY StepOfCounter DEF SafeInv
<1>2. \A i \in Outstanding' : (i \in Outstanding /\ intent'[i] = intent[i]) \/ Recording(p, i)
  BY <1>1, StepOfIntent
<1>3. \A q \in Procs : InFlight(q)' =>
         \/ /\ InFlight(q) /\ req'[q].op = req[q].op /\ req'[q].id = req[q].id
            /\ pc'[q] \in Unrecorded => pc[q] \in Unrecorded
         \/ q = p /\ Minting(p)
  BY <1>1, StepOfRequest, OthersStay DEF SafeInv, InFlight
<1>4. \A q \in Procs : \A t \in req'[q].owed :
         t \in req[q].owed \/ (t.id \in Outstanding /\ intent[t.id].op = t.op)
  <2> TAKE q \in Procs
  <2>1. CASE q = p
    BY <1>1, <2>1, StepOfOwed
  <2>2. CASE q # p
    BY <1>1, <2>2, OthersStay DEF SafeInv
  <2> QED BY <2>1, <2>2
<1>5. \A o \in journaled' : o \in journaled \/ Settling(p, o)
  BY <1>1, StepOfJournal
<1>6. \A q \in Procs : pc[q] \in Unrecorded => InFlight(q)
  BY DEF InFlight, Unrecorded, OnMemory, Steps, OtherSteps
<1>7. \A q \in Procs : pc'[q] \in Unrecorded => InFlight(q)'
  BY DEF InFlight, Unrecorded, OnMemory, Steps, OtherSteps
<1>8. Minting(p) => /\ \A i \in Outstanding : intent[i].op # minted'
                    /\ \A q \in Procs : InFlight(q) => req[q].op # minted'
                    /\ \A q \in Procs : \A t \in req[q].owed : t.op # minted'
                    /\ minted' \notin journaled
  BY <1>1, OpsAreNumbers DEF Minting, OpsInv, OpsMinted
<1>9. /\ \A i \in Outstanding' : intent'[i].op \in Nat
      /\ \A q \in Procs : req'[q].op \in Nat
      /\ \A q \in Procs : \A t \in req'[q].owed : t.op \in Nat /\ t.id \in Ids
      /\ \A i \in Outstanding : intent[i].op \in Nat
      /\ \A q \in Procs : req[q].op \in Nat
      /\ \A q \in Procs : \A t \in req[q].owed : t.op \in Nat /\ t.id \in Ids
      /\ \A o \in journaled : o \in Nat
  BY <1>1, ConstantsAssumption DEF TypeInv, TypeOK, OpIds, Intents, Requests, Owed, Outstanding
<1>10. OpsMinted'
  <2>1. \A o \in journaled' : o <= minted'
    <3> TAKE o \in journaled'
    <3>1. CASE o \in journaled
      BY <1>1, <1>9, <3>1 DEF OpsInv, OpsMinted
    <3>2. CASE Settling(p, o)
      <4>1. o \in Nat /\ o <= minted
        BY <1>9, <3>2 DEF OpsInv, OpsMinted, Settling
      <4> QED BY <1>1, <4>1
    <3> QED BY <1>5, <3>1, <3>2
  <2>2. \A i \in Outstanding' : intent'[i].op <= minted'
    BY <1>1, <1>2, <1>6, <1>9 DEF OpsInv, OpsMinted, Recording, Minting
  <2>3. \A q \in Procs : InFlight(q)' => req'[q].op <= minted'
    BY <1>1, <1>3, <1>9 DEF OpsInv, OpsMinted, Minting
  <2>4. \A q \in Procs : \A t \in req'[q].owed : t.op <= minted'
    BY <1>1, <1>4, <1>9 DEF OpsInv, OpsMinted
  <2> QED BY <2>1, <2>2, <2>3, <2>4 DEF OpsMinted
<1>11. OpsPrivate'
  <2> SUFFICES ASSUME NEW q \in Procs, pc'[q] \in Unrecorded
               PROVE  /\ req'[q].op \notin journaled'
                      /\ \A i \in Outstanding' : intent'[i].op # req'[q].op
                      /\ \A x \in Procs : \A t \in req'[x].owed : t.op # req'[q].op
    BY DEF OpsPrivate
  <2>1. CASE q = p /\ Minting(p)
    <3>1. req'[q].op = minted'
      BY <2>1 DEF Minting
    <3>2. req'[q].op \notin journaled'
      BY <1>5, <1>8, <1>9, <2>1, <3>1 DEF Settling
    <3>3. \A i \in Outstanding' : intent'[i].op # req'[q].op
      BY <1>2, <1>8, <1>9, <2>1, <3>1 DEF Recording
    <3>4. \A x \in Procs : \A t \in req'[x].owed : t.op # req'[q].op
      BY <1>4, <1>8, <1>9, <2>1, <3>1
    <3> QED BY <3>2, <3>3, <3>4
  <2>2. CASE ~(q = p /\ Minting(p))
    <3>1. /\ pc[q] \in Unrecorded /\ InFlight(q)
          /\ req'[q].op = req[q].op
      BY <1>3, <1>7, <2>2
    <3>2. /\ req[q].op \notin journaled
          /\ \A i \in Outstanding : intent[i].op # req[q].op
          /\ \A x \in Procs : \A t \in req[x].owed : t.op # req[q].op
      BY <3>1 DEF OpsInv, OpsPrivate
    <3>3. \A x \in Procs : InFlight(x) /\ x # q => req[x].op # req[q].op
      BY <3>1 DEF OpsInv, OpsApart
    <3>4. req'[q].op \notin journaled'
      BY <1>5, <3>1, <3>2, <3>3 DEF Settling
    <3>5. \A i \in Outstanding' : intent'[i].op # req'[q].op
      <4> TAKE i \in Outstanding'
      <4>1. CASE i \in Outstanding /\ intent'[i] = intent[i]
        BY <3>1, <3>2, <4>1
      <4>2. CASE pc[p] \in Unrecorded /\ pc'[p] \notin Unrecorded /\ intent'[i].op = req[p].op
        BY <1>6, <3>1, <3>3, <4>2
      <4>3. CASE Minting(p) /\ intent'[i].op = minted'
        BY <1>8, <1>9, <3>1, <4>3
      <4> QED BY <1>2, <4>1, <4>2, <4>3 DEF Recording
    <3>6. \A x \in Procs : \A t \in req'[x].owed : t.op # req'[q].op
      <4> TAKE x \in Procs
      <4> TAKE t \in req'[x].owed
      <4> QED BY <1>4, <3>1, <3>2
    <3> QED BY <3>4, <3>5, <3>6
  <2> QED BY <2>1, <2>2
<1>12. OwedIsUnjournaled'
  <2> SUFFICES ASSUME NEW i \in Outstanding', intent'[i].op \in journaled'
               PROVE  FALSE
    BY DEF OwedIsUnjournaled
  <2>1. CASE i \in Outstanding /\ intent'[i] = intent[i]
    <3>1. Settling(p, intent[i].op)
      BY <1>5, <2>1 DEF OpsInv, OwedIsUnjournaled
    <3> QED BY <2>1, <3>1 DEF OpsInv, OpsApart, Settling
  <2>2. CASE pc[p] \in Unrecorded /\ pc'[p] \notin Unrecorded /\ intent'[i].op = req[p].op
    <3>1. Settling(p, req[p].op)
      BY <1>5, <2>2 DEF OpsInv, OpsPrivate
    <3> QED BY <2>2, <3>1 DEF OpsInv, OpsPrivate, Settling
  <2>3. CASE Minting(p) /\ intent'[i].op = minted'
    <3>1. Settling(p, minted')
      BY <1>5, <1>8, <2>3
    <3> QED BY <1>8, <2>3, <3>1 DEF Settling
  <2> QED BY <1>2, <2>1, <2>2, <2>3 DEF Recording
<1>13. OpsApart'
  <2>1. \A i, j \in Outstanding' : intent'[i].op = intent'[j].op => i = j
    <3> SUFFICES ASSUME NEW i \in Outstanding', NEW j \in Outstanding',
                        intent'[i].op = intent'[j].op
                 PROVE  i = j
      OBVIOUS
    <3>1. CASE Recording(p, i) /\ Recording(p, j)
      BY <3>1, <1>6, <1>8 DEF Recording
    <3>2. CASE Recording(p, i) /\ j \in Outstanding /\ intent'[j] = intent[j]
      BY <3>2, <1>8 DEF Recording, OpsInv, OpsPrivate
    <3>3. CASE Recording(p, j) /\ i \in Outstanding /\ intent'[i] = intent[i]
      BY <3>3, <1>8 DEF Recording, OpsInv, OpsPrivate
    <3>4. CASE /\ i \in Outstanding /\ intent'[i] = intent[i]
               /\ j \in Outstanding /\ intent'[j] = intent[j]
      BY <3>4 DEF OpsInv, OpsApart
    <3> QED BY <1>2, <3>1, <3>2, <3>3, <3>4
  <2>2. \A i \in Outstanding', q \in Procs :
          InFlight(q)' /\ intent'[i].op = req'[q].op => i = req'[q].id
    <3> SUFFICES ASSUME NEW i \in Outstanding', NEW q \in Procs, InFlight(q)',
                        intent'[i].op = req'[q].op
                 PROVE  i = req'[q].id
      OBVIOUS
    <3>1. CASE q = p /\ Minting(p)
      BY <1>2, <1>6, <1>8, <1>9, <3>1 DEF Recording, Minting
    <3>2. CASE ~(q = p /\ Minting(p))
      <4>1. InFlight(q) /\ req'[q].op = req[q].op /\ req'[q].id = req[q].id
        BY <1>3, <3>2
      <4> QED BY <1>2, <1>6, <1>8, <1>9, <4>1 DEF OpsInv, OpsApart, Recording
    <3> QED BY <3>1, <3>2
  <2>3. \A i \in Outstanding', q \in Procs : \A t \in req'[q].owed :
          intent'[i].op = t.op => i = t.id
    <3> SUFFICES ASSUME NEW i \in Outstanding', NEW q \in Procs, NEW t \in req'[q].owed,
                        intent'[i].op = t.op
                 PROVE  i = t.id
      OBVIOUS
    <3>1. t \in req[q].owed \/ (t.id \in Outstanding /\ intent[t.id].op = t.op)
      BY <1>4
    <3>2. CASE i \in Outstanding /\ intent'[i] = intent[i]
      BY <3>1, <3>2 DEF OpsInv, OpsApart
    <3>3. CASE Recording(p, i)
      BY <3>1, <3>3, <1>8 DEF Recording, OpsInv, OpsPrivate
    <3> QED BY <1>2, <3>2, <3>3
  <2>4. \A x, q \in Procs : InFlight(x)' /\ InFlight(q)' /\ req'[x].op = req'[q].op => x = q
    BY <1>3, <1>8, <1>9 DEF OpsInv, OpsApart, Minting
  <2>5. \A x, q \in Procs : \A t \in req'[q].owed :
          InFlight(x)' /\ req'[x].op = t.op => req'[x].id = t.id
    <3> SUFFICES ASSUME NEW x \in Procs, NEW q \in Procs, NEW t \in req'[q].owed,
                        InFlight(x)', req'[x].op = t.op
                 PROVE  req'[x].id = t.id
      OBVIOUS
    <3>1. t \in req[q].owed \/ (t.id \in Outstanding /\ intent[t.id].op = t.op)
      BY <1>4
    <3>2. CASE x = p /\ Minting(p)
      BY <3>1, <3>2, <1>8 DEF Minting
    <3>3. CASE InFlight(x) /\ req'[x].op = req[x].op /\ req'[x].id = req[x].id
      <4>1. CASE t \in req[q].owed
        <5>1. InFlight(x) /\ req[x].op = t.op
          BY <3>3
        <5>2. \A u \in req[q].owed : InFlight(x) /\ req[x].op = u.op => req[x].id = u.id
          BY DEF OpsInv, OpsApart
        <5> QED BY <3>3, <4>1, <5>1, <5>2
      <4>2. CASE t.id \in Outstanding /\ intent[t.id].op = t.op
        BY <3>3, <4>2 DEF OpsInv, OpsApart
      <4> QED BY <3>1, <4>1, <4>2
    <3> QED BY <1>3, <3>2, <3>3
  <2>6. \A x, q \in Procs : \A t \in req'[x].owed, u \in req'[q].owed :
          t.op = u.op => t.id = u.id
    BY <1>4 DEF OpsInv, OpsApart
  <2> QED BY <2>1, <2>2, <2>3, <2>4, <2>5, <2>6 DEF OpsApart
<1> QED BY <1>10, <1>11, <1>12, <1>13 DEF OpsInv

LEMMA OpsInit == Init => OpsInv
  BY DEF Init, OpsInv, OpsMinted, OpsApart, OpsPrivate, OwedIsUnjournaled, Outstanding,
         InFlight, OnMemory, Unrecorded, NoIntent, NoRequest

LEMMA OpsKept == SafeInv /\ SafeInv' /\ OpsInv /\ [Next]_vars => OpsInv'
<1> SUFFICES ASSUME SafeInv, SafeInv', OpsInv, [Next]_vars PROVE OpsInv'
  OBVIOUS
<1>1. CASE \E p \in Procs : Move(p)
  BY <1>1, OpsStep
<1>2. CASE DaysPass \/ UNCHANGED vars
  BY <1>2 DEF DaysPass, vars, db, disk, OpsInv, OpsMinted, OpsApart, OpsPrivate,
              OwedIsUnjournaled, Outstanding, InFlight
<1> QED BY <1>1, <1>2 DEF Next, Move

LEMMA OpsAlways == Spec => []OpsInv
  BY OpsInit, OpsKept, LockDiscipline, PTL DEF Spec

\* No operation is owed that the journal already holds: whatever journals an
\* operation settles the intent that names it, for any number of processes,
\* commands, crashes and failures.
THEOREM OwedIsUnjournaledAlways == Spec => []OwedIsUnjournaled
<1>1. OpsInv => OwedIsUnjournaled
  BY DEF OpsInv
<1> QED BY <1>1, OpsAlways, PTL

--------------------------------------------------------------------------------
\* File, row and newest journalled operation of memory i tell one story.
OneStory(i) ==
    IF live[i] # None
    THEN /\ row[i] = LiveRow(live[i])
         /\ rev[i].op \in {"upsert", "restore"} /\ rev[i].attr = live[i]
    ELSE row[i].state # "live" /\ rev[i].op \in {"none", "tombstone"}

LEMMA StoryInit == Init => \A i \in Ids : OneStory(i) /\ intent[i].kind = "none"
<1> SUFFICES ASSUME Init, NEW i \in Ids PROVE OneStory(i) /\ intent[i].kind = "none"
  OBVIOUS
<1>1. intent[i].kind = "none"
  BY DEF Init, NoIntent
<1>2. OneStory(i)
  BY ConstantsAssumption DEF Init, OneStory, LiveRow, NoRow, NoRevision
<1> QED
  BY <1>1, <1>2

LEMMA StoryStays ==
    ASSUME NEW i \in Ids, live'[i] = live[i], row'[i] = row[i], rev'[i] = rev[i]
    PROVE  OneStory(i)' <=> OneStory(i)
  BY DEF OneStory

--------------------------------------------------------------------------------
\* Agreement where memories are only saved and collected, by any number of
\* processes at once, killed and failing at any step.

Saving == {"save_locked", "save_placed", "save_purged"}

\* A save's file is ahead of its row only under an intent, and an intent goes
\* only under the lock, under which none is recorded.
SavesInv ==
    /\ \A i \in Ids : /\ intent[i].kind \in {"none", "write"}
                      /\ intent[i].kind = "none" \/ live[i] = None => OneStory(i)
    /\ \A p \in Procs :
          /\ pc[p] \in {"down", "ready", "recover_wait", "recover", "gc_reaped", "gc_expired"} \cup Saving
          /\ pc[p] \in Saving => req[p].id \in Outstanding
          /\ pc[p] = "recover" =>
                \A t \in req[p].owed : intent[t.id].kind = t.kind /\ intent[t.id].op = t.op /\ t.kind # "none"

\* What changes an intent is done under the lock.
LEMMA SavesStep ==
    ASSUME SafeInv, OpsInv, SavesInv, Kinds \subseteq {"save", "gc"}, NEW p \in Procs, Move(p)
    PROVE  \/ Probe(p) \/ RecoverLock(p) \/ RecoverDone(p) \/ \E t \in req[p].owed : RecoverOne(p, t)
           \/ Exit(p) \/ (\E i \in Ids, a \in Attrs : SaveBegin(p, i, a))
           \/ SavePlace(p) \/ SavePurge(p) \/ SaveCommit(p) \/ GcSweep(p)
           \/ (\E i \in Ids : GcPurge(p, i)) \/ GcExpired(p) \/ GcDone(p) \/ Crash(p) \/ Fail(p)
<1>1. pc[p] \in {"down", "ready", "recover_wait", "recover", "gc_reaped", "gc_expired",
                 "save_locked", "save_placed", "save_purged"}
  BY DEF SavesInv, Saving
<1>2. CASE Command(p)
  BY <1>2 DEF Command, PatchBegin, DeleteBegin, PruneBegin, RefreshBegin, RestoreBegin, Start
<1>3. CASE Proceed(p)
  BY <1>1, <1>3 DEF Proceed, RecoverOne, DeleteLoad, DeleteIntent, DeleteMove, DeleteCommit, DeleteGone, Heal,
                    PatchIntent, Rewrite, PatchMirror, RefreshMirror, RestoreIntent, RestoreMove,
                    RestoreGone, RestoreMirror, JournalEdit, Busy, WaitingSteps
<1> QED
  BY <1>2, <1>3 DEF Move

LEMMA SavesMove ==
    ASSUME SafeInv, OpsInv, SavesInv, Kinds \subseteq {"save", "gc"}, NEW p \in Procs, Move(p)
    PROVE  SavesInv'
<1> DEFINE Steady(i) == /\ intent[i].kind \in {"none", "write"}
                        /\ intent[i].kind = "none" \/ live[i] = None => OneStory(i)
           Works(q) ==
              /\ pc[q] \in {"down", "ready", "recover_wait", "recover", "gc_reaped", "gc_expired"} \cup Saving
              /\ pc[q] \in Saving => req[q].id \in Outstanding
              /\ pc[q] = "recover" =>
                    \A t \in req[q].owed : intent[t.id].kind = t.kind /\ intent[t.id].op = t.op /\ t.kind # "none"
<1>1. /\ TypeOK /\ LockInv /\ p # None
      /\ \A i \in Ids : Steady(i)
      /\ \A q \in Procs : Works(q)
  BY ConstantsAssumption DEF SafeInv, TypeInv, SavesInv
<1>2. \A q \in Procs \ {p} : pc'[q] = pc[q] /\ req'[q] = req[q]
  BY <1>1, OthersStay DEF SafeInv
<1>3. ASSUME lock \in {None, p} PROVE \A q \in Procs \ {p} : pc[q] \notin Saving \cup {"recover"}
  BY <1>1, <1>3, ConstantsAssumption DEF LockInv, HoldsLock, LockedSteps, Saving
<1>4. ASSUME \A i \in Ids : Steady(i)', Works(p)',
             \/ UNCHANGED intent
             \/ lock \in {None, p}
      PROVE  SavesInv'
  <2>1. \A q \in Procs \ {p} : Works(q)'
    BY <1>1, <1>2, <1>3, <1>4 DEF Outstanding, Saving
  <2> QED
    BY <1>4, <2>1 DEF SavesInv
<1>5. ASSUME UNCHANGED <<live, row, rev, intent>> PROVE \A i \in Ids : Steady(i)'
  BY <1>1, <1>5, StoryStays
<1>6. NoRequest.owed = {}
  BY DEF NoRequest
<1>7. CASE Probe(p) \/ RecoverDone(p) \/ Exit(p) \/ GcSweep(p) \/ GcExpired(p) \/ GcDone(p) \/ Crash(p)
           \/ Fail(p)
  <2>1. UNCHANGED <<live, row, rev, intent>>
    BY <1>7 DEF Probe, RecoverDone, Exit, GcSweep, GcExpired, GcDone, Crash, Fail, Abandon, disk, db
  <2>2. pc'[p] \in {"down", "ready", "recover_wait", "gc_reaped", "gc_expired"}
    BY <1>1, <1>7 DEF Probe, RecoverDone, Exit, GcSweep, GcExpired, GcDone, Crash, Fail, Finish, Goto, TypeOK
  <2>3. Works(p)'
    BY <2>2 DEF Saving
  <2> QED
    BY <1>4, <1>5, <2>1, <2>3
<1>8. CASE RecoverLock(p)
  <2>1. UNCHANGED <<live, row, rev, intent>>
    BY <1>8 DEF RecoverLock, disk, db
  <2>2. req'[p] = [req[p] EXCEPT !.owed =
              {[id |-> i, kind |-> intent[i].kind, op |-> intent[i].op] : i \in Outstanding}]
    BY <1>1, <1>8 DEF RecoverLock, TypeOK
  <2>3. req'[p].owed =
              {[id |-> i, kind |-> intent[i].kind, op |-> intent[i].op] : i \in Outstanding}
    BY <1>1, <2>2 DEF TypeOK, Requests
  <2>4. pc'[p] = "recover"
    BY <1>1, <1>8 DEF RecoverLock, Goto, TypeOK
  <2>5. Works(p)'
    BY <2>1, <2>3, <2>4 DEF Outstanding, Saving
  <2> QED
    BY <1>4, <1>5, <2>1, <2>5
<1>9. ASSUME NEW t \in req[p].owed, RecoverOne(p, t) PROVE SavesInv'
  <2>1. t \in Owed /\ t.id \in Ids /\ pc[p] = "recover" /\ lock = p
    BY <1>1, <1>9 DEF RecoverOne, TypeOK, Requests, Owed, LockInv, HoldsLock, LockedSteps
  <2>2. /\ intent[t.id].kind = t.kind /\ intent[t.id].op = t.op /\ t.kind = "write"
        /\ t.id \in Outstanding /\ t.op \notin journaled
    BY <1>1, <2>1 DEF OpsInv, OwedIsUnjournaled, Outstanding
  <2>3. \A i \in Ids : i # t.id => intent'[i] = intent[i] /\ row'[i] = row[i] /\ rev'[i] = rev[i]
    BY <1>1, <1>9 DEF RecoverOne, Clear, Mirror, MarkDeleted, Journal, TypeOK
  <2>4. live' = live /\ intent'[t.id] = NoIntent
    BY <1>1, <1>9, <2>1 DEF RecoverOne, Clear, TypeOK, disk
  <2>5. OneStory(t.id)'
    <3>1. CASE live[t.id] = None
      <4>1. row' = row /\ rev' = rev
        BY <1>9, <2>2, <3>1 DEF RecoverOne, MoveLanded
      <4> QED
        BY <1>1, <2>1, <2>4, <3>1, <4>1, StoryStays
    <3>2. CASE live[t.id] # None
      <4>1. /\ row'[t.id] = LiveRow(live[t.id])
            /\ rev'[t.id] = [op |-> FinishedOp(t), attr |-> live[t.id], oid |-> t.op]
        BY <1>1, <1>9, <2>1, <2>2, <3>2 DEF RecoverOne, MoveLanded, Mirror, Journal, TypeOK
      <4>2. FinishedOp(t) \in {"restore", "upsert"}
        BY <2>2 DEF FinishedOp
      <4> QED
        BY <2>4, <3>2, <4>1, <4>2 DEF OneStory
    <3> QED
      BY <3>1, <3>2
  <2>6. \A i \in Ids : Steady(i)'
    BY <1>1, <2>3, <2>4, <2>5, StoryStays DEF NoIntent
  <2>7. pc'[p] = "recover" /\ req'[p].owed = req[p].owed \ {t}
    BY <1>1, <1>9, <2>1 DEF RecoverOne, TypeOK, Requests
  <2>8. \A u \in req'[p].owed : u.id # t.id
    <3> SUFFICES ASSUME NEW u \in req[p].owed, u.id = t.id PROVE u = t
      BY <2>7
    <3>1. u \in Owed /\ u.kind = t.kind /\ u.op = t.op
      BY <1>1, <2>1 DEF TypeOK, Requests
    <3> QED
      BY <2>1, <3>1 DEF Owed
  <2>9. Works(p)'
    <3>1. \A u \in req'[p].owed : u \in req[p].owed /\ u.id \in Ids
      BY <1>1, <2>7 DEF TypeOK, Requests, Owed
    <3> QED
      BY <1>1, <2>1, <2>3, <2>7, <2>8, <3>1 DEF Saving
  <2> QED
    BY <1>4, <2>1, <2>6, <2>9
<1>10. ASSUME NEW i \in Ids, NEW a \in Attrs, SaveBegin(p, i, a) PROVE SavesInv'
  <2>1. /\ lock = None /\ UNCHANGED <<live, row, rev>>
        /\ intent' = [intent EXCEPT ![i] = [kind |-> "write", op |-> minted + 1]]
    BY <1>10 DEF SaveBegin, Acquire, Record, disk
  <2>2. pc'[p] = "save_locked" /\ req'[p].id = i
    BY <1>1, <1>10 DEF SaveBegin, Start, Goto, NoRequest, TypeOK
  <2>3. /\ intent'[i] = [kind |-> "write", op |-> minted + 1]
        /\ \A j \in Ids : j # i => intent'[j] = intent[j]
    BY <1>1, <2>1 DEF TypeOK
  <2>4. \A j \in Ids : Steady(j)'
    BY <1>1, <2>1, <2>3, StoryStays
  <2>5. Works(p)'
    BY <2>2, <2>3 DEF Outstanding, Saving
  <2> QED
    BY <1>4, <2>1, <2>4, <2>5
<1>11. CASE SavePlace(p) \/ SavePurge(p)
  <2>1. /\ UNCHANGED <<row, rev, intent, req>> /\ pc[p] \in Saving
        /\ req[p].id \in Ids /\ req[p].id \in Outstanding
    BY <1>1, <1>11 DEF SavePlace, SavePurge, db, Saving, Outstanding
  <2>2. pc'[p] \in Saving
    BY <1>1, <1>11 DEF SavePlace, SavePurge, Goto, TypeOK, Saving
  <2>3. /\ \A i \in Ids : i # req[p].id => live'[i] = live[i]
        /\ live' = live \/ live'[req[p].id] = req[p].attr
    BY <1>1, <1>11, <2>1 DEF SavePlace, SavePurge, TypeOK
  <2>4. pc[p] = "save_locked" => req[p].attr # None
    BY <1>1, ConstantsAssumption DEF LockInv, FileStays, Carrying
  <2>5. live' = live \/ live'[req[p].id] # None
    BY <1>11, <2>3, <2>4 DEF SavePlace, SavePurge
  <2>6. \A i \in Ids : Steady(i)'
    BY <1>1, <2>1, <2>3, <2>5, StoryStays DEF Outstanding
  <2>7. Works(p)'
    BY <2>1, <2>2 DEF Saving, Outstanding
  <2> QED
    BY <1>4, <2>1, <2>6, <2>7
<1>12. CASE SaveCommit(p)
  <2>1. PICK i \in Ids : i = req[p].id
    BY <1>12 DEF SaveCommit, SafeInv, TypeInv, NamesMemory, OnMemory, Steps, LockedSteps
  <2>2. /\ pc[p] = "save_purged" /\ lock = p
        /\ live[i] = req[p].attr /\ req[p].attr # None
    BY <1>1, <1>12, <2>1, ConstantsAssumption
       DEF SaveCommit, LockInv, HoldsLock, LockedSteps, FileStays, Placed, Carrying
  <2>3. /\ live' = live /\ intent'[i] = NoIntent
        /\ row'[i] = LiveRow(live[i])
        /\ rev'[i] = [op |-> "upsert", attr |-> live[i], oid |-> req[p].op]
        /\ \A j \in Ids : j # i => intent'[j] = intent[j] /\ row'[j] = row[j] /\ rev'[j] = rev[j]
    BY <1>1, <1>12, <2>1, <2>2 DEF SaveCommit, Mirror, Journal, Clear, TypeOK, disk
  <2>4. OneStory(i)'
    BY <2>2, <2>3 DEF OneStory
  <2>5. \A j \in Ids : Steady(j)'
    BY <1>1, <2>3, <2>4, StoryStays DEF NoIntent
  <2>6. pc'[p] = "ready"
    BY <1>1, <1>12 DEF SaveCommit, Finish, Goto, TypeOK
  <2> QED
    BY <1>4, <2>2, <2>5, <2>6 DEF Saving
<1>13. ASSUME NEW i \in Ids, GcPurge(p, i) PROVE SavesInv'
  <2>1. /\ UNCHANGED <<live, rev, intent, pc>> /\ pc[p] \in {"gc_reaped", "gc_expired"}
        /\ \A j \in Ids : row'[j] = row[j] \/ (row[j].state = "deleted" /\ row'[j] = NoRow)
    BY <1>1, <1>13 DEF GcPurge, disk, TypeOK
  <2>2. \A j \in Ids : OneStory(j) => OneStory(j)'
    BY <2>1 DEF OneStory, NoRow, LiveRow
  <2> QED
    BY <1>1, <1>4, <2>1, <2>2 DEF Saving
<1> QED
  BY <1>7, <1>8, <1>9, <1>10, <1>11, <1>12, <1>13, SavesStep

\* Agreement (save_persist.rs, recover.rs): where memories are saved and
\* collected only, file, row and journal tell one story of every memory that no intent
\* names, for any number of processes, killed or failing at any step.
THEOREM SavesAgree ==
    ASSUME Kinds \subseteq {"save", "gc"}
    PROVE  Spec => []Agreement
<1>1. Init => SavesInv
  BY StoryInit DEF Init, SavesInv, Saving
<1>2. SafeInv /\ OpsInv /\ SavesInv /\ [Next]_vars => SavesInv'
  <2> SUFFICES ASSUME SafeInv, OpsInv, SavesInv, [Next]_vars PROVE SavesInv'
    OBVIOUS
  <2>1. CASE \E p \in Procs : Move(p)
    BY <2>1, SavesMove
  <2>2. CASE DaysPass \/ UNCHANGED vars
    <3>1. UNCHANGED <<live, row, rev, intent, pc, req>>
      BY <2>2 DEF DaysPass, vars, disk, db
    <3> QED
      BY <3>1 DEF SavesInv, OneStory, Outstanding
  <2> QED
    BY <2>1, <2>2 DEF Next, Move
<1>3. SavesInv => Agreement
  BY DEF SavesInv, Agreement, Settled, Outstanding, OneStory
<1> QED BY <1>1, <1>2, <1>3, LockDiscipline, OpsAlways, PTL DEF Spec

--------------------------------------------------------------------------------
\* Agreement where processes take turns and nothing but a kill goes wrong: every
\* command, any number of kills at any step.

TakesTurns == \A p, q \in Procs : pc[p] # "down" /\ pc[q] # "down" => p = q
NothingFails == \A p \in Procs : ~Fail(p)

\* What a kill leaves is what its intent tells the next session: nothing without
\* one; a write that may have landed in the file only, or a delete that either has not
\* moved the file or has moved nothing else.
Explained(i) ==
    /\ intent[i].kind = "none" => OneStory(i)
    /\ intent[i].kind = "write" /\ live[i] = None => OneStory(i)
    /\ intent[i].kind = "delete" => IF live[i] # None THEN OneStory(i) ELSE row[i].state = "live"

Opening == {"down", "recover_wait", "recover"}
Writing == {"save_locked", "save_placed", "save_purged", "patch_wait", "patch_placed",
            "patch_mirrored", "restore_wait", "restore_moved", "restore_mirrored"}
Deleting == {"delete_wait", "delete_moved"}

\* The process whose turn it is: no intent but its own once its session is open,
\* all of them in hand while it reconciles, and nothing it looked at has changed.
Stands(p) ==
    LET i == req[p].id IN
    /\ pc[p] \notin Opening \cup Writing \cup Deleting => Outstanding = {}
    /\ pc[p] \in Writing =>
          Outstanding = {i} /\ intent[i] = [kind |-> "write", op |-> req[p].op]
    /\ pc[p] \in Deleting =>
          Outstanding = {i} /\ intent[i] = [kind |-> "delete", op |-> req[p].op]
    /\ pc[p] = "recover" =>
          req[p].owed = {[id |-> j, kind |-> intent[j].kind, op |-> intent[j].op] : j \in Outstanding}
    /\ \/ pc[p] = "delete_load" /\ req[p].kind = "prune"
       \/ pc[p] \in {"delete_loaded", "delete_wait"}
       => live[i] # None
    /\ pc[p] \in {"restore_loaded", "restore_wait"} => Restorable(i)
    /\ pc[p] \in {"refresh_wait", "refresh_placed"} => live[i] = req[p].attr /\ live[i] # None
    /\ pc[p] \in {"patch_mirrored", "restore_mirrored"} => row[i] = LiveRow(req[p].attr)
    /\ pc[p] # "heal"
    /\ lock = p => pc[p] \in LockedSteps

TurnInv == (\A i \in Ids : Explained(i)) /\ \A p \in Procs : Stands(p)

LEMMA ExplainedStays ==
    ASSUME NEW i \in Ids, live'[i] = live[i], row'[i] = row[i], rev'[i] = rev[i], intent'[i] = intent[i]
    PROVE  Explained(i)' <=> Explained(i)
  BY StoryStays DEF Explained

LEMMA TurnFacts ==
    ASSUME SafeInv, TurnInv, NEW p \in Procs
    PROVE  /\ TypeOK /\ LockInv /\ HoldsLock(p) /\ FileStays(p) /\ p # None
           /\ \A i \in Ids : Explained(i) /\ (i \notin Outstanding => OneStory(i))
           /\ Stands(p) /\ (pc[p] \in OnMemory => req[p].id \in Ids)
  BY ConstantsAssumption DEF SafeInv, TypeInv, LockInv, NamesMemory, TurnInv, Explained, Outstanding

LEMMA Started ==
    ASSUME TypeOK, NEW p \in Procs, NEW k, NEW i, NEW a, NEW step, Start(p, k, i, a, step)
    PROVE  /\ pc[p] = "ready" /\ pc'[p] = step
           /\ req'[p].kind = k /\ req'[p].id = i /\ req'[p].attr = a /\ req'[p].op = minted + 1
  BY DEF Start, Goto, NoRequest, TypeOK

\* An intent recorded, the only one.
LEMMA Recorded ==
    ASSUME TypeOK, Outstanding = {}, NEW i \in Ids, NEW kind \in {"write", "delete"}, NEW o,
           Record(i, kind, o)
    PROVE  /\ Outstanding' = {i} /\ intent'[i] = [kind |-> kind, op |-> o]
           /\ \A j \in Ids : j # i => intent'[j] = intent[j]
  BY DEF Record, Outstanding, TypeOK

\* The only intent settled.
LEMMA IntentSettled ==
    ASSUME TypeOK, NEW i \in Ids, Outstanding = {i}, Clear(i)
    PROVE  /\ Outstanding' = {} /\ intent'[i] = NoIntent
           /\ \A j \in Ids : j # i => intent'[j] = intent[j]
  BY DEF Clear, Outstanding, NoIntent, TypeOK

LEMMA TurnRecovers ==
    ASSUME SafeInv, OpsInv, TurnInv, NEW p \in Procs,
           Probe(p) \/ RecoverLock(p) \/ (\E t \in Owed : RecoverOne(p, t)) \/ RecoverDone(p) \/ Exit(p)
              \/ Crash(p)
    PROVE  (\A i \in Ids : Explained(i)') /\ Stands(p)'
<1>1. /\ TypeOK /\ LockInv /\ HoldsLock(p) /\ p # None
      /\ \A i \in Ids : Explained(i) /\ (i \notin Outstanding => OneStory(i))
      /\ Stands(p)
  BY TurnFacts
<1>2. ASSUME UNCHANGED <<live, row, rev, intent>> PROVE \A i \in Ids : Explained(i)'
  BY <1>1, <1>2, ExplainedStays
<1>3. CASE Probe(p) \/ Exit(p) \/ Crash(p)
  <2>1. UNCHANGED <<live, row, rev, intent>> /\ Outstanding' = Outstanding
    BY <1>3 DEF Probe, Exit, Crash, Abandon, disk, db, Outstanding
  <2>2. /\ pc'[p] \in {"down", "ready", "recover_wait"}
        /\ pc'[p] = "ready" => Outstanding = {}
    BY <1>1, <1>3 DEF Probe, Exit, Crash, Goto, TypeOK
  <2>3. lock' # p
    BY <1>1, <1>3 DEF Probe, Exit, Crash, Abandon, Stands, LockedSteps
  <2> QED
    BY <1>2, <2>1, <2>2, <2>3 DEF Stands, Opening, Writing, Deleting
<1>4. CASE RecoverLock(p)
  <2>1. UNCHANGED <<live, row, rev, intent>>
    BY <1>4 DEF RecoverLock, disk, db
  <2>2. req'[p] = [req[p] EXCEPT !.owed =
              {[id |-> i, kind |-> intent[i].kind, op |-> intent[i].op] : i \in Outstanding}]
    BY <1>1, <1>4 DEF RecoverLock, TypeOK
  <2>3. req'[p].owed =
              {[id |-> i, kind |-> intent[i].kind, op |-> intent[i].op] : i \in Outstanding}
    BY <1>1, <2>2 DEF TypeOK, Requests
  <2>4. pc'[p] = "recover"
    BY <1>1, <1>4 DEF RecoverLock, Goto, TypeOK
  <2>5. Stands(p)'
    BY <2>1, <2>3, <2>4 DEF Stands, Opening, Writing, Deleting, Outstanding, LockedSteps
  <2> QED
    BY <1>2, <2>1, <2>5
<1>5. CASE RecoverDone(p)
  <2>1. UNCHANGED <<live, row, rev, intent>> /\ lock' = None
    BY <1>5 DEF RecoverDone, disk, db, Release
  <2>2. pc'[p] = "ready" /\ pc[p] = "recover" /\ req[p].owed = {}
    BY <1>1, <1>5 DEF RecoverDone, Finish, Goto, TypeOK
  <2>3. Outstanding = {}
    BY <1>1, <2>2 DEF Stands
  <2>4. Outstanding' = {}
    BY <2>1, <2>3 DEF Outstanding
  <2>5. Stands(p)'
    BY <1>1, <2>1, <2>2, <2>4 DEF Stands, Opening, Writing, Deleting
  <2> QED
    BY <1>2, <2>1, <2>5
<1>6. ASSUME NEW t \in Owed, RecoverOne(p, t)
      PROVE  (\A i \in Ids : Explained(i)') /\ Stands(p)'
  <2>1. /\ pc[p] = "recover" /\ t \in req[p].owed
        /\ req[p].owed = {[id |-> i, kind |-> intent[i].kind, op |-> intent[i].op] : i \in Outstanding}
    BY <1>1, <1>6 DEF RecoverOne, Stands
  <2>2. PICK i \in Outstanding : t = [id |-> i, kind |-> intent[i].kind, op |-> intent[i].op]
    BY <2>1
  <2>3. /\ i \in Ids /\ t.id = i /\ intent[i].kind = t.kind /\ t.kind \in {"write", "delete"}
        /\ t.op \notin journaled
    BY <1>1, <2>2 DEF Outstanding, OpsInv, OwedIsUnjournaled, TypeOK, Intents
  <2>4. /\ live' = live /\ intent'[i] = NoIntent /\ Clear(i)
        /\ \A j \in Ids : j # i => intent'[j] = intent[j] /\ row'[j] = row[j] /\ rev'[j] = rev[j]
    BY <1>1, <1>6, <2>3 DEF RecoverOne, Clear, Mirror, MarkDeleted, Journal, TypeOK, disk
  <2>5. OneStory(i)'
    <3>1. CASE ~MoveLanded(t)
      <4>1. row' = row /\ rev' = rev
        BY <1>6, <3>1 DEF RecoverOne
      <4>2. OneStory(i)
        BY <1>1, <2>3, <3>1 DEF MoveLanded, Explained
      <4> QED
        BY <2>3, <2>4, <4>1, <4>2, StoryStays
    <3>2. CASE MoveLanded(t) /\ t.kind = "write"
      <4>1. /\ row'[i] = LiveRow(live[i]) /\ live[i] # None
            /\ rev'[i] = [op |-> FinishedOp(t), attr |-> live[i], oid |-> t.op]
        BY <1>1, <1>6, <2>3, <3>2 DEF RecoverOne, MoveLanded, Mirror, Journal, TypeOK
      <4>2. FinishedOp(t) \in {"restore", "upsert"}
        BY <3>2 DEF FinishedOp
      <4> QED
        BY <2>4, <4>1, <4>2 DEF OneStory
    <3>3. CASE MoveLanded(t) /\ t.kind = "delete"
      <4>1. live[i] = None /\ row[i].state = "live" /\ FinishedOp(t) = "tombstone"
        BY <2>3, <3>3 DEF MoveLanded, FinishedOp
      <4>2. /\ row'[i].state = "deleted"
            /\ rev'[i] = [op |-> FinishedOp(t), attr |-> live[i], oid |-> t.op]
        BY <1>1, <1>6, <2>3, <3>3, <4>1 DEF RecoverOne, MarkDeleted, Journal, TypeOK, Rows
      <4> QED
        BY <2>4, <4>1, <4>2 DEF OneStory
    <3> QED
      BY <2>3, <3>1, <3>2, <3>3
  <2>6. \A j \in Ids : Explained(j)'
    BY <1>1, <2>4, <2>5, ExplainedStays DEF Explained, NoIntent
  <2>7. Outstanding' = Outstanding \ {i}
    BY <2>2, <2>4 DEF Outstanding, NoIntent
  <2>8. pc'[p] = "recover" /\ req'[p].owed = req[p].owed \ {t}
    BY <1>1, <1>6, <2>1 DEF RecoverOne, TypeOK, Requests
  <2>9. req'[p].owed = {[id |-> j, kind |-> intent'[j].kind, op |-> intent'[j].op] : j \in Outstanding'}
    <3>1. Outstanding \subseteq Ids
      BY DEF Outstanding
    <3>2. \A j \in Outstanding' : j # i /\ j \in Outstanding /\ intent'[j] = intent[j]
      BY <2>4, <2>7, <3>1
    <3> QED
      BY <2>1, <2>2, <2>7, <2>8, <3>2
  <2>10. Stands(p)'
    BY <2>8, <2>9 DEF Stands, Opening, Writing, Deleting, LockedSteps
  <2> QED
    BY <2>6, <2>10
<1> QED
  BY <1>3, <1>4, <1>5, <1>6

LEMMA TurnSaves ==
    ASSUME SafeInv, OpsInv, TurnInv, NEW p \in Procs,
           (\E i \in Ids, a \in Attrs : SaveBegin(p, i, a)) \/ SavePlace(p) \/ SavePurge(p) \/ SaveCommit(p)
    PROVE  (\A i \in Ids : Explained(i)') /\ Stands(p)'
<1>1. /\ TypeOK /\ LockInv /\ HoldsLock(p) /\ FileStays(p) /\ p # None
      /\ \A i \in Ids : Explained(i) /\ (i \notin Outstanding => OneStory(i))
      /\ Stands(p) /\ (pc[p] \in OnMemory => req[p].id \in Ids)
  BY TurnFacts
<1>2. ASSUME NEW i \in Ids, NEW a \in Attrs, SaveBegin(p, i, a)
      PROVE  (\A j \in Ids : Explained(j)') /\ Stands(p)'
  <2>1. /\ pc[p] = "ready" /\ pc'[p] = "save_locked" /\ req'[p].id = i /\ req'[p].op = minted + 1
        /\ Record(i, "write", minted + 1) /\ UNCHANGED <<live, row, rev>>
    BY <1>1, <1>2, Started DEF SaveBegin, disk
  <2>2. Outstanding = {}
    BY <1>1, <2>1 DEF Stands, Opening, Writing, Deleting
  <2>3. /\ Outstanding' = {i} /\ intent'[i] = [kind |-> "write", op |-> minted + 1]
        /\ \A j \in Ids : j # i => intent'[j] = intent[j]
    BY <1>1, <2>1, <2>2, Recorded
  <2>4. \A j \in Ids : Explained(j)'
    BY <1>1, <2>1, <2>2, <2>3, StoryStays, ExplainedStays DEF Explained
  <2>5. Stands(p)'
    BY <2>1, <2>3 DEF Stands, Opening, Writing, Deleting, LockedSteps
  <2> QED
    BY <2>4, <2>5
<1>3. CASE SavePlace(p) \/ SavePurge(p)
  <2>1. PICK i \in Ids : i = req[p].id
    BY <1>1, <1>3 DEF SavePlace, SavePurge, OnMemory, Steps, LockedSteps
  <2>2. /\ UNCHANGED <<row, rev, intent, req>> /\ Outstanding' = Outstanding
        /\ pc[p] \in {"save_locked", "save_placed"} /\ pc'[p] \in {"save_placed", "save_purged"}
        /\ \A j \in Ids : j # i => live'[j] = live[j]
        /\ live'[i] # None \/ live'[i] = live[i]
    BY <1>1, <1>3, <2>1, ConstantsAssumption
       DEF SavePlace, SavePurge, db, Goto, TypeOK, FileStays, Carrying, Placed, Outstanding
  <2>3. Outstanding = {i} /\ intent[i] = [kind |-> "write", op |-> req[p].op]
    BY <1>1, <2>1, <2>2 DEF Stands, Writing
  <2>4. \A j \in Ids : Explained(j)'
    BY <1>1, <2>2, <2>3, ExplainedStays, StoryStays DEF Explained
  <2>5. Stands(p)'
    BY <2>1, <2>2, <2>3 DEF Stands, Opening, Writing, Deleting, LockedSteps
  <2> QED
    BY <2>4, <2>5
<1>4. CASE SaveCommit(p)
  <2>1. PICK i \in Ids : i = req[p].id
    BY <1>1, <1>4 DEF SaveCommit, OnMemory, Steps, LockedSteps
  <2>2. pc[p] = "save_purged" /\ live[i] = req[p].attr /\ req[p].attr # None
    BY <1>1, <1>4, <2>1, ConstantsAssumption DEF SaveCommit, FileStays, Placed, Carrying
  <2>3. Outstanding = {i}
    BY <1>1, <2>1, <2>2 DEF Stands, Writing
  <2>4. /\ live' = live /\ Clear(i) /\ lock' = None /\ pc'[p] = "ready"
        /\ row'[i] = LiveRow(live[i])
        /\ rev'[i] = [op |-> "upsert", attr |-> live[i], oid |-> req[p].op]
        /\ \A j \in Ids : j # i => row'[j] = row[j] /\ rev'[j] = rev[j]
    BY <1>1, <1>4, <2>1, <2>2 DEF SaveCommit, Mirror, Journal, TypeOK, disk, Release, Finish, Goto
  <2>5. /\ Outstanding' = {} /\ intent'[i] = NoIntent
        /\ \A j \in Ids : j # i => intent'[j] = intent[j]
    BY <1>1, <2>3, <2>4, IntentSettled
  <2>6. OneStory(i)'
    BY <2>2, <2>4 DEF OneStory
  <2>7. \A j \in Ids : Explained(j)'
    BY <1>1, <2>4, <2>5, <2>6, ExplainedStays DEF Explained, NoIntent
  <2>8. Stands(p)'
    BY <1>1, <2>4, <2>5 DEF Stands, Opening, Writing, Deleting
  <2> QED
    BY <2>7, <2>8
<1> QED
  BY <1>2, <1>3, <1>4

LEMMA TurnDeletes ==
    ASSUME SafeInv, OpsInv, TurnInv, NEW p \in Procs,
           \/ \E i \in Ids : DeleteBegin(p, i) \/ PruneBegin(p, i)
           \/ DeleteLoad(p) \/ DeleteIntent(p) \/ DeleteMove(p) \/ DeleteCommit(p) \/ DeleteGone(p)
           \/ Heal(p)
    PROVE  (\A i \in Ids : Explained(i)') /\ Stands(p)'
<1>1. /\ TypeOK /\ LockInv /\ HoldsLock(p) /\ FileStays(p) /\ p # None
      /\ \A i \in Ids : Explained(i) /\ (i \notin Outstanding => OneStory(i))
      /\ Stands(p) /\ (pc[p] \in OnMemory => req[p].id \in Ids)
  BY TurnFacts
<1>2. ASSUME UNCHANGED <<live, row, rev, intent>>
      PROVE  (\A i \in Ids : Explained(i)') /\ Outstanding' = Outstanding
  BY <1>1, <1>2, ExplainedStays DEF Outstanding
<1>3. ASSUME NEW i \in Ids, DeleteBegin(p, i) \/ PruneBegin(p, i)
      PROVE  (\A j \in Ids : Explained(j)') /\ Stands(p)'
  <2>1. /\ pc[p] = "ready" /\ pc'[p] = "delete_load" /\ req'[p].id = i
        /\ req'[p].kind = "prune" => row[i].state = "live"
        /\ UNCHANGED <<live, row, rev, intent, lock>>
    BY <1>1, <1>3, Started DEF DeleteBegin, PruneBegin, disk, db
  <2>2. Outstanding = {}
    BY <1>1, <2>1 DEF Stands, Opening, Writing, Deleting
  <2>3. req'[p].kind = "prune" => live'[i] # None
    BY <1>1, <2>1, <2>2 DEF OneStory
  <2>4. Stands(p)'
    BY <1>1, <1>2, <2>1, <2>2, <2>3 DEF Stands, Opening, Writing, Deleting, LockedSteps
  <2> QED
    BY <1>2, <2>1, <2>4
<1>4. CASE DeleteLoad(p)
  <2>1. /\ UNCHANGED <<live, row, rev, intent, lock>> /\ pc[p] = "delete_load"
        /\ req[p].kind = "prune" => live[req[p].id] # None
    BY <1>1, <1>4 DEF DeleteLoad, disk, db, Stands
  <2>2. \/ pc'[p] = "delete_loaded" /\ req' = req /\ live'[req'[p].id] # None
        \/ pc'[p] = "ready"
    BY <1>1, <1>4, <2>1 DEF DeleteLoad, Finish, Goto, TypeOK
  <2>3. Outstanding = {}
    BY <1>1, <2>1 DEF Stands, Opening, Writing, Deleting
  <2>4. Stands(p)'
    BY <1>1, <1>2, <2>1, <2>2, <2>3 DEF Stands, Opening, Writing, Deleting, LockedSteps
  <2> QED
    BY <1>2, <2>1, <2>4
<1>5. CASE DeleteIntent(p)
  <2>1. PICK i \in Ids : i = req[p].id
    BY <1>1, <1>5 DEF DeleteIntent, OnMemory, Steps, OtherSteps
  <2>2. /\ pc[p] = "delete_loaded" /\ pc'[p] = "delete_wait" /\ live[i] # None
        /\ Record(i, "delete", req[p].op) /\ UNCHANGED <<live, row, rev, req, lock>>
    BY <1>1, <1>5, <2>1 DEF DeleteIntent, disk, Goto, TypeOK, Stands
  <2>3. Outstanding = {}
    BY <1>1, <2>2 DEF Stands, Opening, Writing, Deleting
  <2>4. /\ Outstanding' = {i} /\ intent'[i] = [kind |-> "delete", op |-> req[p].op]
        /\ \A j \in Ids : j # i => intent'[j] = intent[j]
    BY <1>1, <2>2, <2>3, Recorded
  <2>5. \A j \in Ids : Explained(j)'
    BY <1>1, <2>2, <2>3, <2>4, StoryStays, ExplainedStays DEF Explained
  <2>6. Stands(p)'
    BY <1>1, <2>1, <2>2, <2>4 DEF Stands, Opening, Writing, Deleting, LockedSteps
  <2> QED
    BY <2>5, <2>6
<1>6. CASE DeleteMove(p)
  <2>1. PICK i \in Ids : i = req[p].id
    BY <1>1, <1>6 DEF DeleteMove, OnMemory, Steps, WaitingSteps
  <2>2. /\ pc[p] = "delete_wait" /\ pc'[p] = "delete_moved" /\ live[i] # None /\ live'[i] = None
        /\ UNCHANGED <<row, rev, intent, req>> /\ Outstanding' = Outstanding
        /\ \A j \in Ids : j # i => live'[j] = live[j]
    BY <1>1, <1>6, <2>1 DEF DeleteMove, db, Goto, TypeOK, Outstanding
  <2>3. Outstanding = {i} /\ intent[i] = [kind |-> "delete", op |-> req[p].op]
    BY <1>1, <2>1, <2>2 DEF Stands, Deleting
  <2>4. row[i].state = "live"
    <3>1. OneStory(i)
      BY <1>1, <2>2, <2>3 DEF Explained
    <3>2. row[i] = LiveRow(live[i])
      BY <2>2, <3>1 DEF OneStory
    <3> QED
      BY <3>2 DEF LiveRow
  <2>5. \A j \in Ids : Explained(j)'
    <3>1. Explained(i)'
      BY <2>2, <2>3, <2>4 DEF Explained
    <3> QED
      BY <1>1, <2>2, <3>1, ExplainedStays
  <2>6. Stands(p)'
    BY <2>1, <2>2, <2>3 DEF Stands, Opening, Writing, Deleting, LockedSteps
  <2> QED
    BY <2>5, <2>6
<1>7. CASE DeleteCommit(p)
  <2>1. PICK i \in Ids : i = req[p].id
    BY <1>1, <1>7 DEF DeleteCommit, OnMemory, Steps, LockedSteps
  <2>2. pc[p] = "delete_moved" /\ live[i] = None
    BY <1>1, <1>7, <2>1 DEF DeleteCommit, FileStays
  <2>3. Outstanding = {i} /\ intent[i] = [kind |-> "delete", op |-> req[p].op]
    BY <1>1, <2>1, <2>2 DEF Stands, Deleting
  <2>4. req[p].op \notin journaled /\ row[i].state = "live"
    BY <1>1, <2>2, <2>3 DEF Explained, OpsInv, OwedIsUnjournaled
  <2>5. /\ live' = live /\ Clear(i) /\ lock' = None /\ pc'[p] = "ready"
        /\ row'[i].state = "deleted" /\ rev'[i] = [op |-> "tombstone", attr |-> None, oid |-> req[p].op]
        /\ \A j \in Ids : j # i => row'[j] = row[j] /\ rev'[j] = rev[j]
    BY <1>1, <1>7, <2>1, <2>4
       DEF DeleteCommit, MarkDeleted, Journal, TypeOK, Rows, disk, Release, Finish, Goto
  <2>6. /\ Outstanding' = {} /\ intent'[i] = NoIntent
        /\ \A j \in Ids : j # i => intent'[j] = intent[j]
    BY <1>1, <2>3, <2>5, IntentSettled
  <2>7. OneStory(i)'
    BY <2>2, <2>5 DEF OneStory
  <2>8. \A j \in Ids : Explained(j)'
    BY <1>1, <2>5, <2>6, <2>7, ExplainedStays DEF Explained, NoIntent
  <2>9. Stands(p)'
    BY <1>1, <2>5, <2>6 DEF Stands, Opening, Writing, Deleting
  <2> QED
    BY <2>8, <2>9
<1>8. CASE DeleteGone(p) \/ Heal(p)
  BY <1>1, <1>8 DEF DeleteGone, Heal, Stands
<1> QED
  BY <1>3, <1>4, <1>5, <1>6, <1>7, <1>8

LEMMA TurnEdits ==
    ASSUME SafeInv, OpsInv, TurnInv, NEW p \in Procs,
           \/ \E i \in Ids : RefreshBegin(p, i) \/ RestoreBegin(p, i) \/ \E a \in Attrs : PatchBegin(p, i, a)
           \/ PatchIntent(p) \/ RestoreIntent(p) \/ Rewrite(p) \/ RestoreMove(p) \/ RestoreGone(p)
           \/ PatchMirror(p) \/ RestoreMirror(p) \/ RefreshMirror(p) \/ JournalEdit(p)
    PROVE  (\A i \in Ids : Explained(i)') /\ Stands(p)'
<1>1. /\ TypeOK /\ LockInv /\ HoldsLock(p) /\ FileStays(p) /\ p # None
      /\ \A i \in Ids : Explained(i) /\ (i \notin Outstanding => OneStory(i))
      /\ Stands(p) /\ (pc[p] \in OnMemory => req[p].id \in Ids)
  BY TurnFacts
<1>2. ASSUME UNCHANGED <<live, row, rev, intent>>
      PROVE  (\A i \in Ids : Explained(i)') /\ Outstanding' = Outstanding
  BY <1>1, <1>2, ExplainedStays DEF Outstanding
<1>3. ASSUME NEW i \in Ids, RefreshBegin(p, i) \/ RestoreBegin(p, i) \/ \E a \in Attrs : PatchBegin(p, i, a)
      PROVE  (\A j \in Ids : Explained(j)') /\ Stands(p)'
  <2>1. /\ pc[p] = "ready" /\ req'[p].id = i /\ UNCHANGED <<live, trash, row, rev, intent, lock>>
        /\ \/ pc'[p] = "refresh_wait" /\ live'[i] = req'[p].attr /\ live'[i] # None
           \/ pc'[p] = "restore_loaded" /\ Restorable(i)'
           \/ pc'[p] = "patch_loaded"
    BY <1>1, <1>3, Started DEF RefreshBegin, RestoreBegin, PatchBegin, Restorable, disk, db
  <2>2. Outstanding = {}
    BY <1>1, <2>1 DEF Stands, Opening, Writing, Deleting
  <2>3. Stands(p)'
    BY <1>1, <1>2, <2>1, <2>2 DEF Stands, Opening, Writing, Deleting, LockedSteps
  <2> QED
    BY <1>2, <2>1, <2>3
<1>4. CASE PatchIntent(p) \/ RestoreIntent(p)
  <2>1. PICK i \in Ids : i = req[p].id
    BY <1>1, <1>4 DEF PatchIntent, RestoreIntent, OnMemory, Steps, OtherSteps
  <2>2. /\ \/ pc[p] = "patch_loaded" /\ pc'[p] = "patch_wait"
           \/ pc[p] = "restore_loaded" /\ pc'[p] = "restore_wait" /\ Restorable(i) /\ Restorable(i)'
        /\ Record(i, "write", req[p].op) /\ UNCHANGED <<live, row, rev, req, lock>>
    BY <1>1, <1>4, <2>1 DEF PatchIntent, RestoreIntent, disk, Goto, TypeOK, Stands, Restorable
  <2>3. Outstanding = {}
    BY <1>1, <2>2 DEF Stands, Opening, Writing, Deleting
  <2>4. /\ Outstanding' = {i} /\ intent'[i] = [kind |-> "write", op |-> req[p].op]
        /\ \A j \in Ids : j # i => intent'[j] = intent[j]
    BY <1>1, <2>2, <2>3, Recorded
  <2>5. \A j \in Ids : Explained(j)'
    BY <1>1, <2>2, <2>3, <2>4, StoryStays, ExplainedStays DEF Explained
  <2>6. Stands(p)'
    BY <1>1, <2>1, <2>2, <2>4 DEF Stands, Opening, Writing, Deleting, LockedSteps
  <2> QED
    BY <2>5, <2>6
<1>5. CASE Rewrite(p) /\ pc[p] = "refresh_wait"
  <2>1. PICK i \in Ids : i = req[p].id
    BY <1>1, <1>5 DEF OnMemory, Steps, WaitingSteps
  <2>2. /\ pc'[p] = "refresh_placed" /\ live[i] = req[p].attr /\ live[i] # None
        /\ UNCHANGED <<live, row, rev, intent, req>>
    BY <1>1, <1>5, <2>1 DEF Rewrite, Goto, TypeOK, Stands, db
  <2>3. Outstanding = {}
    BY <1>1, <1>5 DEF Stands, Opening, Writing, Deleting
  <2>4. Stands(p)'
    BY <1>1, <1>2, <2>1, <2>2, <2>3 DEF Stands, Opening, Writing, Deleting, LockedSteps
  <2> QED
    BY <1>2, <2>2, <2>4
<1>6. CASE (Rewrite(p) /\ pc[p] = "patch_wait") \/ RestoreMove(p)
  <2>1. PICK i \in Ids : i = req[p].id
    BY <1>1, <1>6 DEF RestoreMove, OnMemory, Steps, WaitingSteps
  <2>2. /\ pc[p] \in {"patch_wait", "restore_wait"} /\ pc'[p] \in {"patch_placed", "restore_moved"}
        /\ UNCHANGED <<row, rev, intent>> /\ Outstanding' = Outstanding
        /\ req'[p].id = i /\ req'[p].op = req[p].op /\ live'[i] # None
        /\ \A j \in Ids : j # i => live'[j] = live[j]
    <3>1. CASE Rewrite(p) /\ pc[p] = "patch_wait"
      BY <1>1, <2>1, <3>1, ConstantsAssumption
         DEF Rewrite, Goto, TypeOK, db, Outstanding, FileStays, Carrying
    <3>2. CASE RestoreMove(p)
      <4>1. req'[p] = [req[p] EXCEPT !.attr = trash[i]]
        BY <1>1, <2>1, <3>2 DEF RestoreMove, TypeOK
      <4>2. req'[p].id = i /\ req'[p].op = req[p].op
        BY <1>1, <2>1, <4>1 DEF TypeOK, Requests
      <4> QED
        BY <1>1, <2>1, <3>2, <4>2 DEF RestoreMove, Restorable, Goto, TypeOK, db, Outstanding
    <3> QED
      BY <1>6, <3>1, <3>2
  <2>3. Outstanding = {i} /\ intent[i] = [kind |-> "write", op |-> req[p].op]
    BY <1>1, <2>1, <2>2 DEF Stands, Writing
  <2>4. \A j \in Ids : Explained(j)'
    BY <1>1, <2>2, <2>3, ExplainedStays DEF Explained
  <2>5. Stands(p)'
    BY <2>2, <2>3 DEF Stands, Opening, Writing, Deleting, LockedSteps
  <2> QED
    BY <2>4, <2>5
<1>7. CASE RestoreGone(p)
  BY <1>1, <1>7 DEF RestoreGone, Stands
<1>8. CASE PatchMirror(p) \/ RestoreMirror(p)
  <2>1. PICK i \in Ids : i = req[p].id
    BY <1>1, <1>8 DEF PatchMirror, RestoreMirror, OnMemory, Steps, LockedSteps
  <2>2. /\ pc[p] \in {"patch_placed", "restore_moved"} /\ pc'[p] \in {"patch_mirrored", "restore_mirrored"}
        /\ UNCHANGED <<live, rev, intent, req>> /\ Outstanding' = Outstanding
        /\ row'[i] = LiveRow(req[p].attr) /\ live[i] # None
        /\ \A j \in Ids : j # i => row'[j] = row[j]
    BY <1>1, <1>8, <2>1, ConstantsAssumption
       DEF PatchMirror, RestoreMirror, Mirror, Goto, TypeOK, disk, Outstanding, FileStays, Carrying, Placed
  <2>3. Outstanding = {i} /\ intent[i] = [kind |-> "write", op |-> req[p].op]
    BY <1>1, <2>1, <2>2 DEF Stands, Writing
  <2>4. \A j \in Ids : Explained(j)'
    BY <1>1, <2>2, <2>3, ExplainedStays DEF Explained
  <2>5. Stands(p)'
    BY <2>1, <2>2, <2>3 DEF Stands, Opening, Writing, Deleting, LockedSteps
  <2> QED
    BY <2>4, <2>5
<1>9. CASE RefreshMirror(p)
  <2>1. PICK i \in Ids : i = req[p].id
    BY <1>1, <1>9 DEF RefreshMirror, OnMemory, Steps, LockedSteps
  <2>2. /\ pc[p] = "refresh_placed" /\ pc'[p] = "ready" /\ lock' = None
        /\ UNCHANGED <<live, rev, intent>> /\ Outstanding' = Outstanding
        /\ row'[i] = LiveRow(live[i]) /\ live[i] # None
        /\ \A j \in Ids : j # i => row'[j] = row[j]
    BY <1>1, <1>9, <2>1
       DEF RefreshMirror, Mirror, Finish, Goto, TypeOK, disk, Outstanding, Release, Stands
  <2>3. Outstanding = {}
    BY <1>1, <2>2 DEF Stands, Opening, Writing, Deleting
  <2>4. row'[i] = row[i]
    BY <1>1, <2>2, <2>3 DEF OneStory
  <2>5. \A j \in Ids : Explained(j)'
    BY <1>1, <2>2, <2>4, ExplainedStays
  <2>6. Stands(p)'
    BY <1>1, <2>2, <2>3 DEF Stands, Opening, Writing, Deleting
  <2> QED
    BY <2>5, <2>6
<1>10. CASE JournalEdit(p)
  <2>1. PICK i \in Ids : i = req[p].id
    BY <1>1, <1>10 DEF JournalEdit, OnMemory, Steps, LockedSteps
  <2>2. /\ pc[p] \in {"patch_mirrored", "restore_mirrored"}
        /\ live[i] = req[p].attr /\ live[i] # None /\ row[i] = LiveRow(live[i])
    BY <1>1, <1>10, <2>1, ConstantsAssumption DEF JournalEdit, FileStays, Carrying, Placed, Stands
  <2>3. Outstanding = {i} /\ intent[i] = [kind |-> "write", op |-> req[p].op]
    BY <1>1, <2>1, <2>2 DEF Stands, Writing
  <2>4. req[p].op \notin journaled
    BY <2>3 DEF OpsInv, OwedIsUnjournaled
  <2>5. /\ live' = live /\ row' = row /\ Clear(i) /\ lock' = None /\ pc'[p] = "ready"
        /\ rev'[i].op \in {"upsert", "restore"} /\ rev'[i].attr = live[i]
        /\ \A j \in Ids : j # i => rev'[j] = rev[j]
    BY <1>1, <1>10, <2>1, <2>2, <2>4 DEF JournalEdit, Journal, TypeOK, disk, Release, Finish, Goto
  <2>6. /\ Outstanding' = {} /\ intent'[i] = NoIntent
        /\ \A j \in Ids : j # i => intent'[j] = intent[j]
    BY <1>1, <2>3, <2>5, IntentSettled
  <2>7. OneStory(i)'
    BY <2>2, <2>5 DEF OneStory
  <2>8. \A j \in Ids : Explained(j)'
    BY <1>1, <2>5, <2>6, <2>7, ExplainedStays DEF Explained, NoIntent
  <2>9. Stands(p)'
    BY <1>1, <2>5, <2>6 DEF Stands, Opening, Writing, Deleting
  <2> QED
    BY <2>8, <2>9
<1> QED
  BY <1>3, <1>4, <1>5, <1>6, <1>7, <1>8, <1>9, <1>10 DEF Rewrite

LEMMA TurnCollects ==
    ASSUME SafeInv, OpsInv, TurnInv, NEW p \in Procs,
           GcSweep(p) \/ (\E i \in Ids : GcPurge(p, i)) \/ GcExpired(p) \/ GcDone(p)
    PROVE  (\A i \in Ids : Explained(i)') /\ Stands(p)'
<1>1. /\ TypeOK /\ p # None /\ Stands(p)
      /\ \A i \in Ids : Explained(i) /\ (i \notin Outstanding => OneStory(i))
  BY TurnFacts
<1>2. /\ pc[p] \in {"ready", "gc_reaped", "gc_expired"} /\ pc'[p] \in {"ready", "gc_reaped", "gc_expired"}
      /\ UNCHANGED <<live, rev, intent, lock>> /\ Outstanding' = Outstanding
  BY <1>1 DEF GcSweep, GcPurge, GcExpired, GcDone, Finish, Goto, TypeOK, disk, db, Outstanding
<1>3. Outstanding = {}
  BY <1>1, <1>2 DEF Stands, Opening, Writing, Deleting
<1>4. \A j \in Ids : row'[j] = row[j] \/ (row[j].state = "deleted" /\ row'[j] = NoRow)
  BY <1>1 DEF GcSweep, GcPurge, GcExpired, GcDone, db, TypeOK
<1>5. \A j \in Ids : Explained(j)'
  BY <1>1, <1>2, <1>3, <1>4 DEF Explained, OneStory, NoRow, LiveRow, Outstanding
<1>6. Stands(p)'
  BY <1>1, <1>2, <1>3 DEF Stands, Opening, Writing, Deleting, LockedSteps
<1> QED
  BY <1>5, <1>6

\* Nobody waits for a lock that nobody else can hold.
LEMMA TurnStep ==
    ASSUME SafeInv, OpsInv, TurnInv, TakesTurns, TakesTurns', NEW p \in Procs, Move(p), ~Fail(p)
    PROVE  TurnInv'
<1>1. /\ TypeOK /\ LockInv /\ p # None /\ Stands(p)
  BY TurnFacts
<1>2. \A q \in Procs \ {p} : pc'[q] = "down" /\ pc[q] = "down"
  <2> SUFFICES ASSUME NEW q \in Procs \ {p} PROVE pc'[q] = "down" /\ pc[q] = "down"
    OBVIOUS
  <2>1. pc'[q] = pc[q]
    BY OthersStay DEF SafeInv
  <2>2. pc[p] # "down" \/ pc'[p] # "down"
    <3>1. CASE Probe(p)
      BY <1>1, <3>1 DEF Probe, Goto, TypeOK
    <3>2. CASE Proceed(p) \/ Command(p) \/ Exit(p) \/ Crash(p)
      BY <3>2 DEF Proceed, RecoverLock, RecoverDone, RecoverOne, SavePlace, SavePurge,
                  SaveCommit, DeleteLoad, DeleteIntent, DeleteMove, DeleteCommit,
                  DeleteGone, Heal, PatchIntent, Rewrite, PatchMirror, RefreshMirror,
                  RestoreIntent, RestoreMove, RestoreGone, RestoreMirror, JournalEdit,
                  GcPurge, GcExpired, GcDone, Busy, WaitingSteps, Command, SaveBegin, PatchBegin,
                  DeleteBegin, PruneBegin, RefreshBegin, RestoreBegin, GcSweep, Start, Exit, Crash
    <3> QED
      BY <3>1, <3>2 DEF Move
  <2> QED
    BY <2>1, <2>2 DEF TakesTurns
<1>3. ~Busy(p)
  <2> SUFFICES ASSUME Busy(p) PROVE FALSE
    OBVIOUS
  <2>1. lock \in Procs /\ pc[lock] \in LockedSteps
    BY <1>1 DEF Busy, TypeOK, TurnInv, Stands
  <2>2. lock = p
    BY <1>2, <2>1 DEF LockedSteps
  <2> QED
    BY <2>1, <2>2 DEF Busy, WaitingSteps, LockedSteps
<1>4. (\A i \in Ids : Explained(i)') /\ Stands(p)'
  BY <1>3, TurnRecovers, TurnSaves, TurnDeletes, TurnEdits, TurnCollects DEF Move, Proceed, Command
<1>5. lock' \in {lock, None, p}
  BY DEF Move, Probe, Exit, Crash, Abandon, Proceed, RecoverLock, RecoverDone, RecoverOne, SavePlace, SavePurge,
         SaveCommit, DeleteLoad, DeleteIntent, DeleteMove, DeleteCommit, DeleteGone, Heal, PatchIntent,
         Rewrite, PatchMirror, RefreshMirror, RestoreIntent, RestoreMove, RestoreGone, RestoreMirror,
         JournalEdit, GcPurge, GcExpired, GcDone, Busy, Command, SaveBegin, PatchBegin, DeleteBegin,
         PruneBegin, RefreshBegin, RestoreBegin, GcSweep, Acquire, Release
<1>6. \A q \in Procs \ {p} : Stands(q)'
  <2>1. \A q \in Procs \ {p} : lock # q /\ q # None
    BY <1>2, ConstantsAssumption DEF TurnInv, Stands, LockedSteps
  <2> QED
    BY <1>2, <1>5, <2>1 DEF Stands, Opening, Writing, Deleting
<1> QED
  BY <1>4, <1>6 DEF TurnInv

\* Agreement (recover.rs, and every command's intent): where one process runs at a
\* time and nothing but a kill stops it, every memory that no intent names has a file,
\* a row and a journal that tell one story, whatever command was killed at whatever
\* step, and however often its reconciliation was killed too.
THEOREM RecoveryAgrees ==
    Spec /\ []TakesTurns /\ [][NothingFails]_vars => []Agreement
<1>1. Init => TurnInv
  <2> SUFFICES ASSUME Init PROVE TurnInv
    OBVIOUS
  <2>1. \A i \in Ids : Explained(i)
    BY StoryInit DEF Explained
  <2>2. \A p \in Procs : pc[p] = "down" /\ lock # p
    BY ConstantsAssumption DEF Init
  <2> QED
    BY <2>1, <2>2 DEF TurnInv, Stands, Opening, Writing, Deleting
<1>2. SafeInv /\ OpsInv /\ TurnInv /\ TakesTurns /\ TakesTurns' /\ [Next]_vars /\ [NothingFails]_vars
        => TurnInv'
  <2> SUFFICES ASSUME SafeInv, OpsInv, TurnInv, TakesTurns, TakesTurns', [Next]_vars, [NothingFails]_vars
               PROVE  TurnInv'
    OBVIOUS
  <2>1. CASE NothingFails /\ \E p \in Procs : Move(p)
    BY <2>1, TurnStep DEF NothingFails
  <2>2. CASE DaysPass \/ UNCHANGED vars
    <3>1. UNCHANGED <<live, trash, row, rev, intent, pc, req, lock>>
      BY <2>2 DEF DaysPass, vars, disk, db
    <3> QED
      BY <3>1 DEF TurnInv, Explained, OneStory, Stands, Outstanding, Restorable
  <2> QED
    BY <2>1, <2>2 DEF Next, Move
<1>3. TurnInv => Agreement
  BY DEF TurnInv, Explained, Agreement, Settled, Outstanding, OneStory
<1> QED
  BY <1>1, <1>2, <1>3, LockDiscipline, OpsAlways, PTL DEF Spec
================================================================================
