-------------------------- MODULE SyncDaemonProofs --------------------------
(* That at most one coordinator serves, that it holds daemon.lock, and that the
   runtime record names no other - for any number of coordinators, sockets and
   kills.  The lock decides both: a process holds it in exactly the phases from
   its start to the moment it gives the lock back, so two of them are never in
   these phases at once. *)
EXTENDS SyncDaemon, TLAPS

Holding == {"locked", "cleared", "listening", "bound", "serving", "stopping"}

\* The lock is held by the one process that is in a phase held under it.
LockInv == \A c \in Coordinators : coord[c].phase \in Holding <=> daemonLock = c
RecordInv == \A c \in Coordinators : Serves(c) => record \in {c, Nobody}
DaemonInv == DaemonTypeOK /\ LockInv /\ RecordInv

LEMMA FreshInodeIsOne == \A c \in Coordinators : FreshInode(c) \in Inodes
<1> SUFFICES ASSUME NEW c \in Coordinators PROVE FreshInode(c) \in Inodes
  OBVIOUS
<1>1. \E n \in Numbers : Unremembered(c) # {} => n \in Unremembered(c)
  <2>1. CASE Unremembered(c) = {}
    BY <2>1, DaemonAssumption DEF DaemonAssumption
  <2>2. CASE Unremembered(c) # {}
    BY <2>2 DEF Unremembered
  <2> QED BY <2>1, <2>2
<1> DEFINE P(n) == Unremembered(c) # {} => n \in Unremembered(c)
           fresh == CHOOSE n \in Numbers : P(n)
<1>2. \E n \in Numbers : P(n)
  BY <1>1
<1>3. FreshInode(c) = <<c, fresh>>
  BY DEF FreshInode
<1> HIDE DEF P
<1>4. fresh \in Numbers
  BY <1>2
<1> HIDE DEF fresh
<1> QED BY <1>3, <1>4 DEF Inodes

LEMMA TypeStep == DaemonTypeOK /\ [DaemonNext]_daemonVars => DaemonTypeOK'
<1> SUFFICES ASSUME DaemonTypeOK, [DaemonNext]_daemonVars PROVE DaemonTypeOK'
  OBVIOUS
<1> USE DEF DaemonTypeOK, Coordinator, Phases
<1>0. CASE UNCHANGED daemonVars
  BY <1>0 DEF daemonVars
<1> SUFFICES ASSUME NEW c \in Coordinators,
                    \/ Launch(c) \/ Starts(c) \/ Guards(c) \/ StopsServing(c)
                    \/ Ends(c) \/ KilledCoordinator(c)
             PROVE  DaemonTypeOK'
  BY <1>0 DEF DaemonNext
<1> FreshInode(c) \in Inodes
  BY FreshInodeIsOne
<1>1. CASE Launch(c)
  BY <1>1 DEF Launch, Step
<1>2. CASE Clears(c)
  BY <1>2 DEF Clears, Step
<1>3. CASE Listens(c)
  <2>1. CASE socket = Nobody
    BY <1>3, <2>1 DEF Listens, Step
  <2>2. CASE socket # Nobody
    BY <1>3, <2>2 DEF Listens
  <2> QED BY <2>1, <2>2
<1>4. CASE NotesBound(c)
  <2>1. [coord[c] EXCEPT !.phase = "bound", !.bound = socket] \in Coordinator
    BY Zenon
  <2>2. coord' = [coord EXCEPT ![c] = [coord[c] EXCEPT !.phase = "bound", !.bound = socket]]
    BY <1>4 DEF NotesBound
  <2> QED BY <1>4, <2>1, <2>2 DEF NotesBound
<1>5. CASE Records(c)
  BY <1>5 DEF Records, Step
<1>6. CASE GuardStarts(c)
  <2>1. [coord[c] EXCEPT !.guard = "watch", !.known = socket] \in Coordinator
    BY Zenon
  <2>2. coord' = [coord EXCEPT ![c] = [coord[c] EXCEPT !.guard = "watch", !.known = socket]]
    BY <1>6 DEF GuardStarts
  <2> QED BY <1>6, <2>1, <2>2 DEF GuardStarts
<1>7. CASE GuardClears(c)
  BY <1>7 DEF GuardClears
<1>8. CASE GuardListens(c)
  BY <1>8 DEF GuardListens
<1>9. CASE GuardNotes(c)
  <2>1. [coord[c] EXCEPT !.guard = "watch", !.known = socket, !.bound = socket] \in Coordinator
    BY Zenon
  <2>2. coord' = [coord EXCEPT ![c] = [coord[c] EXCEPT !.guard = "watch", !.known = socket, !.bound = socket]]
    BY <1>9 DEF GuardNotes
  <2> QED BY <1>9, <2>1, <2>2 DEF GuardNotes
<1>10. CASE StopsServing(c)
  BY <1>10 DEF StopsServing, Step
<1>11. CASE Releases(c)
  BY <1>11 DEF Releases, Step
<1>12. CASE UnbindLooks(c)
  BY <1>12 DEF UnbindLooks, Step
<1>13. CASE UnbindRemoves(c)
  BY <1>13 DEF UnbindRemoves, Step
<1>14. CASE RecordLooks(c)
  <2>1. [coord[c] EXCEPT !.phase = "ended", !.guard = "off"] \in Coordinator /\ [coord[c] EXCEPT !.phase = "erasing"] \in Coordinator
    BY Zenon
  <2>2. \/ coord' = [coord EXCEPT ![c] = [coord[c] EXCEPT !.phase = "ended", !.guard = "off"]]
        \/ coord' = [coord EXCEPT ![c] = [coord[c] EXCEPT !.phase = "erasing"]]
    BY <1>14 DEF RecordLooks
  <2> QED BY <1>14, <2>1, <2>2 DEF RecordLooks
<1>15. CASE RecordErases(c)
  <2>1. [coord[c] EXCEPT !.phase = "ended", !.guard = "off"] \in Coordinator
    BY Zenon
  <2>2. coord' = [coord EXCEPT ![c] = [coord[c] EXCEPT !.phase = "ended", !.guard = "off"]]
    BY <1>15 DEF RecordErases
  <2> QED BY <1>15, <2>1, <2>2 DEF RecordErases
<1>16. CASE KilledCoordinator(c)
  <2>1. [coord[c] EXCEPT !.phase = "ended", !.guard = "off"] \in Coordinator
    BY Zenon
  <2>2. coord' = [coord EXCEPT ![c] = [coord[c] EXCEPT !.phase = "ended", !.guard = "off"]]
    BY <1>16 DEF KilledCoordinator
  <2> QED BY <1>16, <2>1, <2>2 DEF KilledCoordinator
<1> QED
  BY <1>1, <1>2, <1>3, <1>4, <1>5, <1>6, <1>7, <1>8, <1>9, <1>10, <1>11, <1>12, <1>13,
     <1>14, <1>15, <1>16 DEF Starts, Guards, Ends

\* A step of c leaves every other process's phase alone, and ends or enters the
\* phases held under the lock together with the lock.
LEMMA LockStep == DaemonInv /\ [DaemonNext]_daemonVars => LockInv' /\ RecordInv'
<1> SUFFICES ASSUME DaemonInv, [DaemonNext]_daemonVars PROVE LockInv' /\ RecordInv'
  OBVIOUS
<1> USE DaemonAssumption
    DEF DaemonInv, DaemonTypeOK, LockInv, RecordInv, Holding, Serves, Coordinator, DaemonAssumption
<1>0. CASE UNCHANGED daemonVars
  BY <1>0 DEF daemonVars
<1> SUFFICES ASSUME NEW c \in Coordinators,
                    \/ Launch(c) \/ Starts(c) \/ Guards(c) \/ StopsServing(c)
                    \/ Ends(c) \/ KilledCoordinator(c)
             PROVE  LockInv' /\ RecordInv'
  BY <1>0 DEF DaemonNext
<1>1. CASE Launch(c)
  BY <1>1 DEF Launch, Step
<1>2. CASE Clears(c)
  BY <1>2 DEF Clears, Step
<1>3. CASE Listens(c)
  BY <1>3 DEF Listens, Step
<1>4. CASE NotesBound(c)
  BY <1>4 DEF NotesBound
<1>5. CASE Records(c)
  BY <1>5 DEF Records, Step
<1>6. CASE GuardStarts(c)
  BY <1>6 DEF GuardStarts
<1>7. CASE GuardClears(c)
  BY <1>7 DEF GuardClears
<1>8. CASE GuardListens(c)
  BY <1>8 DEF GuardListens
<1>9. CASE GuardNotes(c)
  BY <1>9 DEF GuardNotes
<1>10. CASE StopsServing(c)
  BY <1>10 DEF StopsServing, Step
<1>11. CASE Releases(c)
  BY <1>11 DEF Releases, Step
<1>12. CASE UnbindLooks(c)
  BY <1>12 DEF UnbindLooks, Step
<1>13. CASE UnbindRemoves(c)
  BY <1>13 DEF UnbindRemoves, Step
<1>14. CASE RecordLooks(c)
  BY <1>14 DEF RecordLooks
<1>15. CASE RecordErases(c)
  BY <1>15 DEF RecordErases
<1>16. CASE KilledCoordinator(c)
  BY <1>16 DEF KilledCoordinator, Alive
<1> QED
  BY <1>1, <1>2, <1>3, <1>4, <1>5, <1>6, <1>7, <1>8, <1>9, <1>10, <1>11, <1>12, <1>13,
     <1>14, <1>15, <1>16 DEF Starts, Guards, Ends

LEMMA DaemonInvariant == DaemonSpec => []DaemonInv
<1>1. DaemonInit => DaemonInv
  BY DaemonAssumption DEF DaemonAssumption, DaemonInit, DaemonInv, DaemonTypeOK, LockInv, RecordInv,
     Holding, Serves, Unstarted, Coordinator, Phases
<1>2. DaemonInv /\ [DaemonNext]_daemonVars => DaemonInv'
  BY TypeStep, LockStep DEF DaemonInv
<1> QED BY <1>1, <1>2, PTL DEF DaemonSpec

\* The type invariant of the hand-over.
THEOREM DaemonTypeCorrect == DaemonSpec => []DaemonTypeOK
<1>1. DaemonInv => DaemonTypeOK
  BY DEF DaemonInv
<1> QED BY <1>1, DaemonInvariant, PTL

\* However many coordinators are started, stopped and killed, one that serves is
\* the only one, holds daemon.lock (coordinator::run) and is the one the record
\* names, if it names anyone.
THEOREM RecordIsTheServersAlways == DaemonSpec => []RecordIsTheServers
<1>1. DaemonInv => RecordIsTheServers
  BY DaemonAssumption
     DEF DaemonAssumption, DaemonInv, LockInv, RecordInv, RecordIsTheServers, Holding, Serves
<1> QED BY <1>1, DaemonInvariant, PTL
=============================================================================
