----------------------------- MODULE SyncDaemon -----------------------------
(* One sync coordinator per data directory, and how one is replaced by the
   next: daemon.lock, the control socket's path, the runtime record.  A
   coordinator takes the lock, binds the socket and records itself; when it
   stops it gives the lock back first and cleans up after, so that a successor
   started the instant it looks stopped does not meet the lock.  All the while
   its guard looks at the path and binds a new socket when it is not the one it
   knows.

   Every look at the path and every change of it is a step of its own.  A
   coordinator that finds the lock taken exits and leaves nothing behind, so
   that start is no step.  What the coordinator works on is SyncPasses. *)
EXTENDS Naturals, FiniteSets

CONSTANTS
    Nobody,        \* no socket, no process
    Coordinators,  \* processes started for the directory, each once
    Numbers,       \* tell a coordinator's sockets apart; one that nobody
                   \* remembers may come again, as inode numbers do
    MaxKilled      \* bound: coordinators killed

ASSUME DaemonAssumption ==
    /\ Nobody \notin Coordinators
    /\ Numbers # {}
    /\ MaxKilled \in Nat

VARIABLES
    socket,      \* what is at the socket's path
    daemonLock,  \* who holds daemon.lock
    record,      \* whom daemon.json names
    coord,       \* each coordinator: its phase, its guard, what they remember
    killed       \* how much of the bound is used up

daemonVars == <<socket, daemonLock, record, coord, killed>>

\* A socket is named by the coordinator that made it and listens on it.
Inodes == Coordinators \X Numbers
Listener(inode) == inode[1]

Phases == {"unborn", "locked", "cleared", "listening", "bound", "serving", "stopping",
           "released", "unlinking", "unlinked", "erasing", "ended"}
Coordinator == [phase : Phases, bound : Inodes \cup {Nobody},
                guard : {"off", "watch", "unlinked", "listening"}, known : Inodes \cup {Nobody}]
Unstarted == [phase |-> "unborn", bound |-> Nobody, guard |-> "off", known |-> Nobody]

Alive(c) == coord[c].phase \notin {"unborn", "ended"}
Serves(c) == coord[c].phase = "serving"

Remembered == {socket} \cup UNION {{coord[c].bound, coord[c].known} : c \in Coordinators}
Unremembered(c) == {n \in Numbers : <<c, n>> \notin Remembered}
FreshInode(c) == <<c, CHOOSE n \in Numbers : Unremembered(c) # {} => n \in Unremembered(c)>>
Step(c, phase) == coord' = [coord EXCEPT ![c].phase = phase]

(****************************** starting **********************************)

\* mutant: the lock is taken once the start is through
LaunchUnlocked(c) ==
    /\ coord[c].phase = "unborn"
    /\ daemonLock' = IF daemonLock = Nobody THEN c ELSE daemonLock
    /\ Step(c, "locked")
    /\ UNCHANGED <<socket, record, killed>>
Launch(c) ==
    /\ coord[c].phase = "unborn" /\ daemonLock = Nobody
    /\ daemonLock' = c
    /\ Step(c, "locked")
    /\ UNCHANGED <<socket, record, killed>>

\* watchdog::bind: what is at the path goes, then a socket is made there.
Clears(c) ==
    /\ coord[c].phase = "locked"
    /\ socket' = Nobody
    /\ Step(c, "cleared")
    /\ UNCHANGED <<daemonLock, record, killed>>

\* A path taken in between fails the start.
Listens(c) ==
    /\ coord[c].phase = "cleared"
    /\ IF socket = Nobody
         THEN /\ socket' = FreshInode(c)
              /\ Step(c, "listening")
              /\ UNCHANGED daemonLock
         ELSE /\ coord' = [coord EXCEPT ![c].phase = "ended", ![c].guard = "off"]
              /\ daemonLock' = Nobody
              /\ UNCHANGED socket
    /\ UNCHANGED <<record, killed>>

NotesBound(c) ==
    /\ coord[c].phase = "listening"
    /\ coord' = [coord EXCEPT ![c].phase = "bound", ![c].bound = socket]
    /\ UNCHANGED <<socket, daemonLock, record, killed>>

\* mutant: daemon.json is written with the socket, not with the process
RecordsSocket(c) ==
    /\ coord[c].phase = "bound"
    /\ record' = socket
    /\ Step(c, "serving")
    /\ UNCHANGED <<socket, daemonLock, killed>>
Records(c) ==
    /\ coord[c].phase = "bound"
    /\ record' = c
    /\ Step(c, "serving")
    /\ UNCHANGED <<socket, daemonLock, killed>>

(******************************* the guard ********************************)

\* It remembers what it finds at the path when it starts.
GuardStarts(c) ==
    /\ Alive(c) /\ coord[c].guard = "off"
    /\ coord[c].phase \notin {"locked", "cleared", "listening", "bound"}
    /\ coord' = [coord EXCEPT ![c].guard = "watch", ![c].known = socket]
    /\ UNCHANGED <<socket, daemonLock, record, killed>>

\* mutant: a guard that found no socket at its start waits for one
GuardClearsKnown(c) ==
    /\ Alive(c) /\ coord[c].guard = "watch"
    /\ coord[c].known # Nobody /\ socket # coord[c].known
    /\ socket' = Nobody
    /\ coord' = [coord EXCEPT ![c].guard = "unlinked"]
    /\ UNCHANGED <<daemonLock, record, killed>>
\* Another inode than the one it knows, or none: bind again.
GuardClears(c) ==
    /\ Alive(c) /\ coord[c].guard = "watch"
    /\ coord[c].known = Nobody \/ socket # coord[c].known
    /\ socket' = Nobody
    /\ coord' = [coord EXCEPT ![c].guard = "unlinked"]
    /\ UNCHANGED <<daemonLock, record, killed>>

GuardListens(c) ==
    /\ Alive(c) /\ coord[c].guard = "unlinked"
    /\ IF socket = Nobody
         THEN /\ socket' = FreshInode(c)
              /\ coord' = [coord EXCEPT ![c].guard = "listening"]
         ELSE /\ coord' = [coord EXCEPT ![c].guard = "watch"]
              /\ UNCHANGED socket
    /\ UNCHANGED <<daemonLock, record, killed>>

GuardNotes(c) ==
    /\ Alive(c) /\ coord[c].guard = "listening"
    /\ coord' = [coord EXCEPT ![c].guard = "watch", ![c].known = socket, ![c].bound = socket]
    /\ UNCHANGED <<socket, daemonLock, record, killed>>

(******************************* stopping *********************************)

\* A shutdown request, a signal, or a background thread that exited.
StopsServing(c) ==
    /\ Serves(c)
    /\ Step(c, "stopping")
    /\ UNCHANGED <<socket, daemonLock, record, killed>>

Releases(c) ==
    /\ coord[c].phase = "stopping"
    /\ daemonLock' = Nobody
    /\ Step(c, "released")
    /\ UNCHANGED <<socket, record, killed>>

\* unbind: the path is compared with the inode bound last, then removed.
UnbindLooks(c) ==
    /\ coord[c].phase = "released"
    /\ Step(c, IF socket # Nobody /\ socket = coord[c].bound THEN "unlinking" ELSE "unlinked")
    /\ UNCHANGED <<socket, daemonLock, record, killed>>

UnbindRemoves(c) ==
    /\ coord[c].phase = "unlinking"
    /\ socket' = Nobody
    /\ Step(c, "unlinked")
    /\ UNCHANGED <<daemonLock, record, killed>>

\* remove_if_ours: the record is read, then removed; the process ends.
RecordLooks(c) ==
    /\ coord[c].phase = "unlinked"
    /\ coord' = IF record = c THEN [coord EXCEPT ![c].phase = "erasing"]
                              ELSE [coord EXCEPT ![c].phase = "ended", ![c].guard = "off"]
    /\ UNCHANGED <<socket, daemonLock, record, killed>>

RecordErases(c) ==
    /\ coord[c].phase = "erasing"
    /\ record' = Nobody
    /\ coord' = [coord EXCEPT ![c].phase = "ended", ![c].guard = "off"]
    /\ UNCHANGED <<socket, daemonLock, killed>>

KilledCoordinator(c) ==
    /\ Alive(c) /\ killed < MaxKilled
    /\ coord' = [coord EXCEPT ![c].phase = "ended", ![c].guard = "off"]
    /\ daemonLock' = IF daemonLock = c THEN Nobody ELSE daemonLock
    /\ killed' = killed + 1
    /\ UNCHANGED <<socket, record>>

(****************************** specification *****************************)

DaemonInit ==
    /\ socket = Nobody
    /\ daemonLock = Nobody /\ record = Nobody
    /\ coord = [c \in Coordinators |-> Unstarted]
    /\ killed = 0

Starts(c) == Clears(c) \/ Listens(c) \/ NotesBound(c) \/ Records(c)
Guards(c) == GuardStarts(c) \/ GuardClears(c) \/ GuardListens(c) \/ GuardNotes(c)
Ends(c) == Releases(c) \/ UnbindLooks(c) \/ UnbindRemoves(c) \/ RecordLooks(c) \/ RecordErases(c)

DaemonNext ==
    \E c \in Coordinators :
        Launch(c) \/ Starts(c) \/ Guards(c) \/ StopsServing(c) \/ Ends(c) \/ KilledCoordinator(c)

DaemonSpec == DaemonInit /\ [][DaemonNext]_daemonVars

\* A process's own tasks go on: its start, its guard, and its way out.
DaemonFairness ==
    \A c \in Coordinators :
        WF_daemonVars(Starts(c)) /\ WF_daemonVars(Guards(c)) /\ WF_daemonVars(Ends(c))

(******************************* properties *******************************)

DaemonTypeOK ==
    /\ socket \in Inodes \cup {Nobody}
    /\ daemonLock \in Coordinators \cup {Nobody} /\ record \in Coordinators \cup {Nobody}
    /\ coord \in [Coordinators -> Coordinator]

\* A coordinator that serves is the only one, and the record names it or, once
\* a predecessor's cleanup raced it, nobody; it never names another.
RecordIsTheServers ==
    \A c \in Coordinators : Serves(c) =>
        /\ daemonLock = c /\ record \in {c, Nobody}
        /\ \A other \in Coordinators \ {c} : ~Serves(other)

Reachable(c) == socket # Nobody /\ Listener(socket) = c

\* The guard took another coordinator's socket for its own.
Misled(c) == coord[c].known # Nobody /\ Listener(coord[c].known) # c

\* Whatever predecessors remove or bind on their way out, a coordinator that
\* goes on serving is reachable in the end and stays so: its guard repairs what
\* they did. Excepted is a guard that was misled when it started.
StaysReachable ==
    \A c \in Coordinators : <>[]Serves(c) => <>[](Reachable(c) \/ Misled(c))

\* The same without the exception.
AlwaysReachable == \A c \in Coordinators : <>[]Serves(c) => <>[]Reachable(c)

\* "this instance's own inode is removed", "a stopping coordinator never deletes
\* its successor's" (coordinator.rs:76-77, runtime_record.rs:68-69).
CleansUpItsOwn ==
    [][\A c \in Coordinators :
          /\ UnbindRemoves(c) => Listener(socket) = c
          /\ RecordErases(c) => record = c]_daemonVars
=============================================================================
