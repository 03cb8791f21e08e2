-------------------------- MODULE ExchangeConvergence --------------------------
(****************************************************************************)
(* What brings every client of ReplicaExchange to the hub's state, and what   *)
(* keeps it from it: the exchange with a record of whether a client has ever   *)
(* acted on an entry older than one it knew (all through pull.rs:251, which    *)
(* binds a memory back to the client's own older operation), applied an entry  *)
(* over an operation it still owed (pull.rs:213), or saved a memory that was   *)
(* deleted under its id (save_persist.rs).                                     *)
(****************************************************************************)
EXTENDS ReplicaExchange

VARIABLE strayed   \* a client has done one of these

\* An owed operation settled by an entry older than one the client knows.
SettlesOlder(c) == ResolveUpstream(c) /\ KnowsNewer(c, Entry(c).id, Position(c))

\* A restore that names an older deletion than the newest entry it knows.
NamesOlder(c) ==
    /\ Send(c)
    /\ \E k \in Batch(c) : /\ outbox[c][k].op = "restore"
                           /\ KnowsNewer(c, outbox[c][k].id, outbox'[c][k].seen)

AppliesOverOwed(c) == Apply(c) /\ PendingOn(c, Entry(c).id) # {}

Resaves(c) == \E i \in Ids, v \in Values : local[c][i].state = "deleted" /\ Write(c, i, v)

Strays ==
    \E c \in Clients :
        \/ \E i \in Ids : Pulls(c, i) /\ KnowsNewer(c, i, Position(c))
        \/ SettlesOlder(c) \/ NamesOlder(c) \/ AppliesOverOwed(c) \/ Resaves(c)

ConvergeInit == Init /\ strayed = FALSE
ConvergeNext == Next /\ strayed' = (strayed \/ Strays)

ConvergeSpec == ConvergeInit /\ [][ConvergeNext]_<<vars, strayed>> /\ Fairness

\* Nobody strayed, no answer was lost and no pass was killed.
Undisturbed == ~strayed /\ \A k \in 1 .. Len(faults) : faults[k] = "stalled"

\* Passes bring every client to the hub's state (replica_pass.rs): with
\* everything owed answered, every entry dealt with and no pass running, each
\* client holds of every memory what the hub's newest entry about it says.
Converged ==
    Undisturbed /\ Settled /\ (\A c \in Clients : At(c, "idle"))
        => \A c \in Clients, i \in Ids : Agrees(c, i)
================================================================================
