------------------------------ MODULE ReplicaLog ------------------------------
(****************************************************************************)
(* What the hub promises its clients: one log of memory operations, in which *)
(* an operation has at most one position and a deleted memory comes back     *)
(* only through a restore.  ReplicaExchange is shown to implement it.        *)
(****************************************************************************)
EXTENDS Naturals, Sequences

CONSTANTS
    Ids,       \* memory ids
    Values,    \* what a memory can hold: its replicated payload
    None,      \* no payload: a tombstone's
    Oids       \* operation ids

VARIABLE log

Entries == [oid : Oids, id : Ids, op : {"upsert", "restore", "tombstone"},
            val : Values \cup {None}]

\* The last entry about memory i is its deletion.
DeletedIn(l, i) ==
    \E n \in 1 .. Len(l) :
        /\ l[n].id = i /\ l[n].op = "tombstone"
        /\ \A m \in n + 1 .. Len(l) : l[m].id # i

Init == log = <<>>

\* A write revives nothing; a restore follows the deletion it undoes; an
\* operation that has its position keeps it.
Append1(e) ==
    /\ \A n \in 1 .. Len(log) : log[n].oid # e.oid
    /\ e.op = "upsert" => ~DeletedIn(log, e.id)
    /\ e.op = "restore" => DeletedIn(log, e.id)
    /\ log' = Append(log, e)

Next == \E e \in Entries : Append1(e)

Spec == Init /\ [][Next]_log

--------------------------------------------------------------------------------
\* What a reader of the log may conclude from it.

\* An operation has one position: a client that resends learns the first.
OnePosition == \A m, n \in 1 .. Len(log) : log[m].oid = log[n].oid => m = n

\* A deleted memory is not written to: between its deletion and a later write of
\* it stands a restore, however many clients wrote to it in the meantime.
RevivedByRestore ==
    \A m, n \in 1 .. Len(log) :
        /\ m < n /\ log[m].id = log[n].id
        /\ log[m].op = "tombstone" /\ log[n].op = "upsert"
        => \E k \in m + 1 .. n - 1 : log[k].id = log[m].id /\ log[k].op = "restore"

\* A restore undoes a deletion that nothing has followed: no two restores share one.
RestoreUndoesDeletion ==
    \A n \in 1 .. Len(log) : log[n].op = "restore" =>
        \E m \in 1 .. n - 1 :
            /\ log[m].id = log[n].id /\ log[m].op = "tombstone"
            /\ \A k \in m + 1 .. n - 1 : log[k].id # log[n].id

\* What has a position keeps it and what it says: an entry read again, after a
\* rewind or an answer that was lost, is the entry read before.
PositionsStay ==
    [][Len(log') >= Len(log) /\ \A n \in 1 .. Len(log) : log'[n] = log[n]]_log
================================================================================
