---------------------------- MODULE ReplicaExchange ----------------------------
(****************************************************************************)
(* The replica-v1 exchange of memories between clients and one hub           *)
(* (src/src/domains/sync/drain, src/src/domains/sync/replica).               *)
(*                                                                           *)
(* A client journals every local change in its outbox; a pass pulls the      *)
(* hub's feed above the client's cursor, entry by entry, then pushes a batch *)
(* of what it still owes.  The hub orders what it accepts in one feed and    *)
(* keeps a receipt of every answer, so that a resent operation is answered   *)
(* and not applied again.                                                    *)
(*                                                                           *)
(* Passes of one client serialise on sync.lock; its local commands do not    *)
(* wait for them.  A memory's write path is one step here: MemoryWrite is    *)
(* its own module.                                                           *)
(****************************************************************************)
EXTENDS Naturals, Sequences, FiniteSets, FiniteSetsExt

CONSTANTS
    Clients,       \* data directories exchanging under one workspace
    Ids,           \* memory ids
    Values,        \* replicated payloads: two are equal when their digests are
    None,          \* no payload, no file
    Commands,      \* local commands: a subset of AllCommands
    Legs,          \* the passes that run: "both", and "push" after a save
    Concurrent,    \* whether local commands run while a pass does
    MaxBatch,      \* operations one request carries
    MaxOps,        \* bound: local commands
    Faults,        \* what goes wrong: a subset of AllFaults
    MaxFaults      \* bound: how often

AllCommands == {"save", "patch", "delete", "restore", "resave"}
AllFaults == {"lost", "stalled", "killed"}

ASSUME ConstantsAssumption ==
    /\ None \notin Values
    /\ Commands \subseteq AllCommands /\ Faults \subseteq AllFaults
    /\ Legs \subseteq {"both", "push"} /\ Concurrent \in BOOLEAN
    /\ MaxBatch \in Nat \ {0}
    /\ MaxOps \in Nat /\ MaxFaults \in Nat

VARIABLES
    feed,      \* the hub's replica_feed: accepted operations by position
    receipt,   \* the hub's replica_receipt, by operation id
    local,     \* a client's memories: file and row
    outbox,    \* replica_operation: every change it made, oldest first
    state,     \* the outbox state of an operation id
    binding,   \* replica_binding: what the hub last held of an entity
    cursor,    \* replica_cursor.applied_sequence
    holds,     \* replica_pull_hold: positions held `pending_local`
    applied,   \* operation ids a client holds a receipt for
    pass,      \* the pass a client runs
    minted,    \* operation ids minted
    faults     \* what has gone wrong so far

hub == <<feed, receipt>>
store == <<local, outbox, state, binding, cursor, holds, applied>>
bounds == <<minted, faults>>
vars == <<hub, store, pass, bounds>>

Oids == 1 .. MaxOps
Positions == 0 .. MaxOps
Ops == {"upsert", "restore", "tombstone"}
Entries == [oid : Oids, id : Ids, op : Ops, val : Values \cup {None}]
Operations == [oid : Oids, id : Ids, op : Ops, val : Values \cup {None},
               seen : Positions]
Memories == [state : {"absent", "live", "deleted"}, val : Values \cup {None}]
Receipts == [disposition : {"none", "accepted", "rejected_stale"}, sequence : Positions]
Bindings == [sequence : Positions, deleted : BOOLEAN]
Steps == {"idle", "rewind", "page", "pull", "apply", "bind", "advance", "push",
          "sent", "answered", "settled"}
Passes == [step : Steps, head : Positions, upto : Positions,
           wire : SUBSET Positions, done : Positions]

Absent == [state |-> "absent", val |-> None]
Live(v) == [state |-> "live", val |-> v]
NoReceipt == [disposition |-> "none", sequence |-> 0]
NoBinding == [sequence |-> 0, deleted |-> FALSE]
NoPass == [step |-> "idle", head |-> 0, upto |-> 0, wire |-> {}, done |-> 0]

EntryOf(o) == [oid |-> o.oid, id |-> o.id, op |-> o.op, val |-> o.val]

At(c, step) == pass[c].step = step
Goto(c, step) == pass' = [pass EXCEPT ![c].step = step]

Fault(kind) ==
    /\ kind \in Faults /\ Len(faults) < MaxFaults
    /\ faults' = Append(faults, kind)

\* One iteration of a pass: a page while the cursor is below the head the
\* session opened on, then a batch.
Iterate(c, p, at) ==
    pass' = [pass EXCEPT ![c] =
        [p EXCEPT !.step = IF at < p.head THEN "page" ELSE "push",
                  !.upto = 0, !.wire = {}, !.done = 0]]

\* Position n is the hub's revision of memory i: the last of the feed about it.
IsRevision(n, i) ==
    /\ n \in 1 .. Len(feed) /\ feed[n].id = i
    /\ \A m \in n + 1 .. Len(feed) : feed[m].id # i
IsDeletion(n, i) == IsRevision(n, i) /\ feed[n].op = "tombstone"
HubDeleted(i) == \E n \in 1 .. Len(feed) : IsDeletion(n, i)

\* The outbox rows a client still owes, by their place in it, and those about
\* memory i.
Rows(c) == 1 .. Len(outbox[c])
Pending(c) == {k \in Rows(c) : state[outbox[c][k].oid] = "pending"}
PendingOn(c, i) == {k \in Pending(c) : outbox[c][k].id = i}
OidsAt(c, rows) == {outbox[c][k].oid : k \in rows}
Own(c) == OidsAt(c, Rows(c))

--------------------------------------------------------------------------------
\* Local commands: the memory and the operation it owes, in one transaction.

Journal(c, i, op, v, memory) ==
    /\ minted < MaxOps /\ minted' = minted + 1
    /\ local' = [local EXCEPT ![c][i] = memory]
    /\ outbox' = [outbox EXCEPT ![c] = Append(@,
            [oid |-> minted + 1, id |-> i, op |-> op, val |-> v, seen |-> 0])]
    /\ state' = [state EXCEPT ![minted + 1] = "pending"]
    /\ UNCHANGED <<hub, binding, cursor, holds, applied, pass, faults>>

\* save journals an upsert whatever became of the id before.
Write(c, i, v) ==
    LET m == local[c][i] IN
    /\ \/ "save" \in Commands /\ m.state = "absent"
       \/ "patch" \in Commands /\ m.state = "live" /\ m.val # v
       \/ "resave" \in Commands /\ m.state = "deleted"
    /\ Journal(c, i, "upsert", v, Live(v))

Delete(c, i) ==
    /\ "delete" \in Commands /\ local[c][i].state = "live"
    /\ Journal(c, i, "tombstone", None, [local[c][i] EXCEPT !.state = "deleted"])

Restore(c, i) ==
    /\ "restore" \in Commands /\ local[c][i].state = "deleted"
    /\ Journal(c, i, "restore", local[c][i].val, [local[c][i] EXCEPT !.state = "live"])

Command(c) ==
    /\ Concurrent \/ At(c, "idle")
    /\ \E i \in Ids : \/ \E v \in Values : Write(c, i, v)
                       \/ Delete(c, i)
                       \/ Restore(c, i)

--------------------------------------------------------------------------------
\* A pass opens, and comes back for the holds whose cause is gone.

\* Mutant: a hold never comes due.
NeverDue(c) == {}

\* Held positions whose entity owes nothing any more.
Due(c) == {n \in holds[c] : PendingOn(c, feed[n].id) = {}}

Open(c, legs) ==
    LET due == IF legs = "both" THEN Due(c) ELSE {}
        p == [NoPass EXCEPT !.head = IF legs = "both" THEN Len(feed) ELSE 0]
    IN
    /\ At(c, "idle") /\ legs \in Legs
    /\ holds' = [holds EXCEPT ![c] = @ \ due]
    /\ \/ due = {} /\ Iterate(c, p, cursor[c])
       \/ /\ due # {}
          /\ pass' = [pass EXCEPT ![c] =
                        [p EXCEPT !.step = "rewind", !.upto = Min(due) - 1]]
    /\ UNCHANGED <<hub, local, outbox, state, binding, cursor, applied, bounds>>

\* The holds are gone before the cursor is saved: two statements.
Rewind(c) ==
    LET back == Min({cursor[c], pass[c].upto}) IN
    /\ At(c, "rewind")
    /\ cursor' = [cursor EXCEPT ![c] = back]
    /\ Iterate(c, pass[c], back)
    /\ UNCHANGED <<hub, local, outbox, state, binding, holds, applied, bounds>>

--------------------------------------------------------------------------------
\* Pulling one page.

\* The page ends at the feed's head as the hub answers.
Page(c) ==
    /\ At(c, "page")
    /\ pass' = [pass EXCEPT ![c].step = "pull", ![c].upto = Len(feed)]
    /\ UNCHANGED <<hub, store, bounds>>

Position(c) == cursor[c] + 1
Entry(c) == feed[Position(c)]

\* The cursor is saved past the entry: the next one, or the page is done.
PastEntry(c) ==
    /\ cursor' = [cursor EXCEPT ![c] = Position(c)]
    /\ IF Position(c) < pass[c].upto THEN Goto(c, "pull")
       ELSE pass' = [pass EXCEPT ![c].step = "push", ![c].upto = 0]

\* Mutant: an older entry is not recognised as such.
NotSuperseded(c) == FALSE

\* No newer than what the key last applied or had accepted for the entity.
Superseded(c) == Position(c) <= binding[c][Entry(c).id].sequence

SameBytes(o, e) ==
    IF e.op = "tombstone" THEN o.op = "tombstone"
    ELSE o.op # "tombstone" /\ o.val = e.val

\* Mutant: every pending operation of the entity, the newer ones included.
AllUpstream(c) ==
    LET owed == PendingOn(c, Entry(c).id)
    IN IF \E k \in owed : SameBytes(outbox[c][k], Entry(c))
       THEN OidsAt(c, owed) ELSE {}

\* The oldest pending operation with these bytes, and every one before it.
AlreadyUpstream(c) ==
    LET owed == PendingOn(c, Entry(c).id)
        same == {k \in owed : SameBytes(outbox[c][k], Entry(c))}
    IN IF same = {} THEN {} ELSE OidsAt(c, {k \in owed : k <= Min(same)})

Settle(oids) == state' = [o \in Oids |-> IF o \in oids THEN "accepted" ELSE state[o]]

ResolveOwn(c) ==
    /\ At(c, "pull") /\ Entry(c).oid \in Own(c)
    /\ Settle({Entry(c).oid}) /\ Goto(c, "bind")
    /\ UNCHANGED <<hub, local, outbox, binding, cursor, holds, applied, bounds>>

Foreign(c) == At(c, "pull") /\ Entry(c).oid \notin Own(c)

ResolveSuperseded(c) ==
    /\ Foreign(c) /\ Superseded(c)
    /\ PastEntry(c)
    /\ UNCHANGED <<hub, local, outbox, state, binding, holds, applied, bounds>>

ResolveUpstream(c) ==
    /\ Foreign(c) /\ ~Superseded(c) /\ AlreadyUpstream(c) # {}
    /\ Settle(AlreadyUpstream(c)) /\ Goto(c, "bind")
    /\ UNCHANGED <<hub, local, outbox, binding, cursor, holds, applied, bounds>>

\* Mutant: the entry is passed without a hold.
ResolvePendingUnheld(c) ==
    /\ Foreign(c) /\ ~Superseded(c) /\ AlreadyUpstream(c) = {}
    /\ PendingOn(c, Entry(c).id) # {}
    /\ PastEntry(c)
    /\ UNCHANGED <<hub, local, outbox, state, binding, holds, applied, bounds>>

ResolvePending(c) ==
    /\ Foreign(c) /\ ~Superseded(c) /\ AlreadyUpstream(c) = {}
    /\ PendingOn(c, Entry(c).id) # {}
    /\ holds' = [holds EXCEPT ![c] = @ \cup {Position(c)}]
    /\ Goto(c, "advance")
    /\ UNCHANGED <<hub, local, outbox, state, binding, cursor, applied, bounds>>

ResolveApply(c) ==
    /\ Foreign(c) /\ ~Superseded(c)
    /\ PendingOn(c, Entry(c).id) = {}
    /\ Goto(c, "apply")
    /\ UNCHANGED <<hub, store, bounds>>

\* The entry is written here whatever the memory holds by now; one this engine
\* has a receipt for is a duplicate.
Apply(c) ==
    LET e == Entry(c) IN
    /\ At(c, "apply")
    /\ \/ e.oid \in applied[c] /\ UNCHANGED <<local, applied>>
       \/ /\ e.oid \notin applied[c]
          /\ applied' = [applied EXCEPT ![c] = @ \cup {e.oid}]
          /\ local' = [local EXCEPT ![c][e.id] =
                IF e.op # "tombstone" THEN Live(e.val)
                ELSE IF @.state = "absent" THEN @
                ELSE [@ EXCEPT !.state = "deleted"]]
    /\ Goto(c, "bind")
    /\ UNCHANGED <<hub, outbox, state, binding, cursor, holds, bounds>>

\* The apply fails: the pull stalls before the entry until the next pass.
Stall(c) ==
    /\ At(c, "apply") /\ Fault("stalled")
    /\ pass' = [pass EXCEPT ![c].step = "push", ![c].head = 0]
    /\ UNCHANGED <<hub, store, minted>>

Bind(c) ==
    /\ At(c, "bind")
    /\ binding' = [binding EXCEPT ![c][Entry(c).id] =
            [sequence |-> Position(c), deleted |-> Entry(c).op = "tombstone"]]
    /\ Goto(c, "advance")
    /\ UNCHANGED <<hub, local, outbox, state, cursor, holds, applied, bounds>>

Advance(c) ==
    /\ At(c, "advance")
    /\ PastEntry(c)
    /\ UNCHANGED <<hub, local, outbox, state, binding, holds, applied, bounds>>

--------------------------------------------------------------------------------
\* Pushing one batch.

\* Mutant: a restore goes out whether or not its deletion is known.
NotWaiting(c, k) == FALSE

\* A restore waits for the deletion it names: while its own client still owes
\* the tombstone, or as long as none is known upstream.
Waiting(c, k) ==
    LET o == outbox[c][k] IN
    /\ o.op = "restore" /\ o.seen = 0
    /\ \/ \E j \in PendingOn(c, o.id) : j < k /\ outbox[c][j].op = "tombstone"
       \/ ~binding[c][o.id].deleted

\* Rows with no hold: neither waiting nor behind a held row of their entity.
Eligible(c) ==
    {k \in Pending(c) : \A j \in PendingOn(c, outbox[c][k].id) : j <= k => ~Waiting(c, j)}

\* A restore carries the position of the deletion this key last knew of, and
\* keeps it for every resend.
Prepared(c, o) ==
    IF o.op = "restore" /\ o.seen = 0
    THEN [o EXCEPT !.seen = IF binding[c][o.id].deleted
                            THEN binding[c][o.id].sequence ELSE 0]
    ELSE o

\* The oldest of them, as many as one request carries.
Batch(c) == {k \in Eligible(c) : Cardinality({j \in Eligible(c) : j <= k}) <= MaxBatch}

Send(c) ==
    /\ At(c, "push") /\ Eligible(c) # {}
    /\ outbox' = [outbox EXCEPT ![c] = [k \in DOMAIN @ |->
            IF k \in Batch(c) THEN Prepared(c, @[k]) ELSE @[k]]]
    /\ pass' = [pass EXCEPT ![c].step = "sent", ![c].wire = Batch(c), ![c].done = 0]
    /\ UNCHANGED <<hub, local, state, binding, cursor, holds, applied, bounds>>

\* Nothing to send: the pass has caught up, or its pull stalled.
PassDone(c) ==
    /\ At(c, "push") /\ Eligible(c) = {}
    /\ pass' = [pass EXCEPT ![c] = NoPass]
    /\ UNCHANGED <<hub, store, bounds>>

Serving(c) == At(c, "sent") /\ pass[c].done > 0

\* Acceptance orders edits: a write that never saw the deletion revives
\* nothing, and a restore names the deletion it observed.
Stale(o) ==
    \/ o.op = "upsert" /\ HubDeleted(o.id)
    \/ o.op = "restore" /\ ~IsDeletion(o.seen, o.id)

\* The next row of the request, in order; done is the last one dealt with.
Rest(c) == {k \in pass[c].wire : k > pass[c].done}
Turn(c) == Min(Rest(c))
Asked(c) == outbox[c][Turn(c)]

\* One more operation of the request answered.
Answered(c) ==
    pass' = [pass EXCEPT ![c] =
        IF Rest(c) # {Turn(c)} THEN [@ EXCEPT !.done = Turn(c)]
        ELSE [@ EXCEPT !.step = "answered", !.done = 0]]

\* Mutant: a resent operation is decided again.
ImportAgain(c) ==
    LET o == Asked(c) IN
    /\ At(c, "sent") /\ \A d \in Clients \ {c} : ~Serving(d)
    /\ \/ /\ Stale(o)
          /\ receipt' = [receipt EXCEPT ![o.oid].disposition = "rejected_stale"]
          /\ UNCHANGED feed
       \/ /\ ~Stale(o)
          /\ feed' = Append(feed, EntryOf(o))
          /\ receipt' = [receipt EXCEPT ![o.oid] =
                  [disposition |-> "accepted", sequence |-> Len(feed) + 1]]
    /\ Answered(c)
    /\ UNCHANGED <<store, bounds>>

\* The hub answers the next operation of a request, one request at a time and
\* each operation in a transaction of its own: from its receipt, or by
\* deciding it, which appends it to the feed unless it is stale.
Import(c) ==
    LET o == Asked(c) IN
    /\ At(c, "sent") /\ \A d \in Clients \ {c} : ~Serving(d)
    /\ \/ receipt[o.oid].disposition # "none" /\ UNCHANGED hub
       \/ /\ receipt[o.oid].disposition = "none" /\ Stale(o)
          /\ receipt' = [receipt EXCEPT ![o.oid].disposition = "rejected_stale"]
          /\ UNCHANGED feed
       \/ /\ receipt[o.oid].disposition = "none" /\ ~Stale(o)
          /\ feed' = Append(feed, EntryOf(o))
          /\ receipt' = [receipt EXCEPT ![o.oid] =
                  [disposition |-> "accepted", sequence |-> Len(feed) + 1]]
    /\ Answered(c)
    /\ UNCHANGED <<store, bounds>>

\* The request, the hub working on it, or its answer is lost: the request is
\* sent again, or the pass ends on the network.
LoseAnswer(c) ==
    /\ At(c, "sent") \/ (At(c, "answered") /\ pass[c].done = 0)
    /\ Fault("lost")
    /\ \/ pass' = [pass EXCEPT ![c].step = "sent", ![c].done = 0]
       \/ pass' = [pass EXCEPT ![c] = NoPass]
    /\ UNCHANGED <<hub, store, minted>>

\* One more answer recorded; after the last, another iteration or, the budget
\* spent, the end of the pass.
Recorded(c) ==
    \/ /\ Rest(c) # {Turn(c)}
       /\ pass' = [pass EXCEPT ![c].step = "answered", ![c].done = Turn(c)]
    \/ /\ Rest(c) = {Turn(c)}
       /\ (Iterate(c, pass[c], cursor[c]) \/ pass' = [pass EXCEPT ![c] = NoPass])

\* Each answer goes to its outbox row, and an acceptance to the binding.
Record(c) ==
    LET o == Asked(c) IN
    /\ At(c, "answered")
    /\ \/ /\ receipt[o.oid].disposition = "accepted"
          /\ Settle({o.oid}) /\ Goto(c, "settled")
       \/ /\ receipt[o.oid].disposition = "rejected_stale"
          /\ state' = [state EXCEPT ![o.oid] = "rejected"]
          /\ Recorded(c)
    /\ UNCHANGED <<hub, local, outbox, binding, cursor, holds, applied, bounds>>

RecordBinding(c) ==
    LET o == Asked(c) IN
    /\ At(c, "settled")
    /\ binding' = [binding EXCEPT ![c][o.id] =
            [sequence |-> receipt[o.oid].sequence, deleted |-> o.op = "tombstone"]]
    /\ Recorded(c)
    /\ UNCHANGED <<hub, local, outbox, state, cursor, holds, applied, bounds>>

--------------------------------------------------------------------------------
\* The pass is killed between two of its statements.
Crash(c) ==
    /\ ~At(c, "idle") /\ Fault("killed")
    /\ pass' = [pass EXCEPT ![c] = NoPass]
    /\ UNCHANGED <<hub, store, minted>>

Init ==
    /\ feed = <<>>
    /\ receipt = [o \in Oids |-> NoReceipt]
    /\ local = [c \in Clients |-> [i \in Ids |-> Absent]]
    /\ outbox = [c \in Clients |-> <<>>]
    /\ state = [o \in Oids |-> "none"]
    /\ binding = [c \in Clients |-> [i \in Ids |-> NoBinding]]
    /\ cursor = [c \in Clients |-> 0]
    /\ holds = [c \in Clients |-> {}]
    /\ applied = [c \in Clients |-> {}]
    /\ pass = [c \in Clients |-> NoPass]
    /\ minted = 0 /\ faults = <<>>

Proceed(c) ==
    \/ Rewind(c) \/ Page(c)
    \/ ResolveOwn(c) \/ ResolveSuperseded(c) \/ ResolveUpstream(c)
    \/ ResolvePending(c) \/ ResolveApply(c)
    \/ Apply(c) \/ Bind(c) \/ Advance(c)
    \/ Send(c) \/ PassDone(c) \/ Import(c) \/ Record(c) \/ RecordBinding(c)

Next ==
    \E c \in Clients :
        \/ Command(c) \/ Proceed(c)
        \/ \E legs \in Legs : Open(c, legs)
        \/ Stall(c) \/ LoseAnswer(c) \/ Crash(c)

Spec == Init /\ [][Next]_vars

\* The daemon's tick opens pass after pass, and a pass that runs goes on.
Fairness == \A c \in Clients : WF_vars(Proceed(c)) /\ WF_vars(Open(c, "both"))

--------------------------------------------------------------------------------
TypeOK ==
    /\ feed \in Seq(Entries) /\ receipt \in [Oids -> Receipts]
    /\ local \in [Clients -> [Ids -> Memories]]
    /\ outbox \in [Clients -> Seq(Operations)]
    /\ state \in [Oids -> {"none", "pending", "accepted", "rejected"}]
    /\ binding \in [Clients -> [Ids -> Bindings]]
    /\ cursor \in [Clients -> Positions]
    /\ holds \in [Clients -> SUBSET Positions]
    /\ applied \in [Clients -> SUBSET Oids]
    /\ pass \in [Clients -> Passes]
    /\ minted \in Positions /\ faults \in Seq(Faults)

\* The hub implements the abstract log: however often an operation is resent
\* it gets one position, and no write revives a deleted memory.
Log == INSTANCE ReplicaLog WITH log <- feed
ImplementsLog == Log!Spec

\* No change is dropped on the way: an operation a client made is still owed,
\* or the hub holds its bytes or those of a later change it had made to the
\* same memory, or the hub refused it.
NoOperationLost ==
    \A c \in Clients : \A k \in Rows(c) :
        LET o == outbox[c][k] IN
        \/ state[o.oid] = "pending"
        \/ state[o.oid] = "rejected" /\ receipt[o.oid].disposition = "rejected_stale"
        \/ /\ state[o.oid] = "accepted"
           /\ \E j \in k .. Len(outbox[c]), n \in 1 .. Len(feed) :
                 /\ outbox[c][j].id = o.id /\ feed[n].id = o.id
                 /\ state[outbox[c][j].oid] = "accepted"
                 /\ SameBytes(outbox[c][j], feed[n])

\* A restore on the wire names a position at which the hub deleted that memory.
RestoreNamesDeletion ==
    \A c \in Clients : \A k \in pass[c].wire :
        LET o == outbox[c][k] IN
        o.op = "restore" =>
            /\ o.seen \in 1 .. Len(feed)
            /\ feed[o.seen].id = o.id /\ feed[o.seen].op = "tombstone"

\* The cursor names contiguous handling (pull.rs): between passes, every position
\* at or below it was this client's own, applied, held, or superseded by the
\* entity's binding.
CursorIsContiguous ==
    \A c \in Clients : At(c, "idle") =>
        \A n \in 1 .. cursor[c] :
            \/ feed[n].oid \in Own(c) \cup applied[c]
            \/ n \in holds[c]
            \/ n <= binding[c][feed[n].id].sequence

\* Everything owed has been answered and everything in the feed dealt with.
Settled ==
    \A c \in Clients : Pending(c) = {} /\ holds[c] = {} /\ cursor[c] = Len(feed)

\* What a client holds of memory i is what the hub holds.
Agrees(c, i) ==
    IF \E n \in 1 .. Len(feed) : IsRevision(n, i) /\ ~IsDeletion(n, i)
    THEN \E n \in 1 .. Len(feed) : IsRevision(n, i) /\ local[c][i] = Live(feed[n].val)
    ELSE local[c][i].state # "live"

\* The exchange settles once nobody writes any more.
Settles == <>[]Settled

\* Client c knows of an entry about memory i above position n: it applied it, or
\* was told that its own operation was accepted there.
KnowsNewer(c, i, n) ==
    \E m \in n + 1 .. Len(feed) :
        /\ feed[m].id = i
        /\ \/ feed[m].oid \in applied[c]
           \/ feed[m].oid \in Own(c) /\ state[feed[m].oid] = "accepted"

\* A step in which the pull of client c writes memory i.
Pulls(c, i) == At(c, "apply") /\ At(c, "bind")' /\ local'[c][i] # local[c][i]

\* pull_rules.rs says that an entry no newer than what a client last applied or
\* had accepted for its entity is skipped before any apply: no entry is applied
\* to a memory that the client knows something newer of.
NothingOlderApplied ==
    [][\A c \in Clients, i \in Ids : Pulls(c, i) => ~KnowsNewer(c, i, Position(c))]_vars

\* cloud-sync.md says that a peer's version is never applied over an edit that
\* is still to be pushed: a pull writes no memory that owes an operation.
UnpushedNotOverwritten ==
    [][\A c \in Clients, i \in Ids : Pulls(c, i) => PendingOn(c, i) = {}]_vars
================================================================================
