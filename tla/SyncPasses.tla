---------------------------- MODULE SyncPasses ----------------------------
(* Who keeps the code index at the HEAD of the hooked checkouts.  A commit
   fires a git hook; the hook either runs an unattended pass in its own process
   (run_auto) or wakes the resident coordinator, whose worker takes everything
   that waits as one pass.  Passes exclude each other on sync.lock, a trigger
   that a later pass would sweep coalesces on the one slot sync-auto.queue,
   and a pass indexes the checkouts it was handed and then every other hooked
   repository whose HEAD is not the one last recorded.

   One index run is two steps: the walk of the working tree inside the write
   transaction, and its end, where HEAD is read again and recorded.  Anybody
   may run index-code by hand, without sync.lock.  HEADs are numbers that
   grow; the network leg of a pass is modelled in ReplicaExchange. *)
EXTENDS Naturals, Sequences, FiniteSets, SequencesExt

CONSTANTS
    NoOne, Worker, ByHand, \* nobody; the coordinator's worker; an index-code run by hand
    Checkouts,     \* working trees with comemory's hooks
    Covered,       \* those that are their label's recorded main working tree
    Triggers,      \* hook processes that run a pass themselves
    Calls,         \* clients waiting for a catch-up
    MaxHead,       \* bound: commits in a checkout
    MaxTicks, MaxFaults, MaxByHand \* bounds: ticker wakes; failures, kills and stops; runs by hand

ASSUME PassesAssumption ==
    /\ Covered \subseteq Checkouts
    /\ NoOne \notin Checkouts \cup Triggers \cup {Worker, ByHand}
    /\ Worker \notin Triggers /\ ByHand \notin Triggers /\ Worker # ByHand
    /\ MaxHead \in Nat /\ MaxTicks \in Nat /\ MaxFaults \in Nat /\ MaxByHand \in Nat

VARIABLES
    head,       \* HEAD of each checkout
    shown,      \* the HEAD whose files the symbol rows of a checkout mirror
    marker,     \* repo_marker.last_head
    lock, slot, \* who holds sync.lock and sync-auto.queue
    run,        \* what each actor is doing
    queue,    \* the coordinator's queue
    calls,      \* the catch-up requests
    owed,       \* the latest HEAD a hook reported, for each checkout
    excused,    \* checkouts whose trigger a fault took along
    ticks, faults, byHand \* how much of the bounds is used up

trees == <<head, shown, marker>>
locks == <<lock, slot>>
bounds == <<ticks, faults, byHand>>
passVars == <<trees, locks, run, queue, calls, owed, excused, bounds>>

Actors == Triggers \cup {Worker, ByHand}

\* own: checkouts still to index unconditionally; sweep: repositories still to
\* compare with their marker; walked: what the present walk saw.
Run == [phase : {"idle", "fired", "waiting", "entered", "taken", "pass", "walk", "ended", "coalesced"},
        own : Seq(Checkouts), sweep : SUBSET Covered, walked : Nat, serves : SUBSET Calls]
AtRest == [phase |-> "idle", own |-> <<>>, sweep |-> {}, walked |-> 0, serves |-> {}]

Queue == [trigger : BOOLEAN, checkouts : Seq(Checkouts), waiters : SUBSET Calls, stopping : BOOLEAN]
Nothing == [trigger |-> FALSE, checkouts |-> <<>>, waiters |-> {}, stopping |-> FALSE]

(****************************** the index run *****************************)

\* The working tree is walked inside a write transaction, one at a time.
Walking == {a \in Actors : run[a].phase = "walk"}
WalkBegin(a) ==
    /\ run[a].phase = "pass" /\ run[a].own # <<>>
    /\ Walking = {}
    /\ run' = [run EXCEPT ![a].phase = "walk", ![a].walked = head[run[a].own[1]]]
    /\ UNCHANGED <<trees, locks, queue, calls, owed, excused, bounds>>

\* The walk's rows and the HEAD found after it are committed together.
WalkEnd(a) ==
    /\ run[a].phase = "walk"
    /\ LET c == run[a].own[1] IN
         /\ shown' = [shown EXCEPT ![c] = run[a].walked]
         /\ marker' = [marker EXCEPT ![c] = head[c]]
    /\ run' = [run EXCEPT ![a].phase = "pass", ![a].own = Tail(@)]
    /\ UNCHANGED <<head, locks, queue, calls, owed, excused, bounds>>

\* A failed run rolls back, is counted in the stats, and the pass goes on.
WalkFail(a) ==
    /\ run[a].phase = "walk" /\ faults < MaxFaults
    /\ run' = [run EXCEPT ![a].phase = "pass", ![a].own = Tail(@)]
    /\ excused' = excused \cup {run[a].own[1]}
    /\ faults' = faults + 1
    /\ UNCHANGED <<trees, locks, queue, calls, owed, ticks, byHand>>

IndexByHand(c) ==
    /\ run[ByHand].phase \in {"idle", "pass"} /\ run[ByHand].own = <<>>
    /\ byHand < MaxByHand
    /\ run' = [run EXCEPT ![ByHand] = [AtRest EXCEPT !.phase = "pass", !.own = <<c>>]]
    /\ byHand' = byHand + 1
    /\ UNCHANGED <<trees, locks, queue, calls, owed, excused, ticks, faults>>

(******************************** the pass ********************************)

\* refresh_stale, one repository: one whose HEAD is the recorded one is passed
\* over, any other is indexed.
Sweep(a) ==
    /\ run[a].phase = "pass" /\ run[a].own = <<>>
    /\ \E c \in run[a].sweep :
         run' = [run EXCEPT ![a].sweep = @ \ {c},
                            ![a].own = IF marker[c] = head[c] THEN <<>> ELSE <<c>>]
    /\ UNCHANGED <<trees, locks, queue, calls, owed, excused, bounds>>

\* What a pass is handed: the extra checkouts first, the first one last, then
\* every covered repository but the first.
Order(own) == IF own = <<>> THEN <<>> ELSE Append(Tail(own), own[1])
\* mutant: every hooked checkout is swept, whether its label's own or not
BegunWithAll(r) == [r EXCEPT !.phase = "pass", !.own = Order(@), !.sweep = Checkouts]
Begun(r) == [r EXCEPT !.phase = "pass", !.own = Order(@),
                      !.sweep = Covered \ (IF r.own = <<>> THEN {} ELSE {r.own[1]})]

Done(a) == run[a].phase = "pass" /\ run[a].own = <<>> /\ run[a].sweep = {}

(************************** a pass in the hook itself *********************)

\* A commit, and the hook process it starts; or a session that starts an agent
\* hook, which names no checkout.
Fire(t, c) ==
    /\ run[t].phase = "idle" /\ head[c] < MaxHead
    /\ head' = [head EXCEPT ![c] = @ + 1]
    /\ owed' = [owed EXCEPT ![c] = head[c] + 1]
    /\ run' = [run EXCEPT ![t].phase = "fired", ![t].own = <<c>>]
    /\ UNCHANGED <<shown, marker, locks, queue, calls, excused, bounds>>

FireAgent(t) ==
    /\ run[t].phase = "idle"
    /\ run' = [run EXCEPT ![t].phase = "fired"]
    /\ UNCHANGED <<trees, locks, queue, calls, owed, excused, bounds>>

\* Whether a later pass would sweep the checkout on its own.
SweptByALaterPass(own) == own = <<>> \/ own[1] \in Covered

\* The slot is tried, never awaited.
Enqueue(t) ==
    /\ run[t].phase = "fired"
    /\ IF ~SweptByALaterPass(run[t].own)
         THEN run' = [run EXCEPT ![t].phase = "waiting"] /\ UNCHANGED slot
         ELSE IF slot = NoOne
                THEN run' = [run EXCEPT ![t].phase = "waiting"] /\ slot' = t
                ELSE run' = [run EXCEPT ![t] = [AtRest EXCEPT !.phase = "coalesced"]] /\ UNCHANGED slot
    /\ UNCHANGED <<trees, lock, queue, calls, owed, excused, bounds>>

Enter(t) ==
    /\ run[t].phase = "waiting" /\ lock = NoOne
    /\ lock' = t
    /\ run' = [run EXCEPT ![t].phase = "entered"]
    /\ UNCHANGED <<trees, slot, queue, calls, owed, excused, bounds>>

\* mutant: the slot is kept until the pass ends
KeepSlot(t) ==
    /\ run[t].phase = "entered"
    /\ run' = [run EXCEPT ![t] = Begun(@)]
    /\ UNCHANGED <<trees, locks, queue, calls, owed, excused, bounds>>

\* The slot is given up before the pass reads any HEAD.
DropSlot(t) ==
    /\ run[t].phase = "entered"
    /\ slot' = IF slot = t THEN NoOne ELSE slot
    /\ run' = [run EXCEPT ![t] = Begun(@)]
    /\ UNCHANGED <<trees, lock, queue, calls, owed, excused, bounds>>

PassEnds(t) ==
    /\ t \in Triggers /\ Done(t)
    /\ run' = [run EXCEPT ![t] = [AtRest EXCEPT !.phase = "ended"]]
    /\ lock' = NoOne
    /\ slot' = IF slot = t THEN NoOne ELSE slot
    /\ UNCHANGED <<trees, queue, calls, owed, excused, bounds>>

\* What a lost run had taken upon itself: the checkouts it was to index and,
\* if it was to sweep, those it had not reached.
Taken(r) == ToSet(r.own) \cup
            (IF r.phase \in {"waiting", "entered", "taken"} THEN Covered ELSE r.sweep)

\* The process is killed, or a store read ends its pass: both locks drop and an
\* open transaction is rolled back.
Killed(t) ==
    /\ run[t].phase \in {"fired", "waiting", "entered", "pass", "walk"}
    /\ faults < MaxFaults
    /\ run' = [run EXCEPT ![t] = [AtRest EXCEPT !.phase = "ended"]]
    /\ lock' = IF lock = t THEN NoOne ELSE lock
    /\ slot' = IF slot = t THEN NoOne ELSE slot
    /\ excused' = excused \cup Taken(run[t])
    /\ faults' = faults + 1
    /\ UNCHANGED <<trees, queue, calls, owed, ticks, byHand>>

(***************************** the coordinator ****************************)

\* A commit whose hook wakes the coordinator.
Wake(c) ==
    /\ head[c] < MaxHead
    /\ head' = [head EXCEPT ![c] = @ + 1]
    /\ owed' = [owed EXCEPT ![c] = head[c] + 1]
    /\ queue' = [queue EXCEPT !.trigger = TRUE,
                                  !.checkouts = IF c \in ToSet(@) THEN @ ELSE Append(@, c)]
    /\ excused' = IF queue.stopping THEN excused \cup {c} ELSE excused
    /\ UNCHANGED <<shown, marker, locks, run, calls, bounds>>

Tick ==
    /\ ticks < MaxTicks
    /\ queue' = [queue EXCEPT !.trigger = TRUE]
    /\ ticks' = ticks + 1
    /\ UNCHANGED <<trees, locks, run, calls, owed, excused, faults, byHand>>

\* The heads a caller may rely on once it is answered are those of now.
CatchUp(k) ==
    /\ calls[k].phase = "idle"
    /\ queue' = [queue EXCEPT !.trigger = TRUE, !.waiters = @ \cup {k}]
    /\ calls' = [calls EXCEPT ![k] = [phase |-> "asked", heads |-> head]]
    /\ UNCHANGED <<trees, locks, run, owed, excused, bounds>>

\* The worker takes all that waits, at once.
Take ==
    /\ run[Worker].phase = "idle"
    /\ queue.trigger /\ ~queue.stopping
    /\ run' = [run EXCEPT ![Worker] = [AtRest EXCEPT !.phase = "taken", !.own = queue.checkouts,
                                                   !.serves = queue.waiters]]
    /\ queue' = Nothing
    /\ UNCHANGED <<trees, locks, calls, owed, excused, bounds>>

WorkerEnters ==
    /\ run[Worker].phase = "taken" /\ lock = NoOne
    /\ lock' = Worker
    /\ run' = [run EXCEPT ![Worker] = Begun(@)]
    /\ UNCHANGED <<trees, slot, queue, calls, owed, excused, bounds>>

Replied(ks, how) == [k \in Calls |-> IF k \in ks THEN [calls[k] EXCEPT !.phase = how] ELSE calls[k]]

\* mutant: the callers of the queue are answered by the pass that ends
WorkerAnswersAll ==
    /\ Done(Worker)
    /\ run' = [run EXCEPT ![Worker] = AtRest]
    /\ lock' = NoOne
    /\ calls' = Replied(run[Worker].serves \cup queue.waiters, "answered")
    /\ queue' = [queue EXCEPT !.waiters = {}]
    /\ UNCHANGED <<trees, slot, owed, excused, bounds>>

\* mutant: the lock goes back only when a caller was answered
WorkerKeepsLock ==
    /\ Done(Worker)
    /\ run' = [run EXCEPT ![Worker] = AtRest]
    /\ lock' = IF run[Worker].serves = {} THEN lock ELSE NoOne
    /\ calls' = Replied(run[Worker].serves, "answered")
    /\ UNCHANGED <<trees, slot, queue, owed, excused, bounds>>

WorkerEnds ==
    /\ Done(Worker)
    /\ run' = [run EXCEPT ![Worker] = AtRest]
    /\ lock' = NoOne
    /\ calls' = Replied(run[Worker].serves, "answered")
    /\ UNCHANGED <<trees, slot, queue, owed, excused, bounds>>

\* A store that is not ready, or one that cannot be read, ends the pass; the
\* summary that answers the callers says so.
WorkerFails ==
    /\ run[Worker].phase \in {"pass", "walk"} /\ faults < MaxFaults
    /\ run' = [run EXCEPT ![Worker] = AtRest]
    /\ lock' = NoOne
    /\ calls' = Replied(run[Worker].serves, "failed")
    /\ excused' = excused \cup Taken(run[Worker])
    /\ faults' = faults + 1
    /\ UNCHANGED <<trees, slot, queue, owed, ticks, byHand>>

\* A stop drops what waits and lets the pass that runs end.
Stop ==
    /\ ~queue.stopping /\ faults < MaxFaults
    /\ queue' = [queue EXCEPT !.stopping = TRUE]
    /\ excused' = excused \cup ToSet(queue.checkouts)
    /\ faults' = faults + 1
    /\ UNCHANGED <<trees, locks, run, calls, owed, ticks, byHand>>

\* The process ends - after its pass, after the grace period in the midst of
\* it, or killed - and a new coordinator starts with a tick. Its callers lose
\* the connection.
Restart ==
    /\ queue.stopping
    /\ run' = [run EXCEPT ![Worker] = AtRest]
    /\ lock' = IF lock = Worker THEN NoOne ELSE lock
    /\ calls' = Replied(run[Worker].serves \cup queue.waiters, "failed")
    /\ excused' = excused \cup ToSet(queue.checkouts) \cup Taken(run[Worker])
    /\ queue' = [Nothing EXCEPT !.trigger = TRUE]
    /\ UNCHANGED <<trees, slot, owed, bounds>>

(****************************** specification *****************************)

PassesInit ==
    /\ head = [c \in Checkouts |-> 0]
    /\ shown = head /\ marker = head /\ owed = head
    /\ lock = NoOne /\ slot = NoOne
    /\ run = [a \in Actors |-> AtRest]
    /\ queue = Nothing
    /\ calls = [k \in Calls |-> [phase |-> "idle", heads |-> head]]
    /\ excused = {}
    /\ ticks = 0 /\ faults = 0 /\ byHand = 0

Indexes(a) == WalkBegin(a) \/ WalkEnd(a) \/ Sweep(a)
Hooked(t) == Enqueue(t) \/ Enter(t) \/ DropSlot(t) \/ Indexes(t) \/ PassEnds(t)
Works == Take \/ WorkerEnters \/ Indexes(Worker) \/ WorkerEnds

PassesNext ==
    \/ \E t \in Triggers : FireAgent(t) \/ Hooked(t) \/ Killed(t) \/ \E c \in Checkouts : Fire(t, c)
    \/ \E c \in Checkouts : Wake(c) \/ IndexByHand(c)
    \/ \E a \in Actors : WalkFail(a)
    \/ Tick
    \/ \E k \in Calls : CatchUp(k)
    \/ Works
    \/ Indexes(ByHand)
    \/ WorkerFails \/ Stop \/ Restart

PassesSpec == PassesInit /\ [][PassesNext]_passVars

(******************************* properties *******************************)

PassesTypeOK ==
    /\ head \in [Checkouts -> Nat] /\ shown \in [Checkouts -> Nat] /\ marker \in [Checkouts -> Nat]
    /\ lock \in Actors \cup {NoOne} /\ slot \in Triggers \cup {NoOne}
    /\ run \in [Actors -> Run]
    /\ queue \in Queue
    /\ calls \in [Calls -> [phase : {"idle", "asked", "answered", "failed"},
                            heads : [Checkouts -> Nat]]]
    /\ owed \in [Checkouts -> Nat] /\ excused \subseteq Checkouts

\* Someone still has to look at c: it is queued or named, or a pass that has
\* not compared its HEAD yet will.
OnTheWay(c) ==
    \/ c \in ToSet(queue.checkouts)
    \/ \E a \in Actors : LET r == run[a] IN
         \/ r.phase = "walk" /\ r.own[1] = c /\ r.walked >= owed[c]
         \/ c \in ToSet(IF r.phase = "walk" THEN Tail(r.own) ELSE r.own)
         \/ c \in r.sweep
    \/ c \in Covered /\ slot # NoOne /\ run[slot].phase \in {"waiting", "entered"}

\* A HEAD a hook reported is mirrored or someone still has to look at it: no
\* interleaving of hooks, slot, lock, wakes and passes forgets a trigger. Two
\* things are excepted, each by name: a fault that took the trigger along, and
\* a marker that went past the rows because HEAD moved while they were read.
NoTriggerIsForgotten ==
    \A c \in Checkouts :
        shown[c] >= owed[c] \/ OnTheWay(c) \/ c \in excused \/ marker[c] > shown[c]

\* The same without the second exception: "a pass was already queued behind
\* the running one and will do this trigger's work" (auto.rs:57-60).
CoalescedIsServed ==
    \A c \in Checkouts : shown[c] >= owed[c] \/ OnTheWay(c) \/ c \in excused

\* A catch-up is answered by a pass that began after it was asked: every
\* covered checkout is mirrored at least as it was then, or marked so.
CatchUpIsFresh ==
    \A k \in Calls : calls[k].phase = "answered" =>
        \A c \in Covered \ excused : shown[c] >= calls[k].heads[c] \/ marker[c] > shown[c]

\* Of the hooks and the worker, the one whose pass is under way holds sync.lock:
\* two never overlap (worker.rs:3), and none leaves the lock behind, however it
\* ends. Runs by hand take no lock, and yet one walk at a time is in the store.
OnePassAtATime ==
    /\ \A a \in Actors \ {ByHand} : lock = a <=> run[a].phase \in {"entered", "pass", "walk"}
    /\ lock # ByHand
    /\ \A a, b \in Walking : a = b

\* Every hook process ends and every caller is answered: the locks are handed
\* on and no pass waits for itself.
EveryTriggerEnds ==
    /\ \A t \in Triggers : run[t].phase = "fired" ~> run[t].phase \in {"ended", "coalesced"}
    /\ \A k \in Calls : calls[k].phase = "asked" ~> calls[k].phase \in {"answered", "failed"}

\* Processes that can go on do, and a coordinator that stops is replaced. The
\* bounds leave finitely many passes, so weak fairness hands the locks on.
PassesFairness ==
    /\ \A t \in Triggers : WF_passVars(Hooked(t))
    /\ WF_passVars(Works)
    /\ WF_passVars(Indexes(ByHand))
    /\ WF_passVars(Restart)
=============================================================================
