---------------------------- MODULE CodeGenerations ----------------------------
(* How the code index of one repository travels: each machine plans what its
   index holds as the next generation on top of the one it has active, stages it
   and owes it as an operation; the hub accepts a generation that extends the
   one it is at and answers any other stale; and a machine makes a generation
   active when its acceptance is answered, when the pull meets its own entry,
   or when the pull applies a peer's.

   A generation's id is a digest over its parent's id and its contents, so a
   generation is the sequence of contents that lead to it.  The feed also
   carries memories: one that is held back is what a later pass rewinds for.
   A session's passes serialise on sync.lock; index-code and gc do not wait for them.
   ReplicaExchange has what an entry of any kind goes through; here the steps are
   those at which the pass, killed, leaves the generations apart. *)
EXTENDS Naturals, Sequences, FiniteSets, SequencesExt, FiniteSetsExt

CONSTANTS
    Machines,     \* machines with an approved checkout of the repository
    Contents,     \* what an index can hold: files, symbols and edges
    NoIndex,      \* never indexed
    MaxPlans,     \* bound: generations queued
    MaxIndexed,   \* bound: runs of index-code
    MaxMemories,  \* bound: entries of the feed that are memories
    MaxBreaks     \* bound: passes broken off, and sweeps

ASSUME CodeAssumption ==
    /\ NoIndex \notin Contents
    /\ MaxPlans \in Nat /\ MaxIndexed \in Nat /\ MaxMemories \in Nat /\ MaxBreaks \in Nat

VARIABLES
    index,        \* what each machine's local index holds
    active,       \* the generation a machine has active
    stagedGens,   \* its generations recorded and never active
    adopted,      \* its generations active now or before
    plans,        \* every operation queued: who planned what
    owing,        \* the operation a machine owes for the repository, or 0
    chain,        \* the hub's feed: operations, and 0 for a memory
    answer,       \* the hub's receipt of each operation
    reached,      \* a machine's cursor
    known,        \* the position its binding of the repository names
    landed,       \* operations it holds a receipt for
    heldBack,     \* positions it holds
    drain,        \* the pass a machine runs
    setBack,      \* machines that may have lost their place: they follow again from
                  \* the next generation they apply with nothing after it met before
    indexed, breaks \* how much of the bounds is used up

local == <<active, stagedGens, adopted>>
upstream == <<chain, answer>>
progress == <<reached, known, landed, heldBack>>
used == <<indexed, breaks>>
codeVars == <<index, local, plans, owing, upstream, progress, drain, setBack, used>>

NoGeneration == <<>>
Generations == Seq(Contents)
Operation == 1 .. MaxPlans

\* head: the feed's end when the session opened.  upto: the end of the page.
\* at: the position of the entry, or of the acceptance, being settled.
DrainSteps == {"idle", "capture", "rewind", "page", "pull", "push", "sent", "answered",
               "activate", "bind"}
Drain == [step : DrainSteps,
          leg : {"pull", "push"}, head : Nat, upto : Nat, at : Nat]
NoDrain == [step |-> "idle", leg |-> "pull", head |-> 0, upto |-> 0, at |-> 0]

In(m, step) == drain[m].step = step
ToStep(m, step) == drain' = [drain EXCEPT ![m].step = step]
Settling(m, step, leg, n) ==
    drain' = [drain EXCEPT ![m].step = step, ![m].leg = leg, ![m].at = n]

IsCode(n) == chain[n] # 0
GenerationAt(n) == plans[chain[n]].generation
IsOwn(m, n) == IsCode(n) /\ plans[chain[n]].by = m
Recorded(m) == stagedGens[m] \cup adopted[m]

\* The generation the hub is at: the last one it accepted.
Tip ==
    LET codes == {n \in 1 .. Len(chain) : IsCode(n)}
    IN IF codes = {} THEN NoGeneration ELSE GenerationAt(Max(codes))

(****************************** this machine ******************************)

\* index-code walks the tree into the local index, at any moment.
IndexCode(m, c) ==
    /\ indexed < MaxIndexed /\ indexed' = indexed + 1
    /\ index[m] # c /\ index' = [index EXCEPT ![m] = c]
    /\ UNCHANGED <<local, plans, owing, upstream, progress, drain, setBack, breaks>>

\* record: a generation recorded before keeps the state it has.
Stage(m, g) == stagedGens' = [stagedGens EXCEPT ![m] = @ \cup ({g} \ adopted[m])]

\* activate_following: whatever was active is superseded.
Activate(m, g) ==
    /\ active' = [active EXCEPT ![m] = g]
    /\ stagedGens' = [stagedGens EXCEPT ![m] = @ \ {g}]
    /\ adopted' = [adopted EXCEPT ![m] = @ \cup {g}]

\* mutant: a staged generation is abandoned whether or not it is owed
Unowed(m) == TRUE
NotInFlight(m) == owing[m] = 0

\* gc sweeps generations staged for more than a day.  One that the hub has
\* accepted meanwhile can no longer be activated when the pass finds out.
SweepStaged(m) ==
    /\ NotInFlight(m) /\ breaks < MaxBreaks /\ breaks' = breaks + 1
    /\ \E old \in SUBSET stagedGens[m] \ {{}} :
         /\ stagedGens' = [stagedGens EXCEPT ![m] = @ \ old]
         /\ setBack' = IF \E n \in 1 .. Len(chain) : IsOwn(m, n) /\ GenerationAt(n) \in old
                         THEN setBack \cup {m} ELSE setBack
    /\ UNCHANGED <<index, active, adopted, plans, owing, upstream, progress, drain, indexed>>

(******************************** the pass ********************************)

\* A pass in full, or the push alone that follows a save.
OpenDrain(m, leg) ==
    /\ In(m, "idle")
    /\ drain' = [drain EXCEPT ![m] =
         IF leg = "push" THEN [NoDrain EXCEPT !.step = "push"]
         ELSE [NoDrain EXCEPT !.step = "capture", !.head = Len(chain)]]
    /\ UNCHANGED <<index, local, plans, owing, upstream, progress, setBack, used>>

\* Nothing to capture: no index, one generation in flight, or the contents are
\* those of the active generation.
NothingNew(m) ==
    \/ index[m] = NoIndex
    \/ owing[m] # 0
    \/ active[m] # NoGeneration /\ Last(active[m]) = index[m]

\* The generation is recorded, journalled and queued in one transaction.
Capture(m) ==
    LET g == Append(active[m], index[m]) IN
    /\ In(m, "capture") /\ ~NothingNew(m) /\ Len(plans) < MaxPlans
    /\ plans' = Append(plans, [by |-> m, generation |-> g])
    /\ owing' = [owing EXCEPT ![m] = Len(plans')]
    /\ Stage(m, g)
    /\ ToStep(m, "rewind")
    /\ UNCHANGED <<index, active, adopted, upstream, progress, setBack, used>>

CaptureNothing(m) ==
    /\ In(m, "capture") /\ NothingNew(m)
    /\ ToStep(m, "rewind")
    /\ UNCHANGED <<index, local, plans, owing, upstream, progress, setBack, used>>

\* mutant: two below
TwoBelow(n) == n - 2
Below(n) == n - 1

\* reconsider: the cursor goes back below the first hold that is due.  Where an
\* entry of its own is read again, it is settled again, however old: set back.
Rewinds(m) ==
    /\ In(m, "rewind") /\ ToStep(m, "page")
    /\ \/ UNCHANGED <<reached, heldBack, setBack>>
       \/ \E due \in SUBSET heldBack[m] : \E first \in due :
            /\ \A n \in due : first <= n
            /\ heldBack' = [heldBack EXCEPT ![m] = @ \ due]
            /\ reached' = [reached EXCEPT ![m] = IF first <= @ THEN Below(first) ELSE @]
            /\ setBack' = IF \E n \in first .. reached[m] : IsOwn(m, n)
                            THEN setBack \cup {m} ELSE setBack
    /\ UNCHANGED <<index, local, plans, owing, upstream, known, landed, used>>

FetchPage(m) ==
    /\ In(m, "page")
    /\ drain' = [drain EXCEPT ![m] =
         IF reached[m] < @.head THEN [@ EXCEPT !.step = "pull", !.upto = Len(chain)]
         ELSE [@ EXCEPT !.step = "push"]]
    /\ UNCHANGED <<index, local, plans, owing, upstream, progress, setBack, used>>

(******************************** the pull ********************************)

Upcoming(m) == reached[m] + 1
PastIt(m) ==
    /\ reached' = [reached EXCEPT ![m] = Upcoming(m)]
    /\ ToStep(m, IF Upcoming(m) < drain[m].upto THEN "pull" ELSE "push")

\* A memory is applied, or held while this machine owes a change to it.
PullMemory(m) ==
    /\ In(m, "pull") /\ ~IsCode(Upcoming(m))
    /\ \/ UNCHANGED heldBack
       \/ heldBack' = [heldBack EXCEPT ![m] = @ \cup {Upcoming(m)}]
    /\ PastIt(m)
    /\ UNCHANGED <<index, local, plans, owing, upstream, known, landed, setBack, used>>

\* mutant: it is bound and never activated
OwnIsBound == "bind"
\* What follows when an operation of its own is settled.
OwnIsActivated == "activate"

\* Its own operation is settled, however old it is.
SettleOwn(m) ==
    /\ In(m, "pull") /\ IsOwn(m, Upcoming(m))
    /\ owing' = [owing EXCEPT ![m] = IF @ = chain[Upcoming(m)] THEN 0 ELSE @]
    /\ Settling(m, OwnIsActivated, "pull", Upcoming(m))
    /\ UNCHANGED <<index, local, plans, upstream, progress, setBack, used>>

PullForeign(m) == In(m, "pull") /\ IsCode(Upcoming(m)) /\ ~IsOwn(m, Upcoming(m))

PassSuperseded(m) ==
    /\ PullForeign(m) /\ Upcoming(m) <= known[m]
    /\ PastIt(m)
    /\ UNCHANGED <<index, local, plans, owing, upstream, known, landed, heldBack, setBack, used>>

\* What comes after the entry will be activated as it is read: nothing of it was
\* applied before, and nothing of its own was swept.
AllNewAfter(m, n) ==
    \A k \in n + 1 .. Len(chain) : IsCode(k) =>
        IF IsOwn(m, k) THEN GenerationAt(k) \in Recorded(m) ELSE chain[k] \notin landed[m]

\* A peer's generation is recorded and active in one transaction, whatever was
\* active; one that has a receipt is a duplicate, and activates nothing.
Land(m) ==
    LET n == Upcoming(m)
        g == GenerationAt(n)
    IN
    /\ PullForeign(m) /\ n > known[m]
    /\ \/ chain[n] \in landed[m] /\ UNCHANGED <<local, landed, setBack>>
       \/ /\ chain[n] \notin landed[m]
          /\ landed' = [landed EXCEPT ![m] = @ \cup {chain[n]}]
          /\ Activate(m, g)
          /\ setBack' = IF AllNewAfter(m, n) THEN setBack \ {m} ELSE setBack
    /\ Settling(m, "bind", "pull", n)
    /\ UNCHANGED <<index, plans, owing, upstream, reached, known, heldBack, used>>

(************************* settling a generation **************************)

\* activate, by digest: nothing when its row is gone.
ActivateOwn(m) ==
    LET g == GenerationAt(drain[m].at) IN
    /\ In(m, "activate")
    /\ IF g \in Recorded(m) THEN Activate(m, g) ELSE UNCHANGED local
    /\ ToStep(m, "bind")
    /\ UNCHANGED <<index, plans, owing, upstream, progress, setBack, used>>

\* The binding, and after a pull the cursor.  A pass killed between the two
\* meets the entry again, and does no more than this.
BindGeneration(m) ==
    /\ In(m, "bind")
    /\ known' = [known EXCEPT ![m] = drain[m].at]
    /\ IF drain[m].leg = "pull" THEN PastIt(m)
       ELSE ToStep(m, "page") /\ UNCHANGED reached
    /\ UNCHANGED <<index, local, plans, owing, upstream, landed, heldBack, setBack, used>>

(******************************** the push ********************************)

SendGeneration(m) ==
    /\ In(m, "push")
    /\ IF owing[m] # 0 THEN ToStep(m, "sent") ELSE drain' = [drain EXCEPT ![m] = NoDrain]
    /\ UNCHANGED <<index, local, plans, owing, upstream, progress, setBack, used>>

\* may_activate: it extends what the hub is at, or is what the hub is at.
MayActivate(g) == g = Tip \/ Front(g) = Tip

\* The hub answers from its receipt, or decides.
Accept(m) ==
    LET o == owing[m] IN
    /\ In(m, "sent") /\ ToStep(m, "answered")
    /\ \/ answer[o] # "none" /\ UNCHANGED upstream
       \/ /\ answer[o] = "none" /\ MayActivate(plans[o].generation)
          /\ answer' = [answer EXCEPT ![o] = "accepted"]
          /\ chain' = Append(chain, o)
       \/ /\ answer[o] = "none" /\ ~MayActivate(plans[o].generation)
          /\ answer' = [answer EXCEPT ![o] = "rejected_stale"]
          /\ UNCHANGED chain
    /\ UNCHANGED <<index, local, plans, owing, progress, setBack, used>>

\* The answer is lost and the request sent again.
ResendGeneration(m) ==
    /\ In(m, "answered") /\ ToStep(m, "sent")
    /\ UNCHANGED <<index, local, plans, owing, upstream, progress, setBack, used>>

\* An accepted generation goes on to be activated; a stale one stays staged.
RecordAnswer(m) ==
    LET o == owing[m] IN
    /\ In(m, "answered")
    /\ owing' = [owing EXCEPT ![m] = 0]
    /\ \/ /\ answer[o] = "accepted"
          /\ \E n \in 1 .. Len(chain) : chain[n] = o /\ Settling(m, "activate", "push", n)
       \/ answer[o] = "rejected_stale" /\ ToStep(m, "page")
    /\ UNCHANGED <<index, local, plans, upstream, progress, setBack, used>>

\* Killed, or ended by the network.
BreakOff(m) ==
    /\ ~In(m, "idle") /\ breaks < MaxBreaks /\ breaks' = breaks + 1
    /\ drain' = [drain EXCEPT ![m] = NoDrain]
    /\ UNCHANGED <<index, local, plans, owing, upstream, progress, setBack, indexed>>

\* A memory of some other machine reaches the feed.
PeerMemory ==
    /\ Cardinality({n \in 1 .. Len(chain) : ~IsCode(n)}) < MaxMemories
    /\ chain' = Append(chain, 0)
    /\ UNCHANGED <<index, local, plans, owing, answer, progress, drain, setBack, used>>

--------------------------------------------------------------------------------
CodeInit ==
    /\ index = [m \in Machines |-> NoIndex]
    /\ active = [m \in Machines |-> NoGeneration]
    /\ stagedGens = [m \in Machines |-> {}]
    /\ adopted = [m \in Machines |-> {}]
    /\ plans = <<>>
    /\ owing = [m \in Machines |-> 0]
    /\ chain = <<>>
    /\ answer = [o \in Operation |-> "none"]
    /\ reached = [m \in Machines |-> 0]
    /\ known = [m \in Machines |-> 0]
    /\ landed = [m \in Machines |-> {}]
    /\ heldBack = [m \in Machines |-> {}]
    /\ drain = [m \in Machines |-> NoDrain]
    /\ setBack = {}
    /\ indexed = 0 /\ breaks = 0

DrainStep(m) ==
    \/ Capture(m) \/ CaptureNothing(m) \/ Rewinds(m) \/ FetchPage(m)
    \/ PullMemory(m) \/ SettleOwn(m) \/ PassSuperseded(m) \/ Land(m)
    \/ ActivateOwn(m) \/ BindGeneration(m)
    \/ SendGeneration(m) \/ Accept(m) \/ ResendGeneration(m) \/ RecordAnswer(m)
    \/ BreakOff(m)

CodeNext ==
    \/ \E m \in Machines :
         \/ \E c \in Contents : IndexCode(m, c)
         \/ SweepStaged(m)
         \/ \E leg \in {"pull", "push"} : OpenDrain(m, leg)
         \/ DrainStep(m)
    \/ PeerMemory

CodeSpec == CodeInit /\ [][CodeNext]_codeVars

--------------------------------------------------------------------------------
\* The types of the repository's generations, the exchange and the passes.
CodeTypeOK ==
    /\ index \in [Machines -> Contents \cup {NoIndex}]
    /\ active \in [Machines -> Generations]
    /\ stagedGens \in [Machines -> SUBSET Generations]
    /\ adopted \in [Machines -> SUBSET Generations]
    /\ plans \in Seq([by : Machines, generation : Generations \ {NoGeneration}])
    /\ owing \in [Machines -> Operation \cup {0}]
    /\ chain \in Seq(Operation \cup {0})
    /\ answer \in [Operation -> {"none", "accepted", "rejected_stale"}]
    /\ reached \in [Machines -> Nat]
    /\ known \in [Machines -> Nat]
    /\ landed \in [Machines -> SUBSET Operation]
    /\ heldBack \in [Machines -> SUBSET (Nat \ {0})]
    /\ drain \in [Machines -> Drain]
    /\ setBack \subseteq Machines
    /\ indexed \in 0 .. MaxIndexed /\ breaks \in 0 .. MaxBreaks

\* The outbox never names a generation that no longer exists (replica_sweep.rs):
\* however long the push takes and whatever gc sweeps, what is owed is recorded.
OwedIsRecorded ==
    \A m \in Machines : owing[m] # 0 => plans[owing[m]].generation \in Recorded(m)

\* A generation becomes active here only once the upstream accepts it
\* (code_capture.rs): what a machine has active the hub has taken into its feed.
ActiveWasAccepted ==
    \A m \in Machines : active[m] # NoGeneration =>
        \E n \in 1 .. Len(chain) : IsCode(n) /\ GenerationAt(n) = active[m]

\* A pass that reached the feed's end has nothing left to follow.
AtTheEnd(m) == In(m, "idle") /\ reached[m] = Len(chain)

\* Between passes, a machine that read the whole feed has active what the hub is
\* at, whoever planned it, whatever was resent, killed or answered late - unless
\* it is set back.
FollowsUpstream == \A m \in Machines : AtTheEnd(m) => m \in setBack \/ active[m] = Tip

\* holds.rs says that a rewind's replay is safe, and code_capture.rs that the next
\* pass replans on top of what the pull activated: the same without the exception.
NeverSetBack == \A m \in Machines : AtTheEnd(m) => active[m] = Tip
================================================================================
