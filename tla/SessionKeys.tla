---------------------------- MODULE SessionKeys ----------------------------
(* Whose data a pending change is.  A machine is logged in to one workspace at
   a time; its session key names it.  A saved change enters the outbox without
   a key and is stamped with one when it is first sent, when a logout or a
   login to another workspace leaves a key behind, when the next session finds
   that the key was replaced by hand, or when its entity belongs to another
   workspace.  A pass keeps the credential it started with, and looks again
   only at the logout barrier, between two batches.

   A logout holds sync.lock while it stamps, unless a pass keeps the lock past
   its bound; a login never takes it.  created_at and last_session_at are
   counts of the changes made so far.  What a batch carries, and what the
   upstream does with it, is modelled in ReplicaExchange. *)
EXTENDS Naturals, Sequences, FiniteSets

CONSTANTS
    NoKey, User,    \* no key, nobody; the auth command, as a holder of sync.lock
    Keys,          \* the workspaces a person logs in to
    Passes,        \* processes that run passes
    Memories,      \* the memories that are changed
    HandEdits,     \* whether auth.json is ever replaced by hand
    MaxRows,       \* bound: changes made
    MaxSwitches,   \* bound: logins, logouts and credentials replaced by hand
    MaxBroken      \* bound: auth commands and passes killed, or failing at the store

ASSUME KeysAssumption ==
    /\ NoKey \notin Keys \cup Passes
    /\ User \notin Passes /\ User # NoKey
    /\ HandEdits \in BOOLEAN
    /\ MaxRows \in Nat /\ MaxSwitches \in Nat /\ MaxBroken \in Nat

VARIABLES
    auth,      \* the key of auth.json
    barrier,   \* auth.disabled stands
    gate,      \* who holds sync.lock
    outbox,    \* the changes made, in order
    bound,     \* the keys each entity is bound to, and the one bound latest
    last,      \* the key used last and when its session began
    pass,      \* what each process is doing
    user,      \* what the auth command is doing
    loose,     \* changes the code makes no promise for (see LooseBy...)
    switches, broken \* how much of the bounds is used up

credentials == <<auth, barrier>>
store == <<outbox, bound, last>>
keyVars == <<credentials, gate, store, pass, user, loose, switches, broken>>

\* made: the key in force when the change was made; owner: whose it is by its
\* entity; arrived: the keys it was sent to.
Row == [entity : Memories, made : Keys \cup {NoKey}, owner : Keys \cup {NoKey},
        stamp : Keys \cup {NoKey}, held : BOOLEAN, state : {"pending", "accepted"},
        arrived : SUBSET Keys]
Pass == [phase : {"idle", "loaded", "locked", "unread", "checked", "open", "classified",
                  "collected", "asked", "boundary"},
         key : Keys \cup {NoKey}, at : Nat, batch : SUBSET Nat, unstamped : SUBSET Nat,
         batches : Nat]
Resting == [phase |-> "idle", key |-> NoKey, at |-> 0, batch |-> {}, unstamped |-> {}, batches |-> 0]
Binding == [latest : Keys \cup {NoKey}, all : SUBSET Keys]
Unbound == [latest |-> NoKey, all |-> {}]
Command == [phase : {"idle", "stamp", "store", "clear", "raise", "wait", "leave", "forget"},
            leaving : Keys \cup {NoKey}, to : Keys \cup {NoKey}]
Ready == [phase |-> "idle", leaving |-> NoKey, to |-> NoKey]

\* AuthFile::load: a standing barrier reads as logged out.
Visible == IF barrier THEN NoKey ELSE auth

Rows == DOMAIN outbox
Pending(i) == outbox[i].state = "pending"
Unstamped == {i \in Rows : Pending(i) /\ outbox[i].stamp = NoKey}
Stamped(is, k) == [i \in Rows |-> IF i \in is THEN [outbox[i] EXCEPT !.stamp = k] ELSE outbox[i]]

\* foreign_owner: the key e belongs to, if it is bound and never to k.
ForeignOwner(k, e) == IF k \in bound[e].all THEN NoKey ELSE bound[e].latest
\* upsert: the binding touched last is the latest.
BoundTo(k, e) == [latest |-> k, all |-> bound[e].all \cup {k}]

(****************************** making changes ****************************)

\* A pass that holds a credential other than k, or has the change in hand.
Elsewhere(k) == {p \in Passes : pass[p].phase # "idle" /\ pass[p].key \notin {NoKey, k}}

\* A change made while a pass runs under a key that was left, or between the
\* stamp of a login and the credential it writes.
LooseByTiming(k) == k # NoKey /\ (Elsewhere(k) # {} \/ user.phase = "store")

Change(e) ==
    /\ Len(outbox) < MaxRows
    /\ outbox' = Append(outbox,
         [entity |-> e, made |-> Visible, stamp |-> NoKey, held |-> FALSE, state |-> "pending",
          owner |-> IF Visible # NoKey /\ ForeignOwner(Visible, e) # NoKey
                    THEN ForeignOwner(Visible, e) ELSE Visible,
          arrived |-> {}])
    /\ loose' = IF LooseByTiming(Visible) THEN loose \cup {Len(outbox) + 1} ELSE loose
    /\ UNCHANGED <<credentials, gate, bound, last, pass, user, switches, broken>>

(***************************** the auth commands **************************)

\* Changes stamped while a pass has them in hand: read as unstamped, or as not
\* held, before the stamp was written.
InHand(k) == \E p \in Passes : pass[p].phase \in {"classified", "collected"} /\ pass[p].key # k

\* Changes still unstamped when the credential becomes k, but for those that
\* the next session of k finds made before the last one of their own key began.
LooseBySwitch(k) ==
    {i \in Unstamped : outbox[i].made \notin {NoKey, k}
                       /\ ~(last.key = outbox[i].made /\ i <= last.at)}

\* Changes stamped with k although made under a key replaced by hand.
LooseByStamp(k) ==
    IF InHand(k) THEN Unstamped ELSE {i \in Unstamped : outbox[i].made \notin {NoKey, k}}

StampOutgoing(k) ==
    /\ outbox' = Stamped(Unstamped, k)
    /\ loose' = loose \cup LooseByStamp(k)

LoginBegins(k) ==
    /\ user.phase = "idle" /\ switches < MaxSwitches
    /\ user' = [phase |-> IF Visible \in {NoKey, k} THEN "store" ELSE "stamp",
                leaving |-> Visible, to |-> k]
    /\ switches' = switches + 1
    /\ UNCHANGED <<credentials, gate, store, pass, loose, broken>>

LoginStamps ==
    /\ user.phase = "stamp"
    /\ StampOutgoing(user.leaving)
    /\ user' = [user EXCEPT !.phase = "store"]
    /\ UNCHANGED <<credentials, gate, bound, last, pass, switches, broken>>

LoginStores ==
    /\ user.phase = "store"
    /\ auth' = user.to
    /\ loose' = loose \cup LooseBySwitch(user.to)
    /\ user' = [user EXCEPT !.phase = "clear"]
    /\ UNCHANGED <<barrier, gate, store, pass, switches, broken>>

LoginClears ==
    /\ user.phase = "clear"
    /\ barrier' = FALSE
    /\ user' = Ready
    /\ UNCHANGED <<auth, gate, store, pass, loose, switches, broken>>

\* Who is leaving is read before the barrier hides it.
LogoutBegins ==
    /\ user.phase = "idle" /\ switches < MaxSwitches
    /\ user' = [phase |-> "raise", leaving |-> Visible, to |-> NoKey]
    /\ switches' = switches + 1
    /\ UNCHANGED <<credentials, gate, store, pass, loose, broken>>

LogoutRaises ==
    /\ user.phase = "raise"
    /\ barrier' = TRUE
    /\ pass' = [p \in Passes |-> [pass[p] EXCEPT !.batches = 0]]
    /\ user' = [user EXCEPT !.phase = "wait"]
    /\ UNCHANGED <<auth, gate, store, loose, switches, broken>>

\* The lock is awaited up to a bound; past it the logout goes on without.
LogoutWaits ==
    /\ user.phase = "wait"
    /\ gate' = IF gate = NoKey THEN User ELSE gate
    /\ user' = [user EXCEPT !.phase = IF user.leaving = NoKey THEN "forget" ELSE "leave"]
    /\ UNCHANGED <<credentials, store, pass, loose, switches, broken>>

LogoutStamps ==
    /\ user.phase = "leave"
    /\ StampOutgoing(user.leaving)
    /\ user' = [user EXCEPT !.phase = "forget"]
    /\ UNCHANGED <<credentials, gate, bound, last, pass, switches, broken>>

LogoutForgets ==
    /\ user.phase = "forget"
    /\ auth' = NoKey
    /\ gate' = IF gate = User THEN NoKey ELSE gate
    /\ loose' = loose \cup LooseBySwitch(NoKey)
    /\ user' = Ready
    /\ UNCHANGED <<barrier, store, pass, switches, broken>>

\* Killed, or failing at the store or the file: what was written stays.
AuthBreaks ==
    /\ user.phase # "idle" /\ broken < MaxBroken
    /\ user' = Ready
    /\ gate' = IF gate = User THEN NoKey ELSE gate
    /\ broken' = broken + 1
    /\ UNCHANGED <<credentials, store, pass, loose, switches>>

\* A person copies another auth.json over this one.
ReplaceByHand(k) ==
    /\ HandEdits /\ user.phase = "idle" /\ switches < MaxSwitches
    /\ k # auth
    /\ auth' = k
    /\ loose' = loose \cup LooseBySwitch(k)
    /\ switches' = switches + 1
    /\ UNCHANGED <<barrier, gate, store, pass, user, broken>>

(******************************** a pass **********************************)

Go(p, phase) == pass' = [pass EXCEPT ![p].phase = phase]
Rest(p) == pass' = [pass EXCEPT ![p] = Resting]

\* A save's inline push and a command of a person read the credential and then
\* take the lock, the one if it is free and the other when it is...
Load(p) ==
    /\ pass[p].phase = "idle" /\ Visible # NoKey
    /\ pass' = [pass EXCEPT ![p].phase = "loaded", ![p].key = Visible]
    /\ UNCHANGED <<credentials, gate, store, user, loose, switches, broken>>

GivesUp(p) ==
    /\ pass[p].phase = "loaded" /\ gate # NoKey
    /\ Rest(p)
    /\ UNCHANGED <<credentials, gate, store, user, loose, switches, broken>>

Locks(p) ==
    /\ pass[p].phase \in {"idle", "loaded"} /\ gate = NoKey
    /\ gate' = p
    /\ Go(p, IF pass[p].phase = "loaded" THEN "locked" ELSE "unread")
    /\ UNCHANGED <<credentials, store, user, loose, switches, broken>>

\* ... an unattended pass the other way round.
LoadsLocked(p) ==
    /\ pass[p].phase = "unread"
    /\ IF Visible = NoKey
         THEN Rest(p) /\ gate' = NoKey
         ELSE pass' = [pass EXCEPT ![p].phase = "locked", ![p].key = Visible] /\ UNCHANGED gate
    /\ UNCHANGED <<credentials, store, user, loose, switches, broken>>

\* drain: nothing is opened behind a barrier.
Checks(p) ==
    /\ pass[p].phase = "locked"
    /\ IF barrier THEN Rest(p) /\ gate' = NoKey ELSE Go(p, "checked") /\ UNCHANGED gate
    /\ UNCHANGED <<credentials, store, user, loose, switches, broken>>

\* apply_last_used_rule, and the session or the failure that is recorded.
Opens(p) ==
    /\ pass[p].phase = "checked"
    /\ outbox' = IF last.key \in {NoKey, pass[p].key} THEN outbox
                 ELSE Stamped({i \in Unstamped : i <= last.at}, last.key)
    /\ \/ /\ pass' = [pass EXCEPT ![p].phase = "open", ![p].at = Len(outbox)]
          /\ UNCHANGED <<gate, last>>
       \/ /\ Rest(p) /\ gate' = NoKey
          /\ last' = [key |-> pass[p].key, at |-> Len(outbox)]
    /\ UNCHANGED <<credentials, bound, user, loose, switches, broken>>

\* A pulled memory is bound to the key; one with a change still owed is left.
Pulls(p, e) ==
    /\ pass[p].phase = "open"
    /\ \A i \in Rows : Pending(i) => outbox[i].entity # e
    /\ bound' = [bound EXCEPT ![e] = BoundTo(pass[p].key, e)]
    /\ UNCHANGED <<credentials, gate, outbox, last, pass, user, loose, switches, broken>>

\* mutant: a stamp is not read, only the entity's binding
OwnerByEntity(k, i) == ForeignOwner(k, outbox[i].entity)
\* owner: the other key row i belongs to, by its stamp or by its entity.
Owner(k, i) ==
    IF outbox[i].stamp # NoKey THEN (IF outbox[i].stamp = k THEN NoKey ELSE outbox[i].stamp)
                              ELSE ForeignOwner(k, outbox[i].entity)

\* Every pending row is decided again: held with the key it belongs to, or in
\* order behind a held row of its entity. Taken as one step.
Classified(k) ==
    LET Ahead(i) == {j \in Rows : j < i /\ Pending(j) /\ outbox[j].entity = outbox[i].entity}
        Behind(i) == \E j \in Ahead(i) : Owner(k, j) # NoKey
    IN [i \in Rows |->
          IF ~Pending(i)     THEN outbox[i]
          ELSE IF Behind(i)  THEN [outbox[i] EXCEPT !.held = TRUE]
          ELSE IF Owner(k, i) # NoKey
                             THEN [outbox[i] EXCEPT !.held = TRUE, !.stamp = Owner(k, i)]
                             ELSE [outbox[i] EXCEPT !.held = FALSE]]

Classifies(p) ==
    /\ pass[p].phase = "open"
    /\ outbox' = Classified(pass[p].key)
    /\ Go(p, "classified")
    /\ UNCHANGED <<credentials, gate, bound, last, user, loose, switches, broken>>

\* The next batch: the rows without a hold, in order, up to the budgets.
Collects(p) ==
    /\ pass[p].phase = "classified"
    /\ LET eligible == {i \in Rows : Pending(i) /\ ~outbox[i].held} IN
         IF eligible = {} THEN Go(p, "boundary")
         ELSE \E n \in eligible :
                LET batch == {i \in eligible : i <= n} IN
                pass' = [pass EXCEPT ![p].phase = "collected", ![p].batch = batch,
                                     ![p].unstamped = batch \cap Unstamped]
    /\ UNCHANGED <<credentials, gate, store, user, loose, switches, broken>>

\* wire_fields stamps what was read without a stamp; the envelope arrives.
Sends(p) ==
    /\ pass[p].phase = "collected"
    /\ LET r == pass[p]
           stamped == Stamped(r.unstamped, r.key) IN
         /\ outbox' = [i \in Rows |-> IF i \in r.batch
                                      THEN [stamped[i] EXCEPT !.arrived = @ \cup {r.key}]
                                      ELSE stamped[i]]
         /\ pass' = [pass EXCEPT ![p].phase = "asked",
                                 ![p].batches = IF barrier THEN @ + 1 ELSE @]
    /\ UNCHANGED <<credentials, gate, bound, last, user, loose, switches, broken>>

\* mutant: the disposition is written where the state belongs
AnsweredByDisposition(p) ==
    /\ pass[p].phase = "asked"
    /\ outbox' = [i \in Rows |-> IF i \in pass[p].batch THEN [outbox[i] EXCEPT !.state = "duplicate"]
                                                         ELSE outbox[i]]
    /\ Go(p, "boundary")
    /\ UNCHANGED <<credentials, gate, bound, last, user, loose, switches, broken>>
\* Accepted, and each entity bound to the key; or the answer is lost, which
\* ends the pass.
Answered(p) ==
    /\ pass[p].phase = "asked"
    /\ LET r == pass[p]
           entities == {outbox[i].entity : i \in r.batch} IN
       \/ /\ outbox' = [i \in Rows |-> IF i \in r.batch THEN [outbox[i] EXCEPT !.state = "accepted"]
                                                        ELSE outbox[i]]
          /\ bound' = [e \in Memories |-> IF e \in entities THEN BoundTo(r.key, e) ELSE bound[e]]
          /\ pass' = [pass EXCEPT ![p].phase = "boundary", ![p].batch = {}, ![p].unstamped = {}]
          /\ UNCHANGED <<gate, last>>
       \/ /\ Rest(p) /\ gate' = NoKey
          /\ last' = [key |-> r.key, at |-> r.at]
          /\ UNCHANGED <<outbox, bound>>
    /\ UNCHANGED <<credentials, user, loose, switches, broken>>

\* mutant: a pass that still has something to send does not look at the barrier
GoesOnHeedless(p) ==
    /\ pass[p].phase = "boundary"
    /\ Go(p, "open")
    /\ UNCHANGED <<credentials, gate, store, user, loose, switches, broken>>

\* stop::boundary: another batch, unless a barrier stands.
GoesOn(p) ==
    /\ pass[p].phase = "boundary" /\ ~barrier
    /\ Go(p, "open")
    /\ UNCHANGED <<credentials, gate, store, user, loose, switches, broken>>

\* Caught up, out of budget, or stopped.
Closes(p) ==
    /\ pass[p].phase = "boundary"
    /\ Rest(p) /\ gate' = NoKey
    /\ last' = [key |-> pass[p].key, at |-> pass[p].at]
    /\ UNCHANGED <<credentials, outbox, bound, user, loose, switches, broken>>

PassBreaks(p) ==
    /\ pass[p].phase # "idle" /\ broken < MaxBroken
    /\ Rest(p)
    /\ gate' = IF gate = p THEN NoKey ELSE gate
    /\ broken' = broken + 1
    /\ UNCHANGED <<credentials, store, user, loose, switches>>

(****************************** specification *****************************)

KeysInit ==
    /\ auth = NoKey /\ barrier = FALSE /\ gate = NoKey
    /\ outbox = <<>>
    /\ bound = [e \in Memories |-> Unbound]
    /\ last = [key |-> NoKey, at |-> 0]
    /\ pass = [p \in Passes |-> Resting]
    /\ user = Ready
    /\ loose = {}
    /\ switches = 0 /\ broken = 0

KeysNext ==
    \/ \E e \in Memories : Change(e) \/ \E p \in Passes : Pulls(p, e)
    \/ \E k \in Keys : LoginBegins(k) \/ ReplaceByHand(k)
    \/ LoginStamps \/ LoginStores \/ LoginClears
    \/ LogoutBegins \/ LogoutRaises \/ LogoutWaits \/ LogoutStamps \/ LogoutForgets
    \/ AuthBreaks
    \/ \E p \in Passes :
         \/ Load(p) \/ GivesUp(p) \/ Locks(p) \/ LoadsLocked(p) \/ Checks(p) \/ Opens(p)
         \/ Classifies(p) \/ Collects(p) \/ Sends(p) \/ Answered(p)
         \/ GoesOn(p) \/ Closes(p) \/ PassBreaks(p)

KeysSpec == KeysInit /\ [][KeysNext]_keyVars

(******************************* properties *******************************)

KeysTypeOK ==
    /\ auth \in Keys \cup {NoKey} /\ barrier \in BOOLEAN
    /\ gate \in Passes \cup {User, NoKey}
    /\ outbox \in Seq(Row)
    /\ bound \in [Memories -> Binding]
    /\ last \in [key : Keys \cup {NoKey}, at : Nat]
    /\ pass \in [Passes -> Pass] /\ user \in Command
    /\ loose \subseteq Rows

\* A change made under one key reaches no other, whichever logouts, logins,
\* passes and kills follow: not the key logged in to next, and not the one a
\* pass in flight still holds. One to an entity of another workspace may reach
\* that one. Excepted by name are the changes in loose.
KeptForItsKey ==
    \A i \in Rows \ loose :
        outbox[i].made # NoKey => outbox[i].arrived \subseteq {outbox[i].made, outbox[i].owner}

\* Behind a logout's barrier a pass in flight sends the batch it is at, and no
\* other, until a login takes the barrier down.
OneBatchAfterLogout == barrier => \A p \in Passes : pass[p].batches <= 1

\* "Editing a memory that was pulled from another workspace stamps the edit
\* with that workspace too, so it is never sent to the one you are logged in
\* to" (docs/guides/cloud-sync.md:624-626).
ForeignEditStaysHome ==
    \A i \in Rows \ loose : outbox[i].owner # outbox[i].made => outbox[i].made \notin outbox[i].arrived
=============================================================================
