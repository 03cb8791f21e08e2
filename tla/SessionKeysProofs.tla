------------------------- MODULE SessionKeysProofs ------------------------
(* Whose data a change is, for any workspaces, processes and memories, and any
   number of changes, logins, logouts and broken commands.

   KeptForItsKey is not inductive.  What carries it: every change that is still
   unstamped, and that the code makes a promise for, was made under the key
   logged in with, or is one that the next session of another key stamps with
   its own (StampedNext); a pass that has read the key knows the same of the
   key it holds; and once it is open, only changes of that key are unstamped.
   The rows it classifies as its own are therefore changes of its key or of the
   entity's owner. *)
EXTENDS SessionKeys, TLAPS

(*************************** the inductive invariant **********************)

\* Phases in which a pass has opened its session.
Opened == {"open", "classified", "collected", "asked", "boundary"}

\* A change the code makes a promise for.
Promised(i) == i \notin loose /\ outbox[i].made # NoKey

\* ... that carries no stamp yet.
Free(i) == Promised(i) /\ Pending(i) /\ outbox[i].stamp = NoKey

\* The next session of another key stamps it with the key it was made under.
StampedNext(i) == last.key = outbox[i].made /\ i <= last.at

\* Row i may be sent under key k.
Sendable(k, i) == Promised(i) => k \in {outbox[i].made, outbox[i].owner}

RowFits(i) ==
    /\ Promised(i) =>
         /\ outbox[i].stamp \in {NoKey, outbox[i].made, outbox[i].owner}
         /\ outbox[i].arrived \subseteq {outbox[i].made, outbox[i].owner}
    /\ Free(i) =>
         /\ outbox[i].made = auth \/ StampedNext(i)
         /\ i <= last.at => outbox[i].made = last.key
         /\ ForeignOwner(outbox[i].made, outbox[i].entity) \in {NoKey, outbox[i].owner}

\* The gate and the key a pass holds, and how far its session reaches.
PassHolds(p) ==
    /\ pass[p].phase \notin {"idle", "loaded"} => gate = p
    /\ pass[p].phase \notin {"idle", "unread"} => pass[p].key # NoKey
    /\ pass[p].phase \in Opened => last.at <= pass[p].at /\ pass[p].at <= Len(outbox)
    /\ pass[p].phase \in {"collected", "asked"} => pass[p].batch \subseteq Rows
    /\ pass[p].phase = "collected" => pass[p].unstamped \subseteq pass[p].batch

\* What a pass may count on of the changes it finds.
PassKnows(p) ==
    /\ pass[p].phase \in {"loaded", "locked", "checked"} =>
         \A i \in Rows : Free(i) => outbox[i].made = pass[p].key \/ StampedNext(i)
    /\ pass[p].phase \in Opened => \A i \in Rows : Free(i) => outbox[i].made = pass[p].key
    /\ pass[p].phase = "classified" =>
         \A i \in Rows : Pending(i) /\ ~outbox[i].held => Sendable(pass[p].key, i)
    /\ pass[p].phase = "collected" => \A i \in pass[p].batch : Sendable(pass[p].key, i)

KeysInv ==
    /\ KeysTypeOK
    /\ last.at <= Len(outbox)
    /\ \A i \in Rows : RowFits(i)
    /\ \A p \in Passes : PassHolds(p) /\ PassKnows(p)

(******************************** the outbox ******************************)

LEMMA RowsAre ==
    ASSUME outbox \in Seq(Row)
    PROVE  Len(outbox) \in Nat /\ Rows = 1..Len(outbox) /\ \A i \in Rows : outbox[i] \in Row
BY DEF Rows

\* A step that rewrites rows one by one.
LEMMA Rewritten ==
    ASSUME outbox \in Seq(Row), outbox' = [i \in Rows |-> outbox'[i]],
           \A i \in Rows : outbox'[i] \in Row
    PROVE  outbox' \in Seq(Row) /\ Rows' = Rows /\ Len(outbox') = Len(outbox)
<1>1. Len(outbox) \in Nat /\ Rows = 1..Len(outbox)
  BY RowsAre
<1> DEFINE n == Len(outbox)
<1>2. outbox' \in [1..n -> Row]
  BY <1>1
<1>3. n \in Nat
  BY <1>1
<1> HIDE DEF n
<1>4. outbox' \in Seq(Row) /\ Len(outbox') = n
  BY <1>2, <1>3
<1> QED BY <1>1, <1>2, <1>4 DEF n, Rows

\* The change of a field of a row leaves it a row.
LEMMA RowFields ==
    ASSUME NEW r \in Row, NEW k \in Keys \cup {NoKey}
    PROVE  /\ [r EXCEPT !.stamp = k] \in Row
           /\ [r EXCEPT !.held = TRUE] \in Row
           /\ [r EXCEPT !.held = FALSE] \in Row
           /\ [r EXCEPT !.held = TRUE, !.stamp = k] \in Row
           /\ [r EXCEPT !.state = "accepted"] \in Row
           /\ k \in Keys => [r EXCEPT !.arrived = r.arrived \cup {k}] \in Row
<1>1. [r EXCEPT !.stamp = k] \in Row
  BY DEF Row
<1>2. [r EXCEPT !.held = TRUE] \in Row
  BY DEF Row
<1>3. [r EXCEPT !.held = FALSE] \in Row
  BY DEF Row
<1>4. [r EXCEPT !.held = TRUE, !.stamp = k] \in Row
  BY DEF Row
<1>5. [r EXCEPT !.state = "accepted"] \in Row
  BY DEF Row
<1>6. k \in Keys => [r EXCEPT !.arrived = r.arrived \cup {k}] \in Row
  BY DEF Row
<1> QED BY <1>1, <1>2, <1>3, <1>4, <1>5, <1>6

(************************** one pass's record *****************************)

Phases == {"idle", "loaded", "locked", "unread", "checked", "open", "classified",
           "collected", "asked", "boundary"}

\* The record r is in a phase, with a key, a place, a batch and its counts.
Says(r, phase, key, at, batch, unstamped, batches) ==
    /\ r \in Pass
    /\ r.phase = phase /\ r.key = key /\ r.at = at
    /\ r.batch = batch /\ r.unstamped = unstamped /\ r.batches = batches

\* The step replaces the record of p, and no other, by such a record.
Turns(p, phase, key, at, batch, unstamped, batches) ==
    \E r \in Pass : /\ Says(r, phase, key, at, batch, unstamped, batches)
                    /\ pass' = [pass EXCEPT ![p] = r]

LEMMA PassFields ==
    ASSUME NEW r \in Pass
    PROVE  /\ r.phase \in Phases /\ r.key \in Keys \cup {NoKey} /\ r.at \in Nat
           /\ r.batch \in SUBSET Nat /\ r.unstamped \in SUBSET Nat /\ r.batches \in Nat
BY DEF Pass, Phases

LEMMA Turned ==
    ASSUME pass \in [Passes -> Pass], NEW p \in Passes,
           NEW phase, NEW key, NEW at, NEW batch, NEW unstamped, NEW batches,
           Turns(p, phase, key, at, batch, unstamped, batches)
    PROVE  /\ pass' \in [Passes -> Pass]
           /\ Says(pass'[p], phase, key, at, batch, unstamped, batches)
           /\ \A q \in Passes \ {p} : pass'[q] = pass[q]
<1>1. PICK r \in Pass : /\ Says(r, phase, key, at, batch, unstamped, batches)
                        /\ pass' = [pass EXCEPT ![p] = r]
  BY DEF Turns
<1>2. pass' \in [Passes -> Pass] /\ pass'[p] = r /\ \A q \in Passes \ {p} : pass'[q] = pass[q]
  BY <1>1
<1> QED BY <1>1, <1>2

\* Each way the model changes some fields of a record.
LEMMA Changed ==
    ASSUME NEW r \in Pass, NEW f \in Phases, NEW k \in Keys \cup {NoKey}, NEW n \in Nat,
           NEW b \in SUBSET Nat, NEW u \in SUBSET Nat
    PROVE  /\ Says([r EXCEPT !.phase = f], f, r.key, r.at, r.batch, r.unstamped, r.batches)
           /\ Says([r EXCEPT !.phase = f, !.key = k], f, k, r.at, r.batch, r.unstamped, r.batches)
           /\ Says([r EXCEPT !.phase = f, !.at = n], f, r.key, n, r.batch, r.unstamped, r.batches)
           /\ Says([r EXCEPT !.phase = f, !.batch = b, !.unstamped = u],
                   f, r.key, r.at, b, u, r.batches)
           /\ Says([r EXCEPT !.phase = f, !.batches = n],
                   f, r.key, r.at, r.batch, r.unstamped, n)
           /\ Says([r EXCEPT !.batches = n], r.phase, r.key, r.at, r.batch, r.unstamped, n)
<1>1. Says([r EXCEPT !.phase = f], f, r.key, r.at, r.batch, r.unstamped, r.batches)
  BY DEF Says, Pass, Phases
<1>2. Says([r EXCEPT !.phase = f, !.key = k], f, k, r.at, r.batch, r.unstamped, r.batches)
  BY DEF Says, Pass, Phases
<1>3. Says([r EXCEPT !.phase = f, !.at = n], f, r.key, n, r.batch, r.unstamped, r.batches)
  BY DEF Says, Pass, Phases
<1>4. Says([r EXCEPT !.phase = f, !.batch = b, !.unstamped = u], f, r.key, r.at, b, u, r.batches)
  BY DEF Says, Pass, Phases
<1>5. Says([r EXCEPT !.phase = f, !.batches = n], f, r.key, r.at, r.batch, r.unstamped, n)
  BY DEF Says, Pass, Phases
<1>6. Says([r EXCEPT !.batches = n], r.phase, r.key, r.at, r.batch, r.unstamped, n)
  BY DEF Says, Pass, Phases
<1> QED BY <1>1, <1>2, <1>3, <1>4, <1>5, <1>6

LEMMA RestingIs == Says(Resting, "idle", NoKey, 0, {}, {}, 0)
BY DEF Says, Resting, Pass

(********************* what each action does to a pass ********************)

LEMMA VisibleType ==
    ASSUME KeysTypeOK PROVE Visible \in Keys \cup {NoKey} /\ Visible \in {auth, NoKey}
BY DEF Visible, KeysTypeOK

LEMMA Goes ==
    ASSUME KeysTypeOK, NEW p \in Passes, NEW f \in Phases, Go(p, f)
    PROVE  Turns(p, f, pass[p].key, pass[p].at, pass[p].batch, pass[p].unstamped, pass[p].batches)
<1> DEFINE r == pass[p]
           next == [r EXCEPT !.phase = f]
<1>1. r \in Pass /\ r.key \in Keys \cup {NoKey} /\ r.at \in Nat /\ r.batch \in SUBSET Nat
      /\ r.unstamped \in SUBSET Nat /\ r.batches \in Nat
  BY PassFields DEF KeysTypeOK
<1>2. Says(next, f, r.key, r.at, r.batch, r.unstamped, r.batches)
  BY <1>1, Changed
<1>3. pass' = [pass EXCEPT ![p] = next]
  BY DEF Go
<1>4. next \in Pass
  BY <1>2 DEF Says
<1> HIDE DEF next, r
<1>5. Turns(p, f, r.key, r.at, r.batch, r.unstamped, r.batches)
  BY <1>2, <1>3, <1>4, Zenon DEF Turns
<1> QED BY <1>5 DEF r

LEMMA Rests ==
    ASSUME NEW p \in Passes, Rest(p) PROVE Turns(p, "idle", NoKey, 0, {}, {}, 0)
<1>1. Resting \in Pass
  BY RestingIs DEF Says
<1> QED BY <1>1, RestingIs, Zenon DEF Rest, Turns

LEMMA ReadsKey ==
    ASSUME KeysTypeOK, NEW p \in Passes, NEW f \in Phases,
           pass' = [pass EXCEPT ![p].phase = f, ![p].key = Visible]
    PROVE  Turns(p, f, Visible, pass[p].at, pass[p].batch, pass[p].unstamped, pass[p].batches)
<1> DEFINE r == pass[p]
           next == [r EXCEPT !.phase = f, !.key = Visible]
<1>1. r \in Pass /\ r.at \in Nat /\ r.batch \in SUBSET Nat
      /\ r.unstamped \in SUBSET Nat /\ r.batches \in Nat
  BY PassFields DEF KeysTypeOK
<1>2. Says(next, f, Visible, r.at, r.batch, r.unstamped, r.batches)
  BY <1>1, VisibleType, Changed
<1>3. pass' = [pass EXCEPT ![p] = next]
  OBVIOUS
<1>4. next \in Pass
  BY <1>2 DEF Says
<1> HIDE DEF next, r
<1>5. Turns(p, f, Visible, r.at, r.batch, r.unstamped, r.batches)
  BY <1>2, <1>3, <1>4, Zenon DEF Turns
<1> QED BY <1>5 DEF r

\* Up to the check of the barrier: what the credential and the gate allow.
LEMMA EntryMoves ==
    ASSUME KeysTypeOK, NEW p \in Passes
    PROVE  LET r == pass[p] IN
           /\ Load(p) => Turns(p, "loaded", Visible, r.at, r.batch, r.unstamped, r.batches)
           /\ GivesUp(p) \/ PassBreaks(p) \/ Closes(p) => Turns(p, "idle", NoKey, 0, {}, {}, 0)
           /\ Locks(p) /\ r.phase = "loaded" =>
                Turns(p, "locked", r.key, r.at, r.batch, r.unstamped, r.batches)
           /\ Locks(p) /\ r.phase # "loaded" =>
                Turns(p, "unread", r.key, r.at, r.batch, r.unstamped, r.batches)
           /\ LoadsLocked(p) /\ Visible = NoKey => Turns(p, "idle", NoKey, 0, {}, {}, 0)
           /\ LoadsLocked(p) /\ Visible # NoKey =>
                Turns(p, "locked", Visible, r.at, r.batch, r.unstamped, r.batches)
           /\ Checks(p) /\ barrier => Turns(p, "idle", NoKey, 0, {}, {}, 0)
           /\ Checks(p) /\ ~barrier =>
                Turns(p, "checked", r.key, r.at, r.batch, r.unstamped, r.batches)
<1> DEFINE r == pass[p]
<1>0. {"loaded", "locked", "unread", "checked"} \subseteq Phases
  BY DEF Phases
<1>1. Load(p) => Turns(p, "loaded", Visible, r.at, r.batch, r.unstamped, r.batches)
  BY <1>0, ReadsKey DEF Load
<1>2. GivesUp(p) \/ PassBreaks(p) \/ Closes(p) => Turns(p, "idle", NoKey, 0, {}, {}, 0)
  BY Rests DEF GivesUp, PassBreaks, Closes
<1>3. Locks(p) /\ r.phase = "loaded" =>
        Turns(p, "locked", r.key, r.at, r.batch, r.unstamped, r.batches)
  <2> SUFFICES ASSUME Locks(p), r.phase = "loaded"
               PROVE  Turns(p, "locked", r.key, r.at, r.batch, r.unstamped, r.batches)
    OBVIOUS
  <2>1. Go(p, "locked")
    BY DEF Locks
  <2> QED BY <1>0, <2>1, Goes
<1>4. Locks(p) /\ r.phase # "loaded" =>
        Turns(p, "unread", r.key, r.at, r.batch, r.unstamped, r.batches)
  <2> SUFFICES ASSUME Locks(p), r.phase # "loaded"
               PROVE  Turns(p, "unread", r.key, r.at, r.batch, r.unstamped, r.batches)
    OBVIOUS
  <2>1. Go(p, "unread")
    BY DEF Locks
  <2> QED BY <1>0, <2>1, Goes
<1>5. LoadsLocked(p) /\ Visible = NoKey => Turns(p, "idle", NoKey, 0, {}, {}, 0)
  BY Rests DEF LoadsLocked
<1>6. LoadsLocked(p) /\ Visible # NoKey =>
        Turns(p, "locked", Visible, r.at, r.batch, r.unstamped, r.batches)
  BY <1>0, ReadsKey DEF LoadsLocked
<1>7. Checks(p) /\ barrier => Turns(p, "idle", NoKey, 0, {}, {}, 0)
  BY Rests DEF Checks
<1>8. Checks(p) /\ ~barrier => Turns(p, "checked", r.key, r.at, r.batch, r.unstamped, r.batches)
  BY <1>0, Goes DEF Checks
<1> QED BY <1>1, <1>2, <1>3, <1>4, <1>5, <1>6, <1>7, <1>8

\* Eligible rows, and the batch that ends at row n.
Sent(i) == Pending(i) /\ ~outbox[i].held
BatchTo(n) == {i \in {j \in Rows : Sent(j)} : i <= n}

LEMMA SessionMoves ==
    ASSUME KeysTypeOK, NEW p \in Passes
    PROVE  LET r == pass[p] IN
           /\ Opens(p) => \/ Turns(p, "open", r.key, Len(outbox), r.batch, r.unstamped, r.batches)
                             /\ UNCHANGED <<gate, last>>
                          \/ Turns(p, "idle", NoKey, 0, {}, {}, 0) /\ gate' = NoKey
                             /\ last' = [key |-> r.key, at |-> Len(outbox)]
           /\ Classifies(p) =>
                Turns(p, "classified", r.key, r.at, r.batch, r.unstamped, r.batches)
           /\ Collects(p) =>
                \/ Turns(p, "boundary", r.key, r.at, r.batch, r.unstamped, r.batches)
                \/ \E n \in Rows : Turns(p, "collected", r.key, r.at, BatchTo(n),
                                         BatchTo(n) \cap Unstamped, r.batches)
           /\ Sends(p) => Turns(p, "asked", r.key, r.at, r.batch, r.unstamped,
                                IF barrier THEN r.batches + 1 ELSE r.batches)
           /\ GoesOn(p) => Turns(p, "open", r.key, r.at, r.batch, r.unstamped, r.batches)
           /\ Answered(p) =>
                \/ Turns(p, "boundary", r.key, r.at, {}, {}, r.batches) /\ UNCHANGED <<gate, last>>
                \/ Turns(p, "idle", NoKey, 0, {}, {}, 0) /\ gate' = NoKey
                   /\ last' = [key |-> r.key, at |-> r.at] /\ UNCHANGED <<outbox, bound>>
<1> DEFINE r == pass[p]
<1>0. /\ {"open", "classified", "boundary", "collected", "asked"} \subseteq Phases
      /\ r \in Pass /\ r.key \in Keys \cup {NoKey} /\ r.at \in Nat /\ r.batch \in SUBSET Nat
      /\ r.unstamped \in SUBSET Nat /\ r.batches \in Nat
      /\ Len(outbox) \in Nat /\ Rows = 1..Len(outbox)
  BY PassFields, RowsAre DEF KeysTypeOK, Phases
<1>1. ASSUME NEW n \in Pass, NEW f, NEW k, NEW at, NEW b, NEW u, NEW c,
             Says(n, f, k, at, b, u, c), pass' = [pass EXCEPT ![p] = n]
      PROVE  Turns(p, f, k, at, b, u, c)
  BY <1>1, Zenon DEF Turns
<1>2. ASSUME pass' = [pass EXCEPT ![p].phase = "open", ![p].at = Len(outbox)]
      PROVE  Turns(p, "open", r.key, Len(outbox), r.batch, r.unstamped, r.batches)
  <2> DEFINE next == [r EXCEPT !.phase = "open", !.at = Len(outbox)]
  <2>1. Says(next, "open", r.key, Len(outbox), r.batch, r.unstamped, r.batches)
    BY <1>0, Changed
  <2>2. pass' = [pass EXCEPT ![p] = next] /\ next \in Pass
    BY <1>2, <2>1 DEF Says
  <2> HIDE DEF next, r
  <2> QED BY <1>1, <2>1, <2>2
<1>3. ASSUME NEW b \in SUBSET Nat, NEW u \in SUBSET Nat, NEW f \in Phases,
             pass' = [pass EXCEPT ![p].phase = f, ![p].batch = b, ![p].unstamped = u]
      PROVE  Turns(p, f, r.key, r.at, b, u, r.batches)
  <2> DEFINE next == [r EXCEPT !.phase = f, !.batch = b, !.unstamped = u]
  <2>1. Says(next, f, r.key, r.at, b, u, r.batches)
    BY <1>0, Changed
  <2>2. pass' = [pass EXCEPT ![p] = next] /\ next \in Pass
    BY <1>3, <2>1 DEF Says
  <2> HIDE DEF next, r
  <2> QED BY <1>1, <2>1, <2>2
<1>4. ASSUME Sends(p)
      PROVE  Turns(p, "asked", r.key, r.at, r.batch, r.unstamped,
                   IF barrier THEN r.batches + 1 ELSE r.batches)
  <2> DEFINE n == IF barrier THEN r.batches + 1 ELSE r.batches
             next == [r EXCEPT !.phase = "asked", !.batches = n]
  <2>1. n \in Nat
    BY <1>0
  <2>2. pass' = [pass EXCEPT ![p] = next]
    BY <1>4 DEF Sends
  <2> HIDE DEF n
  <2>3. Says(next, "asked", r.key, r.at, r.batch, r.unstamped, n)
    BY <1>0, <2>1, Changed
  <2>4. next \in Pass
    BY <2>3 DEF Says
  <2> HIDE DEF next, r
  <2>5. Turns(p, "asked", r.key, r.at, r.batch, r.unstamped, n)
    BY <1>1, <2>2, <2>3, <2>4
  <2> QED BY <2>5 DEF n
<1>5. ASSUME Opens(p)
      PROVE  \/ Turns(p, "open", r.key, Len(outbox), r.batch, r.unstamped, r.batches)
                /\ UNCHANGED <<gate, last>>
             \/ Turns(p, "idle", NoKey, 0, {}, {}, 0) /\ gate' = NoKey
                /\ last' = [key |-> r.key, at |-> Len(outbox)]
  BY <1>2, <1>5, Rests DEF Opens
<1>6. Classifies(p) => Turns(p, "classified", r.key, r.at, r.batch, r.unstamped, r.batches)
  BY <1>0, Goes DEF Classifies
<1>7. GoesOn(p) => Turns(p, "open", r.key, r.at, r.batch, r.unstamped, r.batches)
  BY <1>0, Goes DEF GoesOn
<1>8. ASSUME Collects(p)
      PROVE  \/ Turns(p, "boundary", r.key, r.at, r.batch, r.unstamped, r.batches)
             \/ \E n \in Rows : Turns(p, "collected", r.key, r.at, BatchTo(n),
                                      BatchTo(n) \cap Unstamped, r.batches)
  <2>1. CASE Go(p, "boundary")
    BY <1>0, <2>1, Goes
  <2>2. CASE \E n \in Rows : pass' = [pass EXCEPT ![p].phase = "collected", ![p].batch = BatchTo(n),
                                                  ![p].unstamped = BatchTo(n) \cap Unstamped]
    <3>1. PICK n \in Rows :
            pass' = [pass EXCEPT ![p].phase = "collected", ![p].batch = BatchTo(n),
                                 ![p].unstamped = BatchTo(n) \cap Unstamped]
      BY <2>2
    <3> DEFINE b == BatchTo(n)  u == BatchTo(n) \cap Unstamped
    <3>2. b \in SUBSET Nat /\ u \in SUBSET Nat
      BY <1>0 DEF BatchTo
    <3> HIDE DEF b, u
    <3>3. pass' = [pass EXCEPT ![p].phase = "collected", ![p].batch = b, ![p].unstamped = u]
      BY <3>1 DEF b, u
    <3>4. Turns(p, "collected", r.key, r.at, b, u, r.batches)
      BY <1>0, <1>3, <3>2, <3>3
    <3> QED BY <3>4 DEF b, u
  <2> QED BY <1>8, <2>1, <2>2 DEF Collects, BatchTo, Sent
<1>9. ASSUME Answered(p)
      PROVE  \/ Turns(p, "boundary", r.key, r.at, {}, {}, r.batches) /\ UNCHANGED <<gate, last>>
             \/ Turns(p, "idle", NoKey, 0, {}, {}, 0) /\ gate' = NoKey
                /\ last' = [key |-> r.key, at |-> r.at] /\ UNCHANGED <<outbox, bound>>
  <2>1. CASE pass' = [pass EXCEPT ![p].phase = "boundary", ![p].batch = {}, ![p].unstamped = {}]
             /\ UNCHANGED <<gate, last>>
    <3>1. {} \in SUBSET Nat /\ "boundary" \in Phases
      BY <1>0
    <3> QED BY <1>3, <2>1, <3>1
  <2>2. CASE Rest(p) /\ gate' = NoKey /\ last' = [key |-> r.key, at |-> r.at]
             /\ UNCHANGED <<outbox, bound>>
    BY <2>2, Rests
  <2> QED BY <1>9, <2>1, <2>2 DEF Answered
<1> QED BY <1>4, <1>5, <1>6, <1>7, <1>8, <1>9


(********************* what a step leaves as it was ***********************)

\* The step makes no row and takes none back: no row is unstamped or pending
\* that was not, and none has a promise that had none.
RowsKept ==
    /\ outbox' \in Seq(Row) /\ Rows' = Rows /\ Len(outbox') = Len(outbox)
    /\ loose \subseteq loose' /\ loose' \subseteq Rows
    /\ \A i \in Rows :
         /\ outbox'[i].entity = outbox[i].entity
         /\ outbox'[i].made = outbox[i].made /\ outbox'[i].owner = outbox[i].owner
         /\ outbox'[i].state = "pending" => outbox[i].state = "pending"
         /\ outbox'[i].stamp = NoKey => outbox[i].stamp = NoKey

\* The record of q, but for its count of batches.
Same(q) ==
    /\ pass'[q].phase = pass[q].phase /\ pass'[q].key = pass[q].key /\ pass'[q].at = pass[q].at
    /\ pass'[q].batch = pass[q].batch /\ pass'[q].unstamped = pass[q].unstamped

LEMMA FewerPromises ==
    ASSUME RowsKept, NEW i \in Rows, NEW k
    PROVE  /\ Promised(i)' => Promised(i)
           /\ Free(i)' => Free(i)
           /\ Sendable(k, i) => Sendable(k, i)'
BY DEF RowsKept, Promised, Free, Pending, Sendable

\* A pass that the step does not touch still knows what it knew: the gate is
\* still its own if it was, and the session used last has not moved past it.
LEMMA Undisturbed ==
    ASSUME KeysInv, RowsKept, NEW q \in Passes, Same(q), gate = q => gate' = q,
           \A i \in Rows : Free(i)' /\ StampedNext(i) => StampedNext(i)',
           pass[q].phase \in Opened => last'.at <= pass[q].at,
           pass[q].phase = "classified" => \A i \in Rows : Sent(i)' => Sent(i)
    PROVE  PassHolds(q)' /\ PassKnows(q)'
<1>1. PassHolds(q) /\ PassKnows(q)
  BY DEF KeysInv
<1>2. PassHolds(q)'
  BY <1>1 DEF PassHolds, Same, RowsKept
<1>3. ASSUME pass[q].phase \in {"loaded", "locked", "checked"}, NEW i \in Rows, Free(i)'
      PROVE  outbox'[i].made = pass[q].key \/ StampedNext(i)'
  BY <1>1, <1>3, FewerPromises DEF PassKnows, RowsKept
<1>4. ASSUME pass[q].phase \in Opened, NEW i \in Rows, Free(i)'
      PROVE  outbox'[i].made = pass[q].key
  BY <1>1, <1>4, FewerPromises DEF PassKnows, RowsKept
<1>5. ASSUME pass[q].phase = "classified", NEW i \in Rows, Sent(i)'
      PROVE  Sendable(pass[q].key, i)'
  <2>1. Sendable(pass[q].key, i)
    BY <1>1, <1>5 DEF PassKnows, Sent
  <2>2. pass'[q].key = pass[q].key
    BY DEF Same
  <2> QED BY <2>1, <2>2, FewerPromises DEF Sendable
<1>6. ASSUME pass[q].phase = "collected", NEW i \in pass[q].batch
      PROVE  Sendable(pass[q].key, i)'
  <2>1. i \in Rows /\ Sendable(pass[q].key, i)
    BY <1>1, <1>6 DEF PassKnows, PassHolds
  <2>2. pass'[q].key = pass[q].key
    BY DEF Same
  <2> QED BY <2>1, <2>2, FewerPromises DEF Sendable
<1>7. PassKnows(q)'
  <2>1. Rows' = Rows
    BY DEF RowsKept
  <2>2. pass[q].phase \in {"loaded", "locked", "checked"} =>
          \A i \in Rows' : Free(i)' => outbox'[i].made = pass'[q].key \/ StampedNext(i)'
    BY <1>3, <2>1 DEF Same
  <2>3. pass[q].phase \in Opened => \A i \in Rows' : Free(i)' => outbox'[i].made = pass'[q].key
    BY <1>4, <2>1 DEF Same
  <2>4. pass[q].phase = "classified" => \A i \in Rows' : Sent(i)' => Sendable(pass[q].key, i)'
    BY <1>5, <2>1
  <2>5. pass[q].phase = "collected" => \A i \in pass'[q].batch : Sendable(pass[q].key, i)'
    BY <1>6 DEF Same
  <2>6. pass'[q].phase = pass[q].phase
    BY DEF Same
  <2> QED BY <2>2, <2>3, <2>4, <2>5, <2>6 DEF PassKnows, Sent
<1> QED BY <1>2, <1>7

\* A row that keeps its stamp, and for which nothing else has changed.
LEMMA RowStays ==
    ASSUME RowsKept, NEW i \in Rows, RowFits(i), outbox'[i].stamp = outbox[i].stamp,
           outbox'[i].arrived = outbox[i].arrived, UNCHANGED <<auth, bound, last>>
    PROVE  RowFits(i)'
<1>1. ForeignOwner(outbox[i].made, outbox[i].entity)' = ForeignOwner(outbox[i].made, outbox[i].entity)
  BY DEF ForeignOwner, RowsKept
<1> QED BY <1>1, FewerPromises DEF RowsKept, RowFits, StampedNext

\* A step that leaves the rows, the bindings and the key logged in with.
LEMMA PassiveSteps ==
    ASSUME KeysInv, UNCHANGED <<auth, outbox, bound, last, loose>>,
           barrier' \in BOOLEAN, gate' \in Passes \cup {User, NoKey}, user' \in Command,
           pass' \in [Passes -> Pass],
           \A q \in Passes : \/ Same(q) /\ (gate = q => gate' = q)
                             \/ PassHolds(q)' /\ PassKnows(q)'
    PROVE  KeysInv'
<1>1. KeysTypeOK'
  BY DEF KeysInv, KeysTypeOK, Rows
<1>2. RowsKept
  BY DEF KeysInv, KeysTypeOK, Rows, RowsKept
<1>3. \A i \in Rows' : RowFits(i)'
  BY <1>2, RowStays DEF KeysInv, RowsKept
<1>4. ASSUME NEW q \in Passes, Same(q), gate = q => gate' = q
      PROVE  PassHolds(q)' /\ PassKnows(q)'
  <2>1. \A i \in Rows : Free(i)' /\ StampedNext(i) => StampedNext(i)'
    BY DEF StampedNext
  <2>2. pass[q].phase \in Opened => last'.at <= pass[q].at
    BY DEF KeysInv, PassHolds
  <2>3. \A i \in Rows : Sent(i)' => Sent(i)
    BY DEF Sent, Pending
  <2> QED BY <1>2, <1>4, <2>1, <2>2, <2>3, Undisturbed
<1>5. \A q \in Passes : PassHolds(q)' /\ PassKnows(q)'
  BY <1>4
<1>6. last'.at <= Len(outbox')
  BY DEF KeysInv
<1> QED BY <1>1, <1>3, <1>5, <1>6 DEF KeysInv


(**************** steps that leave the rows and the credential ************)

\* A pass that reads the key finds what RowFits says of the one logged in with.
LEMMA ReadsRight ==
    ASSUME KeysInv, Visible # NoKey, NEW i \in Rows, Free(i)
    PROVE  outbox[i].made = Visible \/ StampedNext(i)
<1>1. Visible = auth
  BY VisibleType DEF KeysInv
<1> QED BY <1>1 DEF KeysInv, RowFits

\* One pass turns, and the invariant of its own record is shown apart.
LEMMA PassTurns ==
    ASSUME KeysInv, NEW p \in Passes,
           NEW phase, NEW key, NEW at, NEW batch, NEW unstamped, NEW batches,
           Turns(p, phase, key, at, batch, unstamped, batches),
           UNCHANGED <<credentials, store, loose, user>>, gate' \in Passes \cup {User, NoKey},
           \A q \in Passes \ {p} : gate = q => gate' = q,
           Says(pass'[p], phase, key, at, batch, unstamped, batches) =>
             PassHolds(p)' /\ PassKnows(p)'
    PROVE  KeysInv'
<1>1. /\ pass' \in [Passes -> Pass] /\ Says(pass'[p], phase, key, at, batch, unstamped, batches)
      /\ \A q \in Passes \ {p} : pass'[q] = pass[q]
  BY Turned DEF KeysInv, KeysTypeOK
<1>2. ASSUME NEW q \in Passes
      PROVE  \/ Same(q) /\ (gate = q => gate' = q)
             \/ PassHolds(q)' /\ PassKnows(q)'
  <2>1. CASE q = p
    BY <1>1, <2>1
  <2>2. CASE q # p
    <3>1. pass'[q] = pass[q] /\ (gate = q => gate' = q)
      BY <1>1, <2>2
    <3> QED BY <3>1 DEF Same
  <2> QED BY <2>1, <2>2
<1>3. barrier' \in BOOLEAN /\ user' \in Command
  BY DEF credentials, KeysInv, KeysTypeOK
<1>4. UNCHANGED <<auth, outbox, bound, last, loose>>
  BY DEF credentials, store
<1> QED BY <1>1, <1>2, <1>3, <1>4, PassiveSteps

LEMMA RestsWell ==
    ASSUME NEW p \in Passes, pass'[p].phase = "idle"
    PROVE  PassHolds(p)' /\ PassKnows(p)'
BY DEF PassHolds, PassKnows, Opened

LEMMA EntrySteps ==
    ASSUME KeysInv, NEW p \in Passes,
           Load(p) \/ GivesUp(p) \/ Locks(p) \/ LoadsLocked(p) \/ Checks(p) \/ PassBreaks(p)
    PROVE  KeysInv'
<1> USE DEF Says
<1>0. KeysTypeOK /\ gate \in Passes \cup {User, NoKey} /\ NoKey \notin Passes
      /\ PassHolds(p) /\ PassKnows(p)
  BY KeysAssumption DEF KeysInv, KeysTypeOK
<1>1. CASE Load(p)
  <2>1. Turns(p, "loaded", Visible, pass[p].at, pass[p].batch, pass[p].unstamped, pass[p].batches)
    BY <1>0, <1>1, EntryMoves
  <2>2. UNCHANGED <<credentials, store, loose, user>> /\ gate' = gate /\ Visible # NoKey
    BY <1>1 DEF Load
  <2>3. ASSUME pass'[p].phase = "loaded", pass'[p].key = Visible
        PROVE  PassHolds(p)' /\ PassKnows(p)'
    BY <2>2, <2>3, ReadsRight
       DEF PassHolds, PassKnows, Opened, store, credentials, Rows, Free, Promised, Pending, StampedNext
  <2> QED BY <1>0, <2>1, <2>2, <2>3, PassTurns
<1>2. CASE GivesUp(p) \/ PassBreaks(p)
  <2>1. Turns(p, "idle", NoKey, 0, {}, {}, 0)
    BY <1>0, <1>2, EntryMoves
  <2>2. /\ UNCHANGED <<credentials, store, loose, user>> /\ gate' \in Passes \cup {User, NoKey}
        /\ \A q \in Passes \ {p} : gate = q => gate' = q
    BY <1>0, <1>2 DEF GivesUp, PassBreaks
  <2> QED BY <2>1, <2>2, RestsWell, PassTurns
<1>3. CASE Locks(p)
  <2>0. /\ UNCHANGED <<credentials, store, loose, user>> /\ gate' = p /\ gate = NoKey
        /\ pass[p].phase \in {"idle", "loaded"}
    BY <1>3 DEF Locks
  <2>1. CASE pass[p].phase = "loaded"
    <3>1. Turns(p, "locked", pass[p].key, pass[p].at, pass[p].batch, pass[p].unstamped,
                pass[p].batches)
      BY <1>0, <1>3, <2>1, EntryMoves
    <3>2. ASSUME pass'[p].phase = "locked", pass'[p].key = pass[p].key
          PROVE  PassHolds(p)' /\ PassKnows(p)'
      BY <1>0, <2>0, <2>1, <3>2
         DEF PassHolds, PassKnows, Opened, store, Rows, Free, Promised, Pending, StampedNext
    <3> QED BY <1>0, <2>0, <3>1, <3>2, PassTurns
  <2>2. CASE pass[p].phase # "loaded"
    <3>1. Turns(p, "unread", pass[p].key, pass[p].at, pass[p].batch, pass[p].unstamped,
                pass[p].batches)
      BY <1>0, <1>3, <2>2, EntryMoves
    <3>2. ASSUME pass'[p].phase = "unread" PROVE PassHolds(p)' /\ PassKnows(p)'
      BY <2>0, <3>2 DEF PassHolds, PassKnows, Opened
    <3> QED BY <1>0, <2>0, <3>1, <3>2, PassTurns
  <2> QED BY <2>1, <2>2
<1>4. CASE LoadsLocked(p)
  <2>0. /\ UNCHANGED <<credentials, store, loose, user>> /\ gate = p
        /\ Visible = NoKey => gate' = NoKey
        /\ Visible # NoKey => gate' = gate
    BY <1>0, <1>4 DEF LoadsLocked, PassHolds
  <2>1. CASE Visible = NoKey
    <3>1. Turns(p, "idle", NoKey, 0, {}, {}, 0)
      BY <1>0, <1>4, <2>1, EntryMoves
    <3> QED BY <1>0, <2>0, <2>1, <3>1, RestsWell, PassTurns
  <2>2. CASE Visible # NoKey
    <3>1. Turns(p, "locked", Visible, pass[p].at, pass[p].batch, pass[p].unstamped,
                pass[p].batches)
      BY <1>0, <1>4, <2>2, EntryMoves
    <3>2. ASSUME pass'[p].phase = "locked", pass'[p].key = Visible
          PROVE  PassHolds(p)' /\ PassKnows(p)'
      BY <2>0, <2>2, <3>2, ReadsRight
         DEF PassHolds, PassKnows, Opened, store, credentials, Rows, Free, Promised, Pending,
             StampedNext
    <3> QED BY <1>0, <2>0, <2>2, <3>1, <3>2, PassTurns
  <2> QED BY <2>1, <2>2
<1>5. CASE Checks(p)
  <2>0. /\ UNCHANGED <<credentials, store, loose, user>> /\ gate = p /\ pass[p].phase = "locked"
        /\ barrier => gate' = NoKey
        /\ ~barrier => gate' = gate
    BY <1>0, <1>5 DEF Checks, PassHolds
  <2>1. CASE barrier
    <3>1. Turns(p, "idle", NoKey, 0, {}, {}, 0)
      BY <1>0, <1>5, <2>1, EntryMoves
    <3> QED BY <1>0, <2>0, <2>1, <3>1, RestsWell, PassTurns
  <2>2. CASE ~barrier
    <3>1. Turns(p, "checked", pass[p].key, pass[p].at, pass[p].batch, pass[p].unstamped,
                pass[p].batches)
      BY <1>0, <1>5, <2>2, EntryMoves
    <3>2. ASSUME pass'[p].phase = "checked", pass'[p].key = pass[p].key
          PROVE  PassHolds(p)' /\ PassKnows(p)'
      BY <1>0, <2>0, <2>2, <3>2
         DEF PassHolds, PassKnows, Opened, store, Rows, Free, Promised, Pending, StampedNext
    <3> QED BY <1>0, <2>0, <2>2, <3>1, <3>2, PassTurns
  <2> QED BY <2>1, <2>2
<1> QED BY <1>1, <1>2, <1>3, <1>4, <1>5


LEMMA BatchSteps ==
    ASSUME KeysInv, NEW p \in Passes, Collects(p) \/ GoesOn(p)
    PROVE  KeysInv'
<1> USE DEF Says
<1>0. /\ KeysTypeOK /\ gate \in Passes \cup {User, NoKey} /\ PassHolds(p) /\ PassKnows(p)
      /\ UNCHANGED <<credentials, store, loose, user>> /\ gate' = gate
      /\ pass[p].phase \in {"classified", "boundary"}
  BY DEF KeysInv, KeysTypeOK, Collects, GoesOn
<1>1. CASE GoesOn(p)
  <2>1. Turns(p, "open", pass[p].key, pass[p].at, pass[p].batch, pass[p].unstamped, pass[p].batches)
    BY <1>0, <1>1, SessionMoves
  <2>2. ASSUME pass'[p].phase = "open", pass'[p].key = pass[p].key, pass'[p].at = pass[p].at
        PROVE  PassHolds(p)' /\ PassKnows(p)'
    BY <1>0, <2>2 DEF PassHolds, PassKnows, Opened, store, Rows, Free, Promised, Pending
  <2> QED BY <1>0, <2>1, <2>2, PassTurns
<1>2. CASE Collects(p)
  <2>0. pass[p].phase = "classified"
    BY <1>2 DEF Collects
  <2>1. CASE Turns(p, "boundary", pass[p].key, pass[p].at, pass[p].batch, pass[p].unstamped,
                   pass[p].batches)
    <3>1. ASSUME pass'[p].phase = "boundary", pass'[p].key = pass[p].key, pass'[p].at = pass[p].at
          PROVE  PassHolds(p)' /\ PassKnows(p)'
      BY <1>0, <3>1 DEF PassHolds, PassKnows, Opened, store, Rows, Free, Promised, Pending
    <3> QED BY <1>0, <2>1, <3>1, PassTurns
  <2>2. ASSUME NEW n \in Rows,
               Turns(p, "collected", pass[p].key, pass[p].at, BatchTo(n),
                     BatchTo(n) \cap Unstamped, pass[p].batches)
        PROVE  KeysInv'
    <3> DEFINE b == BatchTo(n)  u == BatchTo(n) \cap Unstamped
    <3>1. /\ b \subseteq Rows /\ u \subseteq b
          /\ \A i \in b : Pending(i) /\ ~outbox[i].held
      BY DEF BatchTo, Sent
    <3>2. \A i \in b : Sendable(pass[p].key, i)
      BY <1>0, <2>0, <3>1 DEF PassKnows
    <3> HIDE DEF b, u
    <3>3. PICK c \in SUBSET Rows : c = b
      BY <3>1
    <3>4. PICK d \in SUBSET c : d = u
      BY <3>1, <3>3
    <3>5. Turns(p, "collected", pass[p].key, pass[p].at, c, d, pass[p].batches)
      BY <2>2, <3>3, <3>4 DEF b, u
    <3>6. ASSUME pass'[p].phase = "collected", pass'[p].key = pass[p].key, pass'[p].at = pass[p].at,
                 pass'[p].batch = c, pass'[p].unstamped = d
          PROVE  PassHolds(p)' /\ PassKnows(p)'
      <4>1. PassHolds(p)'
        BY <1>0, <2>0, <3>6 DEF PassHolds, Opened, store, Rows
      <4>2. \A i \in c : Sendable(pass[p].key, i)'
        BY <1>0, <3>2, <3>3, <3>6 DEF Sendable, Promised, store
      <4>3. \A i \in Rows' : Free(i)' => outbox'[i].made = pass'[p].key
        BY <1>0, <2>0, <3>6 DEF PassKnows, Opened, store, Rows, Free, Promised, Pending
      <4> QED BY <3>6, <4>1, <4>2, <4>3 DEF PassKnows
    <3> QED BY <1>0, <3>5, <3>6, PassTurns
  <2> QED BY <1>0, <1>2, <2>1, <2>2, SessionMoves
<1> QED BY <1>1, <1>2

\* The auth command, where it changes neither the rows nor the credential.
LEMMA CommandSteps ==
    ASSUME KeysInv,
           \/ \E k \in Keys : LoginBegins(k)
           \/ LoginClears \/ LogoutBegins \/ LogoutRaises \/ LogoutWaits \/ AuthBreaks
    PROVE  KeysInv'
<1>0. /\ KeysTypeOK /\ user \in Command /\ Ready \in Command /\ barrier \in BOOLEAN
      /\ gate \in Passes \cup {User, NoKey} /\ pass \in [Passes -> Pass]
      /\ User \notin Passes /\ NoKey \notin Passes /\ Visible \in Keys \cup {NoKey}
  BY KeysAssumption, VisibleType DEF KeysInv, KeysTypeOK, Ready, Command
<1>1. UNCHANGED <<auth, outbox, bound, last, loose>>
  BY DEF LoginBegins, LoginClears, LogoutBegins, LogoutRaises, LogoutWaits, AuthBreaks,
         credentials, store
<1>2. barrier' \in BOOLEAN
  BY <1>0 DEF LoginBegins, LoginClears, LogoutBegins, LogoutRaises, LogoutWaits, AuthBreaks,
              credentials
<1>3. gate' \in Passes \cup {User, NoKey} /\ \A q \in Passes : gate = q => gate' = q
  BY <1>0 DEF LoginBegins, LoginClears, LogoutBegins, LogoutRaises, LogoutWaits, AuthBreaks
<1>4. user' \in Command
  <2>1. ASSUME NEW k \in Keys, LoginBegins(k) PROVE user' \in Command
    BY <1>0, <2>1 DEF LoginBegins, Command
  <2>2. CASE LogoutBegins
    BY <1>0, <2>2 DEF LogoutBegins, Command
  <2>3. CASE LogoutRaises \/ LogoutWaits
    BY <1>0, <2>3 DEF LogoutRaises, LogoutWaits, Command
  <2>4. CASE LoginClears \/ AuthBreaks
    BY <1>0, <2>4 DEF LoginClears, AuthBreaks
  <2> QED BY <2>1, <2>2, <2>3, <2>4
<1>5. pass' \in [Passes -> Pass] /\ \A q \in Passes : Same(q)
  <2>1. CASE LogoutRaises
    <3>1. ASSUME NEW q \in Passes
          PROVE  LET r == pass[q] IN
                 Says([r EXCEPT !.batches = 0], r.phase, r.key, r.at, r.batch, r.unstamped, 0)
      <4> DEFINE r == pass[q]
      <4>1. r \in Pass /\ r.phase \in Phases /\ r.key \in Keys \cup {NoKey} /\ r.batch \in SUBSET Nat
            /\ r.unstamped \in SUBSET Nat
        BY <1>0, PassFields
      <4> QED BY <4>1, Changed
    <3>2. pass' = [q \in Passes |-> [pass[q] EXCEPT !.batches = 0]]
      BY <2>1 DEF LogoutRaises
    <3> QED BY <3>1, <3>2 DEF Says, Same
  <2>2. CASE pass' = pass
    BY <1>0, <2>2 DEF Same
  <2> QED BY <2>1, <2>2 DEF LoginBegins, LoginClears, LogoutBegins, LogoutWaits, AuthBreaks
<1> QED BY <1>1, <1>2, <1>3, <1>4, <1>5, PassiveSteps


(********************** stamps and changes of credential ******************)

\* What Stamped does to each row.
LEMMA StampedRows ==
    ASSUME outbox \in Seq(Row), NEW is \in SUBSET Nat, NEW k \in Keys \cup {NoKey}
    PROVE  /\ DOMAIN Stamped(is, k) = Rows
           /\ \A i \in Rows :
                /\ Stamped(is, k)[i] \in Row
                /\ Stamped(is, k)[i].entity = outbox[i].entity
                /\ Stamped(is, k)[i].made = outbox[i].made
                /\ Stamped(is, k)[i].owner = outbox[i].owner
                /\ Stamped(is, k)[i].state = outbox[i].state
                /\ Stamped(is, k)[i].held = outbox[i].held
                /\ Stamped(is, k)[i].arrived = outbox[i].arrived
                /\ Stamped(is, k)[i].stamp = IF i \in is THEN k ELSE outbox[i].stamp
<1>1. \A i \in Rows : outbox[i] \in Row
  BY RowsAre
<1>2. ASSUME NEW i \in Rows
      PROVE  /\ Stamped(is, k)[i] \in Row
             /\ Stamped(is, k)[i].entity = outbox[i].entity
             /\ Stamped(is, k)[i].made = outbox[i].made
             /\ Stamped(is, k)[i].owner = outbox[i].owner
             /\ Stamped(is, k)[i].state = outbox[i].state
             /\ Stamped(is, k)[i].held = outbox[i].held
             /\ Stamped(is, k)[i].arrived = outbox[i].arrived
             /\ Stamped(is, k)[i].stamp = IF i \in is THEN k ELSE outbox[i].stamp
  BY <1>1, <1>2 DEF Stamped, Row
<1> QED BY <1>2 DEF Stamped

\* The credential and the bindings stay, and every promised row that is given a
\* stamp was made under it.
LEMMA StampSteps ==
    ASSUME KeysInv, LoginStamps \/ LogoutStamps PROVE KeysInv'
<1> DEFINE k == user.leaving
<1>1. /\ KeysTypeOK /\ outbox \in Seq(Row) /\ k \in Keys \cup {NoKey} /\ user \in Command
      /\ outbox' = Stamped(Unstamped, k) /\ loose' = loose \cup LooseByStamp(k)
      /\ user' \in Command /\ UNCHANGED <<auth, barrier, gate, bound, last, pass>>
  BY DEF KeysInv, KeysTypeOK, Command, LoginStamps, LogoutStamps, StampOutgoing, credentials
<1> HIDE DEF k
<1>2. Len(outbox) \in Nat /\ Rows = 1..Len(outbox) /\ Unstamped \in SUBSET Nat
  BY <1>1, RowsAre DEF Unstamped
<1>3. /\ outbox' \in Seq(Row) /\ Rows' = Rows /\ Len(outbox') = Len(outbox)
      /\ \A i \in Rows :
           /\ outbox'[i].entity = outbox[i].entity /\ outbox'[i].made = outbox[i].made
           /\ outbox'[i].owner = outbox[i].owner /\ outbox'[i].state = outbox[i].state
           /\ outbox'[i].held = outbox[i].held /\ outbox'[i].arrived = outbox[i].arrived
           /\ outbox'[i].stamp = IF i \in Unstamped THEN k ELSE outbox[i].stamp
  <2> DEFINE s == Stamped(Unstamped, k)
  <2>1. /\ DOMAIN s = Rows
        /\ \A i \in Rows :
             /\ s[i] \in Row /\ s[i].entity = outbox[i].entity /\ s[i].made = outbox[i].made
             /\ s[i].owner = outbox[i].owner /\ s[i].state = outbox[i].state
             /\ s[i].held = outbox[i].held /\ s[i].arrived = outbox[i].arrived
             /\ s[i].stamp = IF i \in Unstamped THEN k ELSE outbox[i].stamp
    BY <1>1, <1>2, StampedRows
  <2>2. s = [i \in Rows |-> s[i]]
    BY DEF Stamped
  <2> HIDE DEF s
  <2>3. outbox' = s
    BY <1>1 DEF s
  <2>4. outbox' \in Seq(Row) /\ Rows' = Rows /\ Len(outbox') = Len(outbox)
    BY <1>1, <1>2, <2>1, <2>2, <2>3, Rewritten
  <2> QED BY <2>1, <2>3, <2>4
<1>4. LooseByStamp(k) \subseteq Rows /\ loose \subseteq Rows
  BY DEF LooseByStamp, Unstamped, KeysInv, KeysTypeOK
<1>5. RowsKept
  BY <1>1, <1>3, <1>4 DEF RowsKept, Unstamped
<1>6. KeysTypeOK'
  BY <1>1, <1>3, <1>5 DEF KeysTypeOK, RowsKept
<1>7. ASSUME NEW i \in Rows PROVE RowFits(i)'
  <2>1. RowFits(i)
    BY DEF KeysInv
  <2>2. CASE i \notin Unstamped
    BY <1>1, <1>3, <1>5, <2>1, <2>2, RowStays
  <2>3. CASE i \in Unstamped
    <3>1. Promised(i)' => Promised(i) /\ k = outbox[i].made
      BY <1>1, <1>3, <1>5, <2>3, FewerPromises DEF Promised, LooseByStamp
    <3>2. ~Free(i)'
      BY <1>3, <2>3, <3>1 DEF Free, Promised
    <3> QED BY <1>3, <2>1, <2>3, <3>1, <3>2 DEF RowFits
  <2> QED BY <2>2, <2>3
<1>8. ASSUME NEW q \in Passes PROVE PassHolds(q)' /\ PassKnows(q)'
  <2>1. Same(q) /\ gate' = gate
    BY <1>1 DEF Same
  <2>2. \A i \in Rows : Free(i)' /\ StampedNext(i) => StampedNext(i)'
    BY <1>1, <1>3 DEF StampedNext
  <2>3. pass[q].phase \in Opened => last'.at <= pass[q].at
    BY <1>1 DEF KeysInv, PassHolds
  <2>4. \A i \in Rows : Sent(i)' => Sent(i)
    BY <1>3 DEF Sent, Pending
  <2> QED BY <1>5, <2>1, <2>2, <2>3, <2>4, Undisturbed
<1>9. last'.at <= Len(outbox')
  BY <1>1, <1>3 DEF KeysInv
<1> QED BY <1>3, <1>6, <1>7, <1>8, <1>9 DEF KeysInv

\* Another credential: no promise is left for a row of another key, unless the
\* session of the new key stamps it.
LEMMA CredentialSteps ==
    ASSUME KeysInv, LoginStores \/ LogoutForgets \/ \E k \in Keys : ReplaceByHand(k)
    PROVE  KeysInv'
<1>0. /\ KeysTypeOK /\ user \in Command /\ Ready \in Command
      /\ User \notin Passes /\ NoKey \notin Passes /\ gate \in Passes \cup {User, NoKey}
  BY KeysAssumption DEF KeysInv, KeysTypeOK, Ready, Command
<1>1. PICK k \in Keys \cup {NoKey} : auth' = k /\ loose' = loose \cup LooseBySwitch(k)
  <2>1. CASE LoginStores
    BY <1>0, <2>1 DEF LoginStores, Command
  <2>2. CASE LogoutForgets
    BY <2>2 DEF LogoutForgets
  <2>3. CASE \E k \in Keys : ReplaceByHand(k)
    BY <2>3 DEF ReplaceByHand
  <2> QED BY <2>1, <2>2, <2>3
<1>2. /\ UNCHANGED <<barrier, outbox, bound, last, pass>> /\ user' \in Command
      /\ gate' \in Passes \cup {User, NoKey} /\ \A q \in Passes : gate = q => gate' = q
  <2>1. CASE LoginStores
    BY <1>0, <2>1 DEF LoginStores, Command, store
  <2>2. CASE LogoutForgets
    BY <1>0, <2>2 DEF LogoutForgets, store
  <2>3. CASE \E w \in Keys : ReplaceByHand(w)
    BY <1>0, <2>3 DEF ReplaceByHand, store
  <2> QED BY <2>1, <2>2, <2>3
<1>3. LooseBySwitch(k) \subseteq Rows
  BY DEF LooseBySwitch, Unstamped
<1>4. RowsKept
  BY <1>0, <1>1, <1>2, <1>3 DEF RowsKept, KeysTypeOK, Rows
<1>5. KeysTypeOK'
  BY <1>0, <1>1, <1>2, <1>4 DEF KeysTypeOK, RowsKept
<1>6. ASSUME NEW i \in Rows PROVE RowFits(i)'
  <2>1. RowFits(i) /\ (Promised(i)' => Promised(i)) /\ (Free(i)' => Free(i))
    BY <1>4, FewerPromises DEF KeysInv
  <2>2. Free(i)' => outbox[i].made = k \/ StampedNext(i)
    BY <1>1, <1>2 DEF Free, Promised, Pending, LooseBySwitch, Unstamped, StampedNext
  <2>3. StampedNext(i)' <=> StampedNext(i)
    BY <1>2 DEF StampedNext
  <2>4. ForeignOwner(outbox[i].made, outbox[i].entity)' = ForeignOwner(outbox[i].made, outbox[i].entity)
    BY <1>2 DEF ForeignOwner
  <2> QED BY <1>1, <1>2, <2>1, <2>2, <2>3, <2>4 DEF RowFits
<1>7. ASSUME NEW q \in Passes PROVE PassHolds(q)' /\ PassKnows(q)'
  <2>1. Same(q) /\ (gate = q => gate' = q)
    BY <1>2 DEF Same
  <2>2. \A i \in Rows : Free(i)' /\ StampedNext(i) => StampedNext(i)'
    BY <1>2 DEF StampedNext
  <2>3. pass[q].phase \in Opened => last'.at <= pass[q].at
    BY <1>2 DEF KeysInv, PassHolds
  <2>4. \A i \in Rows : Sent(i)' => Sent(i)
    BY <1>2 DEF Sent, Pending
  <2> QED BY <1>4, <2>1, <2>2, <2>3, <2>4, Undisturbed
<1>8. last'.at <= Len(outbox') /\ Rows' = Rows
  BY <1>2, <1>4 DEF KeysInv, RowsKept
<1> QED BY <1>5, <1>6, <1>7, <1>8 DEF KeysInv


(****************************** a new change ******************************)

\* A change is made under the key logged in with; a pass that holds another one
\* leaves it without a promise.
LEMMA ChangeSteps ==
    ASSUME KeysInv, NEW e \in Memories, Change(e) PROVE KeysInv'
<1>0. PICK n \in Nat : n = Len(outbox)
  BY RowsAre DEF KeysInv, KeysTypeOK
<1> DEFINE owner == IF Visible # NoKey /\ ForeignOwner(Visible, e) # NoKey
                    THEN ForeignOwner(Visible, e) ELSE Visible
           new == [entity |-> e, made |-> Visible, stamp |-> NoKey, held |-> FALSE,
                   state |-> "pending", owner |-> owner, arrived |-> {}]
<1>1. /\ KeysTypeOK /\ outbox \in Seq(Row) /\ Rows = 1..n
      /\ Visible \in Keys \cup {NoKey} /\ Visible \in {auth, NoKey}
  BY <1>0, RowsAre, VisibleType DEF KeysInv, KeysTypeOK
<1>2. owner \in Keys \cup {NoKey}
  <2>1. bound[e] \in Binding
    BY <1>1 DEF KeysTypeOK
  <2> QED BY <1>1, <2>1 DEF ForeignOwner, Binding
<1>3. new \in Row
  BY <1>1, <1>2 DEF Row
<1>4. /\ outbox' = Append(outbox, new)
      /\ loose' = IF LooseByTiming(Visible) THEN loose \cup {n + 1} ELSE loose
      /\ UNCHANGED <<auth, barrier, gate, bound, last, pass, user>>
  BY <1>0 DEF Change, credentials
<1>5. /\ outbox' \in Seq(Row) /\ Len(outbox') = n + 1 /\ Rows' = 1..(n + 1)
      /\ \A i \in Rows : outbox'[i] = outbox[i]
      /\ outbox'[n + 1] = new
  <2> HIDE DEF new
  <2> QED BY <1>0, <1>1, <1>3, <1>4 DEF Rows
<1>6. /\ new.entity = e /\ new.made = Visible /\ new.stamp = NoKey /\ new.owner = owner
      /\ new.arrived = {} /\ ~new.held
  OBVIOUS
<1>7. owner = IF Visible # NoKey /\ ForeignOwner(Visible, e) # NoKey
              THEN ForeignOwner(Visible, e) ELSE Visible
  OBVIOUS
<1> HIDE DEF new, owner
<1>8. KeysTypeOK'
  <2>1. loose' \subseteq Rows'
    BY <1>1, <1>4, <1>5 DEF KeysTypeOK
  <2> QED BY <1>1, <1>4, <1>5, <2>1 DEF KeysTypeOK
<1>9. last'.at <= Len(outbox') /\ last.at \in Nat /\ last.at <= n
  BY <1>0, <1>1, <1>4, <1>5 DEF KeysInv, KeysTypeOK
<1>10. \A i \in Rows : /\ Promised(i)' => Promised(i)
                       /\ Free(i)' => Free(i)
                       /\ StampedNext(i)' <=> StampedNext(i)
  BY <1>4, <1>5 DEF Promised, Free, Pending, StampedNext
<1>11. ASSUME NEW i \in Rows' PROVE RowFits(i)'
  <2>1. CASE i \in Rows
    <3>1. RowFits(i)
      BY <2>1 DEF KeysInv
    <3>2. ForeignOwner(outbox[i].made, outbox[i].entity)' = ForeignOwner(outbox[i].made, outbox[i].entity)
      BY <1>4, <1>5, <2>1 DEF ForeignOwner
    <3> QED BY <1>4, <1>5, <1>10, <2>1, <3>1, <3>2 DEF RowFits
  <2>2. CASE i = n + 1
    <3>1. outbox'[i].stamp = NoKey /\ outbox'[i].arrived = {} /\ outbox'[i].made = Visible
          /\ outbox'[i].entity = e /\ outbox'[i].owner = owner
      BY <1>5, <1>6, <2>2
    <3>2. Free(i)' => Visible # NoKey
      BY <3>1 DEF Free, Promised
    <3>3. Free(i)' => outbox'[i].made = auth'
      BY <1>1, <1>4, <3>1, <3>2
    <3>4. ~(i <= last'.at)
      BY <1>1, <1>4, <1>9, <2>2
    <3>5. Visible # NoKey => ForeignOwner(Visible, e) \in {NoKey, owner}
      BY <1>7
    <3>6. ForeignOwner(outbox[i].made, outbox[i].entity)' = ForeignOwner(Visible, e)
      BY <1>4, <3>1 DEF ForeignOwner
    <3> QED BY <3>1, <3>2, <3>3, <3>4, <3>5, <3>6 DEF RowFits
  <2> QED BY <1>1, <1>5, <2>1, <2>2
<1>12. ASSUME NEW q \in Passes, pass[q].phase # "idle", pass[q].key # NoKey, Promised(n + 1)'
       PROVE  outbox'[n + 1].made = pass[q].key
  <2>1. Visible # NoKey /\ outbox'[n + 1].made = Visible
    BY <1>5, <1>6, <1>12 DEF Promised
  <2>2. ~LooseByTiming(Visible)
    BY <1>4, <1>12 DEF Promised
  <2> QED BY <1>12, <2>1, <2>2 DEF LooseByTiming, Elsewhere
<1>13. ASSUME NEW q \in Passes PROVE PassHolds(q)' /\ PassKnows(q)'
  <2>1. PassHolds(q) /\ PassKnows(q) /\ pass'[q] = pass[q] /\ gate' = gate /\ last' = last
        /\ pass[q].at \in Nat
    BY <1>1, <1>4 DEF KeysInv, KeysTypeOK, Pass
  <2>2. PassHolds(q)'
    BY <1>0, <1>1, <1>5, <2>1 DEF PassHolds
  <2>3. \A i \in Rows' : i \in Rows \/ i = n + 1
    BY <1>1, <1>5
  <2>4. pass[q].phase \in {"loaded", "locked", "checked"} \cup Opened => pass[q].key # NoKey
    BY <2>1 DEF PassHolds, Opened
  <2>5. pass[q].phase \in {"loaded", "locked", "checked"} \cup Opened => pass[q].phase # "idle"
    BY DEF Opened
  <2>6. Free(n + 1)' => Promised(n + 1)'
    BY DEF Free
  <2>7. ASSUME pass[q].phase \in {"loaded", "locked", "checked"}, NEW i \in Rows', Free(i)'
        PROVE  outbox'[i].made = pass[q].key \/ StampedNext(i)'
    BY <1>5, <1>10, <1>12, <2>1, <2>3, <2>4, <2>5, <2>6, <2>7 DEF PassKnows
  <2>8. ASSUME pass[q].phase \in Opened, NEW i \in Rows', Free(i)'
        PROVE  outbox'[i].made = pass[q].key
    BY <1>5, <1>10, <1>12, <2>1, <2>3, <2>4, <2>5, <2>6, <2>8 DEF PassKnows
  <2>9. \A i \in Rows : Sendable(pass[q].key, i) => Sendable(pass[q].key, i)'
    BY <1>5, <1>10, <2>1 DEF Sendable
  <2>10. ASSUME pass[q].phase = "classified", NEW i \in Rows', Sent(i)'
         PROVE  Sendable(pass[q].key, i)'
    <3>1. CASE i \in Rows
      BY <1>5, <2>1, <2>9, <2>10, <3>1 DEF PassKnows, Sent, Pending
    <3>2. CASE i = n + 1
      BY <1>12, <2>1, <2>4, <2>5, <2>10, <3>2 DEF Sendable, Opened
    <3> QED BY <2>3, <3>1, <3>2
  <2>11. ASSUME pass[q].phase = "collected", NEW i \in pass[q].batch
         PROVE  Sendable(pass[q].key, i)'
    <3>1. i \in Rows /\ Sendable(pass[q].key, i)
      BY <2>1, <2>11 DEF PassHolds, PassKnows
    <3> QED BY <2>9, <3>1
  <2>12. PassKnows(q)'
    BY <2>1, <2>7, <2>8, <2>10, <2>11 DEF PassKnows, Sent
  <2> QED BY <2>2, <2>12
<1> QED BY <1>8, <1>9, <1>11, <1>13 DEF KeysInv

\* A pull binds an entity that has no change pending.
LEMMA PullSteps ==
    ASSUME KeysInv, NEW p \in Passes, NEW e \in Memories, Pulls(p, e) PROVE KeysInv'
<1>1. /\ KeysTypeOK /\ bound \in [Memories -> Binding] /\ pass[p].key \in Keys \cup {NoKey}
      /\ PassHolds(p) /\ pass[p].phase = "open"
      /\ bound' = [bound EXCEPT ![e] = BoundTo(pass[p].key, e)]
      /\ \A i \in Rows : Pending(i) => outbox[i].entity # e
      /\ UNCHANGED <<auth, barrier, gate, outbox, last, pass, user, loose>>
  BY PassFields DEF KeysInv, KeysTypeOK, Pulls, credentials
<1>2. bound' \in [Memories -> Binding]
  <2>1. pass[p].key \in Keys
    BY <1>1 DEF PassHolds
  <2>2. BoundTo(pass[p].key, e) \in Binding
    BY <1>1, <2>1 DEF BoundTo, Binding
  <2> QED BY <1>1, <2>2
<1>3. KeysTypeOK' /\ Rows' = Rows
  BY <1>1, <1>2 DEF KeysTypeOK, Rows
<1>4. RowsKept
  BY <1>1, <1>3 DEF RowsKept, KeysTypeOK
<1>5. ASSUME NEW i \in Rows PROVE RowFits(i)'
  <2>1. RowFits(i) /\ (Free(i)' => Free(i)) /\ (Promised(i)' => Promised(i))
    BY <1>4, FewerPromises DEF KeysInv
  <2>2. Free(i) => ForeignOwner(outbox[i].made, outbox[i].entity)'
                   = ForeignOwner(outbox[i].made, outbox[i].entity)
    BY <1>1 DEF Free, ForeignOwner
  <2> QED BY <1>1, <2>1, <2>2 DEF RowFits, StampedNext
<1>6. ASSUME NEW q \in Passes PROVE PassHolds(q)' /\ PassKnows(q)'
  <2>1. Same(q) /\ gate' = gate
    BY <1>1 DEF Same
  <2>2. \A i \in Rows : Free(i)' /\ StampedNext(i) => StampedNext(i)'
    BY <1>1 DEF StampedNext
  <2>3. pass[q].phase \in Opened => last'.at <= pass[q].at
    BY <1>1 DEF KeysInv, PassHolds
  <2>4. \A i \in Rows : Sent(i)' => Sent(i)
    BY <1>1 DEF Sent, Pending
  <2> QED BY <1>4, <2>1, <2>2, <2>3, <2>4, Undisturbed
<1>7. last'.at <= Len(outbox')
  BY <1>1 DEF KeysInv
<1> QED BY <1>3, <1>5, <1>6, <1>7 DEF KeysInv


(****************************** an open session ***************************)

\* A step of the pass that holds the gate; the others are idle or have only
\* read the key, and the session used last may move for them.
LEMMA SessionStep ==
    ASSUME KeysInv, NEW p \in Passes, gate = p, RowsKept,
           NEW phase, NEW key, NEW at, NEW batch, NEW unstamped, NEW batches,
           Turns(p, phase, key, at, batch, unstamped, batches),
           UNCHANGED <<credentials, user>>, gate' \in {p, NoKey},
           bound' \in [Memories -> Binding], last' \in [key : Keys \cup {NoKey}, at : Nat],
           last'.at <= Len(outbox),
           \A i \in Rows : RowFits(i)' /\ (Free(i)' /\ StampedNext(i) => StampedNext(i)'),
           Says(pass'[p], phase, key, at, batch, unstamped, batches) =>
             PassHolds(p)' /\ PassKnows(p)'
    PROVE  KeysInv'
<1>1. /\ pass' \in [Passes -> Pass] /\ Says(pass'[p], phase, key, at, batch, unstamped, batches)
      /\ \A q \in Passes \ {p} : pass'[q] = pass[q]
  BY Turned DEF KeysInv, KeysTypeOK
<1>2. ASSUME NEW q \in Passes \ {p} PROVE PassHolds(q)' /\ PassKnows(q)'
  <2>1. gate # q /\ Same(q)
    BY <1>1 DEF Same
  <2>2. pass[q].phase \notin Opened /\ pass[q].phase # "classified"
    BY <2>1 DEF KeysInv, PassHolds, Opened
  <2> QED BY <2>1, <2>2, Undisturbed
<1>3. \A q \in Passes : PassHolds(q)' /\ PassKnows(q)'
  BY <1>1, <1>2
<1>4. KeysTypeOK'
  BY <1>1 DEF KeysInv, KeysTypeOK, RowsKept, credentials
<1> QED BY <1>3, <1>4 DEF KeysInv, RowsKept

\* Rows that nothing is written to.
LEMMA RowsUntouched ==
    ASSUME KeysInv, UNCHANGED <<outbox, loose>> PROVE RowsKept
BY DEF KeysInv, KeysTypeOK, RowsKept, Rows

\* The session of p becomes the one used last: every change that is still
\* unstamped was made under its key, and it reaches as far as the last one did.
LEMMA LastSession ==
    ASSUME KeysInv, NEW p \in Passes, pass[p].phase \in Opened, UNCHANGED <<auth, bound, outbox, loose>>,
           last' = [key |-> pass[p].key, at |-> pass[p].at], NEW i \in Rows
    PROVE  RowFits(i)' /\ (Free(i)' /\ StampedNext(i) => StampedNext(i)')
<1>1. /\ RowFits(i) /\ (Free(i) => outbox[i].made = pass[p].key)
      /\ last.at <= pass[p].at /\ last.at \in Nat /\ pass[p].at \in Nat
      /\ Len(outbox) \in Nat /\ Rows = 1..Len(outbox)
  BY PassFields, RowsAre DEF KeysInv, PassHolds, PassKnows, KeysTypeOK
<1>2. (Free(i)' <=> Free(i)) /\ (Promised(i)' <=> Promised(i))
  BY DEF Free, Promised, Pending
<1>3. ForeignOwner(outbox[i].made, outbox[i].entity)' = ForeignOwner(outbox[i].made, outbox[i].entity)
  BY DEF ForeignOwner
<1>4. Free(i)' /\ StampedNext(i) => StampedNext(i)'
  BY <1>1, <1>2 DEF StampedNext
<1> QED BY <1>1, <1>2, <1>3, <1>4 DEF RowFits

\* The pass at its end, and the answer that is lost.
LEMMA EndingSteps ==
    ASSUME KeysInv, NEW p \in Passes, pass[p].phase \in Opened,
           Turns(p, "idle", NoKey, 0, {}, {}, 0), gate' = NoKey,
           last' = [key |-> pass[p].key, at |-> pass[p].at],
           UNCHANGED <<credentials, user, outbox, bound, loose>>
    PROVE  KeysInv'
<1>1. gate = p /\ pass[p].at <= Len(outbox) /\ pass[p].key \in Keys \cup {NoKey} /\ pass[p].at \in Nat
      /\ bound \in [Memories -> Binding]
  BY PassFields DEF KeysInv, KeysTypeOK, PassHolds, Opened
<1>2. RowsKept
  BY RowsUntouched
<1>3. \A i \in Rows : RowFits(i)' /\ (Free(i)' /\ StampedNext(i) => StampedNext(i)')
  BY LastSession DEF credentials
<1>4. Says(pass'[p], "idle", NoKey, 0, {}, {}, 0) => PassHolds(p)' /\ PassKnows(p)'
  BY RestsWell DEF Says
<1>5. last' \in [key : Keys \cup {NoKey}, at : Nat] /\ last'.at <= Len(outbox)
  BY <1>1
<1>6. bound' \in [Memories -> Binding]
  BY <1>1
<1> QED BY <1>1, <1>2, <1>3, <1>4, <1>5, <1>6, SessionStep

LEMMA CloseSteps == ASSUME KeysInv, NEW p \in Passes, Closes(p) PROVE KeysInv'
<1>1. /\ KeysTypeOK /\ pass[p].phase \in Opened /\ gate' = NoKey
      /\ last' = [key |-> pass[p].key, at |-> pass[p].at]
      /\ UNCHANGED <<credentials, user, outbox, bound, loose>>
  BY DEF KeysInv, Closes, Opened
<1>2. Turns(p, "idle", NoKey, 0, {}, {}, 0)
  BY <1>1, EntryMoves
<1> QED BY <1>1, <1>2, EndingSteps

\* The rows that are accepted are no longer pending, and their entities are now
\* bound to the key of the pass: to no other is a change of that key foreign.
LEMMA AnswerSteps == ASSUME KeysInv, NEW p \in Passes, Answered(p) PROVE KeysInv'
<1> DEFINE r == pass[p]
<1>0. /\ KeysTypeOK /\ r.phase = "asked" /\ r.phase \in Opened /\ UNCHANGED <<credentials, user, loose>>
      /\ PassHolds(p) /\ PassKnows(p) /\ gate = p /\ r.key \in Keys /\ r.at \in Nat
      /\ r.batch \subseteq Rows
  BY PassFields DEF KeysInv, KeysTypeOK, Answered, Opened, PassHolds
<1>1. CASE /\ Turns(p, "idle", NoKey, 0, {}, {}, 0) /\ gate' = NoKey
           /\ last' = [key |-> r.key, at |-> r.at] /\ UNCHANGED <<outbox, bound>>
  BY <1>0, <1>1, EndingSteps
<1>2. CASE /\ outbox' = [i \in Rows |-> IF i \in r.batch THEN [outbox[i] EXCEPT !.state = "accepted"]
                                                         ELSE outbox[i]]
           /\ bound' = [e \in Memories |-> IF e \in {outbox[i].entity : i \in r.batch}
                                           THEN BoundTo(r.key, e) ELSE bound[e]]
           /\ UNCHANGED <<gate, last>>
           /\ Turns(p, "boundary", r.key, r.at, {}, {}, r.batches)
  <2>1. /\ outbox \in Seq(Row) /\ bound \in [Memories -> Binding] /\ loose \subseteq Rows
        /\ last \in [key : Keys \cup {NoKey}, at : Nat] /\ last.at <= Len(outbox)
        /\ \A i \in Rows : outbox[i] \in Row
    BY <1>0, RowsAre DEF KeysInv, KeysTypeOK
  <2>2. ASSUME NEW i \in Rows
        PROVE  /\ outbox'[i] \in Row
               /\ outbox'[i].entity = outbox[i].entity /\ outbox'[i].made = outbox[i].made
               /\ outbox'[i].owner = outbox[i].owner /\ outbox'[i].stamp = outbox[i].stamp
               /\ outbox'[i].held = outbox[i].held /\ outbox'[i].arrived = outbox[i].arrived
               /\ outbox'[i].state = IF i \in r.batch THEN "accepted" ELSE outbox[i].state
    <3>1. outbox'[i] = IF i \in r.batch THEN [outbox[i] EXCEPT !.state = "accepted"] ELSE outbox[i]
      BY <1>2
    <3>2. outbox[i] \in Row
      BY <2>1
    <3> QED BY <3>1, <3>2 DEF Row
  <2>3. outbox' \in Seq(Row) /\ Rows' = Rows /\ Len(outbox') = Len(outbox)
    <3>1. outbox' = [i \in Rows |-> outbox'[i]]
      BY <1>2
    <3> QED BY <2>1, <2>2, <3>1, Rewritten
  <2>4. RowsKept
    BY <1>0, <2>1, <2>2, <2>3 DEF RowsKept
  <2>5. \A e \in Memories : bound[e] \in Binding /\ BoundTo(r.key, e) \in Binding
    BY <1>0, <2>1 DEF BoundTo, Binding
  <2>6. bound' \in [Memories -> Binding]
    BY <1>2, <2>5
  <2>7. ASSUME NEW i \in Rows PROVE RowFits(i)'
    <3>1. RowFits(i) /\ (Free(i)' => Free(i)) /\ (Promised(i)' => Promised(i)) /\ outbox[i].entity \in Memories
      BY <2>1, <2>4, FewerPromises DEF KeysInv, Row
    <3>2. Free(i) => outbox[i].made = r.key
      BY <1>0 DEF PassKnows
    <3>3. Free(i) => \/ ForeignOwner(outbox[i].made, outbox[i].entity)' = NoKey
                     \/ ForeignOwner(outbox[i].made, outbox[i].entity)'
                        = ForeignOwner(outbox[i].made, outbox[i].entity)
      BY <1>2, <2>2, <3>1, <3>2 DEF ForeignOwner, BoundTo
    <3> QED BY <1>0, <1>2, <2>2, <3>1, <3>3 DEF RowFits, StampedNext, credentials
  <2>8. \A i \in Rows : StampedNext(i) => StampedNext(i)'
    BY <1>2, <2>2 DEF StampedNext
  <2>9. ASSUME pass'[p].phase = "boundary", pass'[p].key = r.key, pass'[p].at = r.at
        PROVE  PassHolds(p)' /\ PassKnows(p)'
    <3>1. \A i \in Rows : Free(i)' => outbox'[i].made = r.key
      BY <1>0, <2>2, <2>4, FewerPromises DEF PassKnows
    <3> QED BY <1>0, <1>2, <2>3, <2>9, <3>1 DEF PassHolds, PassKnows, Opened
  <2>10. /\ Says(pass'[p], "boundary", r.key, r.at, {}, {}, r.batches) => PassHolds(p)' /\ PassKnows(p)'
         /\ gate' \in {p, NoKey} /\ last' = last
    BY <1>0, <1>2, <2>9 DEF Says
  <2> HIDE DEF r
  <2> QED BY <1>0, <1>2, <2>1, <2>4, <2>6, <2>7, <2>8, <2>10, SessionStep
<1>3. p # NoKey
  BY KeysAssumption
<1>4. \/ Turns(p, "boundary", r.key, r.at, {}, {}, r.batches) /\ UNCHANGED <<gate, last>>
      \/ /\ Turns(p, "idle", NoKey, 0, {}, {}, 0) /\ gate' = NoKey
         /\ last' = [key |-> r.key, at |-> r.at] /\ UNCHANGED <<outbox, bound>>
  BY <1>0, SessionMoves
<1> QED BY <1>0, <1>1, <1>2, <1>3, <1>4 DEF Answered


\* What the session's first step stamps is what the last session of another key
\* left: the changes made before it began are changes of its key.
LEMMA OpenSteps == ASSUME KeysInv, NEW p \in Passes, Opens(p) PROVE KeysInv'
<1> DEFINE is == IF last.key \in {NoKey, pass[p].key} THEN {} ELSE {i \in Unstamped : i <= last.at}
<1>0. PICK n \in Nat : n = Len(outbox)
  BY RowsAre DEF KeysInv, KeysTypeOK
<1>1. PICK k \in Keys : k = pass[p].key
  BY PassFields DEF KeysInv, KeysTypeOK, Opens, PassHolds
<1>2. /\ KeysTypeOK /\ pass[p].phase = "checked" /\ UNCHANGED <<credentials, user, loose, bound>>
      /\ PassHolds(p) /\ PassKnows(p) /\ gate = p /\ last \in [key : Keys \cup {NoKey}, at : Nat]
      /\ outbox \in Seq(Row) /\ bound \in [Memories -> Binding] /\ loose \subseteq Rows
      /\ last.at <= n /\ Rows = 1..n /\ Unstamped \subseteq Rows
  BY <1>0, RowsAre DEF KeysInv, KeysTypeOK, Opens, PassHolds, Unstamped
<1>3. is \in SUBSET Nat /\ is \subseteq Unstamped
  <2>1. Unstamped \subseteq Nat
    BY <1>0, <1>2
  <2>2. is \subseteq Unstamped
    OBVIOUS
  <2> HIDE DEF is
  <2> QED BY <2>1, <2>2
<1>4. \A i \in Rows : /\ outbox'[i] \in Row
                      /\ outbox'[i].entity = outbox[i].entity /\ outbox'[i].made = outbox[i].made
                      /\ outbox'[i].owner = outbox[i].owner /\ outbox'[i].state = outbox[i].state
                      /\ outbox'[i].held = outbox[i].held /\ outbox'[i].arrived = outbox[i].arrived
                      /\ outbox'[i].stamp = IF i \in is THEN last.key ELSE outbox[i].stamp
  <2>1. CASE last.key \in {NoKey, pass[p].key}
    BY <1>2, <2>1, RowsAre DEF Opens
  <2>2. CASE last.key \notin {NoKey, pass[p].key}
    <3>1. outbox' = Stamped(is, last.key)
      BY <2>2 DEF Opens
    <3>2. outbox \in Seq(Row) /\ last.key \in Keys \cup {NoKey}
      BY <1>2
    <3> HIDE DEF is
    <3>3. is \in SUBSET Nat
      BY <1>3
    <3> QED BY <3>1, <3>2, <3>3, StampedRows
  <2> QED BY <2>1, <2>2
<1>5. outbox' \in Seq(Row) /\ Rows' = Rows /\ Len(outbox') = n
  <2>1. outbox' = [i \in Rows |-> outbox'[i]]
    <3>1. outbox = [i \in Rows |-> outbox[i]]
      BY <1>2 DEF Rows
    <3>2. outbox' = outbox \/ \E js, k1 : outbox' = Stamped(js, k1)
      BY DEF Opens
    <3> QED BY <3>1, <3>2 DEF Stamped
  <2> QED BY <1>0, <1>2, <1>4, <2>1, Rewritten
<1>6. RowsKept
  BY <1>0, <1>2, <1>3, <1>4, <1>5 DEF RowsKept, Unstamped
<1>7. ASSUME NEW i \in Rows
      PROVE  /\ RowFits(i) /\ (Free(i)' => Free(i) /\ i \notin is) /\ (Promised(i)' => Promised(i))
             /\ i \in is => i <= last.at /\ (Promised(i) => Free(i))
  BY <1>2, <1>4, <1>6, FewerPromises DEF KeysInv, Free, Unstamped, Promised
<1>8. ASSUME NEW i \in Rows, Free(i)' PROVE outbox[i].made = k
  <2>1. outbox[i].made = k \/ StampedNext(i)
    BY <1>1, <1>2, <1>7, <1>8 DEF PassKnows
  <2>2. ASSUME StampedNext(i), outbox[i].made # k PROVE FALSE
    <3>1. last.key = outbox[i].made /\ i <= last.at /\ last.key # NoKey
      BY <1>7, <1>8, <2>2 DEF StampedNext, Free, Promised
    <3>2. i \in is
      BY <1>1, <1>7, <1>8, <2>2, <3>1 DEF Free, Unstamped
    <3> QED BY <1>7, <1>8, <3>2
  <2> QED BY <2>1, <2>2
<1>9. ASSUME NEW i \in Rows
      PROVE  /\ ForeignOwner(outbox[i].made, outbox[i].entity)' = ForeignOwner(outbox[i].made, outbox[i].entity)
             /\ Promised(i)' => /\ outbox'[i].stamp \in {NoKey, outbox'[i].made, outbox'[i].owner}
                                /\ outbox'[i].arrived \subseteq {outbox'[i].made, outbox'[i].owner}
  BY <1>2, <1>4, <1>7 DEF ForeignOwner, RowFits
<1>10. CASE Turns(p, "open", pass[p].key, Len(outbox), pass[p].batch, pass[p].unstamped, pass[p].batches)
            /\ UNCHANGED <<gate, last>>
  <2>1. ASSUME NEW i \in Rows PROVE RowFits(i)' /\ (Free(i)' /\ StampedNext(i) => StampedNext(i)')
    BY <1>2, <1>4, <1>7, <1>9, <1>10 DEF RowFits, StampedNext, credentials
  <2>2. ASSUME pass'[p].phase = "open", pass'[p].key = k, pass'[p].at = n
        PROVE  PassHolds(p)' /\ PassKnows(p)'
    <3>1. k # NoKey
      BY <1>1, KeysAssumption
    <3> QED BY <1>2, <1>4, <1>5, <1>8, <1>10, <2>2, <3>1 DEF PassHolds, PassKnows, Opened
  <2>3. Turns(p, "open", k, n, pass[p].batch, pass[p].unstamped, pass[p].batches)
    BY <1>0, <1>1, <1>10
  <2>4. Says(pass'[p], "open", k, n, pass[p].batch, pass[p].unstamped, pass[p].batches) =>
          PassHolds(p)' /\ PassKnows(p)'
    BY <2>2 DEF Says
  <2> QED BY <1>0, <1>2, <1>6, <1>10, <2>1, <2>3, <2>4, SessionStep
<1>11. CASE Turns(p, "idle", NoKey, 0, {}, {}, 0) /\ gate' = NoKey
            /\ last' = [key |-> pass[p].key, at |-> Len(outbox)]
  <2>1. last'.key = k /\ last'.at = n /\ last' \in [key : Keys \cup {NoKey}, at : Nat]
    BY <1>0, <1>1, <1>11
  <2>2. ASSUME NEW i \in Rows, Free(i)' PROVE StampedNext(i)'
    BY <1>2, <1>4, <1>8, <2>1, <2>2 DEF StampedNext
  <2>3. ASSUME NEW i \in Rows PROVE RowFits(i)'
    BY <1>2, <1>4, <1>7, <1>8, <1>9, <2>1, <2>2, <2>3 DEF RowFits, credentials
  <2>4. Says(pass'[p], "idle", NoKey, 0, {}, {}, 0) => PassHolds(p)' /\ PassKnows(p)'
    BY RestsWell DEF Says
  <2> QED BY <1>0, <1>2, <1>6, <1>11, <2>1, <2>2, <2>3, <2>4, SessionStep
<1> QED BY <1>2, <1>10, <1>11, SessionMoves

\* The rows of the batch are sent under the key, and stamped with it if they
\* were read without a stamp.
LEMMA SendSteps == ASSUME KeysInv, NEW p \in Passes, Sends(p) PROVE KeysInv'
<1> DEFINE r == pass[p]
<1>1. PICK k \in Keys : k = r.key
  BY PassFields DEF KeysInv, KeysTypeOK, Sends, PassHolds
<1>2. /\ KeysTypeOK /\ r.phase = "collected" /\ UNCHANGED <<credentials, user, loose, bound, gate, last>>
      /\ PassHolds(p) /\ PassKnows(p) /\ gate = p /\ outbox \in Seq(Row) /\ Rows = 1..Len(outbox)
      /\ r.batch \subseteq Rows /\ r.unstamped \subseteq r.batch /\ r.unstamped \in SUBSET Nat
      /\ bound \in [Memories -> Binding] /\ last \in [key : Keys \cup {NoKey}, at : Nat]
      /\ last.at <= Len(outbox) /\ loose \subseteq Rows
  BY RowsAre, PassFields DEF KeysInv, KeysTypeOK, Sends, PassHolds
<1>3. PICK stamped : stamped = Stamped(r.unstamped, k)
  OBVIOUS
<1>4. \A i \in Rows : /\ stamped[i] \in Row
                      /\ stamped[i].entity = outbox[i].entity /\ stamped[i].made = outbox[i].made
                      /\ stamped[i].owner = outbox[i].owner /\ stamped[i].state = outbox[i].state
                      /\ stamped[i].held = outbox[i].held /\ stamped[i].arrived = outbox[i].arrived
                      /\ stamped[i].stamp = IF i \in r.unstamped THEN k ELSE outbox[i].stamp
  <2> HIDE DEF r
  <2> QED BY <1>1, <1>2, <1>3, StampedRows
<1>5. outbox' = [i \in Rows |-> IF i \in r.batch
                                THEN [stamped[i] EXCEPT !.arrived = stamped[i].arrived \cup {k}]
                                ELSE stamped[i]]
  BY <1>1, <1>3 DEF Sends
<1>6. ASSUME NEW i \in Rows
      PROVE  /\ outbox'[i] \in Row
             /\ outbox'[i].entity = outbox[i].entity /\ outbox'[i].made = outbox[i].made
             /\ outbox'[i].owner = outbox[i].owner /\ outbox'[i].state = outbox[i].state
             /\ outbox'[i].held = outbox[i].held
             /\ outbox'[i].arrived = IF i \in r.batch THEN outbox[i].arrived \cup {k} ELSE outbox[i].arrived
             /\ outbox'[i].stamp = IF i \in r.unstamped THEN k ELSE outbox[i].stamp
  <2>1. outbox'[i] = IF i \in r.batch THEN [stamped[i] EXCEPT !.arrived = stamped[i].arrived \cup {k}]
                     ELSE stamped[i]
    BY <1>5
  <2>2. stamped[i] \in Row
    BY <1>4
  <2>3. ASSUME NEW t \in Row
        PROVE  LET u == [t EXCEPT !.arrived = t.arrived \cup {k}] IN
               /\ u \in Row /\ u.entity = t.entity /\ u.made = t.made /\ u.owner = t.owner
               /\ u.state = t.state /\ u.held = t.held /\ u.stamp = t.stamp
               /\ u.arrived = t.arrived \cup {k}
    BY <2>3 DEF Row
  <2>4. CASE i \in r.batch
    <3> DEFINE u == [stamped[i] EXCEPT !.arrived = stamped[i].arrived \cup {k}]
    <3>1. /\ u \in Row /\ u.entity = stamped[i].entity /\ u.made = stamped[i].made
          /\ u.owner = stamped[i].owner /\ u.state = stamped[i].state /\ u.held = stamped[i].held
          /\ u.stamp = stamped[i].stamp /\ u.arrived = stamped[i].arrived \cup {k}
      BY <2>2, <2>3
    <3>2. outbox'[i] = u
      BY <2>1, <2>4
    <3> HIDE DEF u
    <3> QED BY <1>4, <2>4, <3>1, <3>2
  <2>5. CASE i \notin r.batch
    BY <1>4, <2>1, <2>5
  <2> QED BY <2>4, <2>5
<1>7. outbox' \in Seq(Row) /\ Rows' = Rows /\ Len(outbox') = Len(outbox)
  <2>1. outbox' = [i \in Rows |-> outbox'[i]]
    BY <1>5
  <2> QED BY <1>2, <1>6, <2>1, Rewritten
<1>8. RowsKept
  <2>1. loose' = loose
    BY <1>2
  <2>2. ASSUME NEW i \in Rows PROVE outbox'[i].stamp = NoKey => outbox[i].stamp = NoKey
    <3>1. CASE i \in r.unstamped
      BY <1>1, <1>6, <3>1, KeysAssumption
    <3>2. CASE i \notin r.unstamped
      BY <1>6, <3>2
    <3> QED BY <3>1, <3>2
  <2>3. ASSUME NEW i \in Rows
        PROVE  /\ outbox'[i].entity = outbox[i].entity
               /\ outbox'[i].made = outbox[i].made /\ outbox'[i].owner = outbox[i].owner
               /\ outbox'[i].state = outbox[i].state
    BY <1>6
  <2> HIDE DEF r
  <2> QED BY <1>2, <1>7, <2>1, <2>2, <2>3 DEF RowsKept
<1>9. ASSUME NEW i \in Rows PROVE RowFits(i)'
  <2>1. RowFits(i) /\ (Free(i)' => Free(i)) /\ (Promised(i)' => Promised(i))
    BY <1>8, FewerPromises DEF KeysInv
  <2>2. i \in r.batch /\ Promised(i) => k \in {outbox[i].made, outbox[i].owner}
    BY <1>1, <1>2 DEF PassKnows, Sendable
  <2>3. ForeignOwner(outbox[i].made, outbox[i].entity)' = ForeignOwner(outbox[i].made, outbox[i].entity)
    BY <1>2, <1>6 DEF ForeignOwner
  <2>4. Promised(i)' => outbox'[i].stamp \in {NoKey, outbox[i].made, outbox[i].owner}
    BY <1>2, <1>6, <2>1, <2>2 DEF RowFits
  <2>5. Promised(i)' => outbox'[i].arrived \subseteq {outbox[i].made, outbox[i].owner}
    BY <1>6, <2>1, <2>2 DEF RowFits
  <2> QED BY <1>2, <1>6, <2>1, <2>3, <2>4, <2>5 DEF RowFits, StampedNext, credentials
<1>10. \A i \in Rows : Free(i)' /\ StampedNext(i) => StampedNext(i)'
  BY <1>2, <1>6 DEF StampedNext
<1>11. PICK c : c = IF barrier THEN r.batches + 1 ELSE r.batches
  OBVIOUS
<1>12. Turns(p, "asked", r.key, r.at, r.batch, r.unstamped, c)
  BY <1>2, <1>11, SessionMoves
<1>13. ASSUME pass'[p].phase = "asked", pass'[p].key = r.key, pass'[p].at = r.at, pass'[p].batch = r.batch
       PROVE  PassHolds(p)' /\ PassKnows(p)'
  <2>1. \A i \in Rows : Free(i)' => outbox'[i].made = r.key
    BY <1>2, <1>6, <1>8, FewerPromises DEF PassKnows, Opened
  <2> QED BY <1>2, <1>7, <1>13, <2>1 DEF PassHolds, PassKnows, Opened
<1>14. Says(pass'[p], "asked", r.key, r.at, r.batch, r.unstamped, c) => PassHolds(p)' /\ PassKnows(p)'
  BY <1>13 DEF Says
<1> HIDE DEF r
<1> QED BY <1>2, <1>8, <1>9, <1>10, <1>12, <1>14, SessionStep

\* The session decides each pending row again; a row it finds its own is one of
\* its key, or was stamped with it.
LEMMA ClassifySteps == ASSUME KeysInv, NEW p \in Passes, Classifies(p) PROVE KeysInv'
<1> DEFINE r == pass[p]
<1>1. PICK k \in Keys : k = r.key
  BY PassFields DEF KeysInv, KeysTypeOK, Classifies, PassHolds
<1>2. /\ KeysTypeOK /\ r.phase = "open" /\ UNCHANGED <<credentials, user, loose, bound, gate, last>>
      /\ PassHolds(p) /\ PassKnows(p) /\ gate = p /\ outbox \in Seq(Row) /\ Rows = 1..Len(outbox)
      /\ bound \in [Memories -> Binding] /\ last \in [key : Keys \cup {NoKey}, at : Nat]
      /\ last.at <= Len(outbox) /\ loose \subseteq Rows /\ outbox' = Classified(k)
  BY <1>1, RowsAre, PassFields DEF KeysInv, KeysTypeOK, Classifies, PassHolds
<1>3. \A i \in Rows : outbox[i] \in Row /\ Owner(k, i) \in Keys \cup {NoKey}
  <2>1. ASSUME NEW i \in Rows PROVE outbox[i] \in Row /\ Owner(k, i) \in Keys \cup {NoKey}
    <3>1. outbox[i] \in Row /\ outbox[i].entity \in Memories /\ outbox[i].stamp \in Keys \cup {NoKey}
      BY <1>2, RowsAre DEF Row
    <3>2. ForeignOwner(k, outbox[i].entity) \in Keys \cup {NoKey}
      BY <1>2, <3>1 DEF ForeignOwner, Binding
    <3> QED BY <3>1, <3>2 DEF Owner
  <2> QED BY <2>1
<1>4. ASSUME NEW i \in Rows
      PROVE  \/ outbox'[i] = outbox[i] /\ ~Pending(i)
             \/ outbox'[i] = [outbox[i] EXCEPT !.held = TRUE]
             \/ outbox'[i] = [outbox[i] EXCEPT !.held = TRUE, !.stamp = Owner(k, i)] /\ Owner(k, i) # NoKey
             \/ outbox'[i] = [outbox[i] EXCEPT !.held = FALSE] /\ Owner(k, i) = NoKey
  BY <1>2 DEF Classified
<1>4a. \A i \in Rows : ~Pending(i) => outbox'[i] = outbox[i]
  BY <1>2 DEF Classified
<1>5. ASSUME NEW i \in Rows
      PROVE  /\ outbox'[i] \in Row
             /\ outbox'[i].entity = outbox[i].entity /\ outbox'[i].made = outbox[i].made
             /\ outbox'[i].owner = outbox[i].owner /\ outbox'[i].state = outbox[i].state
             /\ outbox'[i].arrived = outbox[i].arrived
             /\ \/ outbox'[i].stamp = outbox[i].stamp
                \/ outbox'[i].stamp = Owner(k, i) /\ Owner(k, i) # NoKey
             /\ Sent(i)' => Owner(k, i) = NoKey /\ outbox'[i].stamp = outbox[i].stamp
  <2>1. outbox[i] \in Row /\ Owner(k, i) \in Keys \cup {NoKey}
    BY <1>3
  <2>2. CASE outbox'[i] = outbox[i] /\ ~Pending(i)
    BY <2>1, <2>2 DEF Row, Sent, Pending
  <2>3. CASE outbox'[i] = [outbox[i] EXCEPT !.held = TRUE]
    BY <2>1, <2>3 DEF Row, Sent, Pending
  <2>4. CASE outbox'[i] = [outbox[i] EXCEPT !.held = TRUE, !.stamp = Owner(k, i)] /\ Owner(k, i) # NoKey
    <3> DEFINE o == Owner(k, i)
    <3>1. o \in Keys \cup {NoKey} /\ outbox'[i] = [outbox[i] EXCEPT !.held = TRUE, !.stamp = o] /\ o # NoKey
      BY <2>1, <2>4
    <3> HIDE DEF o
    <3>2. /\ outbox'[i] \in Row
          /\ outbox'[i].entity = outbox[i].entity /\ outbox'[i].made = outbox[i].made
          /\ outbox'[i].owner = outbox[i].owner /\ outbox'[i].state = outbox[i].state
          /\ outbox'[i].arrived = outbox[i].arrived
          /\ outbox'[i].stamp = o /\ o # NoKey
          /\ ~Sent(i)'
      BY <2>1, <3>1 DEF Row, Sent, Pending
    <3> QED BY <3>2 DEF o
  <2>5. CASE outbox'[i] = [outbox[i] EXCEPT !.held = FALSE] /\ Owner(k, i) = NoKey
    BY <2>1, <2>5 DEF Row, Sent, Pending
  <2> QED BY <1>4, <2>2, <2>3, <2>4, <2>5
<1>6. outbox' \in Seq(Row) /\ Rows' = Rows /\ Len(outbox') = Len(outbox)
  <2>1. outbox' = [i \in Rows |-> outbox'[i]]
    BY <1>2 DEF Classified
  <2> QED BY <1>2, <1>5, <2>1, Rewritten
<1>7. RowsKept
  BY <1>2, <1>5, <1>6 DEF RowsKept
<1>8. ASSUME NEW i \in Rows
      PROVE  /\ RowFits(i) /\ (Free(i)' => Free(i)) /\ (Promised(i)' => Promised(i))
             /\ Free(i) => outbox[i].made = k
  BY <1>1, <1>2, <1>7, FewerPromises DEF KeysInv, PassKnows, Opened
<1>9. ASSUME NEW i \in Rows, Promised(i), Pending(i)
      PROVE  /\ Owner(k, i) \in {NoKey, outbox[i].made, outbox[i].owner}
             /\ Owner(k, i) = NoKey => Sendable(k, i)
  <2>1. CASE outbox[i].stamp # NoKey
    <3>1. outbox[i].stamp \in {outbox[i].made, outbox[i].owner}
      BY <1>8, <1>9, <2>1 DEF RowFits
    <3> QED BY <2>1, <3>1 DEF Owner, Sendable
  <2>2. CASE outbox[i].stamp = NoKey
    <3>1. Free(i) /\ outbox[i].made = k
      BY <1>8, <1>9, <2>2 DEF Free
    <3>2. Owner(k, i) \in {NoKey, outbox[i].owner}
      BY <1>8, <2>2, <3>1 DEF Owner, RowFits
    <3> QED BY <3>1, <3>2 DEF Sendable
  <2> QED BY <2>1, <2>2
<1>10. ASSUME NEW i \in Rows PROVE RowFits(i)'
  <2>1. ForeignOwner(outbox[i].made, outbox[i].entity)' = ForeignOwner(outbox[i].made, outbox[i].entity)
    BY <1>2, <1>5 DEF ForeignOwner
  <2>2. ~Pending(i) => outbox'[i].stamp = outbox[i].stamp
    BY <1>4a
  <2>3. Promised(i)' => outbox'[i].stamp \in {NoKey, outbox[i].made, outbox[i].owner}
    BY <1>5, <1>8, <1>9, <2>2 DEF RowFits
  <2> QED BY <1>2, <1>5, <1>8, <2>1, <2>3 DEF RowFits, StampedNext, credentials
<1>11. \A i \in Rows : Free(i)' /\ StampedNext(i) => StampedNext(i)'
  BY <1>2, <1>5 DEF StampedNext
<1>12. Turns(p, "classified", r.key, r.at, r.batch, r.unstamped, r.batches)
  BY <1>2, SessionMoves
<1>13. ASSUME pass'[p].phase = "classified", pass'[p].key = r.key, pass'[p].at = r.at
       PROVE  PassHolds(p)' /\ PassKnows(p)'
  <2>1. \A i \in Rows : Free(i)' => outbox'[i].made = r.key
    BY <1>1, <1>5, <1>8
  <2>2. ASSUME NEW i \in Rows, Sent(i)' PROVE Sendable(k, i)'
    BY <1>5, <1>7, <1>8, <1>9, <2>2, FewerPromises DEF Sendable, Sent, Pending
  <2>3. PassHolds(p)'
    BY <1>2, <1>6, <1>13 DEF PassHolds, Opened
  <2>4. \A i \in Rows' : Pending(i)' /\ ~outbox'[i].held => Sendable(pass[p].key, i)'
    BY <1>1, <1>6, <1>13, <2>2 DEF Sent, Sendable
  <2> QED BY <1>6, <1>13, <2>1, <2>3, <2>4 DEF PassKnows, Opened
<1>14. Says(pass'[p], "classified", r.key, r.at, r.batch, r.unstamped, r.batches) =>
         PassHolds(p)' /\ PassKnows(p)'
  BY <1>13 DEF Says
<1> HIDE DEF r
<1> QED BY <1>2, <1>7, <1>10, <1>11, <1>12, <1>14, SessionStep


(******************************* the theorems *****************************)

LEMMA KeysInitially == KeysInit => KeysInv
<1> SUFFICES ASSUME KeysInit PROVE KeysInv
  OBVIOUS
<1>1. Resting \in Pass /\ Resting.phase = "idle"
  BY RestingIs DEF Says
<1>2. Ready \in Command /\ Unbound \in Binding
  BY DEF Ready, Command, Unbound, Binding
<1>3. outbox = <<>> /\ Rows = {} /\ Len(outbox) = 0 /\ last = [key |-> NoKey, at |-> 0]
  BY DEF KeysInit, Rows
<1>4. KeysTypeOK
  <2>1. pass \in [Passes -> Pass] /\ bound \in [Memories -> Binding] /\ user \in Command
    BY <1>1, <1>2 DEF KeysInit
  <2>2. /\ auth \in Keys \cup {NoKey} /\ barrier \in BOOLEAN /\ gate \in Passes \cup {User, NoKey}
        /\ loose \subseteq Rows
    BY DEF KeysInit
  <2>3. outbox \in Seq(Row) /\ last \in [key : Keys \cup {NoKey}, at : Nat]
    BY <1>3
  <2> QED BY <2>1, <2>2, <2>3 DEF KeysTypeOK
<1>5. \A p \in Passes : pass[p].phase = "idle"
  BY <1>1 DEF KeysInit
<1>6. \A p \in Passes : PassHolds(p) /\ PassKnows(p)
  BY <1>5 DEF PassHolds, PassKnows, Opened
<1> QED BY <1>3, <1>4, <1>6 DEF KeysInv

LEMMA KeysStays == KeysInv /\ [KeysNext]_keyVars => KeysInv'
<1> SUFFICES ASSUME KeysInv, [KeysNext]_keyVars PROVE KeysInv'
  OBVIOUS
<1>1. CASE UNCHANGED keyVars
  <2>1. /\ UNCHANGED <<auth, outbox, bound, last, loose, barrier, gate, user, pass>>
    BY <1>1 DEF keyVars, credentials, store
  <2>2. \A q \in Passes : Same(q) /\ (gate = q => gate' = q)
    BY <2>1 DEF Same
  <2>3. barrier' \in BOOLEAN /\ gate' \in Passes \cup {User, NoKey} /\ user' \in Command
        /\ pass' \in [Passes -> Pass]
    BY <2>1 DEF KeysInv, KeysTypeOK
  <2> QED BY <2>1, <2>2, <2>3, PassiveSteps
<1>2. CASE \E e \in Memories : Change(e) \/ \E p \in Passes : Pulls(p, e)
  BY <1>2, ChangeSteps, PullSteps
<1>3. CASE \E k \in Keys : LoginBegins(k) \/ ReplaceByHand(k)
  BY <1>3, CommandSteps, CredentialSteps
<1>4. CASE LoginStamps \/ LogoutStamps
  BY <1>4, StampSteps
<1>5. CASE LoginStores \/ LogoutForgets
  BY <1>5, CredentialSteps
<1>6. CASE LoginClears \/ LogoutBegins \/ LogoutRaises \/ LogoutWaits \/ AuthBreaks
  BY <1>6, CommandSteps
<1>7. ASSUME NEW p \in Passes,
             \/ Load(p) \/ GivesUp(p) \/ Locks(p) \/ LoadsLocked(p) \/ Checks(p) \/ Opens(p)
             \/ Classifies(p) \/ Collects(p) \/ Sends(p) \/ Answered(p)
             \/ GoesOn(p) \/ Closes(p) \/ PassBreaks(p)
      PROVE  KeysInv'
  BY <1>7, EntrySteps, OpenSteps, ClassifySteps, BatchSteps, SendSteps, AnswerSteps, CloseSteps
<1> QED BY <1>1, <1>2, <1>3, <1>4, <1>5, <1>6, <1>7 DEF KeysNext

LEMMA KeysAlways == KeysSpec => []KeysInv
BY KeysInitially, KeysStays, PTL DEF KeysSpec

\* The credential, the outbox, the bindings and the records of the passes and
\* of the auth command are always of their types.
THEOREM KeysTypeCorrect == KeysSpec => []KeysTypeOK
<1>1. KeysInv => KeysTypeOK
  BY DEF KeysInv
<1> QED BY <1>1, KeysAlways, PTL

\* A change made under one key reaches no other, but for the owner of its
\* entity and the changes excepted by name, however many logins, logouts,
\* credentials replaced by hand, passes and kills there are.
THEOREM ChangesAreKeptForTheirKey == KeysSpec => []KeptForItsKey
<1>1. KeysInv => KeptForItsKey
  BY DEF KeysInv, RowFits, Promised, KeptForItsKey
<1> QED BY <1>1, KeysAlways, PTL

(******************************* the barrier ******************************)

\* Behind a barrier a pass has sent nothing, or the one batch whose answer it
\* awaits or has just had.
AtItsBatch ==
    barrier => \A p \in Passes :
        \/ pass[p].batches = 0
        \/ pass[p].batches = 1 /\ pass[p].phase \in {"asked", "boundary"}

\* A step of one pass, shown for its own record.
LEMMA BatchCounted ==
    ASSUME KeysTypeOK, AtItsBatch, NEW p \in Passes, barrier' = barrier,
           NEW phase, NEW key, NEW at, NEW batch, NEW unstamped, NEW batches,
           Turns(p, phase, key, at, batch, unstamped, batches),
           barrier => batches = 0 \/ (batches = 1 /\ phase \in {"asked", "boundary"})
    PROVE  AtItsBatch'
<1>1. /\ Says(pass'[p], phase, key, at, batch, unstamped, batches)
      /\ \A q \in Passes \ {p} : pass'[q] = pass[q]
  BY Turned DEF KeysTypeOK
<1> QED BY <1>1 DEF AtItsBatch, Says

LEMMA BatchesStay == KeysTypeOK /\ AtItsBatch /\ [KeysNext]_keyVars => AtItsBatch'
<1> SUFFICES ASSUME KeysTypeOK, AtItsBatch, [KeysNext]_keyVars PROVE AtItsBatch'
  OBVIOUS
<1>1. CASE UNCHANGED keyVars
  BY <1>1 DEF AtItsBatch, keyVars, credentials
<1>2. CASE \E e \in Memories : Change(e) \/ \E p \in Passes : Pulls(p, e)
  BY <1>2 DEF AtItsBatch, Change, Pulls, credentials
<1>3. CASE \E k \in Keys : LoginBegins(k) \/ ReplaceByHand(k)
  BY <1>3 DEF AtItsBatch, LoginBegins, ReplaceByHand, credentials
<1>4. CASE LoginStamps \/ LoginStores \/ LogoutStamps \/ LogoutForgets \/ AuthBreaks
  BY <1>4 DEF AtItsBatch, LoginStamps, LoginStores, LogoutStamps, LogoutForgets, AuthBreaks, credentials
<1>5. CASE LoginClears \/ LogoutBegins \/ LogoutWaits
  BY <1>5 DEF AtItsBatch, LoginClears, LogoutBegins, LogoutWaits, credentials
<1>6. CASE LogoutRaises
  <2>1. ASSUME NEW p \in Passes PROVE pass'[p].batches = 0
    <3>1. pass[p] \in Pass /\ pass'[p] = [pass[p] EXCEPT !.batches = 0]
      BY <1>6 DEF LogoutRaises, KeysTypeOK
    <3> QED BY <3>1 DEF Pass
  <2> QED BY <2>1 DEF AtItsBatch
<1>7. ASSUME NEW p \in Passes,
             \/ Load(p) \/ GivesUp(p) \/ Locks(p) \/ LoadsLocked(p) \/ Checks(p) \/ Opens(p)
             \/ Classifies(p) \/ Collects(p) \/ Sends(p) \/ Answered(p)
             \/ GoesOn(p) \/ Closes(p) \/ PassBreaks(p)
      PROVE  AtItsBatch'
  <2> DEFINE r == pass[p]
  <2>1. barrier' = barrier
    BY <1>7 DEF Load, GivesUp, Locks, LoadsLocked, Checks, Opens, Classifies, Collects, Sends,
                Answered, GoesOn, Closes, PassBreaks, credentials
  <2>2. barrier /\ r.phase \notin {"asked", "boundary"} => r.batches = 0
    BY DEF AtItsBatch
  <2>3. barrier => r.batches = 0 \/ r.batches = 1
    BY DEF AtItsBatch
  <2>4. CASE Load(p)
    <3>1. ~barrier /\ Turns(p, "loaded", Visible, r.at, r.batch, r.unstamped, r.batches)
      BY <2>4, EntryMoves DEF Load, Visible
    <3> QED BY <2>1, <3>1, BatchCounted
  <2>5. CASE Turns(p, "idle", NoKey, 0, {}, {}, 0)
    BY <2>1, <2>5, BatchCounted
  <2>6. CASE Locks(p)
    <3>1. r.phase \notin {"asked", "boundary"}
      BY <2>6 DEF Locks
    <3> QED BY <2>1, <2>2, <2>6, <3>1, EntryMoves, BatchCounted
  <2>7. CASE LoadsLocked(p)
    <3>1. r.phase \notin {"asked", "boundary"}
      BY <2>7 DEF LoadsLocked
    <3> QED BY <2>1, <2>2, <2>5, <2>7, <3>1, EntryMoves, BatchCounted
  <2>8. CASE Checks(p)
    <3>1. r.phase \notin {"asked", "boundary"}
      BY <2>8 DEF Checks
    <3> QED BY <2>1, <2>2, <2>5, <2>8, <3>1, EntryMoves, BatchCounted
  <2>9. CASE Opens(p)
    <3>1. r.phase \notin {"asked", "boundary"}
      BY <2>9 DEF Opens
    <3> QED BY <2>1, <2>2, <2>5, <2>9, <3>1, SessionMoves, BatchCounted
  <2>10. CASE Classifies(p)
    <3>1. r.phase \notin {"asked", "boundary"}
      BY <2>10 DEF Classifies
    <3> QED BY <2>1, <2>2, <2>10, <3>1, SessionMoves, BatchCounted
  <2>11. CASE Collects(p)
    <3>1. r.phase \notin {"asked", "boundary"}
      BY <2>11 DEF Collects
    <3>2. \/ Turns(p, "boundary", r.key, r.at, r.batch, r.unstamped, r.batches)
          \/ \E b, u : Turns(p, "collected", r.key, r.at, b, u, r.batches)
      BY <2>11, SessionMoves
    <3> QED BY <2>1, <2>2, <3>1, <3>2, BatchCounted
  <2>12. CASE Sends(p)
    <3>1. r.phase = "collected"
      BY <2>12 DEF Sends
    <3>2. PICK n : n = IF barrier THEN r.batches + 1 ELSE r.batches
      OBVIOUS
    <3>3. Turns(p, "asked", r.key, r.at, r.batch, r.unstamped, n)
      BY <2>12, <3>2, SessionMoves
    <3>4. barrier => n = 1
      BY <2>2, <3>1, <3>2
    <3> QED BY <2>1, <3>3, <3>4, BatchCounted
  <2>13. CASE Answered(p)
    <3>1. \/ Turns(p, "boundary", r.key, r.at, {}, {}, r.batches)
          \/ Turns(p, "idle", NoKey, 0, {}, {}, 0)
      BY <2>13, SessionMoves
    <3> QED BY <2>1, <2>3, <2>5, <3>1, BatchCounted
  <2>14. CASE GoesOn(p)
    <3>1. ~barrier
      BY <2>14 DEF GoesOn
    <3> QED BY <2>1, <2>14, <3>1, SessionMoves, BatchCounted
  <2>15. CASE GivesUp(p) \/ Closes(p) \/ PassBreaks(p)
    BY <2>5, <2>15, EntryMoves
  <2> QED BY <1>7, <2>4, <2>6, <2>7, <2>8, <2>9, <2>10, <2>11, <2>12, <2>13, <2>14, <2>15
<1> QED BY <1>1, <1>2, <1>3, <1>4, <1>5, <1>6, <1>7 DEF KeysNext

\* Behind a logout's barrier each pass in flight sends at most the batch it is
\* at, however many passes there are.
THEOREM OneBatchBehindTheBarrier == KeysSpec => []OneBatchAfterLogout
<1>1. KeysInit => AtItsBatch
  BY DEF KeysInit, AtItsBatch
<1>2. KeysSpec => []AtItsBatch
  BY <1>1, BatchesStay, KeysTypeCorrect, PTL DEF KeysSpec
<1>3. AtItsBatch => OneBatchAfterLogout
  BY DEF AtItsBatch, OneBatchAfterLogout
<1> QED BY <1>2, <1>3, PTL
================================================================================
