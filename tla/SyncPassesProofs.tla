------------------------- MODULE SyncPassesProofs -------------------------
(* The safety of the unattended passes for any set of checkouts, hook
   processes and callers, any number of commits, and any faults within the
   model's kinds.

   Three invariants, each relative to the ones before it.  Shape says what the
   phase of an actor tells of its record and who may hold the slot.  Above it
   NoTriggerIsForgotten is inductive as it stands.  CatchUpIsFresh needs what
   the worker owes the callers it serves until it answers them (ServesInv). *)
EXTENDS SyncPasses, TLAPS

(****************************** sequences *********************************)

\* The first element and the rest make up a sequence.
LEMMA HeadAndTail ==
    ASSUME NEW S, NEW s \in Seq(S), s # <<>>
    PROVE  /\ s[1] \in S /\ s[1] \in ToSet(s) /\ Tail(s) \in Seq(S)
           /\ ToSet(s) = {s[1]} \cup ToSet(Tail(s))
<1>1. Len(s) \in Nat /\ Len(s) # 0 /\ DOMAIN s = 1..Len(s)
  OBVIOUS
<1>2. s[1] \in S /\ s[1] \in ToSet(s)
  BY <1>1 DEF ToSet
<1>3. /\ Tail(s) \in Seq(S) /\ DOMAIN Tail(s) = 1..(Len(s) - 1)
      /\ \A i \in 1..(Len(s) - 1) : Tail(s)[i] = s[i + 1]
  BY <1>1
<1>4. ASSUME NEW x \in ToSet(s) PROVE x \in {s[1]} \cup ToSet(Tail(s))
  <2>1. PICK i \in 1..Len(s) : x = s[i]
    BY <1>1, <1>4 DEF ToSet
  <2>2. CASE i = 1
    BY <2>1, <2>2
  <2>3. CASE i # 1
    <3>1. i - 1 \in 1..(Len(s) - 1) /\ (i - 1) + 1 = i
      BY <1>1, <2>3
    <3>2. Tail(s)[i - 1] = x
      BY <1>3, <2>1, <3>1
    <3> QED BY <1>3, <3>1, <3>2 DEF ToSet
  <2> QED BY <2>2, <2>3
<1>5. ASSUME NEW x \in ToSet(Tail(s)) PROVE x \in ToSet(s)
  <2>1. PICK i \in 1..(Len(s) - 1) : x = Tail(s)[i]
    BY <1>3, <1>5 DEF ToSet
  <2>2. i + 1 \in 1..Len(s) /\ x = s[i + 1]
    BY <1>1, <1>3, <2>1
  <2> QED BY <1>1, <2>2 DEF ToSet
<1> QED BY <1>2, <1>3, <1>4, <1>5

LEMMA Appended ==
    ASSUME NEW S, NEW s \in Seq(S), NEW e \in S
    PROVE  Append(s, e) \in Seq(S) /\ ToSet(Append(s, e)) = ToSet(s) \cup {e}
<1>1. Len(s) \in Nat /\ DOMAIN s = 1..Len(s)
  OBVIOUS
<1>2. /\ Append(s, e) \in Seq(S) /\ DOMAIN Append(s, e) = 1..(Len(s) + 1)
      /\ \A i \in 1..Len(s) : Append(s, e)[i] = s[i]
      /\ Append(s, e)[Len(s) + 1] = e
  BY <1>1
<1>3. ASSUME NEW x \in ToSet(Append(s, e)) PROVE x \in ToSet(s) \cup {e}
  <2>1. PICK i \in 1..(Len(s) + 1) : x = Append(s, e)[i]
    BY <1>2, <1>3 DEF ToSet
  <2>2. CASE i = Len(s) + 1
    BY <1>2, <2>1, <2>2
  <2>3. CASE i # Len(s) + 1
    <3>1. i \in 1..Len(s) /\ x = s[i]
      BY <1>1, <1>2, <2>1, <2>3
    <3> QED BY <1>1, <3>1 DEF ToSet
  <2> QED BY <2>2, <2>3
<1>4. ASSUME NEW x \in ToSet(s) PROVE x \in ToSet(Append(s, e))
  <2>1. PICK i \in 1..Len(s) : x = s[i]
    BY <1>1, <1>4 DEF ToSet
  <2>2. i \in 1..(Len(s) + 1) /\ x = Append(s, e)[i]
    BY <1>1, <1>2, <2>1
  <2> QED BY <1>2, <2>2 DEF ToSet
<1>5. e \in ToSet(Append(s, e))
  <2>1. Len(s) + 1 \in 1..(Len(s) + 1)
    BY <1>1
  <2> QED BY <1>2, <2>1 DEF ToSet
<1> QED BY <1>2, <1>3, <1>4, <1>5

LEMMA FewElements ==
    ASSUME NEW S
    PROVE  /\ <<>> \in Seq(S) /\ ToSet(<<>>) = {}
           /\ \A e \in S : <<e>> \in Seq(S) /\ ToSet(<<e>>) = {e}
<1>1. <<>> \in Seq(S) /\ ToSet(<<>>) = {}
  BY DEF ToSet
<1>2. ASSUME NEW e \in S PROVE <<e>> \in Seq(S) /\ ToSet(<<e>>) = {e}
  BY DEF ToSet
<1> QED BY <1>1, <1>2

LEMMA ElementsOf ==
    ASSUME NEW S, NEW s \in Seq(S) PROVE ToSet(s) \subseteq S
BY DEF ToSet

\* The order a pass begins in names the same checkouts.
LEMMA OrderKeeps ==
    ASSUME NEW S, NEW s \in Seq(S)
    PROVE  Order(s) \in Seq(S) /\ ToSet(Order(s)) = ToSet(s)
<1>1. CASE s = <<>>
  <2>1. Order(s) = s
    BY <1>1, Zenon DEF Order
  <2> QED BY <2>1
<1>2. CASE s # <<>>
  <2>1. s[1] \in S /\ Tail(s) \in Seq(S) /\ ToSet(s) = {s[1]} \cup ToSet(Tail(s))
    BY <1>2, HeadAndTail
  <2>2. /\ Append(Tail(s), s[1]) \in Seq(S)
        /\ ToSet(Append(Tail(s), s[1])) = ToSet(Tail(s)) \cup {s[1]}
    <3>1. \A t \in Seq(S), e \in S :
            Append(t, e) \in Seq(S) /\ ToSet(Append(t, e)) = ToSet(t) \cup {e}
      BY Appended
    <3> QED BY <2>1, <3>1, Zenon
  <2>3. Order(s) = Append(Tail(s), s[1])
    BY <1>2, Zenon DEF Order
  <2> QED BY <2>1, <2>2, <2>3
<1> QED BY <1>1, <1>2

(**************************** one actor's record **************************)

Phases == {"idle", "fired", "waiting", "entered", "taken", "pass", "walk", "ended", "coalesced"}

\* The record r is in phase p, has o and s to index, and so on.
Says(r, p, o, s, w, v) ==
    /\ r \in Run
    /\ r.phase = p /\ r.own = o /\ r.sweep = s /\ r.walked = w /\ r.serves = v

\* The step replaces the record of actor a, and no other, by such a record.
Does(a, p, o, s, w, v) ==
    \E r \in Run : Says(r, p, o, s, w, v) /\ run' = [run EXCEPT ![a] = r]

LEMMA RunFields ==
    ASSUME NEW r \in Run
    PROVE  /\ r.phase \in Phases /\ r.own \in Seq(Checkouts) /\ r.sweep \in SUBSET Covered
           /\ r.walked \in Nat /\ r.serves \in SUBSET Calls
BY DEF Run, Phases

\* After such a step the record says what it was set to.
LEMMA DoesIt ==
    ASSUME run \in [Actors -> Run], NEW a \in Actors, NEW p, NEW o, NEW s, NEW w, NEW v,
           Does(a, p, o, s, w, v)
    PROVE  /\ run' \in [Actors -> Run]
           /\ Says(run'[a], p, o, s, w, v)
           /\ \A b \in Actors \ {a} : run'[b] = run[b]
<1>1. PICK r \in Run : Says(r, p, o, s, w, v) /\ run' = [run EXCEPT ![a] = r]
  BY DEF Does
<1>2. run' \in [Actors -> Run] /\ run'[a] = r /\ \A b \in Actors \ {a} : run'[b] = run[b]
  BY <1>1
<1> QED BY <1>1, <1>2

\* Each way the model changes some fields of a record.
LEMMA Changed ==
    ASSUME NEW r \in Run, NEW p \in Phases, NEW o \in Seq(Checkouts),
           NEW s \in SUBSET Covered, NEW w \in Nat, NEW v \in SUBSET Calls
    PROVE  /\ Says([r EXCEPT !.phase = p, !.walked = w], p, r.own, r.sweep, w, r.serves)
           /\ Says([r EXCEPT !.phase = p, !.own = o], p, o, r.sweep, r.walked, r.serves)
           /\ Says([r EXCEPT !.sweep = s, !.own = o], r.phase, o, s, r.walked, r.serves)
           /\ Says([r EXCEPT !.phase = p], p, r.own, r.sweep, r.walked, r.serves)
           /\ Says([r EXCEPT !.phase = p, !.own = o, !.sweep = s], p, o, s, r.walked, r.serves)
           /\ Says([r EXCEPT !.phase = p, !.own = o, !.serves = v],
                   p, o, r.sweep, r.walked, v)
<1>1. Says([r EXCEPT !.phase = p, !.walked = w], p, r.own, r.sweep, w, r.serves)
  BY DEF Says, Run, Phases
<1>2. Says([r EXCEPT !.phase = p, !.own = o], p, o, r.sweep, r.walked, r.serves)
  BY DEF Says, Run, Phases
<1>3. Says([r EXCEPT !.sweep = s, !.own = o], r.phase, o, s, r.walked, r.serves)
  BY DEF Says, Run, Phases
<1>4. Says([r EXCEPT !.phase = p], p, r.own, r.sweep, r.walked, r.serves)
  BY DEF Says, Run, Phases
<1>5. Says([r EXCEPT !.phase = p, !.own = o, !.sweep = s], p, o, s, r.walked, r.serves)
  BY DEF Says, Run, Phases
<1>6. Says([r EXCEPT !.phase = p, !.own = o, !.serves = v], p, o, r.sweep, r.walked, v)
  BY DEF Says, Run, Phases
<1> QED BY <1>1, <1>2, <1>3, <1>4, <1>5, <1>6

LEMMA RestIs == Says(AtRest, "idle", <<>>, {}, 0, {})
BY DEF Says, AtRest, Run

LEMMA BegunIs ==
    ASSUME NEW r \in Run
    PROVE  Says(Begun(r), "pass", Order(r.own),
                Covered \ (IF r.own = <<>> THEN {} ELSE {r.own[1]}), r.walked, r.serves)
<1>1. /\ "pass" \in Phases /\ r.walked \in Nat /\ r.serves \in SUBSET Calls
      /\ (Covered \ (IF r.own = <<>> THEN {} ELSE {r.own[1]})) \in SUBSET Covered
      /\ Order(r.own) \in Seq(Checkouts)
  BY RunFields, OrderKeeps DEF Phases
<1> QED BY <1>1, Changed, Zenon DEF Begun

(************************ the invariant of the records ********************)

\* A process that has not begun its pass, or is through with it, sweeps
\* nothing; a hook names at most one checkout; a walk is of the first checkout
\* in hand, and saw no HEAD that is not there yet.
RecordFits(r) ==
    /\ r.phase \in {"idle", "ended", "coalesced"} => r.own = <<>>
    /\ r.phase = "fired" => r.own = <<>> \/ \E c \in Checkouts : r.own = <<c>>
    /\ r.phase \notin {"pass", "walk"} => r.sweep = {}
    /\ r.phase = "walk" => r.own # <<>> /\ r.walked <= head[r.own[1]]

RecordsFit == \A a \in Actors : RecordFits(run[a])

\* A run by hand sweeps nothing; the coordinator's worker never waits on the slot.
RolesFit ==
    /\ run[ByHand].sweep = {} /\ run[ByHand].phase \in {"idle", "pass", "walk"}
    /\ run[Worker].phase \in {"idle", "taken", "pass", "walk"}

\* Who holds the slot has not begun its pass.
SlotFits == slot # NoOne => run[slot].phase \in {"waiting", "entered"}

\* What was reported or promised is no newer than HEAD.
HeadsGrow ==
    /\ \A c \in Checkouts : owed[c] <= head[c]
    /\ \A k \in Calls, c \in Checkouts : calls[k].heads[c] <= head[c]

Shape == RecordsFit /\ RolesFit /\ SlotFits /\ HeadsGrow

PassesInv == PassesTypeOK /\ Shape

LEMMA ActorsAre ==
    /\ Worker \in Actors /\ ByHand \in Actors /\ Triggers \subseteq Actors
    /\ NoOne \notin Actors /\ Worker # ByHand
    /\ Worker \notin Triggers /\ ByHand \notin Triggers
    /\ Covered \subseteq Checkouts
BY PassesAssumption DEF PassesAssumption, Actors

(******************** what each action does to a record *******************)

LEMMA IndexMoves ==
    ASSUME PassesTypeOK, RecordsFit, NEW a \in Actors
    PROVE  /\ WalkBegin(a) => Does(a, "walk", run[a].own, run[a].sweep, head[run[a].own[1]],
                                   run[a].serves)
           /\ WalkEnd(a) \/ WalkFail(a) =>
                Does(a, "pass", Tail(run[a].own), run[a].sweep, run[a].walked, run[a].serves)
           /\ Sweep(a) =>
                \E c \in run[a].sweep :
                   Does(a, "pass", IF marker[c] = head[c] THEN <<>> ELSE <<c>>,
                        run[a].sweep \ {c}, run[a].walked, run[a].serves)
<1> DEFINE r == run[a]
<1>1. /\ run \in [Actors -> Run] /\ r \in Run /\ r.own \in Seq(Checkouts)
      /\ r.sweep \in SUBSET Covered /\ r.walked \in Nat /\ r.serves \in SUBSET Calls
  BY RunFields DEF PassesTypeOK
<1>2. ASSUME WalkBegin(a)
      PROVE  Does(a, "walk", r.own, r.sweep, head[r.own[1]], r.serves)
  <2> DEFINE next == [r EXCEPT !.phase = "walk", !.walked = head[r.own[1]]]
  <2>1. r.own[1] \in Checkouts
    BY <1>1, <1>2, HeadAndTail DEF WalkBegin
  <2>2. head[r.own[1]] \in Nat /\ "walk" \in Phases
    BY <2>1 DEF PassesTypeOK, Phases
  <2>3. Says(next, "walk", r.own, r.sweep, head[r.own[1]], r.serves)
    BY <1>1, <2>2, Changed
  <2>4. run' = [run EXCEPT ![a] = next]
    BY <1>2 DEF WalkBegin
  <2>5. next \in Run
    BY <2>3 DEF Says
  <2> HIDE DEF next, r
  <2> QED BY <2>3, <2>4, <2>5, Zenon DEF Does
<1>3. ASSUME WalkEnd(a) \/ WalkFail(a)
      PROVE  Does(a, "pass", Tail(r.own), r.sweep, r.walked, r.serves)
  <2> DEFINE next == [r EXCEPT !.phase = "pass", !.own = Tail(r.own)]
  <2>1. r.own # <<>>
    BY <1>3 DEF WalkEnd, WalkFail, RecordsFit, RecordFits
  <2>2. Tail(r.own) \in Seq(Checkouts) /\ "pass" \in Phases
    BY <1>1, <2>1, HeadAndTail DEF Phases
  <2>3. Says(next, "pass", Tail(r.own), r.sweep, r.walked, r.serves)
    BY <1>1, <2>2, Changed
  <2>4. run' = [run EXCEPT ![a] = next]
    BY <1>3 DEF WalkEnd, WalkFail
  <2>5. next \in Run
    BY <2>3 DEF Says
  <2> HIDE DEF next, r
  <2> QED BY <2>3, <2>4, <2>5, Zenon DEF Does
<1>4. ASSUME Sweep(a)
      PROVE  \E c \in r.sweep : Does(a, "pass", IF marker[c] = head[c] THEN <<>> ELSE <<c>>,
                                     r.sweep \ {c}, r.walked, r.serves)
  <2>1. PICK c \in r.sweep :
          run' = [run EXCEPT ![a].sweep = @ \ {c},
                             ![a].own = IF marker[c] = head[c] THEN <<>> ELSE <<c>>]
    BY <1>4 DEF Sweep
  <2> DEFINE o == IF marker[c] = head[c] THEN <<>> ELSE <<c>>
             next == [r EXCEPT !.sweep = r.sweep \ {c}, !.own = o]
  <2>2. c \in Checkouts
    BY <1>1, <2>1, ActorsAre
  <2>3. o \in Seq(Checkouts)
    BY <2>2, FewElements
  <2>4. r.phase = "pass" /\ (r.sweep \ {c}) \in SUBSET Covered /\ "pass" \in Phases
    BY <1>1, <1>4 DEF Sweep, Phases
  <2>5. run' = [run EXCEPT ![a] = next]
    BY <2>1
  <2> HIDE DEF o
  <2>6. Says(next, "pass", o, r.sweep \ {c}, r.walked, r.serves)
    BY <1>1, <2>3, <2>4, Changed
  <2>7. next \in Run
    BY <2>6 DEF Says
  <2> HIDE DEF next
  <2>8. Does(a, "pass", o, r.sweep \ {c}, r.walked, r.serves)
    BY <2>5, <2>6, <2>7, Zenon DEF Does
  <2> QED BY <2>1, <2>8 DEF o
<1> QED BY <1>2, <1>3, <1>4

LEMMA HookMoves ==
    ASSUME PassesTypeOK, NEW t \in Triggers
    PROVE  /\ \A c \in Checkouts : Fire(t, c) =>
                Does(t, "fired", <<c>>, run[t].sweep, run[t].walked, run[t].serves)
           /\ FireAgent(t) =>
                Does(t, "fired", run[t].own, run[t].sweep, run[t].walked, run[t].serves)
           /\ Enqueue(t) =>
                \/ Does(t, "waiting", run[t].own, run[t].sweep, run[t].walked, run[t].serves)
                \/ Does(t, "coalesced", <<>>, {}, 0, {})
           /\ Enter(t) =>
                Does(t, "entered", run[t].own, run[t].sweep, run[t].walked, run[t].serves)
           /\ DropSlot(t) =>
                Does(t, "pass", Order(run[t].own),
                     Covered \ (IF run[t].own = <<>> THEN {} ELSE {run[t].own[1]}),
                     run[t].walked, run[t].serves)
           /\ PassEnds(t) \/ Killed(t) => Does(t, "ended", <<>>, {}, 0, {})
<1> DEFINE r == run[t]
<1>1. /\ run \in [Actors -> Run] /\ t \in Actors /\ r \in Run /\ r.own \in Seq(Checkouts)
      /\ r.sweep \in SUBSET Covered /\ r.walked \in Nat /\ r.serves \in SUBSET Calls
  BY RunFields, ActorsAre DEF PassesTypeOK
<1>2. ASSUME NEW n \in Run, NEW p, NEW o, NEW s, NEW w, NEW v,
             Says(n, p, o, s, w, v), run' = [run EXCEPT ![t] = n]
      PROVE  Does(t, p, o, s, w, v)
  BY <1>2, Zenon DEF Does
<1>3. \A p \in Phases : Says([r EXCEPT !.phase = p], p, r.own, r.sweep, r.walked, r.serves)
  BY <1>1, Changed
<1>4. \A p \in Phases : [r EXCEPT !.phase = p] \in Run
  BY <1>3 DEF Says
<1>5. \A p \in Phases : Says([AtRest EXCEPT !.phase = p], p, <<>>, {}, 0, {})
  <2>1. /\ AtRest \in Run /\ AtRest.own = <<>> /\ AtRest.sweep = {} /\ AtRest.walked = 0
        /\ AtRest.serves = {}
    BY RestIs DEF Says
  <2>2. \A p \in Phases :
          Says([AtRest EXCEPT !.phase = p], p, AtRest.own, AtRest.sweep, AtRest.walked, AtRest.serves)
    <3>1. /\ <<>> \in Seq(Checkouts) /\ {} \in SUBSET Covered /\ 0 \in Nat
          /\ {} \in SUBSET Calls
      OBVIOUS
    <3> QED BY <2>1, <3>1, Changed
  <2> QED BY <2>1, <2>2
<1>6. \A p \in Phases : [AtRest EXCEPT !.phase = p] \in Run
  BY <1>5 DEF Says
<1>7. {"fired", "waiting", "coalesced", "entered", "ended"} \subseteq Phases
  BY DEF Phases
<1>8. ASSUME NEW c \in Checkouts, Fire(t, c)
      PROVE  Does(t, "fired", <<c>>, r.sweep, r.walked, r.serves)
  <2> DEFINE next == [r EXCEPT !.phase = "fired", !.own = <<c>>]
  <2>1. Says(next, "fired", <<c>>, r.sweep, r.walked, r.serves)
    BY <1>1, <1>7, Changed, FewElements
  <2>2. run' = [run EXCEPT ![t] = next]
    BY <1>8 DEF Fire
  <2>3. next \in Run
    BY <2>1 DEF Says
  <2> HIDE DEF next, r
  <2> QED BY <1>2, <2>1, <2>2, <2>3
<1>9. ASSUME FireAgent(t) PROVE Does(t, "fired", r.own, r.sweep, r.walked, r.serves)
  <2>1. run' = [run EXCEPT ![t] = [r EXCEPT !.phase = "fired"]]
    BY <1>9 DEF FireAgent
  <2> QED BY <1>2, <1>3, <1>4, <1>7, <2>1
<1>10. ASSUME Enter(t) PROVE Does(t, "entered", r.own, r.sweep, r.walked, r.serves)
  <2>1. run' = [run EXCEPT ![t] = [r EXCEPT !.phase = "entered"]]
    BY <1>10 DEF Enter
  <2> QED BY <1>2, <1>3, <1>4, <1>7, <2>1
<1>11. ASSUME Enqueue(t)
       PROVE  \/ Does(t, "waiting", r.own, r.sweep, r.walked, r.serves)
              \/ Does(t, "coalesced", <<>>, {}, 0, {})
  <2>1. CASE run' = [run EXCEPT ![t].phase = "waiting"]
    <3>1. run' = [run EXCEPT ![t] = [r EXCEPT !.phase = "waiting"]]
      BY <2>1
    <3> QED BY <1>2, <1>3, <1>4, <1>7, <3>1
  <2>2. CASE run' = [run EXCEPT ![t] = [AtRest EXCEPT !.phase = "coalesced"]]
    BY <1>2, <1>5, <1>6, <1>7, <2>2
  <2> QED BY <1>11, <2>1, <2>2 DEF Enqueue
<1>12. ASSUME DropSlot(t)
       PROVE  Does(t, "pass", Order(r.own),
                   Covered \ (IF r.own = <<>> THEN {} ELSE {r.own[1]}), r.walked, r.serves)
  <2>1. Says(Begun(r), "pass", Order(r.own),
             Covered \ (IF r.own = <<>> THEN {} ELSE {r.own[1]}), r.walked, r.serves)
    BY <1>1, BegunIs
  <2>2. run' = [run EXCEPT ![t] = Begun(r)]
    BY <1>12 DEF DropSlot
  <2>3. Begun(r) \in Run
    BY <2>1 DEF Says
  <2> HIDE DEF r
  <2> QED BY <1>2, <2>1, <2>2, <2>3
<1>13. ASSUME PassEnds(t) \/ Killed(t) PROVE Does(t, "ended", <<>>, {}, 0, {})
  <2>1. run' = [run EXCEPT ![t] = [AtRest EXCEPT !.phase = "ended"]]
    BY <1>13 DEF PassEnds, Killed
  <2> QED BY <1>2, <1>5, <1>6, <1>7, <2>1
<1> QED BY <1>8, <1>9, <1>10, <1>11, <1>12, <1>13

LEMMA WorkerMoves ==
    ASSUME PassesTypeOK
    PROVE  /\ \A c \in Checkouts : IndexByHand(c) => Does(ByHand, "pass", <<c>>, {}, 0, {})
           /\ Take => Does(Worker, "taken", queue.checkouts, {}, 0, queue.waiters)
           /\ WorkerEnters =>
                Does(Worker, "pass", Order(run[Worker].own),
                     Covered \ (IF run[Worker].own = <<>> THEN {} ELSE {run[Worker].own[1]}),
                     run[Worker].walked, run[Worker].serves)
           /\ WorkerEnds \/ WorkerFails \/ Restart => Does(Worker, "idle", <<>>, {}, 0, {})
<1> DEFINE r == run[Worker]
<1>1. /\ run \in [Actors -> Run] /\ r \in Run /\ AtRest \in Run
      /\ Worker \in Actors /\ ByHand \in Actors
  BY RestIs, ActorsAre DEF PassesTypeOK, Says
<1>2. ASSUME NEW c \in Checkouts, IndexByHand(c) PROVE Does(ByHand, "pass", <<c>>, {}, 0, {})
  <2> DEFINE next == [AtRest EXCEPT !.phase = "pass", !.own = <<c>>]
  <2>1. Says(next, "pass", <<c>>, AtRest.sweep, AtRest.walked, AtRest.serves)
    BY <1>1, Changed, FewElements DEF Phases
  <2>2. Says(next, "pass", <<c>>, {}, 0, {})
    BY <2>1 DEF AtRest
  <2>3. run' = [run EXCEPT ![ByHand] = next]
    BY <1>2 DEF IndexByHand
  <2>4. next \in Run
    BY <2>1 DEF Says
  <2> HIDE DEF next
  <2> QED BY <2>2, <2>3, <2>4, Zenon DEF Does
<1>3. ASSUME Take PROVE Does(Worker, "taken", queue.checkouts, {}, 0, queue.waiters)
  <2> DEFINE o == queue.checkouts  v == queue.waiters
             next == [AtRest EXCEPT !.phase = "taken", !.own = o, !.serves = v]
  <2>1. o \in Seq(Checkouts) /\ v \in SUBSET Calls
    BY DEF PassesTypeOK, Queue
  <2>2. run' = [run EXCEPT ![Worker] = next]
    BY <1>3 DEF Take
  <2> HIDE DEF o, v
  <2>3. Says(next, "taken", o, AtRest.sweep, AtRest.walked, v)
    BY <1>1, <2>1, Changed DEF Phases
  <2>4. Says(next, "taken", o, {}, 0, v)
    BY <2>3 DEF AtRest
  <2>5. next \in Run
    BY <2>3 DEF Says
  <2> HIDE DEF next
  <2>6. Does(Worker, "taken", o, {}, 0, v)
    BY <2>2, <2>4, <2>5, Zenon DEF Does
  <2> QED BY <2>6 DEF o, v
<1>4. ASSUME WorkerEnters
      PROVE  Does(Worker, "pass", Order(r.own),
                  Covered \ (IF r.own = <<>> THEN {} ELSE {r.own[1]}), r.walked, r.serves)
  <2>1. Says(Begun(r), "pass", Order(r.own),
             Covered \ (IF r.own = <<>> THEN {} ELSE {r.own[1]}), r.walked, r.serves)
    BY <1>1, BegunIs
  <2>2. run' = [run EXCEPT ![Worker] = Begun(r)]
    BY <1>4 DEF WorkerEnters
  <2>3. Begun(r) \in Run
    BY <2>1 DEF Says
  <2> HIDE DEF r
  <2> QED BY <2>1, <2>2, <2>3, Zenon DEF Does
<1>5. ASSUME WorkerEnds \/ WorkerFails \/ Restart
      PROVE  Does(Worker, "idle", <<>>, {}, 0, {})
  <2>1. run' = [run EXCEPT ![Worker] = AtRest]
    BY <1>5 DEF WorkerEnds, WorkerFails, Restart
  <2> QED BY <1>1, <2>1, RestIs, Zenon DEF Does
<1> QED BY <1>2, <1>3, <1>4, <1>5

(*********************** the records stay as they must ********************)

\* HEADs only grow.
Grown == head' \in [Checkouts -> Nat] /\ \A c \in Checkouts : head'[c] >= head[c]

LEMMA WalkStillFits ==
    ASSUME PassesInv, Grown, NEW r \in Run, RecordFits(r), r.phase = "walk"
    PROVE  r.own # <<>> /\ r.walked <= head'[r.own[1]]
<1>1. r.own # <<>> /\ r.walked <= head[r.own[1]] /\ r.walked \in Nat
  BY RunFields DEF RecordFits
<1>2. r.own[1] \in Checkouts
  BY <1>1, RunFields, HeadAndTail
<1> DEFINE c == r.own[1]
<1>3. head[c] \in Nat /\ head'[c] \in Nat /\ head'[c] >= head[c]
  BY <1>2 DEF Grown, PassesInv, PassesTypeOK
<1> HIDE DEF c
<1>4. r.walked <= head'[c]
  BY <1>1, <1>3 DEF c
<1> QED BY <1>1, <1>4 DEF c

LEMMA RecordStep ==
    ASSUME PassesInv, Grown, NEW a \in Actors, NEW p, NEW o, NEW s, NEW w, NEW v,
           Does(a, p, o, s, w, v),
           p \in {"idle", "ended", "coalesced"} => o = <<>>,
           p = "fired" => o = <<>> \/ \E c \in Checkouts : o = <<c>>,
           p \notin {"pass", "walk"} => s = {},
           p = "walk" => o # <<>> /\ w <= head'[o[1]]
    PROVE  run' \in [Actors -> Run] /\ RecordsFit'
<1>1. run \in [Actors -> Run]
  BY DEF PassesInv, PassesTypeOK
<1>2. /\ run' \in [Actors -> Run] /\ Says(run'[a], p, o, s, w, v)
      /\ \A b \in Actors \ {a} : run'[b] = run[b]
  BY <1>1, DoesIt
<1>3. RecordFits(run[a])'
  BY <1>2 DEF Says, RecordFits
<1>4. ASSUME NEW b \in Actors \ {a} PROVE RecordFits(run[b])'
  <2> DEFINE r == run[b]
  <2>1. RecordFits(r) /\ r \in Run /\ run'[b] = r
    BY <1>1, <1>2 DEF PassesInv, Shape, RecordsFit
  <2>2. r.phase = "walk" => r.own # <<>> /\ r.walked <= head'[r.own[1]]
    BY <2>1, WalkStillFits
  <2> QED BY <2>1, <2>2 DEF RecordFits
<1> QED BY <1>2, <1>3, <1>4 DEF RecordsFit

LEMMA RecordsRest ==
    ASSUME PassesInv, Grown, UNCHANGED run PROVE run' \in [Actors -> Run] /\ RecordsFit'
<1>1. run \in [Actors -> Run]
  BY DEF PassesInv, PassesTypeOK
<1>2. ASSUME NEW b \in Actors PROVE RecordFits(run[b])'
  <2> DEFINE r == run[b]
  <2>1. RecordFits(r) /\ r \in Run /\ run'[b] = r
    BY <1>1 DEF PassesInv, Shape, RecordsFit
  <2>2. r.phase = "walk" => r.own # <<>> /\ r.walked <= head'[r.own[1]]
    BY <2>1, WalkStillFits
  <2> QED BY <2>1, <2>2 DEF RecordFits
<1> QED BY <1>1, <1>2 DEF RecordsFit

LEMMA HeadStays ==
    ASSUME PassesInv, UNCHANGED head PROVE Grown
BY DEF PassesInv, PassesTypeOK, Grown

\* A commit raises the HEAD of its checkout and what its hook reported.
LEMMA Committed ==
    ASSUME PassesInv, NEW c \in Checkouts, UNCHANGED calls,
           head' = [head EXCEPT ![c] = @ + 1], owed' = [owed EXCEPT ![c] = head[c] + 1]
    PROVE  Grown /\ HeadsGrow' /\ owed' \in [Checkouts -> Nat]
<1>1. /\ head \in [Checkouts -> Nat] /\ owed \in [Checkouts -> Nat]
      /\ \A k \in Calls : calls[k].heads \in [Checkouts -> Nat]
      /\ HeadsGrow
  BY DEF PassesInv, PassesTypeOK, Shape
<1>2. /\ head' \in [Checkouts -> Nat] /\ owed' \in [Checkouts -> Nat]
      /\ \A d \in Checkouts : head'[d] \in {head[d], head[d] + 1}
  BY <1>1
<1>3. Grown
  BY <1>1, <1>2 DEF Grown
<1>4. \A d \in Checkouts : owed'[d] <= head'[d]
  BY <1>1 DEF HeadsGrow
<1>5. ASSUME NEW k \in Calls, NEW d \in Checkouts PROVE calls'[k].heads[d] <= head'[d]
  <2>1. calls[k].heads[d] <= head[d] /\ calls[k].heads[d] \in Nat
    BY <1>1 DEF HeadsGrow
  <2> QED BY <1>1, <1>2, <2>1
<1> QED BY <1>2, <1>3, <1>4, <1>5 DEF HeadsGrow

\* The answers of callers leave what they asked for alone.
LEMMA RepliedKeeps ==
    ASSUME PassesTypeOK, NEW ks, NEW how \in {"idle", "asked", "answered", "failed"},
           calls' = Replied(ks, how)
    PROVE  /\ calls' \in [Calls -> [phase : {"idle", "asked", "answered", "failed"},
                                    heads : [Checkouts -> Nat]]]
           /\ \A k \in Calls : /\ calls'[k].heads = calls[k].heads
                               /\ k \in ks => calls'[k].phase = how
                               /\ k \notin ks => calls'[k] = calls[k]
<1>1. ASSUME NEW k \in Calls
      PROVE  /\ [calls[k] EXCEPT !.phase = how] \in
                  [phase : {"idle", "asked", "answered", "failed"}, heads : [Checkouts -> Nat]]
             /\ [calls[k] EXCEPT !.phase = how].heads = calls[k].heads
             /\ [calls[k] EXCEPT !.phase = how].phase = how
  BY DEF PassesTypeOK
<1>2. ASSUME NEW k \in Calls
      PROVE  calls'[k] = IF k \in ks THEN [calls[k] EXCEPT !.phase = how] ELSE calls[k]
  BY DEF Replied
<1>3. calls' = [k \in Calls |-> IF k \in ks THEN [calls[k] EXCEPT !.phase = how] ELSE calls[k]]
  BY DEF Replied
<1>4. \A k \in Calls : calls[k] \in [phase : {"idle", "asked", "answered", "failed"},
                                     heads : [Checkouts -> Nat]]
  BY DEF PassesTypeOK
<1>5. calls' \in [Calls -> [phase : {"idle", "asked", "answered", "failed"},
                            heads : [Checkouts -> Nat]]]
  BY <1>1, <1>3, <1>4
<1> QED BY <1>1, <1>2, <1>5

(************************* each step keeps PassesInv ***********************)

\* The parts of PassesInv that no record tells.
Others ==
    /\ head \in [Checkouts -> Nat] /\ shown \in [Checkouts -> Nat] /\ marker \in [Checkouts -> Nat]
    /\ lock \in Actors \cup {NoOne} /\ slot \in Triggers \cup {NoOne}
    /\ queue \in Queue
    /\ calls \in [Calls -> [phase : {"idle", "asked", "answered", "failed"},
                            heads : [Checkouts -> Nat]]]
    /\ owed \in [Checkouts -> Nat] /\ excused \subseteq Checkouts

LEMMA Gathered ==
    PassesInv <=> /\ Others /\ run \in [Actors -> Run]
                  /\ RecordsFit /\ RolesFit /\ SlotFits /\ HeadsGrow
BY DEF PassesInv, PassesTypeOK, Shape, Others

LEMMA GatheredNext ==
    ASSUME Others', run' \in [Actors -> Run], RecordsFit', RolesFit', SlotFits', HeadsGrow'
    PROVE  PassesInv'
BY DEF PassesInv, PassesTypeOK, Shape, Others

LEMMA HeadsStay ==
    ASSUME PassesInv, UNCHANGED <<head, owed>>,
           \A k \in Calls : calls'[k].heads = calls[k].heads
    PROVE  HeadsGrow'
BY DEF PassesInv, Shape, HeadsGrow

\* What the index actions do to the record of their actor.
LEMMA IndexDoes ==
    ASSUME PassesInv, NEW a \in Actors,
           WalkBegin(a) \/ WalkEnd(a) \/ Sweep(a) \/ WalkFail(a)
    PROVE  \E p \in {"pass", "walk"}, o \in Seq(Checkouts), s \in SUBSET run[a].sweep, w \in Nat :
              /\ Does(a, p, o, s, w, run[a].serves)
              /\ p = "walk" => o # <<>> /\ w <= head[o[1]]
<1> DEFINE r == run[a]
<1>1. /\ PassesTypeOK /\ RecordsFit /\ r \in Run /\ r.own \in Seq(Checkouts)
      /\ r.sweep \in SUBSET Covered /\ r.walked \in Nat
  BY RunFields DEF PassesInv, PassesTypeOK, Shape
<1>2. CASE WalkBegin(a)
  <2> DEFINE h == head[r.own[1]]
  <2>1. Does(a, "walk", r.own, r.sweep, h, r.serves)
    BY <1>1, <1>2, IndexMoves
  <2>2. r.own # <<>> /\ r.own[1] \in Checkouts
    BY <1>1, <1>2, HeadAndTail DEF WalkBegin
  <2>3. h \in Nat /\ h <= head[r.own[1]]
    BY <1>1, <2>2 DEF PassesTypeOK
  <2> HIDE DEF h, r
  <2> QED BY <1>1, <2>1, <2>2, <2>3 DEF r
<1>3. CASE WalkEnd(a) \/ WalkFail(a)
  <2>1. Does(a, "pass", Tail(r.own), r.sweep, r.walked, r.serves)
    BY <1>1, <1>3, IndexMoves
  <2>2. r.own # <<>>
    BY <1>1, <1>3 DEF WalkEnd, WalkFail, RecordsFit, RecordFits
  <2>3. Tail(r.own) \in Seq(Checkouts)
    BY <1>1, <2>2, HeadAndTail
  <2> DEFINE o == Tail(r.own)
  <2> HIDE DEF r, o
  <2>4. Does(a, "pass", o, r.sweep, r.walked, r.serves) /\ o \in Seq(Checkouts)
    BY <2>1, <2>3 DEF o
  <2> QED BY <1>1, <2>4 DEF r
<1>4. CASE Sweep(a)
  <2>1. PICK c \in r.sweep :
          Does(a, "pass", IF marker[c] = head[c] THEN <<>> ELSE <<c>>,
               r.sweep \ {c}, r.walked, r.serves)
    BY <1>1, <1>4, IndexMoves
  <2> DEFINE o == IF marker[c] = head[c] THEN <<>> ELSE <<c>>
  <2>2. c \in Checkouts
    BY <1>1, <2>1, ActorsAre
  <2>3. o \in Seq(Checkouts)
    BY <2>2, FewElements
  <2>4. Does(a, "pass", o, r.sweep \ {c}, r.walked, r.serves)
    BY <2>1
  <2> HIDE DEF r, o
  <2> QED BY <1>1, <2>3, <2>4 DEF r
<1> QED BY <1>2, <1>3, <1>4

\* The slot is not held by who walks or sweeps.
LEMMA IndexerHasNoSlot ==
    ASSUME PassesInv, NEW a \in Actors, run[a].phase \in {"pass", "walk"}
    PROVE  a # slot
<1>1. SlotFits /\ (slot = NoOne => a # slot)
  BY ActorsAre DEF PassesInv, Shape
<1> QED BY <1>1 DEF SlotFits

LEMMA IndexStep ==
    ASSUME PassesInv, NEW a \in Actors,
           WalkBegin(a) \/ WalkEnd(a) \/ Sweep(a) \/ WalkFail(a)
    PROVE  PassesInv'
<1> DEFINE r == run[a]
<1>1. /\ Others /\ run \in [Actors -> Run] /\ RolesFit /\ SlotFits /\ RecordsFit
      /\ r.walked \in Nat /\ r.own \in Seq(Checkouts)
  BY RunFields, Gathered
<1>2. UNCHANGED <<head, owed, calls, slot, queue, lock>> /\ r.phase \in {"pass", "walk"}
  BY DEF WalkBegin, WalkEnd, Sweep, WalkFail, trees, locks
<1>3. PICK p \in {"pass", "walk"}, o \in Seq(Checkouts), s \in SUBSET r.sweep, w \in Nat :
              /\ Does(a, p, o, s, w, r.serves)
              /\ p = "walk" => o # <<>> /\ w <= head[o[1]]
  BY IndexDoes
<1>4. run' \in [Actors -> Run] /\ RecordsFit'
  <2>1. Grown
    BY <1>2, HeadStays
  <2> QED BY <1>2, <1>3, <2>1, RecordStep
<1>5. /\ run'[a].phase = p /\ run'[a].sweep = s
      /\ \A b \in Actors \ {a} : run'[b] = run[b]
  BY <1>1, <1>3, DoesIt DEF Says
<1>6. RolesFit'
  BY <1>1, <1>3, <1>5, ActorsAre DEF RolesFit
<1>7. SlotFits'
  <2>1. a # slot
    BY <1>2, IndexerHasNoSlot
  <2>2. slot \in Actors \cup {NoOne}
    BY <1>1, ActorsAre DEF Others
  <2> QED BY <1>1, <1>2, <1>5, <2>1, <2>2 DEF SlotFits
<1>8. HeadsGrow'
  BY <1>2, HeadsStay
<1>9. Others'
  <2>1. r.phase = "walk" => r.own[1] \in Checkouts
    BY <1>1, HeadAndTail DEF RecordsFit, RecordFits
  <2>2. CASE WalkBegin(a) \/ Sweep(a)
    BY <1>1, <2>2 DEF Others, WalkBegin, Sweep, trees, locks
  <2>3. CASE WalkFail(a)
    BY <1>1, <2>1, <2>3 DEF Others, WalkFail, trees, locks
  <2>4. CASE WalkEnd(a)
    <3>1. /\ shown' = [shown EXCEPT ![r.own[1]] = r.walked]
          /\ marker' = [marker EXCEPT ![r.own[1]] = head[r.own[1]]]
          /\ r.own[1] \in Checkouts /\ excused' = excused
      BY <2>1, <2>4 DEF WalkEnd
    <3>2. shown' \in [Checkouts -> Nat] /\ marker' \in [Checkouts -> Nat]
      BY <1>1, <3>1 DEF Others
    <3> QED BY <1>1, <1>2, <3>1, <3>2 DEF Others
  <2> QED BY <2>2, <2>3, <2>4
<1> QED BY <1>4, <1>6, <1>7, <1>8, <1>9, GatheredNext

\* A step of a hook process leaves the coordinator and the runs by hand alone.
LEMMA HookRoles ==
    ASSUME PassesInv, NEW t \in Triggers, NEW p, NEW o, NEW s, NEW w, NEW v,
           Does(t, p, o, s, w, v)
    PROVE  /\ run'[t].phase = p /\ run'[t].own = o /\ run'[t].sweep = s
           /\ \A b \in Actors \ {t} : run'[b] = run[b]
           /\ RolesFit'
<1>1. run \in [Actors -> Run] /\ RolesFit /\ t \in Actors
  BY Gathered, ActorsAre
<1>2. /\ run'[t].phase = p /\ run'[t].own = o /\ run'[t].sweep = s
      /\ \A b \in Actors \ {t} : run'[b] = run[b]
  BY <1>1, DoesIt DEF Says
<1>3. run'[Worker] = run[Worker] /\ run'[ByHand] = run[ByHand]
  BY <1>2, ActorsAre
<1> QED BY <1>1, <1>2, <1>3 DEF RolesFit

\* The holder of the slot is another process, or gave it up.
LEMMA SlotOfOthers ==
    ASSUME PassesInv, NEW t \in Triggers,
           \A b \in Actors \ {t} : run'[b] = run[b],
           slot' = NoOne \/ slot' = slot, slot' # t
    PROVE  SlotFits'
<1>1. SlotFits /\ slot \in Triggers \cup {NoOne}
  BY Gathered DEF Others
<1> QED BY <1>1, ActorsAre DEF SlotFits

\* Firing, entering, beginning and ending, and being killed.
LEMMA HookStep ==
    ASSUME PassesInv, NEW t \in Triggers,
           \/ \E c \in Checkouts : Fire(t, c)
           \/ FireAgent(t) \/ Enqueue(t) \/ Enter(t) \/ DropSlot(t) \/ PassEnds(t) \/ Killed(t)
    PROVE  PassesInv'
<1> DEFINE r == run[t]
<1>1. /\ Others /\ run \in [Actors -> Run] /\ RolesFit /\ SlotFits /\ RecordsFit /\ RecordFits(r)
      /\ t \in Actors /\ r \in Run /\ r.own \in Seq(Checkouts) /\ PassesTypeOK /\ t # NoOne
  BY RunFields, Gathered, ActorsAre DEF RecordsFit, PassesInv
<1>2. slot = t => r.phase \in {"waiting", "entered"}
  BY <1>1 DEF SlotFits
<1>3. ASSUME NEW c \in Checkouts, Fire(t, c) PROVE PassesInv'
  <2>1. Does(t, "fired", <<c>>, r.sweep, r.walked, r.serves)
    BY <1>1, <1>3, HookMoves
  <2>2. r.phase = "idle" /\ UNCHANGED <<calls, shown, marker, lock, slot, queue, excused>>
    BY <1>3 DEF Fire, locks
  <2>3. Grown /\ HeadsGrow' /\ owed' \in [Checkouts -> Nat]
    BY <1>3, <2>2, Committed DEF Fire
  <2>4. r.sweep = {}
    BY <1>1, <2>2 DEF RecordFits
  <2>5. run' \in [Actors -> Run] /\ RecordsFit'
    BY <1>1, <2>1, <2>3, <2>4, RecordStep
  <2>6. (\A b \in Actors \ {t} : run'[b] = run[b]) /\ RolesFit'
    BY <2>1, HookRoles
  <2>7. SlotFits'
    BY <1>2, <2>2, <2>6, SlotOfOthers
  <2>8. Others'
    BY <1>1, <2>2, <2>3 DEF Others, Grown
  <2> QED BY <2>3, <2>5, <2>6, <2>7, <2>8, GatheredNext
<1>4. CASE FireAgent(t) \/ Enter(t)
  <2>1. PICK p \in {"fired", "entered"} :
          Does(t, p, r.own, r.sweep, r.walked, r.serves)
          /\ (p = "fired" => r.phase = "idle") /\ (p = "entered" => r.phase = "waiting")
    BY <1>1, <1>4, HookMoves DEF FireAgent, Enter
  <2>2. r.sweep = {} /\ (p = "fired" => r.own = <<>>)
    BY <1>1, <2>1 DEF RecordFits
  <2>3. UNCHANGED <<head, owed, calls, shown, marker, slot, queue, excused>>
    BY <1>4 DEF FireAgent, Enter, trees, locks
  <2>4. Grown /\ HeadsGrow'
    BY <2>3, HeadStays, HeadsStay
  <2>5. run' \in [Actors -> Run] /\ RecordsFit'
    <3> HIDE DEF r
    <3> QED BY <1>1, <2>1, <2>2, <2>4, RecordStep
  <2>6. run'[t].phase = p /\ (\A b \in Actors \ {t} : run'[b] = run[b]) /\ RolesFit'
    BY <2>1, HookRoles
  <2>7. SlotFits'
    <3>1. CASE slot = t
      BY <1>2, <2>1, <2>3, <2>6, <3>1 DEF SlotFits
    <3>2. CASE slot # t
      BY <2>3, <2>6, <3>2, SlotOfOthers
    <3> QED BY <3>1, <3>2
  <2>8. lock' \in Actors \cup {NoOne}
    BY <1>1, <1>4 DEF FireAgent, Enter, locks, Others
  <2>9. Others'
    BY <1>1, <2>3, <2>8 DEF Others
  <2> QED BY <2>4, <2>5, <2>6, <2>7, <2>9, GatheredNext
<1>5. CASE Enqueue(t)
  <2>1. r.phase = "fired" /\ UNCHANGED <<head, owed, calls, shown, marker, lock, queue, excused>>
    BY <1>5 DEF Enqueue, trees
  <2>2. r.sweep = {} /\ slot # t
    BY <1>1, <1>2, <2>1 DEF RecordFits
  <2>3. Grown /\ HeadsGrow'
    BY <2>1, HeadStays, HeadsStay
  <2>4. PICK p, o, w, v :
          p \in {"waiting", "coalesced"} /\ Does(t, p, o, {}, w, v) /\ (p = "coalesced" => o = <<>>)
    <3>1. \/ Does(t, "waiting", run[t].own, {}, run[t].walked, run[t].serves)
          \/ Does(t, "coalesced", <<>>, {}, 0, {})
      BY <1>1, <1>5, <2>2, HookMoves
    <3>2. CASE Does(t, "waiting", run[t].own, {}, run[t].walked, run[t].serves)
      <4> WITNESS "waiting", run[t].own, run[t].walked, run[t].serves
      <4> QED BY <3>2
    <3>3. CASE Does(t, "coalesced", <<>>, {}, 0, {})
      <4> WITNESS "coalesced", <<>>, 0, {}
      <4> QED BY <3>3
    <3> QED BY <3>1, <3>2, <3>3
  <2>5. run' \in [Actors -> Run] /\ RecordsFit'
    BY <1>1, <2>3, <2>4, RecordStep
  <2>6. run'[t].phase = p /\ (\A b \in Actors \ {t} : run'[b] = run[b]) /\ RolesFit'
    BY <2>4, HookRoles
  <2>7. slot' = slot \/ (slot' = t /\ run' = [run EXCEPT ![t].phase = "waiting"])
    BY <1>5 DEF Enqueue
  <2>8. CASE slot' = slot
    <3>1. SlotFits'
      BY <2>2, <2>6, <2>8, SlotOfOthers
    <3>2. Others'
      BY <1>1, <2>1, <2>8 DEF Others
    <3> QED BY <2>3, <2>5, <2>6, <3>1, <3>2, GatheredNext
  <2>9. CASE slot' = t /\ run' = [run EXCEPT ![t].phase = "waiting"]
    <3>1. run'[t].phase = "waiting"
      BY <1>1, <2>9 DEF Run
    <3>2. SlotFits'
      BY <2>9, <3>1 DEF SlotFits
    <3>3. Others'
      BY <1>1, <2>1, <2>9 DEF Others
    <3> QED BY <2>3, <2>5, <2>6, <3>2, <3>3, GatheredNext
  <2> QED BY <2>7, <2>8, <2>9
<1>6. CASE DropSlot(t) \/ PassEnds(t) \/ Killed(t)
  <2>1. UNCHANGED <<head, owed, calls, shown, marker, queue>>
    BY <1>6 DEF DropSlot, PassEnds, Killed, trees
  <2>2. Grown /\ HeadsGrow'
    BY <2>1, HeadStays, HeadsStay
  <2>3. PICK p, o, s, w, v :
          p \in {"pass", "ended"} /\ Does(t, p, o, s, w, v) /\ (p = "ended" => o = <<>> /\ s = {})
    <3>1. \/ Does(t, "pass", Order(run[t].own),
                  Covered \ (IF run[t].own = <<>> THEN {} ELSE {run[t].own[1]}),
                  run[t].walked, run[t].serves)
          \/ Does(t, "ended", <<>>, {}, 0, {})
      BY <1>1, <1>6, HookMoves
    <3> DEFINE rest == Covered \ (IF run[t].own = <<>> THEN {} ELSE {run[t].own[1]})
    <3>2. CASE Does(t, "pass", Order(run[t].own), rest, run[t].walked, run[t].serves)
      <4> WITNESS "pass", Order(run[t].own), rest, run[t].walked, run[t].serves
      <4> QED BY <3>2
    <3>3. CASE Does(t, "ended", <<>>, {}, 0, {})
      <4> WITNESS "ended", <<>>, {}, 0, {}
      <4> QED BY <3>3
    <3> QED BY <3>1, <3>2, <3>3
  <2>4. run' \in [Actors -> Run] /\ RecordsFit'
    BY <1>1, <2>2, <2>3, RecordStep
  <2>5. (\A b \in Actors \ {t} : run'[b] = run[b]) /\ RolesFit'
    BY <2>3, HookRoles
  <2>6. slot' = IF slot = t THEN NoOne ELSE slot
    BY <1>6 DEF DropSlot, PassEnds, Killed
  <2>7. SlotFits'
    BY <1>1, <2>5, <2>6, SlotOfOthers
  <2>8. lock' \in Actors \cup {NoOne} /\ slot' \in Triggers \cup {NoOne}
    BY <1>1, <1>6, <2>6 DEF DropSlot, PassEnds, Killed, Others
  <2>9. excused' \subseteq Checkouts
    <3>1. Taken(r) \subseteq Checkouts
      BY <1>1, RunFields, ElementsOf, ActorsAre DEF Taken
    <3>2. excused' = excused \/ excused' = excused \cup Taken(r)
      BY <1>6 DEF DropSlot, PassEnds, Killed
    <3> HIDE DEF r
    <3> QED BY <1>1, <3>1, <3>2 DEF Others
  <2>10. Others'
    BY <1>1, <2>1, <2>8, <2>9 DEF Others
  <2> QED BY <2>2, <2>4, <2>5, <2>7, <2>10, GatheredNext
<1> QED BY <1>3, <1>4, <1>5, <1>6

\* A step that changes no record.
LEMMA StillRecords ==
    ASSUME PassesInv, Grown, UNCHANGED <<run, slot>>
    PROVE  run' \in [Actors -> Run] /\ RecordsFit' /\ RolesFit' /\ SlotFits'
<1>1. run' \in [Actors -> Run] /\ RecordsFit'
  BY RecordsRest
<1>2. RolesFit' /\ SlotFits'
  BY Gathered DEF RolesFit, SlotFits
<1> QED BY <1>1, <1>2

\* Wakes, ticks, requests and stops.
LEMMA QueueStep ==
    ASSUME PassesInv,
           \/ \E c \in Checkouts : Wake(c)
           \/ \E k \in Calls : CatchUp(k)
           \/ Tick \/ Stop
    PROVE  PassesInv'
<1>1. /\ Others /\ HeadsGrow /\ queue \in Queue /\ queue.checkouts \in Seq(Checkouts)
      /\ queue.waiters \subseteq Calls /\ queue.stopping \in BOOLEAN
  BY Gathered DEF Others, Queue
<1>2. ASSUME NEW c \in Checkouts, Wake(c) PROVE PassesInv'
  <2>1. UNCHANGED <<shown, marker, lock, slot, run, calls>>
    BY <1>2 DEF Wake, locks
  <2>2. Grown /\ HeadsGrow' /\ owed' \in [Checkouts -> Nat]
    BY <1>2, <2>1, Committed DEF Wake
  <2>3. run' \in [Actors -> Run] /\ RecordsFit' /\ RolesFit' /\ SlotFits'
    BY <2>1, <2>2, StillRecords
  <2>4. Append(queue.checkouts, c) \in Seq(Checkouts)
    BY <1>1
  <2>5. queue' \in Queue
    BY <1>1, <1>2, <2>4 DEF Wake, Queue
  <2>6. excused' \subseteq Checkouts
    BY <1>1, <1>2 DEF Wake, Others
  <2>7. Others'
    BY <1>1, <2>1, <2>2, <2>5, <2>6 DEF Others, Grown
  <2> QED BY <2>2, <2>3, <2>7, GatheredNext
<1>3. ASSUME NEW k \in Calls, CatchUp(k) PROVE PassesInv'
  <2>1. UNCHANGED <<head, shown, marker, lock, slot, run, owed, excused>>
    BY <1>3 DEF CatchUp, trees, locks
  <2>2. Grown
    BY <2>1, HeadStays
  <2>3. run' \in [Actors -> Run] /\ RecordsFit' /\ RolesFit' /\ SlotFits'
    BY <2>1, <2>2, StillRecords
  <2>4. queue' \in Queue
    BY <1>1, <1>3 DEF CatchUp, Queue
  <2>5. /\ calls' \in [Calls -> [phase : {"idle", "asked", "answered", "failed"},
                                 heads : [Checkouts -> Nat]]]
        /\ calls'[k].heads = head
        /\ \A i \in Calls \ {k} : calls'[i] = calls[i]
    BY <1>1, <1>3 DEF CatchUp, Others
  <2>6. HeadsGrow'
    <3>1. \A d \in Checkouts : head[d] \in Nat
      BY <1>1 DEF Others
    <3>2. ASSUME NEW i \in Calls, NEW d \in Checkouts PROVE calls'[i].heads[d] <= head[d]
      <4>1. CASE i = k
        BY <2>5, <3>1, <4>1
      <4>2. CASE i # k
        <5>1. calls'[i] = calls[i] /\ calls[i].heads[d] <= head[d]
          BY <1>1, <2>5, <4>2 DEF HeadsGrow
        <5> QED BY <5>1
      <4> QED BY <4>1, <4>2
    <3>3. \A d \in Checkouts : owed'[d] <= head'[d]
      BY <1>1, <2>1 DEF HeadsGrow
    <3> QED BY <2>1, <3>2, <3>3 DEF HeadsGrow
  <2>7. Others'
    BY <1>1, <2>1, <2>4, <2>5 DEF Others
  <2> QED BY <2>3, <2>6, <2>7, GatheredNext
<1>4. CASE Tick \/ Stop
  <2>1. UNCHANGED <<head, shown, marker, lock, slot, run, calls, owed>>
    BY <1>4 DEF Tick, Stop, trees, locks
  <2>2. Grown /\ HeadsGrow'
    BY <2>1, HeadStays, HeadsStay
  <2>3. run' \in [Actors -> Run] /\ RecordsFit' /\ RolesFit' /\ SlotFits'
    BY <2>1, <2>2, StillRecords
  <2>4. queue' \in Queue
    BY <1>1, <1>4 DEF Tick, Stop, Queue
  <2>5. excused' \subseteq Checkouts
    BY <1>1, <1>4, ElementsOf DEF Tick, Stop, Others
  <2>6. Others'
    BY <1>1, <2>1, <2>4, <2>5 DEF Others
  <2> QED BY <2>2, <2>3, <2>6, GatheredNext
<1> QED BY <1>2, <1>3, <1>4

\* A step of the worker or of a run by hand holds no slot and leaves it alone.
LEMMA OtherRoles ==
    ASSUME PassesInv, NEW a \in {Worker, ByHand}, NEW p, NEW o, NEW s, NEW w, NEW v,
           Does(a, p, o, s, w, v), UNCHANGED slot,
           a = Worker => p \in {"idle", "taken", "pass"},
           a = ByHand => p = "pass" /\ s = {}
    PROVE  RolesFit' /\ SlotFits'
<1>1. run \in [Actors -> Run] /\ RolesFit /\ SlotFits /\ slot \in Triggers \cup {NoOne}
  BY Gathered DEF Others
<1>2. /\ run'[a].phase = p /\ run'[a].own = o /\ run'[a].sweep = s
      /\ \A b \in Actors \ {a} : run'[b] = run[b]
  BY <1>1, DoesIt, ActorsAre DEF Says
<1>3. RolesFit'
  BY <1>1, <1>2, ActorsAre DEF RolesFit
<1>4. SlotFits'
  BY <1>1, <1>2, ActorsAre DEF SlotFits
<1> QED BY <1>3, <1>4

LEMMA WorkerStep ==
    ASSUME PassesInv,
           \/ \E c \in Checkouts : IndexByHand(c)
           \/ Take \/ WorkerEnters \/ WorkerEnds \/ WorkerFails \/ Restart
    PROVE  PassesInv'
<1> DEFINE r == run[Worker]
<1>1. /\ Others /\ HeadsGrow /\ RecordsFit /\ queue \in Queue
      /\ queue.checkouts \in Seq(Checkouts)
      /\ queue.waiters \subseteq Calls /\ PassesTypeOK /\ RolesFit
      /\ Worker \in Actors /\ ByHand \in Actors /\ r \in Run
  BY Gathered, ActorsAre DEF Others, Queue, PassesInv
<1>2. UNCHANGED <<head, shown, marker, slot, owed>>
  BY DEF IndexByHand, Take, WorkerEnters, WorkerEnds, WorkerFails, Restart, trees, locks
<1>3. Grown
  BY <1>2, HeadStays
<1>4. PICK a, p, o, s, w, v :
        /\ a \in {Worker, ByHand} /\ p \in {"idle", "taken", "pass"}
        /\ Does(a, p, o, s, w, v)
        /\ a = ByHand => p = "pass" /\ s = {}
        /\ p = "idle" => o = <<>>
        /\ p # "pass" => s = {}
  <2>1. ASSUME NEW c \in Checkouts, IndexByHand(c) PROVE Does(ByHand, "pass", <<c>>, {}, 0, {})
    BY <1>1, <2>1, WorkerMoves
  <2>2. Take => Does(Worker, "taken", queue.checkouts, {}, 0, queue.waiters)
    BY <1>1, WorkerMoves
  <2>3. WorkerEnters => \E o, s, w, v : Does(Worker, "pass", o, s, w, v)
    BY <1>1, WorkerMoves
  <2>4. WorkerEnds \/ WorkerFails \/ Restart => Does(Worker, "idle", <<>>, {}, 0, {})
    BY <1>1, WorkerMoves
  <2> QED BY <2>1, <2>2, <2>3, <2>4, ActorsAre
<1>5. run' \in [Actors -> Run] /\ RecordsFit'
  BY <1>1, <1>3, <1>4, RecordStep
<1>6. RolesFit' /\ SlotFits'
  BY <1>2, <1>4, OtherRoles
<1>7. /\ calls' \in [Calls -> [phase : {"idle", "asked", "answered", "failed"},
                               heads : [Checkouts -> Nat]]]
      /\ \A k \in Calls : calls'[k].heads = calls[k].heads
  <2>1. CASE UNCHANGED calls
    BY <1>1, <2>1 DEF Others
  <2>2. CASE ~ UNCHANGED calls
    <3>1. \/ calls' = Replied(r.serves, "answered")
          \/ calls' = Replied(r.serves, "failed")
          \/ calls' = Replied(r.serves \cup queue.waiters, "failed")
      BY <2>2 DEF IndexByHand, Take, WorkerEnters, WorkerEnds, WorkerFails, Restart
    <3>2. CASE calls' = Replied(r.serves, "answered")
      BY <1>1, <3>2, RepliedKeeps
    <3>3. CASE calls' = Replied(r.serves, "failed")
      BY <1>1, <3>3, RepliedKeeps
    <3>4. CASE calls' = Replied(r.serves \cup queue.waiters, "failed")
      BY <1>1, <3>4, RepliedKeeps
    <3> QED BY <3>1, <3>2, <3>3, <3>4
  <2> QED BY <2>1, <2>2
<1>8. HeadsGrow'
  BY <1>2, <1>7, HeadsStay
<1>9. queue' \in Queue
  <2>1. Nothing \in Queue
    BY DEF Nothing, Queue
  <2>2. queue' \in {queue, Nothing, [Nothing EXCEPT !.trigger = TRUE]}
    BY DEF IndexByHand, Take, WorkerEnters, WorkerEnds, WorkerFails, Restart
  <2>3. [Nothing EXCEPT !.trigger = TRUE] \in Queue
    BY <2>1 DEF Queue
  <2> QED BY <1>1, <2>1, <2>2, <2>3
<1>10. lock' \in Actors \cup {NoOne}
  BY <1>1 DEF IndexByHand, Take, WorkerEnters, WorkerEnds, WorkerFails, Restart, locks, Others
<1>11. excused' \subseteq Checkouts
  <2>1. Taken(r) \subseteq Checkouts /\ ToSet(queue.checkouts) \subseteq Checkouts
    BY <1>1, RunFields, ElementsOf, ActorsAre DEF Taken
  <2>2. \/ excused' = excused \/ excused' = excused \cup Taken(r)
        \/ excused' = excused \cup ToSet(queue.checkouts) \cup Taken(r)
    BY DEF IndexByHand, Take, WorkerEnters, WorkerEnds, WorkerFails, Restart
  <2> HIDE DEF r
  <2> QED BY <1>1, <2>1, <2>2 DEF Others
<1>12. Others'
  BY <1>1, <1>2, <1>7, <1>9, <1>10, <1>11 DEF Others
<1> QED BY <1>5, <1>6, <1>8, <1>12, GatheredNext

\* The steps by kind: who indexes, what a hook process does, what reaches the
\* queue, what the worker and a run by hand do.
LEMMA StepsByKind ==
    ASSUME PassesNext
    PROVE  \/ \E a \in Actors : WalkBegin(a) \/ WalkEnd(a) \/ Sweep(a) \/ WalkFail(a)
           \/ \E t \in Triggers :
                 \/ \E c \in Checkouts : Fire(t, c)
                 \/ FireAgent(t) \/ Enqueue(t) \/ Enter(t) \/ DropSlot(t) \/ PassEnds(t) \/ Killed(t)
           \/ (\E c \in Checkouts : Wake(c)) \/ (\E k \in Calls : CatchUp(k)) \/ Tick \/ Stop
           \/ (\E c \in Checkouts : IndexByHand(c))
           \/ Take \/ WorkerEnters \/ WorkerEnds \/ WorkerFails \/ Restart
BY ActorsAre DEF PassesNext, Hooked, Works, Indexes

LEMMA PassesInvStep == PassesInv /\ [PassesNext]_passVars => PassesInv'
<1> SUFFICES ASSUME PassesInv, [PassesNext]_passVars PROVE PassesInv'
  OBVIOUS
<1>1. CASE PassesNext
  BY <1>1, StepsByKind, IndexStep, HookStep, QueueStep, WorkerStep
<1>2. CASE UNCHANGED passVars
  <2>1. UNCHANGED <<head, shown, marker, lock, slot, run, queue, calls, owed, excused>>
    BY <1>2 DEF passVars, trees, locks
  <2>2. Grown /\ HeadsGrow'
    BY <2>1, HeadStays, HeadsStay
  <2>3. run' \in [Actors -> Run] /\ RecordsFit' /\ RolesFit' /\ SlotFits'
    BY <2>1, <2>2, StillRecords
  <2>4. Others'
    BY <2>1, Gathered DEF Others
  <2> QED BY <2>2, <2>3, <2>4, GatheredNext
<1> QED BY <1>1, <1>2

LEMMA PassesInvInit == PassesInit => PassesInv
<1> SUFFICES ASSUME PassesInit PROVE PassesInv
  OBVIOUS
<1>1. Says(AtRest, "idle", <<>>, {}, 0, {})
  BY RestIs
<1>2. run \in [Actors -> Run] /\ \A a \in Actors : run[a] = AtRest
  BY <1>1 DEF PassesInit, Says
<1>3. RecordsFit
  BY <1>1, <1>2 DEF RecordsFit, RecordFits, Says
<1>4. RolesFit
  BY <1>1, <1>2, ActorsAre DEF RolesFit, Says
<1>5. SlotFits
  BY DEF PassesInit, SlotFits
<1>6. Others
  BY DEF PassesInit, Others, Queue, Nothing
<1>7. HeadsGrow
  BY <1>6 DEF PassesInit, HeadsGrow, Others
<1> QED BY <1>2, <1>3, <1>4, <1>5, <1>6, <1>7, Gathered

\* Every variable of the passes keeps its type, and who is in which phase
\* agrees with what it has in hand.
THEOREM PassesTypeCorrect == PassesSpec => []PassesTypeOK
<1>1. PassesInv => PassesTypeOK
  BY DEF PassesInv
<1> QED BY PassesInvInit, PassesInvStep, <1>1, PTL DEF PassesSpec

(************************* one pass at a time *****************************)

\* A step of one actor, with what it does to the lock: nothing and stays inside
\* or outside a pass, enters a pass with the free lock, or leaves with its own.
LEMMA LockFrame ==
    ASSUME PassesInv, OnePassAtATime, NEW a \in Actors,
           NEW p, NEW o, NEW s, NEW w, NEW v, Does(a, p, o, s, w, v),
           \/ /\ lock' = lock
              /\ a = ByHand \/ (p \in {"entered", "pass", "walk"}
                                   <=> run[a].phase \in {"entered", "pass", "walk"})
           \/ /\ a # ByHand /\ p \in {"entered", "pass", "walk"}
              /\ lock = NoOne /\ lock' = a
           \/ /\ a # ByHand /\ p \notin {"entered", "pass", "walk"}
              /\ lock' = IF lock = a THEN NoOne ELSE lock,
           p = "walk" => run[a].phase = "walk" \/ Walking = {}
    PROVE  OnePassAtATime'
<1> DEFINE In(q) == q \in {"entered", "pass", "walk"}
<1>1. /\ run'[a].phase = p /\ \A b \in Actors \ {a} : run'[b] = run[b]
  BY Gathered, DoesIt DEF Says
<1>2. a # NoOne /\ ByHand # NoOne
  BY ActorsAre
<1>3. ASSUME NEW b \in Actors \ {ByHand} PROVE lock' = b <=> In(run'[b].phase)
  <2>1. lock = b <=> In(run[b].phase)
    BY DEF OnePassAtATime
  <2>2. b # NoOne
    BY ActorsAre
  <2>3. CASE b = a
    BY <1>1, <1>2, <2>1, <2>2, <2>3
  <2>4. CASE b # a
    BY <1>1, <1>2, <2>1, <2>2, <2>4
  <2> QED BY <2>3, <2>4
<1>4. lock' # ByHand
  BY <1>2 DEF OnePassAtATime
<1>5. ASSUME NEW b \in Walking', NEW c \in Walking' PROVE b = c
  <2>1. \A d \in Walking' : d \in Walking \/ (d = a /\ Walking = {})
    BY <1>1 DEF Walking
  <2> QED BY <1>5, <2>1 DEF OnePassAtATime
<1> QED BY <1>3, <1>4, <1>5 DEF OnePassAtATime

LEMMA IndexLocks ==
    ASSUME PassesInv, OnePassAtATime, NEW a \in Actors,
           WalkBegin(a) \/ WalkEnd(a) \/ Sweep(a) \/ WalkFail(a)
    PROVE  OnePassAtATime'
<1>1. PassesTypeOK /\ RecordsFit
  BY DEF PassesInv, Shape
<1>2. lock' = lock
  BY DEF WalkBegin, WalkEnd, Sweep, WalkFail, locks
<1>3. CASE WalkBegin(a)
  <2>1. Does(a, "walk", run[a].own, run[a].sweep, head[run[a].own[1]], run[a].serves)
    BY <1>1, <1>3, IndexMoves
  <2>2. run[a].phase = "pass" /\ Walking = {}
    BY <1>3 DEF WalkBegin
  <2> QED BY <1>2, <2>1, <2>2, LockFrame
<1>4. CASE WalkEnd(a) \/ WalkFail(a)
  <2>1. Does(a, "pass", Tail(run[a].own), run[a].sweep, run[a].walked, run[a].serves)
    BY <1>1, <1>4, IndexMoves
  <2>2. run[a].phase = "walk"
    BY <1>4 DEF WalkEnd, WalkFail
  <2> QED BY <1>2, <2>1, <2>2, LockFrame
<1>5. CASE Sweep(a)
  <2>1. PICK c \in run[a].sweep : Does(a, "pass", IF marker[c] = head[c] THEN <<>> ELSE <<c>>,
                                       run[a].sweep \ {c}, run[a].walked, run[a].serves)
    BY <1>1, <1>5, IndexMoves
  <2>2. run[a].phase = "pass"
    BY <1>5 DEF Sweep
  <2> QED BY <1>2, <2>1, <2>2, LockFrame
<1> QED BY <1>3, <1>4, <1>5

LEMMA HookLocks ==
    ASSUME PassesInv, OnePassAtATime, NEW t \in Triggers,
           \/ \E c \in Checkouts : Fire(t, c)
           \/ FireAgent(t) \/ Enqueue(t) \/ Enter(t) \/ DropSlot(t) \/ PassEnds(t) \/ Killed(t)
    PROVE  OnePassAtATime'
<1> DEFINE r == run[t]
<1>1. PassesTypeOK /\ t \in Actors /\ t # ByHand
  BY ActorsAre DEF PassesInv
<1>2. ASSUME NEW c \in Checkouts, Fire(t, c) PROVE OnePassAtATime'
  <2>1. Does(t, "fired", <<c>>, r.sweep, r.walked, r.serves)
    BY <1>1, <1>2, HookMoves
  <2>2. lock' = lock /\ r.phase = "idle"
    BY <1>2 DEF Fire, locks
  <2> QED BY <1>1, <2>1, <2>2, LockFrame
<1>3. CASE FireAgent(t)
  <2>1. Does(t, "fired", r.own, r.sweep, r.walked, r.serves)
    BY <1>1, <1>3, HookMoves
  <2>2. lock' = lock /\ r.phase = "idle"
    BY <1>3 DEF FireAgent, locks
  <2> QED BY <1>1, <2>1, <2>2, LockFrame
<1>4. CASE Enqueue(t)
  <2>1. lock' = lock /\ r.phase = "fired"
    BY <1>4 DEF Enqueue
  <2>2. CASE Does(t, "waiting", r.own, r.sweep, r.walked, r.serves)
    BY <1>1, <2>1, <2>2, LockFrame
  <2>3. CASE Does(t, "coalesced", <<>>, {}, 0, {})
    BY <1>1, <2>1, <2>3, LockFrame
  <2> QED BY <1>1, <1>4, <2>2, <2>3, HookMoves
<1>5. CASE Enter(t)
  <2>1. Does(t, "entered", r.own, r.sweep, r.walked, r.serves)
    BY <1>1, <1>5, HookMoves
  <2>2. lock = NoOne /\ lock' = t
    BY <1>5 DEF Enter
  <2> QED BY <1>1, <2>1, <2>2, LockFrame
<1>6. CASE DropSlot(t)
  <2>1. Does(t, "pass", Order(r.own), Covered \ (IF r.own = <<>> THEN {} ELSE {r.own[1]}),
             r.walked, r.serves)
    BY <1>1, <1>6, HookMoves
  <2>2. lock' = lock /\ r.phase = "entered"
    BY <1>6 DEF DropSlot
  <2> QED BY <1>1, <2>1, <2>2, LockFrame
<1>7. CASE PassEnds(t) \/ Killed(t)
  <2>1. Does(t, "ended", <<>>, {}, 0, {})
    BY <1>1, <1>7, HookMoves
  <2>2. lock' = IF lock = t THEN NoOne ELSE lock
    <3>1. CASE PassEnds(t)
      <4>1. lock = t /\ lock' = NoOne
        BY <1>1, <3>1 DEF PassEnds, Done, OnePassAtATime
      <4> QED BY <4>1
    <3>2. CASE Killed(t)
      BY <3>2 DEF Killed
    <3> QED BY <1>7, <3>1, <3>2
  <2> QED BY <1>1, <2>1, <2>2, LockFrame
<1> QED BY <1>2, <1>3, <1>4, <1>5, <1>6, <1>7

LEMMA WorkerLocks ==
    ASSUME PassesInv, OnePassAtATime,
           \/ (\E c \in Checkouts : IndexByHand(c))
           \/ Take \/ WorkerEnters \/ WorkerEnds \/ WorkerFails \/ Restart
    PROVE  OnePassAtATime'
<1> DEFINE r == run[Worker]
<1>1. /\ PassesTypeOK /\ Worker \in Actors /\ ByHand \in Actors /\ Worker # ByHand
  BY ActorsAre DEF PassesInv
<1>2. ASSUME NEW c \in Checkouts, IndexByHand(c) PROVE OnePassAtATime'
  <2>1. Does(ByHand, "pass", <<c>>, {}, 0, {})
    BY <1>1, <1>2, WorkerMoves
  <2>2. lock' = lock
    BY <1>2 DEF IndexByHand, locks
  <2> QED BY <1>1, <2>1, <2>2, LockFrame
<1>3. CASE Take
  <2>1. Does(Worker, "taken", queue.checkouts, {}, 0, queue.waiters)
    BY <1>1, <1>3, WorkerMoves
  <2>2. lock' = lock /\ r.phase = "idle"
    BY <1>3 DEF Take, locks
  <2> QED BY <1>1, <2>1, <2>2, LockFrame
<1>4. CASE WorkerEnters
  <2>1. Does(Worker, "pass", Order(r.own), Covered \ (IF r.own = <<>> THEN {} ELSE {r.own[1]}),
             r.walked, r.serves)
    BY <1>1, <1>4, WorkerMoves
  <2>2. lock = NoOne /\ lock' = Worker
    BY <1>4 DEF WorkerEnters
  <2> QED BY <1>1, <2>1, <2>2, LockFrame
<1>5. CASE WorkerEnds \/ WorkerFails \/ Restart
  <2>1. Does(Worker, "idle", <<>>, {}, 0, {})
    BY <1>1, <1>5, WorkerMoves
  <2>2. lock' = IF lock = Worker THEN NoOne ELSE lock
    <3>1. CASE WorkerEnds \/ WorkerFails
      <4>1. lock = Worker /\ lock' = NoOne
        BY <1>1, <3>1 DEF WorkerEnds, WorkerFails, Done, OnePassAtATime
      <4> QED BY <4>1
    <3>2. CASE Restart
      BY <3>2 DEF Restart
    <3> QED BY <1>5, <3>1, <3>2
  <2> QED BY <1>1, <2>1, <2>2, LockFrame
<1> QED BY <1>2, <1>3, <1>4, <1>5

\* For any number of hooks, callers and runs by hand, and whatever is killed or
\* fails: the lock is with the pass under way, and no two walks overlap
\* (auto.rs, worker.rs, index_code.rs).
THEOREM PassesExclude == PassesSpec => []OnePassAtATime
<1>1. PassesInit => OnePassAtATime
  <2> SUFFICES ASSUME PassesInit PROVE OnePassAtATime
    OBVIOUS
  <2>1. lock = NoOne /\ \A a \in Actors : run[a].phase = "idle" /\ a # NoOne
    BY ActorsAre DEF PassesInit, AtRest
  <2>2. Walking = {} /\ ByHand # NoOne
    BY <2>1, ActorsAre DEF Walking
  <2> QED BY <2>1, <2>2 DEF OnePassAtATime
<1>2. PassesInv /\ OnePassAtATime /\ [PassesNext]_passVars => OnePassAtATime'
  <2> SUFFICES ASSUME PassesInv, OnePassAtATime, [PassesNext]_passVars PROVE OnePassAtATime'
    OBVIOUS
  <2>1. CASE \/ (\E c \in Checkouts : Wake(c)) \/ (\E k \in Calls : CatchUp(k)) \/ Tick \/ Stop
             \/ UNCHANGED passVars
    <3>1. UNCHANGED <<lock, run>>
      BY <2>1 DEF Wake, CatchUp, Tick, Stop, passVars, locks
    <3> QED BY <3>1 DEF OnePassAtATime, Walking
  <2> QED BY <2>1, StepsByKind, IndexLocks, HookLocks, WorkerLocks
<1> QED BY <1>1, <1>2, PassesInvInit, PassesInvStep, PTL DEF PassesSpec

(*************************** who looks at what ****************************)

\* Head h of checkout c is mirrored, or passed by in one of the excepted ways.
Seen(c, h) == shown[c] >= h \/ marker[c] > shown[c] \/ c \in excused

\* The record r is of somebody who mirrors head h of c, or has yet to look at c.
Charged(r, c, h) ==
    \/ r.phase = "walk" /\ r.own[1] = c /\ r.walked >= h
    \/ c \in ToSet(IF r.phase = "walk" THEN Tail(r.own) ELSE r.own)
    \/ c \in r.sweep

LEMMA NotCharged ==
    ASSUME NEW r, r.phase # "walk", r.own = <<>>, r.sweep = {}, NEW c, NEW h
    PROVE  ~ Charged(r, c, h)
BY FewElements DEF Charged

\* What a lost record took along includes all it was charged with.
LEMMA TakenIsAll ==
    ASSUME NEW r \in Run, RecordFits(r), NEW c, NEW h, Charged(r, c, h)
    PROVE  c \in Taken(r)
<1>1. r.own \in Seq(Checkouts)
  BY RunFields
<1>2. CASE c \in r.sweep
  <2>1. r.phase \in {"pass", "walk"}
    BY <1>2 DEF RecordFits
  <2> QED BY <1>2, <2>1 DEF Taken
<1>3. CASE r.phase = "walk" /\ c \notin r.sweep
  <2>1. r.own # <<>>
    BY <1>3 DEF RecordFits
  <2>2. ToSet(r.own) = {r.own[1]} \cup ToSet(Tail(r.own))
    BY <1>1, <2>1, HeadAndTail
  <2>3. c \in ToSet(r.own)
    BY <1>3, <2>2 DEF Charged
  <2> QED BY <2>3 DEF Taken
<1>4. CASE r.phase # "walk" /\ c \notin r.sweep
  <2>1. c \in ToSet(r.own)
    BY <1>4 DEF Charged
  <2> QED BY <2>1 DEF Taken
<1> QED BY <1>2, <1>3, <1>4

\* A pass that begins is charged with all it was handed and all covered
\* checkouts.
LEMMA BegunIsCharged ==
    ASSUME NEW r \in Run, NEW n, NEW c, NEW h, NEW w, NEW v,
           Says(n, "pass", Order(r.own),
                Covered \ (IF r.own = <<>> THEN {} ELSE {r.own[1]}), w, v),
           c \in Covered \/ c \in ToSet(r.own)
    PROVE  Charged(n, c, h)
<1>1. n.phase = "pass" /\ n.own = Order(r.own) /\ r.own \in Seq(Checkouts)
      /\ n.sweep = Covered \ (IF r.own = <<>> THEN {} ELSE {r.own[1]})
  BY RunFields DEF Says
<1>2. ToSet(n.own) = ToSet(r.own)
  BY <1>1, OrderKeeps
<1>3. CASE c \in ToSet(r.own)
  BY <1>1, <1>2, <1>3 DEF Charged
<1>4. CASE c \notin ToSet(r.own)
  <2>1. r.own # <<>> => r.own[1] \in ToSet(r.own)
    BY <1>1, HeadAndTail
  <2>2. c \in n.sweep
    BY <1>1, <1>4, <2>1
  <2> QED BY <2>2 DEF Charged
<1> QED BY <1>3, <1>4

\* What is seen stays seen as long as nobody but an index run writes rows: such
\* a run either mirrors the head or leaves the marker past the rows.
LEMMA SeenStays ==
    ASSUME PassesInv, NEW c \in Checkouts, NEW h \in Nat, h <= head[c], Seen(c, h),
           \/ \E a \in Actors : WalkBegin(a) \/ WalkEnd(a) \/ Sweep(a) \/ WalkFail(a)
           \/ UNCHANGED <<shown, marker>> /\ excused \subseteq excused'
    PROVE  Seen(c, h)'
<1>1. CASE UNCHANGED <<shown, marker>> /\ excused \subseteq excused'
  BY <1>1 DEF Seen
<1>2. ASSUME NEW a \in Actors, WalkBegin(a) \/ Sweep(a) \/ WalkFail(a) PROVE Seen(c, h)'
  <2>1. UNCHANGED <<shown, marker>> /\ excused \subseteq excused'
    BY <1>2 DEF WalkBegin, Sweep, WalkFail, trees
  <2> QED BY <1>1, <2>1
<1>3. ASSUME NEW a \in Actors, WalkEnd(a) PROVE Seen(c, h)'
  <2> DEFINE d == run[a].own[1]
  <2>1. /\ shown \in [Checkouts -> Nat] /\ marker \in [Checkouts -> Nat] /\ head \in [Checkouts -> Nat]
        /\ run[a].walked \in Nat
    BY RunFields DEF PassesInv, PassesTypeOK
  <2>2. /\ shown' = [shown EXCEPT ![d] = run[a].walked]
        /\ marker' = [marker EXCEPT ![d] = head[d]]
        /\ excused' = excused
    BY <1>3 DEF WalkEnd
  <2>3. CASE c = d
    <3>1. shown'[c] = run[a].walked /\ marker'[c] = head[c]
      BY <2>1, <2>2, <2>3
    <3>2. shown'[c] >= h \/ marker'[c] > shown'[c]
      BY <2>1, <3>1
    <3> QED BY <3>2 DEF Seen
  <2>4. CASE c # d
    <3>1. shown'[c] = shown[c] /\ marker'[c] = marker[c]
      BY <2>1, <2>2, <2>4
    <3> QED BY <2>2, <3>1 DEF Seen
  <2> QED BY <2>3, <2>4
<1> QED BY <1>1, <1>2, <1>3

\* Whoever is charged with c and takes an index step is still charged, or is
\* through with c.
LEMMA ChargeIsMet ==
    ASSUME PassesInv, NEW a \in Actors,
           WalkBegin(a) \/ WalkEnd(a) \/ Sweep(a) \/ WalkFail(a),
           NEW c \in Checkouts, NEW h \in Nat, h <= head[c], Charged(run[a], c, h)
    PROVE  Charged(run'[a], c, h) \/ Seen(c, h)'
<1> DEFINE r == run[a]
           n == run'[a]
<1>1. /\ PassesTypeOK /\ RecordsFit /\ r \in Run /\ r.own \in Seq(Checkouts)
      /\ r.walked \in Nat /\ run \in [Actors -> Run] /\ r.sweep \in SUBSET Covered
      /\ shown \in [Checkouts -> Nat] /\ marker \in [Checkouts -> Nat] /\ head \in [Checkouts -> Nat]
  BY RunFields DEF PassesInv, PassesTypeOK, Shape
<1>2. CASE WalkBegin(a)
  <2>1. Does(a, "walk", r.own, r.sweep, head[r.own[1]], r.serves)
    BY <1>1, <1>2, IndexMoves
  <2>2. n.phase = "walk" /\ n.own = r.own /\ n.sweep = r.sweep /\ n.walked = head[r.own[1]]
    BY <1>1, <2>1, DoesIt DEF Says
  <2>3. r.phase = "pass" /\ r.own # <<>>
    BY <1>2 DEF WalkBegin
  <2>4. ToSet(r.own) = {r.own[1]} \cup ToSet(Tail(r.own))
    BY <1>1, <2>3, HeadAndTail
  <2>5. CASE c = r.own[1]
    <3>1. n.walked >= h
      BY <1>1, <2>2, <2>5
    <3> QED BY <2>2, <2>5, <3>1 DEF Charged
  <2>6. CASE c # r.own[1]
    <3>1. c \in ToSet(Tail(r.own)) \/ c \in r.sweep
      BY <2>3, <2>4, <2>6 DEF Charged
    <3> QED BY <2>2, <3>1 DEF Charged
  <2> QED BY <2>5, <2>6
<1>3. CASE WalkEnd(a) \/ WalkFail(a)
  <2>1. Does(a, "pass", Tail(r.own), r.sweep, r.walked, r.serves)
    BY <1>1, <1>3, IndexMoves
  <2>2. n.phase = "pass" /\ n.own = Tail(r.own) /\ n.sweep = r.sweep
    BY <1>1, <2>1, DoesIt DEF Says
  <2>3. r.phase = "walk"
    BY <1>3 DEF WalkEnd, WalkFail
  <2>4. CASE r.own[1] = c /\ r.walked >= h
    <3>1. CASE WalkEnd(a)
      <4>1. shown' = [shown EXCEPT ![c] = r.walked]
        BY <2>4, <3>1 DEF WalkEnd
      <4>2. shown'[c] = r.walked
        BY <1>1, <4>1
      <4> QED BY <2>4, <4>2 DEF Seen
    <3>2. CASE WalkFail(a)
      BY <2>4, <3>2 DEF WalkFail, Seen
    <3> QED BY <1>3, <3>1, <3>2
  <2>5. CASE c \in ToSet(Tail(r.own)) \/ c \in r.sweep
    BY <2>2, <2>5 DEF Charged
  <2> QED BY <2>3, <2>4, <2>5 DEF Charged
<1>4. CASE Sweep(a)
  <2>1. PICK d \in r.sweep :
          Does(a, "pass", IF marker[d] = head[d] THEN <<>> ELSE <<d>>,
               r.sweep \ {d}, r.walked, r.serves)
    BY <1>1, <1>4, IndexMoves
  <2>2. /\ n.phase = "pass" /\ n.sweep = r.sweep \ {d}
        /\ n.own = IF marker[d] = head[d] THEN <<>> ELSE <<d>>
    BY <1>1, <2>1, DoesIt DEF Says
  <2>3. r.phase = "pass" /\ r.own = <<>> /\ UNCHANGED <<shown, marker>>
    BY <1>4 DEF Sweep, trees
  <2>4. c \in r.sweep
    BY <2>3, FewElements DEF Charged
  <2>5. CASE c # d
    BY <2>2, <2>4, <2>5 DEF Charged
  <2>6. CASE c = d /\ marker[c] = head[c]
    <3>1. marker[c] >= h /\ marker[c] \in Nat /\ shown[c] \in Nat
      BY <1>1, <2>6
    <3>2. shown'[c] >= h \/ marker'[c] > shown'[c]
      BY <2>3, <3>1
    <3> QED BY <3>2 DEF Seen
  <2>7. CASE c = d /\ marker[c] # head[c]
    <3>1. n.own = <<c>> /\ c \in ToSet(<<c>>)
      BY <2>2, <2>7, FewElements
    <3> QED BY <2>2, <3>1 DEF Charged
  <2> QED BY <2>5, <2>6, <2>7
<1> QED BY <1>2, <1>3, <1>4

(************************* no trigger is forgotten ************************)

Watched(c) == Seen(c, owed[c]) \/ OnTheWay(c)

LEMMA ForgottenIs ==
    /\ NoTriggerIsForgotten <=> \A c \in Checkouts : Watched(c)
    /\ NoTriggerIsForgotten' <=> \A c \in Checkouts : Watched(c)'
BY DEF NoTriggerIsForgotten, Watched, Seen

\* The holder of the slot sweeps in time, so holding it is enough.
LEMMA OnTheWayIs ==
    ASSUME SlotFits, NEW c
    PROVE  OnTheWay(c) <=> \/ c \in ToSet(queue.checkouts)
                           \/ \E a \in Actors : Charged(run[a], c, owed[c])
                           \/ c \in Covered /\ slot # NoOne
BY DEF OnTheWay, Charged, SlotFits

LEMMA OnTheWayNext ==
    ASSUME SlotFits', NEW c
    PROVE  OnTheWay(c)' <=> \/ c \in ToSet(queue'.checkouts)
                            \/ \E a \in Actors : Charged(run'[a], c, owed'[c])
                            \/ c \in Covered /\ slot' # NoOne
BY DEF OnTheWay, Charged, SlotFits

\* A step of actor a: what did not depend on a's record, the slot or the queue
\* is on the way as before.
LEMMA WatchKept ==
    ASSUME PassesInv, PassesInv', NEW c \in Checkouts, Watched(c), owed'[c] = owed[c],
           Seen(c, owed[c]) => Seen(c, owed[c])',
           NEW a, \A b \in Actors \ {a} : run'[b] = run[b],
           a \in Actors /\ Charged(run[a], c, owed[c]) => Watched(c)',
           c \in ToSet(queue.checkouts) => Watched(c)',
           c \in Covered /\ slot # NoOne => Watched(c)'
    PROVE  Watched(c)'
<1>1. SlotFits /\ SlotFits'
  BY DEF PassesInv, Shape
<1>2. CASE Seen(c, owed[c])
  BY <1>2 DEF Watched
<1>3. ASSUME NEW b \in Actors \ {a}, Charged(run[b], c, owed[c]) PROVE Watched(c)'
  <2>1. Charged(run'[b], c, owed'[c])
    BY <1>3
  <2>2. OnTheWay(c)'
    BY <1>1, <2>1, OnTheWayNext
  <2> QED BY <2>2 DEF Watched
<1>4. CASE OnTheWay(c)
  BY <1>1, <1>3, <1>4, OnTheWayIs
<1> QED BY <1>2, <1>4 DEF Watched

\* The ways to be watched after a step.
LEMMA WatchedNext ==
    ASSUME PassesInv', NEW c
    PROVE  /\ \A a \in Actors : Charged(run'[a], c, owed'[c]) => Watched(c)'
           /\ c \in ToSet(queue'.checkouts) => Watched(c)'
           /\ c \in Covered /\ slot' # NoOne => Watched(c)'
           /\ c \in excused' => Watched(c)'
<1>1. SlotFits'
  BY DEF PassesInv, Shape
<1>2. ASSUME NEW a \in Actors, Charged(run'[a], c, owed'[c]) PROVE OnTheWay(c)'
  BY <1>1, <1>2, OnTheWayNext
<1>3. c \in ToSet(queue'.checkouts) \/ (c \in Covered /\ slot' # NoOne) => OnTheWay(c)'
  BY <1>1, OnTheWayNext
<1> QED BY <1>2, <1>3 DEF Watched, Seen

LEMMA IndexWatch ==
    ASSUME PassesInv, PassesInv', NoTriggerIsForgotten, NEW a \in Actors,
           WalkBegin(a) \/ WalkEnd(a) \/ Sweep(a) \/ WalkFail(a)
    PROVE  NoTriggerIsForgotten'
<1>1. run \in [Actors -> Run] /\ HeadsGrow /\ Others
  BY Gathered
<1>2. UNCHANGED <<owed, queue, slot>>
  BY DEF WalkBegin, WalkEnd, Sweep, WalkFail, locks
<1>3. \A b \in Actors \ {a} : run'[b] = run[b]
  BY <1>1, IndexDoes, DoesIt
<1>4. ASSUME NEW c \in Checkouts PROVE Watched(c)'
  <2>1. Watched(c) /\ owed[c] \in Nat /\ owed[c] <= head[c]
    BY <1>1, <1>4, ForgottenIs DEF HeadsGrow, Others
  <2>2. PICK h \in Nat : h = owed[c]
    BY <2>1
  <2>3. h <= head[c] /\ owed'[c] = h
    BY <1>2, <2>1, <2>2
  <2>4. Seen(c, owed[c]) => Seen(c, owed[c])'
    <3>1. Seen(c, h) => Seen(c, h)'
      BY <2>3, SeenStays
    <3> QED BY <2>2, <2>3, <3>1 DEF Seen
  <2>5. Charged(run[a], c, owed[c]) => Watched(c)'
    <3>1. Charged(run[a], c, h) => Charged(run'[a], c, h) \/ Seen(c, h)'
      BY <2>3, ChargeIsMet
    <3>2. Seen(c, h)' => Watched(c)'
      BY <2>3 DEF Seen, Watched
    <3>3. Charged(run'[a], c, h) => Watched(c)'
      BY <2>3, WatchedNext
    <3> QED BY <2>2, <3>1, <3>2, <3>3
  <2>6. /\ c \in ToSet(queue.checkouts) => Watched(c)'
        /\ c \in Covered /\ slot # NoOne => Watched(c)'
    BY <1>2, WatchedNext
  <2> QED BY <1>2, <1>3, <2>1, <2>4, <2>5, <2>6, WatchKept
<1> QED BY <1>4, ForgottenIs

\* A hook process: it takes on what its commit owes, hands it to the slot, or
\* carries it until its pass is done or a fault is excused.
LEMMA HookWatch ==
    ASSUME PassesInv, PassesInv', NoTriggerIsForgotten, NEW t \in Triggers,
           \/ \E d \in Checkouts : Fire(t, d)
           \/ FireAgent(t) \/ Enqueue(t) \/ Enter(t) \/ DropSlot(t) \/ PassEnds(t) \/ Killed(t)
    PROVE  NoTriggerIsForgotten'
<1> DEFINE r == run[t]
           n == run'[t]
<1>1. /\ run \in [Actors -> Run] /\ t \in Actors /\ r \in Run /\ RecordFits(r) /\ PassesTypeOK
      /\ SlotFits /\ t # NoOne
  BY Gathered, ActorsAre DEF RecordsFit, PassesInv
<1>2. UNCHANGED <<shown, marker, queue>> /\ excused \subseteq excused'
  BY DEF Fire, FireAgent, Enqueue, Enter, DropSlot, PassEnds, Killed, trees
<1>3. SUFFICES ASSUME NEW c \in Checkouts, Watched(c) PROVE Watched(c)'
  BY ForgottenIs
<1>4. c \in ToSet(queue.checkouts) => Watched(c)'
  BY <1>2, WatchedNext
<1>5. ASSUME owed'[c] = owed[c], \A b \in Actors \ {t} : run'[b] = run[b],
             Charged(r, c, owed[c]) => Watched(c)', c \in Covered /\ slot # NoOne => Watched(c)'
      PROVE  Watched(c)'
  <2>1. Seen(c, owed[c]) => Seen(c, owed[c])'
    BY <1>2, <1>5 DEF Seen
  <2> QED BY <1>3, <1>4, <1>5, <2>1, WatchKept
<1>6. ASSUME NEW d \in Checkouts, Fire(t, d) PROVE Watched(c)'
  <2>1. Does(t, "fired", <<d>>, r.sweep, r.walked, r.serves)
    BY <1>1, <1>6, HookMoves
  <2>2. /\ n.phase = "fired" /\ n.own = <<d>>
        /\ \A b \in Actors \ {t} : run'[b] = run[b]
    BY <2>1, HookRoles
  <2>3. CASE c = d
    <3>1. Charged(n, c, owed'[c])
      BY <2>2, <2>3, FewElements DEF Charged
    <3> QED BY <1>1, <3>1, WatchedNext
  <2>4. CASE c # d
    <3>1. owed'[c] = owed[c] /\ r.phase = "idle" /\ slot' = slot
      BY <1>1, <1>6, <2>4 DEF Fire, PassesTypeOK, locks
    <3>2. r.own = <<>> /\ r.sweep = {}
      BY <1>1, <3>1 DEF RecordFits
    <3>3. ~ Charged(r, c, owed[c])
      BY <3>1, <3>2, NotCharged
    <3>4. c \in Covered /\ slot # NoOne => Watched(c)'
      BY <3>1, WatchedNext
    <3> QED BY <1>5, <2>2, <3>1, <3>3, <3>4
  <2> QED BY <2>3, <2>4
<1>7. CASE FireAgent(t) \/ Enter(t)
  <2>1. PICK p \in {"fired", "entered"} : Does(t, p, r.own, r.sweep, r.walked, r.serves)
    BY <1>1, <1>7, HookMoves
  <2>2. /\ n.phase = p /\ n.own = r.own /\ n.sweep = r.sweep
        /\ \A b \in Actors \ {t} : run'[b] = run[b]
    BY <2>1, HookRoles
  <2>3. r.phase # "walk" /\ UNCHANGED <<owed, slot>>
    BY <1>7 DEF FireAgent, Enter, locks
  <2>4. Charged(r, c, owed[c]) => Charged(n, c, owed'[c])
    BY <2>2, <2>3 DEF Charged
  <2>5. Charged(r, c, owed[c]) => Watched(c)'
    BY <1>1, <2>4, WatchedNext
  <2>6. c \in Covered /\ slot # NoOne => Watched(c)'
    BY <2>3, WatchedNext
  <2> QED BY <1>5, <2>2, <2>3, <2>5, <2>6
<1>8. CASE Enqueue(t)
  <2>1. r.phase = "fired" /\ owed' = owed
    BY <1>8 DEF Enqueue
  <2>2. slot' = slot \/ slot' = t
    BY <1>8 DEF Enqueue
  <2>3. c \in Covered /\ slot # NoOne => Watched(c)'
    BY <1>1, <2>2, WatchedNext
  <2>4. CASE Does(t, "waiting", r.own, r.sweep, r.walked, r.serves)
    <3>1. /\ n.phase = "waiting" /\ n.own = r.own /\ n.sweep = r.sweep
          /\ \A b \in Actors \ {t} : run'[b] = run[b]
      BY <2>4, HookRoles
    <3>2. Charged(r, c, owed[c]) => Charged(n, c, owed'[c])
      BY <2>1, <3>1 DEF Charged
    <3>3. Charged(r, c, owed[c]) => Watched(c)'
      BY <1>1, <3>2, WatchedNext
    <3> QED BY <1>5, <2>1, <2>3, <3>1, <3>3
  <2>5. CASE Does(t, "coalesced", <<>>, {}, 0, {})
    <3>1. n.phase = "coalesced" /\ \A b \in Actors \ {t} : run'[b] = run[b]
      BY <2>5, HookRoles
    <3>2. run' # [run EXCEPT ![t].phase = "waiting"]
      BY <1>1, <3>1 DEF Run
    <3>3. SweptByALaterPass(r.own) /\ slot # NoOne
      BY <1>8, <3>2 DEF Enqueue
    <3>4. ASSUME Charged(r, c, owed[c]) PROVE Watched(c)'
      <4>1. r.sweep = {}
        BY <1>1, <2>1 DEF RecordFits
      <4>2. r.own # <<>>
        BY <2>1, <3>4, <4>1, NotCharged
      <4>3. PICK d \in Checkouts : r.own = <<d>>
        BY <1>1, <2>1, <4>2 DEF RecordFits
      <4>4. c \in ToSet(r.own)
        BY <2>1, <3>4, <4>1 DEF Charged
      <4>5. c = d /\ r.own[1] = d
        BY <4>3, <4>4, FewElements
      <4>6. c \in Covered
        BY <3>3, <4>2, <4>5 DEF SweptByALaterPass
      <4> QED BY <2>3, <3>3, <4>6
    <3> QED BY <1>5, <2>1, <2>3, <3>1, <3>4
  <2> QED BY <1>1, <1>8, <2>4, <2>5, HookMoves
<1>9. CASE DropSlot(t)
  <2>1. Does(t, "pass", Order(r.own),
             Covered \ (IF r.own = <<>> THEN {} ELSE {r.own[1]}), r.walked, r.serves)
    BY <1>1, <1>9, HookMoves
  <2>2. /\ Says(n, "pass", Order(r.own),
                Covered \ (IF r.own = <<>> THEN {} ELSE {r.own[1]}), r.walked, r.serves)
        /\ \A b \in Actors \ {t} : run'[b] = run[b]
    BY <1>1, <2>1, DoesIt
  <2>3. r.phase = "entered" /\ owed' = owed
    BY <1>9 DEF DropSlot, trees
  <2>4. r.sweep = {}
    BY <1>1, <2>3 DEF RecordFits
  <2>5. c \in Covered \/ c \in ToSet(r.own) => Charged(n, c, owed'[c])
    BY <1>1, <2>2, BegunIsCharged
  <2>6. c \in Covered \/ c \in ToSet(r.own) => Watched(c)'
    BY <1>1, <2>5, WatchedNext
  <2>7. Charged(r, c, owed[c]) => c \in ToSet(r.own)
    BY <2>3, <2>4 DEF Charged
  <2> QED BY <1>5, <2>2, <2>3, <2>6, <2>7
<1>10. CASE PassEnds(t)
  <2>1. Does(t, "ended", <<>>, {}, 0, {})
    BY <1>1, <1>10, HookMoves
  <2>2. \A b \in Actors \ {t} : run'[b] = run[b]
    BY <2>1, HookRoles
  <2>3. /\ r.phase = "pass" /\ r.own = <<>> /\ r.sweep = {} /\ owed' = owed
        /\ slot' = IF slot = t THEN NoOne ELSE slot
    BY <1>10 DEF PassEnds, Done
  <2>4. slot' = slot
    BY <1>1, <2>3 DEF SlotFits
  <2>5. ~ Charged(r, c, owed[c])
    BY <2>3, NotCharged
  <2>6. c \in Covered /\ slot # NoOne => Watched(c)'
    BY <2>4, WatchedNext
  <2> QED BY <1>5, <2>2, <2>3, <2>5, <2>6
<1>11. CASE Killed(t)
  <2>1. Does(t, "ended", <<>>, {}, 0, {})
    BY <1>1, <1>11, HookMoves
  <2>2. \A b \in Actors \ {t} : run'[b] = run[b]
    BY <2>1, HookRoles
  <2>3. /\ excused' = excused \cup Taken(r) /\ owed' = owed
        /\ slot' = IF slot = t THEN NoOne ELSE slot
    BY <1>11 DEF Killed
  <2>4. c \in Taken(r) => Watched(c)'
    BY <2>3, WatchedNext
  <2>5. Charged(r, c, owed[c]) => Watched(c)'
    BY <1>1, <2>4, TakenIsAll
  <2>6. c \in Covered /\ slot # NoOne => Watched(c)'
    <3>1. CASE slot = t
      <4>1. r.phase \in {"waiting", "entered"}
        BY <1>1, <3>1 DEF SlotFits
      <4>2. Covered \subseteq Taken(r)
        BY <4>1 DEF Taken
      <4> QED BY <2>4, <4>2
    <3>2. CASE slot # t
      BY <2>3, <3>2, WatchedNext
    <3> QED BY <3>1, <3>2
  <2> QED BY <1>5, <2>2, <2>3, <2>5, <2>6
<1> QED BY <1>6, <1>7, <1>8, <1>9, <1>10, <1>11

LEMMA QueueWatch ==
    ASSUME PassesInv, PassesInv', NoTriggerIsForgotten,
           \/ \E d \in Checkouts : Wake(d)
           \/ \E k \in Calls : CatchUp(k)
           \/ Tick \/ Stop
    PROVE  NoTriggerIsForgotten'
<1>1. /\ queue \in Queue /\ queue.checkouts \in Seq(Checkouts) /\ owed \in [Checkouts -> Nat]
      /\ head \in [Checkouts -> Nat]
  BY Gathered DEF Others, Queue
<1>2. UNCHANGED <<shown, marker, run, slot>> /\ excused \subseteq excused'
  BY DEF Wake, CatchUp, Tick, Stop, trees, locks
<1>3. SUFFICES ASSUME NEW c \in Checkouts, Watched(c) PROVE Watched(c)'
  BY ForgottenIs
<1>4. ASSUME owed'[c] = owed[c],
             c \in ToSet(queue.checkouts) => c \in ToSet(queue'.checkouts)
      PROVE  Watched(c)'
  <2>1. Seen(c, owed[c]) => Seen(c, owed[c])'
    BY <1>2, <1>4 DEF Seen
  <2>2. /\ c \in ToSet(queue.checkouts) => Watched(c)'
        /\ c \in Covered /\ slot # NoOne => Watched(c)'
    BY <1>2, <1>4, WatchedNext
  <2>3. \A b \in Actors \ {NoOne} : run'[b] = run[b]
    BY <1>2
  <2> QED BY <1>3, <1>4, <2>1, <2>2, <2>3, ActorsAre, WatchKept
<1>5. ASSUME NEW d \in Checkouts, Wake(d) PROVE Watched(c)'
  <2>1. queue'.checkouts = IF d \in ToSet(queue.checkouts) THEN queue.checkouts
                                                            ELSE Append(queue.checkouts, d)
    BY <1>1, <1>5 DEF Wake, Queue
  <2>2. ToSet(queue'.checkouts) = ToSet(queue.checkouts) \cup {d}
    <3>1. CASE d \in ToSet(queue.checkouts)
      BY <2>1, <3>1
    <3>2. CASE d \notin ToSet(queue.checkouts)
      <4>1. queue'.checkouts = Append(queue.checkouts, d)
        BY <2>1, <3>2
      <4> DEFINE s == queue.checkouts
      <4> HIDE DEF s
      <4>2. s \in Seq(Checkouts) /\ queue'.checkouts = Append(s, d)
        BY <1>1, <4>1 DEF s
      <4>3. ToSet(Append(s, d)) = ToSet(s) \cup {d}
        BY <4>2, Appended, ZenonT(60)
      <4> QED BY <4>2, <4>3 DEF s
    <3> QED BY <3>1, <3>2
  <2>3. CASE c = d
    BY <2>2, <2>3, WatchedNext
  <2>4. CASE c # d
    <3>1. owed'[c] = owed[c]
      BY <1>1, <1>5, <2>4 DEF Wake
    <3> QED BY <1>4, <2>2, <3>1
  <2> QED BY <2>3, <2>4
<1>6. CASE (\E k \in Calls : CatchUp(k)) \/ Tick \/ Stop
  <2>1. owed' = owed /\ queue'.checkouts = queue.checkouts
    BY <1>1, <1>6 DEF CatchUp, Tick, Stop, Queue
  <2> QED BY <1>4, <2>1
<1> QED BY <1>5, <1>6

\* The worker takes what is queued into its own hands, and lets go of nothing
\* that is not excused until its pass is done.
LEMMA WorkerWatch ==
    ASSUME PassesInv, PassesInv', NoTriggerIsForgotten,
           \/ \E d \in Checkouts : IndexByHand(d)
           \/ Take \/ WorkerEnters \/ WorkerEnds \/ WorkerFails \/ Restart
    PROVE  NoTriggerIsForgotten'
<1> DEFINE r == run[Worker]
           n == run'[Worker]
<1>1. /\ run \in [Actors -> Run] /\ Worker \in Actors /\ ByHand \in Actors
      /\ r \in Run /\ RecordFits(r) /\ PassesTypeOK
      /\ RecordFits(run[ByHand]) /\ RolesFit
  BY Gathered, ActorsAre DEF RecordsFit, PassesInv
<1>2. /\ UNCHANGED <<shown, marker, owed, slot>> /\ excused \subseteq excused'
  BY DEF IndexByHand, Take, WorkerEnters, WorkerEnds, WorkerFails, Restart, trees, locks
<1>3. SUFFICES ASSUME NEW c \in Checkouts, Watched(c) PROVE Watched(c)'
  BY ForgottenIs
<1>4. Seen(c, owed[c]) => Seen(c, owed[c])'
  BY <1>2 DEF Seen
<1>5. c \in Covered /\ slot # NoOne => Watched(c)'
  BY <1>2, WatchedNext
<1>6. ASSUME \A b \in Actors \ {Worker} : run'[b] = run[b],
             Charged(r, c, owed[c]) => Watched(c)',
             c \in ToSet(queue.checkouts) => Watched(c)'
      PROVE  Watched(c)'
  BY <1>2, <1>3, <1>4, <1>5, <1>6, WatchKept
<1>7. ASSUME NEW d \in Checkouts, IndexByHand(d) PROVE Watched(c)'
  <2>1. Does(ByHand, "pass", <<d>>, {}, 0, {})
    BY <1>1, <1>7, WorkerMoves
  <2>2. \A b \in Actors \ {ByHand} : run'[b] = run[b]
    BY <1>1, <2>1, DoesIt
  <2>3. run[ByHand].phase # "walk" /\ run[ByHand].own = <<>> /\ queue' = queue
    BY <1>7 DEF IndexByHand
  <2>4. ~ Charged(run[ByHand], c, owed[c])
    BY <1>1, <2>3, NotCharged DEF RolesFit
  <2>5. c \in ToSet(queue.checkouts) => Watched(c)'
    BY <2>3, WatchedNext
  <2> QED BY <1>2, <1>3, <1>4, <1>5, <2>2, <2>4, <2>5, WatchKept
<1>8. CASE Take
  <2>1. Does(Worker, "taken", queue.checkouts, {}, 0, queue.waiters)
    BY <1>1, <1>8, WorkerMoves
  <2>2. /\ n.phase = "taken" /\ n.own = queue.checkouts
        /\ \A b \in Actors \ {Worker} : run'[b] = run[b]
    BY <1>1, <2>1, DoesIt DEF Says
  <2>3. r.phase = "idle"
    BY <1>8 DEF Take
  <2>4. ~ Charged(r, c, owed[c])
    BY <1>1, <2>3, NotCharged DEF RecordFits
  <2>5. c \in ToSet(queue.checkouts) => Charged(n, c, owed'[c])
    BY <2>2 DEF Charged
  <2>6. c \in ToSet(queue.checkouts) => Watched(c)'
    BY <1>1, <2>5, WatchedNext
  <2> QED BY <1>6, <2>2, <2>4, <2>6
<1>9. CASE WorkerEnters
  <2>1. Does(Worker, "pass", Order(r.own),
             Covered \ (IF r.own = <<>> THEN {} ELSE {r.own[1]}), r.walked, r.serves)
    BY <1>1, <1>9, WorkerMoves
  <2>2. /\ Says(n, "pass", Order(r.own),
                Covered \ (IF r.own = <<>> THEN {} ELSE {r.own[1]}), r.walked, r.serves)
        /\ \A b \in Actors \ {Worker} : run'[b] = run[b]
    BY <1>1, <2>1, DoesIt
  <2>3. r.phase = "taken" /\ queue' = queue
    BY <1>9 DEF WorkerEnters
  <2>4. r.sweep = {}
    BY <1>1, <2>3 DEF RecordFits
  <2>5. Charged(r, c, owed[c]) => c \in ToSet(r.own)
    BY <2>3, <2>4 DEF Charged
  <2>6. c \in ToSet(r.own) => Charged(n, c, owed'[c])
    BY <1>1, <2>2, BegunIsCharged
  <2>7. Charged(r, c, owed[c]) => Watched(c)'
    BY <1>1, <2>5, <2>6, WatchedNext
  <2>8. c \in ToSet(queue.checkouts) => Watched(c)'
    BY <2>3, WatchedNext
  <2> QED BY <1>6, <2>2, <2>7, <2>8
<1>10. CASE WorkerEnds \/ WorkerFails \/ Restart
  <2>1. Does(Worker, "idle", <<>>, {}, 0, {})
    BY <1>1, <1>10, WorkerMoves
  <2>2. \A b \in Actors \ {Worker} : run'[b] = run[b]
    BY <1>1, <2>1, DoesIt
  <2>3. Charged(r, c, owed[c]) => Watched(c)'
    <3>1. CASE WorkerEnds
      <4>1. r.phase = "pass" /\ r.own = <<>> /\ r.sweep = {}
        BY <3>1 DEF WorkerEnds, Done
      <4> QED BY <4>1, NotCharged
    <3>2. CASE WorkerFails \/ Restart
      <4>1. Taken(r) \subseteq excused'
        BY <3>2 DEF WorkerFails, Restart
      <4>2. Charged(r, c, owed[c]) => c \in excused'
        BY <1>1, <4>1, TakenIsAll
      <4> QED BY <4>2, WatchedNext
    <3> QED BY <1>10, <3>1, <3>2
  <2>4. c \in ToSet(queue.checkouts) => Watched(c)'
    <3>1. CASE WorkerEnds \/ WorkerFails
      <4>1. queue' = queue
        BY <3>1 DEF WorkerEnds, WorkerFails
      <4> QED BY <4>1, WatchedNext
    <3>2. CASE Restart
      <4>1. ToSet(queue.checkouts) \subseteq excused'
        BY <3>2 DEF Restart
      <4> QED BY <4>1, WatchedNext
    <3> QED BY <1>10, <3>1, <3>2
  <2> QED BY <1>6, <2>2, <2>3, <2>4
<1> QED BY <1>7, <1>8, <1>9, <1>10

\* For any checkouts, hooks, wakes and faults: a HEAD a hook reported is
\* mirrored, or somebody still has to look at the checkout, unless a fault took
\* the trigger along or the marker went past the rows.  A hook that coalesces
\* or finds the coordinator busy loses nothing.
THEOREM TriggersAreKept == PassesSpec => []NoTriggerIsForgotten
<1>1. PassesInit => NoTriggerIsForgotten
  <2> SUFFICES ASSUME PassesInit, NEW c \in Checkouts PROVE shown[c] >= owed[c]
    BY DEF NoTriggerIsForgotten
  <2>1. shown[c] = 0 /\ owed[c] = 0
    BY DEF PassesInit
  <2> QED BY <2>1
<1>2. PassesInv /\ NoTriggerIsForgotten /\ [PassesNext]_passVars => NoTriggerIsForgotten'
  <2> SUFFICES ASSUME PassesInv, NoTriggerIsForgotten, [PassesNext]_passVars
               PROVE  NoTriggerIsForgotten'
    OBVIOUS
  <2>1. PassesInv'
    BY PassesInvStep
  <2>2. CASE PassesNext
    BY <2>1, <2>2, StepsByKind, IndexWatch, HookWatch, QueueWatch, WorkerWatch
  <2>3. CASE UNCHANGED passVars
    <3>1. UNCHANGED <<shown, marker, owed, excused, run, queue, slot>>
      BY <2>3 DEF passVars, trees, locks
    <3>2. \A c \in Checkouts : OnTheWay(c)' = OnTheWay(c)
      BY <3>1 DEF OnTheWay
    <3> QED BY <3>1, <3>2 DEF NoTriggerIsForgotten
  <2> QED BY <2>2, <2>3
<1> QED BY PassesInvInit, PassesInvStep, <1>1, <1>2, PTL DEF PassesSpec

(************************** a catch-up is fresh ***************************)

\* Callers in the queue or in the worker's hands have asked.
CallersAsked == \A k \in queue.waiters \cup run[Worker].serves : calls[k].phase # "idle"

\* Until the worker answers, it is charged with every head its callers rely on
\* that is not seen yet.
Promised ==
    run[Worker].phase \in {"pass", "walk"} =>
        \A k \in run[Worker].serves, c \in Covered :
            Seen(c, calls[k].heads[c]) \/ Charged(run[Worker], c, calls[k].heads[c])

ServesInv == CallersAsked /\ Promised /\ CatchUpIsFresh

LEMMA FreshIs ==
    /\ CatchUpIsFresh <=> \A k \in Calls : calls[k].phase = "answered" =>
                              \A c \in Covered : Seen(c, calls[k].heads[c])
    /\ CatchUpIsFresh' <=> \A k \in Calls : calls'[k].phase = "answered" =>
                              \A c \in Covered : Seen(c, calls[k].heads[c])'
BY DEF CatchUpIsFresh, Seen

LEMMA CallHeads ==
    ASSUME PassesInv, NEW k \in Calls, NEW c \in Covered
    PROVE  c \in Checkouts /\ calls[k].heads[c] \in Nat /\ calls[k].heads[c] <= head[c]
BY ActorsAre DEF PassesInv, PassesTypeOK, Shape, HeadsGrow

\* What is seen of a caller's heads stays seen in every step.
LEMMA CallSeenStays ==
    ASSUME PassesInv, NEW k \in Calls, NEW c \in Covered, Seen(c, calls[k].heads[c]),
           calls'[k].heads = calls[k].heads,
           \/ \E a \in Actors : WalkBegin(a) \/ WalkEnd(a) \/ Sweep(a) \/ WalkFail(a)
           \/ UNCHANGED <<shown, marker>> /\ excused \subseteq excused'
    PROVE  Seen(c, calls[k].heads[c])'
<1>1. PICK h \in Nat : h = calls[k].heads[c]
  BY CallHeads
<1>2. h <= head[c] /\ c \in Checkouts /\ Seen(c, h)
  BY <1>1, CallHeads
<1>3. Seen(c, h)'
  BY <1>2, SeenStays
<1> QED BY <1>1, <1>3 DEF Seen

\* A step that leaves the callers, the queue of waiters and the worker alone.
LEMMA ServesAside ==
    ASSUME PassesInv, ServesInv, UNCHANGED calls,
           queue'.waiters = queue.waiters, run'[Worker] = run[Worker],
           \/ \E a \in Actors : WalkBegin(a) \/ WalkEnd(a) \/ Sweep(a) \/ WalkFail(a)
           \/ UNCHANGED <<shown, marker>> /\ excused \subseteq excused'
    PROVE  ServesInv'
<1>1. CallersAsked'
  BY DEF ServesInv, CallersAsked
<1>2. run[Worker].serves \subseteq Calls
  BY RunFields, ActorsAre DEF PassesInv, PassesTypeOK
<1>3. ASSUME run[Worker].phase \in {"pass", "walk"}, NEW k \in run[Worker].serves, NEW c \in Covered
      PROVE  Seen(c, calls[k].heads[c])' \/ Charged(run[Worker], c, calls[k].heads[c])'
  <2>1. CASE Seen(c, calls[k].heads[c])
    BY <1>2, <1>3, <2>1, CallSeenStays
  <2>2. CASE Charged(run[Worker], c, calls[k].heads[c])
    BY <2>2 DEF Charged
  <2> QED BY <1>3, <2>1, <2>2 DEF ServesInv, Promised
<1>4. Promised'
  BY <1>3 DEF Promised
<1>5. CatchUpIsFresh'
  BY CallSeenStays, FreshIs DEF ServesInv
<1> QED BY <1>1, <1>4, <1>5 DEF ServesInv

LEMMA IndexServes ==
    ASSUME PassesInv, ServesInv, NEW a \in Actors,
           WalkBegin(a) \/ WalkEnd(a) \/ Sweep(a) \/ WalkFail(a)
    PROVE  ServesInv'
<1>1. run \in [Actors -> Run] /\ Worker \in Actors
  BY Gathered, ActorsAre
<1>2. UNCHANGED <<calls, queue>> /\ run[a].phase \in {"pass", "walk"}
  BY DEF WalkBegin, WalkEnd, Sweep, WalkFail
<1>3. run'[a].serves = run[a].serves /\ \A b \in Actors \ {a} : run'[b] = run[b]
  BY <1>1, IndexDoes, DoesIt DEF Says
<1>4. CASE a # Worker
  BY <1>1, <1>2, <1>3, <1>4, ServesAside
<1>5. CASE a = Worker
  <2>1. CallersAsked'
    BY <1>2, <1>3, <1>5 DEF ServesInv, CallersAsked
  <2>2. run[Worker].serves \subseteq Calls
    BY <1>1, RunFields
  <2>3. ASSUME NEW k \in run[Worker].serves, NEW c \in Covered
        PROVE  Seen(c, calls[k].heads[c])' \/ Charged(run[Worker], c, calls[k].heads[c])'
    <3>1. CASE Seen(c, calls[k].heads[c])
      BY <1>2, <2>2, <3>1, CallSeenStays
    <3>2. CASE Charged(run[Worker], c, calls[k].heads[c])
      <4>1. PICK h \in Nat : h = calls[k].heads[c]
        BY <2>2, CallHeads
      <4>2. h <= head[c] /\ c \in Checkouts /\ calls'[k].heads[c] = h
        BY <1>2, <2>2, <4>1, CallHeads
      <4>3. Charged(run'[Worker], c, h) \/ Seen(c, h)'
        BY <1>5, <3>2, <4>1, <4>2, ChargeIsMet
      <4> QED BY <4>2, <4>3 DEF Seen, Charged
    <3> QED BY <1>2, <1>5, <3>1, <3>2 DEF ServesInv, Promised
  <2>4. Promised'
    BY <1>3, <1>5, <2>3 DEF Promised
  <2>5. CatchUpIsFresh'
    BY <1>2, CallSeenStays, FreshIs DEF ServesInv
  <2> QED BY <2>1, <2>4, <2>5 DEF ServesInv
<1> QED BY <1>4, <1>5

LEMMA HookServes ==
    ASSUME PassesInv, ServesInv, NEW t \in Triggers,
           \/ \E d \in Checkouts : Fire(t, d)
           \/ FireAgent(t) \/ Enqueue(t) \/ Enter(t) \/ DropSlot(t) \/ PassEnds(t) \/ Killed(t)
    PROVE  ServesInv'
<1>1. UNCHANGED <<shown, marker, queue, calls>> /\ excused \subseteq excused'
  BY DEF Fire, FireAgent, Enqueue, Enter, DropSlot, PassEnds, Killed, trees
<1>2. PassesTypeOK
  BY DEF PassesInv
<1>3. \E p, o, s, w, v : Does(t, p, o, s, w, v)
  BY <1>2, HookMoves
<1>4. run'[Worker] = run[Worker]
  BY <1>3, HookRoles, ActorsAre
<1> QED BY <1>1, <1>4, ServesAside

LEMMA QueueServes ==
    ASSUME PassesInv, ServesInv,
           \/ \E d \in Checkouts : Wake(d)
           \/ \E k \in Calls : CatchUp(k)
           \/ Tick \/ Stop
    PROVE  ServesInv'
<1>1. UNCHANGED <<shown, marker, run>> /\ excused \subseteq excused'
  BY DEF Wake, CatchUp, Tick, Stop, trees
<1>2. queue \in Queue /\ run[Worker].serves \subseteq Calls /\ PassesTypeOK
  BY RunFields, ActorsAre, Gathered DEF PassesInv, Others
<1>3. CASE (\E d \in Checkouts : Wake(d)) \/ Tick \/ Stop
  <2>1. UNCHANGED calls /\ queue'.waiters = queue.waiters
    BY <1>2, <1>3 DEF Wake, Tick, Stop, Queue
  <2> QED BY <1>1, <2>1, ServesAside
<1>4. ASSUME NEW j \in Calls, CatchUp(j) PROVE ServesInv'
  <2>1. /\ calls[j].phase = "idle" /\ queue'.waiters = queue.waiters \cup {j}
        /\ calls'[j].phase = "asked"
        /\ \A k \in Calls \ {j} : calls'[k] = calls[k]
    BY <1>2, <1>4 DEF CatchUp, Queue, PassesTypeOK
  <2>2. queue.waiters \subseteq Calls
    BY <1>2 DEF Queue
  <2>3. \A k \in queue.waiters \cup run[Worker].serves : k # j /\ calls'[k] = calls[k]
    BY <1>2, <2>1, <2>2 DEF ServesInv, CallersAsked
  <2>4. CallersAsked'
    BY <1>1, <2>1, <2>3 DEF ServesInv, CallersAsked
  <2>5. ASSUME run[Worker].phase \in {"pass", "walk"}, NEW k \in run[Worker].serves,
               NEW c \in Covered
        PROVE  Seen(c, calls[k].heads[c])' \/ Charged(run[Worker], c, calls[k].heads[c])'
    <3>1. calls'[k] = calls[k]
      BY <2>3
    <3>2. Seen(c, calls[k].heads[c]) \/ Charged(run[Worker], c, calls[k].heads[c])
      BY <2>5 DEF ServesInv, Promised
    <3> QED BY <1>1, <3>1, <3>2 DEF Seen, Charged
  <2>6. Promised'
    BY <1>1, <2>5 DEF Promised
  <2>7. CatchUpIsFresh'
    <3> SUFFICES ASSUME NEW k \in Calls, calls'[k].phase = "answered", NEW c \in Covered
                 PROVE  Seen(c, calls[k].heads[c])'
      BY FreshIs
    <3>1. calls'[k] = calls[k]
      BY <2>1
    <3>2. Seen(c, calls[k].heads[c])
      BY <3>1, FreshIs DEF ServesInv
    <3> QED BY <1>1, <3>1, <3>2, CallSeenStays
  <2> QED BY <2>4, <2>6, <2>7 DEF ServesInv
<1> QED BY <1>3, <1>4

\* The worker's own steps: a pass that begins is charged with everything its
\* callers rely on; a pass that is done has seen it all, and only then answers.
LEMMA WorkerServes ==
    ASSUME PassesInv, ServesInv,
           \/ \E d \in Checkouts : IndexByHand(d)
           \/ Take \/ WorkerEnters \/ WorkerEnds \/ WorkerFails \/ Restart
    PROVE  ServesInv'
<1> DEFINE r == run[Worker]
           n == run'[Worker]
<1>1. /\ run \in [Actors -> Run] /\ Worker \in Actors /\ ByHand \in Actors
      /\ r \in Run /\ PassesTypeOK /\ r.serves \subseteq Calls /\ queue \in Queue
      /\ queue.waiters \subseteq Calls
  BY RunFields, Gathered, ActorsAre DEF PassesInv, Others, Queue
<1>2. UNCHANGED <<shown, marker>> /\ excused \subseteq excused'
  BY DEF IndexByHand, Take, WorkerEnters, WorkerEnds, WorkerFails, Restart, trees
<1>3. UNCHANGED calls => CatchUpIsFresh'
  BY <1>2, CallSeenStays, FreshIs DEF ServesInv
<1>4. ASSUME NEW d \in Checkouts, IndexByHand(d) PROVE ServesInv'
  <2>1. Does(ByHand, "pass", <<d>>, {}, 0, {})
    BY <1>1, <1>4, WorkerMoves
  <2>2. n = r
    BY <1>1, <2>1, DoesIt, ActorsAre
  <2> QED BY <1>2, <1>4, <2>2, ServesAside DEF IndexByHand
<1>5. CASE Take
  <2>1. Does(Worker, "taken", queue.checkouts, {}, 0, queue.waiters)
    BY <1>1, <1>5, WorkerMoves
  <2>2. n.phase = "taken" /\ n.serves = queue.waiters
    BY <1>1, <2>1, DoesIt DEF Says
  <2>3. queue'.waiters = {} /\ UNCHANGED calls
    BY <1>5 DEF Take, Nothing
  <2>4. CallersAsked' /\ Promised'
    BY <2>2, <2>3 DEF ServesInv, CallersAsked, Promised
  <2> QED BY <1>3, <2>3, <2>4 DEF ServesInv
<1>6. CASE WorkerEnters
  <2>1. Does(Worker, "pass", Order(r.own),
             Covered \ (IF r.own = <<>> THEN {} ELSE {r.own[1]}), r.walked, r.serves)
    BY <1>1, <1>6, WorkerMoves
  <2>2. Says(n, "pass", Order(r.own),
             Covered \ (IF r.own = <<>> THEN {} ELSE {r.own[1]}), r.walked, r.serves)
    BY <1>1, <2>1, DoesIt
  <2>3. n.serves = r.serves /\ UNCHANGED <<calls, queue>>
    BY <1>6, <2>2 DEF Says, WorkerEnters
  <2>4. \A c \in Covered : \A h : Charged(n, c, h)
    BY <1>1, <2>2, BegunIsCharged
  <2>5. CallersAsked'
    BY <2>3 DEF ServesInv, CallersAsked
  <2>6. Promised'
    BY <2>4 DEF Promised, Charged
  <2> QED BY <1>3, <2>3, <2>5, <2>6 DEF ServesInv
<1>7. CASE WorkerEnds \/ WorkerFails \/ Restart
  <2>1. Does(Worker, "idle", <<>>, {}, 0, {})
    BY <1>1, <1>7, WorkerMoves
  <2>2. n.phase = "idle" /\ n.serves = {}
    BY <1>1, <2>1, DoesIt DEF Says
  <2>3. Promised'
    BY <2>2 DEF Promised
  <2>4. PICK ks \in SUBSET Calls, how \in {"answered", "failed"} :
          /\ calls' = Replied(ks, how)
          /\ how = "answered" => WorkerEnds /\ ks = r.serves
    <3>1. CASE WorkerEnds
      BY <1>1, <3>1 DEF WorkerEnds
    <3>2. CASE WorkerFails
      BY <1>1, <3>2 DEF WorkerFails
    <3>3. CASE Restart
      BY <1>1, <3>3 DEF Restart
    <3> QED BY <1>7, <3>1, <3>2, <3>3
  <2>5. \A k \in Calls : /\ calls'[k].heads = calls[k].heads
                         /\ k \in ks => calls'[k].phase = how
                         /\ k \notin ks => calls'[k] = calls[k]
    BY <1>1, <2>4, RepliedKeeps
  <2>6. CallersAsked'
    <3>1. queue'.waiters \subseteq queue.waiters
      BY <1>7 DEF WorkerEnds, WorkerFails, Restart, Nothing
    <3>2. ASSUME NEW k \in queue.waiters PROVE calls'[k].phase # "idle"
      BY <1>1, <2>4, <2>5 DEF ServesInv, CallersAsked
    <3> QED BY <2>2, <3>1, <3>2 DEF CallersAsked
  <2>7. CatchUpIsFresh'
    <3> SUFFICES ASSUME NEW k \in Calls, calls'[k].phase = "answered", NEW c \in Covered
                 PROVE  Seen(c, calls[k].heads[c])'
      BY FreshIs
    <3>1. CASE k \in ks
      <4>1. WorkerEnds /\ k \in r.serves
        BY <2>4, <2>5, <3>1
      <4>2. r.phase = "pass" /\ r.own = <<>> /\ r.sweep = {}
        BY <4>1 DEF WorkerEnds, Done
      <4>3. ~ Charged(r, c, calls[k].heads[c])
        BY <4>2, NotCharged
      <4>4. Seen(c, calls[k].heads[c])
        BY <4>1, <4>2, <4>3 DEF ServesInv, Promised
      <4> QED BY <1>2, <2>5, <4>4, CallSeenStays
    <3>2. CASE k \notin ks
      <4>1. Seen(c, calls[k].heads[c])
        BY <2>5, <3>2, FreshIs DEF ServesInv
      <4> QED BY <1>2, <2>5, <4>1, CallSeenStays
    <3> QED BY <3>1, <3>2
  <2> QED BY <2>3, <2>6, <2>7 DEF ServesInv
<1> QED BY <1>4, <1>5, <1>6, <1>7

\* For any number of callers, hooks, runs by hand and faults: who is told its
\* catch-up is done finds every covered checkout mirrored as of its request, or
\* marked past the rows, or named by a fault.
THEOREM CatchUpsAreFresh == PassesSpec => []CatchUpIsFresh
<1>1. PassesInit => ServesInv
  <2> SUFFICES ASSUME PassesInit PROVE ServesInv
    OBVIOUS
  <2>1. run[Worker].phase = "idle" /\ run[Worker].serves = {}
    BY ActorsAre DEF PassesInit, AtRest
  <2>2. queue.waiters = {} /\ \A k \in Calls : calls[k].phase = "idle"
    BY DEF PassesInit, Nothing
  <2> QED BY <2>1, <2>2 DEF ServesInv, CallersAsked, Promised, CatchUpIsFresh
<1>2. PassesInv /\ ServesInv /\ [PassesNext]_passVars => ServesInv'
  <2> SUFFICES ASSUME PassesInv, ServesInv, [PassesNext]_passVars PROVE ServesInv'
    OBVIOUS
  <2>1. CASE PassesNext
    BY <2>1, StepsByKind, IndexServes, HookServes, QueueServes, WorkerServes
  <2>2. CASE UNCHANGED passVars
    <3>1. UNCHANGED <<shown, marker, excused, calls, queue, run>>
      BY <2>2 DEF passVars, trees, locks
    <3> QED BY <3>1, ServesAside
  <2> QED BY <2>1, <2>2
<1>3. ServesInv => CatchUpIsFresh
  BY DEF ServesInv
<1> QED BY PassesInvInit, PassesInvStep, <1>1, <1>2, <1>3, PTL DEF PassesSpec
================================================================================
