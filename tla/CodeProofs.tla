------------------------------ MODULE CodeProofs ------------------------------
(* For any number of machines, contents and queued generations: the types hold;
   what a machine owes is recorded, whatever gc sweeps; what a machine has active
   the hub accepted; and a machine that read the whole feed has active what the
   hub is at, unless it is set back.  The second and third rest on where a pass
   is: the entry it is settling lies in the feed and is a generation, and while a
   request is out its operation is owed.  The last rests on what a machine has
   read, the replay of a rewind included. *)
EXTENDS CodeGenerations, WellFoundedInduction, TLAPS

\* Operations are named only after they were queued.
RefsInv ==
    /\ Len(plans) <= MaxPlans
    /\ \A m \in Machines : owing[m] <= Len(plans)
    /\ \A n \in 1 .. Len(chain) : chain[n] <= Len(plans)

\* A pass reads within its page, and settles an entry of the feed that is a
\* generation; what it has asked it still owes.
Placed(m) ==
    /\ drain[m].upto <= Len(chain) /\ drain[m].head <= Len(chain)
    /\ In(m, "pull") => reached[m] < drain[m].upto
    /\ In(m, "activate") \/ In(m, "bind") =>
         /\ drain[m].at \in 1 .. Len(chain) /\ IsCode(drain[m].at)
         /\ drain[m].leg = "pull" => drain[m].at = Upcoming(m)
    /\ In(m, "sent") \/ In(m, "answered") => owing[m] # 0
PlaceInv == \A m \in Machines : Placed(m)

\* What was ever active is in the feed.
AdoptedInv == \A m \in Machines : \A g \in adopted[m] :
    \E n \in 1 .. Len(chain) : IsCode(n) /\ GenerationAt(n) = g
ActiveInv == \A m \in Machines : active[m] \in adopted[m] \cup {NoGeneration}

CodeInv == CodeTypeOK /\ RefsInv /\ PlaceInv

\* Elements of a sequence, and of a longer one.
LEMMA SeqElement ==
  ASSUME NEW S, NEW s \in Seq(S), NEW n \in 1 .. Len(s) PROVE s[n] \in S
OBVIOUS

LEMMA SeqAppend ==
  ASSUME NEW S, NEW s \in Seq(S), NEW e \in S
  PROVE  /\ Append(s, e) \in Seq(S) /\ Len(Append(s, e)) = Len(s) + 1
         /\ \A n \in 1 .. Len(s) : Append(s, e)[n] = s[n]
         /\ Append(s, e)[Len(s) + 1] = e
OBVIOUS

LEMMA NewElement ==
  ASSUME NEW S, NEW s \in Seq(S), NEW e \in S, NEW n \in 1 .. Len(Append(s, e)), n \notin 1 .. Len(s)
  PROVE  Append(s, e)[n] = e
OBVIOUS

USE CodeAssumption DEF CodeAssumption

LEMMA InitInv == CodeInit => CodeInv /\ OwedIsRecorded /\ AdoptedInv /\ ActiveInv
<1> SUFFICES ASSUME CodeInit PROVE CodeInv /\ OwedIsRecorded /\ AdoptedInv /\ ActiveInv
  OBVIOUS
<1> USE DEF CodeInit
<1>1. NoDrain \in Drain
  BY DEF NoDrain, Drain, DrainSteps
<1>2. NoGeneration \in Generations
  BY DEF NoGeneration, Generations
<1>3. CodeTypeOK
  BY <1>1, <1>2 DEF CodeTypeOK
<1>4. RefsInv
  BY DEF RefsInv
<1>5. PlaceInv
  BY DEF PlaceInv, Placed, In, NoDrain
<1>6. OwedIsRecorded /\ AdoptedInv /\ ActiveInv
  BY DEF OwedIsRecorded, AdoptedInv, ActiveInv
<1> QED BY <1>3, <1>4, <1>5, <1>6 DEF CodeInv

\* The shapes in which a pass's record changes.
LEMMA StepType ==
  ASSUME drain \in [Machines -> Drain], NEW m \in Machines, NEW s \in DrainSteps, ToStep(m, s)
  PROVE  drain' \in [Machines -> Drain]
BY DEF ToStep, Drain

LEMMA DrainType ==
  ASSUME drain \in [Machines -> Drain], NEW m \in Machines, NEW d \in Drain,
         drain' = [drain EXCEPT ![m] = d]
  PROVE  drain' \in [Machines -> Drain]
OBVIOUS

LEMMA NoDrainType == NoDrain \in Drain
BY DEF NoDrain, Drain, DrainSteps

LEMMA ActivateType ==
  ASSUME CodeTypeOK, NEW m \in Machines, NEW g \in Generations, Activate(m, g)
  PROVE  /\ active' \in [Machines -> Generations] /\ stagedGens' \in [Machines -> SUBSET Generations]
         /\ adopted' \in [Machines -> SUBSET Generations]
BY DEF CodeTypeOK, Activate

LEMMA SettlingType ==
  ASSUME drain \in [Machines -> Drain], NEW m \in Machines, NEW s \in DrainSteps,
         NEW l \in {"pull", "push"}, NEW n \in Nat, Settling(m, s, l, n)
  PROVE  drain' \in [Machines -> Drain]
<1> DEFINE a == [drain EXCEPT ![m].step = s]
           b == [a EXCEPT ![m].leg = l]
<1>1. a \in [Machines -> Drain]
  BY DEF Drain
<1>2. b \in [Machines -> Drain]
  <2> HIDE DEF a
  <2> QED BY <1>1 DEF Drain
<1>3. drain' = [b EXCEPT ![m].at = n]
  BY DEF Settling
<1> HIDE DEF b
<1> QED BY <1>2, <1>3 DEF Drain

\* The entry a pass reads, and the generation it settles, exist.
LEMMA EntryExists ==
  ASSUME CodeInv, NEW m \in Machines, In(m, "pull")
  PROVE  Upcoming(m) \in 1 .. Len(chain)
BY DEF CodeInv, CodeTypeOK, PlaceInv, Placed, Upcoming, In, Drain

LEMMA GenerationExists ==
  ASSUME CodeInv, NEW n \in 1 .. Len(chain), IsCode(n)
  PROVE  chain[n] \in 1 .. Len(plans) /\ chain[n] \in Operation /\ GenerationAt(n) \in Generations
<1>1. chain[n] \in Operation /\ chain[n] <= Len(plans) /\ chain[n] \in 1 .. Len(plans)
  BY DEF CodeInv, CodeTypeOK, RefsInv, IsCode, Operation
<1>2. plans[chain[n]] \in [by : Machines, generation : Generations \ {NoGeneration}]
  <2> DEFINE P == [by : Machines, generation : Generations \ {NoGeneration}]
  <2>1. plans \in Seq(P)
    BY DEF CodeInv, CodeTypeOK
  <2>2. plans[chain[n]] \in P
    <3> HIDE DEF P
    <3> QED BY <2>1, <1>1, SeqElement
  <2> QED BY <2>2
<1> QED BY <1>1, <1>2 DEF GenerationAt

LEMMA TypeStep == CodeInv /\ [CodeNext]_codeVars => CodeTypeOK'
<1> SUFFICES ASSUME CodeInv, [CodeNext]_codeVars PROVE CodeTypeOK'
  OBVIOUS
<1> USE DEF CodeTypeOK, local, upstream, progress, used, In
<1>t. CodeTypeOK
  BY DEF CodeInv
<1>0. CASE UNCHANGED codeVars
  BY <1>t, <1>0 DEF codeVars
<1>1. ASSUME NEW m \in Machines, NEW c \in Contents, IndexCode(m, c) PROVE CodeTypeOK'
  BY <1>t, <1>1 DEF IndexCode
<1>2. ASSUME NEW m \in Machines, SweepStaged(m) PROVE CodeTypeOK'
  BY <1>t, <1>2 DEF SweepStaged
<1>3. ASSUME NEW m \in Machines, NEW leg \in {"pull", "push"}, OpenDrain(m, leg) PROVE CodeTypeOK'
  <2>1. /\ [NoDrain EXCEPT !.step = "push"] \in Drain
        /\ [NoDrain EXCEPT !.step = "capture", !.head = Len(chain)] \in Drain
    <3>1. Len(chain) \in Nat
      BY <1>t
    <3> QED BY <3>1 DEF NoDrain, Drain, DrainSteps
  <2>2. drain' \in [Machines -> Drain]
    BY <1>t, <1>3, <2>1, DrainType DEF OpenDrain
  <2> QED BY <1>t, <1>3, <2>2 DEF OpenDrain
<1>4. ASSUME NEW m \in Machines, Capture(m) PROVE CodeTypeOK'
  <2> DEFINE g == Append(active[m], index[m])
             p == [by |-> m, generation |-> g]
             P == [by : Machines, generation : Generations \ {NoGeneration}]
  <2>1. active[m] \in Seq(Contents) /\ index[m] \in Contents
    BY <1>t, <1>4 DEF Capture, NothingNew, Generations
  <2>2. g \in Generations /\ g # NoGeneration
    BY <2>1, SeqAppend DEF Generations, NoGeneration
  <2>3. p \in P
    BY <2>2
  <2>4. plans \in Seq(P)
    BY <1>t
  <2>5. plans' = Append(plans, p) /\ Len(plans) < MaxPlans
    BY <1>4 DEF Capture
  <2>6. plans' \in Seq(P) /\ Len(plans') = Len(plans) + 1
    <3> HIDE DEF P, p
    <3> QED BY <2>3, <2>4, <2>5, SeqAppend
  <2>7. Len(plans') \in Operation
    BY <2>4, <2>5, <2>6 DEF Operation
  <2>8. owing' \in [Machines -> Operation \cup {0}]
    BY <1>t, <1>4, <2>7 DEF Capture
  <2>9. stagedGens' \in [Machines -> SUBSET Generations]
    BY <1>t, <1>4, <2>2 DEF Capture, Stage
  <2>10. drain' \in [Machines -> Drain]
    BY <1>t, <1>4, StepType DEF Capture, DrainSteps
  <2> QED BY <1>t, <1>4, <2>6, <2>8, <2>9, <2>10 DEF Capture
<1>5. ASSUME NEW m \in Machines, CaptureNothing(m) PROVE CodeTypeOK'
  <2>1. drain' \in [Machines -> Drain]
    BY <1>t, <1>5, StepType DEF CaptureNothing, DrainSteps
  <2> QED BY <1>t, <1>5, <2>1 DEF CaptureNothing
<1>6. ASSUME NEW m \in Machines, Rewinds(m) PROVE CodeTypeOK'
  <2>1. drain' \in [Machines -> Drain]
    BY <1>t, <1>6, StepType DEF Rewinds, DrainSteps
  <2>2. /\ reached' \in [Machines -> Nat]
        /\ heldBack' \in [Machines -> SUBSET (Nat \ {0})] /\ setBack' \subseteq Machines
    <3>1. CASE UNCHANGED <<reached, heldBack, setBack>>
      BY <1>t, <3>1
    <3>2. ASSUME NEW due \in SUBSET heldBack[m], NEW first \in due,
                 heldBack' = [heldBack EXCEPT ![m] = @ \ due],
                 reached' = [reached EXCEPT ![m] = IF first <= @ THEN Below(first) ELSE @],
                 setBack' = IF \E n \in first .. reached[m] : IsOwn(m, n)
                            THEN setBack \cup {m} ELSE setBack
          PROVE  /\ reached' \in [Machines -> Nat]
                 /\ heldBack' \in [Machines -> SUBSET (Nat \ {0})] /\ setBack' \subseteq Machines
      <4>1. first \in Nat /\ first # 0 /\ Below(first) \in Nat
        BY <1>t, <3>2 DEF Below
      <4>2. reached' \in [Machines -> Nat]
        BY <1>t, <3>2, <4>1
      <4>3. heldBack' \in [Machines -> SUBSET (Nat \ {0})]
        BY <1>t, <3>2
      <4> QED BY <1>t, <3>2, <4>2, <4>3
    <3> QED BY <1>6, <3>1, <3>2 DEF Rewinds
  <2> QED BY <1>t, <1>6, <2>1, <2>2 DEF Rewinds
<1>7. ASSUME NEW m \in Machines, FetchPage(m) PROVE CodeTypeOK'
  <2>1. Len(chain) \in Nat
    BY <1>t
  <2>2. /\ [drain[m] EXCEPT !.step = "pull", !.upto = Len(chain)] \in Drain
        /\ [drain[m] EXCEPT !.step = "push"] \in Drain
    <3>1. drain[m] \in Drain
      BY <1>t
    <3> QED BY <2>1, <3>1 DEF Drain, DrainSteps
  <2>3. drain' \in [Machines -> Drain]
    BY <1>t, <1>7, <2>2, DrainType DEF FetchPage
  <2> QED BY <1>t, <1>7, <2>3 DEF FetchPage
<1>8. ASSUME NEW m \in Machines, PullMemory(m) PROVE CodeTypeOK'
  <2>1. drain' \in [Machines -> Drain]
    BY <1>t, <1>8, StepType DEF PullMemory, PastIt, DrainSteps
  <2>2. reached' \in [Machines -> Nat]
    BY <1>t, <1>8 DEF PullMemory, PastIt, Upcoming
  <2>3. heldBack' \in [Machines -> SUBSET (Nat \ {0})]
    <3> DEFINE S == Nat \ {0}
               e == Upcoming(m)
    <3>1. e \in S /\ heldBack \in [Machines -> SUBSET S]
      BY <1>t DEF Upcoming
    <3>2. heldBack' = heldBack \/ heldBack' = [heldBack EXCEPT ![m] = @ \cup {e}]
      BY <1>8 DEF PullMemory
    <3>3. heldBack' \in [Machines -> SUBSET S]
      <4> HIDE DEF S, e, CodeTypeOK
      <4> QED BY <3>1, <3>2
    <3> QED BY <3>3
  <2> QED BY <1>t, <1>8, <2>1, <2>2, <2>3 DEF PullMemory
<1>9. ASSUME NEW m \in Machines, SettleOwn(m) PROVE CodeTypeOK'
  <2>1. drain' \in [Machines -> Drain]
    BY <1>t, <1>9, SettlingType DEF SettleOwn, OwnIsActivated, Upcoming, DrainSteps
  <2> QED BY <1>t, <1>9, <2>1 DEF SettleOwn
<1>10. ASSUME NEW m \in Machines, PassSuperseded(m) PROVE CodeTypeOK'
  <2>1. drain' \in [Machines -> Drain]
    BY <1>t, <1>10, StepType DEF PassSuperseded, PastIt, DrainSteps
  <2>2. reached' \in [Machines -> Nat]
    BY <1>t, <1>10 DEF PassSuperseded, PastIt, Upcoming
  <2> QED BY <1>t, <1>10, <2>1, <2>2 DEF PassSuperseded
<1>11. ASSUME NEW m \in Machines, Land(m) PROVE CodeTypeOK'
  <2>1. chain[Upcoming(m)] \in Operation /\ GenerationAt(Upcoming(m)) \in Generations
    BY <1>11, EntryExists, GenerationExists DEF Land, PullForeign
  <2>2. landed' \in [Machines -> SUBSET Operation]
    <3> DEFINE e == chain[Upcoming(m)]
    <3>1. e \in Operation /\ landed \in [Machines -> SUBSET Operation]
      BY <1>t, <2>1
    <3>2. landed' = landed \/ landed' = [landed EXCEPT ![m] = @ \cup {e}]
      BY <1>11 DEF Land
    <3> HIDE DEF e, CodeTypeOK
    <3> QED BY <3>1, <3>2
  <2>5. setBack' \subseteq Machines
    <3>1. setBack' = setBack \/ setBack' = setBack \ {m}
      BY <1>11 DEF Land
    <3> QED BY <1>t, <3>1
  <2>3. /\ active' \in [Machines -> Generations] /\ stagedGens' \in [Machines -> SUBSET Generations]
        /\ adopted' \in [Machines -> SUBSET Generations]
    <3>1. UNCHANGED local \/ Activate(m, GenerationAt(Upcoming(m)))
      BY <1>11 DEF Land
    <3> QED BY <1>t, <2>1, <3>1, ActivateType
  <2>4. drain' \in [Machines -> Drain]
    BY <1>t, <1>11, SettlingType DEF Land, Upcoming, DrainSteps
  <2> QED BY <1>t, <1>11, <2>2, <2>3, <2>4, <2>5 DEF Land
<1>12. ASSUME NEW m \in Machines, ActivateOwn(m) PROVE CodeTypeOK'
  <2>1. GenerationAt(drain[m].at) \in Generations
    BY <1>12, GenerationExists DEF ActivateOwn, CodeInv, PlaceInv, Placed
  <2>2. /\ active' \in [Machines -> Generations] /\ stagedGens' \in [Machines -> SUBSET Generations]
        /\ adopted' \in [Machines -> SUBSET Generations]
    <3>1. UNCHANGED local \/ Activate(m, GenerationAt(drain[m].at))
      BY <1>12 DEF ActivateOwn
    <3> QED BY <1>t, <2>1, <3>1, ActivateType
  <2>3. drain' \in [Machines -> Drain]
    BY <1>t, <1>12, StepType DEF ActivateOwn, DrainSteps
  <2> QED BY <1>t, <1>12, <2>2, <2>3 DEF ActivateOwn
<1>13. ASSUME NEW m \in Machines, BindGeneration(m) PROVE CodeTypeOK'
  <2>1. drain' \in [Machines -> Drain]
    BY <1>t, <1>13, StepType DEF BindGeneration, PastIt, DrainSteps
  <2>2. reached' \in [Machines -> Nat]
    <3>1. UNCHANGED reached \/ reached' = [reached EXCEPT ![m] = Upcoming(m)]
      BY <1>13 DEF BindGeneration, PastIt
    <3>2. Upcoming(m) \in Nat
      BY <1>t DEF Upcoming
    <3> QED BY <1>t, <3>1, <3>2
  <2>3. known' \in [Machines -> Nat]
    BY <1>t, <1>13 DEF BindGeneration, Drain
  <2> QED BY <1>t, <1>13, <2>1, <2>2, <2>3 DEF BindGeneration
<1>14. ASSUME NEW m \in Machines, SendGeneration(m) PROVE CodeTypeOK'
  <2>1. drain' \in [Machines -> Drain]
    BY <1>t, <1>14, StepType, NoDrainType, DrainType DEF SendGeneration, DrainSteps
  <2> QED BY <1>t, <1>14, <2>1 DEF SendGeneration
<1>15. ASSUME NEW m \in Machines, Accept(m) PROVE CodeTypeOK'
  <2>1. owing[m] \in Operation
    BY <1>t, <1>15 DEF Accept, CodeInv, PlaceInv, Placed
  <2>2. answer' \in [Operation -> {"none", "accepted", "rejected_stale"}]
    BY <1>t, <1>15, <2>1 DEF Accept
  <2>3. chain' \in Seq(Operation \cup {0})
    <3> DEFINE S == Operation \cup {0}
    <3>1. chain \in Seq(S) /\ owing[m] \in S
      BY <1>t, <2>1
    <3>2. chain' = chain \/ chain' = Append(chain, owing[m])
      BY <1>15 DEF Accept
    <3> HIDE DEF S
    <3>3. chain' \in Seq(S)
      BY <3>1, <3>2, SeqAppend
    <3> QED BY <3>3 DEF S
  <2>4. drain' \in [Machines -> Drain]
    BY <1>t, <1>15, StepType DEF Accept, DrainSteps
  <2> QED BY <1>t, <1>15, <2>2, <2>3, <2>4 DEF Accept
<1>16. ASSUME NEW m \in Machines, ResendGeneration(m) PROVE CodeTypeOK'
  <2>1. drain' \in [Machines -> Drain]
    BY <1>t, <1>16, StepType DEF ResendGeneration, DrainSteps
  <2> QED BY <1>t, <1>16, <2>1 DEF ResendGeneration
<1>17. ASSUME NEW m \in Machines, RecordAnswer(m) PROVE CodeTypeOK'
  <2>1. drain' \in [Machines -> Drain]
    <3>1. ASSUME NEW n \in 1 .. Len(chain), Settling(m, "activate", "push", n)
          PROVE  drain' \in [Machines -> Drain]
      BY <1>t, <3>1, SettlingType DEF DrainSteps
    <3> QED BY <1>t, <1>17, <3>1, StepType DEF RecordAnswer, DrainSteps
  <2> QED BY <1>t, <1>17, <2>1 DEF RecordAnswer
<1>18. ASSUME NEW m \in Machines, BreakOff(m) PROVE CodeTypeOK'
  <2>1. drain' \in [Machines -> Drain]
    BY <1>t, <1>18, NoDrainType, DrainType DEF BreakOff
  <2> QED BY <1>t, <1>18, <2>1 DEF BreakOff
<1>19. ASSUME PeerMemory PROVE CodeTypeOK'
  <2>1. chain' \in Seq(Operation \cup {0})
    BY <1>t, <1>19, SeqAppend DEF PeerMemory
  <2> QED BY <1>t, <1>19, <2>1 DEF PeerMemory
<1> QED
  BY <1>0, <1>1, <1>2, <1>3, <1>4, <1>5, <1>6, <1>7, <1>8, <1>9, <1>10, <1>11, <1>12, <1>13,
     <1>14, <1>15, <1>16, <1>17, <1>18, <1>19 DEF CodeNext, DrainStep

(****************************** what a step moves ***************************)

\* Which steps reach the feed, the queue, what a machine owes and its generations.
LEMMA WhatMoves ==
  ASSUME [CodeNext]_codeVars
  PROVE  /\ UNCHANGED <<chain, answer>> \/ PeerMemory \/ \E m \in Machines : Accept(m)
         /\ UNCHANGED plans \/ \E m \in Machines : Capture(m)
         /\ UNCHANGED owing \/ \E m \in Machines : Capture(m) \/ SettleOwn(m) \/ RecordAnswer(m)
         /\ \/ UNCHANGED <<stagedGens, adopted>>
            \/ \E m \in Machines : Capture(m) \/ SweepStaged(m) \/ Land(m) \/ ActivateOwn(m)
         /\ UNCHANGED <<active, adopted>> \/ \E m \in Machines : Land(m) \/ ActivateOwn(m)
<1> DEFINE Still == UNCHANGED <<chain, answer, plans, owing, active, stagedGens, adopted>>
<1>1. CASE UNCHANGED codeVars
  BY <1>1 DEF codeVars, local, upstream
<1>2. CASE PeerMemory
  BY <1>2 DEF PeerMemory, local
<1>3. ASSUME NEW m \in Machines,
             (\E c \in Contents : IndexCode(m, c)) \/ (\E leg \in {"pull", "push"} : OpenDrain(m, leg))
                \/ CaptureNothing(m) \/ FetchPage(m) \/ BreakOff(m)
      PROVE  Still
  BY <1>3 DEF IndexCode, OpenDrain, CaptureNothing, FetchPage, BreakOff, local, upstream
<1>4. ASSUME NEW m \in Machines, Rewinds(m) \/ PullMemory(m) \/ PassSuperseded(m) \/ BindGeneration(m)
      PROVE  Still
  BY <1>4 DEF Rewinds, PullMemory, PassSuperseded, BindGeneration, local, upstream
<1>5. ASSUME NEW m \in Machines, SendGeneration(m) \/ ResendGeneration(m)
      PROVE  Still
  BY <1>5 DEF SendGeneration, ResendGeneration, local, upstream
<1>6. ASSUME NEW m \in Machines, Capture(m)
      PROVE  UNCHANGED <<chain, answer, active, adopted>>
  BY <1>6 DEF Capture, upstream
<1>7. ASSUME NEW m \in Machines, SweepStaged(m)
      PROVE  UNCHANGED <<chain, answer, plans, owing, active, adopted>>
  BY <1>7 DEF SweepStaged, upstream
<1>8. ASSUME NEW m \in Machines, SettleOwn(m) \/ RecordAnswer(m)
      PROVE  UNCHANGED <<chain, answer, plans, active, stagedGens, adopted>>
  BY <1>8 DEF SettleOwn, RecordAnswer, local, upstream
<1>9. ASSUME NEW m \in Machines, Land(m) \/ ActivateOwn(m)
      PROVE  UNCHANGED <<chain, answer, plans, owing>>
  BY <1>9 DEF Land, ActivateOwn, upstream
<1>10. ASSUME NEW m \in Machines, Accept(m)
       PROVE  UNCHANGED <<plans, owing, active, stagedGens, adopted>>
  BY <1>10 DEF Accept, local
<1>11. ASSUME NEW m \in Machines, (\E c \in Contents : IndexCode(m, c)) \/ SweepStaged(m)
                \/ (\E leg \in {"pull", "push"} : OpenDrain(m, leg)) \/ DrainStep(m)
       PROVE  \/ Still \/ Capture(m) \/ SweepStaged(m) \/ SettleOwn(m) \/ RecordAnswer(m) \/ Land(m)
              \/ ActivateOwn(m) \/ Accept(m)
  <2> HIDE DEF Still
  <2> QED BY <1>3, <1>4, <1>5, <1>11 DEF DrainStep
<1>12. CASE \E m \in Machines : \/ \E c \in Contents : IndexCode(m, c)
                                \/ SweepStaged(m)
                                \/ \E leg \in {"pull", "push"} : OpenDrain(m, leg)
                                \/ DrainStep(m)
  BY <1>6, <1>7, <1>8, <1>9, <1>10, <1>11, <1>12
<1> QED BY <1>1, <1>2, <1>12 DEF CodeNext

(****************************** operations named ****************************)

\* The feed only grows, and so does what was queued.
FeedGrows == Len(chain) <= Len(chain') /\ \A n \in 1 .. Len(chain) : chain'[n] = chain[n]
PlansGrow == Len(plans) <= Len(plans') /\ \A o \in 1 .. Len(plans) : plans'[o] = plans[o]

LEMMA Grows == CodeInv /\ [CodeNext]_codeVars => FeedGrows /\ PlansGrow
<1> SUFFICES ASSUME CodeInv, [CodeNext]_codeVars PROVE FeedGrows /\ PlansGrow
  OBVIOUS
<1>t. CodeTypeOK
  BY DEF CodeInv
<1>1. chain \in Seq(Operation \cup {0}) /\ Len(chain) \in Nat /\ Len(plans) \in Nat
  BY <1>t DEF CodeTypeOK
<1>2. chain' = chain \/ \E e \in Operation \cup {0} : chain' = Append(chain, e)
  <2>1. ASSUME NEW m \in Machines, Accept(m) PROVE owing[m] \in Operation \cup {0}
    BY <1>t DEF CodeTypeOK
  <2> QED
    BY <2>1, WhatMoves DEF Accept, PeerMemory, upstream
<1>3. plans' = plans \/ \E p \in [by : Machines, generation : Generations \ {NoGeneration}] :
                           plans' = Append(plans, p)
  <2>1. ASSUME NEW m \in Machines, Capture(m)
        PROVE  [by |-> m, generation |-> Append(active[m], index[m])]
                  \in [by : Machines, generation : Generations \ {NoGeneration}]
    <3>1. active[m] \in Seq(Contents) /\ index[m] \in Contents
      BY <1>t, <2>1 DEF CodeTypeOK, Capture, NothingNew, Generations
    <3> QED BY <3>1, SeqAppend DEF Generations, NoGeneration
  <2> QED
    BY <2>1, WhatMoves DEF Capture
<1>4. FeedGrows
  <2> DEFINE S == Operation \cup {0}
  <2> HIDE DEF S
  <2>1. chain \in Seq(S) /\ (chain' = chain \/ \E e \in S : chain' = Append(chain, e))
    BY <1>1, <1>2 DEF S
  <2> QED BY <2>1, <1>1, SeqAppend DEF FeedGrows
<1>5. PlansGrow
  <2> DEFINE P == [by : Machines, generation : Generations \ {NoGeneration}]
  <2>1. plans \in Seq(P)
    BY <1>t DEF CodeTypeOK
  <2> HIDE DEF P
  <2>2. plans' = plans \/ \E p \in P : plans' = Append(plans, p)
    BY <1>3 DEF P
  <2> QED BY <2>1, <2>2, <1>1, SeqAppend DEF PlansGrow
<1> QED BY <1>4, <1>5

\* Who owes what changes for one machine at a time.
LEMMA RefsStep == CodeInv /\ [CodeNext]_codeVars => RefsInv'
<1> SUFFICES ASSUME CodeInv, [CodeNext]_codeVars PROVE RefsInv'
  OBVIOUS
<1>t. CodeTypeOK /\ RefsInv
  BY DEF CodeInv
<1>g. FeedGrows /\ PlansGrow
  BY Grows
<1>1. Len(chain) \in Nat /\ Len(plans) \in Nat
  BY <1>t DEF CodeTypeOK
<1>2. Len(plans') \in Nat /\ Len(plans') <= MaxPlans
  <2>1. ASSUME NEW m \in Machines, Capture(m) PROVE Len(plans') = Len(plans) + 1 /\ Len(plans) < MaxPlans
    BY <1>t, <2>1 DEF CodeTypeOK, Capture
  <2>2. UNCHANGED plans \/ \E m \in Machines : Capture(m)
    BY WhatMoves
  <2> QED BY <1>t, <1>1, <2>1, <2>2 DEF RefsInv
<1>3. ASSUME NEW k \in Machines PROVE owing'[k] <= Len(plans')
  <2>1. owing'[k] = owing[k] \/ owing'[k] = 0 \/ owing'[k] = Len(plans')
    BY <1>t, WhatMoves DEF CodeTypeOK, Capture, SettleOwn, RecordAnswer
  <2>2. owing[k] \in Nat /\ owing[k] <= Len(plans)
    BY <1>t DEF RefsInv, CodeTypeOK, Operation
  <2> QED BY <2>1, <2>2, <1>1, <1>2, <1>g DEF PlansGrow
<1>4. ASSUME NEW n \in 1 .. Len(chain') PROVE chain'[n] <= Len(plans')
  <2>1. CASE n \in 1 .. Len(chain)
    <3>1. chain[n] \in Nat /\ chain[n] <= Len(plans) /\ chain'[n] = chain[n]
      BY <1>t, <1>g, <2>1 DEF RefsInv, CodeTypeOK, Operation, FeedGrows
    <3> QED BY <3>1, <1>1, <1>2, <1>g DEF PlansGrow
  <2>2. CASE n \notin 1 .. Len(chain)
    <3>1. chain' # chain
      BY <2>2
    <3>2. PeerMemory \/ \E m \in Machines : Accept(m)
      BY <3>1, WhatMoves
    <3>3. ASSUME PeerMemory PROVE chain'[n] = 0
      <4>1. chain' = Append(chain, 0) /\ 0 \in Operation \cup {0}
        BY <3>3 DEF PeerMemory
      <4> QED BY <4>1, <2>2, <1>t, NewElement DEF CodeTypeOK
    <3>4. ASSUME NEW m \in Machines, Accept(m) PROVE chain'[n] = owing[m] /\ owing[m] \in Nat /\ owing[m] <= Len(plans)
      <4>1. chain' = Append(chain, owing[m])
        BY <3>1, <3>4 DEF Accept, upstream
      <4>2. owing[m] \in Nat /\ owing[m] <= Len(plans)
        BY <1>t DEF RefsInv, CodeTypeOK, Operation
      <4>3. owing[m] \in Operation \cup {0}
        BY <1>t DEF CodeTypeOK
      <4> QED BY <4>1, <4>2, <4>3, <2>2, <1>t, NewElement DEF CodeTypeOK
    <3> QED BY <3>2, <3>3, <3>4, <1>1, <1>2, <1>g DEF PlansGrow
  <2> QED BY <2>1, <2>2
<1> QED BY <1>2, <1>3, <1>4 DEF RefsInv

(******************************* where a pass is ****************************)

\* What one pass does moves no other.
Untouched(k) == drain'[k] = drain[k] /\ reached'[k] = reached[k] /\ owing'[k] = owing[k]

LEMMA Stays ==
  ASSUME CodeInv, FeedGrows, NEW k \in Machines, Untouched(k)
  PROVE  Placed(k)'
<1>1. /\ drain[k] \in Drain /\ reached[k] \in Nat /\ Len(chain) \in Nat /\ Placed(k)
      /\ drain[k].upto \in Nat /\ drain[k].head \in Nat /\ drain[k].at \in Nat /\ Len(chain') \in Nat
  BY DEF CodeInv, CodeTypeOK, PlaceInv, Drain
<1> QED
  BY <1>1 DEF Untouched, FeedGrows, Placed, In, IsCode, Upcoming

LEMMA PlacedAlone ==
  ASSUME CodeInv, FeedGrows, NEW m \in Machines,
         \A k \in Machines \ {m} : Untouched(k), Placed(m)'
  PROVE  PlaceInv'
BY Stays DEF PlaceInv

\* At most steps a pass holds no entry of the feed.
LEMMA AtRest ==
  ASSUME NEW m \in Machines, drain'[m].upto <= Len(chain'), drain'[m].head <= Len(chain'),
         drain'[m].step \in {"idle", "capture", "rewind", "page", "push"}
  PROVE  Placed(m)'
BY DEF Placed, In

\* The shapes in which a pass's record changes, field by field.
LEMMA StepIs ==
  ASSUME drain \in [Machines -> Drain], NEW m \in Machines, NEW s, ToStep(m, s)
  PROVE  /\ drain'[m].step = s /\ drain'[m].leg = drain[m].leg
         /\ drain'[m].upto = drain[m].upto /\ drain'[m].head = drain[m].head /\ drain'[m].at = drain[m].at
         /\ \A k \in Machines \ {m} : drain'[k] = drain[k]
BY DEF ToStep, Drain

LEMMA SettlingIs ==
  ASSUME drain \in [Machines -> Drain], NEW m \in Machines, NEW s, NEW l, NEW n, Settling(m, s, l, n)
  PROVE  /\ drain'[m].step = s /\ drain'[m].leg = l
         /\ drain'[m].upto = drain[m].upto /\ drain'[m].head = drain[m].head /\ drain'[m].at = n
         /\ \A k \in Machines \ {m} : drain'[k] = drain[k]
BY DEF Settling, Drain

\* Past an entry, a pass reads on within its page or pushes.
LEMMA PastItPlaced ==
  ASSUME CodeInv, CodeTypeOK', FeedGrows, NEW m \in Machines, PastIt(m)
  PROVE  Placed(m)' /\ \A k \in Machines \ {m} : drain'[k] = drain[k] /\ reached'[k] = reached[k]
<1>t. CodeTypeOK /\ Placed(m)
  BY DEF CodeInv, PlaceInv
<1>1. /\ Len(chain) \in Nat /\ Len(chain') \in Nat /\ Len(chain) <= Len(chain')
      /\ reached[m] \in Nat /\ drain[m].upto \in Nat /\ drain[m].upto <= Len(chain)
      /\ drain[m].head \in Nat /\ drain[m].head <= Len(chain)
  <2>1. Len(chain) \in Nat /\ Len(chain') \in Nat /\ reached[m] \in Nat /\ drain[m] \in Drain
    BY <1>t DEF CodeTypeOK
  <2> QED BY <1>t, <2>1 DEF FeedGrows, Placed, Drain
<1>2. reached' = [reached EXCEPT ![m] = Upcoming(m)]
  BY DEF PastIt
<1>3. reached'[m] = Upcoming(m) /\ \A k \in Machines \ {m} : reached'[k] = reached[k]
  BY <1>t, <1>2 DEF CodeTypeOK
<1>4. \A k \in Machines \ {m} : drain'[k] = drain[k]
  BY <1>t, StepIs DEF PastIt, CodeTypeOK
<1>5. CASE Upcoming(m) < drain[m].upto
  <2>1. drain'[m].step = "pull" /\ drain'[m].upto = drain[m].upto /\ drain'[m].head = drain[m].head
    BY <1>t, <1>5, StepIs DEF PastIt, CodeTypeOK
  <2> QED BY <1>1, <1>3, <1>4, <1>5, <2>1 DEF Placed, In
<1>6. CASE ~(Upcoming(m) < drain[m].upto)
  <2>1. drain'[m].step = "push" /\ drain'[m].upto = drain[m].upto /\ drain'[m].head = drain[m].head
    BY <1>t, <1>6, StepIs DEF PastIt, CodeTypeOK
  <2> QED BY <1>1, <1>3, <1>4, <2>1, AtRest
<1> QED BY <1>5, <1>6

LEMMA PlaceStep == CodeInv /\ CodeTypeOK' /\ [CodeNext]_codeVars => PlaceInv'
<1> SUFFICES ASSUME CodeInv, CodeTypeOK', [CodeNext]_codeVars PROVE PlaceInv'
  OBVIOUS
<1> USE DEF local, upstream, progress, used
<1>t. CodeTypeOK /\ PlaceInv
  BY DEF CodeInv
<1>g. FeedGrows
  BY Grows
<1>d. drain \in [Machines -> Drain] /\ Len(chain) \in Nat /\ Len(chain') \in Nat /\ Len(chain) <= Len(chain')
  BY <1>t, <1>g DEF CodeTypeOK, FeedGrows
<1>p. \A k \in Machines : Placed(k) /\ drain[k] \in Drain /\ drain[k].upto \in Nat /\ drain[k].upto <= Len(chain')
                        /\ drain[k].head \in Nat /\ drain[k].head <= Len(chain')
  BY <1>t, <1>d DEF PlaceInv, Placed, Drain
<1>0. CASE UNCHANGED codeVars
  BY <1>g, <1>0, Stays DEF codeVars, Untouched, PlaceInv
<1>1. ASSUME NEW m \in Machines, NEW c \in Contents, IndexCode(m, c) PROVE PlaceInv'
  BY <1>g, <1>1, Stays DEF IndexCode, Untouched, PlaceInv
<1>2. ASSUME NEW m \in Machines, SweepStaged(m) PROVE PlaceInv'
  BY <1>g, <1>2, Stays DEF SweepStaged, Untouched, PlaceInv
<1>3. ASSUME NEW m \in Machines, NEW leg \in {"pull", "push"}, OpenDrain(m, leg) PROVE PlaceInv'
  <2>1. \A k \in Machines \ {m} : Untouched(k)
    BY <1>t, <1>3 DEF OpenDrain, Untouched, CodeTypeOK
  <2>2. Placed(m)'
    BY <1>d, <1>3, AtRest DEF OpenDrain, NoDrain
  <2> QED BY <1>g, <2>1, <2>2, PlacedAlone
<1>4. ASSUME NEW m \in Machines, Capture(m) PROVE PlaceInv'
  <2>1. \A k \in Machines \ {m} : Untouched(k)
    BY <1>t, <1>d, <1>4, StepIs DEF Capture, Untouched, CodeTypeOK
  <2>2. Placed(m)'
    BY <1>d, <1>p, <1>4, StepIs, AtRest DEF Capture
  <2> QED BY <1>g, <2>1, <2>2, PlacedAlone
<1>5. ASSUME NEW m \in Machines, CaptureNothing(m) PROVE PlaceInv'
  <2>1. \A k \in Machines \ {m} : Untouched(k)
    BY <1>t, <1>d, <1>5, StepIs DEF CaptureNothing, Untouched, CodeTypeOK
  <2>2. Placed(m)'
    BY <1>d, <1>p, <1>5, StepIs, AtRest DEF CaptureNothing
  <2> QED BY <1>g, <2>1, <2>2, PlacedAlone
<1>6. ASSUME NEW m \in Machines, Rewinds(m) PROVE PlaceInv'
  <2>1. \A k \in Machines \ {m} : Untouched(k)
    BY <1>t, <1>d, <1>6, StepIs DEF Rewinds, Untouched, CodeTypeOK
  <2>2. Placed(m)'
    BY <1>d, <1>p, <1>6, StepIs, AtRest DEF Rewinds
  <2> QED BY <1>g, <2>1, <2>2, PlacedAlone
<1>7. ASSUME NEW m \in Machines, FetchPage(m) PROVE PlaceInv'
  <2>1. \A k \in Machines \ {m} : Untouched(k)
    BY <1>t, <1>7 DEF FetchPage, Untouched, CodeTypeOK
  <2>2. Placed(m)'
    <3>1. CASE reached[m] < drain[m].head
      <4>1. drain'[m].step = "pull" /\ drain'[m].upto = Len(chain) /\ drain'[m].head = drain[m].head
        BY <1>d, <1>p, <1>7, <3>1 DEF FetchPage, Drain
      <4>2. /\ reached' = reached /\ chain' = chain /\ reached[m] < Len(chain)
            /\ drain[m].head <= Len(chain)
        BY <1>t, <1>p, <1>7, <3>1 DEF FetchPage, Placed, CodeTypeOK
      <4> QED BY <1>d, <4>1, <4>2 DEF Placed, In
    <3>2. CASE ~(reached[m] < drain[m].head)
      <4>1. drain'[m].step = "push" /\ drain'[m].upto = drain[m].upto /\ drain'[m].head = drain[m].head
        BY <1>d, <1>p, <1>7, <3>2 DEF FetchPage, Drain
      <4> QED BY <1>d, <1>p, <4>1, AtRest
    <3> QED BY <3>1, <3>2
  <2> QED BY <1>g, <2>1, <2>2, PlacedAlone
<1>8. ASSUME NEW m \in Machines, PullMemory(m) PROVE PlaceInv'
  <2>0. PastIt(m) /\ owing' = owing
    BY <1>8 DEF PullMemory
  <2>1. \A k \in Machines \ {m} : Untouched(k)
    BY <1>g, <2>0, PastItPlaced DEF Untouched
  <2>2. Placed(m)'
    BY <1>g, <2>0, PastItPlaced
  <2> QED BY <1>g, <2>1, <2>2, PlacedAlone
<1>10. ASSUME NEW m \in Machines, PassSuperseded(m) PROVE PlaceInv'
  <2>0. PastIt(m) /\ owing' = owing
    BY <1>10 DEF PassSuperseded
  <2>1. \A k \in Machines \ {m} : Untouched(k)
    BY <1>g, <2>0, PastItPlaced DEF Untouched
  <2>2. Placed(m)'
    BY <1>g, <2>0, PastItPlaced
  <2> QED BY <1>g, <2>1, <2>2, PlacedAlone
<1>9. ASSUME NEW m \in Machines, SettleOwn(m) PROVE PlaceInv'
  <2>1. \A k \in Machines \ {m} : Untouched(k)
    BY <1>t, <1>d, <1>9, SettlingIs DEF SettleOwn, Untouched, CodeTypeOK
  <2>2. Placed(m)'
    <3>1. /\ Upcoming(m) \in 1 .. Len(chain) /\ IsCode(Upcoming(m))
          /\ chain' = chain /\ reached' = reached
      BY <1>9, EntryExists DEF SettleOwn, IsOwn
    <3>2. /\ drain'[m].step \in {"activate", "bind"} /\ drain'[m].at = Upcoming(m)
          /\ drain'[m].upto = drain[m].upto /\ drain'[m].head = drain[m].head
      BY <1>d, <1>9, SettlingIs DEF SettleOwn, OwnIsActivated
    <3> QED BY <1>d, <1>p, <3>1, <3>2 DEF Placed, In, Upcoming, IsCode
  <2> QED BY <1>g, <2>1, <2>2, PlacedAlone
<1>11. ASSUME NEW m \in Machines, Land(m) PROVE PlaceInv'
  <2>1. \A k \in Machines \ {m} : Untouched(k)
    BY <1>t, <1>d, <1>11, SettlingIs DEF Land, Untouched, CodeTypeOK
  <2>2. Placed(m)'
    <3>1. /\ Upcoming(m) \in 1 .. Len(chain) /\ IsCode(Upcoming(m))
          /\ chain' = chain /\ reached' = reached
      BY <1>11, EntryExists DEF Land, PullForeign
    <3>2. /\ drain'[m].step \in {"activate", "bind"} /\ drain'[m].at = Upcoming(m)
          /\ drain'[m].upto = drain[m].upto /\ drain'[m].head = drain[m].head
      BY <1>d, <1>11, SettlingIs DEF Land, OwnIsActivated
    <3> QED BY <1>d, <1>p, <3>1, <3>2 DEF Placed, In, Upcoming, IsCode
  <2> QED BY <1>g, <2>1, <2>2, PlacedAlone
<1>12. ASSUME NEW m \in Machines, ActivateOwn(m) PROVE PlaceInv'
  <2>1. \A k \in Machines \ {m} : Untouched(k)
    BY <1>t, <1>d, <1>12, StepIs DEF ActivateOwn, Untouched, CodeTypeOK
  <2>2. Placed(m)'
    <3>1. /\ drain[m].at \in 1 .. Len(chain) /\ IsCode(drain[m].at)
          /\ drain[m].leg = "pull" => drain[m].at = Upcoming(m)
      BY <1>p, <1>12 DEF ActivateOwn, Placed
    <3>2. /\ drain'[m].step = "bind" /\ drain'[m].at = drain[m].at /\ drain'[m].leg = drain[m].leg
          /\ drain'[m].upto = drain[m].upto /\ drain'[m].head = drain[m].head /\ chain' = chain /\ reached' = reached
      BY <1>d, <1>12, StepIs DEF ActivateOwn
    <3> QED BY <1>d, <1>p, <3>1, <3>2 DEF Placed, In, Upcoming, IsCode
  <2> QED BY <1>g, <2>1, <2>2, PlacedAlone
<1>13. ASSUME NEW m \in Machines, BindGeneration(m) PROVE PlaceInv'
  <2>0. owing' = owing
    BY <1>13 DEF BindGeneration
  <2>1. CASE PastIt(m)
    BY <1>g, <2>0, <2>1, PastItPlaced, PlacedAlone DEF Untouched
  <2>2. CASE ToStep(m, "page") /\ UNCHANGED reached
    <3>1. \A k \in Machines \ {m} : Untouched(k)
      BY <1>d, <2>0, <2>2, StepIs DEF Untouched
    <3>2. Placed(m)'
      BY <1>d, <1>p, <2>2, StepIs, AtRest
    <3> QED BY <1>g, <3>1, <3>2, PlacedAlone
  <2> QED BY <1>13, <2>1, <2>2 DEF BindGeneration
<1>14. ASSUME NEW m \in Machines, SendGeneration(m) PROVE PlaceInv'
  <2>1. \A k \in Machines \ {m} : Untouched(k)
    BY <1>t, <1>d, <1>14, StepIs DEF SendGeneration, Untouched, CodeTypeOK
  <2>2. Placed(m)'
    <3>1. CASE owing[m] # 0
      <4>1. drain'[m].step = "sent" /\ drain'[m].upto = drain[m].upto /\ drain'[m].head = drain[m].head /\ owing' = owing
        BY <1>d, <1>14, <3>1, StepIs DEF SendGeneration
      <4> QED BY <1>p, <3>1, <4>1 DEF Placed, In
    <3>2. CASE owing[m] = 0
      BY <1>d, <1>14, <3>2, AtRest DEF SendGeneration, NoDrain
    <3> QED BY <3>1, <3>2
  <2> QED BY <1>g, <2>1, <2>2, PlacedAlone
<1>15. ASSUME NEW m \in Machines, Accept(m) PROVE PlaceInv'
  <2>1. \A k \in Machines \ {m} : Untouched(k)
    BY <1>t, <1>d, <1>15, StepIs DEF Accept, Untouched, CodeTypeOK
  <2>2. Placed(m)'
    <3>1. /\ drain'[m].step = "answered" /\ drain'[m].upto = drain[m].upto /\ drain'[m].head = drain[m].head
          /\ owing' = owing /\ owing[m] # 0
      BY <1>d, <1>p, <1>15, StepIs DEF Accept, Placed
    <3> QED BY <1>p, <3>1 DEF Placed, In
  <2> QED BY <1>g, <2>1, <2>2, PlacedAlone
<1>16. ASSUME NEW m \in Machines, ResendGeneration(m) PROVE PlaceInv'
  <2>1. \A k \in Machines \ {m} : Untouched(k)
    BY <1>t, <1>d, <1>16, StepIs DEF ResendGeneration, Untouched, CodeTypeOK
  <2>2. Placed(m)'
    <3>1. /\ drain'[m].step = "sent" /\ drain'[m].upto = drain[m].upto /\ drain'[m].head = drain[m].head
          /\ owing' = owing /\ owing[m] # 0
      BY <1>d, <1>p, <1>16, StepIs DEF ResendGeneration, Placed
    <3> QED BY <1>p, <3>1 DEF Placed, In
  <2> QED BY <1>g, <2>1, <2>2, PlacedAlone
<1>17. ASSUME NEW m \in Machines, RecordAnswer(m) PROVE PlaceInv'
  <2>1. \A k \in Machines \ {m} : Untouched(k)
    BY <1>t, <1>d, <1>17, StepIs, SettlingIs DEF RecordAnswer, Untouched, CodeTypeOK
  <2>2. Placed(m)'
    <3>1. CASE ToStep(m, "page")
      BY <1>d, <1>p, <3>1, StepIs, AtRest
    <3>2. ASSUME NEW n \in 1 .. Len(chain), chain[n] = owing[m], Settling(m, "activate", "push", n)
          PROVE  Placed(m)'
      <4>1. owing[m] # 0
        BY <1>p, <1>17 DEF RecordAnswer, Placed
      <4>2. /\ drain'[m].step = "activate" /\ drain'[m].leg = "push" /\ drain'[m].at = n
            /\ drain'[m].upto = drain[m].upto /\ drain'[m].head = drain[m].head /\ chain' = chain
        BY <1>d, <1>17, <3>2, SettlingIs DEF RecordAnswer
      <4> QED BY <1>p, <3>2, <4>1, <4>2 DEF Placed, In, IsCode
    <3> QED BY <1>17, <3>1, <3>2 DEF RecordAnswer
  <2> QED BY <1>g, <2>1, <2>2, PlacedAlone
<1>18. ASSUME NEW m \in Machines, BreakOff(m) PROVE PlaceInv'
  <2>1. \A k \in Machines \ {m} : Untouched(k)
    BY <1>t, <1>18 DEF BreakOff, Untouched, CodeTypeOK
  <2>2. Placed(m)'
    BY <1>d, <1>18, AtRest DEF BreakOff, NoDrain
  <2> QED BY <1>g, <2>1, <2>2, PlacedAlone
<1>19. ASSUME PeerMemory PROVE PlaceInv'
  BY <1>g, <1>19, Stays DEF PeerMemory, Untouched, PlaceInv
<1> QED
  BY <1>0, <1>1, <1>2, <1>3, <1>4, <1>5, <1>6, <1>7, <1>8, <1>9, <1>10, <1>11, <1>12, <1>13,
     <1>14, <1>15, <1>16, <1>17, <1>18, <1>19 DEF CodeNext, DrainStep

(**************************** what is owed, and active **********************)

\* What a machine has recorded goes only while nothing is owed.
LEMMA RecordedStays ==
  ASSUME CodeInv, [CodeNext]_codeVars, NEW k \in Machines
  PROVE  Recorded(k) \subseteq Recorded(k)' \/ (owing[k] = 0 /\ owing' = owing)
<1>t. CodeTypeOK
  BY DEF CodeInv
<1>1. ASSUME NEW m \in Machines, NEW g, Activate(m, g) PROVE Recorded(k) \subseteq Recorded(k)'
  <2>1. /\ stagedGens' = [stagedGens EXCEPT ![m] = @ \ {g}]
        /\ adopted' = [adopted EXCEPT ![m] = @ \cup {g}]
        /\ stagedGens \in [Machines -> SUBSET Generations] /\ adopted \in [Machines -> SUBSET Generations]
    BY <1>t, <1>1 DEF Activate, CodeTypeOK
  <2> QED BY <2>1 DEF Recorded
<1>2. ASSUME NEW m \in Machines, Capture(m) PROVE Recorded(k) \subseteq Recorded(k)'
  <2>1. adopted' = adopted /\ stagedGens \in [Machines -> SUBSET Generations]
        /\ \E g : stagedGens' = [stagedGens EXCEPT ![m] = @ \cup ({g} \ adopted[m])]
    BY <1>t, <1>2 DEF Capture, Stage, CodeTypeOK
  <2> QED BY <2>1 DEF Recorded
<1>3. ASSUME NEW m \in Machines, SweepStaged(m)
      PROVE  Recorded(k) \subseteq Recorded(k)' \/ (owing[k] = 0 /\ owing' = owing)
  <2>1. /\ owing[m] = 0 /\ owing' = owing /\ adopted' = adopted
        /\ \E old \in SUBSET stagedGens[m] : stagedGens' = [stagedGens EXCEPT ![m] = @ \ old]
    BY <1>3 DEF SweepStaged, NotInFlight
  <2>2. CASE k # m
    BY <1>t, <2>1, <2>2 DEF Recorded, CodeTypeOK
  <2> QED BY <2>1, <2>2
<1>4. \/ UNCHANGED <<stagedGens, adopted>> \/ (\E m \in Machines : Capture(m) \/ SweepStaged(m))
      \/ (\E m \in Machines : \E g : Activate(m, g))
  <2>1. ASSUME NEW m \in Machines, Land(m) \/ ActivateOwn(m)
        PROVE  UNCHANGED <<stagedGens, adopted>> \/ \E g : Activate(m, g)
    BY <2>1 DEF Land, ActivateOwn, local
  <2> QED BY <2>1, WhatMoves
<1> QED BY <1>1, <1>2, <1>3, <1>4 DEF Recorded

LEMMA OwedStep ==
  CodeInv /\ OwedIsRecorded /\ [CodeNext]_codeVars => OwedIsRecorded'
<1> SUFFICES ASSUME CodeInv, OwedIsRecorded, [CodeNext]_codeVars,
                    NEW k \in Machines, owing'[k] # 0
             PROVE  plans'[owing'[k]].generation \in Recorded(k)'
  BY DEF OwedIsRecorded
<1>t. CodeTypeOK /\ RefsInv
  BY DEF CodeInv
<1>g. PlansGrow
  BY Grows
<1>1. CASE owing'[k] = owing[k]
  <2>1. owing[k] \in 1 .. Len(plans) /\ plans[owing[k]].generation \in Recorded(k)
    BY <1>t, <1>1 DEF CodeTypeOK, RefsInv, Operation, OwedIsRecorded
  <2>2. plans'[owing'[k]].generation \in Recorded(k)
    BY <1>g, <1>1, <2>1 DEF PlansGrow
  <2> QED BY <1>1, <2>2, RecordedStays
<1>2. CASE owing'[k] # owing[k]
  <2>1. Capture(k)
    <3>1. \A m \in Machines : SettleOwn(m) \/ RecordAnswer(m) => owing'[k] \in {owing[k], 0}
      BY <1>t DEF CodeTypeOK, SettleOwn, RecordAnswer
    <3>2. \A m \in Machines : Capture(m) /\ m # k => owing'[k] = owing[k]
      BY <1>t DEF CodeTypeOK, Capture
    <3> QED BY <1>2, <3>1, <3>2, WhatMoves
  <2> DEFINE g == Append(active[k], index[k])
             P == [by : Machines, generation : Generations \ {NoGeneration}]
  <2>2. plans \in Seq(P) /\ [by |-> k, generation |-> g] \in P
    <3>1. active[k] \in Seq(Contents) /\ index[k] \in Contents
      BY <1>t, <2>1 DEF CodeTypeOK, Capture, NothingNew, Generations
    <3>2. g \in Seq(Contents) /\ g # <<>>
      BY <3>1, SeqAppend
    <3>3. [by |-> k, generation |-> g] \in P
      <4> HIDE DEF g
      <4> QED BY <3>2 DEF Generations, NoGeneration
    <3> QED BY <1>t, <3>3 DEF CodeTypeOK
  <2>3. plans' = Append(plans, [by |-> k, generation |-> g]) /\ owing'[k] = Len(plans')
    BY <1>t, <2>1 DEF Capture, CodeTypeOK
  <2>4. plans'[owing'[k]] = [by |-> k, generation |-> g]
    <3> DEFINE p == [by |-> k, generation |-> g]
    <3> HIDE DEF P, p
    <3>1. plans' = Append(plans, p) /\ p \in P /\ plans \in Seq(P)
      BY <2>2, <2>3 DEF p
    <3>2. Len(Append(plans, p)) = Len(plans) + 1 /\ Append(plans, p)[Len(plans) + 1] = p
      BY <3>1, SeqAppend
    <3>3. plans'[owing'[k]] = p
      BY <2>3, <3>1, <3>2
    <3> QED BY <3>3 DEF p
  <2>5. g \in Recorded(k)'
    <3>1. stagedGens' = [stagedGens EXCEPT ![k] = @ \cup ({g} \ adopted[k])] /\ adopted' = adopted
      BY <2>1 DEF Capture, Stage
    <3> HIDE DEF g
    <3> QED BY <1>t, <3>1 DEF Recorded, CodeTypeOK
  <2> QED BY <2>4, <2>5
<1> QED BY <1>1, <1>2

\* In the feed: an entry, and later the same entry.
InFeed(g) == \E n \in 1 .. Len(chain) : IsCode(n) /\ GenerationAt(n) = g

LEMMA InFeedStays ==
  ASSUME CodeInv, [CodeNext]_codeVars, NEW g, InFeed(g)
  PROVE  InFeed(g)'
<1>1. PICK n \in 1 .. Len(chain) : IsCode(n) /\ GenerationAt(n) = g
  BY DEF InFeed
<1>2. FeedGrows /\ PlansGrow
  BY Grows
<1>3. chain[n] \in 1 .. Len(plans)
  BY <1>1, GenerationExists
<1>4. Len(chain) \in Nat /\ Len(chain') \in Nat
  BY DEF CodeInv, CodeTypeOK
<1>5. n \in 1 .. Len(chain') /\ chain'[n] = chain[n] /\ plans'[chain[n]] = plans[chain[n]]
  BY <1>2, <1>3, <1>4 DEF FeedGrows, PlansGrow
<1> QED BY <1>1, <1>5 DEF InFeed, IsCode, GenerationAt

\* Only what is in the feed is activated.
LEMMA ActiveStep ==
  CodeInv /\ AdoptedInv /\ ActiveInv /\ [CodeNext]_codeVars => AdoptedInv' /\ ActiveInv'
<1> SUFFICES ASSUME CodeInv, AdoptedInv, ActiveInv, [CodeNext]_codeVars PROVE AdoptedInv' /\ ActiveInv'
  OBVIOUS
<1>t. CodeTypeOK /\ PlaceInv
  BY DEF CodeInv
<1>1. \A k \in Machines : \A g \in adopted[k] : InFeed(g)'
  BY InFeedStays DEF AdoptedInv, InFeed
<1>2. ASSUME NEW m \in Machines, NEW g, InFeed(g), Activate(m, g) PROVE AdoptedInv' /\ ActiveInv'
  <2>1. /\ active' = [active EXCEPT ![m] = g] /\ adopted' = [adopted EXCEPT ![m] = @ \cup {g}]
        /\ active \in [Machines -> Generations] /\ adopted \in [Machines -> SUBSET Generations]
    BY <1>t, <1>2 DEF Activate, CodeTypeOK
  <2>2. ActiveInv'
    BY <2>1 DEF ActiveInv
  <2>3. InFeed(g)'
    BY <1>2, InFeedStays
  <2>4. AdoptedInv'
    BY <1>1, <2>1, <2>3 DEF AdoptedInv, InFeed
  <2> QED BY <2>2, <2>4
<1>3. ASSUME active' = active, adopted' = adopted PROVE AdoptedInv' /\ ActiveInv'
  BY <1>1, <1>3 DEF AdoptedInv, ActiveInv, InFeed
<1>4. ASSUME NEW m \in Machines, Land(m) PROVE AdoptedInv' /\ ActiveInv'
  <2>1. UNCHANGED local \/ Activate(m, GenerationAt(Upcoming(m)))
    BY <1>4 DEF Land
  <2>2. InFeed(GenerationAt(Upcoming(m)))
    BY <1>4, EntryExists DEF Land, PullForeign, InFeed
  <2> QED BY <1>2, <1>3, <2>1, <2>2 DEF local
<1>5. ASSUME NEW m \in Machines, ActivateOwn(m) PROVE AdoptedInv' /\ ActiveInv'
  <2>1. UNCHANGED local \/ Activate(m, GenerationAt(drain[m].at))
    BY <1>5 DEF ActivateOwn
  <2>2. InFeed(GenerationAt(drain[m].at))
    BY <1>t, <1>5 DEF ActivateOwn, PlaceInv, Placed, InFeed
  <2> QED BY <1>2, <1>3, <2>1, <2>2 DEF local
<1>6. UNCHANGED <<active, adopted>> \/ \E m \in Machines : Land(m) \/ ActivateOwn(m)
  BY WhatMoves
<1> QED BY <1>3, <1>4, <1>5, <1>6

(************************** following the upstream *************************)

Foreign(m, n) == IsCode(n) /\ ~IsOwn(m, n)

\* Generation g is what the feed says at n or after it.
Current(g, n) == \E a \in n .. Len(chain) : IsCode(a) /\ GenerationAt(a) = g

\* An operation is in the feed once, and has its receipt.
FeedInv ==
    /\ \A n \in 1 .. Len(chain) : IsCode(n) => answer[chain[n]] = "accepted"
    /\ \A n, k \in 1 .. Len(chain) : IsCode(n) /\ chain[n] = chain[k] => n = k

\* A machine with this cursor, binding, receipts and debt is within the feed; what
\* it owes lies ahead, and what lies behind was superseded or applied.
Reads(m, cur, kn, ld, ow) ==
    /\ cur <= Len(chain) /\ kn <= Len(chain)
    /\ \A o \in ld : \E n \in 1 .. Len(chain) : chain[n] = o
    /\ \A n \in 1 .. Len(chain) : ow # 0 /\ chain[n] = ow => n > cur
    /\ \A n \in 1 .. Len(chain) : n <= cur /\ Foreign(m, n) => n <= kn \/ chain[n] \in ld

\* A pass in state d activates what is the machine's own, which it no longer owes
\* if it read it, and which it has not read if it was answered.
Settles(m, d, cur, kn, ld, ow) ==
    /\ d.step = "activate" => IsOwn(m, d.at)
    /\ d.step \in {"activate", "bind"} =>
         /\ IsOwn(m, d.at) /\ d.leg = "pull" => ow # chain[d.at]
         /\ d.leg = "push" => IsOwn(m, d.at) /\ d.at > cur
    /\ d.step = "bind" /\ ~IsOwn(m, d.at) => kn < d.at /\ chain[d.at] \in ld

\* The feed was read up to r before a rewind.  What was read is not newer than g,
\* which is active; reading it again changes nothing; and what is read for the
\* first time will be activated, or is not newer either, or an operation of its own
\* comes first.
Follows(m, r, cur, kn, ld, g, rec) ==
    /\ \A n \in 1 .. r : IsCode(n) => Current(g, n)
    /\ \A n \in cur + 1 .. r : IsCode(n) => ~IsOwn(m, n) /\ (n <= kn \/ chain[n] \in ld)
    /\ \A n \in r + 1 .. Len(chain) : IsCode(n) /\ IsOwn(m, n) => GenerationAt(n) \in rec
    /\ \A n \in r + 1 .. Len(chain) : IsCode(n) /\ ~IsOwn(m, n) =>
         /\ chain[n] \notin ld
         /\ n <= kn => Current(g, n) \/ \E w \in r + 1 .. n - 1 : IsOwn(m, w)

\* Where machine m stands.
Stands(m) ==
    /\ Reads(m, reached[m], known[m], landed[m], owing[m])
    /\ owing[m] # 0 => plans[owing[m]].by = m
    /\ Settles(m, drain[m], reached[m], known[m], landed[m], owing[m])

\* One that is not set back keeps up.
KeepsUp(m) ==
    m \notin setBack =>
        /\ In(m, "bind") /\ IsOwn(m, drain[m].at) => active[m] = GenerationAt(drain[m].at)
        /\ \E r \in reached[m] .. Len(chain) :
             Follows(m, r, reached[m], known[m], landed[m], active[m], Recorded(m))

FollowInv ==
    /\ CodeInv /\ OwedIsRecorded /\ FeedInv
    /\ \A m \in Machines : Stands(m) /\ KeepsUp(m)

LEMMA Entry ==
  ASSUME CodeInv, NEW n \in 1 .. Len(chain)
  PROVE  /\ chain[n] \in Operation \cup {0}
         /\ IsCode(n) => chain[n] \in Operation /\ chain[n] \in 1 .. Len(plans)
BY GenerationExists, SeqElement DEF CodeInv, CodeTypeOK

\* Entries of the feed stay what they are.
LEMMA EntryStays ==
  ASSUME CodeInv, [CodeNext]_codeVars, NEW n \in 1 .. Len(chain)
  PROVE  /\ n \in 1 .. Len(chain') /\ chain'[n] = chain[n] /\ (IsCode(n)' <=> IsCode(n))
         /\ IsCode(n) => GenerationAt(n)' = GenerationAt(n)
         /\ \A m \in Machines : (IsOwn(m, n)' <=> IsOwn(m, n)) /\ (Foreign(m, n)' <=> Foreign(m, n))
<1>1. FeedGrows /\ PlansGrow /\ Len(chain) \in Nat /\ Len(chain') \in Nat
  BY Grows, TypeStep DEF CodeInv, CodeTypeOK
<1>2. n \in 1 .. Len(chain') /\ chain'[n] = chain[n]
  BY <1>1 DEF FeedGrows
<1>3. IsCode(n) => plans'[chain[n]] = plans[chain[n]]
  BY <1>1, Entry DEF PlansGrow
<1> QED BY <1>2, <1>3 DEF IsCode, GenerationAt, IsOwn, Foreign

LEMMA CurrentStays ==
  ASSUME CodeInv, [CodeNext]_codeVars, NEW g, NEW n \in Nat \ {0}, Current(g, n)
  PROVE  Current(g, n)'
<1>1. PICK a \in n .. Len(chain) : IsCode(a) /\ GenerationAt(a) = g
  BY DEF Current
<1>2. Len(chain) \in Nat /\ a \in 1 .. Len(chain)
  BY <1>1 DEF CodeInv, CodeTypeOK
<1>3. a \in 1 .. Len(chain') /\ IsCode(a)' /\ GenerationAt(a)' = GenerationAt(a)
  BY <1>1, <1>2, EntryStays
<1>4. Len(chain') \in Nat
  BY TypeStep DEF CodeTypeOK
<1> QED BY <1>1, <1>2, <1>3, <1>4 DEF Current

\* What reaches the feed: a memory, or an operation that had no receipt, its
\* machine's own, recorded there and ahead of its cursor.
LEMMA Extended ==
  ASSUME CodeInv, OwedIsRecorded, FeedInv, \A m \in Machines : Stands(m), [CodeNext]_codeVars
  PROVE  /\ \A o \in Operation : answer[o] = "accepted" => answer'[o] = "accepted"
         /\ \A n \in Len(chain) + 1 .. Len(chain') :
              /\ n = Len(chain) + 1
              /\ IsCode(n)' => \E m \in Machines :
                   /\ chain'[n] = owing[m] /\ owing[m] \in Operation /\ owing[m] <= Len(plans)
                   /\ answer[owing[m]] = "none" /\ answer'[owing[m]] = "accepted"
                   /\ UNCHANGED <<plans, owing, local, progress>> /\ plans[owing[m]].by = m
                   /\ plans[owing[m]].generation \in Recorded(m)
<1>t. /\ CodeTypeOK /\ chain \in Seq(Operation \cup {0}) /\ Len(chain) \in Nat
      /\ answer \in [Operation -> {"none", "accepted", "rejected_stale"}]
  BY DEF CodeInv, CodeTypeOK
<1>1. CASE PeerMemory
  <2>1. chain' = Append(chain, 0) /\ answer' = answer
    BY <1>1 DEF PeerMemory
  <2>2. Len(chain') = Len(chain) + 1 /\ chain'[Len(chain) + 1] = 0
    BY <1>t, <2>1, SeqAppend
  <2> QED BY <1>t, <2>1, <2>2 DEF IsCode
<1>2. ASSUME NEW m \in Machines, Accept(m), chain' # chain
      PROVE  /\ \A o \in Operation : answer[o] = "accepted" => answer'[o] = "accepted"
             /\ Len(chain') = Len(chain) + 1 /\ chain'[Len(chain) + 1] = owing[m]
             /\ owing[m] \in Operation /\ owing[m] <= Len(plans)
             /\ answer[owing[m]] = "none" /\ answer'[owing[m]] = "accepted"
             /\ UNCHANGED <<plans, owing, local, progress>> /\ plans[owing[m]].by = m
             /\ plans[owing[m]].generation \in Recorded(m)
  <2>1. owing[m] # 0 /\ owing[m] \in Operation /\ owing[m] <= Len(plans)
    BY <1>t, <1>2 DEF Accept, CodeInv, PlaceInv, Placed, CodeTypeOK, RefsInv
  <2>2. /\ answer[owing[m]] = "none" /\ answer' = [answer EXCEPT ![owing[m]] = "accepted"]
        /\ chain' = Append(chain, owing[m]) /\ UNCHANGED <<plans, owing, local, progress>>
    BY <1>2 DEF Accept, upstream
  <2>3. Len(chain') = Len(chain) + 1 /\ chain'[Len(chain) + 1] = owing[m]
    BY <1>t, <2>1, <2>2, SeqAppend
  <2>4. plans[owing[m]].by = m /\ plans[owing[m]].generation \in Recorded(m)
    BY <2>1 DEF Stands, OwedIsRecorded
  <2> QED BY <1>t, <2>1, <2>2, <2>3, <2>4
<1>3. ASSUME NEW m \in Machines, Accept(m), chain' = chain
      PROVE  \A o \in Operation : answer[o] = "accepted" => answer'[o] = "accepted"
  <2>1. answer' = answer \/ (answer[owing[m]] = "none" /\
           (answer' = [answer EXCEPT ![owing[m]] = "accepted"]
            \/ answer' = [answer EXCEPT ![owing[m]] = "rejected_stale"]))
    BY <1>3 DEF Accept, upstream
  <2> QED BY <1>t, <2>1
<1>4. UNCHANGED <<chain, answer>> \/ PeerMemory \/ \E m \in Machines : Accept(m)
  BY WhatMoves
<1>5. CASE UNCHANGED <<chain, answer>>
  BY <1>t, <1>5
<1>6. CASE \E m \in Machines : Accept(m)
  <2>1. PICK m \in Machines : Accept(m)
    BY <1>6
  <2>2. CASE chain' = chain
    BY <1>t, <1>3, <2>1, <2>2
  <2>3. CASE chain' # chain
    BY <1>t, <1>2, <2>1, <2>3
  <2> QED BY <2>2, <2>3
<1> QED BY <1>1, <1>4, <1>5, <1>6

\* What is not in the feed before the step is what the step adds.
LEMMA Lengths ==
  ASSUME CodeInv, [CodeNext]_codeVars
  PROVE  /\ Len(chain) \in Nat /\ Len(chain') \in Nat /\ Len(chain) <= Len(chain')
         /\ \A n \in 1 .. Len(chain') : n \notin 1 .. Len(chain) => n \in Len(chain) + 1 .. Len(chain')
         /\ CodeTypeOK'
<1>1. Len(chain) \in Nat /\ CodeTypeOK'
  BY TypeStep DEF CodeInv, CodeTypeOK
<1>2. Len(chain') \in Nat
  BY <1>1 DEF CodeTypeOK
<1>3. Len(chain) <= Len(chain')
  BY Grows DEF FeedGrows
<1> QED BY <1>1, <1>2, <1>3

LEMMA FeedStep ==
  ASSUME CodeInv, OwedIsRecorded, FeedInv, \A m \in Machines : Stands(m), [CodeNext]_codeVars
  PROVE  FeedInv'
<1>t. Len(chain) \in Nat /\ Len(chain') \in Nat /\ Len(chain) <= Len(chain')
  BY Lengths
<1>1. ASSUME NEW n \in 1 .. Len(chain') PROVE n \in 1 .. Len(chain) \/ n \in Len(chain) + 1 .. Len(chain')
  BY <1>t
<1>2. ASSUME NEW n \in 1 .. Len(chain'), IsCode(n)' PROVE answer'[chain'[n]] = "accepted"
  <2>1. CASE n \in 1 .. Len(chain)
    BY <1>2, <2>1, EntryStays, Entry, Extended DEF FeedInv
  <2>2. CASE n \in Len(chain) + 1 .. Len(chain')
    BY <1>2, <2>2, Extended
  <2> QED BY <1>1, <2>1, <2>2
<1>3. ASSUME NEW n \in 1 .. Len(chain), NEW k \in Len(chain) + 1 .. Len(chain'), IsCode(k)'
      PROVE  chain'[n] # chain'[k]
  <2>1. answer[chain'[k]] = "none" /\ chain'[k] # 0
    BY <1>3, Extended DEF IsCode
  <2>2. IsCode(n) => answer[chain[n]] = "accepted"
    BY DEF FeedInv
  <2> QED BY <2>1, <2>2, EntryStays DEF IsCode
<1>4. ASSUME NEW n \in 1 .. Len(chain'), NEW k \in 1 .. Len(chain'), IsCode(n)', chain'[n] = chain'[k]
      PROVE  n = k
  <2>0. IsCode(k)'
    BY <1>4 DEF IsCode
  <2>1. CASE n \in 1 .. Len(chain) /\ k \in 1 .. Len(chain)
    BY <1>4, <2>1, EntryStays DEF FeedInv
  <2>2. CASE n \in Len(chain) + 1 .. Len(chain') /\ k \in Len(chain) + 1 .. Len(chain')
    BY <2>2, Extended
  <2> QED BY <1>1, <1>3, <1>4, <2>0, <2>1, <2>2
<1> QED BY <1>2, <1>4 DEF FeedInv

(* The three parts of the invariant, of the values a step leaves a machine with.
   Each is shown of the feed before the step: what a step adds to the feed is new
   to every machine. *)

LEMMA NewToAll ==
  ASSUME FollowInv, [CodeNext]_codeVars, NEW m \in Machines, NEW ld,
         \A o \in ld : \E n \in 1 .. Len(chain) : chain[n] = o,
         NEW k \in Len(chain) + 1 .. Len(chain'), IsCode(k)'
  PROVE  /\ chain'[k] \notin ld
         /\ IsOwn(m, k)' => GenerationAt(k)' \in Recorded(m)'
<1>1. PICK d \in Machines :
        /\ chain'[k] = owing[d] /\ owing[d] \in Operation /\ owing[d] <= Len(plans)
        /\ answer[owing[d]] = "none"
        /\ UNCHANGED <<plans, local>> /\ plans[owing[d]].by = d
        /\ plans[owing[d]].generation \in Recorded(d)
  BY Extended DEF FollowInv
<1>2. chain'[k] \notin ld
  <2> SUFFICES ASSUME chain'[k] \in ld PROVE FALSE
    OBVIOUS
  <2>1. PICK n \in 1 .. Len(chain) : chain[n] = chain'[k]
    OBVIOUS
  <2>2. IsCode(n)
    BY <1>1, <2>1 DEF IsCode, Operation
  <2> QED BY <1>1, <2>1, <2>2 DEF FollowInv, FeedInv
<1>3. IsOwn(m, k)' => m = d
  BY <1>1 DEF IsOwn
<1>4. GenerationAt(k)' = plans[owing[d]].generation /\ Recorded(d)' = Recorded(d)
  BY <1>1 DEF GenerationAt, Recorded, local
<1> QED BY <1>1, <1>2, <1>3, <1>4

LEMMA ReadsOn ==
  ASSUME FollowInv, [CodeNext]_codeVars, NEW m \in Machines, NEW cur \in Nat, NEW kn \in Nat, NEW ld,
         NEW ow, Reads(m, cur, kn, ld, ow)
  PROVE  Reads(m, cur, kn, ld, ow)'
<1>0. CodeInv
  BY DEF FollowInv
<1>1. cur <= Len(chain') /\ kn <= Len(chain')
  BY <1>0, Lengths DEF Reads
<1>2. ASSUME NEW o \in ld PROVE \E n \in 1 .. Len(chain') : chain'[n] = o
  BY <1>0, EntryStays DEF Reads
<1>3. ASSUME NEW n \in 1 .. Len(chain'), ow # 0, chain'[n] = ow PROVE n > cur
  <2>1. CASE n \in 1 .. Len(chain)
    BY <1>0, <1>3, <2>1, EntryStays DEF Reads
  <2>2. CASE n \notin 1 .. Len(chain)
    BY <1>0, <2>2, Lengths DEF Reads
  <2> QED BY <2>1, <2>2
<1>4. ASSUME NEW n \in 1 .. Len(chain'), n <= cur, Foreign(m, n)' PROVE n <= kn \/ chain'[n] \in ld
  <2>1. n \in 1 .. Len(chain)
    BY <1>0, <1>4, Lengths DEF Reads
  <2> QED BY <1>0, <1>4, <2>1, EntryStays DEF Reads
<1> QED BY <1>1, <1>2, <1>3, <1>4 DEF Reads

LEMMA SettlesOn ==
  ASSUME CodeInv, [CodeNext]_codeVars, NEW m \in Machines, NEW d, NEW cur, NEW kn, NEW ld, NEW ow,
         d.step \in {"activate", "bind"} => d.at \in 1 .. Len(chain), Settles(m, d, cur, kn, ld, ow)
  PROVE  Settles(m, d, cur, kn, ld, ow)'
<1>1. CASE d.step \in {"activate", "bind"}
  BY <1>1, EntryStays DEF Settles
<1>2. CASE d.step \notin {"activate", "bind"}
  BY <1>2 DEF Settles
<1> QED BY <1>1, <1>2

LEMMA FollowsOn ==
  ASSUME FollowInv, [CodeNext]_codeVars, NEW m \in Machines, NEW cur \in Nat, NEW kn \in Nat,
         NEW ld, NEW g, NEW r \in cur .. Len(chain), NEW ow, Reads(m, cur, kn, ld, ow),
         Follows(m, r, cur, kn, ld, g, Recorded(m)')
  PROVE  r \in cur .. Len(chain') /\ Follows(m, r, cur, kn, ld, g, Recorded(m))'
<1>0. CodeInv /\ Len(chain) \in Nat /\ r \in Nat /\ r <= Len(chain)
  BY Lengths DEF FollowInv
<1>1. r \in cur .. Len(chain')
  BY <1>0, Lengths
<1>2. ASSUME NEW n \in 1 .. r, IsCode(n)' PROVE Current(g, n)'
  <2>1. n \in 1 .. Len(chain) /\ n \in Nat \ {0}
    BY <1>0
  <2>2. Current(g, n)
    BY <1>0, <1>2, <2>1, EntryStays DEF Follows
  <2> QED BY <1>0, <2>1, <2>2, CurrentStays
<1>3. ASSUME NEW n \in cur + 1 .. r, IsCode(n)'
      PROVE  ~IsOwn(m, n)' /\ (n <= kn \/ chain'[n] \in ld)
  <2>1. n \in 1 .. Len(chain)
    BY <1>0
  <2> QED BY <1>0, <1>3, <2>1, EntryStays DEF Follows
<1>4. ASSUME NEW n \in r + 1 .. Len(chain'), IsCode(n)', IsOwn(m, n)'
      PROVE  GenerationAt(n)' \in Recorded(m)'
  <2>1. CASE n \in 1 .. Len(chain)
    BY <1>0, <1>4, <2>1, EntryStays DEF Follows
  <2>2. CASE n \notin 1 .. Len(chain)
    <3>1. n \in Len(chain) + 1 .. Len(chain')
      BY <1>0, <2>2, Lengths
    <3>2. \A o \in ld : \E k \in 1 .. Len(chain) : chain[k] = o
      BY DEF Reads
    <3> QED BY <1>4, <3>1, <3>2, NewToAll
  <2> QED BY <2>1, <2>2
<1>5. ASSUME NEW n \in r + 1 .. Len(chain'), IsCode(n)', ~IsOwn(m, n)'
      PROVE  /\ chain'[n] \notin ld
             /\ n <= kn => Current(g, n)' \/ \E w \in r + 1 .. n - 1 : IsOwn(m, w)'
  <2>1. CASE n \in 1 .. Len(chain)
    <3>1. /\ chain'[n] \notin ld
          /\ n <= kn => Current(g, n) \/ \E w \in r + 1 .. n - 1 : IsOwn(m, w)
      BY <1>0, <1>5, <2>1, EntryStays DEF Follows
    <3>2. \A w \in r + 1 .. n - 1 : w \in 1 .. Len(chain)
      BY <1>0, <2>1
    <3>3. \A w \in r + 1 .. n - 1 : IsOwn(m, w)' <=> IsOwn(m, w)
      BY <1>0, <3>2, EntryStays
    <3>4. Current(g, n) => Current(g, n)'
      BY <1>0, <2>1, CurrentStays
    <3> QED BY <3>1, <3>3, <3>4
  <2>2. CASE n \notin 1 .. Len(chain)
    <3>1. n \in Len(chain) + 1 .. Len(chain')
      BY <1>0, <2>2, Lengths
    <3>2. ~(n <= kn)
      BY <1>0, <3>1 DEF Reads
    <3> QED BY <1>5, <3>1, <3>2, NewToAll DEF Reads
  <2> QED BY <2>1, <2>2
<1> QED BY <1>1, <1>2, <1>3, <1>4, <1>5 DEF Follows

LEMMA StandsOn ==
  ASSUME FollowInv, [CodeNext]_codeVars, NEW m \in Machines,
         Reads(m, reached'[m], known'[m], landed'[m], owing'[m]),
         owing'[m] # 0 => plans'[owing'[m]].by = m,
         drain'[m].step \in {"activate", "bind"} => drain'[m].at \in 1 .. Len(chain),
         Settles(m, drain'[m], reached'[m], known'[m], landed'[m], owing'[m])
  PROVE  Stands(m)'
<1>1. CodeInv /\ reached'[m] \in Nat /\ known'[m] \in Nat
  BY Lengths DEF FollowInv, CodeTypeOK
<1>2. PICK cur \in Nat : cur = reached'[m]
  BY <1>1
<1>3. PICK kn \in Nat : kn = known'[m]
  BY <1>1
<1>4. PICK ld, ow, d : ld = landed'[m] /\ ow = owing'[m] /\ d = drain'[m]
  OBVIOUS
<1>5. Reads(m, cur, kn, ld, ow)'
  BY <1>2, <1>3, <1>4, ReadsOn
<1>6. Settles(m, d, cur, kn, ld, ow)'
  BY <1>1, <1>2, <1>3, <1>4, SettlesOn
<1>7. Reads(m, reached[m], known[m], landed[m], owing[m])'
  BY <1>2, <1>3, <1>4, <1>5 DEF Reads
<1>8. Settles(m, drain[m], reached[m], known[m], landed[m], owing[m])'
  BY <1>2, <1>3, <1>4, <1>6 DEF Settles
<1> QED BY <1>7, <1>8 DEF Stands

LEMMA KeepsUpOn ==
  ASSUME FollowInv, [CodeNext]_codeVars, NEW m \in Machines,
         Reads(m, reached'[m], known'[m], landed'[m], owing'[m]),
         drain'[m].step = "bind" => drain'[m].at \in 1 .. Len(chain) /\ IsCode(drain'[m].at),
         m \notin setBack' =>
           /\ drain'[m].step = "bind" /\ IsOwn(m, drain'[m].at) => active'[m] = GenerationAt(drain'[m].at)
           /\ \E r \in reached'[m] .. Len(chain) :
                Follows(m, r, reached'[m], known'[m], landed'[m], active'[m], Recorded(m)')
  PROVE  KeepsUp(m)'
<1> SUFFICES ASSUME m \notin setBack' PROVE KeepsUp(m)'
  BY DEF KeepsUp
<1>1. CodeInv /\ reached'[m] \in Nat /\ known'[m] \in Nat
  BY Lengths DEF FollowInv, CodeTypeOK
<1>2. PICK cur \in Nat : cur = reached'[m]
  BY <1>1
<1>3. PICK kn \in Nat : kn = known'[m]
  BY <1>1
<1>4. PICK ld, ow, d, g : ld = landed'[m] /\ ow = owing'[m] /\ d = drain'[m] /\ g = active'[m]
  OBVIOUS
<1>5. PICK r \in cur .. Len(chain) : Follows(m, r, cur, kn, ld, g, Recorded(m)')
  BY <1>2, <1>3, <1>4
<1>6. r \in cur .. Len(chain') /\ Follows(m, r, cur, kn, ld, g, Recorded(m))'
  BY <1>2, <1>3, <1>4, <1>5, FollowsOn
<1>7. r \in reached'[m] .. Len(chain')
      /\ Follows(m, r, reached[m], known[m], landed[m], active[m], Recorded(m))'
  BY <1>2, <1>3, <1>4, <1>6 DEF Follows
<1>8. d.step = "bind" /\ IsOwn(m, d.at)' => g = GenerationAt(d.at)'
  BY <1>1, <1>4, EntryStays
<1>9. In(m, "bind")' /\ IsOwn(m, drain[m].at)' => active'[m] = GenerationAt(drain[m].at)'
  BY <1>4, <1>8 DEF In, IsOwn, IsCode, GenerationAt
<1> QED BY <1>7, <1>9 DEF KeepsUp

\* A step leaves machine k where it stands.
Alike(k) ==
    /\ drain'[k] = drain[k] /\ reached'[k] = reached[k] /\ known'[k] = known[k]
    /\ landed'[k] = landed[k] /\ owing'[k] = owing[k] /\ active'[k] = active[k]
    /\ stagedGens'[k] = stagedGens[k] /\ adopted'[k] = adopted[k]
    /\ k \notin setBack' => k \notin setBack

\* What holds of every machine in the invariant.
LEMMA Standing ==
  ASSUME FollowInv, NEW m \in Machines
  PROVE  /\ CodeInv /\ CodeTypeOK /\ Stands(m) /\ KeepsUp(m) /\ Placed(m)
         /\ drain[m] \in Drain /\ reached[m] \in Nat /\ known[m] \in Nat /\ Len(chain) \in Nat
         /\ owing[m] \in Operation \cup {0} /\ (owing[m] # 0 => owing[m] \in 1 .. Len(plans))
         /\ In(m, "activate") \/ In(m, "bind") => drain[m].at \in 1 .. Len(chain) /\ IsCode(drain[m].at)
<1>1. CodeInv /\ CodeTypeOK /\ RefsInv /\ Stands(m) /\ KeepsUp(m) /\ Placed(m)
  BY DEF FollowInv, CodeInv, PlaceInv
<1>2. /\ drain[m] \in Drain /\ reached[m] \in Nat /\ known[m] \in Nat /\ Len(chain) \in Nat
      /\ owing[m] \in Operation \cup {0} /\ Len(plans) \in Nat
  BY <1>1 DEF CodeTypeOK
<1>3. owing[m] # 0 => owing[m] \in 1 .. Len(plans)
  BY <1>1, <1>2 DEF RefsInv, Operation
<1>4. In(m, "activate") \/ In(m, "bind") => drain[m].at \in 1 .. Len(chain) /\ IsCode(drain[m].at)
  BY <1>1 DEF Placed
<1> QED BY <1>1, <1>2, <1>3, <1>4

LEMMA PlansStay ==
  ASSUME FollowInv, [CodeNext]_codeVars, NEW m \in Machines, owing[m] # 0
  PROVE  plans'[owing[m]].by = m
BY Standing, Grows DEF PlansGrow, Stands

LEMMA AlikeStays ==
  ASSUME FollowInv, [CodeNext]_codeVars, NEW k \in Machines, Alike(k)
  PROVE  Stands(k)' /\ KeepsUp(k)'
<1>1. Reads(k, reached'[k], known'[k], landed'[k], owing'[k])
  BY Standing DEF Alike, Stands
<1>2. Settles(k, drain'[k], reached'[k], known'[k], landed'[k], owing'[k])
  BY Standing DEF Alike, Stands
<1>3. owing'[k] # 0 => plans'[owing'[k]].by = k
  BY PlansStay DEF Alike
<1>4. drain'[k].step \in {"activate", "bind"} => drain'[k].at \in 1 .. Len(chain) /\ IsCode(drain'[k].at)
  BY Standing DEF Alike, In
<1>5. Recorded(k)' = Recorded(k)
  BY DEF Alike, Recorded
<1>6. Stands(k)'
  BY <1>1, <1>2, <1>3, <1>4, StandsOn
<1>7. ASSUME k \notin setBack'
      PROVE  /\ drain'[k].step = "bind" /\ IsOwn(k, drain'[k].at) => active'[k] = GenerationAt(drain'[k].at)
             /\ \E r \in reached'[k] .. Len(chain) :
                  Follows(k, r, reached'[k], known'[k], landed'[k], active'[k], Recorded(k)')
  BY <1>5, <1>7, Standing DEF Alike, KeepsUp, In
<1> QED BY <1>1, <1>4, <1>6, <1>7, KeepsUpOn

\* A step of one machine, and of no other.
StepOf(m) ==
    \/ \E c \in Contents : IndexCode(m, c)
    \/ SweepStaged(m)
    \/ \E leg \in {"pull", "push"} : OpenDrain(m, leg)
    \/ DrainStep(m)

LEMMA Elsewhere ==
  ASSUME CodeInv, NEW m \in Machines, StepOf(m), NEW k \in Machines \ {m}
  PROVE  Alike(k)
<1> USE DEF StepOf, DrainStep, IndexCode, SweepStaged, OpenDrain, Capture, CaptureNothing, Rewinds, FetchPage,
        PullMemory, SettleOwn, PassSuperseded, Land, ActivateOwn, BindGeneration, SendGeneration, Accept,
        ResendGeneration, RecordAnswer, BreakOff, PastIt, local, upstream, progress, used
<1>t. /\ CodeTypeOK /\ drain \in [Machines -> Drain] /\ reached \in [Machines -> Nat]
      /\ known \in [Machines -> Nat] /\ landed \in [Machines -> SUBSET Operation]
      /\ owing \in [Machines -> Operation \cup {0}] /\ active \in [Machines -> Generations]
      /\ stagedGens \in [Machines -> SUBSET Generations] /\ adopted \in [Machines -> SUBSET Generations]
  BY DEF CodeInv, CodeTypeOK
<1>1. drain'[k] = drain[k]
  <2>1. \/ drain' = drain
        \/ \E s : ToStep(m, s)
        \/ \E s, l, n : Settling(m, s, l, n)
        \/ \E d : drain' = [drain EXCEPT ![m] = d]
    OBVIOUS
  <2> QED BY <1>t, <2>1, StepIs, SettlingIs
<1>2. reached'[k] = reached[k]
  <2>1. reached' = reached \/ \E n : reached' = [reached EXCEPT ![m] = n]
    OBVIOUS
  <2> QED BY <1>t, <2>1
<1>3. known'[k] = known[k]
  <2>1. known' = known \/ \E n : known' = [known EXCEPT ![m] = n]
    OBVIOUS
  <2> QED BY <1>t, <2>1
<1>4. landed'[k] = landed[k]
  <2>1. landed' = landed \/ \E n : landed' = [landed EXCEPT ![m] = n]
    OBVIOUS
  <2> QED BY <1>t, <2>1
<1>5. owing'[k] = owing[k]
  <2>1. owing' = owing \/ \E n : owing' = [owing EXCEPT ![m] = n]
    OBVIOUS
  <2> QED BY <1>t, <2>1
<1>6. active'[k] = active[k] /\ adopted'[k] = adopted[k] /\ stagedGens'[k] = stagedGens[k]
  <2>1. \/ UNCHANGED local
        \/ \E g : Activate(m, g)
        \/ \E g : Stage(m, g) /\ UNCHANGED <<active, adopted>>
        \/ UNCHANGED <<active, adopted>> /\ \E n : stagedGens' = [stagedGens EXCEPT ![m] = n]
    OBVIOUS
  <2> QED BY <1>t, <2>1 DEF Activate, Stage
<1>7. k \notin setBack' => k \notin setBack
  <2>1. setBack' = setBack \/ setBack' = setBack \cup {m} \/ setBack' = setBack \ {m}
    OBVIOUS
  <2> QED BY <2>1
<1> QED BY <1>1, <1>2, <1>3, <1>4, <1>5, <1>6, <1>7 DEF Alike

(* What a step of its own does to where a machine stands. *)

\* Going on to a step that settles nothing, with no more owed and no less recorded.
LEMMA GoesOn ==
  ASSUME FollowInv, [CodeNext]_codeVars, NEW m \in Machines,
         reached'[m] = reached[m], known'[m] = known[m], landed'[m] = landed[m], active'[m] = active[m],
         owing'[m] \in {owing[m], 0}, drain'[m].step \notin {"activate", "bind"},
         Recorded(m) \subseteq Recorded(m)', m \notin setBack' => m \notin setBack
  PROVE  Stands(m)' /\ KeepsUp(m)'
<1>0. /\ reached[m] \in Nat /\ Len(chain) \in Nat
      /\ Reads(m, reached[m], known[m], landed[m], owing[m])
  BY Standing DEF Stands
<1>1. Reads(m, reached'[m], known'[m], landed'[m], owing'[m])
  BY <1>0 DEF Reads
<1>2. Settles(m, drain'[m], reached'[m], known'[m], landed'[m], owing'[m])
  BY DEF Settles
<1>3. owing'[m] # 0 => plans'[owing'[m]].by = m
  BY PlansStay
<1>4. Stands(m)'
  BY <1>1, <1>2, <1>3, StandsOn
<1>5. ASSUME m \notin setBack'
      PROVE  \E r \in reached'[m] .. Len(chain) :
                 Follows(m, r, reached'[m], known'[m], landed'[m], active'[m], Recorded(m)')
  <2>1. PICK r \in reached[m] .. Len(chain) :
          Follows(m, r, reached[m], known[m], landed[m], active[m], Recorded(m))
    BY <1>5, Standing DEF KeepsUp
  <2>2. Follows(m, r, reached[m], known[m], landed[m], active[m], Recorded(m)')
    BY <2>1 DEF Follows
  <2> QED BY <2>1, <2>2
<1> QED BY <1>1, <1>4, <1>5, KeepsUpOn

LEMMA CaptureStands ==
  ASSUME FollowInv, [CodeNext]_codeVars, NEW m \in Machines, Capture(m)
  PROVE  Stands(m)' /\ KeepsUp(m)'
<1>0. /\ CodeInv /\ CodeTypeOK /\ reached[m] \in Nat /\ Len(chain) \in Nat
      /\ Reads(m, reached[m], known[m], landed[m], owing[m])
  BY Standing DEF Stands
<1>1. /\ UNCHANGED <<active, adopted, upstream, progress, setBack>> /\ owing[m] = 0
      /\ plans' = Append(plans, [by |-> m, generation |-> Append(active[m], index[m])])
      /\ owing' = [owing EXCEPT ![m] = Len(plans')] /\ ToStep(m, "rewind")
      /\ stagedGens' = [stagedGens EXCEPT ![m] =
                            @ \cup ({Append(active[m], index[m])} \ adopted[m])]
  BY DEF Capture, Stage, NothingNew
<1>2. drain'[m].step = "rewind"
  BY <1>0, <1>1, StepIs DEF CodeTypeOK
<1>3. Recorded(m) \subseteq Recorded(m)'
  BY <1>0, <1>1 DEF Recorded, CodeTypeOK
<1>4. /\ owing'[m] = Len(plans') /\ Len(plans') = Len(plans) + 1 /\ Len(plans) \in Nat
      /\ plans'[Len(plans')].by = m
  <2> DEFINE P == [by : Machines, generation : Generations \ {NoGeneration}]
             p == [by |-> m, generation |-> Append(active[m], index[m])]
  <2>1. plans \in Seq(P) /\ Len(plans) \in Nat
    BY <1>0 DEF CodeTypeOK
  <2>2. plans' = Append(plans, p) /\ p.by = m
    BY <1>1
  <2>3. owing'[m] = Len(plans')
    BY <1>0, <1>1 DEF CodeTypeOK
  <2>4. p \in P
    <3>1. active[m] \in Seq(Contents) /\ index[m] \in Contents
      BY <1>0 DEF CodeTypeOK, Capture, NothingNew, Generations
    <3>2. Append(active[m], index[m]) \in Seq(Contents) /\ Append(active[m], index[m]) # <<>>
      BY <3>1, SeqAppend
    <3> QED BY <3>2 DEF Generations, NoGeneration
  <2> HIDE DEF P, p
  <2>5. Len(plans') = Len(plans) + 1 /\ plans'[Len(plans) + 1] = p
    BY <2>1, <2>2, <2>4, SeqAppend
  <2> QED BY <2>1, <2>2, <2>3, <2>5
<1>5. Reads(m, reached'[m], known'[m], landed'[m], owing'[m])
  <2>1. ASSUME NEW n \in 1 .. Len(chain) PROVE chain[n] # owing'[m]
    BY <1>0, <1>4, Entry DEF CodeInv, RefsInv, Operation
  <2>2. reached' = reached /\ known' = known /\ landed' = landed
    BY <1>1 DEF progress
  <2> QED BY <1>0, <2>1, <2>2 DEF Reads
<1>6. Settles(m, drain'[m], reached'[m], known'[m], landed'[m], owing'[m])
  BY <1>2 DEF Settles
<1>7. Stands(m)'
  BY <1>2, <1>4, <1>5, <1>6, StandsOn
<1>8. ASSUME m \notin setBack'
      PROVE  \E r \in reached'[m] .. Len(chain) :
                 Follows(m, r, reached'[m], known'[m], landed'[m], active'[m], Recorded(m)')
  <2>1. PICK r \in reached[m] .. Len(chain) :
          Follows(m, r, reached[m], known[m], landed[m], active[m], Recorded(m))
    BY <1>1, <1>8, Standing DEF KeepsUp
  <2>2. Follows(m, r, reached[m], known[m], landed[m], active[m], Recorded(m)')
    BY <1>3, <2>1 DEF Follows
  <2> QED BY <1>1, <2>1, <2>2 DEF progress
<1> QED BY <1>2, <1>5, <1>7, <1>8, KeepsUpOn

\* Its own operation, read or answered, is about to be activated.
LEMMA SettlesOwn ==
  ASSUME FollowInv, [CodeNext]_codeVars, NEW m \in Machines, NEW leg \in {"pull", "push"},
         NEW n \in 1 .. Len(chain), Settling(m, "activate", leg, n), IsOwn(m, n),
         UNCHANGED <<local, progress, setBack>>,
         owing'[m] \in {owing[m], 0}, owing'[m] # chain[n], leg = "push" => n > reached[m]
  PROVE  Stands(m)' /\ KeepsUp(m)'
<1>0. /\ CodeTypeOK /\ reached[m] \in Nat /\ Len(chain) \in Nat
      /\ Reads(m, reached[m], known[m], landed[m], owing[m])
  BY Standing DEF Stands
<1>1. drain'[m].step = "activate" /\ drain'[m].leg = leg /\ drain'[m].at = n
  BY <1>0, SettlingIs DEF CodeTypeOK
<1>2. /\ reached' = reached /\ known' = known /\ landed' = landed /\ active' = active
      /\ Recorded(m)' = Recorded(m)
  BY DEF progress, local, Recorded
<1>3. Reads(m, reached'[m], known'[m], landed'[m], owing'[m])
  BY <1>0, <1>2 DEF Reads
<1>4. Settles(m, drain'[m], reached'[m], known'[m], landed'[m], owing'[m])
  BY <1>1, <1>2 DEF Settles
<1>5. owing'[m] # 0 => plans'[owing'[m]].by = m
  BY PlansStay
<1>6. Stands(m)'
  BY <1>1, <1>3, <1>4, <1>5, StandsOn
<1>7. m \notin setBack' =>
        \E r \in reached'[m] .. Len(chain) :
            Follows(m, r, reached'[m], known'[m], landed'[m], active'[m], Recorded(m)')
  BY <1>2, Standing DEF KeepsUp
<1> QED BY <1>1, <1>3, <1>6, <1>7, KeepsUpOn

LEMMA ActivateStands ==
  ASSUME FollowInv, [CodeNext]_codeVars, NEW m \in Machines, ActivateOwn(m)
  PROVE  Stands(m)' /\ KeepsUp(m)'
<1> DEFINE a == drain[m].at
           g == GenerationAt(a)
<1>0. /\ CodeInv /\ CodeTypeOK /\ reached[m] \in Nat /\ Len(chain) \in Nat
      /\ a \in 1 .. Len(chain) /\ IsCode(a) /\ IsOwn(m, a) /\ a > reached[m]
      /\ Reads(m, reached[m], known[m], landed[m], owing[m])
      /\ Settles(m, drain[m], reached[m], known[m], landed[m], owing[m])
  <2>1. Stands(m) /\ Placed(m) /\ In(m, "activate") /\ drain[m] \in Drain /\ reached[m] \in Nat
    BY Standing DEF ActivateOwn
  <2>2. IsOwn(m, a) /\ a \in 1 .. Len(chain) /\ IsCode(a)
    BY <2>1 DEF Stands, Settles, Placed, In
  <2>3. drain[m].leg = "pull" \/ drain[m].leg = "push"
    BY <2>1 DEF Drain
  <2>4. a > reached[m]
    BY <2>1, <2>2, <2>3 DEF Stands, Settles, Placed, In, Upcoming
  <2> QED BY <2>1, <2>2, <2>4, Standing DEF Stands
<1>1. /\ drain'[m].step = "bind" /\ drain'[m].leg = drain[m].leg /\ drain'[m].at = a
      /\ reached' = reached /\ known' = known /\ landed' = landed /\ owing' = owing /\ setBack' = setBack
  BY <1>0, StepIs DEF ActivateOwn, CodeTypeOK, progress
<1>2. Reads(m, reached'[m], known'[m], landed'[m], owing'[m])
  BY <1>0, <1>1 DEF Reads
<1>3. Settles(m, drain'[m], reached'[m], known'[m], landed'[m], owing'[m])
  <2> HIDE DEF a
  <2>1. drain[m].step = "activate" /\ drain[m].at = a
    BY DEF ActivateOwn, In, a
  <2> QED BY <1>0, <1>1, <2>1 DEF Settles
<1>4. owing'[m] # 0 => plans'[owing'[m]].by = m
  BY <1>1, PlansStay
<1>5. Stands(m)'
  BY <1>0, <1>1, <1>2, <1>3, <1>4, StandsOn
<1>6. ASSUME m \notin setBack'
      PROVE  /\ active'[m] = g
             /\ \E r \in reached'[m] .. Len(chain) :
                    Follows(m, r, reached'[m], known'[m], landed'[m], active'[m], Recorded(m)')
  <2>1. PICK r \in reached[m] .. Len(chain) :
          Follows(m, r, reached[m], known[m], landed[m], active[m], Recorded(m))
    BY <1>1, <1>6, Standing DEF KeepsUp
  <2> HIDE DEF a
  <2>2. a > r /\ a \in r + 1 .. Len(chain)
    BY <1>0, <2>1 DEF Follows
  <2>3. g \in Recorded(m)
    BY <1>0, <2>1, <2>2 DEF Follows
  <2>4. Activate(m, g)
    BY <2>3 DEF ActivateOwn, a
  <2> HIDE DEF g
  <2>5. active'[m] = g /\ Recorded(m) \subseteq Recorded(m)'
    BY <1>0, <2>4 DEF Activate, CodeTypeOK, Recorded
  <2>6. \A n \in 1 .. a : Current(g, n)
    BY <1>0 DEF Current, g
  <2>7. Follows(m, r, reached[m], known[m], landed[m], g, Recorded(m)')
    <3>1. \A n \in 1 .. r : IsCode(n) => Current(g, n)
      BY <1>0, <2>1, <2>2, <2>6
    <3>2. ASSUME NEW n \in r + 1 .. Len(chain), IsCode(n), ~IsOwn(m, n), n <= known[m]
          PROVE  Current(g, n) \/ \E w \in r + 1 .. n - 1 : IsOwn(m, w)
      <4>1. CASE n <= a
        BY <1>0, <2>1, <2>6, <4>1
      <4>2. CASE ~(n <= a)
        BY <1>0, <2>1, <2>2, <4>2
      <4> QED BY <4>1, <4>2
    <3> QED BY <2>1, <2>5, <3>1, <3>2 DEF Follows
  <2> QED BY <1>1, <2>1, <2>5, <2>7
<1> QED BY <1>0, <1>1, <1>2, <1>5, <1>6, KeepsUpOn

\* A peer's entry: applied before, or applied now.
LEMMA LandStands ==
  ASSUME FollowInv, [CodeNext]_codeVars, NEW m \in Machines, Land(m)
  PROVE  Stands(m)' /\ KeepsUp(m)'
<1> DEFINE n == Upcoming(m)
           g == GenerationAt(n)
<1>0. /\ CodeInv /\ CodeTypeOK /\ reached[m] \in Nat /\ known[m] \in Nat /\ Len(chain) \in Nat
      /\ n \in 1 .. Len(chain) /\ n = reached[m] + 1 /\ IsCode(n) /\ ~IsOwn(m, n) /\ n > known[m]
      /\ Reads(m, reached[m], known[m], landed[m], owing[m]) /\ FeedInv
  BY Standing, EntryExists DEF Land, PullForeign, Stands, FollowInv, Upcoming
<1>1. /\ drain'[m].step = "bind" /\ drain'[m].leg = "pull" /\ drain'[m].at = n
      /\ reached' = reached /\ known' = known /\ owing' = owing
  BY <1>0, SettlingIs DEF Land, CodeTypeOK
<1>2. /\ chain[n] \in landed'[m] /\ landed'[m] = landed[m] \cup {chain[n]}
      /\ \/ chain[n] \in landed[m] /\ UNCHANGED <<local, landed, setBack>>
         \/ /\ chain[n] \notin landed[m] /\ Activate(m, g)
            /\ setBack' = IF AllNewAfter(m, n) THEN setBack \ {m} ELSE setBack
  BY <1>0 DEF Land, CodeTypeOK
<1> HIDE DEF n
<1>3. Reads(m, reached'[m], known'[m], landed'[m], owing'[m])
  BY <1>0, <1>1, <1>2 DEF Reads
<1>4. Settles(m, drain'[m], reached'[m], known'[m], landed'[m], owing'[m])
  BY <1>0, <1>1, <1>2 DEF Settles
<1>5. owing'[m] # 0 => plans'[owing'[m]].by = m
  BY <1>1, PlansStay
<1>6. Stands(m)'
  BY <1>0, <1>1, <1>3, <1>4, <1>5, StandsOn
<1>7. ASSUME m \notin setBack'
      PROVE  \E r \in reached'[m] .. Len(chain) :
                 Follows(m, r, reached'[m], known'[m], landed'[m], active'[m], Recorded(m)')
  <2>1. CASE chain[n] \in landed[m] /\ UNCHANGED <<local, landed, setBack>>
    <3>1. Recorded(m)' = Recorded(m)
      BY <2>1 DEF local, Recorded
    <3> QED BY <1>1, <1>7, <2>1, <3>1, Standing DEF KeepsUp, local
  <2>2. CASE /\ chain[n] \notin landed[m] /\ Activate(m, g)
             /\ setBack' = IF AllNewAfter(m, n) THEN setBack \ {m} ELSE setBack
    <3>1. AllNewAfter(m, n)
      <4> SUFFICES ASSUME m \notin setBack PROVE AllNewAfter(m, n)
        BY <1>7, <2>2
      <4>1. PICK r \in reached[m] .. Len(chain) :
              Follows(m, r, reached[m], known[m], landed[m], active[m], Recorded(m))
        BY Standing DEF KeepsUp
      <4>2. r = reached[m]
        BY <1>0, <2>2, <4>1 DEF Follows
      <4> QED BY <1>0, <4>1, <4>2 DEF Follows, AllNewAfter
    <3>2. active'[m] = g /\ Recorded(m) \subseteq Recorded(m)'
      <4> HIDE DEF g
      <4> QED BY <1>0, <2>2 DEF Activate, CodeTypeOK, Recorded
    <3>3. \A k \in 1 .. n : Current(g, k)
      BY <1>0 DEF Current
    <3>4. ASSUME NEW k \in n + 1 .. Len(chain), IsCode(k), ~IsOwn(m, k)
          PROVE  chain[k] \notin landed'[m] /\ ~(k <= known[m])
      <4>1. k \in 1 .. Len(chain) /\ k # n
        BY <1>0
      <4>2. chain[k] \notin landed[m]
        BY <3>1, <3>4 DEF AllNewAfter
      <4>3. chain[k] # chain[n]
        BY <1>0, <4>1 DEF FeedInv
      <4> QED BY <1>0, <1>2, <4>1, <4>2, <4>3
    <3>5. ASSUME NEW k \in n + 1 .. Len(chain), IsCode(k), IsOwn(m, k)
          PROVE  GenerationAt(k) \in Recorded(m)'
      BY <3>1, <3>2, <3>5 DEF AllNewAfter
    <3> HIDE DEF g
    <3>6. Follows(m, n, reached[m], known[m], landed'[m], g, Recorded(m)')
      <4>1. \A k \in reached[m] + 1 .. n : k = n
        BY <1>0
      <4> QED BY <1>0, <1>2, <3>3, <3>4, <3>5, <4>1 DEF Follows
    <3> QED BY <1>0, <1>1, <3>2, <3>6
  <2> QED BY <1>2, <2>1, <2>2
<1> QED BY <1>0, <1>1, <1>3, <1>6, <1>7, KeepsUpOn

\* The binding names the entry, and after a pull the cursor passes it.
LEMMA BindStands ==
  ASSUME FollowInv, [CodeNext]_codeVars, NEW m \in Machines, BindGeneration(m)
  PROVE  Stands(m)' /\ KeepsUp(m)'
<1> DEFINE a == drain[m].at
<1>0. /\ CodeInv /\ CodeTypeOK /\ reached[m] \in Nat /\ known[m] \in Nat /\ Len(chain) \in Nat
      /\ a \in 1 .. Len(chain) /\ IsCode(a)
      /\ Reads(m, reached[m], known[m], landed[m], owing[m])
      /\ Settles(m, drain[m], reached[m], known[m], landed[m], owing[m])
      /\ (owing[m] # 0 => plans[owing[m]].by = m)
  BY Standing DEF BindGeneration, Stands
<1>1. /\ drain'[m].step \notin {"activate", "bind"} /\ known'[m] = a
      /\ landed' = landed /\ owing' = owing /\ active' = active /\ setBack' = setBack
      /\ Recorded(m)' = Recorded(m)
  BY <1>0, StepIs DEF BindGeneration, PastIt, CodeTypeOK, local, Recorded
<1>2. \/ drain[m].leg = "pull" /\ a = reached[m] + 1 /\ reached'[m] = a
      \/ drain[m].leg = "push" /\ reached'[m] = reached[m]
  <2>1. drain[m].leg = "pull" \/ drain[m].leg = "push"
    BY Standing DEF Drain
  <2>2. drain[m].leg = "pull" => a = reached[m] + 1
    BY Standing DEF Placed, BindGeneration, Upcoming
  <2> QED BY <1>0, <2>1, <2>2 DEF BindGeneration, PastIt, Upcoming, CodeTypeOK
<1>3. /\ IsOwn(m, a) /\ drain[m].leg = "pull" => owing[m] # chain[a]
      /\ drain[m].leg = "push" => IsOwn(m, a) /\ a > reached[m]
      /\ ~IsOwn(m, a) => known[m] < a /\ chain[a] \in landed[m]
  BY <1>0 DEF Settles, BindGeneration, In
<1>4. owing[m] = chain[a] => IsOwn(m, a)
  BY <1>0 DEF IsOwn, IsCode
<1>5. m \notin setBack' /\ IsOwn(m, a) => active[m] = GenerationAt(a)
  BY <1>1, Standing DEF KeepsUp, BindGeneration
<1> HIDE DEF a
<1>6. Reads(m, reached'[m], known'[m], landed'[m], owing'[m])
  <2>1. ASSUME NEW n \in 1 .. Len(chain), owing[m] # 0, chain[n] = owing[m] PROVE n > reached'[m]
    <3>1. n > reached[m]
      BY <1>0, <2>1 DEF Reads
    <3>2. drain[m].leg = "pull" => n # a
      BY <1>3, <1>4, <2>1
    <3> QED BY <1>0, <1>2, <3>1, <3>2
  <2> QED BY <1>0, <1>1, <1>2, <1>3, <2>1 DEF Reads
<1>7. Settles(m, drain'[m], reached'[m], known'[m], landed'[m], owing'[m])
  BY <1>1 DEF Settles
<1>8. owing'[m] # 0 => plans'[owing'[m]].by = m
  BY <1>1, PlansStay
<1>9. Stands(m)'
  BY <1>1, <1>6, <1>7, <1>8, StandsOn
<1>10. ASSUME m \notin setBack'
       PROVE  \E r \in reached'[m] .. Len(chain) :
                 Follows(m, r, reached'[m], a, landed[m], active[m], Recorded(m))
  <2>1. PICK r \in reached[m] .. Len(chain) :
          Follows(m, r, reached[m], known[m], landed[m], active[m], Recorded(m))
    BY <1>1, <1>10, Standing DEF KeepsUp
  <2>2. CASE IsOwn(m, a) /\ drain[m].leg = "pull"
    <3>1. r = reached[m] /\ r + 1 = a
      BY <1>0, <1>2, <2>1, <2>2 DEF Follows
    <3>2. \A n \in 1 .. a : Current(active[m], n)
      BY <1>0, <1>5, <1>10, <2>2 DEF Current
    <3>3. Follows(m, a, a, a, landed[m], active[m], Recorded(m))
      BY <1>0, <2>1, <3>1, <3>2 DEF Follows
    <3> QED BY <1>0, <1>2, <2>2, <3>3
  <2>3. CASE ~IsOwn(m, a)
    <3>1. drain[m].leg # "push" /\ reached'[m] = a /\ a = reached[m] + 1
      BY <1>2, <1>3, <2>3
    <3>2. a <= r
      BY <1>0, <1>3, <2>1, <2>3, <3>1 DEF Follows
    <3>3. Follows(m, r, a, a, landed[m], active[m], Recorded(m))
      BY <1>0, <1>3, <2>1, <2>3, <3>1, <3>2 DEF Follows
    <3> QED BY <1>0, <2>1, <3>1, <3>2, <3>3
  <2>4. CASE IsOwn(m, a) /\ drain[m].leg = "push"
    <3>1. a > r /\ reached'[m] = reached[m]
      BY <1>0, <1>2, <1>3, <2>1, <2>4 DEF Follows
    <3>2. \A n \in 1 .. a : Current(active[m], n)
      BY <1>0, <1>5, <1>10, <2>4 DEF Current
    <3>3. Follows(m, r, reached[m], a, landed[m], active[m], Recorded(m))
      BY <1>0, <2>1, <3>1, <3>2 DEF Follows
    <3> QED BY <2>1, <3>1, <3>3
  <2> QED BY <1>2, <2>2, <2>3, <2>4
<1> QED BY <1>1, <1>6, <1>9, <1>10, KeepsUpOn

\* A memory, or a peer's entry that is superseded.
LEMMA PassStands ==
  ASSUME FollowInv, [CodeNext]_codeVars, NEW m \in Machines, PullMemory(m) \/ PassSuperseded(m)
  PROVE  Stands(m)' /\ KeepsUp(m)'
<1> DEFINE n == Upcoming(m)
<1>0. /\ CodeInv /\ CodeTypeOK /\ reached[m] \in Nat /\ known[m] \in Nat /\ Len(chain) \in Nat
      /\ n \in 1 .. Len(chain) /\ n = reached[m] + 1
      /\ Reads(m, reached[m], known[m], landed[m], owing[m])
      /\ (owing[m] # 0 => plans[owing[m]].by = m)
  <2>1. In(m, "pull")
    BY DEF PullMemory, PassSuperseded, PullForeign
  <2>2. reached[m] < drain[m].upto /\ drain[m].upto <= Len(chain) /\ drain[m].upto \in Nat
    BY <2>1, Standing DEF Placed, Drain
  <2> QED BY <2>2, Standing DEF Stands, Upcoming
<1>1. /\ drain'[m].step \notin {"activate", "bind"} /\ reached'[m] = n /\ known' = known
      /\ landed' = landed /\ owing' = owing /\ active' = active /\ setBack' = setBack
      /\ Recorded(m)' = Recorded(m)
  BY <1>0, StepIs DEF PullMemory, PassSuperseded, PastIt, CodeTypeOK, local, Recorded, progress
<1>2. ~IsOwn(m, n) /\ (IsCode(n) => n <= known[m])
  BY DEF PullMemory, PassSuperseded, PullForeign, IsOwn
<1> HIDE DEF n
<1>3. owing[m] # 0 => owing[m] # chain[n]
  BY <1>0, <1>2 DEF IsOwn, IsCode
<1>4. Reads(m, reached'[m], known'[m], landed'[m], owing'[m])
  <2>1. ASSUME NEW k \in 1 .. Len(chain), owing[m] # 0, chain[k] = owing[m] PROVE k > n
    BY <1>0, <1>3, <2>1 DEF Reads
  <2>2. ASSUME NEW k \in 1 .. Len(chain), k <= n, Foreign(m, k)
        PROVE  k <= known[m] \/ chain[k] \in landed[m]
    <3>1. CASE k = n
      BY <1>2, <2>2, <3>1 DEF Foreign
    <3>2. CASE k <= reached[m]
      BY <1>0, <2>2, <3>2 DEF Reads
    <3> QED BY <1>0, <2>2, <3>1, <3>2
  <2> QED BY <1>0, <1>1, <2>1, <2>2 DEF Reads
<1>5. Settles(m, drain'[m], reached'[m], known'[m], landed'[m], owing'[m])
  BY <1>1 DEF Settles
<1>6. owing'[m] # 0 => plans'[owing'[m]].by = m
  BY <1>1, PlansStay
<1>7. Stands(m)'
  BY <1>1, <1>4, <1>5, <1>6, StandsOn
<1>8. ASSUME m \notin setBack'
      PROVE  \E r \in n .. Len(chain) :
                 Follows(m, r, n, known[m], landed[m], active[m], Recorded(m))
  <2>1. PICK r \in reached[m] .. Len(chain) :
          Follows(m, r, reached[m], known[m], landed[m], active[m], Recorded(m))
    BY <1>1, <1>8, Standing DEF KeepsUp
  <2>2. CASE n <= r
    <3>1. Follows(m, r, n, known[m], landed[m], active[m], Recorded(m))
      BY <1>0, <2>1, <2>2 DEF Follows
    <3> QED BY <1>0, <2>1, <2>2, <3>1
  <2>3. CASE ~(n <= r)
    <3>1. r = reached[m] /\ n = r + 1 /\ r \in Nat
      BY <1>0, <2>1, <2>3
    <3>2. IsCode(n) => Current(active[m], n)
      BY <1>0, <1>2, <2>1, <3>1 DEF Follows
    <3>3. ASSUME NEW k \in n + 1 .. Len(chain), IsCode(k), ~IsOwn(m, k), k <= known[m]
          PROVE  Current(active[m], k) \/ \E w \in n + 1 .. k - 1 : IsOwn(m, w)
      <4>1. CASE \E w \in r + 1 .. k - 1 : IsOwn(m, w)
        <5>1. PICK w \in r + 1 .. k - 1 : IsOwn(m, w)
          BY <4>1
        <5>2. w \in n + 1 .. k - 1
          BY <1>0, <1>2, <3>1, <5>1
        <5> QED BY <5>1, <5>2
      <4>2. k \in r + 1 .. Len(chain)
        BY <1>0, <3>1
      <4> QED BY <2>1, <3>3, <4>1, <4>2 DEF Follows
    <3>4. \A k \in 1 .. n : IsCode(k) => Current(active[m], k)
      <4>1. \A k \in 1 .. n : k \in 1 .. r \/ k = n
        BY <1>0, <3>1
      <4> QED BY <2>1, <3>2, <4>1 DEF Follows
    <3>5. \A k \in n + 1 .. Len(chain) : k \in r + 1 .. Len(chain)
      BY <1>0, <3>1
    <3>6. n + 1 .. n = {}
      BY <1>0
    <3>7. Follows(m, n, n, known[m], landed[m], active[m], Recorded(m))
      BY <2>1, <3>3, <3>4, <3>5, <3>6 DEF Follows
    <3> QED BY <1>0, <3>7
  <2> QED BY <2>2, <2>3
<1> QED BY <1>1, <1>4, <1>7, <1>8, KeepsUpOn

\* The cursor goes back over what was read, none of it the machine's own.
LEMMA RewindStands ==
  ASSUME FollowInv, [CodeNext]_codeVars, NEW m \in Machines, Rewinds(m)
  PROVE  Stands(m)' /\ KeepsUp(m)'
<1>0. /\ CodeInv /\ CodeTypeOK /\ reached[m] \in Nat /\ known[m] \in Nat /\ Len(chain) \in Nat
      /\ Reads(m, reached[m], known[m], landed[m], owing[m])
  BY Standing DEF Stands
<1>1. /\ drain'[m].step = "page" /\ known' = known /\ landed' = landed /\ owing' = owing
      /\ active' = active /\ Recorded(m)' = Recorded(m)
  BY <1>0, StepIs DEF Rewinds, CodeTypeOK, local, Recorded
<1>2. \/ reached'[m] = reached[m] /\ (m \notin setBack' => m \notin setBack)
      \/ \E first \in Nat \ {0} :
           /\ first <= reached[m] /\ reached'[m] = first - 1
           /\ m \notin setBack' => m \notin setBack /\ \A n \in first .. reached[m] : ~IsOwn(m, n)
  <2>1. CASE UNCHANGED <<reached, heldBack, setBack>>
    BY <2>1
  <2>2. CASE ~UNCHANGED <<reached, heldBack, setBack>>
    <3>1. PICK due \in SUBSET heldBack[m] : \E first \in due :
            /\ reached' = [reached EXCEPT ![m] = IF first <= @ THEN first - 1 ELSE @]
            /\ setBack' = IF \E n \in first .. reached[m] : IsOwn(m, n)
                            THEN setBack \cup {m} ELSE setBack
      BY <2>2 DEF Rewinds, Below
    <3>2. PICK first \in due :
            /\ reached' = [reached EXCEPT ![m] = IF first <= @ THEN first - 1 ELSE @]
            /\ setBack' = IF \E n \in first .. reached[m] : IsOwn(m, n)
                            THEN setBack \cup {m} ELSE setBack
      BY <3>1
    <3>3. first \in Nat \ {0}
      BY <1>0 DEF CodeTypeOK
    <3>4. reached'[m] = IF first <= reached[m] THEN first - 1 ELSE reached[m]
      BY <1>0, <3>2 DEF CodeTypeOK
    <3>5. m \notin setBack' => m \notin setBack /\ \A n \in first .. reached[m] : ~IsOwn(m, n)
      BY <3>2
    <3> QED BY <3>3, <3>4, <3>5
  <2> QED BY <2>1, <2>2
<1>3. CASE reached'[m] = reached[m] /\ (m \notin setBack' => m \notin setBack)
  BY <1>1, <1>3, GoesOn
<1>4. CASE \E first \in Nat \ {0} :
           /\ first <= reached[m] /\ reached'[m] = first - 1
           /\ m \notin setBack' => m \notin setBack /\ \A n \in first .. reached[m] : ~IsOwn(m, n)
  <2>1. PICK first \in Nat \ {0} :
           /\ first <= reached[m] /\ reached'[m] = first - 1
           /\ m \notin setBack' => m \notin setBack /\ \A n \in first .. reached[m] : ~IsOwn(m, n)
    BY <1>4
  <2>2. Reads(m, first - 1, known[m], landed[m], owing[m])
    BY <1>0, <2>1 DEF Reads
  <2>3. Settles(m, drain'[m], reached'[m], known'[m], landed'[m], owing'[m])
    BY <1>1 DEF Settles
  <2>4. owing'[m] # 0 => plans'[owing'[m]].by = m
    BY <1>1, PlansStay
  <2>5. Stands(m)'
    BY <1>1, <2>1, <2>2, <2>3, <2>4, StandsOn
  <2>6. ASSUME m \notin setBack'
        PROVE  \E r \in first - 1 .. Len(chain) :
                   Follows(m, r, first - 1, known[m], landed[m], active[m], Recorded(m))
    <3>1. PICK r \in reached[m] .. Len(chain) :
            Follows(m, r, reached[m], known[m], landed[m], active[m], Recorded(m))
      BY <2>1, <2>6, Standing DEF KeepsUp
    <3>2. ASSUME NEW n \in first .. r, IsCode(n)
          PROVE  ~IsOwn(m, n) /\ (n <= known[m] \/ chain[n] \in landed[m])
      <4>1. CASE n <= reached[m]
        <5>1. n \in 1 .. Len(chain) /\ ~IsOwn(m, n)
          BY <1>0, <2>1, <2>6, <3>1, <4>1
        <5> QED BY <1>0, <3>2, <4>1, <5>1 DEF Reads, Foreign
      <4>2. CASE ~(n <= reached[m])
        BY <1>0, <2>1, <3>1, <3>2, <4>2 DEF Follows
      <4> QED BY <4>1, <4>2
    <3>3. (first - 1) + 1 = first /\ r \in first - 1 .. Len(chain)
      BY <1>0, <2>1, <3>1
    <3>4. Follows(m, r, first - 1, known[m], landed[m], active[m], Recorded(m))
      BY <3>1, <3>2, <3>3 DEF Follows
    <3> QED BY <3>3, <3>4
  <2> QED BY <1>1, <2>1, <2>2, <2>5, <2>6, KeepsUpOn
<1> QED BY <1>2, <1>3, <1>4

\* The sweep: what is left of the machine's own still has its row, or it is set back.
LEMMA SweepStands ==
  ASSUME FollowInv, [CodeNext]_codeVars, NEW m \in Machines, SweepStaged(m)
  PROVE  Stands(m)' /\ KeepsUp(m)'
<1>0. /\ CodeInv /\ CodeTypeOK /\ reached[m] \in Nat /\ Len(chain) \in Nat /\ Stands(m)
      /\ Reads(m, reached[m], known[m], landed[m], owing[m])
      /\ Settles(m, drain[m], reached[m], known[m], landed[m], owing[m])
  BY Standing DEF Stands
<1>1. /\ drain' = drain /\ reached' = reached /\ known' = known /\ landed' = landed
      /\ owing' = owing /\ active' = active
  BY DEF SweepStaged, progress
<1>2. PICK old \in SUBSET stagedGens[m] :
        /\ stagedGens' = [stagedGens EXCEPT ![m] = @ \ old] /\ adopted' = adopted
        /\ setBack' = IF \E n \in 1 .. Len(chain) : IsOwn(m, n) /\ GenerationAt(n) \in old
                        THEN setBack \cup {m} ELSE setBack
  BY DEF SweepStaged
<1>3. Recorded(m) \subseteq Recorded(m)' \cup old
  BY <1>0, <1>2 DEF Recorded, CodeTypeOK
<1>4. Reads(m, reached'[m], known'[m], landed'[m], owing'[m])
  BY <1>0, <1>1
<1>5. Settles(m, drain'[m], reached'[m], known'[m], landed'[m], owing'[m])
  BY <1>0, <1>1
<1>6. owing'[m] # 0 => plans'[owing'[m]].by = m
  BY <1>1, PlansStay
<1>7. drain'[m].step \in {"activate", "bind"} => drain'[m].at \in 1 .. Len(chain) /\ IsCode(drain'[m].at)
  BY <1>1, Standing DEF In
<1>8. Stands(m)'
  BY <1>4, <1>5, <1>6, <1>7, StandsOn
<1>9. ASSUME m \notin setBack'
      PROVE  /\ drain'[m].step = "bind" /\ IsOwn(m, drain'[m].at) => active'[m] = GenerationAt(drain'[m].at)
             /\ \E r \in reached'[m] .. Len(chain) :
                  Follows(m, r, reached'[m], known'[m], landed'[m], active'[m], Recorded(m)')
  <2>1. m \notin setBack /\ \A n \in 1 .. Len(chain) : IsOwn(m, n) => GenerationAt(n) \notin old
    BY <1>2, <1>9
  <2>2. PICK r \in reached[m] .. Len(chain) :
          Follows(m, r, reached[m], known[m], landed[m], active[m], Recorded(m))
    BY <2>1, Standing DEF KeepsUp
  <2>3. \A n \in r + 1 .. Len(chain) : IsCode(n) /\ IsOwn(m, n) => GenerationAt(n) \in Recorded(m)'
    <3>1. \A n \in r + 1 .. Len(chain) : n \in 1 .. Len(chain)
      BY <1>0, <2>2
    <3>2. \A n \in r + 1 .. Len(chain) : IsCode(n) /\ IsOwn(m, n) => GenerationAt(n) \in Recorded(m)
      BY <2>2 DEF Follows
    <3> QED BY <1>3, <2>1, <3>1, <3>2
  <2>4. Follows(m, r, reached[m], known[m], landed[m], active[m], Recorded(m)')
    BY <2>2, <2>3 DEF Follows
  <2>5. drain[m].step = "bind" /\ IsOwn(m, drain[m].at) => active[m] = GenerationAt(drain[m].at)
    BY <2>1, Standing DEF KeepsUp, In
  <2> QED BY <1>1, <2>2, <2>4, <2>5
<1> QED BY <1>4, <1>7, <1>8, <1>9, KeepsUpOn

\* Its own entry, read: it is not owed any longer.
LEMMA ReadsOwn ==
  ASSUME FollowInv, [CodeNext]_codeVars, NEW m \in Machines, SettleOwn(m)
  PROVE  Stands(m)' /\ KeepsUp(m)'
<1> DEFINE n == Upcoming(m)
<1>1. n \in 1 .. Len(chain) /\ IsOwn(m, n) /\ IsCode(n)
  BY Standing, EntryExists DEF SettleOwn, IsOwn
<1>2. owing'[m] = IF owing[m] = chain[n] THEN 0 ELSE owing[m]
  BY Standing DEF SettleOwn, CodeTypeOK
<1>3. Settling(m, "activate", "pull", n) /\ UNCHANGED <<local, progress, setBack>>
  BY DEF SettleOwn, OwnIsActivated
<1>4. owing'[m] \in {owing[m], 0} /\ owing'[m] # chain[n]
  BY <1>1, <1>2 DEF IsCode
<1> HIDE DEF n
<1> QED BY <1>1, <1>3, <1>4, SettlesOwn

\* What it owed, accepted: it lies ahead.
LEMMA Answered ==
  ASSUME FollowInv, [CodeNext]_codeVars, NEW m \in Machines, RecordAnswer(m)
  PROVE  Stands(m)' /\ KeepsUp(m)'
<1>0. /\ CodeTypeOK /\ owing[m] # 0 /\ plans[owing[m]].by = m
      /\ Reads(m, reached[m], known[m], landed[m], owing[m])
  BY Standing DEF RecordAnswer, Placed, Stands
<1>1. owing'[m] = 0 /\ UNCHANGED <<local, progress, setBack>>
  BY <1>0 DEF RecordAnswer, CodeTypeOK
<1>2. ASSUME NEW n \in 1 .. Len(chain), chain[n] = owing[m], Settling(m, "activate", "push", n)
      PROVE  Stands(m)' /\ KeepsUp(m)'
  <2>1. IsOwn(m, n) /\ n > reached[m] /\ owing'[m] # chain[n]
    BY <1>0, <1>1, <1>2 DEF IsOwn, IsCode, Reads
  <2> QED BY <1>1, <1>2, <2>1, SettlesOwn
<1>3. ASSUME ToStep(m, "page") PROVE Stands(m)' /\ KeepsUp(m)'
  <2>1. drain'[m].step = "page" /\ Recorded(m)' = Recorded(m)
    BY <1>0, <1>1, <1>3, StepIs DEF CodeTypeOK, local, Recorded
  <2>2. reached' = reached /\ known' = known /\ landed' = landed /\ active' = active
    BY <1>1 DEF progress, local
  <2> QED BY <1>1, <2>1, <2>2, GoesOn
<1> QED BY <1>2, <1>3 DEF RecordAnswer

LEMMA OwnStepStands ==
  ASSUME FollowInv, [CodeNext]_codeVars, NEW m \in Machines, StepOf(m)
  PROVE  Stands(m)' /\ KeepsUp(m)'
<1>t. CodeTypeOK /\ drain \in [Machines -> Drain]
  BY Standing DEF CodeTypeOK
<1>1. ASSUME NEW c \in Contents, IndexCode(m, c) PROVE Stands(m)' /\ KeepsUp(m)'
  <2>1. Alike(m)
    BY <1>1 DEF IndexCode, local, upstream, progress, Alike
  <2> QED BY <2>1, AlikeStays
<1>2. ASSUME UNCHANGED <<local, owing, progress, setBack>>,
             drain'[m].step \notin {"activate", "bind"}
      PROVE  Stands(m)' /\ KeepsUp(m)'
  <2>1. /\ reached' = reached /\ known' = known /\ landed' = landed /\ active' = active
        /\ Recorded(m)' = Recorded(m)
    BY <1>2 DEF progress, local, Recorded
  <2> QED BY <1>2, <2>1, GoesOn
<1>3. ASSUME NEW leg \in {"pull", "push"}, OpenDrain(m, leg) PROVE Stands(m)' /\ KeepsUp(m)'
  <2>1. drain'[m].step \in {"push", "capture"}
    BY <1>t, <1>3 DEF OpenDrain, NoDrain
  <2> QED BY <1>2, <1>3, <2>1 DEF OpenDrain
<1>4. ASSUME CaptureNothing(m) PROVE Stands(m)' /\ KeepsUp(m)'
  <2>1. drain'[m].step = "rewind"
    BY <1>t, <1>4, StepIs DEF CaptureNothing
  <2> QED BY <1>2, <1>4, <2>1 DEF CaptureNothing
<1>5. ASSUME FetchPage(m) PROVE Stands(m)' /\ KeepsUp(m)'
  <2>1. drain'[m].step \in {"pull", "push"}
    BY <1>t, <1>5 DEF FetchPage, Drain
  <2> QED BY <1>2, <1>5, <2>1 DEF FetchPage
<1>6. ASSUME SendGeneration(m) PROVE Stands(m)' /\ KeepsUp(m)'
  <2>1. drain'[m].step \in {"sent", "idle"}
    BY <1>t, <1>6, StepIs DEF SendGeneration, NoDrain
  <2> QED BY <1>2, <1>6, <2>1 DEF SendGeneration
<1>7. ASSUME Accept(m) PROVE Stands(m)' /\ KeepsUp(m)'
  <2>1. drain'[m].step = "answered"
    BY <1>t, <1>7, StepIs DEF Accept
  <2> QED BY <1>2, <1>7, <2>1 DEF Accept
<1>8. ASSUME ResendGeneration(m) PROVE Stands(m)' /\ KeepsUp(m)'
  <2>1. drain'[m].step = "sent"
    BY <1>t, <1>8, StepIs DEF ResendGeneration
  <2> QED BY <1>2, <1>8, <2>1 DEF ResendGeneration
<1>9. ASSUME BreakOff(m) PROVE Stands(m)' /\ KeepsUp(m)'
  <2>1. drain'[m].step = "idle"
    BY <1>t, <1>9 DEF BreakOff, NoDrain
  <2> QED BY <1>2, <1>9, <2>1 DEF BreakOff
<1> QED
  BY <1>1, <1>3, <1>4, <1>5, <1>6, <1>7, <1>8, <1>9, CaptureStands, RewindStands, PassStands,
     ReadsOwn, LandStands, ActivateStands, BindStands, Answered, SweepStands DEF StepOf, DrainStep

LEMMA FollowStep == FollowInv /\ [CodeNext]_codeVars => FollowInv'
<1> SUFFICES ASSUME FollowInv, [CodeNext]_codeVars PROVE FollowInv'
  OBVIOUS
<1>1. CodeInv' /\ OwedIsRecorded' /\ FeedInv'
  BY TypeStep, RefsStep, PlaceStep, OwedStep, FeedStep DEF FollowInv, CodeInv
<1>2. ASSUME NEW k \in Machines PROVE Stands(k)' /\ KeepsUp(k)'
  <2>1. CASE \E m \in Machines : StepOf(m)
    <3>1. PICK m \in Machines : StepOf(m)
      BY <2>1
    <3>2. CASE k = m
      BY <3>1, <3>2, OwnStepStands
    <3>3. CASE k # m
      BY <3>1, <3>3, Elsewhere, AlikeStays DEF FollowInv
    <3> QED BY <3>2, <3>3
  <2>2. CASE PeerMemory \/ UNCHANGED codeVars
    <3>1. Alike(k)
      BY <2>2 DEF PeerMemory, codeVars, local, upstream, progress, Alike
    <3> QED BY <3>1, AlikeStays
  <2> QED BY <2>1, <2>2 DEF CodeNext, StepOf
<1> QED BY <1>1, <1>2 DEF FollowInv

LEMMA FollowInit == CodeInit => FollowInv
<1> SUFFICES ASSUME CodeInit PROVE FollowInv
  OBVIOUS
<1>1. CodeInv /\ OwedIsRecorded
  BY InitInv
<1>2. chain = <<>> /\ Len(chain) = 0
  BY DEF CodeInit
<1>3. FeedInv
  BY <1>2 DEF FeedInv
<1>4. ASSUME NEW m \in Machines PROVE Stands(m) /\ KeepsUp(m)
  <2>1. /\ reached[m] = 0 /\ known[m] = 0 /\ landed[m] = {} /\ owing[m] = 0
        /\ drain[m].step = "idle"
    BY DEF CodeInit, NoDrain
  <2>2. Stands(m)
    BY <1>2, <2>1 DEF Stands, Reads, Settles
  <2>3. 0 \in reached[m] .. Len(chain) /\ ~In(m, "bind")
    BY <1>2, <2>1 DEF In
  <2>4. Follows(m, 0, reached[m], known[m], landed[m], active[m], Recorded(m))
    BY <1>2, <2>1 DEF Follows
  <2> QED BY <2>2, <2>3, <2>4 DEF KeepsUp
<1> QED BY <1>1, <1>3, <1>4 DEF FollowInv

\* A set of positions has a greatest: Max chooses it.
LEMMA Greatest ==
  ASSUME NEW L \in Nat, NEW S \in SUBSET (1 .. L), S # {}
  PROVE  Max(S) \in S /\ \A n \in S : n <= Max(S)
<1> DEFINE R == OpToRel(<, Nat)
           T == {k \in Nat : L - k \in S}
<1>1. IsWellFoundedOn(R, Nat)
  BY NatLessThanWellFounded
<1>2. \A y, x \in Nat : <<y, x>> \in R <=> y < x
  BY DEF OpToRel
<1>3. T \in SUBSET Nat /\ T # {}
  <2>1. PICK a \in S : TRUE
    OBVIOUS
  <2>2. L - a \in Nat /\ L - (L - a) = a
    OBVIOUS
  <2> QED BY <2>1, <2>2
<1>4. PICK k \in T : \A j \in T : ~(<<j, k>> \in R)
  <2> HIDE DEF R, T
  <2> QED BY <1>1, <1>3, WFMin
<1>5. L - k \in S /\ \A n \in S : n <= L - k
  <2>1. k \in Nat /\ L - k \in S
    BY <1>4
  <2>2. ASSUME NEW n \in S PROVE n <= L - k
    <3>1. L - n \in Nat /\ L - (L - n) = n
      OBVIOUS
    <3>2. L - n \in T
      BY <3>1
    <3>3. ~(L - n < k)
      BY <1>2, <1>4, <3>1, <3>2
    <3> QED BY <2>1, <3>1, <3>3
  <2> QED BY <2>1, <2>2
<1>6. \E x \in S : \A n \in S : x >= n
  BY <1>5
<1>7. \A x \in S, n \in S : x >= n <=> n <= x
  OBVIOUS
<1> QED BY <1>6, <1>7 DEF Max

(********************************** the theorems ****************************)

\* The types hold, with operations named only once queued and a pass's entry in
\* the feed: the induction the other two stand on.
LEMMA CodeInvariant == CodeSpec => [](CodeInv /\ OwedIsRecorded /\ AdoptedInv /\ ActiveInv)
<1> DEFINE I == CodeInv /\ OwedIsRecorded /\ AdoptedInv /\ ActiveInv
<1>1. CodeInit => I
  BY InitInv
<1>2. I /\ [CodeNext]_codeVars => I'
  BY TypeStep, RefsStep, PlaceStep, OwedStep, ActiveStep DEF CodeInv
<1> QED BY <1>1, <1>2, PTL DEF CodeSpec

\* The types of the repository's generations, the exchange and the passes, for
\* any number of machines, contents and operations.
THEOREM CodeTypeCorrect == CodeSpec => []CodeTypeOK
<1>1. CodeInv => CodeTypeOK
  BY DEF CodeInv
<1> QED BY <1>1, CodeInvariant, PTL

\* The outbox never names a generation that the sweep of gc took away.
THEOREM OwedIsRecordedAlways == CodeSpec => []OwedIsRecorded
BY CodeInvariant, PTL

\* What a machine has active the hub has accepted: code_capture.rs activates
\* upon the answer, and the pull only what it reads from the feed.
THEOREM ActiveWasAcceptedAlways == CodeSpec => []ActiveWasAccepted
<1>1. AdoptedInv /\ ActiveInv => ActiveWasAccepted
  BY DEF AdoptedInv, ActiveInv, ActiveWasAccepted
<1> QED BY <1>1, CodeInvariant, PTL

\* FollowInv, the stronger fact FollowsUpstream is read off, is an invariant.
LEMMA FollowInvariant == CodeSpec => []FollowInv
BY FollowInit, FollowStep, PTL DEF CodeSpec

\* Between passes, a machine that read the whole feed has active what the hub is
\* at - unless it is set back: whoever planned it (code_capture.rs), whatever the
\* pull (code_graph.rs) landed or superseded, and whatever was resent, killed,
\* answered late, rewound for a hold or swept.
THEOREM FollowsUpstreamAlways == CodeSpec => []FollowsUpstream
<1>1. FollowInv /\ AdoptedInv /\ ActiveInv => FollowsUpstream
  <2> SUFFICES ASSUME FollowInv, AdoptedInv, ActiveInv,
                      NEW m \in Machines, AtTheEnd(m), m \notin setBack
               PROVE  active[m] = Tip
    BY DEF FollowsUpstream
  <2>1. reached[m] = Len(chain) /\ Len(chain) \in Nat
    BY Standing DEF AtTheEnd
  <2>2. PICK r \in reached[m] .. Len(chain) :
          Follows(m, r, reached[m], known[m], landed[m], active[m], Recorded(m))
    BY Standing DEF KeepsUp
  <2>3. \A n \in 1 .. Len(chain) : IsCode(n) => Current(active[m], n)
    <3>1. r = Len(chain)
      BY <2>1
    <3> QED BY <2>2, <3>1 DEF Follows
  <2> DEFINE codes == {n \in 1 .. Len(chain) : IsCode(n)}
  <2>4. Tip = IF codes = {} THEN NoGeneration ELSE GenerationAt(Max(codes))
    BY DEF Tip
  <2>5. CASE codes = {}
    <3>1. active[m] \notin adopted[m]
      BY <2>5 DEF AdoptedInv
    <3> QED BY <2>4, <2>5, <3>1 DEF ActiveInv
  <2>6. CASE codes # {}
    <3>1. Max(codes) \in codes /\ \A n \in codes : n <= Max(codes)
      <4>1. codes \in SUBSET (1 .. Len(chain))
        OBVIOUS
      <4> HIDE DEF codes
      <4> QED BY <2>1, <2>6, <4>1, Greatest
    <3>2. PICK n \in 1 .. Len(chain) : n = Max(codes) /\ IsCode(n)
      BY <3>1
    <3>3. PICK a \in n .. Len(chain) : IsCode(a) /\ GenerationAt(a) = active[m]
      BY <2>3, <3>2 DEF Current
    <3>4. a = n
      BY <2>1, <3>1, <3>2, <3>3
    <3> QED BY <2>4, <2>6, <3>2, <3>3, <3>4
  <2> QED BY <2>5, <2>6
<1> QED BY <1>1, CodeInvariant, FollowInvariant, PTL
================================================================================
