------------------------- MODULE ReplicaExchangeProofs -------------------------
(****************************************************************************)
(* Theorems about ReplicaExchange, for any number of clients, memories,      *)
(* payloads, operations and faults.                                          *)
(****************************************************************************)
EXTENDS ExchangeConvergence, FiniteSetTheorems, WellFoundedInduction, TLAPS

--------------------------------------------------------------------------------
\* The inductive invariant, part by part.

\* Operation ids are minted in order and each is in one row of one outbox.
Minted(c) ==
    /\ Len(outbox[c]) <= minted
    /\ \A k \in Rows(c) :
          /\ outbox[c][k].oid <= minted /\ state[outbox[c][k].oid] # "none"
          /\ \A j \in Rows(c) : j < k => outbox[c][j].oid < outbox[c][k].oid

Apart(c, d) ==
    c # d => \A k \in Rows(c), j \in Rows(d) : outbox[c][k].oid # outbox[d][j].oid

Fresh == \A o \in Oids : o > minted => receipt[o] = NoReceipt

\* Feed and receipts say the same: each accepted operation has one position.
FeedIsReceipted ==
    /\ \A n \in 1 .. Len(feed) :
          feed[n].oid <= minted
          /\ receipt[feed[n].oid].disposition = "accepted" /\ receipt[feed[n].oid].sequence = n
    /\ \A o \in Oids : receipt[o].disposition = "accepted" =>
          receipt[o].sequence \in 1 .. Len(feed) /\ feed[receipt[o].sequence].oid = o

\* The feed holds of an operation what its client has in the outbox.
FeedIsOwned(c) ==
    \A k \in Rows(c), n \in 1 .. Len(feed) :
        outbox[c][k].oid = feed[n].oid => feed[n] = EntryOf(outbox[c][k])

\* Position n of the feed deleted memory i.
Deletes(n, i) == n \in 1 .. Len(feed) /\ feed[n].id = i /\ feed[n].op = "tombstone"

\* What a client remembers of a deletion upstream is one.
DeletionsKnown(c) ==
    /\ \A i \in Ids : binding[c][i].deleted => Deletes(binding[c][i].sequence, i)
    /\ \A k \in Rows(c) : outbox[c][k].seen # 0 => Deletes(outbox[c][k].seen, outbox[c][k].id)

Pulling == {"pull", "apply", "bind", "advance"}
Pushing == {"sent", "answered", "settled"}

\* A pass pulls inside the feed.
PullsWithin(c) ==
    /\ cursor[c] <= Len(feed) /\ pass[c].head <= Len(feed) /\ pass[c].upto <= Len(feed)
    /\ \A i \in Ids : binding[c][i].sequence <= Len(feed)
    /\ holds[c] \subseteq 1 .. Len(feed)
    /\ pass[c].step = "page" => cursor[c] < pass[c].head
    /\ pass[c].step \in Pulling => cursor[c] < pass[c].upto

\* What is on the wire are rows; their answers come in order.
WireIsOwed(c) ==
    /\ pass[c].step \notin Pushing => pass[c].wire = {}
    /\ pass[c].wire \subseteq Rows(c)
    /\ pass[c].step \in Pushing => Rest(c) # {}
    /\ \A k \in pass[c].wire :
          /\ outbox[c][k].op = "restore" => outbox[c][k].seen # 0
          /\ pass[c].step = "sent" \/ (k > pass[c].done /\ pass[c].step = "answered")
                => k \in Pending(c)
          /\ pass[c].step = "settled" /\ k \in Rest(c) /\ k # Turn(c) => k \in Pending(c)
          /\ pass[c].step \in {"answered", "settled"} \/ k <= pass[c].done
                => receipt[outbox[c][k].oid].disposition # "none"
    /\ pass[c].step = "settled" => receipt[Asked(c).oid].disposition = "accepted"

ClientInv(c) ==
    Minted(c) /\ FeedIsOwned(c) /\ DeletionsKnown(c) /\ PullsWithin(c) /\ WireIsOwed(c)

SafeInv ==
    /\ TypeOK /\ Fresh /\ FeedIsReceipted
    /\ \A c \in Clients : ClientInv(c)
    /\ \A c, d \in Clients : Apart(c, d)

--------------------------------------------------------------------------------
\* The least element of a set of naturals, which Min chooses.

LEMMA LeastNat ==
    ASSUME NEW T \in SUBSET Nat, T # {}
    PROVE  \E x \in T : \A y \in T : x <= y
<1> DEFINE R == OpToRel(<, Nat)
<1>1. IsWellFoundedOn(R, Nat)
  BY NatLessThanWellFounded
<1>2. \A y, x \in Nat : <<y, x>> \in R <=> y < x
  BY DEF OpToRel
<1> HIDE DEF R
<1>3. PICK x \in T : \A y \in T : ~(<<y, x>> \in R)
  BY <1>1, WFMin
<1>4. \A y \in T : y \in Nat /\ x \in Nat /\ ~(y < x)
  BY <1>2, <1>3
<1> QED
  BY <1>4

LEMMA MinIsLeast ==
    ASSUME NEW T \in SUBSET Nat, T # {}
    PROVE  Min(T) \in T /\ \A y \in T : Min(T) <= y
  BY LeastNat DEF Min

\* The row a request is at is the first of those left.
LEMMA TurnIsFirst ==
    ASSUME NEW c \in Clients, pass[c].wire \in SUBSET Nat, Rest(c) # {}
    PROVE  /\ Turn(c) \in Rest(c) /\ Turn(c) \in pass[c].wire /\ Turn(c) > pass[c].done
           /\ \A k \in Rest(c) : Turn(c) <= k
<1>1. Rest(c) \in SUBSET Nat
  BY DEF Rest
<1>2. Turn(c) \in Rest(c) /\ \A k \in Rest(c) : Turn(c) <= k
  BY <1>1, MinIsLeast DEF Turn
<1> QED
  BY <1>2 DEF Rest

\* A batch of something is not empty.
LEMMA BatchIsNotEmpty ==
    ASSUME NEW c \in Clients, Eligible(c) # {}
    PROVE  Batch(c) # {} /\ Batch(c) \subseteq Eligible(c)
<1>1. Eligible(c) \in SUBSET Nat
  BY DEF Eligible, Pending, Rows
<1>2. PICK x \in Eligible(c) : \A y \in Eligible(c) : x <= y
  BY <1>1, LeastNat
<1>3. {j \in Eligible(c) : j <= x} = {x}
  <2>1. \A j \in Eligible(c) : j \in Nat /\ x \in Nat
    BY <1>1
  <2>2. \A j \in Eligible(c) : j <= x <=> j = x
    BY <1>2, <2>1
  <2> QED
    BY <2>2, Zenon
<1>4. Cardinality({x}) = 1
  BY FS_Singleton
<1>5. Cardinality({j \in Eligible(c) : j <= x}) <= MaxBatch
  <2>1. 1 <= MaxBatch
    BY ConstantsAssumption
  <2> QED
    BY <1>3, <1>4, <2>1
<1>6. x \in Batch(c)
  BY <1>5 DEF Batch
<1> QED
  BY <1>6 DEF Batch

\* A feed in which no operation comes twice is no longer than there are
\* operations.
LEMMA FeedFits ==
    ASSUME NEW f \in Seq(Entries),
           \A n, m \in 1 .. Len(f) : f[n].oid = f[m].oid => n = m
    PROVE  Len(f) <= MaxOps
<1> DEFINE g == [n \in 1 .. Len(f) |-> f[n].oid]
<1>1. g \in [1 .. Len(f) -> Oids]
  <2>1. \A n \in 1 .. Len(f) : f[n] \in Entries
    OBVIOUS
  <2>2. \A e \in Entries : e.oid \in Oids
    BY DEF Entries
  <2> QED
    BY <2>1, <2>2
<1>2. IsFiniteSet(Oids) /\ Cardinality(Oids) = MaxOps
  BY FS_Interval, ConstantsAssumption DEF Oids
<1>3. Cardinality(1 .. Len(f)) = Len(f)
  <2>1. Len(f) \in Nat
    OBVIOUS
  <2>2. Cardinality(1 .. Len(f)) = IF 1 > Len(f) THEN 0 ELSE Len(f) - 1 + 1
    BY <2>1, FS_Interval
  <2> QED
    BY <2>1, <2>2
<1>4. g \in Injection(1 .. Len(f), Oids)
  BY <1>1 DEF Injection, IsInjective
<1>5. Cardinality(1 .. Len(f)) <= Cardinality(Oids)
  BY <1>2, <1>4, FS_Injection
<1> QED
  BY <1>2, <1>3, <1>5

--------------------------------------------------------------------------------
\* Type correctness, action by action.

LEMMA Constants == MaxOps \in Nat /\ 0 \in Positions /\ Positions \subseteq Nat /\ Oids \subseteq Nat
  BY ConstantsAssumption DEF Positions, Oids

LEMMA RowTypes ==
    ASSUME TypeOK, NEW c \in Clients, NEW k \in Rows(c)
    PROVE  /\ outbox[c][k] \in Operations /\ outbox[c][k].oid \in Oids
           /\ outbox[c][k].id \in Ids /\ outbox[c][k].seen \in Nat
<1>1. outbox[c][k] \in Operations
  BY DEF TypeOK, Rows
<1> QED
  BY <1>1, Constants DEF Operations

LEMMA GotoTypes ==
    ASSUME TypeOK, NEW c \in Clients, NEW to \in Steps, Goto(c, to)
    PROVE  pass' \in [Clients -> Passes]
<1>1. [pass[c] EXCEPT !.step = to] \in Passes
  BY DEF TypeOK, Passes
<1>2. pass' = [pass EXCEPT ![c] = [pass[c] EXCEPT !.step = to]]
  BY DEF Goto
<1> QED
  BY <1>1, <1>2 DEF TypeOK

LEMMA IterateTypes ==
    ASSUME TypeOK, NEW c \in Clients, NEW p \in Passes, NEW at, Iterate(c, p, at)
    PROVE  pass' \in [Clients -> Passes]
<1>1. \A step \in Steps :
        [p EXCEPT !.step = step, !.upto = 0, !.wire = {}, !.done = 0] \in Passes
  BY Constants DEF Passes
<1>2. \E step \in Steps : pass' =
        [pass EXCEPT ![c] = [p EXCEPT !.step = step, !.upto = 0, !.wire = {}, !.done = 0]]
  BY DEF Iterate, Steps
<1> QED
  BY <1>1, <1>2 DEF TypeOK

LEMMA NoPassTypes ==
    ASSUME TypeOK, NEW c \in Clients, pass' = [pass EXCEPT ![c] = NoPass]
    PROVE  pass' \in [Clients -> Passes]
<1>1. NoPass \in Passes
  BY Constants DEF Passes, NoPass, Steps
<1> QED
  BY <1>1 DEF TypeOK

LEMMA PositionTypes ==
    ASSUME TypeOK, NEW c \in Clients, At(c, "pull") \/ At(c, "apply") \/ At(c, "bind") \/ At(c, "advance"),
           PullsWithin(c)
    PROVE  /\ Position(c) \in 1 .. Len(feed) /\ Position(c) \in Positions
           /\ Position(c) = cursor[c] + 1 /\ Position(c) <= pass[c].upto
           /\ Entry(c) \in Entries
<1>1. cursor[c] \in Nat /\ pass[c].upto \in 0 .. MaxOps /\ Len(feed) \in Nat
  BY DEF TypeOK, Passes, Positions
<1>2. Position(c) \in 1 .. Len(feed) /\ Position(c) <= pass[c].upto /\ Position(c) = cursor[c] + 1
  BY <1>1 DEF PullsWithin, Pulling, At, Position
<1>3. Entry(c) \in Entries
  BY <1>2 DEF TypeOK, Entry
<1> QED
  BY <1>1, <1>2, <1>3, Constants DEF Positions

\* The feed never outgrows the operations.
LEMMA FeedLength ==
    ASSUME TypeOK, FeedIsReceipted
    PROVE  Len(feed) \in Positions
<1>1. \A n, m \in 1 .. Len(feed) : feed[n].oid = feed[m].oid => n = m
  <2> SUFFICES ASSUME NEW n \in 1 .. Len(feed), NEW m \in 1 .. Len(feed), feed[n].oid = feed[m].oid
               PROVE  n = m
    OBVIOUS
  <2>1. receipt[feed[n].oid].sequence = n /\ receipt[feed[m].oid].sequence = m
    BY DEF FeedIsReceipted
  <2> QED
    BY <2>1
<1>2. Len(feed) <= MaxOps
  BY <1>1, FeedFits DEF TypeOK
<1> QED
  BY <1>2, Constants DEF TypeOK, Positions

--------------------------------------------------------------------------------
\* What a step of one client leaves alone.

\* Nothing on the wire: nothing to check about it.
LEMMA NothingOnTheWire ==
    ASSUME NEW c \in Clients, pass'[c].step \notin Pushing, pass'[c].wire = {}
    PROVE  WireIsOwed(c)'
  BY DEF WireIsOwed, Pushing

\* The pass of d and what it has on the wire stay as they are while somebody
\* else's step answers more, appends to the outbox, and touches no state of d's.
LEMMA OthersWire ==
    ASSUME SafeInv, NEW d \in Clients, pass'[d] = pass[d],
           \A k \in Rows(d) : k \in Rows(d)' /\ outbox'[d][k] = outbox[d][k]
                              /\ state'[outbox[d][k].oid] = state[outbox[d][k].oid],
           \A o \in Oids : receipt[o].disposition # "none" => receipt'[o] = receipt[o]
    PROVE  WireIsOwed(d)'
<1>1. Rest(d)' = Rest(d) /\ Turn(d)' = Turn(d)
  BY DEF Rest, Turn
<1>2. \A k \in Rows(d) : outbox[d][k] \in Operations /\ outbox[d][k].oid \in Oids
  BY RowTypes DEF SafeInv
<1>3. WireIsOwed(d) /\ pass[d] \in Passes
  BY DEF SafeInv, ClientInv, TypeOK
<1>4. \A k \in pass[d].wire : k \in Rows(d)
  BY <1>3 DEF WireIsOwed
<1>5. \A k \in pass[d].wire : k \in Pending(d) => k \in Pending(d)'
  BY <1>4 DEF Pending
<1>6. \A k \in pass[d].wire : receipt[outbox[d][k].oid].disposition # "none" =>
          receipt'[outbox'[d][k].oid] = receipt[outbox[d][k].oid]
  BY <1>2, <1>4
<1>7. pass[d].step = "settled" => Turn(d) \in pass[d].wire
  <2>1. pass[d].wire \in SUBSET Nat
    BY <1>3, Constants DEF Passes
  <2> QED
    BY <1>3, <2>1, TurnIsFirst DEF WireIsOwed, Pushing
<1>8. pass[d].step = "settled" => receipt'[Asked(d)'.oid].disposition = "accepted"
  BY <1>1, <1>3, <1>4, <1>6, <1>7 DEF WireIsOwed, Asked
<1>9. pass'[d].wire \subseteq Rows(d)'
  BY <1>4
<1> QED
  BY <1>1, <1>3, <1>4, <1>5, <1>6, <1>8, <1>9 DEF WireIsOwed

\* A step of the pass of c that the hub and the outboxes do not see: it keeps
\* SafeInv if what it does to c's own pass, cursor, holds and bindings does.
LEMMA PassFrame ==
    ASSUME SafeInv, NEW c \in Clients, TypeOK',
           UNCHANGED <<hub, outbox, minted>>,
           \A d \in Clients \ {c} :
               pass'[d] = pass[d] /\ cursor'[d] = cursor[d] /\ holds'[d] = holds[d]
               /\ binding'[d] = binding[d],
           \A o \in Oids : state'[o] = state[o] \/ (o \in Own(c) /\ state'[o] # "none"),
           \A i \in Ids : binding'[c][i].deleted => Deletes(binding'[c][i].sequence, i),
           PullsWithin(c)', WireIsOwed(c)'
    PROVE  SafeInv'
<1>1. \A d \in Clients : Minted(d)' /\ FeedIsOwned(d)'
  <2> SUFFICES ASSUME NEW d \in Clients PROVE Minted(d)' /\ FeedIsOwned(d)'
    OBVIOUS
  <2>1. Minted(d) /\ FeedIsOwned(d)
    BY DEF SafeInv, ClientInv
  <2>2. \A k \in Rows(d) : outbox[d][k].oid \in Oids
    BY RowTypes DEF SafeInv
  <2> QED
    BY <2>1, <2>2 DEF Minted, FeedIsOwned, Rows, hub, EntryOf
<1>2. \A d \in Clients : DeletionsKnown(d)'
  BY DEF SafeInv, ClientInv, DeletionsKnown, Deletes, Rows, hub
<1>3. \A d \in Clients : PullsWithin(d)'
  BY DEF SafeInv, ClientInv, PullsWithin, hub
<1>4. \A d \in Clients : WireIsOwed(d)'
  <2> SUFFICES ASSUME NEW d \in Clients, d # c PROVE WireIsOwed(d)'
    OBVIOUS
  <2>1. \A k \in Rows(d) : outbox[d][k].oid \in Oids /\ outbox[d][k].oid \notin Own(c)
    BY RowTypes DEF SafeInv, Apart, Own, OidsAt
  <2>2. \A k \in Rows(d) : k \in Rows(d)' /\ outbox'[d][k] = outbox[d][k]
                           /\ state'[outbox[d][k].oid] = state[outbox[d][k].oid]
    BY <2>1 DEF Rows
  <2> QED
    BY <2>2, OthersWire DEF hub
<1>5. (\A d, e \in Clients : Apart(d, e))' /\ Fresh' /\ FeedIsReceipted'
  BY DEF SafeInv, Apart, Rows, hub, Fresh, FeedIsReceipted
<1> QED
  BY <1>1, <1>2, <1>3, <1>4, <1>5 DEF SafeInv, ClientInv

\* What SafeInv and the types say of one client, for the steps below.
LEMMA ClientFacts ==
    ASSUME SafeInv, NEW c \in Clients
    PROVE  /\ TypeOK /\ Minted(c) /\ FeedIsOwned(c) /\ DeletionsKnown(c) /\ PullsWithin(c)
           /\ WireIsOwed(c)
           /\ pass[c] \in Passes /\ pass[c].step \in Steps /\ pass[c].wire \in SUBSET Nat
           /\ pass[c].head \in Positions /\ pass[c].upto \in Positions /\ pass[c].done \in Positions
           /\ pass[c].head \in Nat /\ pass[c].upto \in Nat /\ pass[c].done \in Nat
           /\ cursor[c] \in Nat /\ Len(feed) \in Nat
<1>1. TypeOK /\ ClientInv(c) /\ pass[c] \in Passes
  BY DEF SafeInv, TypeOK
<1>2. cursor[c] \in Positions /\ Len(feed) \in Nat
  BY <1>1 DEF TypeOK
<1>3. /\ pass[c].step \in Steps /\ pass[c].wire \in SUBSET Positions
      /\ pass[c].head \in Positions /\ pass[c].upto \in Positions /\ pass[c].done \in Positions
  BY <1>1 DEF Passes
<1> QED
  BY <1>1, <1>2, <1>3, Constants DEF ClientInv

\* The common case: nothing on the wire, and no state or binding touched.
LEMMA QuietFrame ==
    ASSUME SafeInv, NEW c \in Clients, TypeOK',
           UNCHANGED <<hub, outbox, minted, state, binding>>,
           \A d \in Clients \ {c} :
               pass'[d] = pass[d] /\ cursor'[d] = cursor[d] /\ holds'[d] = holds[d],
           PullsWithin(c)', WireIsOwed(c)'
    PROVE  SafeInv'
<1>1. \A i \in Ids : binding'[c][i].deleted => Deletes(binding'[c][i].sequence, i)
  BY ClientFacts DEF DeletionsKnown
<1> QED
  BY <1>1, PassFrame

LEMMA OpenSafe ==
    ASSUME SafeInv, NEW c \in Clients, NEW legs \in Legs, Open(c, legs)
    PROVE  SafeInv'
<1> DEFINE due == IF legs = "both" THEN Due(c) ELSE {}
           p == [NoPass EXCEPT !.head = IF legs = "both" THEN Len(feed) ELSE 0]
<1>1. PICK head \in Positions : p = [NoPass EXCEPT !.head = head] /\ head <= Len(feed)
  BY Constants, ClientFacts, FeedLength DEF SafeInv
<1>2. p \in Passes /\ p.upto = 0 /\ p.wire = {} /\ p.step = "idle" /\ p.head <= Len(feed)
  BY <1>1, Constants DEF NoPass, Passes, Steps
<1> HIDE DEF p
<1>3. due \subseteq holds[c] /\ due \in SUBSET Nat
  BY ClientFacts DEF Due, PullsWithin
<1>4. CASE due = {} /\ Iterate(c, p, cursor[c])
  <2>1. pass' \in [Clients -> Passes]
    BY <1>2, <1>4, IterateTypes, ClientFacts
  <2>2. UNCHANGED <<hub, local, outbox, state, binding, cursor, applied, bounds>>
        /\ holds' = [holds EXCEPT ![c] = @ \ due]
    BY DEF Open, due
  <2>3. TypeOK'
    BY <2>1, <2>2, ClientFacts DEF TypeOK, hub, bounds
  <2>4. /\ pass'[c].step = (IF cursor[c] < p.head THEN "page" ELSE "push")
        /\ pass'[c].wire = {} /\ pass'[c].upto = 0 /\ pass'[c].head = p.head
    BY <1>2, <1>4, ClientFacts DEF Iterate, TypeOK, Passes
  <2>5. PullsWithin(c)'
    BY <1>2, <2>2, <2>4, ClientFacts DEF PullsWithin, Pulling, hub, TypeOK
  <2>6. \A d \in Clients \ {c} : pass'[d] = pass[d] /\ cursor'[d] = cursor[d] /\ holds'[d] = holds[d]
    BY <1>4, <2>2, ClientFacts DEF Iterate, TypeOK
  <2>7. WireIsOwed(c)'
    BY <2>4, NothingOnTheWire DEF Pushing
  <2> QED
    BY <2>2, <2>3, <2>5, <2>6, <2>7, QuietFrame DEF bounds
<1>5. CASE due # {} /\ pass' = [pass EXCEPT ![c] = [p EXCEPT !.step = "rewind", !.upto = Min(due) - 1]]
  <2>1. Min(due) \in due
    BY <1>3, <1>5, MinIsLeast
  <2>2. Min(due) \in 1 .. Len(feed) /\ Min(due) - 1 \in Positions
    BY <1>3, <2>1, ClientFacts, FeedLength, Constants DEF SafeInv, PullsWithin, Positions
  <2>3. pass' = [pass EXCEPT ![c] = [p EXCEPT !.step = "rewind", !.upto = Min(due) - 1]]
        /\ [p EXCEPT !.step = "rewind", !.upto = Min(due) - 1] \in Passes
    BY <1>2, <1>5, <2>2 DEF Passes, Steps
  <2>4. UNCHANGED <<hub, local, outbox, state, binding, cursor, applied, bounds>>
        /\ holds' = [holds EXCEPT ![c] = @ \ due]
    BY DEF Open, due
  <2>5. TypeOK'
    BY <2>3, <2>4, ClientFacts DEF TypeOK, hub, bounds
  <2>6. pass'[c].step = "rewind" /\ pass'[c].wire = {} /\ pass'[c].upto = Min(due) - 1
        /\ pass'[c].head = p.head
    BY <1>2, <2>3, ClientFacts DEF TypeOK, Passes
  <2>7. PullsWithin(c)'
    BY <1>2, <2>2, <2>4, <2>6, ClientFacts DEF PullsWithin, Pulling, hub, TypeOK
  <2>8. \A d \in Clients \ {c} : pass'[d] = pass[d] /\ cursor'[d] = cursor[d] /\ holds'[d] = holds[d]
    BY <2>3, <2>4, ClientFacts DEF TypeOK
  <2>9. WireIsOwed(c)'
    BY <2>6, NothingOnTheWire DEF Pushing
  <2> QED
    BY <2>4, <2>5, <2>7, <2>8, <2>9, QuietFrame DEF bounds
<1> QED
  BY <1>4, <1>5 DEF Open, due, p

LEMMA RewindSafe ==
    ASSUME SafeInv, NEW c \in Clients, Rewind(c)
    PROVE  SafeInv'
<1> DEFINE back == Min({cursor[c], pass[c].upto})
<1>1. back \in {cursor[c], pass[c].upto} /\ back <= cursor[c]
  <2>1. {cursor[c], pass[c].upto} \in SUBSET Nat /\ {cursor[c], pass[c].upto} # {}
    BY ClientFacts, Constants
  <2> QED
    BY <2>1, MinIsLeast
<1>2. back \in Positions /\ back <= Len(feed)
  BY <1>1, ClientFacts DEF PullsWithin, TypeOK
<1>3. UNCHANGED <<hub, local, outbox, state, binding, holds, applied, bounds>>
      /\ cursor' = [cursor EXCEPT ![c] = back] /\ Iterate(c, pass[c], back)
  BY DEF Rewind, back
<1> HIDE DEF back
<1>4. pass' \in [Clients -> Passes]
  BY <1>3, IterateTypes, ClientFacts
<1>5. TypeOK'
  BY <1>2, <1>3, <1>4, ClientFacts DEF TypeOK, hub, bounds
<1>6. /\ pass'[c].step = (IF back < pass[c].head THEN "page" ELSE "push")
      /\ pass'[c].wire = {} /\ pass'[c].upto = 0 /\ pass'[c].head = pass[c].head
  BY <1>3, ClientFacts DEF Iterate, TypeOK, Passes
<1>7. PullsWithin(c)'
  BY <1>2, <1>3, <1>6, ClientFacts DEF PullsWithin, Pulling, hub, TypeOK
<1>8. \A d \in Clients \ {c} : pass'[d] = pass[d] /\ cursor'[d] = cursor[d] /\ holds'[d] = holds[d]
  BY <1>3, ClientFacts DEF Iterate, TypeOK
<1>9. WireIsOwed(c)'
  BY <1>6, NothingOnTheWire DEF Pushing
<1> QED
  BY <1>3, <1>5, <1>7, <1>8, <1>9, QuietFrame DEF bounds

LEMMA PageSafe ==
    ASSUME SafeInv, NEW c \in Clients, Page(c)
    PROVE  SafeInv'
<1>1. UNCHANGED <<hub, store, bounds>>
      /\ pass' = [pass EXCEPT ![c] = [pass[c] EXCEPT !.step = "pull", !.upto = Len(feed)]]
  BY DEF Page
<1>2. [pass[c] EXCEPT !.step = "pull", !.upto = Len(feed)] \in Passes
  BY ClientFacts, FeedLength DEF SafeInv, Passes, Steps
<1>3. TypeOK'
  BY <1>1, <1>2, ClientFacts DEF TypeOK, hub, store, bounds
<1>4. /\ pass'[c].step = "pull" /\ pass'[c].wire = pass[c].wire /\ pass'[c].upto = Len(feed)
      /\ pass'[c].head = pass[c].head
  BY <1>1, ClientFacts DEF TypeOK, Passes
<1>5. At(c, "page")
  BY DEF Page
<1>6. PullsWithin(c)'
  BY <1>1, <1>4, <1>5, ClientFacts DEF PullsWithin, Pulling, hub, store, At
<1>7. WireIsOwed(c)'
  <2>1. pass[c].wire = {}
    BY <1>5, ClientFacts DEF WireIsOwed, Pushing, At
  <2> QED
    BY <1>4, <2>1, NothingOnTheWire DEF Pushing
<1>8. \A d \in Clients \ {c} : pass'[d] = pass[d] /\ cursor'[d] = cursor[d] /\ holds'[d] = holds[d]
  BY <1>1, ClientFacts DEF TypeOK, store
<1> QED
  BY <1>1, <1>3, <1>6, <1>7, <1>8, QuietFrame DEF bounds, store

\* A pull goes from one of its steps to another.
LEMMA PullGoes ==
    ASSUME SafeInv, NEW c \in Clients, pass[c].step \in Pulling, NEW to \in Pulling, Goto(c, to)
    PROVE  /\ pass' \in [Clients -> Passes] /\ \A d \in Clients \ {c} : pass'[d] = pass[d]
           /\ pass'[c].step = to /\ pass'[c].wire = {} /\ pass'[c].upto = pass[c].upto
           /\ pass'[c].head = pass[c].head
           /\ WireIsOwed(c)'
<1>1. to \in Steps
  BY DEF Pulling, Steps
<1>2. pass[c].wire = {}
  BY ClientFacts DEF WireIsOwed, Pulling, Pushing
<1>3. pass' \in [Clients -> Passes]
  BY <1>1, GotoTypes DEF SafeInv
<1>4. /\ \A d \in Clients \ {c} : pass'[d] = pass[d]
      /\ pass'[c].step = to /\ pass'[c].wire = {} /\ pass'[c].upto = pass[c].upto
      /\ pass'[c].head = pass[c].head
  BY <1>2, ClientFacts DEF Goto, TypeOK, Passes
<1>5. WireIsOwed(c)'
  BY <1>4, NothingOnTheWire DEF Pulling, Pushing
<1> QED
  BY <1>3, <1>4, <1>5

LEMMA SettleTypes ==
    ASSUME TypeOK, NEW oids, Settle(oids)
    PROVE  /\ state' \in [Oids -> {"none", "pending", "accepted", "rejected"}]
           /\ \A o \in Oids : state'[o] = IF o \in oids THEN "accepted" ELSE state[o]
  BY DEF TypeOK, Settle

LEMMA SettledSafe ==
    ASSUME SafeInv, NEW c \in Clients, At(c, "pull"), NEW oids \in SUBSET Own(c),
           Settle(oids), Goto(c, "bind"),
           UNCHANGED <<hub, local, outbox, binding, cursor, holds, applied, bounds>>
    PROVE  SafeInv'
<1>1. /\ pass' \in [Clients -> Passes] /\ \A d \in Clients \ {c} : pass'[d] = pass[d]
      /\ pass'[c].step = "bind" /\ pass'[c].upto = pass[c].upto /\ pass'[c].head = pass[c].head
      /\ WireIsOwed(c)'
  BY PullGoes DEF At, Pulling
<1>2. /\ state' \in [Oids -> {"none", "pending", "accepted", "rejected"}]
      /\ \A o \in Oids : state'[o] = IF o \in oids THEN "accepted" ELSE state[o]
  BY SettleTypes DEF SafeInv
<1>3. TypeOK'
  BY <1>1, <1>2, ClientFacts DEF TypeOK, hub, bounds
<1>4. PullsWithin(c)'
  BY <1>1, ClientFacts DEF PullsWithin, Pulling, hub, At
<1>5. \A i \in Ids : binding'[c][i].deleted => Deletes(binding'[c][i].sequence, i)
  BY ClientFacts DEF DeletionsKnown
<1> QED
  BY <1>1, <1>2, <1>3, <1>4, <1>5, PassFrame DEF bounds

LEMMA ResolveOwnSafe ==
    ASSUME SafeInv, NEW c \in Clients, ResolveOwn(c)
    PROVE  SafeInv'
<1>1. {Entry(c).oid} \in SUBSET Own(c)
  BY DEF ResolveOwn
<1> QED
  BY <1>1, SettledSafe DEF ResolveOwn

LEMMA ResolveUpstreamSafe ==
    ASSUME SafeInv, NEW c \in Clients, ResolveUpstream(c)
    PROVE  SafeInv'
<1>1. AlreadyUpstream(c) \in SUBSET Own(c)
  BY DEF AlreadyUpstream, OidsAt, PendingOn, Pending, Own
<1> QED
  BY <1>1, SettledSafe DEF ResolveUpstream, Foreign

\* The cursor moves past an entry that is settled, held or skipped.
LEMMA PastEntrySafe ==
    ASSUME SafeInv, NEW c \in Clients, At(c, "pull") \/ At(c, "advance"), PastEntry(c),
           UNCHANGED <<hub, local, outbox, state, binding, holds, applied, bounds>>
    PROVE  SafeInv'
<1>1. /\ Position(c) \in 1 .. Len(feed) /\ Position(c) \in Positions
      /\ Position(c) = cursor[c] + 1 /\ Position(c) <= pass[c].upto
  BY PositionTypes, ClientFacts
<1>2. pass[c].wire = {}
  BY ClientFacts DEF WireIsOwed, Pushing, At
<1>3. cursor' = [cursor EXCEPT ![c] = Position(c)]
  BY DEF PastEntry
<1>4. CASE Position(c) < pass[c].upto /\ Goto(c, "pull")
  <2>1. /\ pass' \in [Clients -> Passes] /\ \A d \in Clients \ {c} : pass'[d] = pass[d]
        /\ pass'[c].step = "pull" /\ pass'[c].upto = pass[c].upto /\ pass'[c].head = pass[c].head
        /\ WireIsOwed(c)'
    BY <1>4, PullGoes DEF At, Pulling
  <2>2. TypeOK'
    BY <1>1, <1>3, <2>1, ClientFacts DEF TypeOK, hub, bounds
  <2>3. cursor'[c] = Position(c) /\ \A d \in Clients \ {c} : cursor'[d] = cursor[d]
    BY <1>3, ClientFacts DEF TypeOK
  <2>4. PullsWithin(c)'
    BY <1>1, <1>4, <2>1, <2>3, ClientFacts DEF PullsWithin, Pulling, hub
  <2> QED
    BY <2>1, <2>2, <2>3, <2>4, QuietFrame DEF bounds
<1>5. CASE pass' = [pass EXCEPT ![c].step = "push", ![c].upto = 0]
  <2>1. [pass[c] EXCEPT !.step = "push", !.upto = 0] \in Passes
    BY ClientFacts, Constants DEF Passes, Steps
  <2>2. pass' = [pass EXCEPT ![c] = [pass[c] EXCEPT !.step = "push", !.upto = 0]]
    BY <1>5
  <2>3. TypeOK'
    BY <1>1, <1>3, <2>1, <2>2, ClientFacts DEF TypeOK, hub, bounds
  <2>4. /\ \A d \in Clients \ {c} : pass'[d] = pass[d] /\ cursor'[d] = cursor[d]
        /\ pass'[c].step = "push" /\ pass'[c].upto = 0 /\ pass'[c].head = pass[c].head
        /\ pass'[c].wire = {} /\ cursor'[c] = Position(c)
    BY <1>2, <1>3, <2>2, ClientFacts DEF TypeOK, Passes
  <2>5. PullsWithin(c)'
    BY <1>1, <2>4, ClientFacts DEF PullsWithin, Pulling, hub
  <2>6. WireIsOwed(c)'
    BY <2>4, NothingOnTheWire DEF Pushing
  <2> QED
    BY <2>3, <2>4, <2>5, <2>6, QuietFrame DEF bounds
<1> QED
  BY <1>4, <1>5 DEF PastEntry

LEMMA ResolveSupersededSafe ==
    ASSUME SafeInv, NEW c \in Clients, ResolveSuperseded(c)
    PROVE  SafeInv'
  BY PastEntrySafe DEF ResolveSuperseded, Foreign

LEMMA AdvanceSafe ==
    ASSUME SafeInv, NEW c \in Clients, Advance(c)
    PROVE  SafeInv'
  BY PastEntrySafe DEF Advance

LEMMA ResolvePendingSafe ==
    ASSUME SafeInv, NEW c \in Clients, ResolvePending(c)
    PROVE  SafeInv'
<1>1. At(c, "pull") /\ Goto(c, "advance")
      /\ holds' = [holds EXCEPT ![c] = @ \cup {Position(c)}]
      /\ UNCHANGED <<hub, local, outbox, state, binding, cursor, applied, bounds>>
  BY DEF ResolvePending, Foreign
<1>2. Position(c) \in 1 .. Len(feed) /\ Position(c) \in Positions
  BY <1>1, PositionTypes, ClientFacts
<1>3. /\ pass' \in [Clients -> Passes] /\ \A d \in Clients \ {c} : pass'[d] = pass[d]
      /\ pass'[c].step = "advance" /\ pass'[c].upto = pass[c].upto /\ pass'[c].head = pass[c].head
      /\ WireIsOwed(c)'
  BY <1>1, PullGoes DEF At, Pulling
<1>4. TypeOK'
  BY <1>1, <1>2, <1>3, ClientFacts DEF TypeOK, hub, bounds
<1>5. holds'[c] = holds[c] \cup {Position(c)} /\ \A d \in Clients \ {c} : holds'[d] = holds[d]
  BY <1>1, ClientFacts DEF TypeOK
<1>6. PullsWithin(c)'
  BY <1>1, <1>2, <1>3, <1>5, ClientFacts DEF PullsWithin, Pulling, hub, At
<1> QED
  BY <1>1, <1>3, <1>4, <1>5, <1>6, QuietFrame DEF bounds

LEMMA ResolveApplySafe ==
    ASSUME SafeInv, NEW c \in Clients, ResolveApply(c)
    PROVE  SafeInv'
<1>1. At(c, "pull") /\ Goto(c, "apply") /\ UNCHANGED <<hub, store, bounds>>
  BY DEF ResolveApply, Foreign
<1>2. /\ pass' \in [Clients -> Passes] /\ \A d \in Clients \ {c} : pass'[d] = pass[d]
      /\ pass'[c].step = "apply" /\ pass'[c].upto = pass[c].upto /\ pass'[c].head = pass[c].head
      /\ WireIsOwed(c)'
  BY <1>1, PullGoes DEF At, Pulling
<1>3. TypeOK'
  BY <1>1, <1>2, ClientFacts DEF TypeOK, hub, store, bounds
<1>4. PullsWithin(c)'
  BY <1>1, <1>2, ClientFacts DEF PullsWithin, Pulling, hub, store, At
<1> QED
  BY <1>1, <1>2, <1>3, <1>4, QuietFrame DEF bounds, store

LEMMA ApplySafe ==
    ASSUME SafeInv, NEW c \in Clients, Apply(c)
    PROVE  SafeInv'
<1>1. At(c, "apply") /\ Goto(c, "bind")
      /\ UNCHANGED <<hub, outbox, state, binding, cursor, holds, bounds>>
  BY DEF Apply
<1>2. Entry(c) \in Entries
  BY <1>1, PositionTypes, ClientFacts
<1>3. /\ pass' \in [Clients -> Passes] /\ \A d \in Clients \ {c} : pass'[d] = pass[d]
      /\ pass'[c].step = "bind" /\ pass'[c].upto = pass[c].upto /\ pass'[c].head = pass[c].head
      /\ WireIsOwed(c)'
  BY <1>1, PullGoes DEF At, Pulling
<1>4. Entry(c).oid \in Oids /\ Entry(c).id \in Ids /\ Entry(c).val \in Values \cup {None}
  BY <1>2 DEF Entries
<1>5. local[c][Entry(c).id] \in Memories
  BY <1>4, ClientFacts DEF TypeOK
<1>6. local' \in [Clients -> [Ids -> Memories]]
  <2>1. Live(Entry(c).val) \in Memories
        /\ [local[c][Entry(c).id] EXCEPT !.state = "deleted"] \in Memories
    BY <1>4, <1>5 DEF Memories, Live
  <2>2. CASE local' = local
    BY <2>2, ClientFacts DEF TypeOK
  <2>3. CASE Entry(c).oid \notin applied[c]
    <3>1. \E m \in Memories : local' = [local EXCEPT ![c][Entry(c).id] = m]
      BY <1>5, <2>1, <2>3 DEF Apply
    <3> QED
      BY <1>4, <3>1, ClientFacts DEF TypeOK
  <2> QED
    BY <2>2, <2>3 DEF Apply
<1>7. applied' \in [Clients -> SUBSET Oids]
  <2>1. applied[c] \cup {Entry(c).oid} \in SUBSET Oids /\ applied \in [Clients -> SUBSET Oids]
    BY <1>4, ClientFacts DEF TypeOK
  <2>2. applied' = applied \/ applied' = [applied EXCEPT ![c] = applied[c] \cup {Entry(c).oid}]
    BY DEF Apply
  <2> QED
    BY <2>1, <2>2
<1>8. TypeOK'
  BY <1>1, <1>3, <1>6, <1>7, ClientFacts DEF TypeOK, hub, bounds
<1>9. PullsWithin(c)'
  BY <1>1, <1>3, ClientFacts DEF PullsWithin, Pulling, hub, At
<1> QED
  BY <1>1, <1>3, <1>8, <1>9, QuietFrame DEF bounds

LEMMA BindSafe ==
    ASSUME SafeInv, NEW c \in Clients, Bind(c)
    PROVE  SafeInv'
<1> DEFINE b == [sequence |-> Position(c), deleted |-> Entry(c).op = "tombstone"]
           i == Entry(c).id
<1>1. At(c, "bind") /\ Goto(c, "advance") /\ binding' = [binding EXCEPT ![c][i] = b]
      /\ UNCHANGED <<hub, local, outbox, state, cursor, holds, applied, bounds>>
  BY DEF Bind
<1>2. Position(c) \in 1 .. Len(feed) /\ Position(c) \in Positions /\ Entry(c) \in Entries
  BY <1>1, PositionTypes, ClientFacts
<1>3. i \in Ids /\ b \in Bindings /\ b.sequence = Position(c)
      /\ b.deleted = (Entry(c).op = "tombstone")
  BY <1>2 DEF Entries, Bindings
<1> HIDE DEF b, i
<1>4. /\ pass' \in [Clients -> Passes] /\ \A d \in Clients \ {c} : pass'[d] = pass[d]
      /\ pass'[c].step = "advance" /\ pass'[c].upto = pass[c].upto /\ pass'[c].head = pass[c].head
      /\ WireIsOwed(c)'
  BY <1>1, PullGoes DEF At, Pulling
<1>5. binding' \in [Clients -> [Ids -> Bindings]]
  BY <1>1, <1>3, ClientFacts DEF TypeOK
<1>6. TypeOK'
  BY <1>1, <1>4, <1>5, ClientFacts DEF TypeOK, hub, bounds
<1>7. /\ \A d \in Clients \ {c} : binding'[d] = binding[d]
      /\ \A m \in Ids : binding'[c][m] = IF m = i THEN b ELSE binding[c][m]
  BY <1>1, ClientFacts DEF TypeOK
<1>8. \A m \in Ids : binding'[c][m].deleted => Deletes(binding'[c][m].sequence, m)
  <2>1. b.deleted => Deletes(b.sequence, i)
    BY <1>2, <1>3 DEF Deletes, i, Entry
  <2> QED
    BY <1>7, <2>1, ClientFacts DEF DeletionsKnown
<1>9. PullsWithin(c)'
  BY <1>1, <1>2, <1>3, <1>4, <1>7, ClientFacts DEF PullsWithin, Pulling, hub, At
<1> QED
  BY <1>1, <1>4, <1>6, <1>7, <1>8, <1>9, PassFrame DEF bounds

\* A pass that ends or goes back to pushing with nothing on the wire.
LEMMA EndsSafe ==
    ASSUME SafeInv, NEW c \in Clients, pass' = [pass EXCEPT ![c] = NoPass],
           UNCHANGED <<hub, store, minted>>, faults' \in Seq(Faults)
    PROVE  SafeInv'
<1>1. pass' \in [Clients -> Passes]
  BY NoPassTypes, ClientFacts
<1>2. TypeOK'
  BY <1>1, ClientFacts DEF TypeOK, hub, store
<1>3. /\ \A d \in Clients \ {c} : pass'[d] = pass[d]
      /\ pass'[c] = NoPass
  BY ClientFacts DEF TypeOK
<1>4. PullsWithin(c)'
  BY <1>3, ClientFacts DEF PullsWithin, Pulling, hub, store, NoPass
<1>5. WireIsOwed(c)'
  BY <1>3, NothingOnTheWire DEF Pushing, NoPass
<1> QED
  BY <1>2, <1>3, <1>4, <1>5, QuietFrame DEF store

LEMMA FaultTypes ==
    ASSUME TypeOK, NEW kind, Fault(kind)
    PROVE  faults' \in Seq(Faults)
  BY DEF TypeOK, Fault

LEMMA PassDoneSafe ==
    ASSUME SafeInv, NEW c \in Clients, PassDone(c)
    PROVE  SafeInv'
  BY EndsSafe, ClientFacts DEF PassDone, bounds, TypeOK

LEMMA CrashSafe ==
    ASSUME SafeInv, NEW c \in Clients, Crash(c)
    PROVE  SafeInv'
  BY EndsSafe, ClientFacts, FaultTypes DEF Crash

LEMMA StallSafe ==
    ASSUME SafeInv, NEW c \in Clients, Stall(c)
    PROVE  SafeInv'
<1>1. At(c, "apply") /\ faults' \in Seq(Faults) /\ UNCHANGED <<hub, store, minted>>
      /\ pass' = [pass EXCEPT ![c] = [pass[c] EXCEPT !.step = "push", !.head = 0]]
  BY FaultTypes, ClientFacts DEF Stall
<1>2. [pass[c] EXCEPT !.step = "push", !.head = 0] \in Passes
  BY ClientFacts, Constants DEF Passes, Steps
<1>3. TypeOK'
  BY <1>1, <1>2, ClientFacts DEF TypeOK, hub, store
<1>4. pass[c].wire = {}
  BY <1>1, ClientFacts DEF WireIsOwed, Pushing, At
<1>5. /\ \A d \in Clients \ {c} : pass'[d] = pass[d]
      /\ pass'[c].step = "push" /\ pass'[c].wire = {} /\ pass'[c].upto = pass[c].upto
      /\ pass'[c].head = 0
  BY <1>1, <1>4, ClientFacts DEF TypeOK, Passes
<1>6. PullsWithin(c)'
  BY <1>1, <1>5, ClientFacts DEF PullsWithin, Pulling, hub, store
<1>7. WireIsOwed(c)'
  BY <1>5, NothingOnTheWire DEF Pushing
<1> QED
  BY <1>1, <1>3, <1>5, <1>6, <1>7, QuietFrame DEF store

LEMMA LoseAnswerSafe ==
    ASSUME SafeInv, NEW c \in Clients, LoseAnswer(c)
    PROVE  SafeInv'
<1>1. faults' \in Seq(Faults) /\ UNCHANGED <<hub, store, minted>>
  BY FaultTypes, ClientFacts DEF LoseAnswer
<1>2. CASE pass' = [pass EXCEPT ![c] = NoPass]
  BY <1>1, <1>2, EndsSafe
<1>3. CASE pass' = [pass EXCEPT ![c].step = "sent", ![c].done = 0]
  <2>1. pass' = [pass EXCEPT ![c] = [pass[c] EXCEPT !.step = "sent", !.done = 0]]
    BY <1>3
  <2>2. [pass[c] EXCEPT !.step = "sent", !.done = 0] \in Passes
    BY ClientFacts, Constants DEF Passes, Steps
  <2>3. TypeOK'
    BY <1>1, <2>1, <2>2, ClientFacts DEF TypeOK, hub, store
  <2>4. /\ \A d \in Clients \ {c} : pass'[d] = pass[d]
        /\ pass'[c].step = "sent" /\ pass'[c].wire = pass[c].wire /\ pass'[c].upto = pass[c].upto
        /\ pass'[c].head = pass[c].head /\ pass'[c].done = 0
    BY <2>1, ClientFacts DEF TypeOK, Passes
  <2>5. PullsWithin(c)'
    BY <1>1, <2>4, ClientFacts DEF PullsWithin, Pulling, hub, store
  <2>6. Rest(c) # {} /\ pass[c].wire \subseteq Rows(c) /\ \A k \in pass[c].wire : k > 0
    BY ClientFacts DEF LoseAnswer, WireIsOwed, Pushing, At, Rows
  <2>7. \A k \in pass[c].wire :
          k \in Pending(c) /\ (outbox[c][k].op = "restore" => outbox[c][k].seen # 0)
    BY <2>6, ClientFacts DEF LoseAnswer, WireIsOwed, At
  <2>8. Rest(c)' # {}
    BY <2>4, <2>6, ClientFacts DEF Rest
  <2>9. WireIsOwed(c)'
    BY <1>1, <2>4, <2>6, <2>7, <2>8 DEF WireIsOwed, Pushing, Rows, Pending, store, hub
  <2> QED
    BY <1>1, <2>3, <2>4, <2>5, <2>9, QuietFrame DEF store
<1> QED
  BY <1>2, <1>3 DEF LoseAnswer

\* The row asked for, and what is left after it.
LEMMA AskedFacts ==
    ASSUME SafeInv, NEW c \in Clients, pass[c].step \in Pushing
    PROVE  /\ Turn(c) \in pass[c].wire /\ Turn(c) \in Rest(c) /\ Turn(c) \in Rows(c)
           /\ Turn(c) \in Positions /\ Turn(c) \in Nat /\ Turn(c) > pass[c].done
           /\ Asked(c) = outbox[c][Turn(c)] /\ Asked(c) \in Operations
           /\ Asked(c).oid \in Oids /\ Asked(c).oid \in Own(c) /\ Asked(c).id \in Ids
           /\ {k \in pass[c].wire : k > Turn(c)} = Rest(c) \ {Turn(c)}
           /\ \A k \in Rows(c) : k # Turn(c) => outbox[c][k].oid # Asked(c).oid
<1>1. WireIsOwed(c) /\ pass[c].wire \in SUBSET Nat /\ pass[c].wire \in SUBSET Positions
      /\ pass[c].done \in Nat
  BY ClientFacts DEF Passes
<1>2. /\ Turn(c) \in Rest(c) /\ Turn(c) \in pass[c].wire /\ Turn(c) > pass[c].done
      /\ \A k \in Rest(c) : Turn(c) <= k
  BY <1>1, TurnIsFirst DEF WireIsOwed
<1>3. Turn(c) \in Rows(c) /\ Turn(c) \in Positions /\ Turn(c) \in Nat
  BY <1>1, <1>2 DEF WireIsOwed
<1>4. Asked(c) = outbox[c][Turn(c)] /\ Asked(c) \in Operations /\ Asked(c).oid \in Oids
      /\ Asked(c).id \in Ids
  BY <1>3, RowTypes, ClientFacts DEF Asked
<1>5. {k \in pass[c].wire : k > Turn(c)} = Rest(c) \ {Turn(c)}
  <2>1. \A k \in pass[c].wire : k \in Nat
    BY <1>1
  <2> QED
    BY <1>1, <1>2, <1>3, <2>1 DEF Rest
<1>6. \A k \in Rows(c) : k # Turn(c) => outbox[c][k].oid # outbox[c][Turn(c)].oid
  <2> SUFFICES ASSUME NEW k \in Rows(c), k # Turn(c)
               PROVE  outbox[c][k].oid # outbox[c][Turn(c)].oid
    OBVIOUS
  <2>1. k < Turn(c) \/ Turn(c) < k
    BY <1>3 DEF Rows
  <2>2. outbox[c][k].oid \in Nat /\ outbox[c][Turn(c)].oid \in Nat
    BY <1>3, RowTypes, ClientFacts, Constants
  <2> QED
    BY <1>3, <2>1, <2>2, ClientFacts DEF Minted
<1> QED
  BY <1>1, <1>2, <1>3, <1>4, <1>5, <1>6 DEF Own, OidsAt

\* After an answer: the next one of the same request, or another iteration,
\* or the end of the pass.
LEMMA RecordedGoes ==
    ASSUME SafeInv, NEW c \in Clients, pass[c].step \in {"answered", "settled"}, Recorded(c)
    PROVE  /\ pass' \in [Clients -> Passes] /\ \A d \in Clients \ {c} : pass'[d] = pass[d]
           /\ pass'[c].head <= Len(feed) /\ pass'[c].upto <= Len(feed)
           /\ \/ /\ pass'[c].step = "answered" /\ pass'[c].wire = pass[c].wire
                 /\ pass'[c].done = Turn(c)
                 /\ Rest(c)' = Rest(c) \ {Turn(c)} /\ Rest(c)' # {}
              \/ /\ pass'[c].step \in {"page", "push", "idle"} /\ pass'[c].wire = {}
                 /\ pass'[c].step = "page" => cursor[c] < pass'[c].head
<1> USE DEF Pushing
<1>1. pass[c].head <= Len(feed) /\ pass[c].upto <= Len(feed)
  BY ClientFacts DEF PullsWithin
<1>2. CASE /\ Rest(c) # {Turn(c)}
           /\ pass' = [pass EXCEPT ![c].step = "answered", ![c].done = Turn(c)]
  <2>1. pass' = [pass EXCEPT ![c] = [pass[c] EXCEPT !.step = "answered", !.done = Turn(c)]]
    BY <1>2
  <2>2. [pass[c] EXCEPT !.step = "answered", !.done = Turn(c)] \in Passes
    BY AskedFacts, ClientFacts DEF Passes, Steps
  <2>3. /\ pass' \in [Clients -> Passes] /\ \A d \in Clients \ {c} : pass'[d] = pass[d]
        /\ pass'[c].step = "answered" /\ pass'[c].wire = pass[c].wire /\ pass'[c].done = Turn(c)
        /\ pass'[c].head = pass[c].head /\ pass'[c].upto = pass[c].upto
    BY <2>1, <2>2, ClientFacts DEF TypeOK, Passes
  <2>4. Rest(c)' = Rest(c) \ {Turn(c)}
    BY <2>3, AskedFacts DEF Rest
  <2>5. Rest(c)' # {}
    BY <1>2, <2>4, AskedFacts
  <2> QED
    BY <1>1, <2>3, <2>4, <2>5
<1>3. CASE Iterate(c, pass[c], cursor[c])
  <2>1. pass' \in [Clients -> Passes]
    BY <1>3, IterateTypes, ClientFacts
  <2>2. /\ \A d \in Clients \ {c} : pass'[d] = pass[d]
        /\ pass'[c].step = (IF cursor[c] < pass[c].head THEN "page" ELSE "push")
        /\ pass'[c].wire = {} /\ pass'[c].upto = 0 /\ pass'[c].head = pass[c].head
    BY <1>3, ClientFacts DEF Iterate, TypeOK, Passes
  <2> QED
    BY <1>1, <2>1, <2>2, ClientFacts
<1>4. CASE pass' = [pass EXCEPT ![c] = NoPass]
  <2>1. pass' \in [Clients -> Passes]
    BY <1>4, NoPassTypes, ClientFacts
  <2>2. \A d \in Clients \ {c} : pass'[d] = pass[d]
    BY <1>4, ClientFacts DEF TypeOK
  <2>3. pass'[c] = NoPass
    BY <1>4, ClientFacts DEF TypeOK
  <2> QED
    BY <1>1, <2>1, <2>2, <2>3, ClientFacts DEF NoPass
<1> QED
  BY <1>2, <1>3, <1>4 DEF Recorded

\* The wire stays in order when the answer at hand is recorded, provided what
\* is left of it is still owed.
LEMMA RecordedWire ==
    ASSUME SafeInv, NEW c \in Clients, pass[c].step \in {"answered", "settled"}, Recorded(c),
           UNCHANGED <<hub, outbox>>,
           \A k \in Rest(c) \ {Turn(c)} : k \in Pending(c)'
    PROVE  WireIsOwed(c)'
<1>1. CASE /\ pass'[c].step = "answered" /\ pass'[c].wire = pass[c].wire
           /\ pass'[c].done = Turn(c)
           /\ Rest(c)' = Rest(c) \ {Turn(c)} /\ Rest(c)' # {}
  <2>1. pass[c].wire \subseteq Rows(c) /\ Rows(c)' = Rows(c)
    BY ClientFacts DEF WireIsOwed, Rows
  <2>2. \A k \in pass[c].wire : k > Turn(c) => k \in Pending(c)'
    BY AskedFacts DEF Pushing
  <2>3. \A k \in pass[c].wire :
          /\ outbox[c][k].op = "restore" => outbox[c][k].seen # 0
          /\ receipt[outbox[c][k].oid].disposition # "none"
    BY ClientFacts DEF WireIsOwed
  <2> QED
    BY <1>1, <2>1, <2>2, <2>3 DEF WireIsOwed, Pushing, hub
<1>2. CASE pass'[c].step \in {"page", "push", "idle"} /\ pass'[c].wire = {}
  BY <1>2, NothingOnTheWire DEF Pushing
<1> QED
  BY <1>1, <1>2, RecordedGoes

LEMMA RecordSafe ==
    ASSUME SafeInv, NEW c \in Clients, Record(c)
    PROVE  SafeInv'
<1>1. pass[c].step = "answered"
      /\ UNCHANGED <<hub, local, outbox, binding, cursor, holds, applied, bounds>>
  BY DEF Record, At
<1>2. \A k \in Rest(c) \ {Turn(c)} : k \in Pending(c) /\ k \in Rows(c)
  BY <1>1, ClientFacts DEF WireIsOwed, Rest
<1>3. \A i \in Ids : binding'[c][i].deleted => Deletes(binding'[c][i].sequence, i)
  BY <1>1, ClientFacts DEF DeletionsKnown
<1>4. ASSUME NEW new \in {"accepted", "rejected"},
             \A o \in Oids : state'[o] = IF o = Asked(c).oid THEN new ELSE state[o]
      PROVE  \A k \in Rest(c) \ {Turn(c)} : k \in Pending(c)'
  <2> SUFFICES ASSUME NEW k \in Rest(c) \ {Turn(c)} PROVE k \in Pending(c)'
    OBVIOUS
  <2>1. outbox[c][k].oid \in Oids /\ outbox[c][k].oid # Asked(c).oid
    BY <1>1, <1>2, AskedFacts, RowTypes, ClientFacts DEF Pushing
  <2> QED
    BY <1>1, <1>2, <1>4, <2>1 DEF Pending, Rows
<1>5. CASE receipt[Asked(c).oid].disposition = "accepted" /\ Settle({Asked(c).oid})
           /\ Goto(c, "settled")
  <2>1. /\ state' \in [Oids -> {"none", "pending", "accepted", "rejected"}]
        /\ \A o \in Oids : state'[o] = IF o = Asked(c).oid THEN "accepted" ELSE state[o]
    BY <1>5, SettleTypes, ClientFacts
  <2>2. pass' \in [Clients -> Passes]
    BY <1>5, GotoTypes, ClientFacts DEF Steps
  <2>3. TypeOK'
    BY <1>1, <2>1, <2>2, ClientFacts DEF TypeOK, hub, bounds
  <2>4. /\ \A d \in Clients \ {c} : pass'[d] = pass[d]
        /\ pass'[c].step = "settled" /\ pass'[c].wire = pass[c].wire /\ pass'[c].done = pass[c].done
        /\ pass'[c].head = pass[c].head /\ pass'[c].upto = pass[c].upto
    BY <1>5, ClientFacts DEF Goto, TypeOK, Passes
  <2>5. PullsWithin(c)'
    BY <1>1, <2>4, ClientFacts DEF PullsWithin, Pulling, hub
  <2>6. Rest(c)' = Rest(c) /\ Turn(c)' = Turn(c) /\ Asked(c)' = Asked(c)
    BY <1>1, <2>4 DEF Rest, Turn, Asked
  <2>7. \A k \in Rest(c) \ {Turn(c)} : k \in Pending(c)'
    BY <1>4, <2>1
  <2>8. /\ pass[c].wire \subseteq Rows(c) /\ Rest(c) # {}
        /\ \A k \in pass[c].wire :
              /\ outbox[c][k].op = "restore" => outbox[c][k].seen # 0
              /\ receipt[outbox[c][k].oid].disposition # "none"
    BY <1>1, ClientFacts DEF WireIsOwed, Pushing
  <2>9. WireIsOwed(c)'
    BY <1>1, <1>5, <2>4, <2>6, <2>7, <2>8 DEF WireIsOwed, Pushing, Rows, hub
  <2> QED
    BY <1>1, <1>3, <2>1, <2>3, <2>4, <2>5, <2>9, AskedFacts, PassFrame DEF Pushing, bounds
<1>6. CASE state' = [state EXCEPT ![Asked(c).oid] = "rejected"] /\ Recorded(c)
  <2>1. Asked(c).oid \in Oids /\ Asked(c).oid \in Own(c)
    BY <1>1, AskedFacts DEF Pushing
  <2>2. /\ state' \in [Oids -> {"none", "pending", "accepted", "rejected"}]
        /\ \A o \in Oids : state'[o] = IF o = Asked(c).oid THEN "rejected" ELSE state[o]
    BY <1>6, <2>1, ClientFacts DEF TypeOK
  <2>3. TypeOK'
    BY <1>1, <1>6, <2>2, RecordedGoes, ClientFacts DEF TypeOK, hub, bounds
  <2>4. PullsWithin(c)'
    BY <1>1, <1>6, RecordedGoes, ClientFacts DEF PullsWithin, Pulling, hub
  <2>5. WireIsOwed(c)'
    BY <1>1, <1>4, <1>6, <2>2, RecordedWire
  <2>6. \A d \in Clients \ {c} : pass'[d] = pass[d]
    BY <1>1, <1>6, RecordedGoes
  <2> QED
    BY <1>1, <1>3, <2>1, <2>2, <2>3, <2>4, <2>5, <2>6, PassFrame DEF bounds
<1> QED
  BY <1>5, <1>6 DEF Record

LEMMA RecordBindingSafe ==
    ASSUME SafeInv, NEW c \in Clients, RecordBinding(c)
    PROVE  SafeInv'
<1> DEFINE o == Asked(c)
           b == [sequence |-> receipt[o.oid].sequence, deleted |-> o.op = "tombstone"]
<1>1. pass[c].step = "settled" /\ binding' = [binding EXCEPT ![c][o.id] = b] /\ Recorded(c)
      /\ UNCHANGED <<hub, local, outbox, state, cursor, holds, applied, bounds>>
  BY DEF RecordBinding, At
<1>2. /\ Turn(c) \in Rows(c) /\ o = outbox[c][Turn(c)] /\ o.oid \in Oids /\ o.id \in Ids
  BY <1>1, AskedFacts DEF Pushing
<1>3. receipt[o.oid].disposition = "accepted"
  BY <1>1, ClientFacts DEF WireIsOwed
<1>4. receipt[o.oid].sequence \in 1 .. Len(feed) /\ feed[receipt[o.oid].sequence].oid = o.oid
  BY <1>2, <1>3 DEF SafeInv, FeedIsReceipted
<1>5. feed[receipt[o.oid].sequence] = EntryOf(o)
  BY <1>2, <1>4, ClientFacts DEF FeedIsOwned
<1>6. b \in Bindings /\ b.sequence = receipt[o.oid].sequence /\ b.deleted = (o.op = "tombstone")
  BY <1>2, ClientFacts DEF TypeOK, Receipts, Bindings
<1>d. feed[receipt[o.oid].sequence].id = o.id /\ feed[receipt[o.oid].sequence].op = o.op
  BY <1>5 DEF EntryOf
<1> HIDE DEF o, b
<1>7. b.deleted => Deletes(b.sequence, o.id)
  BY <1>4, <1>6, <1>d DEF Deletes
<1>8. /\ \A d \in Clients \ {c} : binding'[d] = binding[d]
      /\ \A m \in Ids : binding'[c][m] = IF m = o.id THEN b ELSE binding[c][m]
  BY <1>1, <1>2, ClientFacts DEF TypeOK
<1>9. \A m \in Ids : binding'[c][m].deleted => Deletes(binding'[c][m].sequence, m)
  BY <1>7, <1>8, ClientFacts DEF DeletionsKnown
<1>10. TypeOK'
  <2>1. binding' \in [Clients -> [Ids -> Bindings]]
    BY <1>1, <1>2, <1>6, ClientFacts DEF TypeOK
  <2> QED
    BY <1>1, <2>1, RecordedGoes, ClientFacts DEF TypeOK, hub, bounds
<1>11. PullsWithin(c)'
  BY <1>1, <1>4, <1>6, <1>8, RecordedGoes, ClientFacts DEF PullsWithin, Pulling, hub
<1>12. WireIsOwed(c)'
  <2>1. \A k \in Rest(c) \ {Turn(c)} : k \in Pending(c)'
    BY <1>1, ClientFacts DEF WireIsOwed, Rest, Pending, Rows
  <2> QED
    BY <1>1, <2>1, RecordedWire
<1>13. \A d \in Clients \ {c} : pass'[d] = pass[d]
  BY <1>1, RecordedGoes
<1> QED
  BY <1>1, <1>8, <1>9, <1>10, <1>11, <1>12, <1>13, PassFrame DEF bounds


--------------------------------------------------------------------------------
\* A request: the rows stay as they are, but a restore in the batch takes the
\* position of the deletion its client knows.

LEMMA PreparedRow ==
    ASSUME SafeInv, NEW c \in Clients, NEW k \in Batch(c)
    PROVE  LET o == outbox[c][k]  r == Prepared(c, o) IN
           /\ k \in Rows(c) /\ k \in Pending(c) /\ r \in Operations
           /\ r.oid = o.oid /\ r.id = o.id /\ r.op = o.op /\ r.val = o.val
           /\ r.seen # 0 => Deletes(r.seen, o.id)
           /\ r.op = "restore" => r.seen # 0
<1> DEFINE o == outbox[c][k]
<1>1. k \in Eligible(c)
  BY DEF Batch
<1>2. k \in Pending(c) /\ k \in Rows(c)
  BY <1>1 DEF Eligible, Pending
<1>3. o \in Operations /\ o.id \in Ids /\ o.seen \in Nat
  BY <1>2, RowTypes, ClientFacts
<1>4. k \in PendingOn(c, o.id)
  BY <1>2 DEF PendingOn
<1>5. ~Waiting(c, k)
  <2>1. k <= k
    BY <1>2 DEF Rows
  <2> QED
    BY <1>1, <1>4, <2>1 DEF Eligible
<1>6. CASE o.op = "restore" /\ o.seen = 0
  <2>1. binding[c][o.id].deleted
    BY <1>5, <1>6 DEF Waiting
  <2>2. Deletes(binding[c][o.id].sequence, o.id)
    BY <1>3, <2>1, ClientFacts DEF DeletionsKnown
  <2>3. Prepared(c, o) = [o EXCEPT !.seen = binding[c][o.id].sequence]
    BY <1>6, <2>1 DEF Prepared
  <2>4. binding[c][o.id].sequence \in Positions /\ binding[c][o.id].sequence # 0
    <3>1. binding[c][o.id].sequence \in Positions
      <4>1. binding[c][o.id] \in Bindings
        BY <1>3, ClientFacts DEF TypeOK
      <4> QED
        BY <4>1 DEF Bindings
    <3>2. binding[c][o.id].sequence \in 1 .. Len(feed)
      BY <2>2 DEF Deletes
    <3> QED
      BY <3>1, <3>2
  <2>5. [o EXCEPT !.seen = binding[c][o.id].sequence] \in Operations
    BY <1>3, <2>4 DEF Operations
  <2> HIDE DEF o
  <2>6. Prepared(c, o).seen = binding[c][o.id].sequence
        /\ Prepared(c, o).oid = o.oid /\ Prepared(c, o).id = o.id
        /\ Prepared(c, o).op = o.op /\ Prepared(c, o).val = o.val
    BY <1>3, <2>3 DEF Operations
  <2> QED
    BY <1>2, <2>2, <2>3, <2>4, <2>5, <2>6 DEF o
<1>7. CASE ~(o.op = "restore" /\ o.seen = 0)
  <2>1. Prepared(c, o) = o
    BY <1>7 DEF Prepared
  <2>2. o.seen # 0 => Deletes(o.seen, o.id)
    BY <1>2, ClientFacts DEF DeletionsKnown
  <2> HIDE DEF o
  <2> QED
    BY <1>2, <1>3, <1>7, <2>1, <2>2 DEF o
<1> QED
  BY <1>6, <1>7

LEMMA SendRows ==
    ASSUME SafeInv, NEW c \in Clients, Send(c)
    PROVE  /\ outbox' \in [Clients -> Seq(Operations)]
           /\ \A d \in Clients \ {c} : outbox'[d] = outbox[d]
           /\ Len(outbox'[c]) = Len(outbox[c])
           /\ \A k \in Rows(c) :
                 /\ outbox'[c][k].oid = outbox[c][k].oid /\ outbox'[c][k].id = outbox[c][k].id
                 /\ outbox'[c][k].op = outbox[c][k].op /\ outbox'[c][k].val = outbox[c][k].val
                 /\ outbox'[c][k].seen # 0 => Deletes(outbox'[c][k].seen, outbox[c][k].id)
                 /\ k \in Batch(c) /\ outbox'[c][k].op = "restore" => outbox'[c][k].seen # 0
<1> DEFINE rows == [k \in 1 .. Len(outbox[c]) |->
                      IF k \in Batch(c) THEN Prepared(c, outbox[c][k]) ELSE outbox[c][k]]
<1>1. outbox[c] \in Seq(Operations) /\ DOMAIN outbox[c] = 1 .. Len(outbox[c])
      /\ Len(outbox[c]) \in Nat
  BY ClientFacts DEF TypeOK
<1>2. outbox' = [outbox EXCEPT ![c] = rows]
  BY <1>1 DEF Send
<1>3. \A k \in 1 .. Len(outbox[c]) : rows[k] \in Operations
  BY PreparedRow, RowTypes, ClientFacts DEF Rows
<1>4. rows \in Seq(Operations) /\ Len(rows) = Len(outbox[c])
  <2>1. rows \in [1 .. Len(outbox[c]) -> Operations]
    BY <1>3
  <2> HIDE DEF rows
  <2> QED
    BY <1>1, <2>1
<1>5. \A k \in Rows(c) :
          /\ rows[k].oid = outbox[c][k].oid /\ rows[k].id = outbox[c][k].id
          /\ rows[k].op = outbox[c][k].op /\ rows[k].val = outbox[c][k].val
          /\ rows[k].seen # 0 => Deletes(rows[k].seen, outbox[c][k].id)
          /\ k \in Batch(c) /\ rows[k].op = "restore" => rows[k].seen # 0
  <2> SUFFICES ASSUME NEW k \in Rows(c)
               PROVE  /\ rows[k].oid = outbox[c][k].oid /\ rows[k].id = outbox[c][k].id
                      /\ rows[k].op = outbox[c][k].op /\ rows[k].val = outbox[c][k].val
                      /\ rows[k].seen # 0 => Deletes(rows[k].seen, outbox[c][k].id)
                      /\ k \in Batch(c) /\ rows[k].op = "restore" => rows[k].seen # 0
    OBVIOUS
  <2>1. CASE k \in Batch(c)
    BY <2>1, PreparedRow DEF Rows
  <2>2. CASE k \notin Batch(c)
    BY <2>2, ClientFacts DEF Rows, DeletionsKnown
  <2> QED
    BY <2>1, <2>2
<1> HIDE DEF rows
<1>6. outbox'[c] = rows /\ \A d \in Clients \ {c} : outbox'[d] = outbox[d]
  BY <1>2, ClientFacts DEF TypeOK
<1>7. outbox' \in [Clients -> Seq(Operations)]
  BY <1>2, <1>4, ClientFacts DEF TypeOK
<1> QED
  BY <1>4, <1>5, <1>6, <1>7

LEMMA SendSafe ==
    ASSUME SafeInv, NEW c \in Clients, Send(c)
    PROVE  SafeInv'
<1>1. /\ At(c, "push") /\ Eligible(c) # {}
      /\ UNCHANGED <<hub, local, state, binding, cursor, holds, applied, bounds>>
      /\ pass' = [pass EXCEPT ![c] = [pass[c] EXCEPT !.step = "sent", !.wire = Batch(c), !.done = 0]]
  BY DEF Send
<1>2. Batch(c) # {} /\ Batch(c) \subseteq Pending(c) /\ Batch(c) \subseteq Rows(c)
  BY <1>1, BatchIsNotEmpty DEF Eligible, Pending
<1>3. Rows(c) \subseteq Positions
  BY ClientFacts, Constants DEF Minted, Rows, TypeOK, Positions
<1>4. [pass[c] EXCEPT !.step = "sent", !.wire = Batch(c), !.done = 0] \in Passes
  <2>1. Batch(c) \in SUBSET Positions
    BY <1>2, <1>3
  <2> QED
    BY <2>1, ClientFacts, Constants DEF Passes, Steps
<1>5. /\ \A d \in Clients \ {c} : pass'[d] = pass[d]
      /\ pass'[c].step = "sent" /\ pass'[c].wire = Batch(c) /\ pass'[c].done = 0
      /\ pass'[c].head = pass[c].head /\ pass'[c].upto = pass[c].upto
  BY <1>1, ClientFacts DEF TypeOK, Passes
<1>6. TypeOK'
  BY <1>1, <1>4, SendRows, ClientFacts DEF TypeOK, hub, bounds
<1>7. \A d \in Clients :
        /\ Rows(d)' = Rows(d)
        /\ \A k \in Rows(d) :
              /\ outbox'[d][k].oid = outbox[d][k].oid /\ outbox'[d][k].id = outbox[d][k].id
              /\ outbox'[d][k].op = outbox[d][k].op /\ outbox'[d][k].val = outbox[d][k].val
              /\ outbox'[d][k].seen # 0 => Deletes(outbox'[d][k].seen, outbox[d][k].id)
  <2> SUFFICES ASSUME NEW d \in Clients
               PROVE  /\ Rows(d)' = Rows(d)
                      /\ \A k \in Rows(d) :
                            /\ outbox'[d][k].oid = outbox[d][k].oid
                            /\ outbox'[d][k].id = outbox[d][k].id
                            /\ outbox'[d][k].op = outbox[d][k].op
                            /\ outbox'[d][k].val = outbox[d][k].val
                            /\ outbox'[d][k].seen # 0 => Deletes(outbox'[d][k].seen, outbox[d][k].id)
    OBVIOUS
  <2>1. CASE d = c
    BY <2>1, SendRows DEF Rows
  <2>2. CASE d # c
    BY <2>2, SendRows, ClientFacts DEF Rows, DeletionsKnown
  <2> QED
    BY <2>1, <2>2
<1>8. \A d \in Clients : Minted(d)' /\ FeedIsOwned(d)' /\ DeletionsKnown(d)' /\ PullsWithin(d)'
  <2> SUFFICES ASSUME NEW d \in Clients
               PROVE  Minted(d)' /\ FeedIsOwned(d)' /\ DeletionsKnown(d)' /\ PullsWithin(d)'
    OBVIOUS
  <2>1. Minted(d)'
    <3>1. Len(outbox'[d]) = Len(outbox[d])
      BY SendRows
    <3> QED
      BY <1>1, <1>7, <3>1, ClientFacts DEF Minted, bounds
  <2>2. FeedIsOwned(d)'
    BY <1>1, <1>7, ClientFacts DEF FeedIsOwned, hub, EntryOf
  <2>3. DeletionsKnown(d)'
    BY <1>1, <1>7, ClientFacts DEF DeletionsKnown, Deletes, hub
  <2>4. PullsWithin(d)'
    BY <1>1, <1>5, ClientFacts DEF PullsWithin, Pulling, hub, At
  <2> QED
    BY <2>1, <2>2, <2>3, <2>4
<1>9. \A d \in Clients : WireIsOwed(d)'
  <2>1. WireIsOwed(c)'
    <3>1. \A k \in Batch(c) : k > 0 /\ k \in Rows(c) /\ k \in Pending(c)
      BY <1>2 DEF Rows
    <3>2. Rest(c)' # {}
      BY <1>2, <1>5, <3>1 DEF Rest
    <3>3. \A k \in Batch(c) : k \in Pending(c)'
      BY <1>1, <1>7, <3>1 DEF Pending
    <3>4. \A k \in Batch(c) : outbox'[c][k].op = "restore" => outbox'[c][k].seen # 0
      BY <3>1, SendRows
    <3>5. \A k \in Batch(c) : k \in Rows(c)' /\ ~(k <= 0)
      BY <1>7, <3>1 DEF Rows
    <3> QED
      BY <1>5, <3>2, <3>3, <3>4, <3>5 DEF WireIsOwed, Pushing
  <2>2. ASSUME NEW d \in Clients, d # c PROVE WireIsOwed(d)'
    <3>1. outbox'[d] = outbox[d]
      BY <2>2, SendRows
    <3> QED
      BY <1>1, <1>5, <2>2, <3>1, OthersWire DEF hub, Rows
  <2> QED
    BY <2>1, <2>2
<1>10. \A d, e \in Clients : Apart(d, e)'
  BY <1>7 DEF SafeInv, Apart
<1>11. Fresh' /\ FeedIsReceipted'
  BY <1>1 DEF SafeInv, Fresh, FeedIsReceipted, hub, bounds
<1> QED
  BY <1>6, <1>8, <1>9, <1>10, <1>11 DEF SafeInv, ClientInv


--------------------------------------------------------------------------------
\* The hub's answer to the row asked for.

\* Once it has answered it, the hub turns to the next row of the request, or
\* the answers go back.
LEMMA AnsweredWire ==
    ASSUME SafeInv, NEW c \in Clients, At(c, "sent"), Answered(c), UNCHANGED <<outbox, state>>,
           \A o \in Oids : receipt[o].disposition # "none" => receipt'[o] = receipt[o],
           receipt'[Asked(c).oid].disposition # "none"
    PROVE  /\ pass' \in [Clients -> Passes] /\ \A d \in Clients \ {c} : pass'[d] = pass[d]
           /\ pass'[c].head = pass[c].head /\ pass'[c].upto = pass[c].upto
           /\ pass'[c].step \in {"sent", "answered"}
           /\ WireIsOwed(c)'
<1> USE DEF Pushing, At
<1>1. /\ pass[c].wire \subseteq Rows(c) /\ Rest(c) # {} /\ Rows(c)' = Rows(c)
      /\ \A k \in pass[c].wire :
            /\ outbox[c][k].op = "restore" => outbox[c][k].seen # 0
            /\ k \in Pending(c) /\ k \in Pending(c)'
            /\ k <= pass[c].done => receipt[outbox[c][k].oid].disposition # "none"
            /\ outbox[c][k].oid \in Oids
  <2>1. /\ pass[c].wire \subseteq Rows(c) /\ Rest(c) # {}
        /\ \A k \in pass[c].wire :
              /\ outbox[c][k].op = "restore" => outbox[c][k].seen # 0
              /\ k \in Pending(c)
              /\ k <= pass[c].done => receipt[outbox[c][k].oid].disposition # "none"
    BY ClientFacts DEF WireIsOwed
  <2>2. Rows(c)' = Rows(c) /\ Pending(c)' = Pending(c)
    BY DEF Rows, Pending
  <2> QED
    BY <2>1, <2>2, RowTypes, ClientFacts
<1>2. \A k \in pass[c].wire : k <= Turn(c) => receipt'[outbox[c][k].oid].disposition # "none"
  <2> SUFFICES ASSUME NEW k \in pass[c].wire, k <= Turn(c)
               PROVE  receipt'[outbox[c][k].oid].disposition # "none"
    OBVIOUS
  <2>1. CASE k <= pass[c].done
    BY <1>1, <2>1
  <2>2. CASE ~(k <= pass[c].done)
    <3>1. k \in Nat /\ pass[c].done \in Nat /\ Turn(c) \in Nat
      BY ClientFacts, AskedFacts
    <3>2. k \in Rest(c) /\ ~(k > Turn(c))
      BY <2>2, <3>1 DEF Rest
    <3>3. k = Turn(c)
      BY <3>2, AskedFacts
    <3> QED
      BY <3>3 DEF Asked
  <2> QED
    BY <2>1, <2>2
<1>3. CASE Rest(c) # {Turn(c)} /\ pass' = [pass EXCEPT ![c] = [pass[c] EXCEPT !.done = Turn(c)]]
  <2>1. [pass[c] EXCEPT !.done = Turn(c)] \in Passes
    BY AskedFacts, ClientFacts DEF Passes
  <2>2. /\ pass' \in [Clients -> Passes] /\ \A d \in Clients \ {c} : pass'[d] = pass[d]
        /\ pass'[c].step = "sent" /\ pass'[c].wire = pass[c].wire /\ pass'[c].done = Turn(c)
        /\ pass'[c].head = pass[c].head /\ pass'[c].upto = pass[c].upto
    BY <1>3, <2>1, ClientFacts DEF TypeOK, Passes
  <2>3. Rest(c)' = Rest(c) \ {Turn(c)}
    BY <2>2, AskedFacts DEF Rest
  <2>4. Rest(c)' # {}
    BY <1>3, <2>3, AskedFacts
  <2>5. WireIsOwed(c)'
    BY <1>1, <1>2, <2>2, <2>4 DEF WireIsOwed
  <2> QED
    BY <2>2, <2>5
<1>4. CASE Rest(c) = {Turn(c)}
           /\ pass' = [pass EXCEPT ![c] = [pass[c] EXCEPT !.step = "answered", !.done = 0]]
  <2>1. [pass[c] EXCEPT !.step = "answered", !.done = 0] \in Passes
    BY ClientFacts, Constants DEF Passes, Steps
  <2>2. /\ pass' \in [Clients -> Passes] /\ \A d \in Clients \ {c} : pass'[d] = pass[d]
        /\ pass'[c].step = "answered" /\ pass'[c].wire = pass[c].wire /\ pass'[c].done = 0
        /\ pass'[c].head = pass[c].head /\ pass'[c].upto = pass[c].upto
    BY <1>4, <2>1, ClientFacts DEF TypeOK, Passes
  <2>3. \A k \in pass[c].wire : k <= Turn(c) /\ k > 0
    BY <1>1, <1>4, AskedFacts, ClientFacts DEF Rest, Rows
  <2>4. Rest(c)' # {}
    BY <2>2, <2>3, AskedFacts DEF Rest
  <2>5. WireIsOwed(c)'
    BY <1>1, <1>2, <2>2, <2>3, <2>4 DEF WireIsOwed
  <2> QED
    BY <2>2, <2>5
<1> QED
  BY <1>3, <1>4 DEF Answered

\* What an answer leaves of the invariant to show: that feed and receipts
\* still agree, and that what is new in the feed is the row asked for.
LEMMA HubFrame ==
    ASSUME SafeInv, NEW c \in Clients, At(c, "sent"), Answered(c), UNCHANGED <<store, bounds>>,
           feed' \in Seq(Entries), receipt' \in [Oids -> Receipts],
           \A o \in Oids : receipt[o].disposition # "none" \/ o # Asked(c).oid
                              => receipt'[o] = receipt[o],
           receipt'[Asked(c).oid].disposition # "none",
           Len(feed') >= Len(feed), \A n \in 1 .. Len(feed) : feed'[n] = feed[n],
           \A n \in 1 .. Len(feed') : n \in 1 .. Len(feed) \/ feed'[n] = EntryOf(Asked(c)),
           FeedIsReceipted'
    PROVE  SafeInv'
<1>1. /\ pass' \in [Clients -> Passes] /\ \A d \in Clients \ {c} : pass'[d] = pass[d]
      /\ pass'[c].head = pass[c].head /\ pass'[c].upto = pass[c].upto
      /\ pass'[c].step \in {"sent", "answered"}
      /\ WireIsOwed(c)'
  BY AnsweredWire DEF store
<1>2. TypeOK'
  BY <1>1, ClientFacts DEF TypeOK, store, bounds
<1>3. /\ Asked(c) = outbox[c][Turn(c)] /\ Turn(c) \in Rows(c) /\ Asked(c).oid \in Oids
      /\ \A k \in Rows(c) : k # Turn(c) => outbox[c][k].oid # Asked(c).oid
  BY AskedFacts DEF At, Pushing
<1>4. Fresh'
  <2>1. Asked(c).oid <= minted /\ minted \in Nat /\ Asked(c).oid \in Nat
    BY <1>3, ClientFacts, Constants DEF Minted, TypeOK
  <2>2. \A o \in Oids : o > minted => o # Asked(c).oid
    BY <2>1, Constants
  <2> QED
    BY <2>2 DEF SafeInv, Fresh, bounds
<1>5. ASSUME NEW d \in Clients
      PROVE  Minted(d)' /\ FeedIsOwned(d)' /\ DeletionsKnown(d)' /\ PullsWithin(d)' /\ WireIsOwed(d)'
  <2>1. Minted(d)'
    BY ClientFacts DEF Minted, Rows, store, bounds
  <2>2. FeedIsOwned(d)'
    <3> SUFFICES ASSUME NEW k \in Rows(d), NEW n \in 1 .. Len(feed'),
                        outbox[d][k].oid = feed'[n].oid
                 PROVE  feed'[n] = EntryOf(outbox[d][k])
      BY DEF FeedIsOwned, Rows, store, EntryOf
    <3>1. CASE n \in 1 .. Len(feed)
      BY <3>1, ClientFacts DEF FeedIsOwned
    <3>2. CASE feed'[n] = EntryOf(Asked(c))
      <4>1. outbox[d][k].oid = Asked(c).oid
        BY <3>2 DEF EntryOf
      <4>2. d = c
        BY <1>3, <4>1 DEF SafeInv, Apart
      <4> QED
        BY <1>3, <3>2, <4>1, <4>2
    <3> QED
      BY <3>1, <3>2
  <2>3. DeletionsKnown(d)'
    <3>1. \A n, i : Deletes(n, i) => Deletes(n, i)'
      BY ClientFacts DEF Deletes
    <3> QED
      BY <3>1, ClientFacts DEF DeletionsKnown, Rows, store
  <2>4. PullsWithin(d)'
    <3>1. Len(feed') \in Nat
      OBVIOUS
    <3>2. \A i \in Ids : binding[d][i].sequence \in Nat
      <4>1. \A i \in Ids : binding[d][i] \in Bindings
        BY ClientFacts DEF TypeOK
      <4> QED
        BY <4>1, Constants DEF Bindings
    <3>3. /\ cursor'[d] = cursor[d] /\ binding'[d] = binding[d] /\ holds'[d] = holds[d]
          /\ pass'[d].head = pass[d].head /\ pass'[d].upto = pass[d].upto
          /\ pass'[d].step = pass[d].step \/ pass'[d].step \in {"sent", "answered"}
      BY <1>1 DEF store
    <3>4. PullsWithin(d) /\ cursor[d] \in Nat /\ pass[d].head \in Nat /\ pass[d].upto \in Nat
          /\ Len(feed) \in Nat
      BY ClientFacts
    <3> QED
      BY <3>1, <3>2, <3>3, <3>4 DEF PullsWithin, Pulling
  <2>5. WireIsOwed(d)'
    <3>1. CASE d = c
      BY <1>1, <3>1
    <3>2. CASE d # c
      BY <1>1, <3>2, OthersWire DEF store, Rows
    <3> QED
      BY <3>1, <3>2
  <2> QED
    BY <2>1, <2>2, <2>3, <2>4, <2>5
<1>6. \A d, e \in Clients : Apart(d, e)'
  BY DEF SafeInv, Apart, Rows, store
<1> QED
  BY <1>2, <1>4, <1>5, <1>6 DEF SafeInv, ClientInv

\* A fresh operation is accepted at the end of the feed.
LEMMA AcceptedHub ==
    ASSUME SafeInv, NEW c \in Clients, At(c, "sent"), UNCHANGED bounds,
           receipt[Asked(c).oid].disposition = "none",
           feed' = Append(feed, EntryOf(Asked(c))),
           receipt' = [receipt EXCEPT ![Asked(c).oid] =
                          [disposition |-> "accepted", sequence |-> Len(feed) + 1]]
    PROVE  /\ feed' \in Seq(Entries) /\ receipt' \in [Oids -> Receipts] /\ FeedIsReceipted'
           /\ Len(feed') = Len(feed) + 1 /\ \A n \in 1 .. Len(feed) : feed'[n] = feed[n]
           /\ feed'[Len(feed) + 1] = EntryOf(Asked(c)) /\ EntryOf(Asked(c)) \in Entries
           /\ EntryOf(Asked(c)).oid = Asked(c).oid
           /\ \A n \in 1 .. Len(feed) : feed[n].oid # Asked(c).oid
<1> DEFINE o == Asked(c)
           r == [disposition |-> "accepted", sequence |-> Len(feed) + 1]
<1>1. o \in Operations /\ o.oid \in Oids /\ o.oid \in Own(c) /\ o = outbox[c][Turn(c)] /\ Turn(c) \in Rows(c)
  BY AskedFacts DEF At, Pushing
<1>2. feed \in Seq(Entries) /\ receipt \in [Oids -> Receipts] /\ FeedIsReceipted /\ Len(feed) \in Nat
  BY ClientFacts DEF SafeInv, TypeOK
<1>3. EntryOf(o) \in Entries /\ EntryOf(o).oid = o.oid
  BY <1>1 DEF Operations, Entries, EntryOf
<1>4. /\ feed' \in Seq(Entries) /\ Len(feed') = Len(feed) + 1
      /\ \A n \in 1 .. Len(feed) : feed'[n] = feed[n]
      /\ feed'[Len(feed) + 1] = EntryOf(o)
  BY <1>2, <1>3
<1>5. \A n \in 1 .. Len(feed) : feed[n].oid # o.oid
  BY <1>2 DEF FeedIsReceipted
<1>6. \A n, m \in 1 .. Len(feed') : feed'[n].oid = feed'[m].oid => n = m
  <2>1. \A n \in 1 .. Len(feed') : n \in 1 .. Len(feed) \/ n = Len(feed) + 1
    BY <1>2, <1>4
  <2>2. \A n, m \in 1 .. Len(feed) : feed[n].oid = feed[m].oid => n = m
    BY <1>2 DEF FeedIsReceipted
  <2> HIDE DEF o
  <2> QED
    BY <1>3, <1>4, <1>5, <2>1, <2>2
<1>7. Len(feed) + 1 \in Positions
  <2>1. Len(feed') <= MaxOps
    BY <1>4, <1>6, FeedFits
  <2> QED
    BY <1>2, <1>4, <2>1, Constants DEF Positions
<1>8. r \in Receipts /\ r.disposition = "accepted" /\ r.sequence = Len(feed) + 1
  BY <1>7 DEF Receipts
<1>9. receipt' = [receipt EXCEPT ![o.oid] = r]
  OBVIOUS
<1>10. o.oid <= minted
  BY <1>1, ClientFacts DEF Minted
<1> HIDE DEF o, r
<1>11. receipt' \in [Oids -> Receipts] /\ \A p \in Oids : receipt'[p] = IF p = o.oid THEN r ELSE receipt[p]
  BY <1>1, <1>2, <1>8, <1>9
<1>12. FeedIsReceipted'
  <2>1. \A n \in 1 .. Len(feed') :
          /\ feed'[n].oid <= minted'
          /\ receipt'[feed'[n].oid].disposition = "accepted" /\ receipt'[feed'[n].oid].sequence = n
    <3> SUFFICES ASSUME NEW n \in 1 .. Len(feed')
                 PROVE  /\ feed'[n].oid <= minted'
                        /\ receipt'[feed'[n].oid].disposition = "accepted"
                        /\ receipt'[feed'[n].oid].sequence = n
      OBVIOUS
    <3>1. CASE n \in 1 .. Len(feed)
      BY <1>2, <1>4, <1>5, <1>11, <3>1 DEF FeedIsReceipted, TypeOK, Entries, bounds
    <3>2. CASE n = Len(feed) + 1
      BY <1>1, <1>3, <1>4, <1>8, <1>10, <1>11, <3>2 DEF bounds
    <3> QED
      BY <1>2, <1>4, <3>1, <3>2
  <2>2. \A p \in Oids : receipt'[p].disposition = "accepted" =>
          receipt'[p].sequence \in 1 .. Len(feed') /\ feed'[receipt'[p].sequence].oid = p
    <3> SUFFICES ASSUME NEW p \in Oids, receipt'[p].disposition = "accepted"
                 PROVE  receipt'[p].sequence \in 1 .. Len(feed') /\ feed'[receipt'[p].sequence].oid = p
      OBVIOUS
    <3>1. CASE p = o.oid
      BY <1>2, <1>3, <1>4, <1>8, <1>11, <3>1
    <3>2. CASE p # o.oid
      BY <1>2, <1>4, <1>11, <3>2 DEF FeedIsReceipted
    <3> QED
      BY <3>1, <3>2
  <2> QED
    BY <2>1, <2>2 DEF FeedIsReceipted
<1> QED
  BY <1>3, <1>4, <1>5, <1>11, <1>12 DEF o

LEMMA ImportSafe ==
    ASSUME SafeInv, NEW c \in Clients, Import(c)
    PROVE  SafeInv'
<1>1. At(c, "sent") /\ Answered(c) /\ UNCHANGED <<store, bounds>>
  BY DEF Import
<1>2. Asked(c).oid \in Oids /\ Asked(c).oid \in Own(c)
  BY <1>1, AskedFacts DEF At, Pushing
<1>3. feed \in Seq(Entries) /\ receipt \in [Oids -> Receipts] /\ FeedIsReceipted /\ Len(feed) \in Nat
  BY ClientFacts DEF SafeInv, TypeOK
<1>4. CASE receipt[Asked(c).oid].disposition # "none" /\ UNCHANGED hub
  <2>1. feed' = feed /\ receipt' = receipt
    BY <1>4 DEF hub
  <2>2. FeedIsReceipted'
    BY <1>1, <1>3, <2>1 DEF FeedIsReceipted, bounds
  <2> QED
    BY <1>1, <1>3, <1>4, <2>1, <2>2, HubFrame
<1>5. CASE receipt[Asked(c).oid].disposition = "none" /\ UNCHANGED feed
           /\ receipt' = [receipt EXCEPT ![Asked(c).oid].disposition = "rejected_stale"]
  <2> DEFINE r == [receipt[Asked(c).oid] EXCEPT !.disposition = "rejected_stale"]
  <2>1. r \in Receipts /\ r.disposition = "rejected_stale"
    BY <1>2, <1>3 DEF Receipts
  <2>2. receipt' = [receipt EXCEPT ![Asked(c).oid] = r]
    BY <1>5
  <2> HIDE DEF r
  <2>3. receipt' \in [Oids -> Receipts]
        /\ \A p \in Oids : receipt'[p] = IF p = Asked(c).oid THEN r ELSE receipt[p]
    BY <1>2, <1>3, <2>1, <2>2
  <2>4. FeedIsReceipted'
    <3>1. \A n \in 1 .. Len(feed) : feed[n].oid # Asked(c).oid /\ feed[n].oid \in Oids
      <4>1. \A n \in 1 .. Len(feed) : feed[n] \in Entries
        BY <1>3
      <4> QED
        BY <1>3, <1>5, <4>1 DEF FeedIsReceipted, Entries
    <3> QED
      BY <1>1, <1>3, <1>5, <2>1, <2>3, <3>1 DEF FeedIsReceipted, bounds
  <2> QED
    BY <1>1, <1>2, <1>3, <1>5, <2>1, <2>3, <2>4, HubFrame
<1>6. CASE /\ receipt[Asked(c).oid].disposition = "none"
           /\ feed' = Append(feed, EntryOf(Asked(c)))
           /\ receipt' = [receipt EXCEPT ![Asked(c).oid] =
                  [disposition |-> "accepted", sequence |-> Len(feed) + 1]]
  <2>1. /\ feed' \in Seq(Entries) /\ receipt' \in [Oids -> Receipts] /\ FeedIsReceipted'
        /\ Len(feed') = Len(feed) + 1 /\ \A n \in 1 .. Len(feed) : feed'[n] = feed[n]
        /\ feed'[Len(feed) + 1] = EntryOf(Asked(c))
    BY <1>1, <1>6, AcceptedHub
  <2>2. \A p \in Oids : p # Asked(c).oid => receipt'[p] = receipt[p]
    BY <1>3, <1>6
  <2>3. receipt'[Asked(c).oid].disposition # "none"
    BY <1>2, <1>3, <1>6
  <2>4. \A n \in 1 .. Len(feed') : n \in 1 .. Len(feed) \/ feed'[n] = EntryOf(Asked(c))
    BY <1>3, <2>1
  <2>5. Len(feed') >= Len(feed)
    BY <1>3, <2>1
  <2> QED
    BY <1>1, <1>6, <2>1, <2>2, <2>3, <2>4, <2>5, HubFrame
<1> QED
  BY <1>4, <1>5, <1>6 DEF Import


--------------------------------------------------------------------------------
\* A local command: one more row, at the end of one outbox.

LEMMA JournalRows ==
    ASSUME SafeInv, NEW c \in Clients, NEW i \in Ids, NEW op \in Ops, NEW v \in Values \cup {None},
           NEW memory, Journal(c, i, op, v, memory)
    PROVE  LET r == [oid |-> minted + 1, id |-> i, op |-> op, val |-> v, seen |-> 0] IN
           /\ minted + 1 \in Oids /\ minted \in Nat /\ minted' = minted + 1
           /\ outbox' \in [Clients -> Seq(Operations)]
           /\ \A d \in Clients \ {c} : outbox'[d] = outbox[d]
           /\ Len(outbox[c]) \in Nat /\ Len(outbox'[c]) = Len(outbox[c]) + 1
           /\ outbox'[c][Len(outbox[c]) + 1] = r
           /\ \A k \in Rows(c) : outbox'[c][k] = outbox[c][k]
           /\ state' \in [Oids -> {"none", "pending", "accepted", "rejected"}]
           /\ \A o \in Oids : state'[o] = IF o = minted + 1 THEN "pending" ELSE state[o]
<1> DEFINE r == [oid |-> minted + 1, id |-> i, op |-> op, val |-> v, seen |-> 0]
<1>1. minted \in Nat /\ minted + 1 \in Oids
  BY ClientFacts, Constants DEF Journal, TypeOK, Positions, Oids
<1>2. r \in Operations
  BY <1>1, Constants DEF Operations
<1>3. outbox' = [outbox EXCEPT ![c] = Append(outbox[c], r)]
      /\ state' = [state EXCEPT ![minted + 1] = "pending"] /\ minted' = minted + 1
  BY DEF Journal
<1> HIDE DEF r
<1>4. outbox[c] \in Seq(Operations)
  BY ClientFacts DEF TypeOK
<1>5. Append(outbox[c], r) \in Seq(Operations) /\ Len(Append(outbox[c], r)) = Len(outbox[c]) + 1
      /\ Len(outbox[c]) \in Nat /\ Append(outbox[c], r)[Len(outbox[c]) + 1] = r
      /\ \A k \in Rows(c) : Append(outbox[c], r)[k] = outbox[c][k]
  BY <1>2, <1>4 DEF Rows
<1>6. outbox' \in [Clients -> Seq(Operations)] /\ outbox'[c] = Append(outbox[c], r)
      /\ \A d \in Clients \ {c} : outbox'[d] = outbox[d]
  BY <1>3, <1>5, ClientFacts DEF TypeOK
<1>7. state' \in [Oids -> {"none", "pending", "accepted", "rejected"}]
      /\ \A o \in Oids : state'[o] = IF o = minted + 1 THEN "pending" ELSE state[o]
  BY <1>1, <1>3, ClientFacts DEF TypeOK
<1> QED
  BY <1>1, <1>3, <1>5, <1>6, <1>7 DEF r

LEMMA JournalSafe ==
    ASSUME SafeInv, NEW c \in Clients, NEW i \in Ids, NEW op \in Ops, NEW v \in Values \cup {None},
           NEW memory \in Memories, Journal(c, i, op, v, memory)
    PROVE  SafeInv'
<1> DEFINE n == Len(outbox[c])
           r == [oid |-> minted + 1, id |-> i, op |-> op, val |-> v, seen |-> 0]
<1>1. UNCHANGED <<hub, binding, cursor, holds, applied, pass, faults>>
      /\ local' = [local EXCEPT ![c][i] = memory]
  BY DEF Journal
<1>2. /\ minted + 1 \in Oids /\ minted \in Nat /\ minted' = minted + 1
      /\ outbox' \in [Clients -> Seq(Operations)]
      /\ \A d \in Clients \ {c} : outbox'[d] = outbox[d]
      /\ n \in Nat /\ Len(outbox'[c]) = n + 1
      /\ outbox'[c][n + 1] = r
      /\ \A k \in Rows(c) : outbox'[c][k] = outbox[c][k]
      /\ state' \in [Oids -> {"none", "pending", "accepted", "rejected"}]
      /\ \A o \in Oids : state'[o] = IF o = minted + 1 THEN "pending" ELSE state[o]
  BY JournalRows
<1>3. r.oid = minted + 1 /\ r.seen = 0
  OBVIOUS
<1> HIDE DEF n, r
<1>4. Rows(c) = 1 .. n /\ Rows(c)' = 1 .. n + 1
  BY <1>2 DEF Rows, n
<1>5. TypeOK'
  <2>1. local' \in [Clients -> [Ids -> Memories]]
    BY <1>1, ClientFacts DEF TypeOK
  <2>2. minted + 1 \in Positions
    BY <1>2, Constants DEF Oids, Positions
  <2> QED
    BY <1>1, <1>2, <2>1, <2>2, ClientFacts DEF TypeOK, hub
<1>6. Fresh'
  BY <1>1, <1>2, Constants DEF SafeInv, Fresh, hub, NoReceipt
<1>7. FeedIsReceipted'
  <2>1. \A m \in 1 .. Len(feed) : feed[m].oid <= minted /\ feed[m].oid \in Nat
    <3>1. \A m \in 1 .. Len(feed) : feed[m] \in Entries
      BY ClientFacts DEF TypeOK
    <3> QED
      BY <3>1, Constants DEF SafeInv, FeedIsReceipted, Entries
  <2>2. \A m \in 1 .. Len(feed) : feed[m].oid <= minted'
    BY <1>2, <2>1
  <2> QED
    BY <1>1, <2>2 DEF SafeInv, FeedIsReceipted, hub
<1>8. \A d \in Clients : \A k \in Rows(d) :
          /\ k \in Rows(d)' /\ outbox'[d][k] = outbox[d][k]
          /\ outbox[d][k].oid \in Oids /\ outbox[d][k].oid <= minted
          /\ outbox[d][k].oid # minted + 1
          /\ state'[outbox[d][k].oid] = state[outbox[d][k].oid]
  <2> SUFFICES ASSUME NEW d \in Clients, NEW k \in Rows(d)
               PROVE  /\ k \in Rows(d)' /\ outbox'[d][k] = outbox[d][k]
                      /\ outbox[d][k].oid \in Oids /\ outbox[d][k].oid <= minted
                      /\ outbox[d][k].oid # minted + 1
                      /\ state'[outbox[d][k].oid] = state[outbox[d][k].oid]
    OBVIOUS
  <2>1. k \in Rows(d)' /\ outbox'[d][k] = outbox[d][k]
    <3>1. CASE d = c
      BY <1>2, <1>4, <3>1
    <3>2. CASE d # c
      BY <1>2, <3>2 DEF Rows
    <3> QED
      BY <3>1, <3>2
  <2>2. outbox[d][k].oid \in Oids /\ outbox[d][k].oid <= minted
    BY RowTypes, ClientFacts DEF Minted
  <2>3. outbox[d][k].oid # minted + 1
    BY <1>2, <2>2, Constants
  <2> QED
    BY <1>2, <2>1, <2>2, <2>3
<1>9. \A d \in Clients : \A k \in Rows(d)' : k \in Rows(d) \/ (d = c /\ k = n + 1)
  <2> SUFFICES ASSUME NEW d \in Clients, NEW k \in Rows(d)'
               PROVE  k \in Rows(d) \/ (d = c /\ k = n + 1)
    OBVIOUS
  <2>1. CASE d = c
    BY <1>2, <1>4, <2>1
  <2>2. CASE d # c
    BY <1>2, <2>2 DEF Rows
  <2> QED
    BY <2>1, <2>2
<1>10. ASSUME NEW d \in Clients
       PROVE  Minted(d)' /\ FeedIsOwned(d)' /\ DeletionsKnown(d)' /\ PullsWithin(d)' /\ WireIsOwed(d)'
  <2>1. Minted(d)'
    <3>1. Len(outbox'[d]) <= minted'
      <4>1. CASE d = c
        BY <1>2, <4>1, ClientFacts DEF Minted, n
      <4>2. CASE d # c
        BY <1>2, <4>2, ClientFacts DEF Minted, TypeOK
      <4> QED
        BY <4>1, <4>2
    <3>2. \A k \in Rows(d)' : outbox'[d][k].oid <= minted' /\ state'[outbox'[d][k].oid] # "none"
      <4> SUFFICES ASSUME NEW k \in Rows(d)'
                   PROVE  outbox'[d][k].oid <= minted' /\ state'[outbox'[d][k].oid] # "none"
        OBVIOUS
      <4>1. CASE k \in Rows(d)
        <5>1. outbox'[d][k] = outbox[d][k] /\ outbox[d][k].oid <= minted /\ outbox[d][k].oid \in Nat
          BY <1>8, <4>1, Constants
        <5>2. state'[outbox[d][k].oid] # "none"
          BY <1>8, <4>1, ClientFacts DEF Minted
        <5> QED
          BY <1>2, <5>1, <5>2
      <4>2. CASE d = c /\ k = n + 1
        BY <1>2, <1>3, <4>2
      <4> QED
        BY <1>9, <4>1, <4>2
    <3>3. \A k, j \in Rows(d)' : j < k => outbox'[d][j].oid < outbox'[d][k].oid
      <4> SUFFICES ASSUME NEW k \in Rows(d)', NEW j \in Rows(d)', j < k
                   PROVE  outbox'[d][j].oid < outbox'[d][k].oid
        OBVIOUS
      <4>1. CASE k \in Rows(d)
        <5>1. j \in Rows(d)
          BY <1>2, <1>4, <1>9, <4>1
        <5> QED
          BY <1>8, <4>1, <5>1, ClientFacts DEF Minted
      <4>2. CASE d = c /\ k = n + 1
        <5>1. j \in Rows(d)
          BY <1>9, <1>2, <4>2
        <5>2. outbox'[d][j] = outbox[d][j] /\ outbox[d][j].oid <= minted /\ outbox[d][j].oid \in Nat
          BY <1>8, <5>1, Constants
        <5>3. outbox'[d][k].oid = minted + 1
          BY <1>2, <1>3, <4>2
        <5> QED
          BY <1>2, <5>2, <5>3
      <4> QED
        BY <1>9, <4>1, <4>2
    <3> QED
      BY <3>1, <3>2, <3>3 DEF Minted
  <2>2. FeedIsOwned(d)'
    <3> SUFFICES ASSUME NEW k \in Rows(d)', NEW m \in 1 .. Len(feed),
                        outbox'[d][k].oid = feed[m].oid
                 PROVE  feed[m] = EntryOf(outbox'[d][k])
      BY <1>1 DEF FeedIsOwned, hub, EntryOf
    <3>1. k \in Rows(d)
      <4>1. feed[m].oid <= minted
        BY DEF SafeInv, FeedIsReceipted
      <4>2. minted + 1 # feed[m].oid
        BY <1>2, <4>1
      <4> QED
        BY <1>2, <1>3, <1>9, <4>2
    <3> QED
      BY <1>8, <3>1, ClientFacts DEF FeedIsOwned
  <2>3. DeletionsKnown(d)'
    <3>1. \A k \in Rows(d)' : outbox'[d][k].seen # 0 => Deletes(outbox'[d][k].seen, outbox'[d][k].id)
      BY <1>2, <1>3, <1>8, <1>9, ClientFacts DEF DeletionsKnown
    <3> QED
      BY <1>1, <3>1, ClientFacts DEF DeletionsKnown, Deletes, hub
  <2>4. PullsWithin(d)'
    BY <1>1, ClientFacts DEF PullsWithin, hub
  <2>5. WireIsOwed(d)'
    BY <1>1, <1>8, OthersWire DEF hub
  <2> QED
    BY <2>1, <2>2, <2>3, <2>4, <2>5
<1>11. \A d, e \in Clients : Apart(d, e)'
  <2> SUFFICES ASSUME NEW d \in Clients, NEW e \in Clients, d # e,
                      NEW k \in Rows(d)', NEW j \in Rows(e)'
               PROVE  outbox'[d][k].oid # outbox'[e][j].oid
    BY DEF Apart
  <2>1. CASE k \in Rows(d) /\ j \in Rows(e)
    BY <1>8, <2>1 DEF SafeInv, Apart
  <2>2. CASE k \in Rows(d) /\ e = c /\ j = n + 1
    BY <1>2, <1>3, <1>8, <2>2
  <2>3. CASE j \in Rows(e) /\ d = c /\ k = n + 1
    BY <1>2, <1>3, <1>8, <2>3
  <2> QED
    BY <1>9, <2>1, <2>2, <2>3
<1> QED
  BY <1>5, <1>6, <1>7, <1>10, <1>11 DEF SafeInv, ClientInv

LEMMA CommandSafe ==
    ASSUME SafeInv, NEW c \in Clients, Command(c)
    PROVE  SafeInv'
<1>1. PICK i \in Ids : (\E v \in Values : Write(c, i, v)) \/ Delete(c, i) \/ Restore(c, i)
  BY DEF Command
<1>2. local[c][i] \in Memories
  BY ClientFacts DEF TypeOK
<1>3. CASE \E v \in Values : Write(c, i, v)
  <2>1. PICK v \in Values : Journal(c, i, "upsert", v, Live(v))
    BY <1>3 DEF Write
  <2>2. Live(v) \in Memories /\ "upsert" \in Ops
    BY DEF Live, Memories, Ops
  <2> QED
    BY <2>1, <2>2, JournalSafe
<1>4. CASE Delete(c, i)
  <2>1. [local[c][i] EXCEPT !.state = "deleted"] \in Memories /\ "tombstone" \in Ops
    BY <1>2 DEF Memories, Ops
  <2> QED
    BY <1>4, <2>1, JournalSafe DEF Delete
<1>5. CASE Restore(c, i)
  <2>1. [local[c][i] EXCEPT !.state = "live"] \in Memories /\ "restore" \in Ops
    BY <1>2 DEF Memories, Ops
  <2>2. local[c][i].val \in Values \cup {None}
    BY <1>2 DEF Memories
  <2> QED
    BY <1>5, <2>1, <2>2, JournalSafe DEF Restore
<1> QED
  BY <1>1, <1>3, <1>4, <1>5

--------------------------------------------------------------------------------
LEMMA SafeInit == Init => SafeInv
<1> SUFFICES ASSUME Init PROVE SafeInv
  OBVIOUS
<1>1. TypeOK
  <2>1. NoReceipt \in Receipts /\ NoBinding \in Bindings /\ Absent \in Memories /\ NoPass \in Passes
    BY Constants DEF NoReceipt, Receipts, NoBinding, Bindings, Absent, Memories, NoPass, Passes, Steps
  <2>2. feed \in Seq(Entries) /\ outbox \in [Clients -> Seq(Operations)] /\ faults \in Seq(Faults)
    BY DEF Init
  <2> HIDE DEF NoReceipt, NoBinding, Absent, NoPass
  <2> QED
    BY <2>1, <2>2, Constants DEF Init, TypeOK
<1>2. Fresh /\ FeedIsReceipted
  BY DEF Init, Fresh, FeedIsReceipted, NoReceipt
<1>3. ASSUME NEW c \in Clients PROVE ClientInv(c)
  <2>1. /\ Rows(c) = {} /\ feed = <<>> /\ Len(feed) = 0 /\ Len(outbox[c]) = 0 /\ minted = 0
        /\ pass[c] = NoPass /\ cursor[c] = 0 /\ holds[c] = {}
        /\ \A i \in Ids : binding[c][i] = NoBinding
    BY DEF Init, Rows
  <2>2. Minted(c) /\ FeedIsOwned(c) /\ DeletionsKnown(c)
    BY <2>1 DEF Minted, FeedIsOwned, DeletionsKnown, NoBinding
  <2>3. PullsWithin(c) /\ WireIsOwed(c)
    BY <2>1 DEF PullsWithin, WireIsOwed, NoPass, NoBinding, Pulling, Pushing
  <2> QED
    BY <2>2, <2>3 DEF ClientInv
<1>4. \A c, d \in Clients : Apart(c, d)
  BY DEF Init, Apart, Rows
<1> QED
  BY <1>1, <1>2, <1>3, <1>4 DEF SafeInv

LEMMA SafeNext == SafeInv /\ [Next]_vars => SafeInv'
<1> SUFFICES ASSUME SafeInv, [Next]_vars PROVE SafeInv'
  OBVIOUS
<1>1. CASE UNCHANGED vars
  <2>1. UNCHANGED <<feed, receipt, local, outbox, state, binding, cursor, holds, applied, pass,
                    minted, faults>>
    BY <1>1 DEF vars, hub, store, bounds
  <2>2. (TypeOK /\ Fresh /\ FeedIsReceipted)'
    BY <2>1 DEF SafeInv, TypeOK, Fresh, FeedIsReceipted
  <2>3. ASSUME NEW c \in Clients PROVE ClientInv(c)'
    <3>1. Minted(c)' /\ FeedIsOwned(c)' /\ DeletionsKnown(c)'
      <4>1. Minted(c)'
        BY <2>1, ClientFacts DEF Minted, Rows
      <4>2. FeedIsOwned(c)'
        <5>1. FeedIsOwned(c) /\ Rows(c)' = Rows(c)
          BY <2>1, ClientFacts DEF Rows
        <5> QED
          BY <2>1, <5>1 DEF FeedIsOwned, EntryOf
      <4>3. DeletionsKnown(c)'
        BY <2>1, ClientFacts DEF DeletionsKnown, Deletes, Rows
      <4> QED
        BY <4>1, <4>2, <4>3
    <3>2. PullsWithin(c)'
      BY <2>1, ClientFacts DEF PullsWithin
    <3>3. WireIsOwed(c)'
      BY <2>1, ClientFacts DEF WireIsOwed, Rows, Pending, Rest, Turn, Asked
    <3> QED
      BY <3>1, <3>2, <3>3 DEF ClientInv
  <2>4. \A c, d \in Clients : Apart(c, d)'
    BY <2>1 DEF SafeInv, Apart, Rows
  <2> QED
    BY <2>2, <2>3, <2>4 DEF SafeInv
<1>2. ASSUME NEW c \in Clients, Command(c) PROVE SafeInv'
  BY <1>2, CommandSafe
<1>3. ASSUME NEW c \in Clients, Proceed(c) PROVE SafeInv'
  BY <1>3, RewindSafe, PageSafe, ResolveOwnSafe, ResolveSupersededSafe, ResolveUpstreamSafe,
     ResolvePendingSafe, ResolveApplySafe, ApplySafe, BindSafe, AdvanceSafe, SendSafe,
     PassDoneSafe, ImportSafe, RecordSafe, RecordBindingSafe DEF Proceed
<1>4. ASSUME NEW c \in Clients, NEW legs \in Legs, Open(c, legs) PROVE SafeInv'
  BY <1>4, OpenSafe
<1>5. ASSUME NEW c \in Clients, Stall(c) \/ LoseAnswer(c) \/ Crash(c) PROVE SafeInv'
  BY <1>5, StallSafe, LoseAnswerSafe, CrashSafe
<1> QED
  BY <1>1, <1>2, <1>3, <1>4, <1>5 DEF Next

LEMMA ExchangeSafe == Spec => []SafeInv
  BY SafeInit, SafeNext, PTL DEF Spec


--------------------------------------------------------------------------------
\* Type correctness: the feed, its receipts and every client's tables keep
\* their types, and positions and batches stay inside the feed and the outbox.
THEOREM ExchangeTypeCorrect == Spec => []TypeOK
<1>1. SafeInv => TypeOK
  BY DEF SafeInv
<1> QED
  BY <1>1, ExchangeSafe, PTL

\* A restore on the wire names a position at which the hub deleted that memory
\* (push.rs): a restore whose deletion is not known upstream stays in the outbox.
THEOREM RestoresNameTheirDeletion == Spec => []RestoreNamesDeletion
<1>1. SafeInv => RestoreNamesDeletion
  <2> SUFFICES ASSUME SafeInv, NEW c \in Clients, NEW k \in pass[c].wire,
                      outbox[c][k].op = "restore"
               PROVE  Deletes(outbox[c][k].seen, outbox[c][k].id)
    BY DEF RestoreNamesDeletion, Deletes
  <2>1. k \in Rows(c) /\ outbox[c][k].seen # 0
    BY ClientFacts DEF WireIsOwed
  <2> QED
    BY <2>1, ClientFacts DEF DeletionsKnown
<1> QED
  BY <1>1, ExchangeSafe, PTL

--------------------------------------------------------------------------------
\* The hub implements the log.

LEMMA LogInit == Init => Log!Init
  BY DEF Init, Log!Init

LEMMA LogStep == SafeInv /\ [Next]_vars => [Log!Next]_feed
<1> SUFFICES ASSUME SafeInv, [Next]_vars, feed' # feed
             PROVE  Log!Next
  OBVIOUS
<1>1. PICK c \in Clients : Import(c)
  <2>1. \A c \in Clients : Command(c) => UNCHANGED feed
    <3>1. ASSUME NEW c, NEW i, NEW op, NEW v, NEW s, Journal(c, i, op, v, s) PROVE UNCHANGED feed
      BY <3>1 DEF Journal, hub
    <3> QED
      BY <3>1 DEF Command, Write, Delete, Restore
  <2>2. \A c \in Clients : Proceed(c) => UNCHANGED feed \/ Import(c)
    <3> SUFFICES ASSUME NEW c \in Clients, Proceed(c), ~Import(c) PROVE UNCHANGED feed
      OBVIOUS
    <3>1. CASE \/ Rewind(c) \/ Page(c) \/ ResolveOwn(c) \/ ResolveSuperseded(c) \/ ResolveUpstream(c)
               \/ ResolvePending(c) \/ ResolveApply(c)
      BY <3>1 DEF Rewind, Page, ResolveOwn, ResolveSuperseded, ResolveUpstream, ResolvePending,
                  ResolveApply, hub
    <3>2. CASE \/ Apply(c) \/ Bind(c) \/ Advance(c) \/ Send(c) \/ PassDone(c) \/ Record(c)
               \/ RecordBinding(c)
      BY <3>2 DEF Apply, Bind, Advance, Send, PassDone, Record, RecordBinding, hub
    <3> QED
      BY <3>1, <3>2 DEF Proceed
  <2>3. \A c \in Clients : \A legs \in Legs : Open(c, legs) => UNCHANGED feed
    BY DEF Open, hub
  <2>4. \A c \in Clients : Stall(c) \/ LoseAnswer(c) \/ Crash(c) => UNCHANGED feed
    BY DEF Stall, LoseAnswer, Crash, hub
  <2>5. Next
    BY DEF vars, hub
  <2> QED
    BY <2>1, <2>2, <2>3, <2>4, <2>5 DEF Next
<1> DEFINE o == Asked(c)
<1>2. /\ At(c, "sent") /\ UNCHANGED bounds /\ ~Stale(o) /\ receipt[o.oid].disposition = "none"
      /\ feed' = Append(feed, EntryOf(o))
      /\ receipt' = [receipt EXCEPT ![o.oid] =
                        [disposition |-> "accepted", sequence |-> Len(feed) + 1]]
  BY <1>1 DEF Import, hub
<1>3. /\ EntryOf(o) \in Entries /\ EntryOf(o).oid = o.oid
      /\ \A n \in 1 .. Len(feed) : feed[n].oid # o.oid
  BY <1>2, AcceptedHub
<1>4. EntryOf(o).op = o.op /\ EntryOf(o).id = o.id
  BY DEF EntryOf
<1> HIDE DEF o
<1>5. HubDeleted(o.id) => Log!DeletedIn(feed, o.id)
  BY DEF HubDeleted, IsDeletion, IsRevision, Log!DeletedIn
<1>6. Log!DeletedIn(feed, o.id) => HubDeleted(o.id)
  BY DEF HubDeleted, IsDeletion, IsRevision, Log!DeletedIn
<1>7. o.op = "upsert" => ~Log!DeletedIn(feed, o.id)
  BY <1>2, <1>6 DEF Stale
<1>8. o.op = "restore" => Log!DeletedIn(feed, o.id)
  <2>1. IsDeletion(o.seen, o.id) => HubDeleted(o.id)
    BY DEF HubDeleted, IsDeletion, IsRevision
  <2> QED
    BY <1>2, <1>5, <2>1 DEF Stale
<1>9. Log!Append1(EntryOf(o))
  BY <1>2, <1>3, <1>4, <1>7, <1>8 DEF Log!Append1
<1>10. EntryOf(o) \in Log!Entries
  BY <1>3 DEF Log!Entries, Entries, Ops
<1> QED
  BY <1>9, <1>10 DEF Log!Next

\* Whatever is resent, answered again or lost on the way, the hub is the log of
\* ReplicaLog: one position to an operation, and no write that revives a
\* deleted memory (import.rs, acceptance).
THEOREM HubImplementsLog == Spec => ImplementsLog
<1>1. Init => Log!Init
  BY LogInit
<1>2. SafeInv /\ [Next]_vars => [Log!Next]_feed
  BY LogStep
<1> QED
  BY <1>1, <1>2, ExchangeSafe, PTL DEF Spec, ImplementsLog, Log!Spec

--------------------------------------------------------------------------------
\* What the log promises a reader, and with it the hub.

LogInv ==
    /\ feed \in Seq(Log!Entries)
    /\ Log!OnePosition /\ Log!RevivedByRestore /\ Log!RestoreUndoesDeletion

\* The last of some positions.
LEMMA LastPosition ==
    ASSUME NEW l \in Nat, NEW T \in SUBSET (1 .. l), T # {}
    PROVE  \E k \in T : \A j \in T : j <= k
<1> DEFINE Back == {l - j : j \in T}
<1>1. Back \in SUBSET Nat /\ Back # {}
  <2>1. \A j \in T : l - j \in Nat
    OBVIOUS
  <2>2. PICK j \in T : TRUE
    OBVIOUS
  <2>3. l - j \in Back
    OBVIOUS
  <2> QED
    BY <2>1, <2>3
<1>2. PICK x \in Back : \A y \in Back : x <= y
  BY <1>1, LeastNat
<1>3. PICK k \in T : x = l - k
  BY <1>2
<1>4. ASSUME NEW j \in T PROVE j <= k
  <2>1. l - k <= l - j
    BY <1>2, <1>3
  <2>2. j \in Nat /\ k \in Nat
    OBVIOUS
  <2> QED
    BY <2>1, <2>2
<1> QED
  BY <1>4

\* A write of a memory whose revision is no deletion follows, after each of its
\* deletions, a restore.
LEMMA DeletionsAreUndone ==
    ASSUME LogInv, NEW i, ~Log!DeletedIn(feed, i),
           NEW m \in 1 .. Len(feed), feed[m].id = i, feed[m].op = "tombstone"
    PROVE  \E k \in m + 1 .. Len(feed) : feed[k].id = i /\ feed[k].op = "restore"
<1> DEFINE T == {j \in 1 .. Len(feed) : feed[j].id = i}
<1>1. Len(feed) \in Nat /\ \A n \in 1 .. Len(feed) : feed[n] \in Log!Entries
  BY DEF LogInv
<1>2. PICK k \in T : \A j \in T : j <= k
  BY <1>1, LastPosition
<1>3. k \in 1 .. Len(feed) /\ feed[k].id = i /\ m <= k
  BY <1>2
<1>4. \A j \in k + 1 .. Len(feed) : feed[j].id # i
  <2>1. ASSUME NEW j \in k + 1 .. Len(feed), feed[j].id = i PROVE FALSE
    <3>1. j \in T /\ j > k
      BY <1>1, <1>3, <2>1
    <3> QED
      BY <1>2, <1>3, <3>1
  <2> QED
    BY <2>1
<1>5. feed[k].op # "tombstone"
  BY <1>3, <1>4 DEF Log!DeletedIn
<1>6. m < k /\ k \in m + 1 .. Len(feed)
  <2>1. m # k
    BY <1>5
  <2> QED
    BY <1>1, <1>3, <2>1
<1>7. CASE feed[k].op = "upsert"
  <2>1. PICK j \in m + 1 .. k - 1 : feed[j].id = i /\ feed[j].op = "restore"
    BY <1>3, <1>6, <1>7 DEF LogInv, Log!RevivedByRestore
  <2>2. j \in m + 1 .. Len(feed)
    BY <1>1, <1>3
  <2> QED
    BY <2>1, <2>2
<1>8. feed[k].op \in {"upsert", "restore", "tombstone"}
  BY <1>1, <1>3 DEF Log!Entries
<1> QED
  BY <1>3, <1>5, <1>6, <1>7, <1>8

\* What an entry at the end of the log leaves as it was.
LEMMA Appending ==
    ASSUME LogInv, NEW e \in Log!Entries, Log!Append1(e)
    PROVE  /\ feed' \in Seq(Log!Entries) /\ Len(feed) \in Nat /\ Len(feed') = Len(feed) + 1
           /\ feed'[Len(feed) + 1] = e
           /\ \A n \in 1 .. Len(feed) : feed'[n] = feed[n]
           /\ \A n \in 1 .. Len(feed') : n \in 1 .. Len(feed) \/ n = Len(feed) + 1
<1>1. feed \in Seq(Log!Entries) /\ feed' = Append(feed, e)
  BY DEF LogInv, Log!Append1
<1> QED
  BY <1>1

LEMMA LogKeepsItsPromises ==
    ASSUME LogInv, Log!Next PROVE LogInv'
<1> DEFINE l == Len(feed)
<1>1. PICK e \in Log!Entries : Log!Append1(e)
  BY DEF Log!Next
<1>2. /\ feed' \in Seq(Log!Entries) /\ l \in Nat /\ Len(feed') = l + 1
      /\ feed'[l + 1] = e
      /\ \A n \in 1 .. l : feed'[n] = feed[n]
      /\ \A n \in 1 .. l + 1 : n \in 1 .. l \/ n = l + 1
  BY <1>1, Appending
<1>3. Log!OnePosition'
  <2>1. \A m, n \in 1 .. l : feed[m].oid = feed[n].oid => m = n
    BY DEF LogInv, Log!OnePosition
  <2>2. \A n \in 1 .. l : feed[n].oid # e.oid
    BY <1>1 DEF Log!Append1
  <2>3. \A m, n \in 1 .. l + 1 : feed'[m].oid = feed'[n].oid => m = n
    BY <1>2, <2>1, <2>2
  <2> QED
    BY <1>2, <2>3 DEF Log!OnePosition
<1>4. Log!RevivedByRestore'
  <2> SUFFICES ASSUME NEW m \in 1 .. l + 1, NEW n \in 1 .. l + 1, m < n,
                      feed'[m].id = feed'[n].id,
                      feed'[m].op = "tombstone", feed'[n].op = "upsert"
               PROVE  \E k \in m + 1 .. n - 1 : feed'[k].id = feed'[m].id /\ feed'[k].op = "restore"
    BY <1>2 DEF Log!RevivedByRestore
  <2>1. m \in 1 .. l /\ feed'[m] = feed[m] /\ m + 1 .. n - 1 \subseteq 1 .. l
    BY <1>2
  <2>2. CASE n \in 1 .. l
    <3>1. PICK k \in m + 1 .. n - 1 : feed[k].id = feed[m].id /\ feed[k].op = "restore"
      BY <1>2, <2>1, <2>2 DEF LogInv, Log!RevivedByRestore
    <3> QED
      BY <1>2, <2>1, <3>1
  <2>3. CASE n = l + 1
    <3>1. feed'[n] = e /\ e.id = feed[m].id /\ ~Log!DeletedIn(feed, e.id)
      BY <1>1, <1>2, <2>1, <2>3 DEF Log!Append1
    <3>2. PICK k \in m + 1 .. l : feed[k].id = feed[m].id /\ feed[k].op = "restore"
      BY <2>1, <3>1, DeletionsAreUndone
    <3>3. k \in m + 1 .. n - 1 /\ feed'[k] = feed[k]
      BY <1>2, <2>1, <2>3
    <3> QED
      BY <2>1, <3>2, <3>3
  <2> QED
    BY <1>2, <2>2, <2>3
<1>5. Log!RestoreUndoesDeletion'
  <2> SUFFICES ASSUME NEW n \in 1 .. l + 1, feed'[n].op = "restore"
               PROVE  \E m \in 1 .. n - 1 :
                         /\ feed'[m].id = feed'[n].id /\ feed'[m].op = "tombstone"
                         /\ \A k \in m + 1 .. n - 1 : feed'[k].id # feed'[n].id
    BY <1>2 DEF Log!RestoreUndoesDeletion
  <2>1. 1 .. n - 1 \subseteq 1 .. l
    BY <1>2
  <2>2. PICK m \in 1 .. n - 1 :
          /\ feed[m].id = feed'[n].id /\ feed[m].op = "tombstone"
          /\ \A k \in m + 1 .. n - 1 : feed[k].id # feed'[n].id
    <3>1. CASE n \in 1 .. l
      BY <1>2, <3>1 DEF LogInv, Log!RestoreUndoesDeletion
    <3>2. CASE n = l + 1
      <4>1. n - 1 = l /\ feed'[n] = e /\ Log!DeletedIn(feed, e.id)
        BY <1>1, <1>2, <3>2 DEF Log!Append1
      <4> QED
        BY <4>1 DEF Log!DeletedIn
    <3> QED
      BY <1>2, <3>1, <3>2
  <2>3. \A k \in m + 1 .. n - 1 : k \in 1 .. l
    BY <1>2
  <2> QED
    BY <1>2, <2>1, <2>2, <2>3
<1> QED
  BY <1>2, <1>3, <1>4, <1>5 DEF LogInv

LEMMA LogHolds == Log!Spec => []LogInv
<1>1. Log!Init => LogInv
  <2> SUFFICES ASSUME feed = <<>> PROVE LogInv
    BY DEF Log!Init
  <2>1. feed \in Seq(Log!Entries) /\ \A n : n \notin 1 .. Len(feed)
    OBVIOUS
  <2> QED
    BY <2>1 DEF LogInv, Log!OnePosition, Log!RevivedByRestore, Log!RestoreUndoesDeletion
<1>2. LogInv /\ UNCHANGED feed => LogInv'
  BY DEF LogInv, Log!OnePosition, Log!RevivedByRestore, Log!RestoreUndoesDeletion
<1>3. LogInv /\ [Log!Next]_feed => LogInv'
  BY <1>2, LogKeepsItsPromises
<1> QED
  BY <1>1, <1>3, PTL DEF Log!Spec

\* In the hub's feed each operation has one position, between a deletion and a
\* later write of the memory stands a restore, and each restore undoes the
\* deletion right before it (validate.rs, order; accept.rs).
THEOREM FeedKeepsItsPromises ==
    Spec => [](Log!OnePosition /\ Log!RevivedByRestore /\ Log!RestoreUndoesDeletion)
<1>1. LogInv => Log!OnePosition /\ Log!RevivedByRestore /\ Log!RestoreUndoesDeletion
  BY DEF LogInv
<1> QED
  BY <1>1, HubImplementsLog, LogHolds, PTL DEF ImplementsLog

\* The feed only grows and never rewrites an entry: what a client has read stays
\* what it read (replica_journal.rs).
THEOREM PositionsAreKept == Spec => Log!PositionsStay
<1>1. ASSUME LogInv, [Log!Next]_feed
      PROVE  [Len(feed') >= Len(feed) /\ \A n \in 1 .. Len(feed) : feed'[n] = feed[n]]_feed
  <2> SUFFICES ASSUME NEW e \in Log!Entries, Log!Append1(e)
               PROVE  Len(feed') >= Len(feed) /\ \A n \in 1 .. Len(feed) : feed'[n] = feed[n]
    BY <1>1 DEF Log!Next
  <2> QED
    BY <1>1, Appending
<1> QED
  BY <1>1, HubImplementsLog, LogHolds, PTL DEF ImplementsLog, Log!Spec, Log!PositionsStay


--------------------------------------------------------------------------------
\* No operation is lost on the way to the hub.

\* The hub holds the bytes of row k of client c, or of a later row of it about
\* the same memory.
Upstream(c, k) ==
    \E j \in k .. Len(outbox[c]), n \in 1 .. Len(feed) :
        /\ outbox[c][j].id = outbox[c][k].id /\ feed[n].id = outbox[c][k].id
        /\ state[outbox[c][j].oid] = "accepted"
        /\ SameBytes(outbox[c][j], feed[n])

Kept(c, k) ==
    LET o == outbox[c][k].oid IN
    \/ state[o] = "pending"
    \/ state[o] = "rejected" /\ receipt[o].disposition = "rejected_stale"
    \/ state[o] = "accepted" /\ Upstream(c, k)

LEMMA NothingLostIsKept == NoOperationLost <=> \A c \in Clients : \A k \in Rows(c) : Kept(c, k)
  BY DEF NoOperationLost, Kept, Upstream

\* Feed, receipts and outboxes only grow, rows keep what they say, and a row
\* leaves its state only for one that Kept allows.
LEMMA KeptFrame ==
    ASSUME SafeInv, NoOperationLost,
           Len(feed') \in Nat, Len(feed') >= Len(feed),
           \A n \in 1 .. Len(feed) : feed'[n] = feed[n],
           \A o \in Oids : receipt[o].disposition # "none" => receipt'[o] = receipt[o],
           \A d \in Clients :
              /\ Len(outbox'[d]) \in Nat /\ Len(outbox'[d]) >= Len(outbox[d])
              /\ \A k \in Rows(d) :
                    /\ outbox'[d][k].oid = outbox[d][k].oid /\ outbox'[d][k].id = outbox[d][k].id
                    /\ outbox'[d][k].op = outbox[d][k].op /\ outbox'[d][k].val = outbox[d][k].val
                    /\ \/ state'[outbox[d][k].oid] = state[outbox[d][k].oid]
                       \/ state[outbox[d][k].oid] = "pending" /\ Kept(d, k)'
                       \/ state'[outbox[d][k].oid] = "accepted" /\ Kept(d, k)'
              /\ \A k \in Rows(d)' : k \in Rows(d) \/ state'[outbox'[d][k].oid] = "pending"
    PROVE  NoOperationLost'
<1> SUFFICES ASSUME NEW d \in Clients, NEW k \in Rows(d)' PROVE Kept(d, k)'
  BY NothingLostIsKept DEF NoOperationLost, Kept, Upstream
<1>1. CASE k \notin Rows(d)
  BY <1>1 DEF Kept
<1>2. ASSUME k \in Rows(d), state'[outbox[d][k].oid] = state[outbox[d][k].oid]
      PROVE  Kept(d, k)'
  <2> DEFINE o == outbox[d][k].oid
  <2>1. o \in Oids /\ outbox'[d][k].oid = o
    BY <1>2, RowTypes, ClientFacts
  <2>2. Kept(d, k)
    BY <1>2, NothingLostIsKept
  <2>3. CASE state[o] = "pending"
    BY <1>2, <2>1, <2>3 DEF Kept
  <2>4. CASE state[o] = "rejected" /\ receipt[o].disposition = "rejected_stale"
    BY <1>2, <2>1, <2>4 DEF Kept
  <2>5. CASE state[o] = "accepted" /\ Upstream(d, k)
    <3>1. PICK j \in k .. Len(outbox[d]), n \in 1 .. Len(feed) :
            /\ outbox[d][j].id = outbox[d][k].id /\ feed[n].id = outbox[d][k].id
            /\ state[outbox[d][j].oid] = "accepted"
            /\ SameBytes(outbox[d][j], feed[n])
      BY <2>5 DEF Upstream
    <3>2. j \in Rows(d)
      BY <1>2 DEF Rows
    <3>3. state'[outbox[d][j].oid] = "accepted"
      BY <3>1, <3>2
    <3>4. Len(outbox[d]) \in Nat /\ Len(feed) \in Nat
      BY ClientFacts DEF TypeOK
    <3>5. j \in k .. Len(outbox'[d]) /\ n \in 1 .. Len(feed')
      BY <1>2, <3>2, <3>4 DEF Rows
    <3>6. /\ outbox'[d][j].id = outbox'[d][k].id /\ feed'[n].id = outbox'[d][k].id
          /\ state'[outbox'[d][j].oid] = "accepted"
          /\ SameBytes(outbox'[d][j], feed'[n])
      <4>1. outbox'[d][j].id = outbox[d][j].id /\ outbox'[d][k].id = outbox[d][k].id
            /\ outbox'[d][j].oid = outbox[d][j].oid /\ feed'[n].id = feed[n].id
        BY <1>2, <3>1, <3>2
      <4>2. SameBytes(outbox'[d][j], feed'[n])
        BY <1>2, <3>1, <3>2 DEF SameBytes
      <4> QED
        BY <3>1, <3>3, <4>1, <4>2
    <3>7. Upstream(d, k)'
      BY <3>5, <3>6 DEF Upstream, SameBytes
    <3> QED
      BY <1>2, <2>1, <2>5, <3>7 DEF Kept
  <2> QED
    BY <2>2, <2>3, <2>4, <2>5 DEF Kept
<1> QED
  BY <1>1, <1>2

\* The steps that touch neither the hub nor the outboxes.
LEMMA StateFrame ==
    ASSUME SafeInv, NoOperationLost, UNCHANGED <<hub, outbox>>,
           \A d \in Clients : \A k \in Rows(d) :
              \/ state'[outbox[d][k].oid] = state[outbox[d][k].oid]
              \/ state[outbox[d][k].oid] = "pending" /\ Kept(d, k)'
              \/ state'[outbox[d][k].oid] = "accepted" /\ Kept(d, k)'
    PROVE  NoOperationLost'
<1>1. feed' = feed /\ receipt' = receipt /\ outbox' = outbox
  BY DEF hub
<1>2. Len(feed) \in Nat /\ \A d \in Clients : Len(outbox[d]) \in Nat
  BY ClientFacts DEF SafeInv, TypeOK
<1>3. \A d \in Clients : Rows(d)' = Rows(d)
  BY <1>1 DEF Rows
<1> QED
  BY <1>1, <1>2, <1>3, KeptFrame

LEMMA QuietKeeps ==
    ASSUME SafeInv, NoOperationLost, UNCHANGED <<hub, outbox, state>>
    PROVE  NoOperationLost'
  BY StateFrame

\* A pull settles the rows whose bytes it finds upstream, and those before them.
LEMMA PullKeeps ==
    ASSUME SafeInv, NoOperationLost, NEW c \in Clients, ResolveOwn(c) \/ ResolveUpstream(c)
    PROVE  NoOperationLost'
<1>1. At(c, "pull") /\ UNCHANGED <<hub, outbox>>
  BY DEF ResolveOwn, ResolveUpstream, Foreign
<1>2. Position(c) \in 1 .. Len(feed) /\ Entry(c) = feed[Position(c)]
  BY <1>1, PositionTypes, ClientFacts DEF Entry
<1>3. \A d \in Clients : \A k \in Rows(d) : outbox[d][k].oid \in Oids
                                           /\ (outbox[d][k].oid \in Own(c) => d = c)
  BY RowTypes, ClientFacts DEF SafeInv, Apart, Own, OidsAt
<1>4. ASSUME NEW oids \in SUBSET Own(c), Settle(oids),
             \A k \in Rows(c) : outbox[c][k].oid \in oids =>
                \E j \in k .. Len(outbox[c]) :
                   /\ outbox[c][j].oid \in oids /\ j \in Rows(c)
                   /\ outbox[c][j].id = outbox[c][k].id /\ outbox[c][k].id = Entry(c).id
                   /\ SameBytes(outbox[c][j], Entry(c))
      PROVE  NoOperationLost'
  <2>1. \A o \in Oids : state'[o] = IF o \in oids THEN "accepted" ELSE state[o]
    BY <1>4, SettleTypes, ClientFacts
  <2>2. ASSUME NEW k \in Rows(c), outbox[c][k].oid \in oids PROVE Kept(c, k)'
    <3>1. PICK j \in k .. Len(outbox[c]) :
             /\ outbox[c][j].oid \in oids /\ j \in Rows(c)
             /\ outbox[c][j].id = outbox[c][k].id /\ outbox[c][k].id = Entry(c).id
             /\ SameBytes(outbox[c][j], Entry(c))
      BY <1>4, <2>2
    <3>2. state'[outbox[c][j].oid] = "accepted" /\ state'[outbox[c][k].oid] = "accepted"
      BY <1>3, <2>1, <2>2, <3>1
    <3>3. outbox' = outbox /\ feed' = feed
      BY <1>1 DEF hub
    <3>4. Upstream(c, k)'
      BY <1>2, <3>1, <3>2, <3>3 DEF Upstream, SameBytes
    <3> QED
      BY <3>2, <3>3, <3>4 DEF Kept
  <2>3. \A d \in Clients : \A k \in Rows(d) :
          \/ state'[outbox[d][k].oid] = state[outbox[d][k].oid]
          \/ state'[outbox[d][k].oid] = "accepted" /\ Kept(d, k)'
    <3> SUFFICES ASSUME NEW d \in Clients, NEW k \in Rows(d), outbox[d][k].oid \in oids
                 PROVE  state'[outbox[d][k].oid] = "accepted" /\ Kept(d, k)'
      BY <1>3, <2>1
    <3>1. d = c
      BY <1>3
    <3> QED
      BY <1>3, <2>1, <2>2, <3>1
  <2> QED
    BY <1>1, <2>3, StateFrame
<1>5. CASE ResolveOwn(c)
  <2>1. Settle({Entry(c).oid}) /\ Entry(c).oid \in Own(c)
    BY <1>5 DEF ResolveOwn
  <2>2. \A k \in Rows(c) : outbox[c][k].oid = Entry(c).oid => Entry(c) = EntryOf(outbox[c][k])
    BY <1>2, ClientFacts DEF FeedIsOwned
  <2>3. \A k \in Rows(c) : outbox[c][k].oid \in {Entry(c).oid} =>
          /\ k \in k .. Len(outbox[c]) /\ outbox[c][k].id = Entry(c).id
          /\ SameBytes(outbox[c][k], Entry(c))
    <3> SUFFICES ASSUME NEW k \in Rows(c), outbox[c][k].oid = Entry(c).oid
                 PROVE  /\ k \in k .. Len(outbox[c]) /\ outbox[c][k].id = Entry(c).id
                        /\ SameBytes(outbox[c][k], Entry(c))
      OBVIOUS
    <3>1. Entry(c).id = outbox[c][k].id /\ Entry(c).op = outbox[c][k].op /\ Entry(c).val = outbox[c][k].val
      BY <2>2 DEF EntryOf
    <3>2. k \in k .. Len(outbox[c])
      BY DEF Rows
    <3> QED
      BY <3>1, <3>2 DEF SameBytes
  <2> QED
    BY <1>4, <2>1, <2>3
<1>6. CASE ResolveUpstream(c)
  <2> DEFINE owed == PendingOn(c, Entry(c).id)
             same == {k \in owed : SameBytes(outbox[c][k], Entry(c))}
  <2>1. Settle(AlreadyUpstream(c)) /\ AlreadyUpstream(c) # {}
    BY <1>6 DEF ResolveUpstream
  <2>2. same # {} /\ AlreadyUpstream(c) = OidsAt(c, {k \in owed : k <= Min(same)})
    BY <2>1 DEF AlreadyUpstream
  <2>3. \A k \in owed : k \in Rows(c) /\ k \in Nat /\ outbox[c][k].id = Entry(c).id
    BY DEF PendingOn, Pending, Rows
  <2>4. Min(same) \in same
    <3>1. same \in SUBSET Nat
      BY <2>3
    <3> HIDE DEF same
    <3> QED
      BY <2>2, <3>1, MinIsLeast
  <2>5. AlreadyUpstream(c) \in SUBSET Own(c)
    BY <2>2, <2>3 DEF OidsAt, Own
  <2>6. ASSUME NEW k \in Rows(c), outbox[c][k].oid \in AlreadyUpstream(c)
        PROVE  \E j \in k .. Len(outbox[c]) :
                   /\ outbox[c][j].oid \in AlreadyUpstream(c) /\ j \in Rows(c)
                   /\ outbox[c][j].id = outbox[c][k].id /\ outbox[c][k].id = Entry(c).id
                   /\ SameBytes(outbox[c][j], Entry(c))
    <3> DEFINE j == Min(same)
    <3>1. PICK h \in owed : h <= j /\ outbox[c][h].oid = outbox[c][k].oid
      BY <2>2, <2>6 DEF OidsAt
    <3>2. h = k
      <4>1. h \in Rows(c) /\ outbox[c][h].oid \in Nat /\ outbox[c][k].oid \in Nat
        BY <2>3, <3>1, RowTypes, ClientFacts, Constants
      <4>2. h < k \/ k < h \/ h = k
        BY <4>1 DEF Rows
      <4> QED
        BY <3>1, <4>1, <4>2, ClientFacts DEF Minted
    <3>3. j \in owed /\ SameBytes(outbox[c][j], Entry(c))
      BY <2>4
    <3> HIDE DEF j, same
    <3>4. j \in Rows(c) /\ k <= j /\ k \in owed
      BY <2>3, <3>1, <3>2, <3>3
    <3>5. j \in k .. Len(outbox[c])
      BY <3>4 DEF Rows
    <3>6. outbox[c][j].oid \in AlreadyUpstream(c)
      <4>1. j <= j
        BY <2>3, <3>3
      <4> QED
        BY <2>2, <3>3, <4>1 DEF OidsAt, j
    <3>7. outbox[c][j].id = Entry(c).id /\ outbox[c][k].id = Entry(c).id
      BY <2>3, <3>3, <3>4
    <3> QED
      BY <3>3, <3>4, <3>5, <3>6, <3>7
  <2> QED
    BY <1>4, <2>1, <2>5, <2>6
<1> QED
  BY <1>5, <1>6


\* The answers settle the row they are about, and only that.
LEMMA RecordKeeps ==
    ASSUME SafeInv, NoOperationLost, NEW c \in Clients, Record(c)
    PROVE  NoOperationLost'
<1>1. pass[c].step = "answered" /\ UNCHANGED <<hub, outbox>> /\ feed' = feed /\ outbox' = outbox
      /\ receipt' = receipt
  BY DEF Record, At, hub
<1>1a. PICK t \in Rows(c) : t = Turn(c)
  BY <1>1, AskedFacts DEF Pushing
<1>1b. PICK o \in Oids : o = Asked(c).oid
  BY <1>1, AskedFacts DEF Pushing
<1>2. /\ t \in Rows(c) /\ o = outbox[c][t].oid /\ o \in Oids /\ t > pass[c].done
      /\ \A k \in Rows(c) : k # t => outbox[c][k].oid # o
      /\ o \in Own(c) /\ t \in pass[c].wire
  BY <1>1, <1>1a, <1>1b, AskedFacts DEF Pushing
<1>3. state[o] = "pending"
  BY <1>1, <1>2, ClientFacts DEF WireIsOwed, Pending
<1>4. \A d \in Clients : \A k \in Rows(d) :
        outbox[d][k].oid \in Oids /\ (outbox[d][k].oid = o => d = c /\ k = t)
  BY <1>2, RowTypes, ClientFacts DEF SafeInv, Apart
<1>5. \A p \in Oids : p # o => state'[p] = state[p]
  BY <1>2, <1>1b, ClientFacts DEF Record, Settle, TypeOK
<1>6. Kept(c, t)'
  <2>1. CASE receipt[o].disposition = "accepted" /\ Settle({o})
    <3> DEFINE n == receipt[o].sequence
    <3>1. n \in 1 .. Len(feed) /\ feed[n].oid = o
      BY <1>2, <2>1 DEF SafeInv, FeedIsReceipted
    <3>2. feed[n] = EntryOf(outbox[c][t])
      BY <1>2, <3>1, ClientFacts DEF FeedIsOwned
    <3> HIDE DEF n
    <3>3. feed[n].id = outbox[c][t].id /\ SameBytes(outbox[c][t], feed[n])
      BY <3>2 DEF EntryOf, SameBytes
    <3>4. state'[outbox[c][t].oid] = "accepted"
      BY <1>2, <2>1, SettleTypes, ClientFacts
    <3>5. t \in t .. Len(outbox[c])
      BY <1>2 DEF Rows
    <3>6. Upstream(c, t)'
      BY <1>1, <3>1, <3>3, <3>4, <3>5 DEF Upstream, SameBytes
    <3> QED
      BY <1>1, <3>4, <3>6 DEF Kept
  <2>2. CASE receipt[o].disposition = "rejected_stale" /\ state' = [state EXCEPT ![o] = "rejected"]
    <3>1. state'[outbox[c][t].oid] = "rejected"
      BY <1>2, <2>2, ClientFacts DEF TypeOK
    <3> QED
      BY <1>1, <1>2, <2>2, <3>1 DEF Kept
  <2> QED
    BY <1>1b, <2>1, <2>2 DEF Record
<1>7. \A d \in Clients : \A k \in Rows(d) :
        \/ state'[outbox[d][k].oid] = state[outbox[d][k].oid]
        \/ state[outbox[d][k].oid] = "pending" /\ Kept(d, k)'
  BY <1>3, <1>4, <1>5, <1>6
<1> QED
  BY <1>1, <1>7, StateFrame

LEMMA ImportKeeps ==
    ASSUME SafeInv, NoOperationLost, NEW c \in Clients, Import(c)
    PROVE  NoOperationLost'
<1>1. At(c, "sent") /\ UNCHANGED <<store, bounds>> /\ outbox' = outbox /\ state' = state
  BY DEF Import, store
<1>2. Asked(c).oid \in Oids
  BY <1>1, AskedFacts DEF At, Pushing
<1>3. receipt \in [Oids -> Receipts] /\ Len(feed) \in Nat
      /\ \A d \in Clients : Len(outbox[d]) \in Nat /\ Rows(d)' = Rows(d)
  BY <1>1, ClientFacts DEF SafeInv, TypeOK, Rows
<1>4. /\ Len(feed') \in Nat /\ Len(feed') >= Len(feed)
      /\ \A n \in 1 .. Len(feed) : feed'[n] = feed[n]
      /\ \A o \in Oids : receipt[o].disposition # "none" => receipt'[o] = receipt[o]
  <2>1. CASE UNCHANGED hub
    BY <1>3, <2>1 DEF hub
  <2>2. CASE receipt[Asked(c).oid].disposition = "none" /\ UNCHANGED feed
             /\ receipt' = [receipt EXCEPT ![Asked(c).oid].disposition = "rejected_stale"]
    BY <1>2, <1>3, <2>2
  <2>3. CASE /\ receipt[Asked(c).oid].disposition = "none"
             /\ feed' = Append(feed, EntryOf(Asked(c)))
             /\ receipt' = [receipt EXCEPT ![Asked(c).oid] =
                    [disposition |-> "accepted", sequence |-> Len(feed) + 1]]
    <3>1. Len(feed') = Len(feed) + 1 /\ \A n \in 1 .. Len(feed) : feed'[n] = feed[n]
      BY <1>1, <2>3, AcceptedHub
    <3>2. \A o \in Oids : receipt[o].disposition # "none" => receipt'[o] = receipt[o]
      BY <1>2, <1>3, <2>3
    <3> QED
      BY <1>3, <3>1, <3>2
  <2> QED
    BY <2>1, <2>2, <2>3 DEF Import
<1> QED
  BY <1>1, <1>3, <1>4, KeptFrame

LEMMA SendKeeps ==
    ASSUME SafeInv, NoOperationLost, NEW c \in Clients, Send(c)
    PROVE  NoOperationLost'
<1>1. feed' = feed /\ receipt' = receipt /\ state' = state
  BY DEF Send, hub
<1>2. Len(feed) \in Nat /\ \A d \in Clients : Len(outbox[d]) \in Nat
  BY ClientFacts DEF SafeInv, TypeOK
<1>3. ASSUME NEW d \in Clients
      PROVE  /\ Len(outbox'[d]) = Len(outbox[d]) /\ Rows(d)' = Rows(d)
             /\ \A k \in Rows(d) :
                   /\ outbox'[d][k].oid = outbox[d][k].oid /\ outbox'[d][k].id = outbox[d][k].id
                   /\ outbox'[d][k].op = outbox[d][k].op /\ outbox'[d][k].val = outbox[d][k].val
  <2>1. CASE d = c
    BY <2>1, SendRows DEF Rows
  <2>2. CASE d # c
    BY <2>2, SendRows DEF Rows
  <2> QED
    BY <2>1, <2>2
<1> QED
  BY <1>1, <1>2, <1>3, KeptFrame

LEMMA JournalKeeps ==
    ASSUME SafeInv, NoOperationLost, NEW c \in Clients, NEW i \in Ids, NEW op \in Ops,
           NEW v \in Values \cup {None}, NEW memory, Journal(c, i, op, v, memory)
    PROVE  NoOperationLost'
<1>1. feed' = feed /\ receipt' = receipt
  BY DEF Journal, hub
<1>2. Len(feed) \in Nat /\ \A d \in Clients : Len(outbox[d]) \in Nat
  BY ClientFacts DEF SafeInv, TypeOK
<1> DEFINE n == Len(outbox[c])
<1>3. /\ minted \in Nat
      /\ \A d \in Clients \ {c} : outbox'[d] = outbox[d]
      /\ Len(outbox'[c]) = n + 1 /\ minted + 1 \in Oids
      /\ \A k \in Rows(c) : outbox'[c][k] = outbox[c][k]
      /\ \A o \in Oids : state'[o] = IF o = minted + 1 THEN "pending" ELSE state[o]
      /\ outbox'[c][n + 1].oid = minted + 1
  <2>1. outbox'[c][n + 1] = [oid |-> minted + 1, id |-> i, op |-> op, val |-> v, seen |-> 0]
    BY JournalRows
  <2>2. outbox'[c][n + 1].oid = minted + 1
    BY <2>1
  <2> QED
    BY <2>2, JournalRows
<1> HIDE DEF n
<1>4. \A d \in Clients : \A k \in Rows(d) :
        outbox'[d][k] = outbox[d][k] /\ state'[outbox[d][k].oid] = state[outbox[d][k].oid]
  <2> SUFFICES ASSUME NEW d \in Clients, NEW k \in Rows(d)
               PROVE  outbox'[d][k] = outbox[d][k] /\ state'[outbox[d][k].oid] = state[outbox[d][k].oid]
    OBVIOUS
  <2>1. outbox[d][k].oid \in Oids /\ outbox[d][k].oid <= minted
    BY RowTypes, ClientFacts DEF Minted
  <2>2. outbox[d][k].oid # minted + 1
    BY <1>3, <2>1, Constants
  <2> QED
    BY <1>3, <2>1, <2>2
<1>5. \A d \in Clients : /\ Len(outbox'[d]) \in Nat /\ Len(outbox'[d]) >= Len(outbox[d])
                         /\ \A k \in Rows(d)' : k \in Rows(d) \/ state'[outbox'[d][k].oid] = "pending"
  <2> SUFFICES ASSUME NEW d \in Clients
               PROVE  /\ Len(outbox'[d]) \in Nat /\ Len(outbox'[d]) >= Len(outbox[d])
                      /\ \A k \in Rows(d)' : k \in Rows(d) \/ state'[outbox'[d][k].oid] = "pending"
    OBVIOUS
  <2>1. CASE d = c
    <3>1. \A k \in Rows(c)' : k \in Rows(c) \/ k = n + 1
      BY <1>2, <1>3 DEF Rows, n
    <3> QED
      BY <1>2, <1>3, <2>1, <3>1 DEF n
  <2>2. CASE d # c
    BY <1>2, <1>3, <2>2 DEF Rows
  <2> QED
    BY <2>1, <2>2
<1> QED
  BY <1>1, <1>2, <1>4, <1>5, KeptFrame

LEMMA CommandKeeps ==
    ASSUME SafeInv, NoOperationLost, NEW c \in Clients, Command(c)
    PROVE  NoOperationLost'
<1>1. PICK i \in Ids : (\E v \in Values : Write(c, i, v)) \/ Delete(c, i) \/ Restore(c, i)
  BY DEF Command
<1>2. local[c][i].val \in Values \cup {None}
  BY ClientFacts DEF TypeOK, Memories
<1>3. \E op \in Ops, v \in Values \cup {None} : \E memory : Journal(c, i, op, v, memory)
  BY <1>1, <1>2 DEF Write, Delete, Restore, Ops
<1> QED
  BY <1>3, JournalKeeps

\* A change a client made is never dropped on the way (drain, push.rs, pull.rs):
\* it is owed, or the hub refused it, or the hub holds its bytes or those of a
\* later change of the same client to the same memory, whatever is lost,
\* resent, pulled in between, or killed.
THEOREM NothingIsLost == Spec => []NoOperationLost
<1>1. Init => NoOperationLost
  BY DEF Init, NoOperationLost, Rows
<1>2. SafeInv /\ NoOperationLost /\ [Next]_vars => NoOperationLost'
  <2> SUFFICES ASSUME SafeInv, NoOperationLost, [Next]_vars PROVE NoOperationLost'
    OBVIOUS
  <2>1. CASE UNCHANGED vars
    BY <2>1, QuietKeeps DEF vars, store
  <2>2. ASSUME NEW c \in Clients, Proceed(c) PROVE NoOperationLost'
    <3>1. CASE \/ Rewind(c) \/ Page(c) \/ ResolveSuperseded(c) \/ ResolvePending(c) \/ ResolveApply(c)
               \/ Apply(c) \/ Bind(c) \/ Advance(c) \/ PassDone(c) \/ RecordBinding(c)
      <4>1. UNCHANGED <<hub, outbox, state>>
        BY <3>1 DEF Rewind, Page, ResolveSuperseded, ResolvePending, ResolveApply, Apply, Bind,
                    Advance, PassDone, RecordBinding, store
      <4> QED
        BY <4>1, QuietKeeps
    <3>2. CASE ResolveOwn(c) \/ ResolveUpstream(c)
      BY <3>2, PullKeeps
    <3>3. CASE Send(c) \/ Import(c) \/ Record(c)
      BY <3>3, SendKeeps, ImportKeeps, RecordKeeps
    <3> QED
      BY <2>2, <3>1, <3>2, <3>3 DEF Proceed
  <2>3. ASSUME NEW c \in Clients, (\E legs \in Legs : Open(c, legs)) \/ Stall(c) \/ LoseAnswer(c) \/ Crash(c)
        PROVE  NoOperationLost'
    <3>1. UNCHANGED <<hub, outbox, state>>
      BY <2>3 DEF Open, Stall, LoseAnswer, Crash, store
    <3> QED
      BY <3>1, QuietKeeps
  <2> QED
    BY <2>1, <2>2, <2>3, CommandKeeps DEF Next
<1> QED
  BY <1>1, <1>2, ExchangeSafe, PTL DEF Spec


--------------------------------------------------------------------------------
\* The cursor names contiguous handling, as long as no pass is killed while it
\* comes back for its holds: these are gone by then, the cursor not yet saved.

RewindIsWhole == \A c \in Clients : ~(At(c, "rewind") /\ Crash(c))

Handled(c, n) ==
    \/ feed[n].oid \in Own(c) \cup applied[c]
    \/ n \in holds[c]
    \/ n <= binding[c][feed[n].id].sequence

Deciding == {"apply", "bind", "advance"}

\* An acceptance the client has not recorded yet lies above its cursor, and is
\* not the entry it is deciding.
AnsweredAhead(c) ==
    /\ \A k \in Pending(c) :
          LET r == receipt[outbox[c][k].oid] IN
          r.disposition = "accepted" =>
              r.sequence > cursor[c] /\ (pass[c].step \in Deciding => r.sequence # Position(c))
    /\ pass[c].step = "settled" => receipt[Asked(c).oid].sequence > cursor[c]

\* Contiguous handling within a pass: a rewind gives up what lies above its
\* target, and the entry at hand is handled before the cursor moves past it.
HandledSoFar(c) ==
    /\ \A n \in 1 .. cursor[c] : (pass[c].step = "rewind" => n <= pass[c].upto) => Handled(c, n)
    /\ pass[c].step = "advance" => Handled(c, Position(c))

ContiguousInv == \A c \in Clients : AnsweredAhead(c) /\ HandledSoFar(c)

LEMMA HandledStays ==
    ASSUME SafeInv, NEW c \in Clients, NEW n \in 1 .. Len(feed), Handled(c, n),
           feed'[n] = feed[n], Own(c) \subseteq Own(c)', applied[c] \subseteq applied'[c],
           n \in holds[c] => n \in holds'[c],
           \A i \in Ids : \/ binding'[c][i].sequence = binding[c][i].sequence
                          \/ binding'[c][i].sequence >= n
    PROVE  Handled(c, n)'
<1>1. feed[n].id \in Ids
  <2>1. feed[n] \in Entries
    BY ClientFacts DEF TypeOK
  <2> QED
    BY <2>1 DEF Entries
<1>2. CASE n <= binding[c][feed[n].id].sequence
  BY <1>1, <1>2 DEF Handled
<1>3. CASE feed[n].oid \in Own(c) \cup applied[c] \/ n \in holds[c]
  BY <1>3 DEF Handled
<1> QED
  BY <1>2, <1>3 DEF Handled

\* A client whose own pass does not move: another client's step, or a command.
LEMMA HandledStill ==
    ASSUME SafeInv, NEW d \in Clients, HandledSoFar(d),
           UNCHANGED <<pass[d], cursor[d], holds[d], applied[d], binding[d]>>,
           \A n \in 1 .. Len(feed) : feed'[n] = feed[n], Own(d) \subseteq Own(d)'
    PROVE  HandledSoFar(d)'
<1>1. \A n \in 1 .. Len(feed) : Handled(d, n) => Handled(d, n)'
  BY HandledStays
<1>2. cursor[d] \in Nat /\ cursor[d] <= Len(feed) /\ Len(feed) \in Nat
  BY ClientFacts DEF PullsWithin
<1>3. pass[d].step = "advance" => Position(d) \in 1 .. Len(feed) /\ Position(d)' = Position(d)
  BY PositionTypes, ClientFacts DEF At, Position
<1>4. \A n \in 1 .. cursor[d] : n \in 1 .. Len(feed)
  BY <1>2
<1>5. pass[d].step = "advance" => Handled(d, Position(d))'
  BY <1>1, <1>3 DEF HandledSoFar, Handled
<1> QED
  BY <1>1, <1>4, <1>5 DEF HandledSoFar

LEMMA OthersContiguous ==
    ASSUME SafeInv, ContiguousInv, NEW c \in Clients,
           \A d \in Clients \ {c} :
              /\ UNCHANGED <<pass[d], cursor[d], holds[d], applied[d], binding[d], outbox[d]>>
              /\ \A k \in Rows(d) : UNCHANGED <<state[outbox[d][k].oid], receipt[outbox[d][k].oid]>>,
           \A n \in 1 .. Len(feed) : feed'[n] = feed[n],
           AnsweredAhead(c)', HandledSoFar(c)'
    PROVE  ContiguousInv'
<1> SUFFICES ASSUME NEW d \in Clients, d # c
             PROVE  AnsweredAhead(d)' /\ HandledSoFar(d)'
  BY DEF ContiguousInv
<1>1. Rows(d)' = Rows(d) /\ Own(d)' = Own(d) /\ Pending(d)' = Pending(d)
      /\ Pending(d) \subseteq Rows(d)
  BY DEF Rows, Own, OidsAt, Pending
<1>2. HandledSoFar(d)'
  BY <1>1, HandledStill DEF ContiguousInv
<1>3. pass[d].step = "settled" => Turn(d) \in Rows(d)
  BY AskedFacts DEF Pushing
<1>4. Turn(d)' = Turn(d) /\ Position(d)' = Position(d)
  BY DEF Turn, Rest, Position
<1>5. AnsweredAhead(d)
  BY DEF ContiguousInv
<1>6. pass[d].step = "settled" => receipt'[Asked(d)'.oid] = receipt[Asked(d).oid]
  BY <1>3, <1>4 DEF Asked
<1>7. AnsweredAhead(d)'
  BY <1>1, <1>4, <1>5, <1>6 DEF AnsweredAhead
<1> QED
  BY <1>2, <1>7

\* The common case: a step of c's pass that feed and outboxes do not see.
LEMMA OthersQuiet ==
    ASSUME SafeInv, ContiguousInv, NEW c \in Clients, UNCHANGED <<hub, outbox>>,
           \A d \in Clients \ {c} :
              UNCHANGED <<pass[d], cursor[d], holds[d], applied[d], binding[d]>>,
           \A o \in Oids : state'[o] = state[o] \/ o \in Own(c),
           AnsweredAhead(c)', HandledSoFar(c)'
    PROVE  ContiguousInv'
<1>1. \A d \in Clients \ {c} : \A k \in Rows(d) :
        outbox[d][k].oid \in Oids /\ outbox[d][k].oid \notin Own(c)
  BY RowTypes, ClientFacts DEF SafeInv, Apart, Own, OidsAt
<1>2. \A d \in Clients \ {c} : \A k \in Rows(d) :
        UNCHANGED <<state[outbox[d][k].oid], receipt[outbox[d][k].oid]>>
  BY <1>1 DEF hub
<1> QED
  BY <1>2, OthersContiguous DEF hub

LEMMA AheadStays ==
    ASSUME SafeInv, NEW c \in Clients, AnsweredAhead(c), UNCHANGED <<hub, outbox>>,
           Pending(c)' \subseteq Pending(c), pass'[c].step # "settled",
           \/ cursor'[c] = cursor[c] /\ (pass'[c].step \in Deciding =>
                pass[c].step \in Deciding \/ (At(c, "pull") /\
                   \A k \in Pending(c)' : outbox[c][k].oid # Entry(c).oid))
           \/ cursor'[c] \in Nat /\ cursor'[c] <= cursor[c] /\ pass'[c].step \notin Deciding
    PROVE  AnsweredAhead(c)'
<1>1. \A k \in Pending(c)' : LET r == receipt[outbox[c][k].oid] IN
        r.disposition = "accepted" => r.sequence > cursor[c] /\ r.sequence \in 1 .. Len(feed)
  <2>1. \A k \in Pending(c)' : outbox[c][k].oid \in Oids
    BY RowTypes, ClientFacts DEF Pending
  <2> QED
    BY <2>1 DEF AnsweredAhead, SafeInv, FeedIsReceipted
<1>2. cursor[c] \in Nat /\ Len(feed) \in Nat
  BY ClientFacts
<1>3. ASSUME NEW k \in Pending(c)', receipt[outbox[c][k].oid].disposition = "accepted",
             pass'[c].step \in Deciding
      PROVE  receipt[outbox[c][k].oid].sequence # Position(c)' /\ cursor'[c] = cursor[c]
  <2>1. cursor'[c] = cursor[c] /\ Position(c)' = Position(c)
    BY <1>3 DEF Position
  <2>2. CASE pass[c].step \in Deciding
    BY <1>3, <2>1, <2>2 DEF AnsweredAhead
  <2>3. CASE At(c, "pull") /\ outbox[c][k].oid # Entry(c).oid
    <3>1. outbox[c][k].oid \in Oids
      BY <1>3, RowTypes, ClientFacts DEF Pending
    <3>2. feed[receipt[outbox[c][k].oid].sequence].oid = outbox[c][k].oid
      BY <1>3, <3>1 DEF SafeInv, FeedIsReceipted
    <3> QED
      BY <2>1, <2>3, <3>2 DEF Entry
  <2> QED
    BY <1>3, <2>1, <2>2, <2>3
<1> QED
  BY <1>1, <1>2, <1>3 DEF AnsweredAhead, hub

LEMMA HandledGoesOn ==
    ASSUME SafeInv, NEW c \in Clients, HandledSoFar(c),
           \A n \in 1 .. Len(feed) : feed'[n] = feed[n], Own(c) \subseteq Own(c)',
           pass[c].step # "rewind", pass'[c].step # "rewind",
           cursor'[c] = cursor[c], applied[c] \subseteq applied'[c], holds[c] \subseteq holds'[c],
           \A i \in Ids : \/ binding'[c][i].sequence = binding[c][i].sequence
                          \/ binding'[c][i].sequence \in Nat /\ binding'[c][i].sequence > cursor[c],
           pass'[c].step = "advance" => Handled(c, Position(c))'
    PROVE  HandledSoFar(c)'
<1>1. cursor[c] \in Nat /\ cursor[c] <= Len(feed) /\ Len(feed) \in Nat
  BY ClientFacts DEF PullsWithin
<1>2. ASSUME NEW n \in 1 .. cursor[c] PROVE Handled(c, n)'
  <2>1. n \in 1 .. Len(feed) /\ \A m \in Nat : m > cursor[c] => m >= n
    BY <1>1, <1>2
  <2>2. Handled(c, n)
    BY <1>2 DEF HandledSoFar
  <2> QED
    BY <2>1, <2>2, HandledStays
<1> QED
  BY <1>2 DEF HandledSoFar


LEMMA OpenContiguous ==
    ASSUME SafeInv, ContiguousInv, NEW c \in Clients, NEW legs \in Legs, Open(c, legs)
    PROVE  ContiguousInv'
<1> DEFINE due == IF legs = "both" THEN Due(c) ELSE {}
           p == [NoPass EXCEPT !.head = IF legs = "both" THEN Len(feed) ELSE 0]
<1>1. /\ At(c, "idle") /\ UNCHANGED <<hub, outbox, state, binding, cursor, applied>>
      /\ holds' = [holds EXCEPT ![c] = @ \ due]
      /\ \/ due = {} /\ Iterate(c, p, cursor[c])
         \/ due # {} /\ pass' = [pass EXCEPT ![c] = [p EXCEPT !.step = "rewind", !.upto = Min(due) - 1]]
  BY DEF Open
<1>2. due \in SUBSET Nat /\ \A n \in due : n \in 1 .. Len(feed)
  BY ClientFacts DEF Due, PullsWithin
<1>3. \A d \in Clients \ {c} : UNCHANGED <<pass[d], cursor[d], holds[d], applied[d], binding[d]>>
  BY <1>1, ClientFacts DEF Iterate, TypeOK
<1>4. holds'[c] = holds[c] \ due
  BY <1>1, ClientFacts DEF TypeOK
<1>5. AnsweredAhead(c) /\ HandledSoFar(c)
  BY DEF ContiguousInv
<1> DEFINE target == Min(due) - 1
<1>6. DOMAIN p = {"step", "head", "upto", "wire", "done"}
  BY DEF NoPass
<1> HIDE DEF p
<1>7. CASE due = {} /\ Iterate(c, p, cursor[c])
  <2>1. pass'[c].step \in {"page", "push"}
    BY <1>6, <1>7, ClientFacts DEF Iterate, TypeOK
  <2>2. AnsweredAhead(c)'
    BY <1>1, <1>5, <2>1, AheadStays DEF Deciding, Pending, Rows
  <2>3. Own(c)' = Own(c)
    BY <1>1 DEF Own, OidsAt, Rows
  <2>4. HandledSoFar(c)'
    BY <1>1, <1>4, <1>5, <1>7, <2>1, <2>3, HandledGoesOn DEF hub, At
  <2> QED
    BY <1>1, <1>3, <2>2, <2>4, OthersQuiet
<1>8. CASE due # {} /\ pass' = [pass EXCEPT ![c] = [p EXCEPT !.step = "rewind", !.upto = target]]
  <2>1. Min(due) \in Nat /\ \A n \in due : n >= Min(due)
    BY <1>2, <1>8, MinIsLeast
  <2> HIDE DEF target
  <2>2. pass'[c].step = "rewind" /\ pass'[c].upto = target
    BY <1>6, <1>8, ClientFacts DEF TypeOK
  <2>3. AnsweredAhead(c)'
    BY <1>1, <1>5, <2>2, AheadStays DEF Deciding, Pending, Rows
  <2>4. ASSUME NEW n \in 1 .. cursor[c], n <= target PROVE Handled(c, n)'
    <3>1. n \notin due
      BY <2>1, <2>4 DEF target
    <3>2. Handled(c, n)
      BY <1>1, <1>5 DEF HandledSoFar, At
    <3>3. n \in 1 .. Len(feed)
      BY ClientFacts DEF PullsWithin
    <3>4. Own(c)' = Own(c)
      BY <1>1 DEF Own, OidsAt, Rows
    <3> QED
      BY <1>1, <1>4, <3>1, <3>2, <3>3, <3>4, HandledStays DEF hub
  <2>5. HandledSoFar(c)'
    BY <1>1, <2>2, <2>4 DEF HandledSoFar
  <2> QED
    BY <1>1, <1>3, <2>3, <2>5, OthersQuiet
<1> QED
  BY <1>1, <1>7, <1>8

LEMMA RewindContiguous ==
    ASSUME SafeInv, ContiguousInv, NEW c \in Clients, Rewind(c)
    PROVE  ContiguousInv'
<1> DEFINE back == Min({cursor[c], pass[c].upto})
<1>1. back \in Nat /\ back <= cursor[c] /\ back <= pass[c].upto
  <2>1. {cursor[c], pass[c].upto} \in SUBSET Nat /\ {cursor[c], pass[c].upto} # {}
    BY ClientFacts
  <2> QED
    BY <2>1, MinIsLeast
<1>2. /\ At(c, "rewind") /\ UNCHANGED <<hub, outbox, state, binding, holds, applied>>
      /\ cursor' = [cursor EXCEPT ![c] = back] /\ Iterate(c, pass[c], back)
  BY DEF Rewind
<1> HIDE DEF back
<1>3. /\ \A d \in Clients \ {c} : UNCHANGED <<pass[d], cursor[d], holds[d], applied[d], binding[d]>>
      /\ cursor'[c] = back
  BY <1>2, ClientFacts DEF Iterate, TypeOK
<1>4. pass'[c].step \in {"page", "push"}
  BY <1>2, ClientFacts DEF Iterate, TypeOK, Passes
<1>5. AnsweredAhead(c)'
  BY <1>1, <1>2, <1>3, <1>4, AheadStays DEF ContiguousInv, Deciding, Pending, Rows
<1>6. ASSUME NEW n \in 1 .. back PROVE Handled(c, n)'
  <2>1. n \in 1 .. cursor[c] /\ n \in 1 .. Len(feed) /\ n <= pass[c].upto
    BY <1>1, ClientFacts DEF PullsWithin
  <2>2. Handled(c, n)
    BY <2>1 DEF ContiguousInv, HandledSoFar
  <2>3. Own(c)' = Own(c)
    BY <1>2 DEF Own, OidsAt, Rows
  <2> QED
    BY <1>2, <2>1, <2>2, <2>3, HandledStays DEF hub
<1>7. HandledSoFar(c)'
  BY <1>3, <1>4, <1>6 DEF HandledSoFar
<1> QED
  BY <1>2, <1>3, <1>5, <1>7, OthersQuiet

\* Steps that end, open or resume a request or a page, and change nothing else.
LEMMA MovesContiguous ==
    ASSUME SafeInv, ContiguousInv, NEW c \in Clients, UNCHANGED <<hub, store>>,
           \A d \in Clients \ {c} : pass'[d] = pass[d],
           pass[c].step # "rewind", pass'[c].step \notin {"rewind", "settled"},
           pass'[c].step \notin Deciding
           \/ /\ At(c, "pull") /\ pass'[c].step # "advance"
              /\ \A k \in Pending(c) : outbox[c][k].oid # Entry(c).oid
    PROVE  ContiguousInv'
<1>1. Pending(c)' = Pending(c) /\ Own(c)' = Own(c)
  BY DEF store, Pending, Own, OidsAt, Rows
<1>2. AnsweredAhead(c)'
  BY <1>1, AheadStays DEF ContiguousInv, store
<1>3. HandledSoFar(c)'
  BY <1>1, HandledGoesOn DEF ContiguousInv, store, hub, Deciding
<1> QED
  BY <1>2, <1>3, OthersQuiet DEF store

LEMMA ForeignIsNotPending ==
    ASSUME SafeInv, NEW c \in Clients, Foreign(c)
    PROVE  At(c, "pull") /\ \A k \in Pending(c) : outbox[c][k].oid # Entry(c).oid
  BY DEF Foreign, Own, OidsAt, Pending

LEMMA QuietContiguous ==
    ASSUME SafeInv, ContiguousInv, NEW c \in Clients,
           Page(c) \/ PassDone(c) \/ LoseAnswer(c) \/ Stall(c) \/ ResolveApply(c)
           \/ (Crash(c) /\ ~At(c, "rewind"))
    PROVE  ContiguousInv'
<1>1. UNCHANGED <<hub, store>> /\ pass[c].step # "rewind"
  BY DEF Page, PassDone, LoseAnswer, Stall, Crash, ResolveApply, Foreign, At
<1>2. \A d \in Clients \ {c} : pass'[d] = pass[d]
  BY ClientFacts DEF Page, PassDone, LoseAnswer, Stall, Crash, ResolveApply, Goto, TypeOK
<1>3. \/ pass'[c].step \in {"pull", "push", "sent", "idle"}
      \/ pass'[c].step = "apply" /\ Foreign(c)
  <2>1. NoPass.step = "idle"
    BY DEF NoPass
  <2> QED
    BY <2>1, ClientFacts DEF Page, PassDone, LoseAnswer, Stall, Crash, ResolveApply, Goto, TypeOK, Passes
<1> QED
  BY <1>1, <1>2, <1>3, ForeignIsNotPending, MovesContiguous DEF Deciding

\* The pull settles its own row, or the rows it finds upstream.
LEMMA SettledContiguous ==
    ASSUME SafeInv, ContiguousInv, NEW c \in Clients, ResolveOwn(c) \/ ResolveUpstream(c)
    PROVE  ContiguousInv'
<1>1. /\ At(c, "pull") /\ Goto(c, "bind")
      /\ UNCHANGED <<hub, outbox, binding, cursor, holds, applied>>
  BY DEF ResolveOwn, ResolveUpstream, Foreign
<1>2. /\ \A d \in Clients \ {c} : pass'[d] = pass[d]
      /\ pass'[c].step = "bind"
  BY <1>1, PullGoes DEF At, Pulling
<1>3. PICK oids \in SUBSET Own(c) : Settle(oids) /\ (Entry(c).oid \in Own(c) => Entry(c).oid \in oids)
  <2>1. AlreadyUpstream(c) \in SUBSET Own(c)
    BY DEF AlreadyUpstream, OidsAt, PendingOn, Pending, Own
  <2>2. {Entry(c).oid} \in SUBSET Own(c) \/ ~ResolveOwn(c)
    BY DEF ResolveOwn
  <2> QED
    BY <2>1, <2>2 DEF ResolveOwn, ResolveUpstream, Foreign
<1>4. \A o \in Oids : state'[o] = IF o \in oids THEN "accepted" ELSE state[o]
  BY <1>3, SettleTypes, ClientFacts
<1>5. \A k \in Pending(c)' : k \in Pending(c) /\ outbox[c][k].oid # Entry(c).oid
  <2> SUFFICES ASSUME NEW k \in Pending(c)'
               PROVE  k \in Pending(c) /\ outbox[c][k].oid # Entry(c).oid
    OBVIOUS
  <2>1. k \in Rows(c) /\ state'[outbox[c][k].oid] = "pending" /\ outbox[c][k].oid \in Own(c)
    BY <1>1 DEF Pending, Rows, Own, OidsAt
  <2>2. outbox[c][k].oid \in Oids
    BY <2>1, RowTypes, ClientFacts
  <2>3. outbox[c][k].oid \notin oids /\ state[outbox[c][k].oid] = "pending"
    BY <1>4, <2>1, <2>2
  <2> QED
    BY <1>3, <2>1, <2>3 DEF Pending
<1>6. AnsweredAhead(c)'
  BY <1>1, <1>2, <1>5, AheadStays DEF ContiguousInv
<1>7. HandledSoFar(c)'
  BY <1>1, <1>2, HandledGoesOn DEF ContiguousInv, hub, At, Own, OidsAt, Rows
<1> QED
  BY <1>1, <1>2, <1>3, <1>4, <1>6, <1>7, OthersQuiet

LEMMA HoldContiguous ==
    ASSUME SafeInv, ContiguousInv, NEW c \in Clients, ResolvePending(c)
    PROVE  ContiguousInv'
<1>1. /\ Foreign(c) /\ Goto(c, "advance") /\ UNCHANGED <<hub, outbox, state, binding, cursor, applied>>
      /\ holds' = [holds EXCEPT ![c] = @ \cup {Position(c)}]
  BY DEF ResolvePending
<1>2. At(c, "pull") /\ \A k \in Pending(c) : outbox[c][k].oid # Entry(c).oid
  BY <1>1, ForeignIsNotPending
<1>3. /\ \A d \in Clients \ {c} : UNCHANGED <<pass[d], cursor[d], holds[d], applied[d], binding[d]>>
      /\ pass'[c].step = "advance" /\ holds'[c] = holds[c] \cup {Position(c)}
  BY <1>1, <1>2, PullGoes, ClientFacts DEF At, Pulling, TypeOK
<1>4. AnsweredAhead(c)'
  BY <1>1, <1>2, <1>3, AheadStays DEF ContiguousInv, Pending, Rows
<1>5. Handled(c, Position(c))'
  BY <1>1, <1>3 DEF Handled, Position
<1>6. HandledSoFar(c)'
  BY <1>1, <1>2, <1>3, <1>5, HandledGoesOn DEF ContiguousInv, hub, At, Own, OidsAt, Rows
<1> QED
  BY <1>1, <1>3, <1>4, <1>6, OthersQuiet

LEMMA ApplyContiguous ==
    ASSUME SafeInv, ContiguousInv, NEW c \in Clients, Apply(c)
    PROVE  ContiguousInv'
<1>1. /\ At(c, "apply") /\ Goto(c, "bind") /\ UNCHANGED <<hub, outbox, state, binding, cursor, holds>>
      /\ applied' = applied \/ applied' = [applied EXCEPT ![c] = @ \cup {Entry(c).oid}]
  BY DEF Apply
<1>2. /\ \A d \in Clients \ {c} : UNCHANGED <<pass[d], cursor[d], holds[d], applied[d], binding[d]>>
      /\ pass'[c].step = "bind" /\ applied[c] \subseteq applied'[c]
  BY <1>1, PullGoes, ClientFacts DEF At, Pulling, TypeOK
<1>3. AnsweredAhead(c)'
  BY <1>1, <1>2, AheadStays DEF ContiguousInv, Pending, Rows, At, Deciding
<1>4. HandledSoFar(c)'
  BY <1>1, <1>2, HandledGoesOn DEF ContiguousInv, hub, At, Own, OidsAt, Rows
<1> QED
  BY <1>1, <1>2, <1>3, <1>4, OthersQuiet

LEMMA BindContiguous ==
    ASSUME SafeInv, ContiguousInv, NEW c \in Clients, Bind(c)
    PROVE  ContiguousInv'
<1>1. PICK b : b = [sequence |-> Position(c), deleted |-> Entry(c).op = "tombstone"]
  OBVIOUS
<1>2. /\ At(c, "bind") /\ Goto(c, "advance") /\ UNCHANGED <<hub, outbox, state, cursor, holds, applied>>
      /\ binding' = [binding EXCEPT ![c][Entry(c).id] = b]
  BY <1>1 DEF Bind
<1>3. b.sequence = Position(c)
  BY <1>1
<1>4. Position(c) \in Nat /\ Position(c) > cursor[c] /\ Entry(c).id \in Ids
      /\ Position(c) \in 1 .. Len(feed)
  BY <1>2, PositionTypes, ClientFacts DEF Entries
<1>5. /\ \A d \in Clients \ {c} : UNCHANGED <<pass[d], cursor[d], holds[d], applied[d], binding[d]>>
      /\ pass'[c].step = "advance"
      /\ \A i \in Ids : binding'[c][i] = IF i = Entry(c).id THEN b ELSE binding[c][i]
  BY <1>2, PullGoes, ClientFacts DEF At, Pulling, TypeOK
<1>6. AnsweredAhead(c)'
  BY <1>2, <1>5, AheadStays DEF ContiguousInv, Pending, Rows, At, Deciding
<1>7. Handled(c, Position(c))'
  <2>1. Position(c)' = Position(c) /\ feed' = feed
    BY <1>2 DEF Position, hub
  <2>2. binding'[c][Entry(c).id].sequence = Position(c)
    BY <1>3, <1>4, <1>5
  <2> QED
    BY <1>4, <2>1, <2>2 DEF Handled, Entry
<1>8. \A i \in Ids : \/ binding'[c][i].sequence = binding[c][i].sequence
                     \/ binding'[c][i].sequence \in Nat /\ binding'[c][i].sequence > cursor[c]
  BY <1>3, <1>4, <1>5
<1>9. HandledSoFar(c)'
  BY <1>2, <1>5, <1>7, <1>8, HandledGoesOn DEF ContiguousInv, hub, At, Own, OidsAt, Rows
<1> QED
  BY <1>2, <1>5, <1>6, <1>9, OthersQuiet


LEMMA PastEntryContiguous ==
    ASSUME SafeInv, ContiguousInv, NEW c \in Clients, At(c, "pull") \/ At(c, "advance"), PastEntry(c),
           UNCHANGED <<hub, outbox, state, binding, holds, applied>>,
           Handled(c, Position(c)),
           \A k \in Pending(c) : receipt[outbox[c][k].oid].disposition = "accepted" =>
                                 receipt[outbox[c][k].oid].sequence # Position(c)
    PROVE  ContiguousInv'
<1>1. /\ \A d \in Clients \ {c} : UNCHANGED <<pass[d], cursor[d], holds[d], applied[d], binding[d]>>
      /\ cursor'[c] = Position(c) /\ pass'[c].step \in {"pull", "push"}
  BY ClientFacts DEF PastEntry, Goto, TypeOK, Passes
<1>2. cursor[c] \in Nat /\ Position(c) = cursor[c] + 1
  BY ClientFacts DEF Position
<1>3. AnsweredAhead(c)'
  <2>1. \A k \in Pending(c) : receipt[outbox[c][k].oid].disposition = "accepted" =>
           receipt[outbox[c][k].oid].sequence > Position(c)
    <3> SUFFICES ASSUME NEW k \in Pending(c), receipt[outbox[c][k].oid].disposition = "accepted"
                 PROVE  receipt[outbox[c][k].oid].sequence > Position(c)
      OBVIOUS
    <3>1. outbox[c][k].oid \in Oids
      BY RowTypes, ClientFacts DEF Pending
    <3>2. receipt[outbox[c][k].oid].sequence \in Nat
      BY <3>1 DEF SafeInv, FeedIsReceipted
    <3>3. receipt[outbox[c][k].oid].sequence > cursor[c]
      BY DEF ContiguousInv, AnsweredAhead
    <3> QED
      BY <1>2, <3>2, <3>3
  <2> QED
    BY <1>1, <2>1 DEF AnsweredAhead, Pending, Rows, hub, Deciding
<1>4. HandledSoFar(c)'
  <2>1. \A n \in 1 .. Position(c) : Handled(c, n)
    BY <1>2 DEF ContiguousInv, HandledSoFar, At
  <2>2. \A n : Handled(c, n) => Handled(c, n)'
    BY DEF Handled, Own, OidsAt, Rows, hub
  <2> QED
    BY <1>1, <2>1, <2>2 DEF HandledSoFar
<1> QED
  BY <1>1, <1>3, <1>4, OthersQuiet

LEMMA PastContiguous ==
    ASSUME SafeInv, ContiguousInv, NEW c \in Clients, ResolveSuperseded(c) \/ Advance(c)
    PROVE  ContiguousInv'
<1>1. CASE ResolveSuperseded(c)
  <2>1. At(c, "pull") /\ \A k \in Pending(c) : outbox[c][k].oid # Entry(c).oid
    BY <1>1, ForeignIsNotPending DEF ResolveSuperseded
  <2>2. \A k \in Pending(c) : receipt[outbox[c][k].oid].disposition = "accepted" =>
                              receipt[outbox[c][k].oid].sequence # Position(c)
    <3>1. \A k \in Pending(c) : outbox[c][k].oid \in Oids
      BY RowTypes, ClientFacts DEF Pending
    <3> QED
      BY <2>1, <3>1 DEF SafeInv, FeedIsReceipted, Entry
  <2>3. Handled(c, Position(c))
    BY <1>1 DEF ResolveSuperseded, Superseded, Handled, Entry
  <2> QED
    BY <1>1, <2>1, <2>2, <2>3, PastEntryContiguous DEF ResolveSuperseded
<1>2. CASE Advance(c)
  <2>1. At(c, "advance") /\ Handled(c, Position(c))
    BY <1>2 DEF Advance, At, ContiguousInv, HandledSoFar
  <2>2. \A k \in Pending(c) : receipt[outbox[c][k].oid].disposition = "accepted" =>
                              receipt[outbox[c][k].oid].sequence # Position(c)
    BY <2>1 DEF ContiguousInv, AnsweredAhead, At, Deciding
  <2> QED
    BY <1>2, <2>1, <2>2, PastEntryContiguous DEF Advance
<1> QED
  BY <1>1, <1>2

LEMMA SendContiguous ==
    ASSUME SafeInv, ContiguousInv, NEW c \in Clients, Send(c)
    PROVE  ContiguousInv'
<1>1. /\ At(c, "push") /\ UNCHANGED <<hub, state, binding, cursor, holds, applied>>
      /\ feed' = feed /\ receipt' = receipt
  BY DEF Send, hub
<1>2. pass'[c].step = "sent" /\ \A d \in Clients \ {c} : pass'[d] = pass[d]
  BY ClientFacts DEF Send, TypeOK, Passes
<1>3. /\ Rows(c)' = Rows(c) /\ \A k \in Rows(c) : outbox'[c][k].oid = outbox[c][k].oid
      /\ \A d \in Clients \ {c} : outbox'[d] = outbox[d]
  BY SendRows DEF Rows
<1>4. Own(c)' = Own(c) /\ Pending(c)' = Pending(c) /\ Pending(c) \subseteq Rows(c)
  BY <1>1, <1>3 DEF Own, OidsAt, Pending
<1>5. AnsweredAhead(c)'
  BY <1>1, <1>2, <1>3, <1>4 DEF ContiguousInv, AnsweredAhead, Deciding
<1>6. HandledSoFar(c)'
  BY <1>1, <1>2, <1>4, HandledGoesOn DEF ContiguousInv, At
<1> QED
  BY <1>1, <1>2, <1>3, <1>5, <1>6, OthersContiguous

LEMMA ImportContiguous ==
    ASSUME SafeInv, ContiguousInv, NEW c \in Clients, Import(c)
    PROVE  ContiguousInv'
<1>1. At(c, "sent") /\ Answered(c) /\ UNCHANGED <<store, bounds>>
      /\ UNCHANGED <<outbox, state, binding, cursor, holds, applied>>
  BY DEF Import, store
<1>2. /\ Asked(c).oid \in Oids /\ Asked(c).oid \in Own(c)
  BY <1>1, AskedFacts DEF At, Pushing
<1>3. receipt \in [Oids -> Receipts] /\ Len(feed) \in Nat /\ cursor[c] \in Nat /\ cursor[c] <= Len(feed)
  BY ClientFacts DEF SafeInv, TypeOK, PullsWithin
<1>4. /\ \A n \in 1 .. Len(feed) : feed'[n] = feed[n]
      /\ \A o \in Oids : receipt'[o] = receipt[o] \/ (o = Asked(c).oid /\
            (receipt'[o].disposition = "accepted" => receipt'[o].sequence > cursor[c]))
  <2>1. CASE UNCHANGED hub
    BY <2>1 DEF hub
  <2>2. CASE UNCHANGED feed
             /\ receipt' = [receipt EXCEPT ![Asked(c).oid].disposition = "rejected_stale"]
    <3>1. receipt[Asked(c).oid] \in Receipts
      BY <1>2, <1>3
    <3>2. receipt'[Asked(c).oid].disposition = "rejected_stale"
      BY <1>2, <1>3, <2>2, <3>1 DEF Receipts
    <3>3. \A o \in Oids : o # Asked(c).oid => receipt'[o] = receipt[o]
      BY <1>3, <2>2
    <3> QED
      BY <2>2, <3>2, <3>3
  <2>3. CASE /\ receipt[Asked(c).oid].disposition = "none"
             /\ feed' = Append(feed, EntryOf(Asked(c)))
             /\ receipt' = [receipt EXCEPT ![Asked(c).oid] =
                    [disposition |-> "accepted", sequence |-> Len(feed) + 1]]
    <3>1. \A n \in 1 .. Len(feed) : feed'[n] = feed[n]
      BY <1>1, <2>3, AcceptedHub
    <3>2. \A o \in Oids : receipt'[o] = IF o = Asked(c).oid
              THEN [disposition |-> "accepted", sequence |-> Len(feed) + 1] ELSE receipt[o]
      BY <1>2, <1>3, <2>3
    <3> QED
      BY <1>3, <3>1, <3>2
  <2> QED
    BY <2>1, <2>2, <2>3 DEF Import
<1>5. /\ \A d \in Clients \ {c} : pass'[d] = pass[d]
      /\ pass'[c].step \in {"sent", "answered"}
  BY <1>1, ClientFacts DEF Answered, At, TypeOK, Passes
<1>6. AnsweredAhead(c)'
  <2>1. Pending(c)' = Pending(c) /\ \A k \in Pending(c) : outbox[c][k].oid \in Oids
    BY <1>1, RowTypes, ClientFacts DEF Pending, Rows
  <2> QED
    BY <1>1, <1>4, <1>5, <2>1 DEF ContiguousInv, AnsweredAhead, Deciding
<1>7. HandledSoFar(c)'
  BY <1>1, <1>4, <1>5, HandledGoesOn DEF ContiguousInv, At, Own, OidsAt, Rows
<1>8. \A d \in Clients \ {c} : \A k \in Rows(d) : receipt'[outbox[d][k].oid] = receipt[outbox[d][k].oid]
  <2>1. \A d \in Clients \ {c} : \A k \in Rows(d) :
          outbox[d][k].oid \in Oids /\ outbox[d][k].oid \notin Own(c)
    BY RowTypes, ClientFacts DEF SafeInv, Apart, Own, OidsAt
  <2> QED
    BY <1>2, <1>4, <2>1
<1> QED
  BY <1>1, <1>4, <1>5, <1>6, <1>7, <1>8, OthersContiguous

LEMMA RecordContiguous ==
    ASSUME SafeInv, ContiguousInv, NEW c \in Clients, Record(c)
    PROVE  ContiguousInv'
<1>1. /\ pass[c].step = "answered"
      /\ UNCHANGED <<hub, outbox, binding, cursor, holds, applied>>
  BY DEF Record, At
<1>2. /\ Turn(c) \in Rows(c) /\ Asked(c) = outbox[c][Turn(c)] /\ Asked(c).oid \in Oids
      /\ Asked(c).oid \in Own(c) /\ Turn(c) \in pass[c].wire /\ Turn(c) > pass[c].done
  BY <1>1, AskedFacts DEF Pushing
<1>3. Turn(c) \in Pending(c)
  BY <1>1, <1>2, ClientFacts DEF WireIsOwed
<1>4. \A o \in Oids : state'[o] = state[o] \/ (o = Asked(c).oid /\ state'[o] \in {"accepted", "rejected"})
  BY <1>2, ClientFacts DEF Record, Settle, TypeOK
<1>5. Pending(c)' \subseteq Pending(c)
  <2> SUFFICES ASSUME NEW k \in Pending(c)' PROVE k \in Pending(c)
    OBVIOUS
  <2>1. k \in Rows(c) /\ state'[outbox[c][k].oid] = "pending"
    BY <1>1 DEF Pending, Rows
  <2>2. outbox[c][k].oid \in Oids
    BY <2>1, RowTypes, ClientFacts
  <2> QED
    BY <1>4, <2>1, <2>2 DEF Pending
<1>6. Own(c)' = Own(c)
  BY <1>1 DEF Own, OidsAt, Rows
<1>7. CASE receipt[Asked(c).oid].disposition = "accepted" /\ Goto(c, "settled")
  <2>1. /\ \A d \in Clients \ {c} : pass'[d] = pass[d]
        /\ pass'[c].step = "settled" /\ pass'[c].wire = pass[c].wire /\ pass'[c].done = pass[c].done
    BY <1>7, ClientFacts DEF Goto, TypeOK, Passes
  <2>2. Asked(c)' = Asked(c)
    BY <1>1, <2>1 DEF Asked, Turn, Rest
  <2>3. receipt[Asked(c).oid].sequence > cursor[c]
    BY <1>2, <1>3, <1>7 DEF ContiguousInv, AnsweredAhead
  <2>4. AnsweredAhead(c)'
    BY <1>1, <1>5, <2>1, <2>2, <2>3 DEF ContiguousInv, AnsweredAhead, Deciding, hub
  <2>5. HandledSoFar(c)'
    BY <1>1, <1>6, <2>1, HandledGoesOn DEF ContiguousInv, hub
  <2> QED
    BY <1>1, <1>2, <1>4, <2>1, <2>4, <2>5, OthersQuiet
<1>8. CASE Recorded(c)
  <2>1. /\ \A d \in Clients \ {c} : pass'[d] = pass[d]
        /\ pass'[c].step \in {"answered", "page", "push", "idle"}
    BY <1>1, <1>8, RecordedGoes
  <2>2. AnsweredAhead(c)'
    BY <1>1, <1>5, <2>1, AheadStays DEF ContiguousInv, Deciding
  <2>3. HandledSoFar(c)'
    BY <1>1, <1>6, <2>1, HandledGoesOn DEF ContiguousInv, hub
  <2> QED
    BY <1>1, <1>2, <1>4, <2>1, <2>2, <2>3, OthersQuiet
<1> QED
  BY <1>7, <1>8 DEF Record

\* The binding an acceptance leaves lies above the cursor.
LEMMA RecordBindingContiguous ==
    ASSUME SafeInv, ContiguousInv, NEW c \in Clients, RecordBinding(c)
    PROVE  ContiguousInv'
<1>1. PICK b : b = [sequence |-> receipt[Asked(c).oid].sequence, deleted |-> Asked(c).op = "tombstone"]
  OBVIOUS
<1>2. /\ pass[c].step = "settled" /\ Recorded(c)
      /\ UNCHANGED <<hub, outbox, state, cursor, holds, applied>>
      /\ binding' = [binding EXCEPT ![c][Asked(c).id] = b]
  BY <1>1 DEF RecordBinding, At
<1>3. b.sequence = receipt[Asked(c).oid].sequence
  BY <1>1
<1>4. Asked(c).oid \in Oids /\ receipt[Asked(c).oid].disposition = "accepted"
  BY <1>2, AskedFacts, ClientFacts DEF Pushing, WireIsOwed
<1>5. b.sequence \in Nat /\ b.sequence > cursor[c]
  BY <1>2, <1>3, <1>4 DEF ContiguousInv, AnsweredAhead, SafeInv, FeedIsReceipted
<1>6. /\ \A d \in Clients \ {c} : pass'[d] = pass[d]
      /\ pass'[c].step \in {"answered", "page", "push", "idle"}
  BY <1>2, RecordedGoes
<1>7. /\ \A d \in Clients \ {c} : binding'[d] = binding[d]
      /\ \A i \in Ids : binding'[c][i] = IF i = Asked(c).id THEN b ELSE binding[c][i]
  BY <1>2, ClientFacts DEF TypeOK
<1>8. AnsweredAhead(c)'
  BY <1>2, <1>6, AheadStays DEF ContiguousInv, Deciding, Pending, Rows
<1>9. HandledSoFar(c)'
  BY <1>2, <1>5, <1>6, <1>7, HandledGoesOn DEF ContiguousInv, hub, Own, OidsAt, Rows
<1> QED
  BY <1>2, <1>6, <1>7, <1>8, <1>9, OthersQuiet

LEMMA CommandContiguous ==
    ASSUME SafeInv, ContiguousInv, NEW c \in Clients, Command(c)
    PROVE  ContiguousInv'
<1>1. PICK i \in Ids : (\E v \in Values : Write(c, i, v)) \/ Delete(c, i) \/ Restore(c, i)
  BY DEF Command
<1>2. local[c][i].val \in Values \cup {None}
  BY ClientFacts DEF TypeOK, Memories
<1>3. PICK op, v, memory :
        op \in Ops /\ v \in Values \cup {None} /\ Journal(c, i, op, v, memory)
  BY <1>1, <1>2 DEF Write, Delete, Restore, Ops
<1>4. /\ UNCHANGED <<hub, binding, cursor, holds, applied, pass>>
      /\ feed' = feed /\ receipt' = receipt
  BY <1>3 DEF Journal, hub
<1> DEFINE n == Len(outbox[c])
           r == [oid |-> minted + 1, id |-> i, op |-> op, val |-> v, seen |-> 0]
<1>5. /\ minted \in Nat /\ minted + 1 \in Oids /\ n \in Nat
      /\ \A d \in Clients \ {c} : outbox'[d] = outbox[d]
      /\ Len(outbox'[c]) = n + 1 /\ outbox'[c][n + 1] = r
      /\ \A k \in Rows(c) : outbox'[c][k] = outbox[c][k]
      /\ \A o \in Oids : state'[o] = IF o = minted + 1 THEN "pending" ELSE state[o]
  BY <1>3, JournalRows
<1>6. r.oid = minted + 1
  OBVIOUS
<1> HIDE DEF r
<1>7. \A d \in Clients : \A k \in Rows(d) : outbox[d][k].oid \in Oids /\ outbox[d][k].oid # minted + 1
  <2> SUFFICES ASSUME NEW d \in Clients, NEW k \in Rows(d)
               PROVE  outbox[d][k].oid \in Oids /\ outbox[d][k].oid # minted + 1
    OBVIOUS
  <2>1. outbox[d][k].oid \in Oids /\ outbox[d][k].oid <= minted
    BY RowTypes, ClientFacts DEF Minted
  <2> QED
    BY <1>5, <2>1, Constants
<1>8. Rows(c) \subseteq Rows(c)' /\ \A k \in Rows(c)' : k \in Rows(c) \/ k = n + 1
  BY <1>5 DEF Rows
<1>9. \A k \in Pending(c)' : (k \in Pending(c) /\ outbox'[c][k] = outbox[c][k])
                             \/ receipt[outbox'[c][k].oid].disposition # "accepted"
  <2> SUFFICES ASSUME NEW k \in Pending(c)'
               PROVE  (k \in Pending(c) /\ outbox'[c][k] = outbox[c][k])
                      \/ receipt[outbox'[c][k].oid].disposition # "accepted"
    OBVIOUS
  <2>1. k \in Rows(c)' /\ state'[outbox'[c][k].oid] = "pending"
    BY DEF Pending
  <2>2. CASE k \in Rows(c)
    BY <1>5, <1>7, <2>1, <2>2 DEF Pending
  <2>3. CASE k = n + 1
    <3>1. receipt[minted + 1] = NoReceipt
      BY <1>5 DEF SafeInv, Fresh
    <3> QED
      BY <1>5, <1>6, <2>3, <3>1 DEF NoReceipt
  <2> QED
    BY <1>8, <2>1, <2>2, <2>3
<1>10. pass[c].step = "settled" => Asked(c)' = Asked(c)
  <2>1. Turn(c)' = Turn(c)
    BY <1>4 DEF Turn, Rest
  <2>2. pass[c].step = "settled" => Turn(c) \in Rows(c)
    BY AskedFacts DEF Pushing
  <2> QED
    BY <1>5, <2>1, <2>2 DEF Asked
<1>11. AnsweredAhead(c)'
  BY <1>4, <1>9, <1>10 DEF ContiguousInv, AnsweredAhead, Position
<1>12. HandledSoFar(c)'
  <2>1. Own(c) \subseteq Own(c)'
    BY <1>5, <1>8 DEF Own, OidsAt
  <2> QED
    BY <1>4, <2>1, HandledStill DEF ContiguousInv
<1>13. \A d \in Clients \ {c} : \A k \in Rows(d) :
          UNCHANGED <<state[outbox[d][k].oid], receipt[outbox[d][k].oid]>>
  <2>1. \A d \in Clients \ {c} : \A k \in Rows(d) : outbox'[d][k] = outbox[d][k]
    BY <1>5
  <2> QED
    BY <1>4, <1>5, <1>7, <2>1
<1> QED
  BY <1>4, <1>5, <1>11, <1>12, <1>13, OthersContiguous

LEMMA ContiguousNext == SafeInv /\ ContiguousInv /\ [Next]_vars /\ [RewindIsWhole]_vars => ContiguousInv'
<1> SUFFICES ASSUME SafeInv, ContiguousInv, [Next]_vars, [RewindIsWhole]_vars
             PROVE  ContiguousInv'
  OBVIOUS
<1>1. CASE UNCHANGED vars
  <2>1. UNCHANGED <<feed, receipt, outbox, state, binding, cursor, holds, applied, pass>>
    BY <1>1 DEF vars, hub, store
  <2>2. \A c \in Clients : AnsweredAhead(c)'
    BY <2>1 DEF ContiguousInv, AnsweredAhead, Pending, Rows, Position, Asked, Turn, Rest
  <2>3. \A c \in Clients : HandledSoFar(c)'
    BY <2>1 DEF ContiguousInv, HandledSoFar, Handled, Own, OidsAt, Rows, Position
  <2> QED
    BY <2>2, <2>3 DEF ContiguousInv
<1>2. CASE RewindIsWhole /\ Next
  <2>1. ASSUME NEW c \in Clients, Proceed(c) PROVE ContiguousInv'
    BY <2>1, RewindContiguous, QuietContiguous, SettledContiguous, PastContiguous, HoldContiguous,
       ApplyContiguous, BindContiguous, SendContiguous, ImportContiguous, RecordContiguous,
       RecordBindingContiguous DEF Proceed
  <2>2. ASSUME NEW c \in Clients, Stall(c) \/ LoseAnswer(c) \/ Crash(c) PROVE ContiguousInv'
    BY <1>2, <2>2, QuietContiguous DEF RewindIsWhole
  <2> QED
    BY <1>2, <2>1, <2>2, CommandContiguous, OpenContiguous DEF Next
<1> QED
  BY <1>1, <1>2

\* The cursor names contiguous handling (pull.rs): whatever is resent, lost,
\* written in between or killed elsewhere, a cursor is below a position it did
\* not deal with only after a kill between the two statements of a rewind.
THEOREM CursorNamesHandling == Spec /\ [][RewindIsWhole]_vars => []CursorIsContiguous
<1>1. Init => ContiguousInv
  BY DEF Init, ContiguousInv, AnsweredAhead, HandledSoFar, Pending, Rows, NoPass
<1>2. SafeInv /\ ContiguousInv => CursorIsContiguous
  BY DEF ContiguousInv, HandledSoFar, Handled, CursorIsContiguous, At
<1> QED
  BY <1>1, <1>2, ExchangeSafe, ContiguousNext, PTL DEF Spec


\* Where no pass is killed the cursor always names contiguous handling.
COROLLARY CursorNamesHandlingWithoutKills ==
    ASSUME "killed" \notin Faults
    PROVE  Spec => []CursorIsContiguous
<1>1. [Next]_vars => [RewindIsWhole]_vars
  BY DEF RewindIsWhole, Crash, Fault
<1> QED
  BY <1>1, CursorNamesHandling, PTL DEF Spec

--------------------------------------------------------------------------------
\* Clients converge where nobody strayed, no answer was lost and no pass was
\* killed.

\* The client has met entry n: it is its own, it applied it, or it is bound to
\* it or about to be.
Met(c, n) ==
    \/ feed[n].oid \in Own(c) \cup applied[c]
    \/ binding[c][feed[n].id].sequence = n
    \/ At(c, "bind") /\ Position(c) = n

\* Memory m is what row or entry x makes of it.
Shows(m, x) == IF x.op = "tombstone" THEN m.state # "live" ELSE m = Live(x.val)

RowsOn(c, i) == {k \in Rows(c) : outbox[c][k].id = i}

\* The rows the hub has yet to decide, and those about memory i.
Waits(c, k) ==
    state[outbox[c][k].oid] = "pending" /\ receipt[outbox[c][k].oid].disposition = "none"
Undecided(c, i) == {k \in RowsOn(c, i) : Waits(c, k)}

First(k, T) == k \in T /\ \A j \in T : k <= j

\* The hub decides the rows about a memory in their order.
UndecidedComeLast(c, i) ==
    \A j \in Undecided(c, i), k \in RowsOn(c, i) : j < k => k \in Undecided(c, i)

\* While a row about it is undecided, the memory is what the last row made it.
LastIsShown(c, i) ==
    \A k \in Undecided(c, i) :
        (\A j \in RowsOn(c, i) : j <= k) => Shows(local[c][i], outbox[c][k])

\* Of two undecided rows one after the other, the second restores exactly if
\* the first deletes.
RestoresFollow(c, i) ==
    \A j, k \in Undecided(c, i) :
        j < k /\ (\A l \in RowsOn(c, i) : l <= j \/ k <= l) =>
            (outbox[c][k].op = "restore" <=> outbox[c][j].op = "tombstone")

\* The next write the hub decides is not behind a deletion the client has met.
FirstFits(c, i) ==
    \A k : First(k, Undecided(c, i)) /\ outbox[c][k].op = "upsert" =>
        \A n \in 1 .. Len(feed) : IsRevision(n, i) /\ Met(c, n) => feed[n].op # "tombstone"

\* With nothing undecided, the memory is what the hub's revision of it says, if
\* the client has met that.
MetIsShown(c, i) ==
    Undecided(c, i) = {} =>
        \A n \in 1 .. Len(feed) : IsRevision(n, i) /\ Met(c, n) => Shows(local[c][i], feed[n])

\* A memory the hub never heard of is absent or begins with an undecided write.
UnheardIsNew(c, i) ==
    (\A n \in 1 .. Len(feed) : feed[n].id # i) =>
        /\ Undecided(c, i) = {} => local[c][i].state = "absent"
        /\ \A k : First(k, Undecided(c, i)) => outbox[c][k].op = "upsert"

MemoryInv(c, i) ==
    /\ UndecidedComeLast(c, i) /\ LastIsShown(c, i) /\ RestoresFollow(c, i)
    /\ FirstFits(c, i) /\ MetIsShown(c, i) /\ UnheardIsNew(c, i)

\* A memory a client does not have is one it has met nothing of.
AbsentIsNew(c, i) ==
    local[c][i].state = "absent" =>
        /\ RowsOn(c, i) = {} /\ binding[c][i].sequence = 0
        /\ \A n \in 1 .. Len(feed) : feed[n].id = i => ~Met(c, n) /\ n \notin holds[c]

BoundToEntry(c, i) == binding[c][i].sequence # 0 => feed[binding[c][i].sequence].id = i

\* A pending row that is decided is on the wire, its answer on the way.
AnswersAreDue(c) ==
    \A k \in Pending(c) : ~Waits(c, k) =>
        /\ k \in pass[c].wire
        /\ \/ pass[c].step = "sent" /\ k <= pass[c].done
           \/ pass[c].step = "answered" /\ k > pass[c].done
           \/ pass[c].step = "settled" /\ k > pass[c].done /\ k # Turn(c)

\* A request leaves out no older row about the same memory.
WireFromTheOldest(c) ==
    pass[c].step = "sent" =>
        \A k \in pass[c].wire : \A j \in PendingOn(c, outbox[c][k].id) :
            j < k => j \in pass[c].wire

\* A restore on its way is the next to be decided about its memory, and names
\* the hub's revision, if the client has met that.
RestoreFits(c) ==
    pass[c].step = "sent" =>
        \A k \in pass[c].wire : k > pass[c].done /\ outbox[c][k].op = "restore" =>
            /\ \A j \in Undecided(c, outbox[c][k].id) : k <= j
            /\ \A n \in 1 .. Len(feed) :
                  IsRevision(n, outbox[c][k].id) /\ Met(c, n) => n = outbox[c][k].seen

\* A pending restore that was prepared is under way.
PreparedIsSent(c) == \A k \in Pending(c) : outbox[c][k].seen # 0 => k \in pass[c].wire

\* Nothing of this is said of a pass that has no request under way.
WireInv(c) ==
    AnswersAreDue(c) /\ WireFromTheOldest(c) /\ RestoreFits(c) /\ PreparedIsSent(c)

AppliesNewer(c) ==
    At(c, "apply") => Position(c) > binding[c][Entry(c).id].sequence /\ Entry(c).oid \notin Own(c)

AppliedIsFed(c) == \A o \in applied[c] : \E n \in 1 .. Len(feed) : feed[n].oid = o

SideInv(c) ==
    /\ WireInv(c) /\ AppliesNewer(c) /\ AppliedIsFed(c)
    /\ \A i \in Ids : AbsentIsNew(c, i) /\ BoundToEntry(c, i)

\* No memory begins with a deletion.
DeletionsFollow ==
    \A n \in 1 .. Len(feed) :
        feed[n].op = "tombstone" => \E m \in 1 .. n - 1 : feed[m].id = feed[n].id

ClientConverges(c) == SideInv(c) /\ \A i \in Ids : MemoryInv(c, i)

ConvergeInv == DeletionsFollow /\ \A c \in Clients : ClientConverges(c)

--------------------------------------------------------------------------------
LEMMA RowsOnTypes ==
    ASSUME SafeInv, NEW c \in Clients, NEW i
    PROVE  /\ RowsOn(c, i) \in SUBSET Nat /\ Undecided(c, i) \in SUBSET Nat
           /\ RowsOn(c, i) \subseteq Rows(c) /\ Undecided(c, i) \subseteq RowsOn(c, i)
           /\ Undecided(c, i) \subseteq PendingOn(c, i)
  BY DEF RowsOn, Undecided, Rows, PendingOn, Pending, Waits

LEMMA FirstUndecided ==
    ASSUME SafeInv, NEW c \in Clients, NEW i, Undecided(c, i) # {}
    PROVE  \E k \in Undecided(c, i) : First(k, Undecided(c, i))
<1>1. Undecided(c, i) \in SUBSET Nat
  BY RowsOnTypes
<1> QED
  BY <1>1, LeastNat DEF First

LEMMA EntryTypes ==
    ASSUME SafeInv, NEW n \in 1 .. Len(feed)
    PROVE  /\ feed[n] \in Entries /\ feed[n].id \in Ids /\ feed[n].oid \in Oids /\ n \in Nat
           /\ feed[n].op \in Ops
<1>1. feed[n] \in Entries
  BY DEF SafeInv, TypeOK
<1> QED
  BY <1>1 DEF Entries

LEMMA BindingTypes ==
    ASSUME SafeInv, NEW c \in Clients, NEW i \in Ids
    PROVE  /\ binding[c][i] \in Bindings
           /\ binding[c][i].sequence \in Nat /\ binding[c][i].sequence <= Len(feed)
           /\ binding[c][i].sequence # 0 => binding[c][i].sequence \in 1 .. Len(feed)
<1>1. binding[c][i] \in Bindings /\ binding[c][i].sequence <= Len(feed)
  BY ClientFacts DEF PullsWithin, TypeOK
<1>2. \A b \in Bindings : b.sequence \in Nat
  BY Constants DEF Bindings
<1>3. binding[c][i].sequence \in Nat /\ Len(feed) \in Nat
  BY <1>1, <1>2, ClientFacts
<1> QED
  BY <1>1, <1>3

\* What waits stays what waits where rows keep id and operation, and neither
\* their state nor their answer becomes another.
LEMMA WaitsStay ==
    ASSUME SafeInv, NEW c \in Clients,
           Rows(c)' = Rows(c),
           \A k \in Rows(c) : /\ outbox'[c][k].oid = outbox[c][k].oid
                              /\ outbox'[c][k].id = outbox[c][k].id
                              /\ Waits(c, k)' <=> Waits(c, k)
    PROVE  \A i : RowsOn(c, i)' = RowsOn(c, i) /\ Undecided(c, i)' = Undecided(c, i)
  BY DEF RowsOn, Undecided

\* A revision in a grown feed that was in the feed before is one before.
LEMMA OldRevision ==
    ASSUME SafeInv, Len(feed') \in Nat, Len(feed') >= Len(feed),
           \A n \in 1 .. Len(feed) : feed'[n] = feed[n],
           NEW i, NEW n \in 1 .. Len(feed), IsRevision(n, i)'
    PROVE  IsRevision(n, i)
<1>1. Len(feed) \in Nat /\ n \in Nat
  BY DEF SafeInv, TypeOK
<1>2. \A m \in n + 1 .. Len(feed) : m \in 1 .. Len(feed) /\ m \in n + 1 .. Len(feed')
  BY <1>1
<1> QED
  BY <1>2 DEF IsRevision

\* Nothing about memory i changes for client c: what others do, and steps of
\* its own that meet nothing new.
LEMMA MemoryStays ==
    ASSUME SafeInv, NEW c \in Clients, NEW i \in Ids, MemoryInv(c, i),
           RowsOn(c, i)' = RowsOn(c, i), Undecided(c, i)' = Undecided(c, i),
           \A k \in RowsOn(c, i) : outbox'[c][k].op = outbox[c][k].op
                                   /\ outbox'[c][k].val = outbox[c][k].val,
           local'[c][i] = local[c][i],
           Len(feed') \in Nat, Len(feed') >= Len(feed),
           \A n \in 1 .. Len(feed) : feed'[n] = feed[n],
           \A n \in 1 .. Len(feed') :
              feed'[n].id = i /\ Met(c, n)' => n \in 1 .. Len(feed) /\ Met(c, n)
    PROVE  MemoryInv(c, i)'
<1>1. \A n \in 1 .. Len(feed') : IsRevision(n, i)' /\ Met(c, n)' =>
        n \in 1 .. Len(feed) /\ IsRevision(n, i) /\ Met(c, n) /\ feed'[n] = feed[n]
  <2>1. \A n \in 1 .. Len(feed') : IsRevision(n, i)' => feed'[n].id = i
    BY DEF IsRevision
  <2> QED
    BY <2>1, OldRevision
<1>2. Undecided(c, i) \subseteq RowsOn(c, i)
  BY RowsOnTypes
<1>3. UndecidedComeLast(c, i)'
  BY DEF MemoryInv, UndecidedComeLast
<1>4. LastIsShown(c, i)'
  BY <1>2 DEF MemoryInv, LastIsShown, Shows
<1>5. RestoresFollow(c, i)'
  BY <1>2 DEF MemoryInv, RestoresFollow
<1>6. FirstFits(c, i)'
  BY <1>1, <1>2 DEF MemoryInv, FirstFits, First
<1>7. MetIsShown(c, i)'
  BY <1>1 DEF MemoryInv, MetIsShown, Shows
<1>8. UnheardIsNew(c, i)'
  <2>1. (\A n \in 1 .. Len(feed') : feed'[n].id # i) => \A n \in 1 .. Len(feed) : feed[n].id # i
    <3>1. \A n \in 1 .. Len(feed) : n \in 1 .. Len(feed')
      BY DEF SafeInv, TypeOK
    <3> QED
      BY <3>1
  <2> QED
    BY <1>2, <2>1 DEF MemoryInv, UnheardIsNew, First
<1> QED
  BY <1>3, <1>4, <1>5, <1>6, <1>7, <1>8 DEF MemoryInv

\* What a client meets when others go on: nothing.
LEMMA MeetsNoMore ==
    ASSUME SafeInv, NEW d \in Clients, AppliedIsFed(d),
           UNCHANGED <<pass[d], cursor[d], applied[d], binding[d], outbox[d]>>,
           Len(feed') \in Nat, Len(feed') >= Len(feed),
           \A n \in 1 .. Len(feed) : feed'[n] = feed[n],
           \A n \in 1 .. Len(feed') : n \in 1 .. Len(feed) \/
              (feed'[n].id \in Ids /\ feed'[n].oid \notin Own(d)
               /\ \A m \in 1 .. Len(feed) : feed[m].oid # feed'[n].oid)
    PROVE  /\ \A n \in 1 .. Len(feed) : Met(d, n)' <=> Met(d, n)
           /\ \A n \in 1 .. Len(feed') : n \in 1 .. Len(feed) \/ ~Met(d, n)'
<1>1. Own(d)' = Own(d) /\ Position(d)' = Position(d)
  BY DEF Own, OidsAt, Rows, Position
<1>2. \A n \in 1 .. Len(feed) : Met(d, n)' <=> Met(d, n)
  BY <1>1 DEF Met, At
<1>3. ASSUME NEW n \in 1 .. Len(feed'), n \notin 1 .. Len(feed) PROVE ~Met(d, n)'
  <2>1. feed'[n].oid \notin Own(d)' \cup applied'[d]
    BY <1>1, <1>3 DEF AppliedIsFed
  <2>2. n > Len(feed) /\ Len(feed) \in Nat
    BY <1>3, ClientFacts
  <2>3. binding'[d][feed'[n].id].sequence # n
    <3>1. feed'[n].id \in Ids /\ binding'[d] = binding[d]
      BY <1>3
    <3>2. binding[d][feed'[n].id].sequence <= Len(feed) /\ binding[d][feed'[n].id].sequence \in Nat
      BY <3>1, BindingTypes
    <3> QED
      BY <2>2, <3>1, <3>2
  <2>4. At(d, "bind") => Position(d) # n
    BY <2>2, PositionTypes, ClientFacts
  <2> QED
    BY <1>1, <2>1, <2>3, <2>4 DEF Met, At
<1> QED
  BY <1>2, <1>3

\* A client that stands still while others go on.
LEMMA OthersConverge ==
    ASSUME SafeInv, ConvergeInv, NEW d \in Clients,
           UNCHANGED <<pass[d], cursor[d], holds[d], applied[d], binding[d], outbox[d], local[d]>>,
           \A k \in Rows(d) : UNCHANGED <<state[outbox[d][k].oid], receipt[outbox[d][k].oid]>>,
           Len(feed') \in Nat, Len(feed') >= Len(feed),
           \A n \in 1 .. Len(feed) : feed'[n] = feed[n],
           \A n \in 1 .. Len(feed') : n \in 1 .. Len(feed) \/
              (feed'[n].id \in Ids /\ feed'[n].oid \notin Own(d)
               /\ \A m \in 1 .. Len(feed) : feed[m].oid # feed'[n].oid)
    PROVE  ClientConverges(d)'
<1>1. SideInv(d) /\ \A i \in Ids : MemoryInv(d, i)
  BY DEF ConvergeInv, ClientConverges
<1>2. /\ \A n \in 1 .. Len(feed) : Met(d, n)' <=> Met(d, n)
      /\ \A n \in 1 .. Len(feed') : n \in 1 .. Len(feed) \/ ~Met(d, n)'
  BY <1>1, MeetsNoMore DEF SideInv
<1>3. Rows(d)' = Rows(d) /\ Own(d)' = Own(d) /\ Position(d)' = Position(d) /\ Turn(d)' = Turn(d)
  BY DEF Rows, Own, OidsAt, Position, Turn, Rest
<1>4. \A k \in Rows(d) : Waits(d, k)' <=> Waits(d, k)
  BY DEF Waits
<1>5. \A i : RowsOn(d, i)' = RowsOn(d, i) /\ Undecided(d, i)' = Undecided(d, i)
  BY <1>3, <1>4, WaitsStay
<1>6. ASSUME NEW i \in Ids PROVE MemoryInv(d, i)'
  <2>1. \A k \in RowsOn(d, i) : outbox'[d][k] = outbox[d][k]
    OBVIOUS
  <2> QED
    BY <1>1, <1>2, <1>5, <2>1, MemoryStays
<1>7. /\ Pending(d)' = Pending(d) /\ Pending(d) \subseteq Rows(d)
      /\ \A i : PendingOn(d, i)' = PendingOn(d, i)
  BY <1>3 DEF Pending, PendingOn
<1>8. AnswersAreDue(d)'
  BY <1>1, <1>3, <1>4, <1>7 DEF SideInv, WireInv, AnswersAreDue
<1>9. WireFromTheOldest(d)' /\ PreparedIsSent(d)'
  BY <1>1, <1>7 DEF SideInv, WireInv, WireFromTheOldest, PreparedIsSent
<1>10. RestoreFits(d)'
  <2>1. \A n, i : n \in 1 .. Len(feed') /\ IsRevision(n, i)' /\ Met(d, n)' =>
            n \in 1 .. Len(feed) /\ IsRevision(n, i) /\ Met(d, n)
    BY <1>2, OldRevision
  <2> QED
    BY <1>1, <1>5, <2>1 DEF SideInv, WireInv, RestoreFits
<1>11. AppliesNewer(d)'
  <2>1. At(d, "apply") => Entry(d)' = Entry(d)
    BY <1>3, PositionTypes, ClientFacts DEF Entry
  <2> QED
    BY <1>1, <1>3, <2>1 DEF SideInv, AppliesNewer, At
<1>12. \A n \in 1 .. Len(feed) : n \in 1 .. Len(feed')
  BY ClientFacts
<1>13. AppliedIsFed(d)'
  BY <1>1, <1>12 DEF SideInv, AppliedIsFed
<1>14. ASSUME NEW i \in Ids PROVE AbsentIsNew(d, i)' /\ BoundToEntry(d, i)'
  <2>1. AbsentIsNew(d, i)'
    <3>1. holds[d] \subseteq 1 .. Len(feed)
      BY ClientFacts DEF PullsWithin
    <3> QED
      BY <1>1, <1>2, <1>5, <3>1 DEF SideInv, AbsentIsNew
  <2>2. binding[d][i].sequence # 0 => binding[d][i].sequence \in 1 .. Len(feed)
    BY BindingTypes
  <2>3. BoundToEntry(d, i)'
    BY <1>1, <2>2 DEF SideInv, BoundToEntry
  <2> QED
    BY <2>1, <2>3
<1> QED
  BY <1>6, <1>8, <1>9, <1>10, <1>11, <1>13, <1>14 DEF ClientConverges, SideInv, WireInv

\* A step of the pass of c that the hub does not see.
LEMMA PassConverges ==
    ASSUME SafeInv, ConvergeInv, NEW c \in Clients, UNCHANGED hub,
           \A d \in Clients \ {c} :
              UNCHANGED <<pass[d], cursor[d], holds[d], applied[d], binding[d], outbox[d], local[d]>>,
           \A o \in Oids : state'[o] = state[o] \/ o \in Own(c) \/ o > minted,
           ClientConverges(c)'
    PROVE  ConvergeInv'
<1>1. Len(feed') = Len(feed) /\ feed' = feed /\ receipt' = receipt
  BY DEF hub
<1>2. DeletionsFollow'
  BY <1>1 DEF ConvergeInv, DeletionsFollow
<1>3. ASSUME NEW d \in Clients, d # c PROVE ClientConverges(d)'
  <2>1. \A k \in Rows(d) : outbox[d][k].oid \in Oids /\ outbox[d][k].oid \notin Own(c)
                           /\ ~(outbox[d][k].oid > minted)
    <3> SUFFICES ASSUME NEW k \in Rows(d)
                 PROVE  outbox[d][k].oid \in Oids /\ outbox[d][k].oid \notin Own(c)
                        /\ ~(outbox[d][k].oid > minted)
      OBVIOUS
    <3>1. outbox[d][k].oid \in Oids /\ outbox[d][k].oid <= minted
      BY RowTypes, ClientFacts DEF Minted
    <3>2. outbox[d][k].oid \notin Own(c)
      BY <1>3, ClientFacts DEF SafeInv, Apart, Own, OidsAt
    <3>3. minted \in Nat /\ outbox[d][k].oid \in Nat
      BY <3>1, ClientFacts, Constants DEF TypeOK
    <3>4. \A x, y \in Nat : x <= y => ~(x > y)
      OBVIOUS
    <3> QED
      BY <3>1, <3>2, <3>3, <3>4
  <2>2. \A k \in Rows(d) : UNCHANGED <<state[outbox[d][k].oid], receipt[outbox[d][k].oid]>>
    BY <1>1, <1>3, <2>1
  <2>3. Len(feed) \in Nat
    BY ClientFacts
  <2> QED
    BY <1>1, <1>3, <2>2, <2>3, OthersConverge
<1> QED
  BY <1>2, <1>3 DEF ConvergeInv

\* A step of the pass of c that meets nothing new, and touches neither feed nor
\* memories.
LEMMA QuietMemories ==
    ASSUME SafeInv, ConvergeInv, NEW c \in Clients,
           Rows(c)' = Rows(c), feed' = feed, local' = local,
           \A k \in Rows(c) : /\ outbox'[c][k].oid = outbox[c][k].oid
                              /\ outbox'[c][k].id = outbox[c][k].id
                              /\ outbox'[c][k].op = outbox[c][k].op
                              /\ outbox'[c][k].val = outbox[c][k].val
                              /\ Waits(c, k)' <=> Waits(c, k),
           \A n \in 1 .. Len(feed) : Met(c, n)' => Met(c, n)
    PROVE  /\ \A i : RowsOn(c, i)' = RowsOn(c, i) /\ Undecided(c, i)' = Undecided(c, i)
           /\ \A i \in Ids : MemoryInv(c, i)'
<1>1. \A i : RowsOn(c, i)' = RowsOn(c, i) /\ Undecided(c, i)' = Undecided(c, i)
  BY WaitsStay
<1>2. ASSUME NEW i \in Ids PROVE MemoryInv(c, i)'
  <2>1. MemoryInv(c, i) /\ Len(feed) \in Nat
    BY ClientFacts DEF ConvergeInv, ClientConverges
  <2>2. \A k \in RowsOn(c, i) : outbox'[c][k].op = outbox[c][k].op /\ outbox'[c][k].val = outbox[c][k].val
    BY DEF RowsOn
  <2> QED
    BY <1>1, <2>1, <2>2, MemoryStays
<1> QED
  BY <1>1, <1>2

\* Outside a request no answer is due, and none of what is said of requests
\* applies.
LEMMA NothingDue ==
    ASSUME SafeInv, ConvergeInv, NEW c \in Clients, pass[c].step \notin Pushing
    PROVE  \A k \in Pending(c) : Waits(c, k)
  BY DEF ConvergeInv, ClientConverges, SideInv, WireInv, AnswersAreDue, Pushing

LEMMA IdleWire ==
    ASSUME SafeInv, ConvergeInv, NEW c \in Clients, pass[c].step \notin Pushing,
           pass'[c].step # "sent", UNCHANGED <<hub, outbox>>,
           Pending(c)' \subseteq Pending(c)
    PROVE  WireInv(c)'
<1>1. \A k \in Pending(c)' : receipt'[outbox'[c][k].oid].disposition = "none"
  BY NothingDue DEF Waits, hub
<1>2. \A k \in Pending(c)' : Waits(c, k)'
  BY <1>1 DEF Waits, Pending
<1>3. PreparedIsSent(c)'
  <2>1. pass[c].wire = {}
    BY ClientFacts DEF WireIsOwed
  <2> QED
    BY <2>1 DEF ConvergeInv, ClientConverges, SideInv, WireInv, PreparedIsSent
<1> QED
  BY <1>2, <1>3 DEF WireInv, AnswersAreDue, WireFromTheOldest, RestoreFits

\* A step of the pass of c that leaves feed, rows and memories alone and meets
\* nothing new.
LEMMA QuietConverges ==
    ASSUME SafeInv, ConvergeInv, NEW c \in Clients, UNCHANGED <<hub, local, outbox, applied>>,
           \A d \in Clients \ {c} :
              UNCHANGED <<pass[d], cursor[d], holds[d], binding[d]>>,
           \A o \in Oids : state'[o] = state[o] \/ o \in Own(c),
           \A k \in Rows(c) : Waits(c, k)' <=> Waits(c, k),
           \A n \in 1 .. Len(feed) : Met(c, n)' => Met(c, n),
           WireInv(c)', AppliesNewer(c)',
           \A i \in Ids : /\ BoundToEntry(c, i)'
                          /\ local[c][i].state = "absent" =>
                                /\ binding'[c][i].sequence = 0
                                /\ \A n \in 1 .. Len(feed) : feed[n].id = i => n \notin holds'[c]
    PROVE  ConvergeInv'
<1>1. feed' = feed /\ receipt' = receipt /\ Rows(c)' = Rows(c)
  BY DEF hub, Rows
<1>2. /\ \A i : RowsOn(c, i)' = RowsOn(c, i) /\ Undecided(c, i)' = Undecided(c, i)
      /\ \A i \in Ids : MemoryInv(c, i)'
  BY <1>1, QuietMemories
<1>3. SideInv(c)
  BY DEF ConvergeInv, ClientConverges
<1>4. AppliedIsFed(c)'
  BY <1>1, <1>3 DEF SideInv, AppliedIsFed
<1>5. ASSUME NEW i \in Ids PROVE AbsentIsNew(c, i)'
  BY <1>1, <1>2, <1>3 DEF SideInv, AbsentIsNew
<1>6. ClientConverges(c)'
  BY <1>2, <1>4, <1>5 DEF ClientConverges, SideInv
<1>7. \A d \in Clients \ {c} :
        UNCHANGED <<pass[d], cursor[d], holds[d], applied[d], binding[d], outbox[d], local[d]>>
  OBVIOUS
<1> QED
  BY <1>6, <1>7, PassConverges

\* The same where states and bindings stay too and no request is under way.
LEMMA MovesConverge ==
    ASSUME SafeInv, ConvergeInv, NEW c \in Clients,
           UNCHANGED <<hub, local, outbox, state, binding, applied>>,
           \A d \in Clients \ {c} : UNCHANGED <<pass[d], cursor[d], holds[d]>>,
           holds'[c] \subseteq holds[c],
           pass[c].step \notin Pushing, pass'[c].step \notin {"sent", "bind"}, AppliesNewer(c)'
    PROVE  ConvergeInv'
<1>1. feed' = feed /\ receipt' = receipt /\ Rows(c)' = Rows(c) /\ Own(c)' = Own(c)
  BY DEF hub, Rows, Own, OidsAt
<1>2. \A k \in Rows(c) : Waits(c, k)' <=> Waits(c, k)
  BY <1>1 DEF Waits
<1>3. \A n \in 1 .. Len(feed) : Met(c, n)' => Met(c, n)
  BY <1>1 DEF Met, At
<1>4. WireInv(c)'
  <2>1. Pending(c)' = Pending(c)
    BY <1>1 DEF Pending
  <2> QED
    BY <2>1, IdleWire
<1>5. \A i \in Ids : AbsentIsNew(c, i) /\ BoundToEntry(c, i)
  BY DEF ConvergeInv, ClientConverges, SideInv
<1>6. \A i \in Ids : /\ BoundToEntry(c, i)'
                     /\ local[c][i].state = "absent" =>
                           /\ binding'[c][i].sequence = 0
                           /\ \A n \in 1 .. Len(feed) : feed[n].id = i => n \notin holds'[c]
  BY <1>1, <1>5 DEF BoundToEntry, AbsentIsNew
<1> QED
  BY <1>2, <1>3, <1>4, <1>6, QuietConverges

LEMMA MovingConverges ==
    ASSUME SafeInv, ConvergeInv, NEW c \in Clients,
           \/ \E legs \in Legs : Open(c, legs)
           \/ Rewind(c) \/ Page(c) \/ ResolveSuperseded(c) \/ ResolveApply(c) \/ Advance(c)
           \/ Stall(c) \/ PassDone(c)
    PROVE  ConvergeInv'
<1>1. pass \in [Clients -> Passes] /\ pass[c] \in Passes
  BY ClientFacts DEF TypeOK
<1>2. CASE \E legs \in Legs : Open(c, legs)
  <2> PICK legs \in Legs : Open(c, legs)
    BY <1>2
  <2>1. /\ \A d \in Clients \ {c} : UNCHANGED <<pass[d], cursor[d], holds[d]>>
        /\ holds'[c] \subseteq holds[c]
        /\ UNCHANGED <<hub, local, outbox, state, binding, applied>>
    BY <1>1 DEF Open, Iterate, TypeOK, SafeInv
  <2>2. pass'[c].step \in {"rewind", "page", "push"} /\ At(c, "idle")
    <3> DEFINE h == IF legs = "both" THEN Len(feed) ELSE 0
               p == [NoPass EXCEPT !.head = h]
    <3>1. \/ pass'[c] = [p EXCEPT !.step = IF cursor[c] < p.head THEN "page" ELSE "push",
                                  !.upto = 0, !.wire = {}, !.done = 0]
          \/ \E n : pass'[c] = [p EXCEPT !.step = "rewind", !.upto = n]
      BY <1>1 DEF Open, Iterate
    <3>2. At(c, "idle")
      BY DEF Open
    <3> HIDE DEF h
    <3>3. p = [step |-> "idle", head |-> h, upto |-> 0, wire |-> {}, done |-> 0]
      BY DEF NoPass
    <3> HIDE DEF p
    <3> QED
      BY <3>1, <3>2, <3>3
  <2> QED
    BY <2>1, <2>2, MovesConverge DEF AppliesNewer, At, Pushing
<1>3. CASE Rewind(c)
  <2>1. /\ \A d \in Clients \ {c} : UNCHANGED <<pass[d], cursor[d], holds[d]>>
        /\ UNCHANGED <<hub, local, outbox, state, binding, holds, applied>>
    BY <1>1, <1>3 DEF Rewind, Iterate, TypeOK, SafeInv
  <2>2. pass'[c].step \in {"page", "push"} /\ At(c, "rewind")
    BY <1>1, <1>3 DEF Rewind, Iterate, Passes
  <2> QED
    BY <2>1, <2>2, MovesConverge DEF AppliesNewer, At, Pushing
<1>4. CASE Page(c) \/ Stall(c) \/ PassDone(c)
  <2>1. /\ \A d \in Clients \ {c} : UNCHANGED <<pass[d], cursor[d], holds[d]>>
        /\ UNCHANGED <<hub, local, outbox, state, binding, holds, applied>>
    BY <1>1, <1>4 DEF Page, Stall, PassDone, store
  <2>2. pass'[c].step \in {"pull", "push", "idle"} /\ pass[c].step \in {"page", "apply", "push"}
    BY <1>1, <1>4 DEF Page, Stall, PassDone, NoPass, At, Passes
  <2> QED
    BY <2>1, <2>2, MovesConverge DEF AppliesNewer, At, Pushing
<1>5. CASE ResolveSuperseded(c) \/ Advance(c)
  <2>1. /\ \A d \in Clients \ {c} : UNCHANGED <<pass[d], cursor[d], holds[d]>>
        /\ UNCHANGED <<hub, local, outbox, state, binding, holds, applied>>
    BY <1>1, <1>5 DEF ResolveSuperseded, Advance, PastEntry, Goto, SafeInv, TypeOK
  <2>2. pass'[c].step \in {"pull", "push"} /\ pass[c].step \in {"pull", "advance"}
    BY <1>1, <1>5 DEF ResolveSuperseded, Advance, PastEntry, Goto, At, Foreign, Passes
  <2> QED
    BY <2>1, <2>2, MovesConverge DEF AppliesNewer, At, Pushing
<1>6. CASE ResolveApply(c)
  <2>1. /\ \A d \in Clients \ {c} : UNCHANGED <<pass[d], cursor[d], holds[d]>>
        /\ UNCHANGED <<hub, local, outbox, state, binding, holds, applied, cursor>>
    BY <1>1, <1>6 DEF ResolveApply, Goto, store
  <2>2. pass'[c].step = "apply" /\ pass[c].step = "pull"
    BY <1>1, <1>6 DEF ResolveApply, Goto, At, Foreign, Passes
  <2>3. AppliesNewer(c)'
    <3>1. Position(c)' = Position(c) /\ Entry(c)' = Entry(c) /\ Own(c)' = Own(c)
      BY <2>1 DEF Position, Entry, Own, OidsAt, Rows, hub
    <3>2. Position(c) > binding[c][Entry(c).id].sequence /\ Entry(c).oid \notin Own(c)
      <4>1. Entry(c).id \in Ids /\ Position(c) \in Nat
        BY <2>2, PositionTypes, ClientFacts, Constants DEF At, Entries
      <4>2. binding[c][Entry(c).id].sequence \in Nat
        BY <4>1, BindingTypes
      <4> QED
        BY <1>6, <4>1, <4>2 DEF ResolveApply, Foreign, Superseded
    <3> QED
      BY <2>1, <3>1, <3>2 DEF AppliesNewer
  <2> QED
    BY <2>1, <2>2, <2>3, MovesConverge DEF Pushing
<1> QED
  BY <1>2, <1>3, <1>4, <1>5, <1>6

LEMMA ResolveOwnConverges ==
    ASSUME SafeInv, ConvergeInv, NEW c \in Clients, ResolveOwn(c)
    PROVE  ConvergeInv'
<1>1. /\ At(c, "pull") /\ Entry(c).oid \in Own(c) /\ Settle({Entry(c).oid}) /\ Goto(c, "bind")
      /\ UNCHANGED <<hub, local, outbox, binding, cursor, holds, applied, bounds>>
  BY DEF ResolveOwn
<1>2. feed' = feed /\ receipt' = receipt /\ Rows(c)' = Rows(c) /\ Own(c)' = Own(c)
      /\ Position(c)' = Position(c)
  BY <1>1 DEF hub, Rows, Own, OidsAt, Position
<1>3. pass'[c].step = "bind" /\ pass[c].step = "pull" /\ \A d \in Clients \ {c} : pass'[d] = pass[d]
  BY <1>1, PullGoes DEF At, Pulling
<1>4. Position(c) \in 1 .. Len(feed) /\ receipt[Entry(c).oid].disposition = "accepted"
  BY <1>1, PositionTypes, ClientFacts DEF SafeInv, FeedIsReceipted, Entry
<1>5. \A o \in Oids : state'[o] = IF o = Entry(c).oid THEN "accepted" ELSE state[o]
  BY <1>1, SettleTypes, ClientFacts
<1>6. \A k \in Rows(c) : outbox[c][k].oid \in Oids
  BY RowTypes, ClientFacts
<1>7. \A k \in Rows(c) : Waits(c, k)' <=> Waits(c, k)
  BY <1>1, <1>2, <1>4, <1>5, <1>6 DEF Waits
<1>8. \A n \in 1 .. Len(feed) : Met(c, n)' => Met(c, n)
  BY <1>1, <1>2 DEF Met, Entry
<1>9. WireInv(c)'
  <2>1. Pending(c)' \subseteq Pending(c)
    BY <1>1, <1>2, <1>5, <1>6 DEF Pending
  <2> QED
    BY <1>1, <1>3, <2>1, IdleWire DEF Pushing
<1>10. \A i \in Ids : AbsentIsNew(c, i) /\ BoundToEntry(c, i)
  BY DEF ConvergeInv, ClientConverges, SideInv
<1>11. \A i \in Ids : /\ BoundToEntry(c, i)'
                      /\ local[c][i].state = "absent" =>
                            /\ binding'[c][i].sequence = 0
                            /\ \A n \in 1 .. Len(feed) : feed[n].id = i => n \notin holds'[c]
  BY <1>1, <1>2, <1>10 DEF BoundToEntry, AbsentIsNew
<1>12. AppliesNewer(c)'
  BY <1>3 DEF AppliesNewer, At
<1>13. \A o \in Oids : state'[o] = state[o] \/ o \in Own(c)
  BY <1>1, <1>5
<1> QED
  BY <1>1, <1>3, <1>7, <1>8, <1>9, <1>11, <1>12, <1>13, QuietConverges

LEMMA ResolvePendingConverges ==
    ASSUME SafeInv, ConvergeInv, NEW c \in Clients, ResolvePending(c)
    PROVE  ConvergeInv'
<1>1. /\ At(c, "pull") /\ PendingOn(c, Entry(c).id) # {} /\ Goto(c, "advance")
      /\ holds' = [holds EXCEPT ![c] = @ \cup {Position(c)}]
      /\ UNCHANGED <<hub, local, outbox, state, binding, cursor, applied, bounds>>
  BY DEF ResolvePending, Foreign
<1>2. feed' = feed /\ receipt' = receipt /\ Rows(c)' = Rows(c) /\ Own(c)' = Own(c)
  BY <1>1 DEF hub, Rows, Own, OidsAt
<1>3. pass'[c].step = "advance" /\ pass[c].step = "pull" /\ \A d \in Clients \ {c} : pass'[d] = pass[d]
  BY <1>1, PullGoes DEF At, Pulling
<1>4. \A k \in Rows(c) : Waits(c, k)' <=> Waits(c, k)
  BY <1>1, <1>2 DEF Waits
<1>5. \A n \in 1 .. Len(feed) : Met(c, n)' => Met(c, n)
  BY <1>1, <1>2, <1>3 DEF Met, At
<1>6. WireInv(c)'
  <2>1. Pending(c)' \subseteq Pending(c)
    BY <1>1, <1>2 DEF Pending
  <2> QED
    BY <1>1, <1>3, <2>1, IdleWire DEF Pushing
<1>7. \A i \in Ids : AbsentIsNew(c, i) /\ BoundToEntry(c, i)
  BY DEF ConvergeInv, ClientConverges, SideInv
<1>8. RowsOn(c, Entry(c).id) # {}
  BY <1>1 DEF PendingOn, Pending, RowsOn
<1>9. holds'[c] = holds[c] \cup {Position(c)} /\ \A d \in Clients \ {c} : holds'[d] = holds[d]
  BY <1>1, ClientFacts DEF TypeOK
<1>10. \A i \in Ids : /\ BoundToEntry(c, i)'
                      /\ local[c][i].state = "absent" =>
                            /\ binding'[c][i].sequence = 0
                            /\ \A n \in 1 .. Len(feed) : feed[n].id = i => n \notin holds'[c]
  BY <1>1, <1>2, <1>7, <1>8, <1>9 DEF BoundToEntry, AbsentIsNew, Entry
<1>11. AppliesNewer(c)'
  BY <1>3 DEF AppliesNewer, At
<1> QED
  BY <1>1, <1>3, <1>4, <1>5, <1>6, <1>9, <1>10, <1>11, QuietConverges

LEMMA BindConverges ==
    ASSUME SafeInv, ConvergeInv, NEW c \in Clients, Bind(c)
    PROVE  ConvergeInv'
<1>1. /\ At(c, "bind") /\ Goto(c, "advance")
      /\ binding' = [binding EXCEPT ![c][Entry(c).id] =
            [sequence |-> Position(c), deleted |-> Entry(c).op = "tombstone"]]
      /\ UNCHANGED <<hub, local, outbox, state, cursor, holds, applied, bounds>>
  BY DEF Bind
<1>2. feed' = feed /\ receipt' = receipt /\ Rows(c)' = Rows(c) /\ Own(c)' = Own(c)
  BY <1>1 DEF hub, Rows, Own, OidsAt
<1>3. pass'[c].step = "advance" /\ pass[c].step = "bind" /\ \A d \in Clients \ {c} : pass'[d] = pass[d]
  BY <1>1, PullGoes DEF At, Pulling
<1>4. \A k \in Rows(c) : Waits(c, k)' <=> Waits(c, k)
  BY <1>1, <1>2 DEF Waits
<1>5. Position(c) \in 1 .. Len(feed) /\ Entry(c).id \in Ids /\ Entry(c) = feed[Position(c)]
      /\ Met(c, Position(c))
  BY <1>1, PositionTypes, ClientFacts DEF Entries, Entry, Met
<1>6. /\ \A d \in Clients \ {c} : binding'[d] = binding[d]
      /\ \A i \in Ids : binding'[c][i].sequence =
            IF i = Entry(c).id THEN Position(c) ELSE binding[c][i].sequence
  BY <1>1, <1>5, ClientFacts DEF TypeOK
<1>7. \A n \in 1 .. Len(feed) : Met(c, n)' => Met(c, n)
  <2> SUFFICES ASSUME NEW n \in 1 .. Len(feed), Met(c, n)' PROVE Met(c, n)
    OBVIOUS
  <2>1. feed[n].id \in Ids
    BY EntryTypes
  <2>2. feed[n].oid \in Own(c) \cup applied[c] \/ binding'[c][feed[n].id].sequence = n
    BY <1>1, <1>2, <1>3 DEF Met, At
  <2> QED
    BY <1>5, <1>6, <2>1, <2>2 DEF Met
<1>8. WireInv(c)'
  <2>1. Pending(c)' \subseteq Pending(c)
    BY <1>1, <1>2 DEF Pending
  <2> QED
    BY <1>1, <1>3, <2>1, IdleWire DEF Pushing
<1>9. \A i \in Ids : AbsentIsNew(c, i) /\ BoundToEntry(c, i)
  BY DEF ConvergeInv, ClientConverges, SideInv
<1>10. \A i \in Ids : /\ BoundToEntry(c, i)'
                      /\ local[c][i].state = "absent" =>
                            /\ binding'[c][i].sequence = 0
                            /\ \A n \in 1 .. Len(feed) : feed[n].id = i => n \notin holds'[c]
  BY <1>1, <1>2, <1>5, <1>6, <1>9 DEF BoundToEntry, AbsentIsNew
<1>11. AppliesNewer(c)'
  BY <1>3 DEF AppliesNewer, At
<1> QED
  BY <1>1, <1>3, <1>4, <1>6, <1>7, <1>8, <1>10, <1>11, QuietConverges

\* The answers still due once one more is recorded.
LEMMA RecordedDue ==
    ASSUME SafeInv, ConvergeInv, NEW c \in Clients, pass[c].step \in {"answered", "settled"},
           Recorded(c), UNCHANGED <<hub, outbox>>,
           Pending(c)' \subseteq Pending(c), pass[c].step = "answered" => Turn(c) \notin Pending(c)'
    PROVE  /\ WireInv(c)' /\ AppliesNewer(c)'
           /\ pass'[c].step # "bind" /\ \A d \in Clients \ {c} : pass'[d] = pass[d]
<1>1. /\ pass'[c].step \in {"answered", "page", "push", "idle"}
      /\ \A d \in Clients \ {c} : pass'[d] = pass[d]
  BY RecordedGoes
<1>2. ASSUME NEW k \in Pending(c)', ~Waits(c, k)'
      PROVE  k \in pass[c].wire /\ k > pass[c].done /\ k # Turn(c) /\ k \in Nat
  <2>1. k \in Pending(c) /\ ~Waits(c, k) /\ k \in Nat
    BY <1>2 DEF Waits, Pending, Rows, hub
  <2> QED
    BY <2>1 DEF ConvergeInv, ClientConverges, SideInv, WireInv, AnswersAreDue
<1>3. \A k \in Pending(c)' : ~Waits(c, k)' => k \in Rest(c) \ {Turn(c)}
  BY <1>2 DEF Rest
<1>4. \A k \in Pending(c)' : outbox'[c][k].seen # 0 => ~Waits(c, k)'
  <2> SUFFICES ASSUME NEW k \in Pending(c)', outbox[c][k].seen # 0
               PROVE  receipt[outbox[c][k].oid].disposition # "none"
    BY DEF Waits, hub
  <2>1. k \in pass[c].wire
    BY DEF ConvergeInv, ClientConverges, SideInv, WireInv, PreparedIsSent
  <2> QED
    BY <2>1, ClientFacts DEF WireIsOwed
<1>5. AnswersAreDue(c)' /\ PreparedIsSent(c)'
  <2>1. CASE Rest(c) # {Turn(c)}
    <3>1. pass'[c].step = "answered" /\ pass'[c].done = Turn(c) /\ pass'[c].wire = pass[c].wire
      <4>1. pass' = [pass EXCEPT ![c].step = "answered", ![c].done = Turn(c)]
        BY <2>1 DEF Recorded
      <4>2. pass \in [Clients -> Passes] /\ pass[c] \in Passes
        BY ClientFacts DEF TypeOK
      <4> QED
        BY <4>1, <4>2 DEF Passes
    <3>2. \A k \in Rest(c) \ {Turn(c)} : k > Turn(c)
      BY AskedFacts DEF Pushing
    <3> QED
      BY <1>2, <1>3, <1>4, <3>1, <3>2 DEF AnswersAreDue, PreparedIsSent
  <2>2. CASE Rest(c) = {Turn(c)}
    BY <1>3, <1>4, <2>2 DEF AnswersAreDue, PreparedIsSent
  <2> QED
    BY <2>1, <2>2
<1> QED
  BY <1>1, <1>5 DEF WireInv, WireFromTheOldest, RestoreFits, AppliesNewer, At

LEMMA RecordConverges ==
    ASSUME SafeInv, ConvergeInv, NEW c \in Clients, Record(c)
    PROVE  ConvergeInv'
<1> DEFINE o == Asked(c)
<1>1. At(c, "answered") /\ UNCHANGED <<hub, local, outbox, binding, cursor, holds, applied, bounds>>
  BY DEF Record
<1>2. feed' = feed /\ receipt' = receipt /\ Rows(c)' = Rows(c) /\ Own(c)' = Own(c)
  BY <1>1 DEF hub, Rows, Own, OidsAt
<1>3. /\ Turn(c) \in Rows(c) /\ o = outbox[c][Turn(c)] /\ o.oid \in Oids /\ o.oid \in Own(c)
      /\ receipt[o.oid].disposition # "none"
  BY <1>1, AskedFacts DEF At, Pushing, Record
<1>4. \A p \in Oids : IF p = o.oid THEN state'[p] \in {"accepted", "rejected"} ELSE state'[p] = state[p]
  <2>1. CASE Settle({o.oid})
    BY <2>1, SettleTypes, ClientFacts
  <2>2. CASE state' = [state EXCEPT ![o.oid] = "rejected"]
    BY <2>2, ClientFacts DEF TypeOK
  <2> QED
    BY <2>1, <2>2 DEF Record
<1>5. \A k \in Rows(c) : outbox[c][k].oid \in Oids
  BY RowTypes, ClientFacts
<1>6. \A k \in Rows(c) : Waits(c, k)' <=> Waits(c, k)
  BY <1>1, <1>2, <1>3, <1>4, <1>5 DEF Waits
<1>7. Pending(c)' \subseteq Pending(c) /\ Turn(c) \notin Pending(c)'
  BY <1>1, <1>2, <1>3, <1>4, <1>5 DEF Pending
<1>8. /\ WireInv(c)' /\ AppliesNewer(c)'
      /\ pass'[c].step # "bind" /\ \A d \in Clients \ {c} : pass'[d] = pass[d]
  <2>1. CASE Recorded(c)
    BY <1>1, <1>7, <2>1, RecordedDue DEF At
  <2>2. CASE Goto(c, "settled")
    <3>1. /\ pass'[c].step = "settled" /\ pass'[c].wire = pass[c].wire /\ pass'[c].done = pass[c].done
          /\ \A d \in Clients \ {c} : pass'[d] = pass[d]
      BY <2>2, ClientFacts DEF Goto, TypeOK, Passes
    <3>2. Turn(c)' = Turn(c)
      BY <3>1 DEF Turn, Rest
    <3>3. AnswersAreDue(c)'
      <4> SUFFICES ASSUME NEW k \in Pending(c)', ~Waits(c, k)'
                   PROVE  k \in pass[c].wire /\ k > pass[c].done /\ k # Turn(c)
        BY <3>1, <3>2 DEF AnswersAreDue
      <4>1. k \in Pending(c) /\ k \in Rows(c) /\ k # Turn(c)
        BY <1>7 DEF Pending
      <4> QED
        BY <1>1, <1>6, <4>1 DEF ConvergeInv, ClientConverges, SideInv, WireInv, AnswersAreDue, At
    <3>4. PreparedIsSent(c)'
      BY <1>1, <1>7, <3>1 DEF ConvergeInv, ClientConverges, SideInv, WireInv, PreparedIsSent
    <3> QED
      BY <3>1, <3>3, <3>4 DEF WireInv, WireFromTheOldest, RestoreFits, AppliesNewer, At
  <2> QED
    BY <2>1, <2>2 DEF Record
<1>9. \A n \in 1 .. Len(feed) : Met(c, n)' => Met(c, n)
  BY <1>1, <1>2, <1>8 DEF Met, At
<1>10. \A i \in Ids : AbsentIsNew(c, i) /\ BoundToEntry(c, i)
  BY DEF ConvergeInv, ClientConverges, SideInv
<1>11. \A i \in Ids : /\ BoundToEntry(c, i)'
                      /\ local[c][i].state = "absent" =>
                            /\ binding'[c][i].sequence = 0
                            /\ \A n \in 1 .. Len(feed) : feed[n].id = i => n \notin holds'[c]
  BY <1>1, <1>2, <1>10 DEF BoundToEntry, AbsentIsNew
<1>12. \A p \in Oids : state'[p] = state[p] \/ p \in Own(c)
  BY <1>3, <1>4
<1> QED
  BY <1>1, <1>6, <1>8, <1>9, <1>11, <1>12, QuietConverges

LEMMA RecordBindingConverges ==
    ASSUME SafeInv, ConvergeInv, NEW c \in Clients, RecordBinding(c)
    PROVE  ConvergeInv'
<1> DEFINE o == Asked(c)
           at == receipt[o.oid].sequence
<1>1. /\ At(c, "settled") /\ Recorded(c)
      /\ binding' = [binding EXCEPT ![c][o.id] = [sequence |-> at, deleted |-> o.op = "tombstone"]]
      /\ UNCHANGED <<hub, local, outbox, state, cursor, holds, applied, bounds>>
  BY DEF RecordBinding
<1>2. feed' = feed /\ receipt' = receipt /\ Rows(c)' = Rows(c) /\ Own(c)' = Own(c)
  BY <1>1 DEF hub, Rows, Own, OidsAt
<1>3. /\ Turn(c) \in Rows(c) /\ o = outbox[c][Turn(c)] /\ o.oid \in Oids /\ o.oid \in Own(c)
      /\ o.id \in Ids
  BY <1>1, AskedFacts DEF At, Pushing
<1>4. at \in 1 .. Len(feed) /\ feed[at].oid = o.oid /\ feed[at].id = o.id
  <2>1. receipt[o.oid].disposition = "accepted"
    BY <1>1, ClientFacts DEF WireIsOwed, At
  <2>2. at \in 1 .. Len(feed) /\ feed[at].oid = o.oid
    BY <1>3, <2>1 DEF SafeInv, FeedIsReceipted
  <2>3. feed[at] = EntryOf(o)
    BY <1>3, <2>2, ClientFacts DEF FeedIsOwned
  <2> QED
    BY <2>2, <2>3 DEF EntryOf
<1> HIDE DEF o, at
<1>5. \A k \in Rows(c) : Waits(c, k)' <=> Waits(c, k)
  BY <1>1, <1>2 DEF Waits
<1>6. /\ WireInv(c)' /\ AppliesNewer(c)'
      /\ pass'[c].step # "bind" /\ \A d \in Clients \ {c} : pass'[d] = pass[d]
  <2>1. Pending(c)' \subseteq Pending(c)
    BY <1>1, <1>2 DEF Pending
  <2> QED
    BY <1>1, <2>1, RecordedDue DEF At
<1>7. /\ \A d \in Clients \ {c} : binding'[d] = binding[d]
      /\ \A i \in Ids : binding'[c][i].sequence = IF i = o.id THEN at ELSE binding[c][i].sequence
  BY <1>1, <1>3, ClientFacts DEF TypeOK
<1>8. \A n \in 1 .. Len(feed) : Met(c, n)' => Met(c, n)
  <2> SUFFICES ASSUME NEW n \in 1 .. Len(feed), Met(c, n)' PROVE Met(c, n)
    OBVIOUS
  <2>1. feed[n].id \in Ids
    BY EntryTypes
  <2>2. feed[n].oid \in Own(c) \cup applied[c] \/ binding'[c][feed[n].id].sequence = n
    BY <1>1, <1>2, <1>6 DEF Met, At
  <2> QED
    BY <1>3, <1>4, <1>7, <2>1, <2>2 DEF Met
<1>9. \A i \in Ids : AbsentIsNew(c, i) /\ BoundToEntry(c, i)
  BY DEF ConvergeInv, ClientConverges, SideInv
<1>10. RowsOn(c, o.id) # {}
  BY <1>3 DEF RowsOn
<1>11. \A i \in Ids : /\ BoundToEntry(c, i)'
                      /\ local[c][i].state = "absent" =>
                            /\ binding'[c][i].sequence = 0
                            /\ \A n \in 1 .. Len(feed) : feed[n].id = i => n \notin holds'[c]
  BY <1>1, <1>2, <1>4, <1>7, <1>9, <1>10 DEF BoundToEntry, AbsentIsNew
<1> QED
  BY <1>1, <1>5, <1>6, <1>7, <1>8, <1>11, QuietConverges

\* Nobody forgets: what the client met of its own was accepted.
LEMMA OwnIsAccepted ==
    ASSUME SafeInv, ConvergeInv, NoOperationLost, NEW c \in Clients, pass[c].step \notin Pushing,
           NEW n \in 1 .. Len(feed), feed[n].oid \in Own(c)
    PROVE  state[feed[n].oid] = "accepted"
<1>1. PICK k \in Rows(c) : outbox[c][k].oid = feed[n].oid
  BY DEF Own, OidsAt
<1>2. receipt[outbox[c][k].oid].disposition = "accepted"
  BY <1>1 DEF SafeInv, FeedIsReceipted
<1>3. state[outbox[c][k].oid] # "pending"
  BY <1>2, NothingDue DEF Pending, Waits
<1> QED
  BY <1>1, <1>2, <1>3 DEF NoOperationLost

\* What the client met of a memory above position n it knows, if no binding
\* goes that far.
LEMMA MetIsKnown ==
    ASSUME SafeInv, ConvergeInv, NoOperationLost, NEW c \in Clients, pass[c].step \notin Pushing,
           ~At(c, "bind"), NEW n \in Nat, NEW m \in 1 .. Len(feed), m > n, Met(c, m),
           binding[c][feed[m].id].sequence # m
    PROVE  KnowsNewer(c, feed[m].id, n)
<1>1. m \in n + 1 .. Len(feed)
  OBVIOUS
<1>2. feed[m].oid \in Own(c) \cup applied[c]
  BY DEF Met
<1> QED
  BY <1>1, <1>2, OwnIsAccepted DEF KnowsNewer

\* A batch is closed towards the oldest.
LEMMA BatchFromTheOldest ==
    ASSUME SafeInv, NEW c \in Clients, NEW k \in Batch(c),
           NEW j \in PendingOn(c, outbox[c][k].id), j < k
    PROVE  j \in Batch(c)
<1>1. /\ k \in Eligible(c) /\ k \in Nat /\ j \in Nat
      /\ outbox[c][j].id = outbox[c][k].id /\ j \in Pending(c)
  BY DEF Batch, Eligible, PendingOn, Pending, Rows
<1>2. j \in Eligible(c)
  <2> SUFFICES ASSUME NEW l \in PendingOn(c, outbox[c][j].id), l <= j
               PROVE  ~Waiting(c, l)
    BY <1>1 DEF Eligible
  <2>1. l <= k
    BY <1>1 DEF PendingOn, Pending, Rows
  <2> QED
    BY <1>1, <2>1 DEF Eligible
<1> DEFINE Upto(n) == {l \in Eligible(c) : l <= n}
<1>3. Upto(j) \subseteq Upto(k) /\ Upto(k) \subseteq 1 .. Len(outbox[c])
  BY <1>1 DEF Eligible, Pending, Rows
<1>4. IsFiniteSet(Upto(k)) /\ IsFiniteSet(Upto(j))
  <2>1. Len(outbox[c]) \in Nat
    BY ClientFacts DEF TypeOK
  <2>2. IsFiniteSet(1 .. Len(outbox[c]))
    BY <2>1, FS_Interval
  <2> QED
    BY <1>3, <2>2, FS_Subset
<1>5. Cardinality(Upto(j)) <= Cardinality(Upto(k)) /\ Cardinality(Upto(j)) \in Nat /\ Cardinality(Upto(k)) \in Nat
  BY <1>3, <1>4, FS_Subset, FS_CardinalityType
<1>6. Cardinality(Upto(k)) <= MaxBatch /\ MaxBatch \in Nat
  BY ConstantsAssumption DEF Batch
<1> QED
  BY <1>2, <1>5, <1>6 DEF Batch

\* The last row about a memory before row k.
LEMMA RowBefore ==
    ASSUME SafeInv, NEW c \in Clients, NEW i, NEW k \in Nat, NEW j \in RowsOn(c, i), j < k
    PROVE  \E l \in RowsOn(c, i) : /\ j <= l /\ l < k
                                   /\ \A r \in RowsOn(c, i) : r <= l \/ k <= r
<1> DEFINE Gaps == {k - l : l \in {r \in RowsOn(c, i) : r < k}}
<1>1. RowsOn(c, i) \in SUBSET Nat
  BY RowsOnTypes
<1>2. Gaps \in SUBSET Nat /\ k - j \in Gaps
  BY <1>1
<1>3. PICK g \in Gaps : \A y \in Gaps : g <= y
  BY <1>2, LeastNat
<1>4. PICK l \in RowsOn(c, i) : l < k /\ g = k - l
  BY <1>3
<1>5. \A r \in RowsOn(c, i) : r < k => k - l <= k - r
  BY <1>3, <1>4
<1> QED
  BY <1>1, <1>4, <1>5

\* A restore that goes out is the next of its memory to be decided.
LEMMA RestoreIsFirst ==
    ASSUME SafeInv, ConvergeInv, NEW c \in Clients, At(c, "push"), NEW k \in Batch(c),
           outbox[c][k].op = "restore"
    PROVE  /\ outbox[c][k].seen = 0 /\ binding[c][outbox[c][k].id].deleted
           /\ \A j \in Undecided(c, outbox[c][k].id) : k <= j
<1> DEFINE i == outbox[c][k].id
<1>1. k \in Eligible(c) /\ k \in Pending(c) /\ k \in Rows(c) /\ k \in Nat /\ k \in PendingOn(c, i)
      /\ k \in RowsOn(c, i) /\ i \in Ids
  BY RowTypes, ClientFacts DEF Batch, Eligible, PendingOn, Pending, Rows, RowsOn
<1>2. outbox[c][k].seen = 0
  <2>1. pass[c].wire = {}
    BY ClientFacts DEF WireIsOwed, At, Pushing
  <2> QED
    BY <1>1, <2>1 DEF ConvergeInv, ClientConverges, SideInv, WireInv, PreparedIsSent
<1>3. /\ binding[c][i].deleted
      /\ \A j \in PendingOn(c, i) : j < k => outbox[c][j].op # "tombstone"
  BY <1>1, <1>2 DEF Eligible, Waiting
<1>4. \A l \in Pending(c) : Waits(c, l)
  BY NothingDue DEF At, Pushing
<1>5. MemoryInv(c, i)
  BY <1>1 DEF ConvergeInv, ClientConverges
<1>6. ASSUME NEW j \in Undecided(c, i), j < k PROVE FALSE
  <2>1. j \in RowsOn(c, i)
    BY RowsOnTypes
  <2>2. PICK l \in RowsOn(c, i) : /\ j <= l /\ l < k
                                  /\ \A r \in RowsOn(c, i) : r <= l \/ k <= r
    BY <1>1, <1>6, <2>1, RowBefore
  <2>3. RowsOn(c, i) \in SUBSET Nat
    BY RowsOnTypes
  <2>4. l \in Undecided(c, i)
    <3>1. j < l \/ j = l
      BY <2>1, <2>2, <2>3
    <3> QED
      BY <1>5, <1>6, <2>2, <3>1 DEF MemoryInv, UndecidedComeLast
  <2>5. k \in Undecided(c, i)
    BY <1>1, <1>4 DEF Undecided
  <2>6. outbox[c][l].op = "tombstone"
    BY <1>5, <2>2, <2>4, <2>5 DEF MemoryInv, RestoresFollow
  <2> QED
    BY <1>3, <2>2, <2>4, <2>6, RowsOnTypes
<1>7. \A j \in Undecided(c, i) : j \in Nat
  BY RowsOnTypes
<1> QED
  BY <1>1, <1>2, <1>3, <1>6, <1>7

LEMMA SendConverges ==
    ASSUME SafeInv, ConvergeInv, NoOperationLost, NEW c \in Clients, Send(c), ~NamesOlder(c)
    PROVE  ConvergeInv'
<1>1. /\ At(c, "push")
      /\ outbox' = [outbox EXCEPT ![c] = [k \in DOMAIN @ |->
            IF k \in Batch(c) THEN Prepared(c, @[k]) ELSE @[k]]]
      /\ UNCHANGED <<hub, local, state, binding, cursor, holds, applied, bounds>>
  BY DEF Send
<1>2. /\ pass'[c].step = "sent" /\ pass'[c].wire = Batch(c) /\ pass'[c].done = 0
      /\ \A d \in Clients \ {c} : pass'[d] = pass[d]
  BY ClientFacts DEF Send, TypeOK, Passes
<1>3. /\ \A d \in Clients \ {c} : outbox'[d] = outbox[d]
      /\ Rows(c)' = Rows(c)
      /\ \A k \in Rows(c) :
            /\ outbox'[c][k].oid = outbox[c][k].oid /\ outbox'[c][k].id = outbox[c][k].id
            /\ outbox'[c][k].op = outbox[c][k].op /\ outbox'[c][k].val = outbox[c][k].val
            /\ k \in Batch(c) /\ outbox'[c][k].op = "restore" => outbox'[c][k].seen # 0
  BY SendRows DEF Rows
<1>4. feed' = feed /\ receipt' = receipt /\ Own(c)' = Own(c) /\ Pending(c)' = Pending(c)
  <2>1. Own(c)' = Own(c)
    BY <1>3 DEF Own, OidsAt
  <2>2. Pending(c)' = Pending(c)
    BY <1>1, <1>3 DEF Pending
  <2> QED
    BY <1>1, <2>1, <2>2 DEF hub
<1>5. \A k \in Rows(c) : Waits(c, k)' <=> Waits(c, k)
  BY <1>1, <1>3, <1>4 DEF Waits
<1>6. \A n \in 1 .. Len(feed) : Met(c, n)' => Met(c, n)
  BY <1>1, <1>2, <1>4 DEF Met, At
<1>7. /\ \A i : RowsOn(c, i)' = RowsOn(c, i) /\ Undecided(c, i)' = Undecided(c, i)
      /\ \A i \in Ids : MemoryInv(c, i)'
  BY <1>1, <1>3, <1>4, <1>5, <1>6, QuietMemories
<1>8. pass[c].step \notin Pushing /\ \A k \in Pending(c) : Waits(c, k)
  BY <1>1, NothingDue DEF At, Pushing
<1>9. \A i : PendingOn(c, i)' = PendingOn(c, i)
  BY <1>3, <1>4 DEF PendingOn, Pending
<1>10. Batch(c) \subseteq Rows(c) /\ \A k \in Batch(c) : outbox[c][k].id \in Ids
  BY RowTypes, ClientFacts DEF Batch, Eligible, Pending
<1>11. AnswersAreDue(c)'
  BY <1>4, <1>5, <1>8 DEF AnswersAreDue, Pending
<1>12. WireFromTheOldest(c)'
  BY <1>2, <1>3, <1>9, <1>10, BatchFromTheOldest DEF WireFromTheOldest
<1>13. RestoreFits(c)'
  <2> SUFFICES ASSUME NEW k \in Batch(c), outbox[c][k].op = "restore"
               PROVE  /\ \A j \in Undecided(c, outbox[c][k].id) : k <= j
                      /\ \A n \in 1 .. Len(feed) :
                            IsRevision(n, outbox[c][k].id) /\ Met(c, n) => n = outbox'[c][k].seen
    BY <1>2, <1>3, <1>4, <1>6, <1>7, <1>10 DEF RestoreFits, IsRevision
  <2> DEFINE i == outbox[c][k].id
  <2>1. /\ outbox[c][k].seen = 0 /\ binding[c][i].deleted
        /\ \A j \in Undecided(c, i) : k <= j
    BY <1>1, RestoreIsFirst
  <2>2. outbox'[c][k].seen = binding[c][i].sequence
    <3>1. outbox'[c][k] = Prepared(c, outbox[c][k])
      BY <1>1, <1>10, ClientFacts DEF Rows, TypeOK
    <3>2. outbox[c][k] \in Operations
      BY <1>10, RowTypes, ClientFacts
    <3> QED
      BY <2>1, <3>1, <3>2 DEF Prepared, Operations
  <2>3. i \in Ids /\ Deletes(binding[c][i].sequence, i)
    BY <1>10, <2>1, ClientFacts DEF DeletionsKnown
  <2>4. ~KnowsNewer(c, i, binding[c][i].sequence)
    BY <2>2 DEF NamesOlder
  <2>5. ASSUME NEW n \in 1 .. Len(feed), IsRevision(n, i), Met(c, n), n # binding[c][i].sequence
        PROVE  FALSE
    <3>1. binding[c][i].sequence \in 1 .. Len(feed) /\ binding[c][i].sequence \in Nat
      <4>1. binding[c][i].sequence \in 1 .. Len(feed)
        BY <2>3 DEF Deletes
      <4> QED
        BY <4>1
    <3>2. ~(binding[c][i].sequence > n)
      <4>1. binding[c][i].sequence > n => binding[c][i].sequence \in n + 1 .. Len(feed)
        BY <3>1
      <4> QED
        BY <2>3, <2>5, <4>1 DEF IsRevision, Deletes
    <3>3. n > binding[c][i].sequence
      BY <2>5, <3>1, <3>2
    <3>4. feed[n].id = i /\ ~At(c, "bind")
      BY <1>1, <2>5 DEF IsRevision, At
    <3> QED
      BY <1>8, <2>4, <2>5, <3>1, <3>3, <3>4, MetIsKnown
  <2> QED
    BY <2>1, <2>2, <2>5
<1>14. PreparedIsSent(c)'
  <2>1. \A k \in Rows(c) : k \notin Batch(c) => outbox'[c][k] = outbox[c][k]
    BY <1>1, ClientFacts DEF Rows, TypeOK
  <2>2. pass[c].wire = {}
    BY <1>8, ClientFacts DEF WireIsOwed
  <2>3. \A k \in Pending(c) : outbox[c][k].seen = 0
    BY <2>2 DEF ConvergeInv, ClientConverges, SideInv, WireInv, PreparedIsSent
  <2> QED
    BY <1>2, <1>4, <2>1, <2>3 DEF PreparedIsSent, Pending
<1>15. SideInv(c)
  BY DEF ConvergeInv, ClientConverges
<1>16. AppliesNewer(c)' /\ AppliedIsFed(c)'
  BY <1>1, <1>2, <1>4, <1>15 DEF SideInv, AppliesNewer, AppliedIsFed, At
<1>17. ASSUME NEW i \in Ids PROVE AbsentIsNew(c, i)' /\ BoundToEntry(c, i)'
  BY <1>1, <1>4, <1>6, <1>7, <1>15 DEF SideInv, AbsentIsNew, BoundToEntry
<1>18. ClientConverges(c)'
  BY <1>7, <1>11, <1>12, <1>13, <1>14, <1>16, <1>17 DEF ClientConverges, SideInv, WireInv
<1>19. \A d \in Clients \ {c} :
         UNCHANGED <<pass[d], cursor[d], holds[d], applied[d], binding[d], outbox[d], local[d]>>
  BY <1>1, <1>2, <1>3
<1> QED
  BY <1>1, <1>18, <1>19, PassConverges

\* A new row: what the client did fits what it last did, or what it met.
LEMMA JournalMemory ==
    ASSUME SafeInv, NEW c \in Clients, NEW i \in Ids, MemoryInv(c, i), AbsentIsNew(c, i),
           NEW K \in Nat, RowsOn(c, i)' = RowsOn(c, i) \cup {K},
           Undecided(c, i)' = Undecided(c, i) \cup {K},
           \A k \in RowsOn(c, i) : k < K /\ outbox'[c][k] = outbox[c][k],
           feed' = feed, \A n \in 1 .. Len(feed) : Met(c, n)' => Met(c, n),
           Shows(local'[c][i], outbox'[c][K]),
           \/ outbox'[c][K].op = "upsert" /\ local[c][i].state \in {"absent", "live"}
           \/ outbox'[c][K].op = "tombstone" /\ local[c][i].state = "live"
           \/ outbox'[c][K].op = "restore" /\ local[c][i].state = "deleted"
    PROVE  MemoryInv(c, i)'
<1>1. /\ Undecided(c, i) \subseteq RowsOn(c, i) /\ RowsOn(c, i) \subseteq Nat
      /\ \A k \in RowsOn(c, i) : k \in Nat /\ k < K /\ ~(K < k) /\ ~(K <= k) /\ k # K
      /\ ~(K < K)
  BY RowsOnTypes
<1>2. UndecidedComeLast(c, i)'
  BY <1>1 DEF MemoryInv, UndecidedComeLast
<1>3. LastIsShown(c, i)'
  BY <1>1 DEF LastIsShown
<1>4. RestoresFollow(c, i)'
  <2> SUFFICES ASSUME NEW j \in Undecided(c, i)', NEW k \in Undecided(c, i)', j < k,
                      \A l \in RowsOn(c, i)' : l <= j \/ k <= l
               PROVE  outbox'[c][k].op = "restore" <=> outbox'[c][j].op = "tombstone"
    BY DEF RestoresFollow
  <2>1. j \in Undecided(c, i) /\ j \in RowsOn(c, i) /\ outbox'[c][j] = outbox[c][j]
    BY <1>1
  <2>2. CASE k \in Undecided(c, i)
    BY <1>1, <2>1, <2>2 DEF MemoryInv, RestoresFollow
  <2>3. CASE k = K
    <3>1. \A l \in RowsOn(c, i) : l <= j
      BY <1>1, <2>3
    <3>2. Shows(local[c][i], outbox[c][j])
      BY <2>1, <3>1 DEF MemoryInv, LastIsShown
    <3>3. local[c][i].state # "absent"
      BY <2>1 DEF AbsentIsNew
    <3>4. outbox[c][j].op # "tombstone" => local[c][i].state = "live"
      BY <3>2 DEF Shows, Live
    <3>5. outbox[c][j].op = "tombstone" => local[c][i].state # "live"
      BY <3>2 DEF Shows
    <3> QED
      BY <2>1, <2>3, <3>3, <3>4, <3>5
  <2> QED
    BY <2>2, <2>3
<1>5. FirstFits(c, i)'
  <2> SUFFICES ASSUME NEW k, First(k, Undecided(c, i))', outbox'[c][k].op = "upsert",
                      NEW n \in 1 .. Len(feed), IsRevision(n, i), Met(c, n)
               PROVE  feed[n].op # "tombstone"
    BY DEF FirstFits, IsRevision
  <2>1. CASE Undecided(c, i) # {}
    <3>1. First(k, Undecided(c, i)) /\ k \in RowsOn(c, i)
      BY <1>1, <2>1 DEF First
    <3> QED
      BY <3>1 DEF MemoryInv, FirstFits
  <2>2. CASE Undecided(c, i) = {}
    <3>1. k = K
      BY <2>2 DEF First
    <3>2. feed[n].id = i
      BY DEF IsRevision
    <3>3. local[c][i].state = "live"
      BY <3>1, <3>2 DEF AbsentIsNew
    <3>4. Shows(local[c][i], feed[n])
      BY <2>2 DEF MemoryInv, MetIsShown
    <3> QED
      BY <3>3, <3>4 DEF Shows
  <2> QED
    BY <2>1, <2>2
<1>6. MetIsShown(c, i)'
  BY DEF MetIsShown
<1>7. UnheardIsNew(c, i)'
  <2> SUFFICES ASSUME \A n \in 1 .. Len(feed) : feed[n].id # i,
                      NEW k, First(k, Undecided(c, i))'
               PROVE  outbox'[c][k].op = "upsert"
    BY DEF UnheardIsNew
  <2>1. CASE Undecided(c, i) # {}
    <3>1. First(k, Undecided(c, i)) /\ k \in RowsOn(c, i)
      BY <1>1, <2>1 DEF First
    <3> QED
      BY <3>1 DEF MemoryInv, UnheardIsNew
  <2>2. CASE Undecided(c, i) = {}
    BY <2>2 DEF MemoryInv, UnheardIsNew, First
  <2> QED
    BY <2>1, <2>2
<1> QED
  BY <1>2, <1>3, <1>4, <1>5, <1>6, <1>7 DEF MemoryInv

LEMMA JournalConverges ==
    ASSUME SafeInv, ConvergeInv, NEW c \in Clients, NEW i \in Ids, NEW op \in Ops,
           NEW v \in Values \cup {None}, NEW memory, Journal(c, i, op, v, memory),
           Shows(memory, [op |-> op, val |-> v]), memory.state # "absent",
           \/ op = "upsert" /\ local[c][i].state \in {"absent", "live"}
           \/ op = "tombstone" /\ local[c][i].state = "live"
           \/ op = "restore" /\ local[c][i].state = "deleted"
    PROVE  ConvergeInv'
<1> PICK K : K = Len(outbox[c]) + 1
  OBVIOUS
<1>1. UNCHANGED <<hub, binding, cursor, holds, applied, pass, faults>>
  BY DEF Journal
<1>2. /\ minted + 1 \in Oids /\ minted \in Nat
      /\ \A d \in Clients \ {c} : outbox'[d] = outbox[d]
      /\ K \in Nat /\ Rows(c)' = Rows(c) \cup {K} /\ \A k \in Rows(c) : k \in Nat /\ k < K
      /\ outbox'[c][K] = [oid |-> minted + 1, id |-> i, op |-> op, val |-> v, seen |-> 0]
      /\ \A k \in Rows(c) : outbox'[c][k] = outbox[c][k]
      /\ \A o \in Oids : state'[o] = IF o = minted + 1 THEN "pending" ELSE state[o]
  BY JournalRows DEF Rows
<1>3. /\ \A d \in Clients \ {c} : local'[d] = local[d]
      /\ \A j \in Ids : local'[c][j] = IF j = i THEN memory ELSE local[c][j]
  BY ClientFacts DEF Journal, TypeOK
<1>4. feed' = feed /\ receipt' = receipt
  BY <1>1 DEF hub
<1>5. \A k \in Rows(c) : outbox[c][k].oid \in Oids /\ outbox[c][k].oid # minted + 1
  <2> SUFFICES ASSUME NEW k \in Rows(c) PROVE outbox[c][k].oid \in Oids /\ outbox[c][k].oid # minted + 1
    OBVIOUS
  <2>1. outbox[c][k].oid \in Oids /\ outbox[c][k].oid <= minted
    BY RowTypes, ClientFacts DEF Minted
  <2>2. outbox[c][k].oid \in Nat
    BY <2>1, Constants
  <2> QED
    BY <1>2, <2>1, <2>2
<1>6. Own(c)' = Own(c) \cup {minted + 1}
  BY <1>2 DEF Own, OidsAt
<1>7. \A n \in 1 .. Len(feed) : feed[n].oid # minted + 1
  <2> SUFFICES ASSUME NEW n \in 1 .. Len(feed) PROVE feed[n].oid # minted + 1
    OBVIOUS
  <2>1. feed[n].oid \in Oids /\ feed[n].oid <= minted
    BY EntryTypes DEF SafeInv, FeedIsReceipted
  <2>2. feed[n].oid \in Nat
    BY <2>1, Constants
  <2> QED
    BY <1>2, <2>1, <2>2
<1>8. \A n \in 1 .. Len(feed) : Met(c, n)' <=> Met(c, n)
  BY <1>1, <1>4, <1>6, <1>7 DEF Met, At, Position
<1>9. receipt[minted + 1].disposition = "none"
  <2>1. minted + 1 > minted
    BY <1>2
  <2> QED
    BY <1>2, <2>1 DEF SafeInv, Fresh, NoReceipt
<1>10. \A k \in Rows(c) : Waits(c, k)' <=> Waits(c, k)
  <2> SUFFICES ASSUME NEW k \in Rows(c) PROVE Waits(c, k)' <=> Waits(c, k)
    OBVIOUS
  <2>1. outbox'[c][k] = outbox[c][k] /\ state'[outbox[c][k].oid] = state[outbox[c][k].oid]
    BY <1>2, <1>5
  <2> QED
    BY <1>4, <2>1 DEF Waits
<1>11. Waits(c, K)'
  BY <1>2, <1>4, <1>9 DEF Waits
<1>12. Pending(c)' = Pending(c) \cup {K} /\ Pending(c) \subseteq Rows(c)
  BY <1>2, <1>5 DEF Pending
<1>13. \A j \in Ids : /\ RowsOn(c, j)' = RowsOn(c, j) \cup (IF j = i THEN {K} ELSE {})
                      /\ Undecided(c, j)' = Undecided(c, j) \cup (IF j = i THEN {K} ELSE {})
  <2> SUFFICES ASSUME NEW j \in Ids
               PROVE  /\ RowsOn(c, j)' = RowsOn(c, j) \cup (IF j = i THEN {K} ELSE {})
                      /\ Undecided(c, j)' = Undecided(c, j) \cup (IF j = i THEN {K} ELSE {})
    OBVIOUS
  <2>1. RowsOn(c, j)' = RowsOn(c, j) \cup (IF j = i THEN {K} ELSE {})
    BY <1>2 DEF RowsOn
  <2>2. RowsOn(c, j) \subseteq Rows(c)
    BY DEF RowsOn
  <2>3. Undecided(c, j)' = Undecided(c, j) \cup (IF j = i THEN {K} ELSE {})
    <3>1. CASE j = i
      <4>1. RowsOn(c, j)' = RowsOn(c, j) \cup {K}
        BY <2>1, <3>1
      <4> QED
        BY <1>10, <1>11, <2>2, <3>1, <4>1 DEF Undecided
    <3>2. CASE j # i
      <4>1. RowsOn(c, j)' = RowsOn(c, j)
        BY <2>1, <3>2
      <4> QED
        BY <1>10, <2>2, <3>2, <4>1 DEF Undecided
    <3> QED
      BY <3>1, <3>2
  <2> QED
    BY <2>1, <2>3
<1>14. SideInv(c) /\ \A j \in Ids : MemoryInv(c, j) /\ AbsentIsNew(c, j) /\ BoundToEntry(c, j)
  BY DEF ConvergeInv, ClientConverges, SideInv
<1>15. ASSUME NEW j \in Ids PROVE MemoryInv(c, j)'
  <2>1. \A k \in RowsOn(c, j) : k \in Rows(c) /\ k < K /\ outbox'[c][k] = outbox[c][k]
    BY <1>2 DEF RowsOn
  <2>2. CASE j = i
    <3>1. Shows(local'[c][i], outbox'[c][K])
      BY <1>2, <1>3 DEF Shows
    <3> QED
      BY <1>2, <1>4, <1>8, <1>13, <1>14, <2>1, <2>2, <3>1, JournalMemory
  <2>3. CASE j # i
    <3>1. Len(feed) \in Nat
      BY ClientFacts
    <3>2. RowsOn(c, j)' = RowsOn(c, j) /\ Undecided(c, j)' = Undecided(c, j)
      BY <1>13, <2>3
    <3> QED
      BY <1>3, <1>4, <1>8, <1>14, <2>1, <2>3, <3>1, <3>2, MemoryStays
  <2> QED
    BY <2>2, <2>3
<1>16. Turn(c)' = Turn(c) /\ Position(c)' = Position(c)
  BY <1>1 DEF Turn, Rest, Position
<1>17. AnswersAreDue(c)'
  <2> SUFFICES ASSUME NEW k \in Pending(c), ~Waits(c, k)
               PROVE  /\ k \in pass[c].wire
                      /\ \/ pass[c].step = "sent" /\ k <= pass[c].done
                         \/ pass[c].step = "answered" /\ k > pass[c].done
                         \/ pass[c].step = "settled" /\ k > pass[c].done /\ k # Turn(c)
    BY <1>1, <1>10, <1>11, <1>12, <1>16 DEF AnswersAreDue
  <2> QED
    BY <1>14 DEF SideInv, WireInv, AnswersAreDue
<1>18. pass[c].wire \subseteq Rows(c)
  BY ClientFacts DEF WireIsOwed
<1>19. WireFromTheOldest(c)' /\ PreparedIsSent(c)'
  <2>1. \A k \in pass[c].wire : ~(K < k) /\ outbox'[c][k] = outbox[c][k]
    BY <1>2, <1>18
  <2>2. \A j : PendingOn(c, j)' \subseteq PendingOn(c, j) \cup {K}
    BY <1>2, <1>12 DEF PendingOn
  <2>3. WireFromTheOldest(c)'
    BY <1>1, <1>14, <2>1, <2>2 DEF SideInv, WireInv, WireFromTheOldest
  <2>4. PreparedIsSent(c)'
    BY <1>1, <1>2, <1>12, <1>14 DEF SideInv, WireInv, PreparedIsSent
  <2> QED
    BY <2>3, <2>4
<1>20. RestoreFits(c)'
  <2>1. \A k \in pass[c].wire : outbox'[c][k] = outbox[c][k]
    BY <1>2, <1>18
  <2>2. \A n, j : IsRevision(n, j)' <=> IsRevision(n, j)
    BY <1>4 DEF IsRevision
  <2> SUFFICES ASSUME pass[c].step = "sent", NEW k \in pass[c].wire, k > pass[c].done,
                      outbox[c][k].op = "restore"
               PROVE  /\ \A j \in Undecided(c, outbox[c][k].id)' : k <= j
                      /\ \A n \in 1 .. Len(feed) :
                            IsRevision(n, outbox[c][k].id) /\ Met(c, n) => n = outbox[c][k].seen
    BY <1>1, <1>4, <1>8, <2>1, <2>2 DEF RestoreFits
  <2>3. k \in Rows(c) /\ k <= K /\ outbox[c][k].id \in Ids
    BY <1>2, <1>18, RowTypes, ClientFacts
  <2>4. \A j \in Undecided(c, outbox[c][k].id)' : j \in Undecided(c, outbox[c][k].id) \/ j = K
    BY <1>2, <1>13, <1>18, <2>3
  <2>5. /\ \A j \in Undecided(c, outbox[c][k].id) : k <= j
        /\ \A n \in 1 .. Len(feed) :
              IsRevision(n, outbox[c][k].id) /\ Met(c, n) => n = outbox[c][k].seen
    BY <1>14 DEF SideInv, WireInv, RestoreFits
  <2> QED
    BY <2>3, <2>4, <2>5
<1>21. AppliesNewer(c)' /\ AppliedIsFed(c)'
  <2>1. At(c, "apply") => Entry(c)' = Entry(c) /\ Entry(c).oid # minted + 1
    BY <1>4, <1>7, <1>16, PositionTypes, ClientFacts DEF Entry
  <2> QED
    BY <1>1, <1>4, <1>6, <1>14, <1>16, <2>1 DEF SideInv, AppliesNewer, AppliedIsFed, At
<1>22. ASSUME NEW j \in Ids PROVE AbsentIsNew(c, j)' /\ BoundToEntry(c, j)'
  BY <1>1, <1>3, <1>4, <1>8, <1>13, <1>14 DEF AbsentIsNew, BoundToEntry
<1>23. ClientConverges(c)'
  BY <1>15, <1>17, <1>19, <1>20, <1>21, <1>22 DEF ClientConverges, SideInv, WireInv
<1>24. \A d \in Clients \ {c} :
         UNCHANGED <<pass[d], cursor[d], holds[d], applied[d], binding[d], outbox[d], local[d]>>
  BY <1>1, <1>2, <1>3
<1>25. \A o \in Oids : state'[o] = state[o] \/ o \in Own(c) \/ o > minted
  BY <1>2
<1> QED
  BY <1>1, <1>23, <1>24, <1>25, PassConverges

LEMMA CommandConverges ==
    ASSUME SafeInv, ConvergeInv, NEW c \in Clients, Command(c), ~Resaves(c)
    PROVE  ConvergeInv'
<1> PICK i \in Ids : (\E v \in Values : Write(c, i, v)) \/ Delete(c, i) \/ Restore(c, i)
  BY DEF Command
<1>1. local[c][i] \in Memories
  BY ClientFacts DEF TypeOK
<1>2. ASSUME NEW v \in Values, Write(c, i, v) PROVE ConvergeInv'
  <2>1. Journal(c, i, "upsert", v, Live(v)) /\ local[c][i].state \in {"absent", "live"}
    BY <1>1, <1>2 DEF Write, Resaves, Memories
  <2>2. Shows(Live(v), [op |-> "upsert", val |-> v]) /\ Live(v).state # "absent" /\ "upsert" \in Ops
    BY DEF Shows, Live, Ops
  <2> QED
    BY <2>1, <2>2, JournalConverges
<1>3. CASE Delete(c, i)
  <2> DEFINE memory == [local[c][i] EXCEPT !.state = "deleted"]
  <2>1. Journal(c, i, "tombstone", None, memory) /\ local[c][i].state = "live"
    BY <1>3 DEF Delete
  <2>2. memory.state = "deleted"
    BY <1>1 DEF Memories
  <2>3. Shows(memory, [op |-> "tombstone", val |-> None]) /\ memory.state # "absent"
        /\ "tombstone" \in Ops
    BY <2>2 DEF Shows, Ops
  <2> QED
    BY <2>1, <2>3, JournalConverges
<1>4. CASE Restore(c, i)
  <2> DEFINE memory == [local[c][i] EXCEPT !.state = "live"]
             v == local[c][i].val
  <2>1. Journal(c, i, "restore", v, memory) /\ local[c][i].state = "deleted"
    BY <1>4 DEF Restore
  <2>2. memory = Live(v) /\ v \in Values \cup {None}
    BY <1>1 DEF Memories, Live
  <2>3. Shows(memory, [op |-> "restore", val |-> v]) /\ memory.state # "absent" /\ "restore" \in Ops
    BY <2>2 DEF Shows, Live, Ops
  <2> QED
    BY <2>1, <2>2, <2>3, JournalConverges
<1> QED
  BY <1>2, <1>3, <1>4

\* The oldest rows about a memory up to row p are settled by entry n: what
\* follows it was made after it.
LEMMA UpstreamMemory ==
    ASSUME SafeInv, NEW c \in Clients, NEW i \in Ids, MemoryInv(c, i),
           NEW p \in Undecided(c, i), NEW n \in 1 .. Len(feed), feed[n].id = i,
           SameBytes(outbox[c][p], feed[n]),
           UNCHANGED <<feed, outbox, local>>, Undecided(c, i)' = {k \in Undecided(c, i) : ~(k <= p)},
           \A m \in 1 .. Len(feed) : IsRevision(m, i) /\ Met(c, m)' => m = n
    PROVE  MemoryInv(c, i)'
<1>1. /\ RowsOn(c, i)' = RowsOn(c, i) /\ RowsOn(c, i) \in SUBSET Nat
      /\ Undecided(c, i)' \subseteq Undecided(c, i) /\ Undecided(c, i) \subseteq RowsOn(c, i)
  <2>1. RowsOn(c, i)' = RowsOn(c, i)
    BY DEF RowsOn, Rows
  <2> QED
    BY <2>1, RowsOnTypes
<1>2. \A k \in RowsOn(c, i) : k \in Nat /\ (~(k <= p) <=> p < k) /\ (p < k => k \in Undecided(c, i)')
  <2> SUFFICES ASSUME NEW k \in RowsOn(c, i)
               PROVE  k \in Nat /\ (~(k <= p) <=> p < k) /\ (p < k => k \in Undecided(c, i)')
    OBVIOUS
  <2>1. k \in Nat /\ p \in Nat
    BY <1>1
  <2>2. p < k => k \in Undecided(c, i)
    BY DEF MemoryInv, UndecidedComeLast
  <2> QED
    BY <2>1, <2>2
<1>3. UndecidedComeLast(c, i)'
  <2> SUFFICES ASSUME NEW j \in Undecided(c, i)', NEW k \in RowsOn(c, i), j < k
               PROVE  k \in Undecided(c, i)'
    BY <1>1 DEF UndecidedComeLast
  <2>1. j \in RowsOn(c, i) /\ ~(j <= p)
    BY <1>1
  <2> QED
    BY <1>1, <1>2, <2>1
<1>4. LastIsShown(c, i)' /\ RestoresFollow(c, i)'
  BY <1>1 DEF MemoryInv, LastIsShown, RestoresFollow
<1>5. FirstFits(c, i)'
  <2> SUFFICES ASSUME NEW k, First(k, Undecided(c, i)'), outbox[c][k].op = "upsert"
               PROVE  feed[n].op # "tombstone"
    BY DEF FirstFits, IsRevision, First
  <2>1. k \in Undecided(c, i)' /\ k \in Undecided(c, i) /\ k \in RowsOn(c, i) /\ p < k /\ p \in RowsOn(c, i)
    BY <1>1, <1>2 DEF First
  <2>2. \A l \in RowsOn(c, i) : l <= p \/ k <= l
    BY <1>1, <1>2, <2>1 DEF First
  <2>3. outbox[c][p].op # "tombstone"
    BY <2>1, <2>2 DEF MemoryInv, RestoresFollow
  <2> QED
    BY <2>3 DEF SameBytes
<1>6. MetIsShown(c, i)'
  <2> SUFFICES ASSUME Undecided(c, i)' = {} PROVE Shows(local[c][i], feed[n])
    BY DEF MetIsShown, IsRevision
  <2>1. \A k \in RowsOn(c, i) : k <= p
    BY <1>1, <1>2
  <2>2. Shows(local[c][i], outbox[c][p])
    BY <2>1 DEF MemoryInv, LastIsShown
  <2> QED
    BY <2>2 DEF Shows, SameBytes
<1>7. UnheardIsNew(c, i)'
  BY DEF UnheardIsNew
<1> QED
  BY <1>3, <1>4, <1>5, <1>6, <1>7 DEF MemoryInv

LEMMA ResolveUpstreamConverges ==
    ASSUME SafeInv, ConvergeInv, NoOperationLost, NEW c \in Clients, ResolveUpstream(c),
           ~SettlesOlder(c)
    PROVE  ConvergeInv'
<1> DEFINE e == Entry(c)
           n == Position(c)
           owed == PendingOn(c, e.id)
           same == {k \in owed : SameBytes(outbox[c][k], e)}
<1>1. /\ At(c, "pull") /\ ~Superseded(c) /\ AlreadyUpstream(c) # {}
      /\ Settle(AlreadyUpstream(c)) /\ Goto(c, "bind")
      /\ UNCHANGED <<hub, local, outbox, binding, cursor, holds, applied, bounds>>
  BY DEF ResolveUpstream, Foreign
<1>2. feed' = feed /\ receipt' = receipt /\ Rows(c)' = Rows(c) /\ Own(c)' = Own(c)
      /\ Position(c)' = Position(c)
  BY <1>1 DEF hub, Rows, Own, OidsAt, Position
<1>3. pass'[c].step = "bind" /\ pass[c].step = "pull" /\ \A d \in Clients \ {c} : pass'[d] = pass[d]
  BY <1>1, PullGoes DEF At, Pulling
<1>4. n \in 1 .. Len(feed) /\ n \in Nat /\ e.id \in Ids /\ e = feed[n]
  BY <1>1, PositionTypes, ClientFacts DEF Entries, Entry
<1>5. owed \subseteq Rows(c) /\ owed \in SUBSET Nat
  BY DEF PendingOn, Pending, Rows
<1>6. PICK p \in same : AlreadyUpstream(c) = OidsAt(c, {k \in owed : k <= p})
  <2>1. same # {} /\ AlreadyUpstream(c) = OidsAt(c, {k \in owed : k <= Min(same)})
    BY <1>1 DEF AlreadyUpstream
  <2>2. Min(same) \in same
    BY <1>5, <2>1, MinIsLeast
  <2> QED
    BY <2>1, <2>2
<1>7. p \in owed /\ SameBytes(outbox[c][p], e)
  BY <1>6
<1>8. \A k \in Pending(c) : Waits(c, k)
  BY <1>3, NothingDue DEF Pushing
<1> DEFINE settled == {k \in owed : k <= p}
<1>9. \A k \in Rows(c) : outbox[c][k].oid \in Oids
  BY RowTypes, ClientFacts
<1>10. \A k \in Rows(c) : outbox[c][k].oid \in AlreadyUpstream(c) <=> k \in settled
  <2> SUFFICES ASSUME NEW k \in Rows(c), NEW j \in Rows(c), outbox[c][k].oid = outbox[c][j].oid
               PROVE  k = j
    BY <1>5, <1>6 DEF OidsAt
  <2>1. /\ k < j => outbox[c][k].oid < outbox[c][j].oid
        /\ j < k => outbox[c][j].oid < outbox[c][k].oid
    BY ClientFacts DEF Minted
  <2>2. outbox[c][k].oid \in Nat /\ k \in Nat /\ j \in Nat
    <3>1. outbox[c][k].oid \in Oids
      BY <1>9
    <3>2. k \in Nat /\ j \in Nat
      BY DEF Rows
    <3> QED
      BY <3>1, <3>2, Constants
  <2> QED
    BY <2>1, <2>2
<1>11. \A o \in Oids : state'[o] = IF o \in AlreadyUpstream(c) THEN "accepted" ELSE state[o]
  BY <1>1, SettleTypes, ClientFacts
<1> HIDE DEF e, n, owed, same, settled
<1>12. \A k \in Rows(c) : Waits(c, k)' <=> Waits(c, k) /\ k \notin settled
  <2> SUFFICES ASSUME NEW k \in Rows(c) PROVE Waits(c, k)' <=> Waits(c, k) /\ k \notin settled
    OBVIOUS
  <2>1. outbox'[c][k] = outbox[c][k]
        /\ state'[outbox[c][k].oid] = IF k \in settled THEN "accepted" ELSE state[outbox[c][k].oid]
    BY <1>1, <1>9, <1>10, <1>11
  <2> QED
    BY <1>2, <2>1 DEF Waits
<1>13. \A i : /\ RowsOn(c, i)' = RowsOn(c, i)
              /\ Undecided(c, i)' = {k \in Undecided(c, i) : k \notin settled}
  <2>1. \A i : RowsOn(c, i)' = RowsOn(c, i) /\ RowsOn(c, i) \subseteq Rows(c)
    BY <1>1, <1>2 DEF RowsOn
  <2> QED
    BY <1>12, <2>1 DEF Undecided
<1>14. \A m \in 1 .. Len(feed) : Met(c, m)' => Met(c, m) \/ m = n
  BY <1>1, <1>2 DEF Met, n
<1>15. SideInv(c) /\ \A i \in Ids : MemoryInv(c, i) /\ AbsentIsNew(c, i) /\ BoundToEntry(c, i)
  BY DEF ConvergeInv, ClientConverges, SideInv
<1>16. Undecided(c, e.id) = owed
  BY <1>8 DEF Undecided, RowsOn, owed, PendingOn, Pending, Waits
<1>17. \A m \in 1 .. Len(feed) : IsRevision(m, e.id) /\ Met(c, m)' => m = n
  <2> SUFFICES ASSUME NEW m \in 1 .. Len(feed), IsRevision(m, e.id), Met(c, m), m # n PROVE FALSE
    BY <1>14
  <2>1. ~(m < n)
    <3>1. m < n => n \in m + 1 .. Len(feed)
      BY <1>4
    <3> QED
      BY <1>4, <3>1 DEF IsRevision
  <2>2. m > n /\ feed[m].id = e.id
    BY <1>4, <2>1 DEF IsRevision
  <2>3. binding[c][e.id].sequence < n
    <3>1. ~(n <= binding[c][e.id].sequence)
      BY <1>1 DEF Superseded, n, e
    <3> QED
      BY <1>4, <3>1, BindingTypes
  <2>4. binding[c][e.id].sequence # m
    BY <1>4, <2>2, <2>3, BindingTypes
  <2>5. KnowsNewer(c, e.id, n)
    BY <1>3, <1>4, <2>2, <2>4, MetIsKnown DEF At, Pushing
  <2> QED
    BY <2>5 DEF SettlesOlder, n, e
<1>18. ASSUME NEW i \in Ids PROVE MemoryInv(c, i)'
  <2>1. CASE i = e.id
    <3>1. Undecided(c, i)' = {k \in Undecided(c, i) : ~(k <= p)}
      BY <1>13, <1>16, <2>1 DEF settled
    <3> QED
      BY <1>1, <1>2, <1>4, <1>7, <1>15, <1>16, <1>17, <2>1, <3>1, UpstreamMemory
  <2>2. CASE i # e.id
    <3>1. settled \cap RowsOn(c, i) = {}
      BY <2>2 DEF settled, owed, PendingOn, RowsOn
    <3>2. Undecided(c, i)' = Undecided(c, i)
      BY <1>13, <3>1 DEF Undecided
    <3>3. Len(feed) \in Nat
      BY ClientFacts
    <3> QED
      BY <1>1, <1>2, <1>4, <1>13, <1>14, <1>15, <2>2, <3>2, <3>3, MemoryStays
  <2> QED
    BY <2>1, <2>2
<1>19. WireInv(c)'
  <2>1. Pending(c)' \subseteq Pending(c)
    BY <1>1, <1>2, <1>9, <1>11 DEF Pending
  <2> QED
    BY <1>1, <1>3, <2>1, IdleWire DEF Pushing
<1>20. AppliesNewer(c)' /\ AppliedIsFed(c)'
  BY <1>1, <1>2, <1>3, <1>15 DEF SideInv, AppliesNewer, AppliedIsFed, At
<1>21. ASSUME NEW i \in Ids PROVE AbsentIsNew(c, i)' /\ BoundToEntry(c, i)'
  <2>1. RowsOn(c, e.id) # {}
    BY <1>7 DEF owed, PendingOn, Pending, RowsOn
  <2> QED
    BY <1>1, <1>2, <1>4, <1>13, <1>14, <1>15, <2>1 DEF AbsentIsNew, BoundToEntry
<1>22. ClientConverges(c)'
  BY <1>18, <1>19, <1>20, <1>21 DEF ClientConverges, SideInv
<1>23. \A d \in Clients \ {c} :
         UNCHANGED <<pass[d], cursor[d], holds[d], applied[d], binding[d], outbox[d], local[d]>>
  BY <1>1, <1>3
<1>24. \A o \in Oids : state'[o] = state[o] \/ o \in Own(c)
  BY <1>5, <1>6, <1>11 DEF Own, OidsAt, owed
<1> QED
  BY <1>1, <1>22, <1>23, <1>24, PassConverges

\* Applying an entry does not make a memory absent, nor leave it so: a deletion
\* is never the first of its memory, and what came before it was handled.
LEMMA AppliedIsThere ==
    ASSUME SafeInv, ConvergeInv, ContiguousInv, NEW c \in Clients, At(c, "apply"),
           Entry(c).op = "tombstone"
    PROVE  local[c][Entry(c).id].state # "absent"
<1> DEFINE i == Entry(c).id
           n == Position(c)
<1>1. n \in 1 .. Len(feed) /\ n = cursor[c] + 1 /\ cursor[c] \in Nat /\ i \in Ids /\ feed[n] = Entry(c)
  BY PositionTypes, ClientFacts DEF Entries, Entry
<1>2. PICK m \in 1 .. n - 1 : feed[m].id = i
  BY <1>1 DEF ConvergeInv, DeletionsFollow
<1>3. m \in 1 .. cursor[c] /\ m \in 1 .. Len(feed) /\ m \in Nat /\ m # 0
  BY <1>1, <1>2
<1>4. Handled(c, m)
  BY <1>3 DEF ContiguousInv, HandledSoFar, At
<1>5. AbsentIsNew(c, i)
  BY <1>1 DEF ConvergeInv, ClientConverges, SideInv
<1> QED
  BY <1>2, <1>3, <1>4, <1>5 DEF AbsentIsNew, Handled, Met

LEMMA AppliesConverges ==
    ASSUME SafeInv, ConvergeInv, ContiguousInv, NoOperationLost, NEW c \in Clients, Apply(c),
           Entry(c).oid \notin applied[c], ~AppliesOverOwed(c),
           \A i \in Ids : ~(Pulls(c, i) /\ KnowsNewer(c, i, Position(c)))
    PROVE  ConvergeInv'
<1> DEFINE e == Entry(c)
           n == Position(c)
           memory == IF e.op # "tombstone" THEN Live(e.val)
                     ELSE IF local[c][e.id].state = "absent" THEN local[c][e.id]
                     ELSE [local[c][e.id] EXCEPT !.state = "deleted"]
<1>1. /\ At(c, "apply") /\ Goto(c, "bind")
      /\ applied' = [applied EXCEPT ![c] = @ \cup {e.oid}]
      /\ local' = [local EXCEPT ![c][e.id] = memory]
      /\ UNCHANGED <<hub, outbox, state, binding, cursor, holds, bounds>>
  BY DEF Apply
<1>2. feed' = feed /\ receipt' = receipt /\ Rows(c)' = Rows(c) /\ Own(c)' = Own(c)
      /\ Position(c)' = Position(c) /\ Pending(c)' = Pending(c)
  BY <1>1 DEF hub, Rows, Own, OidsAt, Position, Pending
<1>3. pass'[c].step = "bind" /\ pass[c].step = "apply" /\ \A d \in Clients \ {c} : pass'[d] = pass[d]
  BY <1>1, PullGoes DEF At, Pulling
<1>4. n \in 1 .. Len(feed) /\ n \in Nat /\ e.id \in Ids /\ e = feed[n]
  BY <1>1, PositionTypes, ClientFacts DEF Entries, Entry
<1>5. /\ applied'[c] = applied[c] \cup {e.oid} /\ \A d \in Clients \ {c} : applied'[d] = applied[d]
      /\ \A d \in Clients \ {c} : local'[d] = local[d]
      /\ \A i \in Ids : local'[c][i] = IF i = e.id THEN memory ELSE local[c][i]
  <2>1. applied'[c] = applied[c] \cup {e.oid} /\ \A d \in Clients \ {c} : applied'[d] = applied[d]
    BY <1>1, ClientFacts DEF TypeOK
  <2>2. local \in [Clients -> [Ids -> Memories]]
    BY ClientFacts DEF TypeOK
  <2> HIDE DEF memory
  <2> QED
    BY <1>1, <1>4, <2>1, <2>2
<1>6. Shows(memory, e) /\ memory.state # "absent"
  <2>1. CASE e.op # "tombstone"
    BY <2>1 DEF Shows, Live
  <2>2. CASE e.op = "tombstone"
    <3>1. local[c][e.id] \in Memories /\ local[c][e.id].state # "absent"
      BY <1>1, <1>4, <2>2, AppliedIsThere, ClientFacts DEF TypeOK
    <3>2. memory.state = "deleted"
      BY <2>2, <3>1 DEF Memories
    <3> QED
      BY <2>2, <3>2 DEF Shows
  <2> QED
    BY <2>1, <2>2
<1> HIDE DEF memory
<1>7. \A k \in Rows(c) : Waits(c, k)' <=> Waits(c, k)
  BY <1>1, <1>2 DEF Waits
<1>8. \A i : RowsOn(c, i)' = RowsOn(c, i) /\ Undecided(c, i)' = Undecided(c, i)
  BY <1>1, <1>2, <1>7, WaitsStay
<1>9. Undecided(c, e.id) = {}
  <2>1. PendingOn(c, e.id) = {}
    BY DEF AppliesOverOwed
  <2> QED
    BY <2>1, RowsOnTypes
<1>10. \A m \in 1 .. Len(feed) : Met(c, m)' => Met(c, m) \/ m = n
  <2> SUFFICES ASSUME NEW m \in 1 .. Len(feed), feed[m].oid = e.oid PROVE m = n
    BY <1>1, <1>2, <1>5 DEF Met
  <2>1. receipt[feed[m].oid].sequence = m /\ receipt[feed[n].oid].sequence = n
    BY <1>4 DEF SafeInv, FeedIsReceipted
  <2> QED
    BY <1>4, <2>1
<1>11. SideInv(c) /\ \A i \in Ids : MemoryInv(c, i) /\ AbsentIsNew(c, i) /\ BoundToEntry(c, i)
  BY DEF ConvergeInv, ClientConverges, SideInv
<1>12. ASSUME NEW m \in 1 .. Len(feed), IsRevision(m, e.id), Met(c, m)
       PROVE  Shows(memory, feed[m])
  <2>1. CASE memory = local[c][e.id]
    BY <1>4, <1>9, <1>11, <1>12, <2>1 DEF MemoryInv, MetIsShown
  <2>2. CASE memory # local[c][e.id] /\ m # n
    <3>1. Pulls(c, e.id)
      BY <1>1, <1>3, <1>4, <1>5, <2>2 DEF Pulls, At
    <3>2. ~(m < n)
      <4>1. m < n => n \in m + 1 .. Len(feed)
        BY <1>4
      <4> QED
        BY <1>4, <1>12, <4>1 DEF IsRevision
    <3>3. m > n /\ feed[m].id = e.id
      BY <1>4, <1>12, <2>2, <3>2 DEF IsRevision
    <3>4. binding[c][e.id].sequence # m
      <4>1. n > binding[c][e.id].sequence
        BY <1>1, <1>11 DEF SideInv, AppliesNewer
      <4> QED
        BY <1>4, <3>3, <4>1, BindingTypes
    <3>5. KnowsNewer(c, e.id, n)
      BY <1>3, <1>4, <1>12, <3>3, <3>4, MetIsKnown DEF At, Pushing
    <3> QED
      BY <1>4, <3>1, <3>5
  <2>3. CASE m = n
    BY <1>4, <1>6, <2>3
  <2> QED
    BY <2>1, <2>2, <2>3
<1>13. ASSUME NEW i \in Ids PROVE MemoryInv(c, i)'
  <2>1. CASE i = e.id
    <3>1. MetIsShown(c, i)'
      BY <1>2, <1>4, <1>5, <1>6, <1>10, <1>12, <2>1 DEF MetIsShown, IsRevision
    <3>2. UnheardIsNew(c, i)'
      BY <1>2, <1>4, <2>1 DEF UnheardIsNew
    <3> QED
      BY <1>8, <1>9, <2>1, <3>1, <3>2
         DEF MemoryInv, UndecidedComeLast, LastIsShown, RestoresFollow, FirstFits, First
  <2>2. CASE i # e.id
    <3>1. Len(feed) \in Nat
      BY ClientFacts
    <3> QED
      BY <1>1, <1>2, <1>4, <1>5, <1>8, <1>10, <1>11, <2>2, <3>1, MemoryStays
  <2> QED
    BY <2>1, <2>2
<1>14. WireInv(c)'
  BY <1>1, <1>2, <1>3, IdleWire DEF Pushing
<1>15. AppliesNewer(c)'
  BY <1>3 DEF AppliesNewer, At
<1>16. AppliedIsFed(c)'
  BY <1>2, <1>4, <1>5, <1>11 DEF SideInv, AppliedIsFed
<1>17. ASSUME NEW i \in Ids PROVE AbsentIsNew(c, i)' /\ BoundToEntry(c, i)'
  BY <1>1, <1>2, <1>4, <1>5, <1>6, <1>8, <1>10, <1>11 DEF AbsentIsNew, BoundToEntry
<1>18. ClientConverges(c)'
  BY <1>13, <1>14, <1>15, <1>16, <1>17 DEF ClientConverges, SideInv
<1>19. \A d \in Clients \ {c} :
         UNCHANGED <<pass[d], cursor[d], holds[d], applied[d], binding[d], outbox[d], local[d]>>
  BY <1>1, <1>3, <1>5
<1> QED
  BY <1>1, <1>18, <1>19, PassConverges

LEMMA ApplyConverges ==
    ASSUME SafeInv, ConvergeInv, ContiguousInv, NoOperationLost, NEW c \in Clients, Apply(c),
           ~AppliesOverOwed(c),
           \A i \in Ids : ~(Pulls(c, i) /\ KnowsNewer(c, i, Position(c)))
    PROVE  ConvergeInv'
<1>1. CASE Entry(c).oid \notin applied[c]
  BY <1>1, AppliesConverges
<1>2. CASE Entry(c).oid \in applied[c]
  <2>1. /\ At(c, "apply") /\ Goto(c, "bind")
        /\ UNCHANGED <<hub, local, outbox, state, binding, cursor, holds, applied, bounds>>
    BY <1>2 DEF Apply
  <2>2. feed' = feed /\ receipt' = receipt /\ Rows(c)' = Rows(c) /\ Own(c)' = Own(c)
        /\ Position(c)' = Position(c) /\ Pending(c)' = Pending(c)
    BY <2>1 DEF hub, Rows, Own, OidsAt, Position, Pending
  <2>3. pass'[c].step = "bind" /\ pass[c].step = "apply" /\ \A d \in Clients \ {c} : pass'[d] = pass[d]
    BY <2>1, PullGoes DEF At, Pulling
  <2>4. \A k \in Rows(c) : Waits(c, k)' <=> Waits(c, k)
    BY <2>1, <2>2 DEF Waits
  <2>5. \A n \in 1 .. Len(feed) : Met(c, n)' => Met(c, n)
    BY <1>2, <2>1, <2>2 DEF Met, Entry
  <2>6. WireInv(c)'
    BY <2>1, <2>2, <2>3, IdleWire DEF Pushing
  <2>7. \A i \in Ids : AbsentIsNew(c, i) /\ BoundToEntry(c, i)
    BY DEF ConvergeInv, ClientConverges, SideInv
  <2>8. \A i \in Ids : /\ BoundToEntry(c, i)'
                       /\ local[c][i].state = "absent" =>
                             /\ binding'[c][i].sequence = 0
                             /\ \A n \in 1 .. Len(feed) : feed[n].id = i => n \notin holds'[c]
    BY <2>1, <2>2, <2>7 DEF BoundToEntry, AbsentIsNew
  <2>9. AppliesNewer(c)'
    BY <2>3 DEF AppliesNewer, At
  <2> QED
    BY <2>1, <2>3, <2>4, <2>5, <2>6, <2>8, <2>9, QuietConverges
<1> QED
  BY <1>1, <1>2

\* The row a request is at is undecided, and the first of its memory.
LEMMA AskedIsFirst ==
    ASSUME SafeInv, ConvergeInv, NEW c \in Clients, At(c, "sent")
    PROVE  /\ Waits(c, Turn(c)) /\ First(Turn(c), Undecided(c, Asked(c).id))
           /\ receipt[Asked(c).oid].disposition = "none"
<1> DEFINE t == Turn(c)
           i == Asked(c).id
<1>1. /\ t \in pass[c].wire /\ t \in Rest(c) /\ t \in Rows(c) /\ t \in Nat /\ t > pass[c].done
      /\ Asked(c) = outbox[c][t] /\ i \in Ids
  BY AskedFacts DEF At, Pushing
<1>2. t \in Pending(c)
  BY <1>1, ClientFacts DEF WireIsOwed, At
<1>3. SideInv(c) /\ pass[c].done \in Nat /\ pass[c].wire \in SUBSET Nat
  BY ClientFacts DEF ConvergeInv, ClientConverges
<1>4. Waits(c, t)
  <2>1. ~(t <= pass[c].done)
    BY <1>1, <1>3
  <2> QED
    BY <1>2, <1>3, <2>1 DEF SideInv, WireInv, AnswersAreDue, At
<1>5. t \in Undecided(c, i)
  BY <1>1, <1>4 DEF Undecided, RowsOn
<1>6. ASSUME NEW j \in Undecided(c, i), j < t PROVE FALSE
  <2>1. j \in PendingOn(c, i) /\ j \in Nat /\ Waits(c, j)
    BY RowsOnTypes DEF Undecided
  <2>2. j \in pass[c].wire
    BY <1>1, <1>3, <1>6, <2>1 DEF SideInv, WireInv, WireFromTheOldest, At
  <2>3. ~(j <= pass[c].done)
    BY <2>1, <2>2, ClientFacts DEF WireIsOwed, Waits
  <2>4. j \in Rest(c)
    BY <1>3, <2>1, <2>2, <2>3 DEF Rest
  <2>5. t <= j
    BY <1>1, <1>3, <2>4, TurnIsFirst
  <2> QED
    BY <1>1, <1>6, <2>1, <2>5
<1>7. \A j \in Undecided(c, i) : j \in Nat
  BY RowsOnTypes
<1> QED
  BY <1>1, <1>4, <1>5, <1>6, <1>7 DEF First, Waits

\* The first undecided row is decided: by its entry, which then is the hub's
\* revision, or against it, which the hub does only over a revision that the
\* client has not met.
LEMMA DecidedMemory ==
    ASSUME SafeInv, NEW c \in Clients, NEW i \in Ids, MemoryInv(c, i), NEW t,
           First(t, Undecided(c, i)), Undecided(c, i)' = Undecided(c, i) \ {t},
           UNCHANGED <<outbox, local>>,
           \E n \in 1 .. Len(feed') : feed'[n].id = i,
           \A n \in 1 .. Len(feed') : IsRevision(n, i)' /\ Met(c, n)' =>
              feed'[n].op = outbox[c][t].op /\ feed'[n].val = outbox[c][t].val
    PROVE  MemoryInv(c, i)'
<1>1. /\ RowsOn(c, i)' = RowsOn(c, i) /\ RowsOn(c, i) \in SUBSET Nat
      /\ Undecided(c, i) \subseteq RowsOn(c, i) /\ t \in Undecided(c, i)
  <2>1. RowsOn(c, i)' = RowsOn(c, i)
    BY DEF RowsOn, Rows
  <2> QED
    BY <2>1, RowsOnTypes DEF First
<1>2. \A k \in RowsOn(c, i) : t < k => k \in Undecided(c, i)'
  BY <1>1 DEF MemoryInv, UndecidedComeLast
<1>3. UndecidedComeLast(c, i)'
  <2> SUFFICES ASSUME NEW j \in Undecided(c, i)', NEW k \in RowsOn(c, i), j < k
               PROVE  k \in Undecided(c, i)'
    BY <1>1 DEF UndecidedComeLast
  <2>1. t <= j /\ j \in Nat /\ t \in Nat /\ k \in Nat
    BY <1>1 DEF First
  <2> QED
    BY <1>2, <2>1
<1>4. LastIsShown(c, i)' /\ RestoresFollow(c, i)'
  BY <1>1 DEF MemoryInv, LastIsShown, RestoresFollow
<1>5. FirstFits(c, i)'
  <2> SUFFICES ASSUME NEW k, First(k, Undecided(c, i)'), outbox[c][k].op = "upsert"
               PROVE  outbox[c][t].op # "tombstone"
    BY DEF FirstFits, First
  <2>1. k \in Undecided(c, i) /\ k \in RowsOn(c, i) /\ k \in Nat /\ t \in Nat /\ k # t /\ t <= k
    BY <1>1 DEF First
  <2>2. \A l \in RowsOn(c, i) : l <= t \/ k <= l
    <3> SUFFICES ASSUME NEW l \in RowsOn(c, i), t < l PROVE k <= l
      BY <1>1
    <3> QED
      BY <1>2 DEF First
  <2>3. t < k
    BY <2>1
  <2> QED
    BY <1>1, <2>1, <2>2, <2>3 DEF MemoryInv, RestoresFollow
<1>6. MetIsShown(c, i)'
  <2> SUFFICES ASSUME Undecided(c, i)' = {} PROVE Shows(local[c][i], outbox[c][t])
    BY DEF MetIsShown, Shows
  <2>1. \A k \in RowsOn(c, i) : k <= t
    BY <1>1, <1>2
  <2> QED
    BY <1>1, <2>1 DEF MemoryInv, LastIsShown
<1>7. UnheardIsNew(c, i)'
  BY DEF UnheardIsNew
<1> QED
  BY <1>3, <1>4, <1>5, <1>6, <1>7 DEF MemoryInv

\* What the hub refuses, it refuses over a revision that the client has not met.
LEMMA StaleIsUnmet ==
    ASSUME SafeInv, ConvergeInv, NEW c \in Clients, At(c, "sent"), Stale(Asked(c)),
           NEW n \in 1 .. Len(feed), IsRevision(n, Asked(c).id), Met(c, n)
    PROVE  FALSE
<1> DEFINE t == Turn(c)
           i == Asked(c).id
<1>1. /\ t \in pass[c].wire /\ t \in Rows(c) /\ t > pass[c].done
      /\ Asked(c) = outbox[c][t] /\ i \in Ids
  BY AskedFacts DEF At, Pushing
<1>2. First(t, Undecided(c, i))
  BY AskedIsFirst
<1>3. CASE Asked(c).op = "upsert"
  <2>1. PICK m \in 1 .. Len(feed) : IsDeletion(m, i)
    BY <1>3 DEF Stale, HubDeleted
  <2>2. m = n
    <3>1. ~(m < n) /\ ~(n < m)
      <4>1. /\ m < n => n \in m + 1 .. Len(feed)
            /\ n < m => m \in n + 1 .. Len(feed)
        BY ClientFacts
      <4> QED
        BY <2>1, <4>1 DEF IsDeletion, IsRevision
    <3> QED
      BY <3>1
  <2>3. FirstFits(c, i)
    BY <1>1 DEF ConvergeInv, ClientConverges, MemoryInv
  <2> QED
    BY <1>1, <1>2, <1>3, <2>1, <2>2, <2>3 DEF FirstFits, IsDeletion
<1>4. CASE Asked(c).op = "restore"
  <2>1. n = Asked(c).seen
    BY <1>1, <1>4 DEF ConvergeInv, ClientConverges, SideInv, WireInv, RestoreFits, At
  <2>2. Deletes(Asked(c).seen, i)
    BY <1>1, <1>4, ClientFacts DEF WireIsOwed, DeletionsKnown
  <2> QED
    BY <1>4, <2>1, <2>2 DEF Stale, IsDeletion, Deletes
<1> QED
  BY <1>3, <1>4 DEF Stale

\* What it refuses is about a memory it has heard of.
LEMMA StaleIsHeard ==
    ASSUME SafeInv, NEW c \in Clients, At(c, "sent"), Stale(Asked(c))
    PROVE  \E n \in 1 .. Len(feed) : feed[n].id = Asked(c).id
<1>1. Turn(c) \in pass[c].wire /\ Turn(c) \in Rows(c) /\ Asked(c) = outbox[c][Turn(c)]
  BY AskedFacts DEF At, Pushing
<1>2. CASE Asked(c).op = "upsert"
  BY <1>2 DEF Stale, HubDeleted, IsDeletion, IsRevision
<1>3. CASE Asked(c).op = "restore"
  <2>1. Deletes(Asked(c).seen, Asked(c).id)
    BY <1>1, <1>3, ClientFacts DEF WireIsOwed, DeletionsKnown
  <2> QED
    BY <2>1 DEF Deletes
<1> QED
  BY <1>2, <1>3 DEF Stale

\* The request goes on: what is left of it, and what is due, fit what was
\* decided.
LEMMA AnsweredDue ==
    ASSUME SafeInv, ConvergeInv, NEW c \in Clients, At(c, "sent"), Answered(c),
           UNCHANGED <<outbox, state>>,
           \A k \in Rows(c) : Waits(c, k)' <=> Waits(c, k) /\ k # Turn(c)
    PROVE  /\ AnswersAreDue(c)' /\ WireFromTheOldest(c)' /\ PreparedIsSent(c)'
           /\ pass'[c].step \in {"sent", "answered"} /\ pass'[c].wire = pass[c].wire
           /\ pass'[c].step = "sent" => pass'[c].done = Turn(c)
           /\ \A d \in Clients \ {c} : pass'[d] = pass[d]
<1>1. pass \in [Clients -> Passes] /\ pass[c] \in Passes /\ pass[c].done \in Nat
      /\ pass[c].wire \in SUBSET Nat
  BY ClientFacts DEF TypeOK
<1>2. /\ \/ pass'[c].step = "sent" /\ pass'[c].done = Turn(c)
         \/ pass'[c].step = "answered" /\ pass'[c].done = 0
      /\ pass'[c].wire = pass[c].wire
      /\ \A d \in Clients \ {c} : pass'[d] = pass[d]
  <2>1. CASE Rest(c) # {Turn(c)}
    <3>1. pass' = [pass EXCEPT ![c] = [pass[c] EXCEPT !.done = Turn(c)]]
      BY <1>1, <2>1 DEF Answered
    <3>2. pass[c].step = "sent"
      BY DEF At
    <3> QED
      BY <1>1, <3>1, <3>2 DEF Passes
  <2>2. CASE Rest(c) = {Turn(c)}
    <3>1. pass' = [pass EXCEPT ![c] = [pass[c] EXCEPT !.step = "answered", !.done = 0]]
      BY <1>1, <2>2 DEF Answered
    <3> QED
      BY <1>1, <3>1 DEF Passes
  <2> QED
    BY <2>1, <2>2
<1>3. /\ Turn(c) \in pass[c].wire /\ Turn(c) > pass[c].done /\ Turn(c) \in Nat
      /\ pass[c].wire \subseteq Rows(c)
  BY AskedFacts, ClientFacts DEF At, Pushing, WireIsOwed
<1>4. Rows(c)' = Rows(c) /\ Pending(c)' = Pending(c) /\ Pending(c) \subseteq Rows(c)
      /\ \A i : PendingOn(c, i)' = PendingOn(c, i)
  BY DEF Rows, Pending, PendingOn
<1>5. SideInv(c)
  BY DEF ConvergeInv, ClientConverges
<1>6. AnswersAreDue(c)'
  <2> SUFFICES ASSUME NEW k \in Pending(c), ~Waits(c, k)'
               PROVE  k \in pass[c].wire /\ k <= Turn(c) /\ k > 0
    BY <1>2, <1>4 DEF AnswersAreDue
  <2>1. k \in Nat /\ k > 0
    BY <1>4 DEF Rows
  <2>2. CASE k = Turn(c)
    BY <1>3, <2>1, <2>2
  <2>3. CASE k # Turn(c)
    <3>1. ~Waits(c, k)
      BY <1>4, <2>3
    <3>2. k \in pass[c].wire /\ k <= pass[c].done
      BY <1>5, <3>1 DEF SideInv, WireInv, AnswersAreDue, At
    <3> QED
      BY <1>1, <1>3, <2>1, <3>2
  <2> QED
    BY <2>2, <2>3
<1>7. WireFromTheOldest(c)' /\ PreparedIsSent(c)'
  BY <1>2, <1>4, <1>5 DEF SideInv, WireInv, WireFromTheOldest, PreparedIsSent, At
<1> QED
  BY <1>2, <1>6, <1>7

\* The client whose operation is decided, however the hub decides.
LEMMA AnsweredConverges ==
    ASSUME SafeInv, ConvergeInv, NEW c \in Clients, At(c, "sent"), Answered(c),
           UNCHANGED <<store, bounds>>,
           NEW r, r = Turn(c), NEW j, j = Asked(c).id,
           \A k \in Rows(c) : Waits(c, k)' <=> Waits(c, k) /\ k # r,
           Len(feed') \in Nat, Len(feed') >= Len(feed),
           \A n \in 1 .. Len(feed) : feed'[n] = feed[n],
           \A n \in 1 .. Len(feed') : n \in 1 .. Len(feed) \/ feed'[n].id = j,
           \E n \in 1 .. Len(feed') : feed'[n].id = j,
           \A n \in 1 .. Len(feed') : IsRevision(n, j)' /\ Met(c, n)' =>
              feed'[n].op = outbox[c][r].op /\ feed'[n].val = outbox[c][r].val
    PROVE  ClientConverges(c)'
<1>1. UNCHANGED <<local, outbox, state, binding, cursor, holds, applied>>
  BY DEF store
<1>2. /\ r \in pass[c].wire /\ r \in Rows(c) /\ r > pass[c].done /\ r \in Nat /\ pass[c].done \in Nat
      /\ outbox[c][r].id = j /\ j \in Ids
  BY AskedFacts, ClientFacts DEF At, Pushing
<1>3. /\ AnswersAreDue(c)' /\ WireFromTheOldest(c)' /\ PreparedIsSent(c)'
      /\ pass'[c].step \in {"sent", "answered"} /\ pass'[c].wire = pass[c].wire
      /\ pass'[c].step = "sent" => pass'[c].done = r
  BY <1>1, AnsweredDue
<1>4. First(r, Undecided(c, j))
  BY AskedIsFirst
<1>5. Rows(c)' = Rows(c) /\ Own(c)' = Own(c)
  BY <1>1 DEF Rows, Own, OidsAt
<1>6. \A l : RowsOn(c, l)' = RowsOn(c, l) /\ Undecided(c, l)' = Undecided(c, l) \ {r}
  <2>1. \A l : RowsOn(c, l)' = RowsOn(c, l) /\ RowsOn(c, l) \subseteq Rows(c)
    BY <1>1, <1>5 DEF RowsOn
  <2> QED
    BY <2>1 DEF Undecided
<1>7. r \in RowsOn(c, j) /\ \A l : l # j => r \notin RowsOn(c, l)
  BY <1>2 DEF RowsOn
<1>8. \A n \in 1 .. Len(feed) : Met(c, n)' => Met(c, n)
  BY <1>1, <1>3, <1>5 DEF Met, At
<1>9. SideInv(c) /\ \A l \in Ids : MemoryInv(c, l) /\ AbsentIsNew(c, l) /\ BoundToEntry(c, l)
  BY DEF ConvergeInv, ClientConverges, SideInv
<1>10. ASSUME NEW l \in Ids PROVE MemoryInv(c, l)'
  <2>1. CASE l = j
    BY <1>1, <1>2, <1>4, <1>6, <1>9, <2>1, DecidedMemory
  <2>2. CASE l # j
    <3>1. r \notin Undecided(c, l)
      BY <1>7, <2>2 DEF Undecided
    <3>2. Undecided(c, l)' = Undecided(c, l)
      BY <1>6, <3>1
    <3>3. \A n \in 1 .. Len(feed') : feed'[n].id = l /\ Met(c, n)' => n \in 1 .. Len(feed) /\ Met(c, n)
      BY <1>8, <2>2
    <3> QED
      BY <1>1, <1>6, <1>9, <3>2, <3>3, MemoryStays
  <2> QED
    BY <2>1, <2>2
<1>11. RestoreFits(c)'
  <2> SUFFICES ASSUME pass'[c].step = "sent", NEW k \in pass[c].wire, k > r, outbox[c][k].op = "restore"
               PROVE  /\ \A l \in Undecided(c, outbox[c][k].id)' : k <= l
                      /\ \A n \in 1 .. Len(feed') :
                            IsRevision(n, outbox[c][k].id)' /\ Met(c, n)' => n = outbox[c][k].seen
    BY <1>1, <1>3 DEF RestoreFits
  <2>1. pass[c].step = "sent" /\ k > pass[c].done /\ k \in Rows(c) /\ k \in Nat /\ r \in Nat
    BY <1>2, ClientFacts DEF At, WireIsOwed, Rows
  <2>2. /\ \A l \in Undecided(c, outbox[c][k].id) : k <= l
        /\ \A n \in 1 .. Len(feed) :
              IsRevision(n, outbox[c][k].id) /\ Met(c, n) => n = outbox[c][k].seen
    BY <1>9, <2>1 DEF SideInv, WireInv, RestoreFits
  <2>3. outbox[c][k].id # j
    BY <1>4, <2>1, <2>2 DEF First
  <2>4. \A n \in 1 .. Len(feed') : IsRevision(n, outbox[c][k].id)' =>
            n \in 1 .. Len(feed) /\ IsRevision(n, outbox[c][k].id)
    <3> SUFFICES ASSUME NEW n \in 1 .. Len(feed'), IsRevision(n, outbox[c][k].id)'
                 PROVE  n \in 1 .. Len(feed) /\ IsRevision(n, outbox[c][k].id)
      OBVIOUS
    <3>1. n \in 1 .. Len(feed)
      BY <1>1, <2>3 DEF IsRevision
    <3> QED
      BY <1>1, <3>1, OldRevision
  <2> QED
    BY <1>1, <1>6, <1>8, <2>2, <2>4
<1>12. AppliesNewer(c)' /\ AppliedIsFed(c)'
  <2>1. \A n \in 1 .. Len(feed) : n \in 1 .. Len(feed')
    BY ClientFacts
  <2> QED
    BY <1>1, <1>3, <1>9, <2>1 DEF SideInv, AppliesNewer, AppliedIsFed, At
<1>13. ASSUME NEW l \in Ids PROVE AbsentIsNew(c, l)' /\ BoundToEntry(c, l)'
  <2>1. AbsentIsNew(c, l)'
    <3> SUFFICES ASSUME local[c][l].state = "absent" PROVE AbsentIsNew(c, l)'
      BY <1>1 DEF AbsentIsNew
    <3>1. l # j
      BY <1>7, <1>9 DEF AbsentIsNew
    <3> QED
      BY <1>1, <1>6, <1>8, <1>9, <3>1 DEF AbsentIsNew
  <2>2. BoundToEntry(c, l)'
    BY <1>1, <1>9, BindingTypes DEF BoundToEntry
  <2> QED
    BY <2>1, <2>2
<1> QED
  BY <1>3, <1>10, <1>11, <1>12, <1>13 DEF ClientConverges, SideInv, WireInv

LEMMA ImportConverges ==
    ASSUME SafeInv, ConvergeInv, NEW c \in Clients, Import(c)
    PROVE  ConvergeInv'
<1> DEFINE o == Asked(c)
<1>1. At(c, "sent") /\ Answered(c) /\ UNCHANGED <<store, bounds>>
  BY DEF Import
<1>2. receipt[o.oid].disposition = "none" /\ Waits(c, Turn(c))
  BY <1>1, AskedIsFirst
<1>3. /\ Turn(c) \in Rows(c) /\ o = outbox[c][Turn(c)] /\ o.oid \in Oids /\ o.oid \in Own(c)
      /\ o.id \in Ids
      /\ \A k \in Rows(c) : k # Turn(c) => outbox[c][k].oid # o.oid
  BY <1>1, AskedFacts DEF At, Pushing
<1>4. UNCHANGED <<local, outbox, state, binding, cursor, holds, applied>>
  BY <1>1 DEF store
<1>5. /\ Len(feed) \in Nat /\ Len(feed') \in Nat /\ Len(feed') >= Len(feed)
      /\ \A n \in 1 .. Len(feed) : feed'[n] = feed[n]
      /\ \A n \in 1 .. Len(feed') : n \in 1 .. Len(feed) \/
            (feed'[n] = EntryOf(o) /\ \A m \in 1 .. Len(feed) : feed[m].oid # feed'[n].oid)
      /\ \A p \in Oids : p # o.oid => receipt'[p] = receipt[p]
      /\ receipt'[o.oid].disposition # "none"
  <2>1. CASE UNCHANGED feed /\ receipt' = [receipt EXCEPT ![o.oid].disposition = "rejected_stale"]
    <3>1. receipt \in [Oids -> Receipts] /\ Len(feed) \in Nat
      BY ClientFacts DEF TypeOK
    <3>2. receipt'[o.oid].disposition = "rejected_stale"
      <4>1. receipt[o.oid] \in Receipts
        BY <1>3, <3>1
      <4> QED
        BY <1>3, <2>1, <3>1, <4>1 DEF Receipts
    <3> QED
      BY <1>3, <2>1, <3>1, <3>2
  <2>2. CASE /\ feed' = Append(feed, EntryOf(o))
             /\ receipt' = [receipt EXCEPT ![o.oid] =
                  [disposition |-> "accepted", sequence |-> Len(feed) + 1]]
    <3>1. /\ Len(feed') = Len(feed) + 1 /\ \A n \in 1 .. Len(feed) : feed'[n] = feed[n]
          /\ feed'[Len(feed) + 1] = EntryOf(o) /\ EntryOf(o).oid = o.oid
          /\ \A n \in 1 .. Len(feed) : feed[n].oid # o.oid
      BY <1>1, <1>2, <2>2, AcceptedHub
    <3>2. Len(feed) \in Nat /\ receipt \in [Oids -> Receipts]
      BY ClientFacts DEF TypeOK
    <3>3. \A n \in 1 .. Len(feed') : n \in 1 .. Len(feed) \/ n = Len(feed) + 1
      BY <3>1, <3>2
    <3>4. /\ \A p \in Oids : p # o.oid => receipt'[p] = receipt[p]
          /\ receipt'[o.oid].disposition # "none"
      BY <1>3, <2>2, <3>2
    <3> QED
      BY <3>1, <3>2, <3>3, <3>4
  <2> QED
    BY <1>2, <2>1, <2>2 DEF Import
<1>6. EntryOf(o).id = o.id /\ EntryOf(o).oid = o.oid /\ EntryOf(o).op = o.op /\ EntryOf(o).val = o.val
  BY DEF EntryOf
<1>7. \A k \in Rows(c) : Waits(c, k)' <=> Waits(c, k) /\ k # Turn(c)
  <2> SUFFICES ASSUME NEW k \in Rows(c) PROVE Waits(c, k)' <=> Waits(c, k) /\ k # Turn(c)
    OBVIOUS
  <2>1. outbox[c][k].oid \in Oids
    BY RowTypes, ClientFacts
  <2> QED
    BY <1>3, <1>4, <1>5, <2>1 DEF Waits
<1>8. (feed' = feed /\ Stale(o)) \/ (~Stale(o) /\ feed' = Append(feed, EntryOf(o)))
  BY <1>2 DEF Import
<1>9. pass'[c].step \in {"sent", "answered"} /\ \A d \in Clients \ {c} : pass'[d] = pass[d]
  BY <1>1, <1>4, <1>7, AnsweredDue
<1>10. \A n \in 1 .. Len(feed) : Met(c, n)' => Met(c, n)
  BY <1>4, <1>5, <1>9 DEF Met, At, Own, OidsAt, Rows
<1>11. PICK j : j = o.id
  OBVIOUS
<1>12. PICK r : r = Turn(c)
  OBVIOUS
<1>13. \E n \in 1 .. Len(feed') : feed'[n].id = j
  <2>1. CASE feed' = feed /\ Stale(o)
    BY <1>1, <1>11, <2>1, StaleIsHeard
  <2>2. CASE feed' = Append(feed, EntryOf(o))
    <3>1. Len(feed) + 1 \in 1 .. Len(feed') /\ feed'[Len(feed) + 1] = EntryOf(o)
      BY <2>2, ClientFacts DEF TypeOK
    <3> QED
      BY <1>6, <1>11, <3>1
  <2> QED
    BY <1>8, <2>1, <2>2
<1>14. \A n \in 1 .. Len(feed') : IsRevision(n, j)' /\ Met(c, n)' =>
          feed'[n].op = outbox[c][r].op /\ feed'[n].val = outbox[c][r].val
  <2> SUFFICES ASSUME NEW n \in 1 .. Len(feed'), IsRevision(n, j)', Met(c, n)'
               PROVE  feed'[n].op = o.op /\ feed'[n].val = o.val
    BY <1>3, <1>12
  <2>1. CASE feed' = feed /\ Stale(o)
    <3>1. IsRevision(n, j) /\ Met(c, n)
      BY <1>10, <2>1 DEF IsRevision
    <3> QED
      BY <1>1, <1>11, <2>1, <3>1, StaleIsUnmet
  <2>2. CASE feed' = Append(feed, EntryOf(o))
    <3>1. /\ Len(feed') = Len(feed) + 1 /\ Len(feed) \in Nat
          /\ feed'[Len(feed) + 1] = EntryOf(o)
      BY <2>2, ClientFacts DEF TypeOK
    <3>2. n < Len(feed) + 1 => Len(feed) + 1 \in n + 1 .. Len(feed')
      BY <3>1
    <3>3. n = Len(feed) + 1
      BY <1>6, <1>11, <3>1, <3>2 DEF IsRevision
    <3> QED
      BY <1>6, <3>1, <3>3
  <2> QED
    BY <1>8, <2>1, <2>2
<1>15. ClientConverges(c)'
  <2>1. \A n \in 1 .. Len(feed') : n \in 1 .. Len(feed) \/ feed'[n].id = j
    BY <1>5, <1>6, <1>11
  <2>2. \A k \in Rows(c) : Waits(c, k)' <=> Waits(c, k) /\ k # r
    BY <1>7, <1>12
  <2> QED
    BY <1>1, <1>5, <1>11, <1>12, <1>13, <1>14, <2>1, <2>2, AnsweredConverges
<1>16. ASSUME NEW d \in Clients, d # c PROVE ClientConverges(d)'
  <2>1. o.oid \notin Own(d)
    BY <1>3, <1>16 DEF SafeInv, Apart, Own, OidsAt
  <2>2. \A k \in Rows(d) : UNCHANGED <<state[outbox[d][k].oid], receipt[outbox[d][k].oid]>>
    <3> SUFFICES ASSUME NEW k \in Rows(d) PROVE receipt'[outbox[d][k].oid] = receipt[outbox[d][k].oid]
      BY <1>4
    <3>1. outbox[d][k].oid \in Oids /\ outbox[d][k].oid # o.oid
      BY <2>1, RowTypes, ClientFacts DEF Own, OidsAt
    <3> QED
      BY <1>5, <3>1
  <2>3. UNCHANGED <<pass[d], cursor[d], holds[d], applied[d], binding[d], outbox[d], local[d]>>
    BY <1>4, <1>9, <1>16
  <2>4. \A n \in 1 .. Len(feed') : n \in 1 .. Len(feed) \/
            (feed'[n].id \in Ids /\ feed'[n].oid \notin Own(d)
             /\ \A m \in 1 .. Len(feed) : feed[m].oid # feed'[n].oid)
    BY <1>3, <1>5, <1>6, <2>1
  <2> QED
    BY <1>5, <2>2, <2>3, <2>4, OthersConverge
<1>17. DeletionsFollow'
  <2> SUFFICES ASSUME NEW n \in 1 .. Len(feed'), feed'[n].op = "tombstone"
               PROVE  \E m \in 1 .. n - 1 : feed'[m].id = feed'[n].id
    BY DEF DeletionsFollow
  <2>1. CASE n \in 1 .. Len(feed)
    <3>1. PICK m \in 1 .. n - 1 : feed[m].id = feed[n].id
      BY <1>5, <2>1 DEF ConvergeInv, DeletionsFollow
    <3>2. m \in 1 .. Len(feed)
      BY <1>5, <2>1
    <3> QED
      BY <1>5, <2>1, <3>1, <3>2
  <2>2. CASE n \notin 1 .. Len(feed)
    <3>1. feed'[n].id = o.id /\ o.op = "tombstone" /\ n > Len(feed) /\ n \in Nat
      BY <1>5, <1>6, <2>2
    <3>2. UnheardIsNew(c, o.id) /\ First(Turn(c), Undecided(c, o.id))
      BY <1>1, <1>3, AskedIsFirst DEF ConvergeInv, ClientConverges, MemoryInv
    <3>3. PICK m \in 1 .. Len(feed) : feed[m].id = o.id
      BY <1>3, <3>1, <3>2 DEF UnheardIsNew
    <3>4. m \in 1 .. n - 1
      BY <1>5, <3>1
    <3> QED
      BY <1>5, <3>1, <3>3, <3>4
  <2> QED
    BY <2>1, <2>2
<1> QED
  BY <1>15, <1>16, <1>17 DEF ConvergeInv

--------------------------------------------------------------------------------
\* Whatever goes wrong is on record.
LEMMA FaultsAreKept ==
    ASSUME SafeInv, Next
    PROVE  /\ faults' = faults \/ \E kind \in Faults : faults' = Append(faults, kind)
           /\ \A c \in Clients : LoseAnswer(c) => faults' = Append(faults, "lost")
           /\ \A c \in Clients : Crash(c) => faults' = Append(faults, "killed")
<1>1. ASSUME NEW c \in Clients, Command(c) PROVE faults' = faults
  BY <1>1 DEF Command, Write, Delete, Restore, Journal
<1>2. ASSUME NEW c \in Clients, Proceed(c) PROVE faults' = faults
  BY <1>2 DEF Proceed, Rewind, Page, ResolveOwn, ResolveSuperseded, ResolveUpstream, ResolvePending,
              ResolveApply, Apply, Bind, Advance, Send, PassDone, Import, Record, RecordBinding, bounds
<1>3. ASSUME NEW c \in Clients, NEW legs \in Legs, Open(c, legs) PROVE faults' = faults
  BY <1>3 DEF Open, bounds
<1>4. \A c \in Clients :
         /\ Stall(c) => \E kind \in Faults : faults' = Append(faults, kind)
         /\ LoseAnswer(c) => "lost" \in Faults /\ faults' = Append(faults, "lost")
         /\ Crash(c) => "killed" \in Faults /\ faults' = Append(faults, "killed")
  BY DEF Stall, LoseAnswer, Crash, Fault
<1> QED
  BY <1>1, <1>2, <1>3, <1>4 DEF Next

\* An exchange that is undisturbed after a step was so before it, and the step
\* is none of those that disturb it.
LEMMA StaysUndisturbed ==
    ASSUME SafeInv, ConvergeNext, Undisturbed'
    PROVE  Undisturbed /\ ~Strays /\ Next /\ \A c \in Clients : ~LoseAnswer(c) /\ ~Crash(c)
<1>1. Next /\ ~strayed /\ ~Strays
  BY Zenon DEF ConvergeNext, Undisturbed
<1>2. \A k \in 1 .. Len(faults') : faults'[k] = "stalled"
  BY Zenon DEF Undisturbed
<1>3. faults \in Seq(Faults) /\ Len(faults) \in Nat
  BY DEF SafeInv, TypeOK
<1>4. \A kind : faults' = Append(faults, kind) =>
         /\ \A k \in 1 .. Len(faults) : k \in 1 .. Len(faults') /\ faults'[k] = faults[k]
         /\ Len(faults) + 1 \in 1 .. Len(faults') /\ faults'[Len(faults) + 1] = kind
  BY <1>3
<1>5. \A k \in 1 .. Len(faults) : faults[k] = "stalled"
  BY <1>1, <1>2, <1>4, FaultsAreKept
<1>6. \A c \in Clients : ~LoseAnswer(c) /\ ~Crash(c)
  BY <1>1, <1>2, <1>4, FaultsAreKept
<1> QED
  BY <1>1, <1>5, <1>6 DEF Undisturbed

LEMMA ConvergeStutters ==
    ASSUME SafeInv, ConvergeInv, UNCHANGED vars
    PROVE  ConvergeInv'
<1>1. UNCHANGED <<feed, receipt, local, outbox, state, binding, cursor, holds, applied, pass>>
  BY DEF vars, hub, store
<1>2. ASSUME NEW d \in Clients PROVE ClientConverges(d)'
  BY <1>1, ClientFacts, OthersConverge
<1>3. DeletionsFollow'
  BY <1>1 DEF ConvergeInv, DeletionsFollow
<1> QED
  BY <1>2, <1>3 DEF ConvergeInv

\* A step that does not stray keeps what an undisturbed exchange rests on.
LEMMA ConvergeStep ==
    ASSUME SafeInv, NoOperationLost, ContiguousInv, ConvergeInv, Next, ~Strays,
           \A c \in Clients : ~LoseAnswer(c) /\ ~Crash(c)
    PROVE  ConvergeInv'
<1>1. ASSUME NEW c \in Clients
      PROVE  /\ ~SettlesOlder(c) /\ ~NamesOlder(c) /\ ~AppliesOverOwed(c) /\ ~Resaves(c)
             /\ \A i \in Ids : ~(Pulls(c, i) /\ KnowsNewer(c, i, Position(c)))
  BY DEF Strays
<1>2. ASSUME NEW c \in Clients, Command(c) PROVE ConvergeInv'
  BY <1>1, <1>2, CommandConverges
<1>3. ASSUME NEW c \in Clients, Proceed(c) PROVE ConvergeInv'
  <2>1. CASE Rewind(c) \/ Page(c) \/ ResolveSuperseded(c) \/ ResolveApply(c) \/ Advance(c) \/ PassDone(c)
    BY <2>1, MovingConverges
  <2>2. CASE ResolveOwn(c) \/ ResolvePending(c) \/ Bind(c)
    BY <2>2, ResolveOwnConverges, ResolvePendingConverges, BindConverges
  <2>3. CASE ResolveUpstream(c)
    BY <1>1, <2>3, ResolveUpstreamConverges
  <2>4. CASE Apply(c)
    BY <1>1, <2>4, ApplyConverges
  <2>5. CASE Send(c)
    BY <1>1, <2>5, SendConverges
  <2>6. CASE Import(c) \/ Record(c) \/ RecordBinding(c)
    BY <2>6, ImportConverges, RecordConverges, RecordBindingConverges
  <2> QED
    BY <1>3, <2>1, <2>2, <2>3, <2>4, <2>5, <2>6 DEF Proceed
<1>4. ASSUME NEW c \in Clients, NEW legs \in Legs, Open(c, legs) PROVE ConvergeInv'
  BY <1>4, MovingConverges
<1>5. ASSUME NEW c \in Clients, Stall(c) PROVE ConvergeInv'
  BY <1>5, MovingConverges
<1> QED
  BY <1>2, <1>3, <1>4, <1>5 DEF Next

LEMMA ConvergeStarts == Init => ContiguousInv /\ ConvergeInv
<1> SUFFICES ASSUME Init PROVE ContiguousInv /\ ConvergeInv
  OBVIOUS
<1>1. ContiguousInv
  BY DEF Init, ContiguousInv, AnsweredAhead, HandledSoFar, Pending, Rows, NoPass
<1>2. Len(feed) = 0 /\ 1 .. Len(feed) = {}
  BY DEF Init
<1>3. ASSUME NEW c \in Clients
      PROVE  /\ Rows(c) = {} /\ pass[c].step = "idle" /\ applied[c] = {} /\ holds[c] = {}
             /\ \A i \in Ids : local[c][i].state = "absent" /\ binding[c][i].sequence = 0
  BY DEF Init, Rows, NoPass, NoBinding, Absent
<1>4. ASSUME NEW c \in Clients PROVE SideInv(c)
  <2>1. WireInv(c)
    BY <1>3 DEF WireInv, AnswersAreDue, WireFromTheOldest, RestoreFits, PreparedIsSent, Pending
  <2>2. AppliesNewer(c) /\ AppliedIsFed(c)
    BY <1>3 DEF AppliesNewer, AppliedIsFed, At
  <2>3. \A i \in Ids : AbsentIsNew(c, i) /\ BoundToEntry(c, i)
    BY <1>2, <1>3 DEF AbsentIsNew, BoundToEntry, RowsOn
  <2> QED
    BY <2>1, <2>2, <2>3 DEF SideInv
<1>5. ASSUME NEW c \in Clients, NEW i \in Ids PROVE MemoryInv(c, i)
  <2>1. RowsOn(c, i) = {} /\ Undecided(c, i) = {}
    BY <1>3 DEF RowsOn, Undecided
  <2> QED
    BY <1>2, <1>3, <2>1 DEF MemoryInv, UndecidedComeLast, LastIsShown, RestoresFollow, FirstFits,
                            MetIsShown, UnheardIsNew, First
<1>6. DeletionsFollow
  BY <1>2 DEF DeletionsFollow
<1> QED
  BY <1>1, <1>4, <1>5, <1>6 DEF ConvergeInv, ClientConverges

\* The hub has a revision of every memory it heard of.
LEMMA RevisionExists ==
    ASSUME SafeInv, NEW i, NEW m \in 1 .. Len(feed), feed[m].id = i
    PROVE  \E n \in 1 .. Len(feed) : IsRevision(n, i)
<1> DEFINE T == {k \in 1 .. Len(feed) : feed[k].id = i}
<1>1. Len(feed) \in Nat
  BY ClientFacts DEF SafeInv, TypeOK
<1>2. PICK n \in T : \A k \in T : k <= n
  BY <1>1, LastPosition
<1>3. ASSUME NEW k \in n + 1 .. Len(feed), feed[k].id = i PROVE FALSE
  <2>1. k \in T /\ k > n
    BY <1>1, <1>3
  <2> QED
    BY <1>2, <2>1
<1> QED
  BY <1>2, <1>3 DEF IsRevision

\* At rest, the client has met the revision of every memory.
LEMMA SettledHasMet ==
    ASSUME SafeInv, ContiguousInv, ConvergeInv, NEW c \in Clients, At(c, "idle"), holds[c] = {},
           cursor[c] = Len(feed), NEW i \in Ids, NEW n \in 1 .. Len(feed), IsRevision(n, i)
    PROVE  Met(c, n)
<1>1. n \in 1 .. cursor[c] /\ pass[c].step # "rewind" /\ feed[n].id = i
  BY DEF At, IsRevision
<1>2. Handled(c, n)
  BY <1>1 DEF ContiguousInv, HandledSoFar
<1>3. CASE n <= binding[c][i].sequence
  <2> DEFINE b == binding[c][i].sequence
  <2>1. b \in Nat /\ b <= Len(feed) /\ n \in Nat /\ n >= 1 /\ Len(feed) \in Nat
    BY BindingTypes, ClientFacts
  <2>2. feed[b].id = i
    BY <1>3, <2>1 DEF ConvergeInv, ClientConverges, SideInv, BoundToEntry
  <2>3. b \notin n + 1 .. Len(feed)
    BY <2>2 DEF IsRevision
  <2>4. b = n
    BY <1>3, <2>1, <2>3
  <2> QED
    BY <1>1, <2>4 DEF Met
<1> QED
  BY <1>1, <1>2, <1>3 DEF Handled, Met

LEMMA RestAgrees ==
    ASSUME SafeInv, ContiguousInv, ConvergeInv, Settled, \A c \in Clients : At(c, "idle"),
           NEW c \in Clients, NEW i \in Ids
    PROVE  Agrees(c, i)
<1>1. Pending(c) = {} /\ holds[c] = {} /\ cursor[c] = Len(feed)
  BY DEF Settled
<1>2. Undecided(c, i) = {}
  BY <1>1, RowsOnTypes DEF PendingOn
<1>3. MetIsShown(c, i) /\ UnheardIsNew(c, i)
  BY DEF ConvergeInv, ClientConverges, MemoryInv
<1>4. \A n \in 1 .. Len(feed) : IsRevision(n, i) => Shows(local[c][i], feed[n])
  BY <1>1, <1>2, <1>3, SettledHasMet DEF MetIsShown
<1>5. CASE \E n \in 1 .. Len(feed) : IsRevision(n, i) /\ ~IsDeletion(n, i)
  BY <1>4, <1>5 DEF Agrees, IsDeletion, Shows
<1>6. CASE \A n \in 1 .. Len(feed) : IsRevision(n, i) => IsDeletion(n, i)
  <2>1. local[c][i].state # "live"
    <3>1. CASE \E n \in 1 .. Len(feed) : IsRevision(n, i)
      BY <1>4, <1>6, <3>1 DEF IsDeletion, Shows
    <3>2. CASE \A n \in 1 .. Len(feed) : ~IsRevision(n, i)
      <4>1. \A m \in 1 .. Len(feed) : feed[m].id # i
        BY <3>2, RevisionExists
      <4> QED
        BY <1>2, <1>3, <4>1 DEF UnheardIsNew
    <3> QED
      BY <3>1, <3>2
  <2> QED
    BY <1>6, <2>1 DEF Agrees
<1> QED
  BY <1>5, <1>6

\* Clients converge (replica_pass.rs, pull.rs, push.rs): once everything owed is
\* answered and everything in the feed dealt with, each client holds what the
\* hub holds, however passes and commands took turns, however often pulls
\* stalled, unless a client strayed, an answer was lost or a pass was killed.
THEOREM ClientsConverge == ConvergeSpec => []Converged
<1> DEFINE CInv == Undisturbed => ContiguousInv /\ ConvergeInv
<1>1. ConvergeInit => Init /\ CInv
  BY ConvergeStarts DEF ConvergeInit
<1>2. [ConvergeNext]_<<vars, strayed>> => [Next]_vars
  BY DEF ConvergeNext
<1>3. SafeInv /\ NoOperationLost /\ CInv /\ [ConvergeNext]_<<vars, strayed>> => CInv'
  <2> SUFFICES ASSUME SafeInv, NoOperationLost, CInv, [ConvergeNext]_<<vars, strayed>>, Undisturbed'
               PROVE  ContiguousInv' /\ ConvergeInv'
    BY Zenon
  <2>1. CASE ConvergeNext
    <3>1. Undisturbed /\ ~Strays /\ Next /\ \A c \in Clients : ~LoseAnswer(c) /\ ~Crash(c)
      BY <2>1, StaysUndisturbed
    <3>2. [RewindIsWhole]_vars
      BY <3>1 DEF RewindIsWhole
    <3> QED
      BY <3>1, <3>2, ConvergeStep, ContiguousNext
  <2>2. CASE UNCHANGED <<vars, strayed>>
    <3>1. UNCHANGED vars /\ strayed' = strayed /\ faults' = faults
      BY <2>2 DEF vars, bounds
    <3>2. Undisturbed
      BY <3>1 DEF Undisturbed
    <3> QED
      BY <3>1, <3>2, ConvergeStutters, ContiguousNext
  <2> QED
    BY <2>1, <2>2
<1>4. SafeInv /\ CInv => Converged
  BY RestAgrees DEF Converged
<1>5. ConvergeSpec => Spec
  BY <1>1, <1>2, PTL DEF ConvergeSpec, Spec
<1> QED
  BY <1>1, <1>3, <1>4, <1>5, ExchangeSafe, NothingIsLost, PTL DEF ConvergeSpec
================================================================================
