----------------------------- MODULE JobsProofs -----------------------------
(* The safety of the job table for any number of jobs, repositories and event
   streams, and any retention.

   Each record is judged by itself (RecordOK: what a worker's progress says of
   the status, the cancel flag and the place in the table), the permit by one
   clause (PermitInv), the event streams against the record they follow
   (CursorOK).  The sweep appears only through the fact that what it drops had
   a final status. *)
EXTENDS ServerJobs, TLAPS

(*************************** the inductive invariant **********************)

RecordOK(j) ==
    /\ j.worker \in {"body", "report"} => j.held /\ j.status = "running" /\ j.ran
    /\ j.status = "running" => j.worker \in {"body", "report"}
    /\ j.worker \in {"spawned", "waiting"} =>
         ~j.ran /\ j.status \in {"queued", "cancelled"} /\ (j.status = "queued" => ~j.cancel)
    /\ j.worker = "report" => j.outcome \in Terminal
    /\ j.worker \in {"leaving", "ended"} => j.status \in Terminal /\ (j.ran => j.status = j.outcome)
    /\ j.told => j.status = "cancelled" /\ ~j.ran
    /\ ~j.held => j.status \in Terminal \/ j.worker = "unborn"
    /\ j.worker = "unborn" => ~j.held

RecordInv == \A i \in JobIds : RecordOK(jobs[i])

\* A mutating job keeps the permit from its start until its task returns.
PermitInv ==
    \A i \in JobIds :
        Mutating(jobs[i]) /\ jobs[i].worker \in {"body", "report", "leaving"} => permit = i

\* What was not handed out yet is not in the table.
MintedInv == \A i \in JobIds : i > minted => jobs[i].worker = "unborn"

CursorOK(c) ==
    c.phase # "off" =>
        /\ c.job \in JobIds /\ c.job <= minted /\ jobs[c.job].worker # "unborn"
        /\ c.lines <= jobs[c.job].lines /\ c.marks <= jobs[c.job].marks
        /\ c.phase # "closed" => c.last \notin Terminal
        /\ c.phase = "draining" => jobs[c.job].status \in Terminal
        /\ c.phase = "closed" =>
             /\ jobs[c.job].status \in Terminal
             /\ c.lines = jobs[c.job].lines
             /\ c.last \in Terminal => c.last = jobs[c.job].status
             /\ c.last \notin Terminal \/ c.marks < jobs[c.job].marks => ~jobs[c.job].held

CursorInv == \A s \in Streams : CursorOK(streams[s])

(****************************** the sweep *********************************)

\* The sweep leaves a record alone or, if its status is final, takes it out of
\* the table.
LEMMA SweepDropsFinished ==
    ASSUME NEW js, NEW i \in JobIds
    PROVE  \/ Swept(js)[i] = js[i]
           \/ js[i].status \in Terminal /\ Swept(js)[i] = [js[i] EXCEPT !.held = FALSE]
BY DEF Swept, Evicted, Finished

LEMMA SweepKeepsType ==
    ASSUME NEW js \in [JobIds -> Job] PROVE Swept(js) \in [JobIds -> Job]
<1>1. ASSUME NEW i \in JobIds PROVE [js[i] EXCEPT !.held = FALSE] \in Job
  BY DEF Job
<1> QED BY <1>1 DEF Swept

LEMMA NoneIsNoStatus == None \notin Terminal
BY JobsAssumption DEF JobsAssumption, Terminal

LEMMA FreshIsJob == \A kind \in Kinds : Fresh(kind) \in Job
BY DEF Fresh, Job, Statuses, Terminal

(****************************** type correctness **************************)

LEMMA ReleaseType ==
    ASSUME permit \in JobIds \cup {Request, None}, waiters \in Seq(JobIds), Release
    PROVE  permit' \in JobIds \cup {Request, None} /\ waiters' \in Seq(JobIds)
<1>1. CASE waiters = <<>>
  BY <1>1 DEF Release
<1>2. CASE waiters # <<>>
  BY <1>2 DEF Release
<1> QED BY <1>1, <1>2

LastEvents == Statuses \cup {"log", "progress", None}
Phases == {"off", "first", "live", "draining", "closed"}

\* What a poll does to the fields of a cursor leaves it a cursor.
LEMMA CursorFields ==
    ASSUME NEW c \in Cursor
    PROVE  /\ \A n \in Nat, last \in LastEvents : [c EXCEPT !.lines = n, !.last = last] \in Cursor
           /\ \A n \in Nat, last \in LastEvents : [c EXCEPT !.marks = n, !.last = last] \in Cursor
           /\ \A phase \in Phases : [c EXCEPT !.phase = phase] \in Cursor
           /\ \A seen \in Statuses : [c EXCEPT !.seen = seen] \in Cursor
           /\ \A phase \in Phases, last \in LastEvents :
                [c EXCEPT !.phase = phase, !.last = last] \in Cursor
           /\ \A phase \in Phases, seen \in Statuses, last \in LastEvents :
                [c EXCEPT !.phase = phase, !.seen = seen, !.last = last] \in Cursor
<1>1. ASSUME NEW n \in Nat, NEW last \in LastEvents
      PROVE  [c EXCEPT !.lines = n, !.last = last] \in Cursor
  BY Zenon DEF Cursor, LastEvents, Phases
<1>2. ASSUME NEW n \in Nat, NEW last \in LastEvents
      PROVE  [c EXCEPT !.marks = n, !.last = last] \in Cursor
  BY Zenon DEF Cursor, LastEvents, Phases
<1>3. ASSUME NEW phase \in Phases PROVE [c EXCEPT !.phase = phase] \in Cursor
  BY Zenon DEF Cursor, LastEvents, Phases
<1>4. ASSUME NEW seen \in Statuses PROVE [c EXCEPT !.seen = seen] \in Cursor
  BY Zenon DEF Cursor, LastEvents, Phases
<1>5. ASSUME NEW phase \in Phases, NEW last \in LastEvents
      PROVE  [c EXCEPT !.phase = phase, !.last = last] \in Cursor
  BY Zenon DEF Cursor, LastEvents, Phases
<1>6. ASSUME NEW phase \in Phases, NEW seen \in Statuses, NEW last \in LastEvents
      PROVE  [c EXCEPT !.phase = phase, !.seen = seen, !.last = last] \in Cursor
  BY Zenon DEF Cursor, LastEvents, Phases
<1> QED BY <1>1, <1>2, <1>3, <1>4, <1>5, <1>6, Zenon

LEMMA SendType ==
    ASSUME NEW c \in Cursor, c.job \in JobIds, jobs \in [JobIds -> Job]
    PROVE  SendLine(c) \in Cursor /\ SendMark(c) \in Cursor
<1>1. c.lines + 1 \in Nat /\ jobs[c.job].marks \in Nat
  BY DEF Cursor, Job
<1>2. "log" \in LastEvents /\ "progress" \in LastEvents
  BY DEF LastEvents
<1>3. SendLine(c) = [c EXCEPT !.lines = c.lines + 1, !.last = "log"]
  BY DEF SendLine
<1>4. SendMark(c) = [c EXCEPT !.marks = jobs[c.job].marks, !.last = "progress"]
  BY DEF SendMark
<1>5. [c EXCEPT !.lines = c.lines + 1, !.last = "log"] \in Cursor
  BY <1>1, <1>2, CursorFields, Zenon
<1>6. [c EXCEPT !.marks = jobs[c.job].marks, !.last = "progress"] \in Cursor
  BY <1>1, <1>2, CursorFields, Zenon
<1> QED BY <1>3, <1>4, <1>5, <1>6, Zenon

LEMMA DrainType ==
    ASSUME NEW c \in Cursor, c.job \in JobIds, jobs \in [JobIds -> Job]
    PROVE  DrainThenFinish(c) \in Cursor
<1> DEFINE j == jobs[c.job]
<1>1. j.status \in LastEvents /\ "draining" \in Phases /\ "closed" \in Phases
  BY DEF Job, LastEvents, Phases
<1>2. c.lines \in Nat /\ j.lines \in Nat
  BY DEF Cursor, Job
<1>3. CASE c.lines < j.lines
  <2>1. DrainThenFinish(c) = [SendLine(c) EXCEPT !.phase = "draining"]
    BY <1>2, <1>3 DEF DrainThenFinish
  <2>2. SendLine(c) \in Cursor
    BY SendType
  <2>3. [SendLine(c) EXCEPT !.phase = "draining"] \in Cursor
    BY <1>1, <2>2, CursorFields, Zenon
  <2> QED BY <2>1, <2>3, Zenon
<1>4. CASE ~(c.lines < j.lines) /\ j.held /\ c.marks < j.marks
  <2>1. DrainThenFinish(c) = [SendMark(c) EXCEPT !.phase = "draining"]
    BY <1>2, <1>4 DEF DrainThenFinish
  <2>2. SendMark(c) \in Cursor
    BY SendType
  <2>3. [SendMark(c) EXCEPT !.phase = "draining"] \in Cursor
    BY <1>1, <2>2, CursorFields, Zenon
  <2> QED BY <2>1, <2>3, Zenon
<1>5. CASE ~(c.lines < j.lines) /\ ~(j.held /\ c.marks < j.marks)
  <2>1. DrainThenFinish(c) = [c EXCEPT !.phase = "closed", !.last = j.status]
    BY <1>2, <1>5 DEF DrainThenFinish
  <2>2. [c EXCEPT !.phase = "closed", !.last = j.status] \in Cursor
    BY <1>1, CursorFields, Zenon
  <2> QED BY <2>1, <2>2, Zenon
<1> QED BY <1>3, <1>4, <1>5

LEMMA OnStatusType ==
    ASSUME NEW c \in Cursor, c.job \in JobIds, jobs \in [JobIds -> Job]
    PROVE  OnStatus(c) \in Cursor
<1> DEFINE now == jobs[c.job].status
<1>1. now \in Statuses /\ now \in LastEvents /\ "live" \in Phases
  BY DEF Job, LastEvents, Phases
<1>2. CASE now \in Terminal
  <2>1. [c EXCEPT !.seen = now] \in Cursor /\ [c EXCEPT !.seen = now].job = c.job
    BY <1>1, CursorFields DEF Cursor
  <2>2. OnStatus(c) = DrainThenFinish([c EXCEPT !.seen = now])
    BY <1>2 DEF OnStatus
  <2> QED BY <2>1, <2>2, DrainType
<1>3. CASE now \notin Terminal
  BY <1>1, <1>3, CursorFields DEF OnStatus
<1> QED BY <1>2, <1>3

\* A polled cursor is a cursor.
LEMMA PolledType ==
    ASSUME NEW c \in Cursor, c.job \in JobIds, jobs \in [JobIds -> Job],
           c.phase \in {"first", "live", "draining"}
    PROVE  Polled(c) \in Cursor
<1> DEFINE j == jobs[c.job]
<1>0. "closed" \in Phases
  BY DEF Phases
<1>1. CASE c.phase = "first"
  BY <1>1, OnStatusType DEF Polled
<1>2. CASE c.phase = "draining"
  BY <1>2, DrainType DEF Polled
<1>3. CASE c.phase = "live"
  <2>1. CASE c.lines < j.lines
    BY <1>3, <2>1, SendType DEF Polled
  <2>2. CASE ~(c.lines < j.lines) /\ c.marks < j.marks
    BY <1>3, <2>2, SendType DEF Polled
  <2>3. CASE ~(c.lines < j.lines) /\ ~(c.marks < j.marks) /\ ~j.held
    BY <1>3, <2>3, <1>0, CursorFields DEF Polled
  <2>4. CASE ~(c.lines < j.lines) /\ ~(c.marks < j.marks) /\ j.held
    BY <1>3, <2>4, OnStatusType DEF Polled
  <2> QED BY <2>1, <2>2, <2>3, <2>4
<1> QED BY <1>1, <1>2, <1>3

\* What the actions do to the fields of a record leaves it a record.
Workers == {"unborn", "spawned", "waiting", "body", "report", "leaving", "ended"}
LEMMA JobFields ==
    ASSUME NEW j \in Job
    PROVE  /\ [j EXCEPT !.cancel = TRUE, !.status = "cancelled", !.told = TRUE] \in Job
           /\ [j EXCEPT !.cancel = TRUE] \in Job
           /\ \A w \in Workers : [j EXCEPT !.worker = w] \in Job
           /\ [j EXCEPT !.status = "running", !.worker = "body", !.ran = TRUE] \in Job
           /\ \A n \in Nat : [j EXCEPT !.lines = n] \in Job
           /\ \A n \in Nat : [j EXCEPT !.marks = n] \in Job
           /\ \A w \in Workers, o \in Terminal : [j EXCEPT !.worker = w, !.outcome = o] \in Job
           /\ \A w \in Workers, o \in Statuses : [j EXCEPT !.worker = w, !.status = o] \in Job
<1> USE DEF Job, Workers, Statuses, Terminal
<1>1. [j EXCEPT !.cancel = TRUE, !.status = "cancelled", !.told = TRUE] \in Job
  BY Zenon
<1>2. [j EXCEPT !.cancel = TRUE] \in Job
  BY Zenon
<1>3. ASSUME NEW w \in Workers PROVE [j EXCEPT !.worker = w] \in Job
  BY Zenon
<1>4. [j EXCEPT !.status = "running", !.worker = "body", !.ran = TRUE] \in Job
  BY Zenon
<1>5. ASSUME NEW n \in Nat PROVE [j EXCEPT !.lines = n] \in Job
  BY Zenon
<1>6. ASSUME NEW n \in Nat PROVE [j EXCEPT !.marks = n] \in Job
  BY Zenon
<1>7. ASSUME NEW w \in Workers, NEW o \in Terminal PROVE [j EXCEPT !.worker = w, !.outcome = o] \in Job
  BY Zenon
<1>8. ASSUME NEW w \in Workers, NEW o \in Statuses PROVE [j EXCEPT !.worker = w, !.status = o] \in Job
  BY Zenon
<1> HIDE DEF Job, Workers, Statuses, Terminal
<1> QED BY <1>1, <1>2, <1>3, <1>4, <1>5, <1>6, <1>7, <1>8, Zenon

LEMMA JobsTypeStep == JobsTypeOK /\ CursorInv /\ RecordInv /\ [JobsNext]_jobVars => JobsTypeOK'
<1> SUFFICES ASSUME JobsTypeOK, CursorInv, RecordInv, [JobsNext]_jobVars PROVE JobsTypeOK'
  OBVIOUS
<1>0. CASE UNCHANGED jobVars
  BY <1>0 DEF jobVars, JobsTypeOK
<1>t. /\ minted \in Nat /\ jobs \in [JobIds -> Job]
      /\ permit \in JobIds \cup {Request, None} /\ waiters \in Seq(JobIds)
      /\ streams \in [Streams -> Cursor]
  BY DEF JobsTypeOK
\* One record is replaced by another.
<1>r. ASSUME NEW i \in JobIds, NEW r \in Job, jobs' = [jobs EXCEPT ![i] = r] PROVE jobs' \in [JobIds -> Job]
  BY <1>t, <1>r
<1>w. \A w \in {"waiting", "body", "report", "leaving", "ended"} : w \in Workers
  BY DEF Workers
<1>1. ASSUME NEW kind \in Kinds, Submit(kind) PROVE JobsTypeOK'
  <2> DEFINE js == [jobs EXCEPT ![minted + 1] = Fresh(kind)]
  <2>1. js \in [JobIds -> Job] /\ minted + 1 \in Nat
    BY <1>t, <1>1, FreshIsJob DEF Submit
  <2> HIDE DEF js
  <2>2. jobs' \in [JobIds -> Job]
    BY <2>1, <1>1, SweepKeepsType DEF Submit, js
  <2> QED BY <1>t, <1>1, <2>1, <2>2 DEF Submit, JobsTypeOK
<1>2. ASSUME NEW i \in JobIds, Cancel(i) PROVE JobsTypeOK'
  <2>1. jobs[i] \in Job
    BY <1>t
  <2>2. CASE jobs[i].status = "queued"
    <3>1. jobs' = [jobs EXCEPT ![i] = [jobs[i] EXCEPT !.cancel = TRUE, !.status = "cancelled", !.told = TRUE]]
      BY <1>2, <2>2 DEF Cancel
    <3>2. jobs' \in [JobIds -> Job]
      BY <3>1, <2>1, JobFields, <1>r
    <3> QED BY <1>t, <1>2, <3>2 DEF Cancel, JobsTypeOK
  <2>3. CASE jobs[i].status # "queued"
    <3>1. jobs' = [jobs EXCEPT ![i] = [jobs[i] EXCEPT !.cancel = TRUE]]
      BY <1>2, <2>3 DEF Cancel
    <3>2. jobs' \in [JobIds -> Job]
      BY <3>1, <2>1, JobFields, <1>r
    <3> QED BY <1>t, <1>2, <3>2 DEF Cancel, JobsTypeOK
  <2> QED BY <2>2, <2>3
<1>3. ASSUME NEW i \in JobIds, Await(i) PROVE JobsTypeOK'
  <2>1. jobs' = [jobs EXCEPT ![i] = [jobs[i] EXCEPT !.worker = "waiting"]]
    BY <1>3 DEF Await
  <2>2. jobs' \in [JobIds -> Job]
    BY <2>1, <1>t, <1>r, <1>w, JobFields
  <2> QED BY <1>t, <1>3, <2>2 DEF Await, JobsTypeOK
<1>4. ASSUME NEW i \in JobIds, Start(i) PROVE JobsTypeOK'
  <2>1. CASE Startable(jobs[i])
    <3>1. jobs' = [jobs EXCEPT ![i] = [jobs[i] EXCEPT !.status = "running", !.worker = "body", !.ran = TRUE]]
      BY <1>4, <2>1 DEF Start
    <3>2. jobs' \in [JobIds -> Job]
      BY <3>1, <1>t, <1>r, JobFields
    <3> QED BY <1>t, <1>4, <3>2 DEF Start, JobsTypeOK
  <2>2. CASE ~Startable(jobs[i])
    <3>1. jobs' = [jobs EXCEPT ![i] = [jobs[i] EXCEPT !.worker = "leaving"]]
      BY <1>4, <2>2 DEF Start
    <3>2. jobs' \in [JobIds -> Job]
      BY <3>1, <1>t, <1>r, <1>w, JobFields
    <3> QED BY <1>t, <1>4, <3>2 DEF Start, JobsTypeOK
  <2> QED BY <2>1, <2>2
<1>5. ASSUME NEW i \in JobIds, Publish(i) PROVE JobsTypeOK'
  <2>1. jobs[i].lines + 1 \in Nat /\ jobs[i].marks + 1 \in Nat /\ jobs[i] \in Job
    BY <1>t DEF Job
  <2>2. \/ jobs' = [jobs EXCEPT ![i] = [jobs[i] EXCEPT !.lines = jobs[i].lines + 1]]
        \/ jobs' = [jobs EXCEPT ![i] = [jobs[i] EXCEPT !.marks = jobs[i].marks + 1]]
    BY <1>5 DEF Publish
  <2>3. /\ [jobs[i] EXCEPT !.lines = jobs[i].lines + 1] \in Job
        /\ [jobs[i] EXCEPT !.marks = jobs[i].marks + 1] \in Job
    BY <2>1, JobFields, Zenon
  <2>4. jobs' \in [JobIds -> Job]
    BY <2>2, <2>3, <1>r
  <2> QED BY <1>t, <1>5, <2>4 DEF Publish, JobsTypeOK
<1>6. ASSUME NEW i \in JobIds, Finish(i) PROVE JobsTypeOK'
  <2>1. PICK outcome \in Terminal : jobs' = [jobs EXCEPT ![i] = [jobs[i] EXCEPT !.worker = "report", !.outcome = outcome]]
    BY <1>6 DEF Finish
  <2>2. [jobs[i] EXCEPT !.worker = "report", !.outcome = outcome] \in Job
    BY <1>t, <1>w, JobFields, Zenon
  <2>3. jobs' \in [JobIds -> Job]
    BY <2>1, <2>2, <1>r
  <2> QED BY <1>t, <1>6, <2>3 DEF Finish, JobsTypeOK
<1>7. ASSUME NEW i \in JobIds, Report(i) PROVE JobsTypeOK'
  <2>1. CASE Live(jobs[i])
    <3>1. jobs' = [jobs EXCEPT ![i] = [jobs[i] EXCEPT !.worker = "leaving", !.status = jobs[i].outcome]]
      BY <1>7, <2>1 DEF Report
    <3>2. jobs[i].outcome \in Statuses
      BY <1>7 DEF Report, RecordInv, RecordOK, Statuses
    <3>3. [jobs[i] EXCEPT !.worker = "leaving", !.status = jobs[i].outcome] \in Job
      BY <1>t, <1>w, <3>2, JobFields, Zenon
    <3>4. jobs' \in [JobIds -> Job]
      BY <3>1, <3>3, <1>r
    <3> QED BY <1>t, <1>7, <3>4 DEF Report, JobsTypeOK
  <2>2. CASE ~Live(jobs[i])
    <3>1. jobs' = [jobs EXCEPT ![i] = [jobs[i] EXCEPT !.worker = "leaving"]]
      BY <1>7, <2>2 DEF Report
    <3>2. jobs' \in [JobIds -> Job]
      BY <3>1, <1>t, <1>r, <1>w, JobFields
    <3> QED BY <1>t, <1>7, <3>2 DEF Report, JobsTypeOK
  <2> QED BY <2>1, <2>2
<1>8. ASSUME NEW i \in JobIds, Leave(i) PROVE JobsTypeOK'
  <2>1. jobs' = [jobs EXCEPT ![i] = [jobs[i] EXCEPT !.worker = "ended"]]
    BY <1>8 DEF Leave
  <2>2. jobs' \in [JobIds -> Job]
    BY <2>1, <1>t, <1>r, <1>w, JobFields
  <2>3. permit' \in JobIds \cup {Request, None} /\ waiters' \in Seq(JobIds)
    BY <1>t, <1>8, ReleaseType DEF Leave
  <2> QED BY <1>t, <1>8, <2>2, <2>3 DEF Leave, JobsTypeOK
<1>9. CASE RequestTakes
  BY <1>t, <1>9 DEF RequestTakes, JobsTypeOK
<1>10. CASE RequestEnds
  BY <1>t, <1>10, ReleaseType DEF RequestEnds, JobsTypeOK
<1>11. ASSUME NEW s \in Streams, Poll(s) PROVE JobsTypeOK'
  <2>1. streams[s].phase \in {"first", "live", "draining"} /\ streams[s].job \in JobIds
    BY <1>t, <1>11 DEF Poll, Cursor, CursorInv, CursorOK
  <2>2. Polled(streams[s]) \in Cursor
    BY <2>1, <1>t, PolledType
  <2> QED BY <1>t, <1>11, <2>2 DEF Poll, JobsTypeOK
<1>12. ASSUME NEW s \in Streams, NEW i \in JobIds, Attach(s, i) PROVE JobsTypeOK'
  <2>1. jobs[i].lines \in Nat /\ jobs[i].marks \in Nat
    BY <1>t DEF Job
  <2>2. [Off EXCEPT !.job = i, !.phase = "first", !.lines = jobs[i].lines, !.marks = jobs[i].marks] \in Cursor
    BY <2>1 DEF Off, Cursor, Statuses, Terminal
  <2> QED BY <1>t, <1>12, <2>2 DEF Attach, JobsTypeOK
<1> QED
  BY <1>0, <1>1, <1>2, <1>3, <1>4, <1>5, <1>6, <1>7, <1>8, <1>9, <1>10, <1>11, <1>12
     DEF JobsNext, Work

(****************************** the job table *****************************)

\* What one record's replacement has to keep: its own clause, the permit, its
\* place among the minted and its repository, which stays its own.
LEMMA OneRecord ==
    ASSUME NEW i \in JobIds, jobs \in [JobIds -> Job], RecordInv, MintedInv, OneJobPerRepo,
           NEW r, jobs' = [jobs EXCEPT ![i] = r], minted' = minted,
           RecordOK(r), r.kind = jobs[i].kind, Live(r) => Live(jobs[i]),
           r.worker = "unborn" <=> jobs[i].worker = "unborn"
    PROVE  RecordInv' /\ MintedInv' /\ OneJobPerRepo'
<1>1. jobs'[i] = r /\ \A k \in JobIds \ {i} : jobs'[k] = jobs[k]
  OBVIOUS
<1>2. RecordInv'
  BY <1>1 DEF RecordInv
<1>3. MintedInv'
  BY <1>1 DEF MintedInv
<1>4. OneJobPerRepo'
  BY <1>1 DEF OneJobPerRepo
<1> QED BY <1>2, <1>3, <1>4

TableInv == RecordInv /\ PermitInv /\ MintedInv /\ OneJobPerRepo

LEMMA TableStep == JobsTypeOK /\ TableInv /\ [JobsNext]_jobVars => TableInv'
<1> SUFFICES ASSUME JobsTypeOK, TableInv, [JobsNext]_jobVars PROVE TableInv'
  OBVIOUS
<1>t. /\ minted \in Nat /\ jobs \in [JobIds -> Job] /\ JobIds \subseteq Nat
      /\ None \notin JobIds /\ Request \notin JobIds
  BY JobsAssumption DEF JobsTypeOK, JobsAssumption
<1>i. RecordInv /\ PermitInv /\ MintedInv /\ OneJobPerRepo
  BY DEF TableInv
<1>0. CASE UNCHANGED jobVars
  BY <1>0, <1>i DEF jobVars, TableInv, RecordInv, PermitInv, MintedInv, OneJobPerRepo
<1>1. ASSUME NEW kind \in Kinds, Submit(kind) PROVE TableInv'
  <2> DEFINE n == minted + 1
             js == [jobs EXCEPT ![n] = Fresh(kind)]
  <2>1. n \in JobIds /\ js[n] = Fresh(kind) /\ \A i \in JobIds \ {n} : js[i] = jobs[i]
    BY <1>t, <1>1 DEF Submit
  <2>2. jobs' = Swept(js) /\ minted' = n /\ permit' = permit
    BY <1>1 DEF Submit
  <2>3. \A i \in JobIds : js[i] \in Job /\ RecordOK(js[i])
    <3>1. RecordOK(Fresh(kind))
      BY DEF RecordOK, Fresh, Terminal
    <3> QED BY <2>1, <3>1, <1>t, <1>i, FreshIsJob DEF RecordInv
  <2> HIDE DEF js
  <2>4. ASSUME NEW i \in JobIds
        PROVE  /\ RecordOK(jobs'[i])
               /\ jobs'[i].kind = js[i].kind /\ jobs'[i].worker = js[i].worker
               /\ Live(jobs'[i]) => Live(js[i])
    <3>1. CASE jobs'[i] = js[i]
      BY <3>1, <2>3
    <3>2. CASE js[i].status \in Terminal /\ jobs'[i] = [js[i] EXCEPT !.held = FALSE]
      BY <3>2, <2>3 DEF Job, RecordOK, Live, Terminal
    <3> QED BY <3>1, <3>2, <2>2, SweepDropsFinished
  <2>5. RecordInv'
    BY <2>4 DEF RecordInv
  <2>6. PermitInv'
    <3>1. Fresh(kind).worker = "spawned"
      BY DEF Fresh
    <3> QED BY <2>1, <2>2, <2>4, <3>1, <1>i DEF PermitInv, Mutating
  <2>7. MintedInv'
    <3>1. ASSUME NEW i \in JobIds, i > n PROVE jobs'[i].worker = "unborn"
      <4>1. i \in Nat /\ i # n /\ i > minted
        BY <3>1, <1>t
      <4>2. js[i] = jobs[i] /\ jobs[i].worker = "unborn"
        BY <4>1, <2>1, <1>i DEF MintedInv
      <4> QED BY <4>2, <2>4
    <3> QED BY <3>1, <2>2 DEF MintedInv
  <2>8. OneJobPerRepo'
    <3>1. Fresh(kind).kind = kind
      BY DEF Fresh
    <3>2. ASSUME NEW i \in JobIds, Live(js[i]), i # n, js[i].kind = kind, kind \in Repos PROVE FALSE
      BY <3>2, <2>1, <1>1 DEF Submit, Active
    <3>3. ASSUME NEW i \in JobIds, NEW k \in JobIds, Live(js[i]), Live(js[k]),
                 js[i].kind = js[k].kind, js[i].kind \in Repos
          PROVE  i = k
      BY <3>1, <3>2, <3>3, <2>1, <1>i DEF OneJobPerRepo
    <3> QED BY <3>3, <2>4 DEF OneJobPerRepo
  <2> QED BY <2>5, <2>6, <2>7, <2>8 DEF TableInv
<1>2. ASSUME NEW i \in JobIds, Cancel(i) PROVE TableInv'
  <2> DEFINE r == IF jobs[i].status = "queued"
                    THEN [jobs[i] EXCEPT !.cancel = TRUE, !.status = "cancelled", !.told = TRUE]
                    ELSE [jobs[i] EXCEPT !.cancel = TRUE]
  <2>1. jobs' = [jobs EXCEPT ![i] = r] /\ minted' = minted /\ permit' = permit
    BY <1>2 DEF Cancel
  <2>2. RecordOK(r) /\ r.kind = jobs[i].kind /\ r.worker = jobs[i].worker /\ Live(jobs[i])
    BY <1>2, <1>t, <1>i DEF Cancel, RecordInv, RecordOK, Live, Terminal, Job
  <2> HIDE DEF r
  <2>3. RecordInv' /\ MintedInv' /\ OneJobPerRepo'
    BY <2>1, <2>2, <1>t, <1>i, OneRecord
  <2>4. PermitInv'
    BY <2>1, <2>2, <1>t, <1>i DEF PermitInv, Mutating
  <2> QED BY <2>3, <2>4 DEF TableInv
<1>3. ASSUME NEW i \in JobIds, Await(i) PROVE TableInv'
  <2> DEFINE r == [jobs[i] EXCEPT !.worker = "waiting"]
  <2>1. jobs' = [jobs EXCEPT ![i] = r] /\ minted' = minted
    BY <1>3 DEF Await
  <2>2. RecordOK(r) /\ r.kind = jobs[i].kind /\ r.worker = "waiting" /\ Live(r) = Live(jobs[i])
    BY <1>3, <1>t, <1>i DEF Await, RecordInv, RecordOK, Live, Terminal, Job
  <2> HIDE DEF r
  <2>3. RecordInv' /\ MintedInv' /\ OneJobPerRepo'
    BY <2>1, <2>2, <1>3, <1>t, <1>i, OneRecord DEF Await
  <2>4. PermitInv'
    <3>1. permit' = permit \/ permit = None
      BY <1>3 DEF Await
    <3> QED BY <3>1, <2>1, <2>2, <1>t, <1>i DEF PermitInv, Mutating
  <2> QED BY <2>3, <2>4 DEF TableInv
<1>4. ASSUME NEW i \in JobIds, Start(i) PROVE TableInv'
  <2> DEFINE r == IF Startable(jobs[i])
                    THEN [jobs[i] EXCEPT !.status = "running", !.worker = "body", !.ran = TRUE]
                    ELSE [jobs[i] EXCEPT !.worker = "leaving"]
  <2>1. jobs' = [jobs EXCEPT ![i] = r] /\ minted' = minted /\ permit' = permit
    BY <1>4 DEF Start
  <2>2. jobs[i].worker \in {"spawned", "waiting"} /\ (Mutating(jobs[i]) => permit = i)
    BY <1>4 DEF Start, Ready
  <2>3. /\ RecordOK(r) /\ r.kind = jobs[i].kind /\ r.worker \in {"body", "leaving"}
        /\ Live(r) => Live(jobs[i])
    BY <2>2, <1>t, <1>i DEF Startable, RecordInv, RecordOK, Live, Terminal, Job
  <2> HIDE DEF r
  <2>4. RecordInv' /\ MintedInv' /\ OneJobPerRepo'
    BY <2>1, <2>2, <2>3, <1>t, <1>i, OneRecord
  <2>5. PermitInv'
    BY <2>1, <2>2, <2>3, <1>t, <1>i DEF PermitInv, Mutating
  <2> QED BY <2>4, <2>5 DEF TableInv
<1>5. ASSUME NEW i \in JobIds, Publish(i) PROVE TableInv'
  <2>1. PICK r \in {[jobs[i] EXCEPT !.lines = jobs[i].lines + 1], [jobs[i] EXCEPT !.marks = jobs[i].marks + 1]} :
            jobs' = [jobs EXCEPT ![i] = r]
    BY <1>5 DEF Publish
  <2>2. minted' = minted /\ permit' = permit
    BY <1>5 DEF Publish
  <2>3. RecordOK(r) /\ r.kind = jobs[i].kind /\ r.worker = jobs[i].worker /\ Live(r) = Live(jobs[i])
    BY <1>t, <1>i DEF RecordInv, RecordOK, Live, Job
  <2>4. RecordInv' /\ MintedInv' /\ OneJobPerRepo'
    BY <2>1, <2>2, <2>3, <1>t, <1>i, OneRecord
  <2>5. PermitInv'
    BY <2>1, <2>2, <2>3, <1>t, <1>i DEF PermitInv, Mutating
  <2> QED BY <2>4, <2>5 DEF TableInv
<1>6. ASSUME NEW i \in JobIds, Finish(i) PROVE TableInv'
  <2>1. PICK outcome \in Terminal : jobs' = [jobs EXCEPT ![i] = [jobs[i] EXCEPT !.worker = "report", !.outcome = outcome]]
    BY <1>6 DEF Finish
  <2> DEFINE r == [jobs[i] EXCEPT !.worker = "report", !.outcome = outcome]
  <2>2. minted' = minted /\ permit' = permit /\ jobs[i].worker = "body"
    BY <1>6 DEF Finish
  <2>3. RecordOK(r) /\ r.kind = jobs[i].kind /\ r.worker = "report" /\ Live(r) = Live(jobs[i])
    BY <2>2, <1>t, <1>i DEF RecordInv, RecordOK, Live, Job
  <2> HIDE DEF r
  <2>4. RecordInv' /\ MintedInv' /\ OneJobPerRepo'
    BY <2>1, <2>2, <2>3, <1>t, <1>i, OneRecord DEF r
  <2>5. PermitInv'
    BY <2>1, <2>2, <2>3, <1>t, <1>i DEF PermitInv, Mutating, r
  <2> QED BY <2>4, <2>5 DEF TableInv
<1>7. ASSUME NEW i \in JobIds, Report(i) PROVE TableInv'
  <2> DEFINE r == IF Live(jobs[i])
                    THEN [jobs[i] EXCEPT !.worker = "leaving", !.status = jobs[i].outcome]
                    ELSE [jobs[i] EXCEPT !.worker = "leaving"]
  <2>1. jobs' = [jobs EXCEPT ![i] = r] /\ minted' = minted /\ permit' = permit /\ jobs[i].worker = "report"
    BY <1>7 DEF Report
  <2>2. RecordOK(r) /\ r.kind = jobs[i].kind /\ r.worker = "leaving" /\ (Live(r) => Live(jobs[i]))
    BY <2>1, <1>t, <1>i DEF RecordInv, RecordOK, Live, Terminal, Job
  <2> HIDE DEF r
  <2>3. RecordInv' /\ MintedInv' /\ OneJobPerRepo'
    BY <2>1, <2>2, <1>t, <1>i, OneRecord
  <2>4. PermitInv'
    BY <2>1, <2>2, <1>t, <1>i DEF PermitInv, Mutating
  <2> QED BY <2>3, <2>4 DEF TableInv
<1>8. ASSUME NEW i \in JobIds, Leave(i) PROVE TableInv'
  <2> DEFINE r == [jobs[i] EXCEPT !.worker = "ended"]
  <2>1. jobs' = [jobs EXCEPT ![i] = r] /\ minted' = minted /\ jobs[i].worker = "leaving"
    BY <1>8 DEF Leave
  <2>2. RecordOK(r) /\ r.kind = jobs[i].kind /\ r.worker = "ended" /\ Live(r) = Live(jobs[i])
    BY <2>1, <1>t, <1>i DEF RecordInv, RecordOK, Live, Terminal, Job
  <2> HIDE DEF r
  <2>3. RecordInv' /\ MintedInv' /\ OneJobPerRepo'
    BY <2>1, <2>2, <1>t, <1>i, OneRecord
  <2>4. PermitInv'
    <3>1. permit' = permit \/ permit = i
      BY <1>8 DEF Leave
    <3> QED BY <3>1, <2>1, <2>2, <1>t, <1>i DEF PermitInv, Mutating
  <2> QED BY <2>3, <2>4 DEF TableInv
<1>9. CASE RequestTakes
  BY <1>9, <1>t, <1>i DEF RequestTakes, TableInv, RecordInv, PermitInv, MintedInv, OneJobPerRepo
<1>10. CASE RequestEnds
  BY <1>10, <1>t, <1>i DEF RequestEnds, TableInv, RecordInv, PermitInv, MintedInv, OneJobPerRepo
<1>11. ASSUME NEW s \in Streams, Poll(s) \/ \E i \in JobIds : Attach(s, i) PROVE TableInv'
  BY <1>11, <1>i DEF Poll, Attach, TableInv, RecordInv, PermitInv, MintedInv, OneJobPerRepo
<1> QED
  BY <1>0, <1>1, <1>2, <1>3, <1>4, <1>5, <1>6, <1>7, <1>8, <1>9, <1>10, <1>11 DEF JobsNext, Work

(***************************** the event streams **************************)

\* A record only grows, and what a final status settled is settled.
Keeps(i) ==
    /\ jobs'[i].lines >= jobs[i].lines /\ jobs'[i].marks >= jobs[i].marks
    /\ jobs[i].status \in Terminal => /\ jobs'[i].status = jobs[i].status
                                      /\ jobs'[i].lines = jobs[i].lines
                                      /\ jobs'[i].marks = jobs[i].marks
    /\ ~jobs[i].held => ~jobs'[i].held
    /\ jobs[i].worker # "unborn" => jobs'[i].worker # "unborn"
    /\ jobs[i].ran => jobs'[i].ran /\ (jobs'[i].worker = "body" => jobs[i].worker = "body")

TableAction ==
    \/ \E kind \in Kinds : Submit(kind)
    \/ \E i \in JobIds : Cancel(i) \/ Work(i) \/ Publish(i)
    \/ RequestTakes \/ RequestEnds

LEMMA TableKeeps ==
    ASSUME JobsTypeOK, TableInv, TableAction
    PROVE  minted' >= minted /\ streams' = streams /\ \A i \in JobIds : i <= minted => Keeps(i)
<1>t. /\ minted \in Nat /\ jobs \in [JobIds -> Job] /\ JobIds \subseteq Nat
      /\ \A i \in JobIds : jobs[i].lines \in Nat /\ jobs[i].marks \in Nat
      /\ RecordInv
  BY JobsAssumption DEF JobsTypeOK, JobsAssumption, Job, TableInv
<1>s. ASSUME NEW i \in JobIds, jobs'[i] = jobs[i] PROVE Keeps(i)
  <2>1. jobs[i].lines >= jobs[i].lines /\ jobs[i].marks >= jobs[i].marks
    BY <1>t
  <2> QED BY <1>s, <2>1 DEF Keeps
<1>1. ASSUME NEW kind \in Kinds, Submit(kind)
      PROVE  minted' >= minted /\ streams' = streams /\ \A i \in JobIds : i <= minted => Keeps(i)
  <2> DEFINE js == [jobs EXCEPT ![minted + 1] = Fresh(kind)]
  <2>1. minted' >= minted /\ streams' = streams /\ jobs' = Swept(js)
    BY <1>1, <1>t DEF Submit
  <2>2. ASSUME NEW i \in JobIds, i <= minted PROVE js[i] = jobs[i]
    BY <2>2, <1>t
  <2> HIDE DEF js
  <2>3. ASSUME NEW i \in JobIds, i <= minted PROVE Keeps(i)
    <3>1. CASE jobs'[i] = js[i]
      BY <3>1, <2>2, <2>3, <1>s
    <3>2. CASE js[i].status \in Terminal /\ jobs'[i] = [js[i] EXCEPT !.held = FALSE]
      <4>1. js[i] = jobs[i]
        BY <2>2, <2>3
      <4> QED BY <4>1, <3>2, <1>t DEF Keeps, Job
    <3> QED BY <3>1, <3>2, <2>1, SweepDropsFinished
  <2> QED BY <2>1, <2>3
<1>2. ASSUME NEW i \in JobIds, Cancel(i) \/ Work(i) \/ Publish(i)
      PROVE  minted' >= minted /\ streams' = streams /\ \A k \in JobIds : k <= minted => Keeps(k)
  <2>1. jobs[i] \in Job /\ RecordOK(jobs[i])
    BY <1>t DEF RecordInv
  <2>2. minted' = minted /\ streams' = streams
    BY <1>2 DEF Cancel, Work, Publish, Await, Start, Finish, Report, Leave
  <2>3. \A k \in JobIds \ {i} : jobs'[k] = jobs[k]
    BY <1>2, <1>t DEF Cancel, Work, Publish, Await, Start, Finish, Report, Leave
  <2>4. Keeps(i)
    <3>1. CASE Cancel(i)
      BY <3>1, <2>1, <1>t DEF Cancel, Live, Keeps, Job
    <3>2. CASE Await(i)
      BY <3>2, <2>1, <1>t DEF Await, Keeps, Job
    <3>3. CASE Start(i)
      BY <3>3, <2>1, <1>t DEF Start, Startable, Ready, Keeps, Job, Terminal, RecordOK
    <3>4. CASE Finish(i)
      BY <3>4, <2>1, <1>t DEF Finish, Keeps, Job
    <3>5. CASE Report(i)
      BY <3>5, <2>1, <1>t DEF Report, Live, Keeps, Job
    <3>6. CASE Leave(i)
      BY <3>6, <2>1, <1>t DEF Leave, Keeps, Job
    <3>7. CASE Publish(i)
      <4>1. jobs[i].status \notin Terminal /\ jobs[i].held
        BY <3>7, <2>1 DEF Publish, RecordOK, Terminal
      <4>2. PICK r \in {[jobs[i] EXCEPT !.lines = jobs[i].lines + 1],
                       [jobs[i] EXCEPT !.marks = jobs[i].marks + 1]} : jobs' = [jobs EXCEPT ![i] = r]
        BY <3>7 DEF Publish
      <4>3. jobs'[i] = r
        BY <4>2, <1>t
      <4>4. r.lines >= jobs[i].lines /\ r.marks >= jobs[i].marks /\ r.worker = jobs[i].worker
        BY <4>2, <2>1, <1>t DEF Job
      <4>5. r.ran = jobs[i].ran /\ r.held = jobs[i].held
        BY <4>2, <2>1 DEF Job
      <4> QED BY <4>1, <4>3, <4>4, <4>5 DEF Keeps
    <3> QED BY <1>2, <3>1, <3>2, <3>3, <3>4, <3>5, <3>6, <3>7 DEF Work
  <2>5. \A k \in JobIds : k <= minted => Keeps(k)
    BY <2>3, <2>4, <1>s
  <2> QED BY <2>2, <2>5, <1>t
<1>3. ASSUME RequestTakes \/ RequestEnds
      PROVE  minted' >= minted /\ streams' = streams /\ \A i \in JobIds : i <= minted => Keeps(i)
  BY <1>3, <1>t, <1>s DEF RequestTakes, RequestEnds
<1> QED BY <1>1, <1>2, <1>3 DEF TableAction

\* A polled cursor keeps what is said of cursors, whatever channel it reads.
LEMMA PolledOK ==
    ASSUME JobsTypeOK, TableInv, NEW c \in Cursor, CursorOK(c), c.phase \in {"first", "live", "draining"}
    PROVE  CursorOK(Polled(c))
<1> DEFINE j == jobs[c.job]
<1>1. /\ c.job \in JobIds /\ c.job <= minted /\ j \in Job /\ j.worker # "unborn"
      /\ c.lines <= j.lines /\ c.marks <= j.marks /\ c.last \notin Terminal
      /\ c.phase = "draining" => j.status \in Terminal
  BY DEF CursorOK, JobsTypeOK
<1>2. c.lines \in Nat /\ c.marks \in Nat /\ j.lines \in Nat /\ j.marks \in Nat
  BY <1>1 DEF Cursor, Job
\* A record that was handed out and is no longer in the table has a final status.
<1>3. ~j.held => j.status \in Terminal
  BY <1>1 DEF TableInv, RecordInv, RecordOK
\* The cursor sends what it had not sent.
<1>4. ASSUME NEW d \in Cursor, d.job = c.job, d.lines <= j.lines, d.marks <= j.marks, d.last \notin Terminal,
             d.phase = "draining" => j.status \in Terminal, d.phase # "closed"
      PROVE  CursorOK(d)
  BY <1>1, <1>4 DEF CursorOK
\* Draining, or about to.
<1>5. ASSUME NEW d \in Cursor, d.job = c.job, d.lines = c.lines, d.marks = c.marks, j.status \in Terminal
      PROVE  CursorOK(DrainThenFinish(d))
  <2>1. CASE d.lines < j.lines
    <3> DEFINE e == [SendLine(d) EXCEPT !.phase = "draining"]
    <3>1. DrainThenFinish(d) = e
      BY <1>2, <1>5, <2>1 DEF DrainThenFinish
    <3>2. e.job = c.job /\ e.lines = d.lines + 1 /\ e.marks = c.marks /\ e.last = "log" /\ e.phase = "draining"
      BY <1>5 DEF SendLine, Cursor
    <3>3. e \in Cursor
      BY <1>1, <1>5, <3>1, DrainType DEF JobsTypeOK
    <3> HIDE DEF e
    <3>4. e.lines <= j.lines /\ e.marks <= j.marks /\ e.last \notin Terminal
      BY <3>2, <2>1, <1>1, <1>2, <1>5 DEF Terminal
    <3> QED BY <3>1, <3>2, <3>3, <3>4, <1>4, <1>5
  <2>2. CASE ~(d.lines < j.lines) /\ j.held /\ d.marks < j.marks
    <3> DEFINE e == [SendMark(d) EXCEPT !.phase = "draining"]
    <3>1. DrainThenFinish(d) = e
      BY <1>2, <1>5, <2>2 DEF DrainThenFinish
    <3>2. e.job = c.job /\ e.lines = d.lines /\ e.marks = j.marks /\ e.last = "progress" /\ e.phase = "draining"
      BY <1>5 DEF SendMark, Cursor
    <3>3. e \in Cursor
      BY <1>1, <1>5, <3>1, DrainType DEF JobsTypeOK
    <3> HIDE DEF e
    <3>4. e.lines <= j.lines /\ e.marks <= j.marks /\ e.last \notin Terminal
      BY <3>2, <2>2, <1>1, <1>2, <1>5 DEF Terminal
    <3> QED BY <3>1, <3>2, <3>3, <3>4, <1>4, <1>5
  <2>3. CASE ~(d.lines < j.lines) /\ ~(j.held /\ d.marks < j.marks)
    <3> DEFINE e == [d EXCEPT !.phase = "closed", !.last = j.status]
    <3>1. DrainThenFinish(d) = e
      BY <1>2, <1>5, <2>3 DEF DrainThenFinish
    <3>2. e.job = c.job /\ e.lines = d.lines /\ e.marks = d.marks /\ e.last = j.status /\ e.phase = "closed"
      BY <1>5 DEF Cursor
    <3> HIDE DEF e
    <3>3. e.lines = j.lines
      BY <3>2, <2>3, <1>1, <1>2, <1>5
    <3> QED BY <3>1, <3>2, <3>3, <2>3, <1>1, <1>2, <1>5 DEF CursorOK
  <2> QED BY <2>1, <2>2, <2>3
<1>6. CursorOK(OnStatus(c))
  <2>1. CASE j.status \in Terminal
    <3>1. [c EXCEPT !.seen = j.status] \in Cursor
      BY <1>1, CursorFields, Zenon DEF Job
    <3>2. OnStatus(c) = DrainThenFinish([c EXCEPT !.seen = j.status])
      BY <2>1 DEF OnStatus
    <3> QED BY <3>1, <3>2, <2>1, <1>5 DEF Cursor
  <2>2. CASE j.status \notin Terminal
    <3> DEFINE d == [c EXCEPT !.phase = "live", !.seen = j.status, !.last = j.status]
    <3>1. OnStatus(c) = d
      BY <2>2 DEF OnStatus
    <3>2. d \in Cursor
      BY <3>1, <1>1, OnStatusType DEF JobsTypeOK
    <3>3. d.job = c.job /\ d.lines = c.lines /\ d.marks = c.marks /\ d.last = j.status /\ d.phase = "live"
      BY DEF Cursor
    <3> HIDE DEF d
    <3> QED BY <3>1, <3>2, <3>3, <2>2, <1>1, <1>4
  <2> QED BY <2>1, <2>2
<1>7. CASE c.phase = "first"
  BY <1>6, <1>7 DEF Polled
<1>8. CASE c.phase = "draining"
  BY <1>1, <1>5, <1>8 DEF Polled
<1>9. CASE c.phase = "live"
  <2>1. CASE c.lines < j.lines
    <3>1. Polled(c) = SendLine(c) /\ SendLine(c) \in Cursor
      BY <1>1, <1>9, <2>1, SendType DEF Polled, JobsTypeOK
    <3>2. /\ SendLine(c).job = c.job /\ SendLine(c).lines = c.lines + 1 /\ SendLine(c).marks = c.marks
          /\ SendLine(c).last = "log" /\ SendLine(c).phase = "live"
      BY <1>9 DEF SendLine, Cursor
    <3> QED BY <3>1, <3>2, <2>1, <1>1, <1>2, <1>4 DEF Terminal
  <2>2. CASE ~(c.lines < j.lines) /\ c.marks < j.marks
    <3>1. Polled(c) = SendMark(c) /\ SendMark(c) \in Cursor
      BY <1>1, <1>9, <2>2, SendType DEF Polled, JobsTypeOK
    <3>2. /\ SendMark(c).job = c.job /\ SendMark(c).lines = c.lines /\ SendMark(c).marks = j.marks
          /\ SendMark(c).last = "progress" /\ SendMark(c).phase = "live"
      BY <1>9 DEF SendMark, Cursor
    <3> QED BY <3>1, <3>2, <2>2, <1>1, <1>2, <1>4 DEF Terminal
  <2>3. CASE ~(c.lines < j.lines) /\ ~(c.marks < j.marks) /\ ~j.held
    <3> DEFINE e == [c EXCEPT !.phase = "closed"]
    <3>1. Polled(c) = e
      BY <1>9, <2>3 DEF Polled
    <3>2. e.job = c.job /\ e.lines = c.lines /\ e.marks = c.marks /\ e.last = c.last /\ e.phase = "closed"
      BY DEF Cursor
    <3> HIDE DEF e
    <3>3. c.lines = j.lines
      BY <2>3, <1>1, <1>2
    <3> QED BY <3>1, <3>2, <3>3, <2>3, <1>1, <1>2, <1>3 DEF CursorOK
  <2>4. CASE ~(c.lines < j.lines) /\ ~(c.marks < j.marks) /\ j.held
    BY <1>6, <1>9, <2>4 DEF Polled
  <2> QED BY <2>1, <2>2, <2>3, <2>4
<1> QED BY <1>7, <1>8, <1>9

LEMMA CursorStep == JobsTypeOK /\ TableInv /\ CursorInv /\ [JobsNext]_jobVars => CursorInv'
<1> SUFFICES ASSUME JobsTypeOK, TableInv, CursorInv, [JobsNext]_jobVars PROVE CursorInv'
  OBVIOUS
<1>t. streams \in [Streams -> Cursor] /\ jobs \in [JobIds -> Job]
  BY DEF JobsTypeOK
<1>0. CASE UNCHANGED jobVars
  BY <1>0 DEF jobVars, CursorInv, CursorOK
<1>1. CASE TableAction
  <2>1. minted' >= minted /\ streams' = streams /\ \A i \in JobIds : i <= minted => Keeps(i)
    BY <1>1, TableKeeps
  <2> SUFFICES ASSUME NEW s \in Streams, streams[s].phase # "off" PROVE CursorOK(streams[s])'
    BY <2>1 DEF CursorInv, CursorOK
  <2> DEFINE c == streams[s]
  <2>2. streams'[s] = c /\ CursorOK(c) /\ c \in Cursor
    BY <2>1, <1>t DEF CursorInv
  <2>3. c.job \in JobIds /\ c.job <= minted /\ Keeps(c.job)
    BY <2>1, <2>2 DEF CursorOK
  <2>4. /\ c.lines \in Nat /\ c.marks \in Nat /\ minted \in Nat /\ minted' \in Nat /\ c.job \in Nat
        /\ jobs[c.job].lines \in Nat /\ jobs[c.job].marks \in Nat
        /\ jobs'[c.job].lines \in Nat /\ jobs'[c.job].marks \in Nat
    <3>1. JobsTypeOK'
      BY JobsTypeStep DEF TableInv
    <3> QED BY <3>1, <2>2, <2>3, JobsAssumption DEF JobsTypeOK, Cursor, Job, JobsAssumption
  <2>5. c.lines <= jobs'[c.job].lines /\ c.marks <= jobs'[c.job].marks /\ c.job <= minted'
    BY <2>1, <2>2, <2>3, <2>4 DEF CursorOK, Keeps
  <2>6. c.phase = "closed" =>
          /\ jobs'[c.job].status \in Terminal
          /\ c.lines = jobs'[c.job].lines
          /\ c.last \in Terminal => c.last = jobs'[c.job].status
          /\ c.last \notin Terminal \/ c.marks < jobs'[c.job].marks => ~jobs'[c.job].held
    BY <2>2, <2>3 DEF CursorOK, Keeps
  <2>7. /\ jobs'[c.job].worker # "unborn" /\ (c.phase # "closed" => c.last \notin Terminal)
        /\ c.phase = "draining" => jobs'[c.job].status \in Terminal
    BY <2>2, <2>3 DEF CursorOK, Keeps
  <2> QED BY <2>2, <2>3, <2>5, <2>6, <2>7 DEF CursorOK
<1>2. ASSUME NEW s \in Streams, Poll(s) PROVE CursorInv'
  <2>1. streams[s].phase \in {"first", "live", "draining"} /\ streams[s] \in Cursor /\ CursorOK(streams[s])
    BY <1>2, <1>t DEF Poll, Cursor, CursorInv
  <2>2. CursorOK(Polled(streams[s]))
    BY <2>1, PolledOK
  <2>3. streams' = [streams EXCEPT ![s] = Polled(streams[s])] /\ UNCHANGED <<minted, jobs>>
    BY <1>2 DEF Poll
  <2>4. ASSUME NEW o \in Streams PROVE CursorOK(streams'[o])
    BY <2>2, <2>3, <1>t DEF CursorInv
  <2> QED BY <2>3, <2>4 DEF CursorInv, CursorOK
<1>3. ASSUME NEW s \in Streams, NEW i \in JobIds, Attach(s, i) PROVE CursorInv'
  <2> DEFINE d == [Off EXCEPT !.job = i, !.phase = "first", !.lines = jobs[i].lines, !.marks = jobs[i].marks]
  <2>1. streams' = [streams EXCEPT ![s] = d] /\ UNCHANGED <<minted, jobs>> /\ jobs[i].held
    BY <1>3 DEF Attach
  <2>2. d.job = i /\ d.phase = "first" /\ d.lines = jobs[i].lines /\ d.marks = jobs[i].marks /\ d.last = None
    BY DEF Off
  <2> HIDE DEF d
  <2>3. jobs[i].worker # "unborn" /\ i <= minted /\ jobs[i].lines \in Nat /\ jobs[i].marks \in Nat
    BY <2>1, <1>t, JobsAssumption DEF TableInv, RecordInv, RecordOK, MintedInv, JobsAssumption, JobsTypeOK, Job
  <2>4. CursorOK(d)
    BY <2>2, <2>3, NoneIsNoStatus DEF CursorOK
  <2>5. ASSUME NEW o \in Streams PROVE CursorOK(streams'[o])
    BY <2>1, <2>4, <1>t DEF CursorInv
  <2> QED BY <2>1, <2>5 DEF CursorInv, CursorOK
<1> QED BY <1>0, <1>1, <1>2, <1>3 DEF JobsNext, TableAction

(******************************** theorems ********************************)

LEMMA JobsInvariant == JobsSpec => [](JobsTypeOK /\ TableInv /\ CursorInv)
<1>1. JobsInit => JobsTypeOK /\ TableInv /\ CursorInv
  <2> SUFFICES ASSUME JobsInit PROVE JobsTypeOK /\ TableInv /\ CursorInv
    OBVIOUS
  <2>1. Unborn \in Job /\ RecordOK(Unborn) /\ Unborn.worker = "unborn" /\ Unborn.kind = None /\ ~Live(Unborn)
    BY DEF Unborn, Fresh, Job, Statuses, Terminal, RecordOK, Live
  <2>2. Off \in Cursor /\ Off.phase = "off"
    BY DEF Off, Cursor, Statuses
  <2>3. \A i \in JobIds : jobs[i] = Unborn
    BY DEF JobsInit
  <2>4. JobsTypeOK
    BY <2>1, <2>2 DEF JobsInit, JobsTypeOK
  <2>5. TableInv
    BY <2>1, <2>3 DEF TableInv, RecordInv, PermitInv, MintedInv, OneJobPerRepo
  <2>6. CursorInv
    BY <2>2 DEF JobsInit, CursorInv, CursorOK
  <2> QED BY <2>4, <2>5, <2>6
<1>2. JobsTypeOK /\ TableInv /\ CursorInv /\ [JobsNext]_jobVars => (JobsTypeOK /\ TableInv /\ CursorInv)'
  BY JobsTypeStep, TableStep, CursorStep DEF TableInv
<1> QED BY <1>1, <1>2, PTL DEF JobsSpec

\* The type invariant of the job table, the permit and the streams.
THEOREM JobsTypeCorrect == JobsSpec => []JobsTypeOK
BY JobsInvariant, PTL

\* A job whose cancel was answered "cancelled" never runs, evicted or not
\* (JobRegistry::cancel, try_start).
THEOREM CancelledNeverRunsAlways == JobsSpec => []CancelledNeverRuns
<1>1. TableInv => CancelledNeverRuns
  BY DEF TableInv, RecordInv, RecordOK, CancelledNeverRuns
<1> QED BY <1>1, JobsInvariant, PTL

\* The table never loses a job that runs and shows what each worker did
\* (set_status, evict_finished).
THEOREM RegistryTellsTheWorkerAlways == JobsSpec => []RegistryTellsTheWorker
<1>1. TableInv => RegistryTellsTheWorker
  BY DEF TableInv, RecordInv, RecordOK, RegistryTellsTheWorker
<1> QED BY <1>1, JobsInvariant, PTL

\* One mutating job is shown running at a time, and it holds the permit.
THEOREM OneWriterShowsAlways == JobsSpec => []OneWriterShows
<1>1. JobsTypeOK /\ TableInv => OneWriterShows
  BY DEF JobsTypeOK, Job, TableInv, RecordInv, RecordOK, PermitInv, OneWriterShows
<1> QED BY <1>1, JobsInvariant, PTL

\* At most one queued or running indexing job per repository
\* (insert_for_unless_active).
THEOREM OneJobPerRepoAlways == JobsSpec => []OneJobPerRepo
<1>1. TableInv => OneJobPerRepo
  BY DEF TableInv
<1> QED BY <1>1, JobsInvariant, PTL

\* A stream that ended with an outcome lost no log line and, unless the record
\* was swept, no progress; one that ended without had lost its job to the sweep.
THEOREM StreamsAreWholeAlways == JobsSpec => []StreamsAreWhole
<1>1. CursorInv => StreamsAreWhole
  BY DEF CursorInv, CursorOK, StreamsAreWhole
<1> QED BY <1>1, JobsInvariant, PTL

\* No cancel, late report or sweep takes back what a job came to, and no body is
\* started twice (JobRegistry::set_status, try_start, evict_finished).
THEOREM OutcomesStayAlways == JobsSpec => OutcomesStay
<1>1. JobsTypeOK /\ TableInv /\ [JobsNext]_jobVars =>
        [\A i \in JobIds : LET j == jobs[i]  k == jobs'[i] IN j.worker # "unborn" =>
           /\ j.status \in Terminal => k.status = j.status
           /\ ~j.held => ~k.held
           /\ j.ran => k.ran /\ (k.worker = "body" => j.worker = "body")]_jobVars
  <2> SUFFICES ASSUME JobsTypeOK, TableInv, JobsNext, NEW i \in JobIds, jobs[i].worker # "unborn"
               PROVE  /\ jobs[i].status \in Terminal => jobs'[i].status = jobs[i].status
                      /\ ~jobs[i].held => ~jobs'[i].held
                      /\ jobs[i].ran => jobs'[i].ran /\ (jobs'[i].worker = "body" => jobs[i].worker = "body")
    OBVIOUS
  <2>1. CASE TableAction
    <3>1. i <= minted
      BY JobsAssumption DEF TableInv, MintedInv, JobsTypeOK, JobsAssumption
    <3>2. Keeps(i)
      BY <2>1, <3>1, TableKeeps
    <3> QED BY <3>2 DEF Keeps
  <2>2. CASE \E s \in Streams : Poll(s) \/ \E k \in JobIds : Attach(s, k)
    BY <2>2 DEF Poll, Attach
  <2> QED BY <2>1, <2>2 DEF JobsNext, TableAction
<1> QED BY <1>1, JobsInvariant, PTL DEF JobsSpec, OutcomesStay
=============================================================================
