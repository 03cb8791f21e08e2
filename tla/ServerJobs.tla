---------------------------- MODULE ServerJobs ----------------------------
(* The background jobs of `comemory serve`: the in-process job table, the
   task that runs each job, the one write permit jobs share with synchronous
   requests, and the event streams that tell a client how a job went.

   Every operation of the table is one lock hold in the code and one step
   here.  The permit is a tokio semaphore of one: a job awaits it in arrival
   order, a released permit is handed to the first waiter, and a request only
   tries it.  A job that left the table keeps its last record here, with
   held = FALSE, so that properties can speak of it; no action reads the
   status of such a record. *)
EXTENDS Naturals, Sequences, FiniteSets

CONSTANTS
    None, Request, \* nobody; a synchronous request, as holders of the permit
    JobIds,        \* the insertion numbers, an interval of the naturals
    Repos,         \* repositories an indexing job can be labelled with
    Kinds,         \* the jobs asked for: "read", "write" or a repository's
    Streams,       \* event streams clients open, each at most once
    MaxFinished,   \* finished jobs retained (100 in the code)
    MaxReports     \* bound: log lines and progress reports of one job

ASSUME JobsAssumption ==
    /\ JobIds \subseteq Nat
    /\ None \notin JobIds /\ None \notin {"done", "cancelled"}
    /\ Request \notin JobIds
    /\ Kinds \subseteq {"read", "write"} \cup Repos
    /\ "read" \notin Repos /\ "write" \notin Repos

VARIABLES
    minted,      \* how many insertion numbers were handed out
    jobs,        \* the record of each job, and the state of its worker
    permit,      \* who holds the write permit: a job, a Request or None
    waiters,     \* the jobs queued on the permit, in order
    streams      \* each event stream's cursor

jobVars == <<minted, jobs, permit, waiters, streams>>

(***************************** the job table ******************************)

Terminal == {"done", "cancelled"}    \* "done" stands for Done and for Error
Statuses == {"queued", "running"} \cup Terminal

Job == [kind : Kinds \cup {None}, status : Statuses, cancel : BOOLEAN, held : BOOLEAN,
        told : BOOLEAN, ran : BOOLEAN, lines : Nat, marks : Nat,
        worker : {"unborn", "spawned", "waiting", "body", "report", "leaving", "ended"},
        outcome : Terminal \cup {None}]

\* A record as new_job makes it; told remembers a cancel that was answered
\* "cancelled", ran that the body was started.
Fresh(kind) ==
    [kind |-> kind, status |-> "queued", cancel |-> FALSE, held |-> TRUE,
     told |-> FALSE, ran |-> FALSE, lines |-> 0, marks |-> 0,
     worker |-> "spawned", outcome |-> None]

Unborn == [Fresh(None) EXCEPT !.held = FALSE, !.worker = "unborn"]

Mutating(j) == j.kind # "read"
Live(j) == j.held /\ j.status \notin Terminal

\* mutant: the sweep counts running jobs too
FinishedOrRunning(js) == {i \in JobIds : js[i].held /\ js[i].status # "queued"}
\* The finished jobs the table holds, and those the sweep drops: the oldest by
\* insertion number, until MaxFinished remain.
Finished(js) == {i \in JobIds : js[i].held /\ js[i].status \in Terminal}
Evicted(js) ==
    {i \in Finished(js) : Cardinality({k \in Finished(js) : k >= i}) > MaxFinished}
Swept(js) == [i \in JobIds |-> IF i \in Evicted(js) THEN [js[i] EXCEPT !.held = FALSE] ELSE js[i]]

\* mutant: only a running job keeps a repository busy
ActiveRunning(repo) == {i \in JobIds : Live(jobs[i]) /\ jobs[i].kind = repo /\ jobs[i].status = "running"}
Active(repo) == {i \in JobIds : Live(jobs[i]) /\ jobs[i].kind = repo}

\* spawn_job_for: check for a live job of the repository, insert and sweep
\* under one lock hold, then spawn the task.
Submit(kind) ==
    /\ minted + 1 \in JobIds
    /\ kind \in Repos => Active(kind) = {}
    /\ minted' = minted + 1
    /\ jobs' = Swept([jobs EXCEPT ![minted + 1] = Fresh(kind)])
    /\ UNCHANGED <<permit, waiters, streams>>

\* mutant: a cancelled job is given a status the views do not know
CancelUnknown(i) ==
    /\ Live(jobs[i])
    /\ jobs' = [jobs EXCEPT ![i].status = "removed", ![i].cancel = TRUE]
    /\ UNCHANGED <<minted, permit, waiters, streams>>
\* A queued job is cancelled at once; a running one only has its flag set.
Cancel(i) ==
    /\ Live(jobs[i])
    /\ jobs' = [jobs EXCEPT ![i] = IF @.status = "queued"
                                   THEN [@ EXCEPT !.cancel = TRUE, !.status = "cancelled", !.told = TRUE]
                                   ELSE [@ EXCEPT !.cancel = TRUE]]
    /\ UNCHANGED <<minted, permit, waiters, streams>>

(******************************* the worker *******************************)

\* mutant: the next waiter is only woken, and finds the permit taken
ReleaseForgetting == permit' = None /\ UNCHANGED waiters
\* A released permit goes to the first waiter, if there is one.
Release ==
    IF waiters = <<>>
      THEN permit' = None /\ UNCHANGED waiters
      ELSE permit' = Head(waiters) /\ waiters' = Tail(waiters)

Await(i) ==
    /\ jobs[i].worker = "spawned" /\ Mutating(jobs[i])
    /\ jobs' = [jobs EXCEPT ![i].worker = "waiting"]
    /\ IF permit = None
         THEN permit' = i /\ UNCHANGED waiters
         ELSE waiters' = Append(waiters, i) /\ UNCHANGED permit
    /\ UNCHANGED <<minted, streams>>

Ready(i) ==
    IF Mutating(jobs[i]) THEN jobs[i].worker = "waiting" /\ permit = i
                         ELSE jobs[i].worker = "spawned"

\* mutant: the worker checks its flag and the record, but not whether the record
\* is still there
StartableByStatus(j) == j.status # "running" /\ (j.held => ~j.cancel)
\* try_start, with the flag the worker holds read just before: Queued becomes
\* Running in one lock hold, or the body is skipped.
Startable(j) == j.held /\ j.status = "queued" /\ ~j.cancel
Start(i) ==
    /\ Ready(i)
    /\ jobs' = [jobs EXCEPT ![i] =
                  IF Startable(@)
                    THEN [@ EXCEPT !.status = "running", !.worker = "body", !.ran = TRUE]
                    ELSE [@ EXCEPT !.worker = "leaving"]]
    /\ UNCHANGED <<minted, permit, waiters, streams>>

\* The body reports through the registry: a log line or a progress value. One
\* that no stream listens to is not replayed later, so it is left out.
Publish(i) ==
    /\ jobs[i].worker = "body" /\ jobs[i].held
    /\ \E s \in Streams : streams[s].job = i
    /\ jobs[i].lines + jobs[i].marks < MaxReports
    /\ \/ jobs' = [jobs EXCEPT ![i].lines = @ + 1]
       \/ jobs' = [jobs EXCEPT ![i].marks = @ + 1]
    /\ UNCHANGED <<minted, permit, waiters, streams>>

\* mutant: the permit is bound to the blocking body alone
FinishReleasing(i) ==
    /\ jobs[i].worker = "body"
    /\ jobs' = [jobs EXCEPT ![i].worker = "report", ![i].outcome = "done"]
    /\ IF permit = i THEN Release ELSE UNCHANGED <<permit, waiters>>
    /\ UNCHANGED <<minted, streams>>
\* A body ends as it likes; it stops as cancelled only after it saw the flag,
\* which it reads through the table.
Finish(i) ==
    /\ jobs[i].worker = "body"
    /\ \E outcome \in Terminal :
         /\ outcome = "cancelled" => jobs[i].held /\ jobs[i].cancel
         /\ jobs' = [jobs EXCEPT ![i].worker = "report", ![i].outcome = outcome]
    /\ UNCHANGED <<minted, permit, waiters, streams>>

\* set_status: a terminal status is sticky, an unknown job is only logged.
Report(i) ==
    /\ jobs[i].worker = "report"
    /\ jobs' = [jobs EXCEPT ![i] =
                  IF Live(@) THEN [@ EXCEPT !.worker = "leaving", !.status = jobs[i].outcome]
                             ELSE [@ EXCEPT !.worker = "leaving"]]
    /\ UNCHANGED <<minted, permit, waiters, streams>>

\* The task returns and its permit drops with it.
Leave(i) ==
    /\ jobs[i].worker = "leaving"
    /\ jobs' = [jobs EXCEPT ![i].worker = "ended"]
    /\ IF permit = i THEN Release ELSE UNCHANGED <<permit, waiters>>
    /\ UNCHANGED <<minted, streams>>

\* A synchronous mutating request: it takes a free permit or answers busy.
RequestTakes ==
    /\ permit = None
    /\ permit' = Request
    /\ UNCHANGED <<minted, jobs, waiters, streams>>

RequestEnds ==
    /\ permit = Request
    /\ Release
    /\ UNCHANGED <<minted, jobs, streams>>

(**************************** the event streams ***************************)

\* A cursor: what it saw of the three channels, and the last event it sent.
\* Phase draining stands for a terminal status in hand that waits for the log
\* and progress channels to run empty.
Cursor == [job : JobIds \cup {None}, phase : {"off", "first", "live", "draining", "closed"},
           seen : Statuses, lines : Nat, marks : Nat, last : Statuses \cup {"log", "progress", None}]
Off == [job |-> None, phase |-> "off", seen |-> "queued", lines |-> 0, marks |-> 0, last |-> None]

\* The three subscriptions of the events route; lines pushed earlier are not
\* replayed and the present progress counts as seen.
Attach(s, i) ==
    /\ streams[s].phase = "off"
    /\ jobs[i].held
    /\ streams' = [streams EXCEPT ![s] =
                     [Off EXCEPT !.job = i, !.phase = "first",
                                 !.lines = jobs[i].lines, !.marks = jobs[i].marks]]
    /\ UNCHANGED <<minted, jobs, permit, waiters>>

SendLine(c) == [c EXCEPT !.lines = @ + 1, !.last = "log"]
SendMark(c) == [c EXCEPT !.marks = jobs[c.job].marks, !.last = "progress"]

\* mutant: the terminal status overtakes pending log lines
FinishAtOnce(c) == [c EXCEPT !.phase = "closed", !.last = jobs[c.job].status]
\* drain_then_finish: one pending line, else a pending progress value - which a
\* channel whose sender is gone no longer shows - else the terminal status.
DrainThenFinish(c) ==
    LET j == jobs[c.job] IN
    CASE c.lines < j.lines             -> [SendLine(c) EXCEPT !.phase = "draining"]
      [] c.lines >= j.lines /\ j.held /\ c.marks < j.marks
                                       -> [SendMark(c) EXCEPT !.phase = "draining"]
      [] OTHER                         -> [c EXCEPT !.phase = "closed", !.last = j.status]

OnStatus(c) ==
    LET now == jobs[c.job].status IN
    IF now \in Terminal THEN DrainThenFinish([c EXCEPT !.seen = now])
                        ELSE [c EXCEPT !.phase = "live", !.seen = now, !.last = now]

\* The select of a live stream, in its order: a log line, a progress value, the
\* end of the progress channel, the status.
Pending(c) ==
    LET j == jobs[c.job] IN
    \/ c.phase \in {"first", "draining"}
    \/ c.phase = "live" /\ (c.lines < j.lines \/ c.marks < j.marks \/ ~j.held \/ c.seen # j.status)

Polled(c) ==
    LET j == jobs[c.job] IN
    CASE c.phase = "first"    -> OnStatus(c)
      [] c.phase = "draining" -> DrainThenFinish(c)
      [] c.phase = "live"     ->
           IF c.lines < j.lines      THEN SendLine(c)
           ELSE IF c.marks < j.marks THEN SendMark(c)
           ELSE IF ~j.held           THEN [c EXCEPT !.phase = "closed"]
           ELSE OnStatus(c)

Poll(s) ==
    /\ streams[s].phase \notin {"off", "closed"}
    /\ Pending(streams[s])
    /\ streams' = [streams EXCEPT ![s] = Polled(@)]
    /\ UNCHANGED <<minted, jobs, permit, waiters>>

(****************************** specification *****************************)

JobsInit ==
    /\ minted = 0
    /\ jobs = [i \in JobIds |-> Unborn]
    /\ permit = None
    /\ waiters = <<>>
    /\ streams = [s \in Streams |-> Off]

Work(i) == Await(i) \/ Start(i) \/ Finish(i) \/ Report(i) \/ Leave(i)

JobsNext ==
    \/ \E kind \in Kinds : Submit(kind)
    \/ \E i \in JobIds : Cancel(i) \/ Work(i) \/ Publish(i)
    \/ RequestTakes
    \/ RequestEnds
    \/ \E s \in Streams : Poll(s) \/ \E i \in JobIds : Attach(s, i)

JobsSpec == JobsInit /\ [][JobsNext]_jobVars

\* The runtime keeps polling a task that can go on; a body and a synchronous
\* request are commands that end.
JobsFairness ==
    /\ \A i \in JobIds : WF_jobVars(Work(i))
    /\ WF_jobVars(RequestEnds)

(******************************* properties *******************************)

JobsTypeOK ==
    /\ minted \in Nat
    /\ jobs \in [JobIds -> Job]
    /\ permit \in JobIds \cup {Request, None}
    /\ waiters \in Seq(JobIds)
    /\ streams \in [Streams -> Cursor]

\* A cancel that was answered "cancelled" is kept: the body of that job never
\* starts, whether its record is still in the table when its worker gets the
\* permit or was swept out in the meantime (registry.rs cancel, try_start).
CancelledNeverRuns == \A i \in JobIds : jobs[i].told => ~jobs[i].ran

\* The table agrees with the workers: a job whose body runs or has just ended
\* is in the table and shown running, however many jobs finished since, and a
\* job that ended shows what its body returned for as long as it is kept.
RegistryTellsTheWorker ==
    \A i \in JobIds : LET j == jobs[i] IN
        /\ j.worker \in {"body", "report"} => j.held /\ j.status = "running"
        /\ j.worker \in {"leaving", "ended"} /\ j.ran /\ j.held => j.status = j.outcome
        /\ j.worker \in {"leaving", "ended"} /\ j.held => j.status \in Terminal

\* One writer: two mutating jobs are never shown running together, and none is
\* while a synchronous request writes. The permit outlives the status update.
OneWriterShows ==
    \A i \in JobIds : Live(jobs[i]) /\ Mutating(jobs[i]) /\ jobs[i].status = "running" =>
        /\ permit = i
        /\ \A k \in JobIds \ {i} : Mutating(jobs[k]) => jobs[k].status # "running"

\* At most one queued or running indexing job per repository, for any
\* interleaving of requests (insert_for_unless_active).
OneJobPerRepo ==
    \A i, k \in JobIds :
        Live(jobs[i]) /\ Live(jobs[k]) /\ jobs[i].kind = jobs[k].kind /\ jobs[i].kind \in Repos
            => i = k

\* What an event stream leaves out: a stream that ended with the outcome first
\* delivered every log line pushed since it attached and, unless the record
\* was swept, the latest progress; one that ended without it had lost its job to
\* the sweep.
StreamsAreWhole ==
    \A s \in Streams : LET c == streams[s] IN c.phase = "closed" =>
        /\ c.lines = jobs[c.job].lines
        /\ c.last \in Terminal => c.last = jobs[c.job].status
        /\ c.last \notin Terminal \/ c.marks < jobs[c.job].marks => ~jobs[c.job].held

\* What a job came to stays, whatever cancels, late reports and sweeps follow: a
\* final status is never replaced, a record that was swept never comes back, and
\* a body that was started is not started again (set_status, try_start).
OutcomesStay ==
    [][\A i \in JobIds : LET j == jobs[i]  k == jobs'[i] IN j.worker # "unborn" =>
         /\ j.status \in Terminal => k.status = j.status
         /\ ~j.held => ~k.held
         /\ j.ran => k.ran /\ (k.worker = "body" => j.worker = "body")]_jobVars

\* Every accepted job ends and shows a final status: no job waits for the
\* permit forever, whatever requests and other jobs do.
EveryJobEnds ==
    \A i \in JobIds : jobs[i].worker = "spawned" ~>
        jobs[i].worker = "ended" /\ (jobs[i].held => jobs[i].status \in Terminal)
=============================================================================
