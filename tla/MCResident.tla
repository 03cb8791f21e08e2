---- MODULE MCResident ----
\* What stays resident: the server's jobs, the passes of the coordinator and the
\* hooks, and the coordinators that replace each other. They share nothing here,
\* so each is a part of the run, the jobs with and without event streams. What a
\* part leaves out is never a step that is fair; which of two equals starts first
\* is fixed.
EXTENDS ServerJobs, SyncPasses, SyncDaemon
CONSTANTS t1, t2, d1, d2
VARIABLE part
JobParts == {"jobs", "streams"}
Within ==
    CASE part = "jobs"    -> streams' = streams
      [] part = "streams" -> (minted' > minted => jobs'[minted'].kind = "write") /\ permit' # Request
      [] part = "passes"  -> run'[t2].phase # "idle" => run[t1].phase # "idle"
      [] part = "daemon"  -> coord'[d2].phase # "unborn" => coord[d1].phase # "unborn"
MCInit == part \in JobParts \cup {"passes", "daemon"} /\ JobsInit /\ PassesInit /\ DaemonInit
MCNext ==
    \/ part \in JobParts /\ JobsNext /\ Within /\ UNCHANGED <<part, passVars, daemonVars>>
    \/ part = "passes" /\ PassesNext /\ Within /\ UNCHANGED <<part, jobVars, daemonVars>>
    \/ part = "daemon" /\ DaemonNext /\ Within /\ UNCHANGED <<part, jobVars, passVars>>
\* JobsFairness, PassesFairness and DaemonFairness, each said of its own parts.
MCFairness ==
    /\ \A i \in JobIds : WF_jobVars(part \in JobParts /\ Work(i))
    /\ WF_jobVars(part \in JobParts /\ RequestEnds)
    /\ \A t \in Triggers : WF_passVars(part = "passes" /\ Hooked(t))
    /\ WF_passVars(part = "passes" /\ Works)
    /\ WF_passVars(part = "passes" /\ Indexes(ByHand))
    /\ WF_passVars(part = "passes" /\ Restart)
    /\ \A c \in Coordinators :
          /\ WF_daemonVars(part = "daemon" /\ Starts(c))
          /\ WF_daemonVars(part = "daemon" /\ Guards(c))
          /\ WF_daemonVars(part = "daemon" /\ Ends(c))
MCSpec == MCInit /\ [][MCNext]_<<part, jobVars, passVars, daemonVars>> /\ MCFairness
====
