---- MODULE MCAgreement ----
\* MemoryWrite at two corners of its bounds, each a part of the run: saves and
\* gc of two processes on one memory, killed and failing; and every command of
\* one process on two memories, killed twice or, within the greatest number of
\* commands, once. Which memory comes first is fixed.
EXTENDS MemoryWrite
CONSTANTS m2, p2
VARIABLE part
Within ==
    IF part = "saves"
      THEN \A p \in Procs : req'[p].kind \in {"none", "save", "gc"} /\ req'[p].id # m2
      ELSE /\ pc'[p2] = "down" /\ failures' = 0
           /\ (minted' = 1 => \A p \in Procs : req'[p].id # m2)
           /\ (minted' = MaxOps => crashes' < MaxCrashes)
MCInit ==
    /\ part \in {"saves", "recovery"} /\ Init
    /\ part = "saves" => live[m2] = None /\ trash[m2] = None
MCSpec ==
    /\ MCInit /\ [][Next /\ Within /\ UNCHANGED part]_<<part, vars>>
    /\ \A p \in Procs : WF_<<part, vars>>(Proceed(p) /\ Within /\ UNCHANGED part)
====
