---- MODULE MCCustody ----
\* Three systems that share nothing, each checked by itself, for safety: what
\* becomes of erased bytes, which workspace a change is sent to, whether a
\* trigger is forgotten - this one with runs by hand, or with two commits to a
\* checkout.  Which of two equals comes first is fixed.
EXTENDS EraseRestore, SessionKeys, SyncPasses
CONSTANTS A, t1, t2
VARIABLE part
OneFirst == run'[t2].phase # "idle" => run[t1].phase # "idle"
Within ==
    CASE part = "bytes"   -> kills' + copies' + erases' <= MaxKills + 1
      [] part = "keys"    -> switches = 0 => {auth', user'.to} \subseteq {NoKey, A}
      [] part = "races"   -> OneFirst /\ faults' = 0 /\ \A c \in Checkouts : head'[c] < MaxHead
      [] part = "commits" -> OneFirst /\ ticks' = 0 /\ faults' = 0 /\ byHand' = 0
MCInit ==
    /\ part \in {"bytes", "keys", "races", "commits"}
    /\ Init /\ KeysInit /\ PassesInit
MCNext ==
    \/ part = "bytes" /\ Next /\ Within /\ UNCHANGED <<part, keyVars, passVars>>
    \/ part = "keys" /\ KeysNext /\ Within /\ UNCHANGED <<part, vars, passVars>>
    \/ part \in {"races", "commits"} /\ PassesNext /\ Within
       /\ UNCHANGED <<part, vars, keyVars>>
MCSpec == MCInit /\ [][MCNext]_<<part, vars, keyVars, passVars>>
====
