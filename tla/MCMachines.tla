---- MODULE MCMachines ----
\* What machines do by themselves and through the feed, in parts that share
\* nothing: the commands of one data directory; and which code generation a
\* machine follows - with breaks and sweeps, or with one memory in the feed that x
\* may hold back.  An index only matters when it is captured, so it changes just
\* before; x is first, with s1.  A pass may rest, as it must where a bound is used up.
EXTENDS MCMemory, CodeGenerations
CONSTANTS x, y, s1
VARIABLE part
IndexedWhenCaptured ==
    \A m \in Machines : index'[m] # index[m] =>
        In(m, "capture") /\ (indexed = 0 => m = x /\ index'[m] = s1)
Within ==
    /\ IndexedWhenCaptured
    /\ CASE part = "breaks"  -> 0 \notin Range(chain')
         [] part = "rewinds" ->
              /\ breaks' = 0 /\ heldBack'[y] = {}
              /\ \A m \in Machines : In(m, "idle") => drain'[m].step # "push"
MCInit ==
    /\ part \in {"memory", "breaks", "rewinds"} /\ Init /\ CodeInit
    /\ part # "memory" => live = trash          \* an empty data directory: nothing to choose
MCNext ==
    \/ part = "memory" /\ Next /\ UNCHANGED <<part, codeVars>>
    \/ part # "memory" /\ CodeNext /\ Within /\ UNCHANGED <<part, vars>>
    \/ part # "memory" /\ UNCHANGED <<part, vars, codeVars>>
MCSpec == MCInit /\ [][MCNext]_<<part, vars, codeVars>>
====
