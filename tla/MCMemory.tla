---- MODULE MCMemory ----
EXTENDS MemoryWrite, TLC
MemorySymmetry == Permutations(Procs) \cup Permutations(Ids)
====
