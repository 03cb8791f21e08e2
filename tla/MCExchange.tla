---- MODULE MCExchange ----
EXTENDS ReplicaExchange, TLC
ClientSymmetry == Permutations(Clients)
ExchangeSymmetry == ClientSymmetry \cup Permutations(Values)
====
