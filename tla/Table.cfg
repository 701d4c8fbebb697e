SPECIFICATION FairSpec
CONSTANTS
  k1 = k1  k2 = k2  k3 = k3  k4 = k4
  Keys = {k1, k2, k3, k4}
  Hash <- MCHash
  Nil = Nil  True = True  NoKey = NoKey  Absent = Absent
  Vals = {Nil, True}
  MinCapacity = 4
  MaxCapacity = 8
  Inputs <- MCInputs
  Batches <- MCBatches
INVARIANTS ProbesEnd KeysReachable
PROPERTIES ImplementsDictionary CallsReturn
