CONSTANTS
  d1 = d1
  d2 = d2
  w1 = w1
  w2 = w2
  Docs = {d1, d2}
  Writers = {w1, w2}
  ReceivedClocks <- MCReceivedClocks
  MaxBatch = 2
  MaxSequence = 4
  NoWriter = NoWriter

SPECIFICATION FairSpec
INVARIANTS TypeOK LamportOrder
PROPERTIES ImplementsDocumentLog NoLateCommit EveryTransactionEnds
