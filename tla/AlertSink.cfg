\* The store under two concurrent connections: what may be listed, whether the
\* threads implement the atomic history, whether they get through.  Deadlock is not checked: a
\* server whose clients have no more requests rests.
SPECIFICATION FairSpec
CONSTANTS
  c1 = c1
  c2 = c2
  f1 = f1
  f2 = f2
  i1 = i1
  NoFingerprint = NoFingerprint
  Malformed = Malformed
  NoOne = NoOne
  Clients <- MCClients
  Fingerprints <- MCFingerprints
  Identities <- MCIdentities
  Batches <- MCBatches
  Capacity = 2
  MaxRequests = 3
  MaxRestarts = 1
CHECK_DEADLOCK FALSE
INVARIANTS
  TypeOK
  ListedIsLatest
  ResponseTellsStore
PROPERTIES
  ImplementsHistory
  EveryRequestAnswered
