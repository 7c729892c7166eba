SPECIFICATION LiveSpec
CONSTANTS
  malformed = malformed
  old = old
  new = new
  orphan = orphan
  unwritable = unwritable
  known = known
  unknown = unknown
  review = review
  other = other
  NoWorker = NoWorker
  NoRow = NoRow
  Worker = {w1, w2}
  Partition = {p1}
  Message = {malformed, new}
  Decodable <- MCDecodable
  Unwritable <- MCUnwritable
  Package <- MCPackage
  PackageOf <- MCPackageOf
  Key <- MCKey
  KeyOf <- MCKeyOf
  ObservedAt <- MCObservedAt
  InitiallyRegistered <- MCInitiallyRegistered
  MaxPollRecords = 2
  MaxRetries = 0
  MaxCommitFailures = 1
  MaxLog = 2
PROPERTIES EveryRecordHandled
