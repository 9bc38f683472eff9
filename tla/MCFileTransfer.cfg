\* Two operations one after the other, one failure, and a careful user.
SPECIFICATION FairSpec
CONSTANTS
  Names = {1, 2, 3}
  Depth = 2
  Chunks = {"a", "b"}
  NoPath = NoPath
  MaxFailures = 1
  Operations <- Transfers
  Answers = {"overwrite", "append", "skip", "cancel"}
  CancelAfterSkip = FALSE
  AfterBroken = FALSE
  MaxOperations = 2
  InitialLocal <- LocalTree
  InitialRemote <- RemoteTree
CHECK_DEADLOCK FALSE
INVARIANTS
  HandlesAreAccounted
  
  ServerStreamsExist
  
  NothingOverwrittenUnasked
  NothingIsForgotten
PROPERTIES
  AnyClient
  BrokenUploadRestarts
  OperationFinishes
