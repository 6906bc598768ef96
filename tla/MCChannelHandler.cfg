SPECIFICATION FairSpec
CONSTANTS
  in = in
  out = out
  req = req
  blk = blk
  NoID = NoID
  Inputs <- MCInputs
  Outputs <- MCOutputs
  Requests <- MCRequests
  Bulks <- MCBulks
  Sizes <- MCSizes
  ChunkSize = 2
  MaxGiven = 2
  MaxVersion = 1
INVARIANTS ArgumentsArrive BulkComplete BulkFieldsAtRest
PROPERTIES WaitSyncsCommands AnswerIsFresh NothingReverts CommandsRun CallsReturn
