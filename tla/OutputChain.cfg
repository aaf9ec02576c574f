SPECIFICATION Spec
CONSTANTS
  Capacity = 1
  QueueCapacity = 1
  MaxRecords = 3
  MaxRecordsBoth = 2
  MaxBatch = 2
INVARIANTS
  LossReportsExact
  SummaryAccounts
  ExportsArePrefix
  EvidenceKept
  CleanShutdown
  SubmissionSound
PROPERTIES
  JsonlIsLossyQueue
  ExportIsLossyQueue
  LossReported
  ShutdownTerminates
