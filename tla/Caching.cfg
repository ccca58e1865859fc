CONSTANTS
  Values <- AB
  Clients <- OneClient
  TTL = 20
  InitialAnnounceCount = 2
  GoodbyeCount = 2
  MaxQuestionInterval = 21
  MaxEvents = 3
SPECIFICATION Spec
INVARIANTS
  TypeOK
  AnswersNeverUndercounted
  ClientViewMatchesCache
  NoResurrection
PROPERTIES
  LiveRecordKept
  ViewConverges
