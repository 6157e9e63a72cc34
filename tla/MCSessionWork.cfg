SPECIFICATION SessionSpec
CONSTANTS
  CoreCapabilities <- MCCore
  LocalCapabilities <- MCLocal
  OwnerOf <- MCOwnerOf
  Sensitive <- MCSensitive
  Sessions <- MCSessions
  Calls <- MCCalls
  ActorOf <- MCActorOf
  Limit = 2
  CoolAfter = 1
  ArchiveAfter = 2
  MaxTime = 3
  Absent = Absent
  Plugins = 2
  Requests <- MCRequests
  NoDecision = NoDecision
  Scenarios <- MCScenarios
INVARIANTS DecisionsHold SessionsSound
PROPERTIES Settles
CHECK_DEADLOCK FALSE
