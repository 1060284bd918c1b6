SPECIFICATION Spec
CONSTANTS
  MaxPid = 3
  ExitCodes <- ProgramCodes
  TrapCodes <- FatalCodes
  DelayTicks <- Ticks
INVARIANTS
  TypeOK
  SchedulerPartition
  NoLostWakeup
  WokenFindsChild
  NoBadParent
  FamilyConsistent
  IdleOnlyAtTheEnd
PROPERTIES
  OnlyChildWakes
  NeverOvertaken
  ImplementsTree
  ReadyRuns
