CONSTANTS
  MaxInputs = 3
  MaxEvents = 2
  Heights = {0, 3}
  MaxRunes = 3
  MaxCommands = 3
  MaxChildren = 1
  Servers = {"s1", "s2"}
  Ports = {"p1", "p2"}
  MaxStreams = 2
SPECIFICATION FairSpec
INVARIANTS
  ConversationShown
  CommandsContained
  InstanceHolds
PROPERTIES
  EditsText
  EverythingEnds
