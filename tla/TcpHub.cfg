SPECIFICATION Spec
CONSTANTS
  Client = {k1, k2, k3}
  NoClient = NoClient
  Talkers = {k1}
  Faults = {"fin", "reset"}
  Garbled = TRUE
  MaxSend = 2
  OutMax = 1
SYMMETRY Symmetry
INVARIANTS TypeOK ListSound StreamsInOrder MissedOnlyByRemoval AcceptorDiesOnlyByRemoval DeathHasCause
CHECK_DEADLOCK FALSE
