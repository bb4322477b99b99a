SPECIFICATION Spec
CONSTANTS
  Starts = {"New", "Done"}
  Adopted = {1}
  Sizes = {1, 3}
  BatchLimit = 2
  MaxRecords = 2
  MaxReads = 2
  MaxWrites = 1
INVARIANTS NothingOwed CiphertextInOrder
PROPERTIES OneTerminalResult AnswersAreTrue ShutdownIsDone
CHECK_DEADLOCK FALSE
