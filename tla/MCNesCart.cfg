SPECIFICATION CartSpec
CONSTANTS
  Boards <- MCBoards
  Writes <- MCWrites
  Stored = {0, 5}
  Fetches <- MCFetches
  Lines = {20, 250}
  MaxOps <- MCMaxOps
  MaxCartResets = 1
INVARIANTS PagesExist StoresDecoded ResetForgets BanksFollowRegisters
PROPERTIES PatternsFresh SerialPort
CHECK_DEADLOCK FALSE
