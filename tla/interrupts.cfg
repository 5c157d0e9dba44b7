SPECIFICATION IntSpec
CONSTANTS
  Keys <- SomeKeys
  MaxHeld = 2
  MaxQueue = 3
  Tests <- AllTests
INVARIANTS
  PrintedAsTyped
  ModifiersFollow
  ReadyBeforeSTI
  OnlyKeys
  OnePrinter
  EdgeKept
  ReportIsTrue
  TestIsLast
PROPERTY KeysServed
CHECK_DEADLOCK FALSE
