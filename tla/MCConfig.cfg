\* Every way to fill three files and every command line of the module; the files
\* are alike, and merged in any order. A command ends when it is decided.
SPECIFICATION Spec
CONSTANTS
  f1 = f1
  f2 = f2
  f3 = f3
  EmptyFile = EmptyFile
  Ignored = Ignored
  NoDefault = NoDefault
  NotEach = NotEach
  File <- MCFile
  Contents <- MCContents
  Commands <- MCCommands
SYMMETRY Alike
CHECK_DEADLOCK FALSE
INVARIANTS TypeOK SameInAnyOrder NothingLost FlagsInForce SyncIsLimited VarsAsSpecified
