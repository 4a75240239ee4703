SPECIFICATION Spec
CONSTANTS
  base = base
  input = input
  sign = sign
  rev1 = rev1
  rev2 = rev2
  Views <- MCViews
  Base = base
  Input = input
  Records <- MCRecords
  KeyOf <- MCKeyOf
  MaxCommits = 2
INVARIANTS PointersAlive Reclaimed JournalComplete
PROPERTIES NoLostUpdate SharedLogSpec
