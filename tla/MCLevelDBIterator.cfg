SPECIFICATION IteratorSpec
CONSTANTS
  UserKey <- MCKey
  NumChildren = 2
  MaxEntries = 3
  MaxInserts = 1
INVARIANTS IteratorTypeOK CursorRight
