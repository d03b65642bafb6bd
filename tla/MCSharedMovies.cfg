CONSTANTS
  Device = {d1, d2}
  Movie = {m1}
  MaxOutstanding = 2
SPECIFICATION ShareSpec
INVARIANTS
  FieldsInOrder
  SharedIsComplete
PROPERTY SharedAtLast
