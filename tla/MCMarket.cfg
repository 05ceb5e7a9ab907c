\* Openings and closings of the market on two servers.
CONSTANTS
  i1 = i1
  f1 = f1
  IranOffers = {i1}
  ForeignOffers = {f1}
  MaxTime = 7
  Cases <- MCCases
  NoRow = NoRow
  None = None
SPECIFICATION Spec
INVARIANTS CloseIsFinal NoticesInOrder BoundedClose
CHECK_DEADLOCK FALSE
