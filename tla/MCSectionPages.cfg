SPECIFICATION Spec
CONSTANTS
  StreamOrder <- MCStreamOrder
  MapOrder <- MCMapOrder
  PageSize <- MCPageSize
  Lengths = {0, 1, 4}
  FirstAddress = 3
  DataHeader = 2
  SystemHeader = 1
  EntrySize = 2
  CompSizes = {1}
  Leftover <- MCLeftover
INVARIANTS
  TypeOK
  PointersFollow
  AddressesAgree
  OwnFileReads
  BytesInPlace
CHECK_DEADLOCK FALSE
