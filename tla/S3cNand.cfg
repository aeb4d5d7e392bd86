SPECIFICATION NandSpec
CONSTANTS
  NumSectors = 2
  MaxPrograms = 2
  MaxHits = 2
  ff = ff
  mixed = mixed
INVARIANTS
  CleanReadIsTrue
  FewFlipsRepaired
  FreeBytesRepaired
  CodesWhereReadLooks
