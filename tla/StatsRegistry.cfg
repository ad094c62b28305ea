CONSTANTS
  NPorts = 2
  Window = 2
  MaxMinute = 3
  MaxAccepts = 1
  MaxActive = 1
  Readers = {r1}
SPECIFICATION FairSpec
INVARIANTS TypeOK DeltasConserved ShutdownReported SnapshotRegular
PROPERTIES WindowKept AcceptReported
