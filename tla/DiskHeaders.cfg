SPECIFICATION Spec
CONSTANTS
  d88a = d88a
  d88b = d88b
  hdm = hdm
  nhd = nhd
  biosrom = biosrom
  Files <- MCFiles
  D88 <- MCD88
  Raw <- MCRaw
  Hdds <- MCHdds
  BiosRom = biosrom
  FontRom = "none"
  Slots = 2
  MaxFds = 3
  Failing <- MCFailing
  LastBlock = 2
  MaxWrites = 1
INVARIANT HeadersRead
