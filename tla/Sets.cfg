\* A set of up to three blocks of two units, and one of up to two for a caller that uses
\* indexes.
CONSTANTS
  PerSet = 2
  CountMod = 6
  Clients <- MCClients
  MaxBlocks <- MCMaxBlocks
  Indexes <- MCIndexes
SPECIFICATION Spec
INVARIANTS TypeOK IndexLeadsBack UsedIsHeld WalkMeetsAll
