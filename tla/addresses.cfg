CONSTANTS
  Specs <- TestSpecs
  Edits <- NoEdits
  MaxEdits = 0
  MaxWords = 0
  Shells <- MCShells
  Rank <- MCRank
  NumberOf <- MCNumberOf
  PortOf <- MCPortOf
  None = None
SPECIFICATION Spec
INVARIANTS AddressesListened
