CONSTANTS
  Specs <- MCSpecs
  Edits <- MCEdits
  MaxEdits = 1
  MaxWords = 3
  Shells <- MCShells
  Rank <- MCRank
  NumberOf <- MCNumberOf
  PortOf <- MCPortOf
  None = None
SPECIFICATION Spec
INVARIANTS ParsesGrammar ParsersAgree ExtendKeepsUser PortsAgree HMetaAddressesAgree DeclaredIsListened PodsFollowSpec
