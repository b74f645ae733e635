SPECIFICATION Spec
CONSTANTS
  Junk = Junk
  None = None
  NoIdentifier = NoIdentifier
  Assets <- MCAssets
  Identifiers = {"musl", NoIdentifier}
  Currents <- MCCurrents
  Listings <- MCListings
  Pins <- MCPins
INVARIANTS ChosenIsNewest AssetForThisPlatform CallsAgree
PROPERTIES OnlyForward
CHECK_DEADLOCK FALSE
