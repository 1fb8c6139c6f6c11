SPECIFICATION LibrarySpec
CONSTANTS
  None = ""
  TypeName <- MCTypeName
  Capabilities = {"display"}
  Identifiers = {"display", "sps30"}
  FieldNames = {"pm"}
  ComponentIdent <- MCComponentIdent
  Names <- MCNames
  IdentOf <- MCIdentOf
  Buses = {"i2c"}
  Texts <- MCTexts
  Revisions <- MCRevisions
  MaxEdits = 1
  MaxOrders = 2
INVARIANTS CycleIffReported RoundTripsApart RequiresResolve
PROPERTIES DesignKeepsWork
CHECK_DEADLOCK FALSE
