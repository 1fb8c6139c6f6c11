SPECIFICATION DesignSpec
CONSTANTS
  Absent = Absent
  Garbage = Garbage
  Spellable <- MCSpellable
  Project = "app"
  Submissions <- MCSubmissions
  Layouts <- MCLayouts
  Depth <- MCDepth
  Answers <- MCAnswers
  Drafts <- MCDrafts
  MaxConversions = 2
  MaxStores = 2
  MaxTroubles = 1
INVARIANTS StoredSpecRoundTrips DecidedIsStored
CHECK_DEADLOCK FALSE
