SPECIFICATION SheetSpec
CONSTANTS
  north = north
  south = south
  rich = rich
  bare = bare
  None = None
  Broken = Broken
  Trees <- MCTrees
  Name <- MCName
  Designs <- MCDesigns
  Bsp <- MCBsp
  Published <- MCPublished
  MaxSheets = 1
  MaxBeside = 2
  MaxReply = 2
INVARIANTS TreeStatesOneDesign CurrentMeansAccepted 
PROPERTIES  OneDecisionPerDesign
SYMMETRY Symmetry
CHECK_DEADLOCK FALSE
