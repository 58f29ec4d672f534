SPECIFICATION AllocSpec
CONSTANTS
  Word = 2
  Layouts <- MCLayouts
  Bases <- MCBases
  Powers <- MCPowers
  NoPtr = NoPtr
  MaxCells = 4
INVARIANTS AllocTypeOK CellsInBlocks CellsApart CellsFollowBlocks HeapIsChain
