CONSTANTS
  L = 3
  Graph <- Graphs
SPECIFICATION Spec
INVARIANTS TypeOK ReadsOwnRows
