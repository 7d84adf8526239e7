CONSTANTS
  Nowhere = Nowhere
  Pieces <- McPieces
  Nodes <- McNodes
  Documents <- McDocuments
SPECIFICATION Spec
INVARIANTS TypeOK NearestAncestor KeyLinePreferred
CHECK_DEADLOCK FALSE
