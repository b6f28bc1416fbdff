SPECIFICATION Spec
CONSTANTS
  Nodes = {1, 2, 3, 4}
  Values = {"x", "y"}
  Tags <- OneTag
  NoTag = "NULL"
INVARIANTS WellLinked
PROPERTY DequeRefinement
CONSTRAINT OneMarked
