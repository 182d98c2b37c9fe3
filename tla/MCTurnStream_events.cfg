SPECIFICATION Spec
CONSTANTS
  Ids = {a, 1}
  None = None
  MaxText = 2
  MaxCalls = 3
  a = a
INVARIANTS TypeOK  SentIsSaved
PROPERTIES ResultsAreKept 
