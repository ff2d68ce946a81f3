SPECIFICATION MatchingSpec
CONSTANTS
  p1 = p1
  p2 = p2
  r1 = r1
  r2 = r2
  w1 = w1
  w2 = w2
  Pair <- MCPair
  Complete <- MCComplete
  Shipped <- MCShipped
  ByHand <- MCByHand
  Reviewer <- MCReviewer
  Text = {"t1", "t2"}
  Worker <- MCWorker
  Mode <- MCMode
  Model <- MCModel
  MaxRetries = 1
  MaxRows = 3
  Criteria <- MCCriteria
  Tolerance <- MCTolerance
  Vocabulary <- MCVocabulary
  Normal <- MCNormal
  Class <- MCClass
  Value = {0, 1, 2, 3}
  Date = {0, 1, 2, 3}
  NoCase = NoCase
SYMMETRY MCSymmetry
INVARIANT
  MatchIsAlike
CHECK_DEADLOCK FALSE
