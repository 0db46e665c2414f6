SPECIFICATION Spec
CONSTANTS
  c1 = c1
  c2 = c2
  large = large
  Contents = {c1, c2, large}
  Size <- MCSize
  MaxObjectSize = 2
  MaxProcessors = 2
INVARIANTS CommittedAsApproved MetadataDescribesBytes AnswerLeavesNoFiles DropLeavesLittle
CHECK_DEADLOCK FALSE
