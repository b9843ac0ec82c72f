CONSTANTS
  PoolTerms <- MCPool
  MathOf <- MCMath
  HypsOf <- MCHyps
  NameOf <- MCName
  LabelNameOf <- MCLabelName
SPECIFICATION Spec
INVARIANT TypeOK
PROPERTIES LabelIterPreOrder FlattenYieldsSymbols AppendSentinels SyntaxProofValid SexprReadsBack
CHECK_DEADLOCK FALSE
