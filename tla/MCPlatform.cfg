SPECIFICATION MCSpec
CONSTANTS
  n1 = n1
  n2 = n2
  x1 = x1
  x2 = x2
  x3 = x3
  q1 = q1
  q2 = q2
  Null = Null
  Thread = {t1, t2}
  Node = {n1, n2}
  LabelOf <- MCLabelOf
  Operator = {o1, o2}
  Seeds = {"ontology", "prompt"}
  Row = {q1, q2, q3, q4}
  Txn = {x1, x2, x3}
  TxnOf <- MCTxnOf
  Limit = 2
  MaxChars = 2
  MaxLength = 8
SYMMETRY Symmetry
INVARIANTS
  PlatformTypeOK SessionsAreUsable FailureIsTransient EachCreatesOnce
  NodesUnique SchemaEnsured WholeRevisions SeededOnce WalkSeesAll SplitIsWhole
CHECK_DEADLOCK FALSE
