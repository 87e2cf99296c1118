SPECIFICATION Spec
CONSTANTS
  Values <- MCValues
  Zero = 0
  Least <- MCLeast
  MinusOne <- MCMinusOne
  ArithOps <- MCArithOps
  Arith <- MCArith
  UnaryOps = {"Negate"}
  Unary <- MCUnary
  Inexact <- MCInexact
  Invalid <- MCInvalid
  CmpOps = {"Less", "Greater", "Equal", "NotEqual"}
  Compared <- MCCompared
  Vars = {x, y}
  Conds = {p, q}
  MaxSpan = 3
  MaxBranches = 2
INVARIANTS
  TypeOK
  MeansWhatSqlSays
  NullsDoNotOverflow
  StoresReadBack
  AggregatesSkipNulls
SYMMETRY MCSymmetry
