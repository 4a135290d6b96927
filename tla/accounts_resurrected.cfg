SPECIFICATION Spec
CONSTANTS
  Operators = {root, ana}
  Root = root
  Calls = {c1, c2}
  Logins = {l1, l2}
  NoCall = NoCall
  NoOperator = NoOperator
PROPERTIES
  NothingResurrected
