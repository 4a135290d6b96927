SPECIFICATION FairSpec
CONSTANTS
  Operators = {root, ana}
  Root = root
  Calls = {c1, c2}
  Logins = {l1}
  NoCall = NoCall
  NoOperator = NoOperator
INVARIANTS
  TypeOK
  SomeoneAdministers
PROPERTIES
  CallsEnd
