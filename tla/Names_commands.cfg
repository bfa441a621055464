SPECIFICATION Spec
CONSTANTS
  Chars <- AllChars
  Colon = ":"
  Dot = "."
  DBNames <- DBs
  ColNames <- Collections
  Admin <- AdminName
  Documents = {d1}
  Kinds = {"read", "write"}
  Concerns = {majority}
  Unset = unset
  Handles = {h1}
  Ranges = {r1}
  MaxSteps = 3
INVARIANTS TypeOK ReachesNamed
PROPERTIES ImplementsNamedStore
