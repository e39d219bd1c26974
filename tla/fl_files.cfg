SPECIFICATION FairSpec
CONSTANTS
  a = a
  b = b
  Users = {a, b}
  MaxId = 4
  Names = {"old", "new"}
  First <- MCFirst
  Conditions <- MCConditions
  Undef = Undef
INVARIANTS TypeOK SessionsAccounted TreeShaped BytesBehindRows
PROPERTIES NothingStranded ImplementsFileTree Served
