SPECIFICATION Spec
CONSTANTS
  c1 = c1  c2 = c2
  Work = Work  Other = Other
  own = own  spare = spare
  f1 = f1  f2 = f2
  Client = {c1, c2}
  Profile = {Work, Other}
  Key = {own, spare}
  File <- MCFile
  Path <- MCPath
  Kept <- MCKept
  Uses <- MCUses
  Backup = {own}
  LeaseKey = spare
  Tier <- MCTier
  ProdNamed = {Other}
  AutoOpen = {c2}
  Agrees = {c1}
  Token <- MCToken
  Commands <- MCCommands
  Opens = 1
  Old = Old  Kdbx = Kdbx  Placeholder = Placeholder  None = None
INVARIANTS TypeOK  FileKept 
CHECK_DEADLOCK FALSE
