SPECIFICATION Spec
CONSTANTS
  a = a  b = b
  Usernames <- TwoNames
  Passwords <- TwoPasswords
  DefaultUser <- Admin
  EditedTexts <- OddTexts
  Colon = colon
  Newline = newline
  Zero = zero
  Letters = {a, b}
  MaxUsers = 2
  FieldLen = 3
  DbLimit = 10
  SectorSize = 12
INVARIANTS TypeOK AddIsAtomic PasswdKeepsAccount
PROPERTIES SavedIsLoaded
