SPECIFICATION Spec
CONSTANTS
  Width = 3
  Height = 5
  WorkTop = 2
  Letters = {"a", "b"}
  Texts <- FileTexts
  MaxLine = 4
INVARIANTS TypeOK LineIsShown BlankBehindCursor
