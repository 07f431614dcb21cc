CONSTANTS
  kRows = 2
  kColumns = 5
  kLineMax = 4
  kHistory = 2
  Ascii <- Typable
  Wide <- Double
  Texts <- Written
  Misuse = {}
  MaxRequests = 2
SPECIFICATION TextSpec
INVARIANTS LineIsShown TextIsLegible ScreenIsCurrent
