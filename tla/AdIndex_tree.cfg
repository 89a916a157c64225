CONSTANTS
  TW = TW
  Ads <- Various
  Ages = 4
  LastStart = 3
  MaxLimit = 2
  Second = 4
  Countries = {TW}
  Unnamed = Unnamed
  Nil = Nil
  Nobody = Nobody
SPECIFICATION Spec
CHECK_DEADLOCK FALSE
INVARIANTS IndexTypeOK FindsExactlyMatches PagesCoverAll
