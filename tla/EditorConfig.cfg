SPECIFICATION FairSpec
CONSTANTS
  base = base  comment = comment  code = code  mark = mark
  php = php  text_type = text_type  none = none  hrd1 = hrd1  hrd2 = hrd2
  Contents = {code, mark}  States = {base, comment}  Root = base  NoGrammar = none
  MaxLines = 4  FirstTexts <- CodeText  DefaultWindow = 1  WindowSizes = {1}
  IdleLines = 1  Reach = 0  MaxChanges = 2
  Grammars = {php, text_type}  Scan <- TwoGrammars  Mappers = {hrd1, hrd2}  BackParses = {1}
PROPERTIES LookingKeepsValid IsIncrementalParse CatchesUp
