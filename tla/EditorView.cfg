SPECIFICATION Spec
CONSTANTS
  base = base  comment = comment  code = code  mark = mark
  php = php  text_type = text_type  none = none  hrd1 = hrd1  hrd2 = hrd2
  Contents = {code, mark}  States = {base, comment}  Root = base  NoGrammar = none
  MaxLines = 6  FirstTexts <- CodeText  DefaultWindow = 3  WindowSizes = {3}
  IdleLines = 1  Reach = 1  MaxChanges = 2
  Grammars = {php}  Scan <- OneGrammar  Mappers = {hrd1, hrd2}  BackParses = {}
INVARIANTS TypeOK CacheCoherent RingFresh ShownFresh
