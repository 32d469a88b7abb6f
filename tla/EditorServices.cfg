SPECIFICATION ServicesSpec
CONSTANTS
  base = base  body = body  inner = inner  open = open  close = close
  c_type = c_type  none = none  hrd1 = hrd1
  Contents = {open, close}  States = {base, body, inner}  Root = base  NoGrammar = none
  MaxLines = 4  FirstTexts <- Sources  DefaultWindow = 1  WindowSizes = {1}
  IdleLines = 1  Reach = 0  MaxChanges = 2  MaxItems = 3
  Grammars = {c_type}  Scan <- NestScan  Mappers = {hrd1}  BackParses = {}
  CallsOf <- NestCallsOf  Depth <- NestDepth
INVARIANTS OutlineTrue TreePacked PairRight
