SPECIFICATION Spec
CONSTANTS
  base = base  comment = comment  paren = paren  heredoc = heredoc  peek = peek  first = first
  Top = base  Blocks = {heredoc}  Untagged = Untagged
  Tokens <- AllTokens  Contents <- HereLines
  Inside <- NestInside  Starts <- AllStarts  Ends <- AllEnds
  Tagged = {heredoc}  Ahead = {}  AtStart = {}  LowContent = {}  Wide = {"esc"}
  MaxLines = 2  MaxEdits = 2  maxBlockSize = 1  chunkLongLines = TRUE  MaxLevel = 10
  Breaks = FALSE  Vanishes = FALSE
PROPERTIES IsIncrementalParse TryAccepts
