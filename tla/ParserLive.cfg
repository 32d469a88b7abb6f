SPECIFICATION FairSpec
CONSTANTS
  base = base  comment = comment  paren = paren  heredoc = heredoc  peek = peek  first = first
  Top = base  Blocks = {comment, paren}  Untagged = Untagged
  Tokens <- AllTokens  Contents <- LiveLines
  Inside <- NestInside  Starts <- AllStarts  Ends <- AllEnds
  Tagged = {}  Ahead = {}  AtStart = {}  LowContent = {}  Wide = {}
  MaxLines = 2  MaxEdits = 1  maxBlockSize = 1  chunkLongLines = TRUE  MaxLevel = 2
  Breaks = TRUE  Vanishes = TRUE
INVARIANTS NothingDangles
PROPERTIES ParseEnds
