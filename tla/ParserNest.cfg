SPECIFICATION Spec
CONSTANTS
  base = base  comment = comment  paren = paren  heredoc = heredoc  peek = peek  first = first
  Top = base  Blocks = {comment, paren}  Untagged = Untagged
  Tokens <- AllTokens  Contents <- NestLines
  Inside <- NestInside  Starts <- AllStarts  Ends <- AllEnds
  Tagged = {}  Ahead = {}  AtStart = {}  LowContent = {}  Wide = {}
  MaxLines = 3  MaxEdits = 1  maxBlockSize = 2  chunkLongLines = TRUE  MaxLevel = 10
  Breaks = FALSE  Vanishes = FALSE
INVARIANTS TypeOK CacheOrdered CacheTrue HandlerInScheme RereadAgrees
