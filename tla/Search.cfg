SPECIFICATION Spec
CONSTANTS
  NoScheme = NoScheme
  Unread = Unread
  NoBlock = NoBlock
  NoDispatch = NoDispatch
  MaxLines = 3
  Chars <- AllChars
  Ascii <- AsciiChars
  Letters <- LetterChars
  LowerCase <- Lowered
  Types <- WebTypes
  Schemes <- WebSchemes
  TypeOf <- WebTypeOf
  Needs <- WebNeeds
  Nodes <- WebNodes
  Contents <- WebContents
  Bases = {"html", "jsp", "page"}
INVARIANT TypeOK
INVARIANT FirstMatchWins
INVARIANT ListBalanced
PROPERTY KeepsEnvironments
