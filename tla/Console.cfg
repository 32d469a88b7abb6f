SPECIFICATION Spec
CONSTANTS
  CommandLines <- MCCommandLines
  Files <- MCFiles
  Types <- MCTypes
  Letters <- MCLetters
  Hrds <- MCHrds
  Links <- MCLinks
  Regions <- MCRegions
  Special = 2
  Marks <- MCMarks
  Blocks <- MCBlocks
  RingLines = 2
  Screens <- MCScreens
  Keys <- MCKeys
  MaxEvents <- MCMaxEvents
  MaxKeys = 2
INVARIANTS CompactIsFlat FlowIsHere OutputIsTheText ScreenShowsText
CHECK_DEADLOCK FALSE
