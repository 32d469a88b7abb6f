SPECIFICATION Spec
CONSTANTS
  CHOOSE_STR = 3
  CHOOSE_LEN = 3
  Files <- MCFiles
  Settings <- MCSettings
  Asked <- MCAsked
  Catalogs <- MCCatalogs
  Folders <- MCFolders
  HrdFiles <- MCHrdFiles
  Leads <- MCLeads
  FirstCatalog = "cat"
  Paths = {"over"}
  HrdPaths = {"more"}
  Mappers <- MCMappers
  EnvHrd = "(unset)"
  Sources = {"gone", "b"}
  Params = {"flag"}
  Values = {"true"}
  MaxCalls = 2
INVARIANTS LoadedIsLinked
CHECK_DEADLOCK FALSE
