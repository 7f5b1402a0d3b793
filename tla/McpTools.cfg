SPECIFICATION MCSpec
CHECK_DEADLOCK FALSE
CONSTANTS
  c1 = c1
  c2 = c2
  d1 = d1
  d2 = d2
  d3 = d3
  Calls = {c1, c2}
  Documents = {d1, d2, d3}
  Targets <- MCTargets
  Texts <- MCTexts
  Parsed <- MCParsed
  Built <- MCBuilt
  Corpus <- MCCorpus
  Budget <- MCBudget
  Pieces <- MCPieces
  MaxHeight = 5
  Hard <- MCHard
  Han <- MCHan
  Ideographs <- MCIdeographs
  Numbers <- MCNumbers
  IpcCodes <- MCIpcCodes
  Families <- MCFamilies
  Dates <- MCDates
  Years <- MCYears
  MaxTopK = 3
  MaxTotal = 7
  MaxKey = 2
  MaxChanges = 2
  ToolCapacity = 1
  PageSizeLimit = 2
INVARIANTS
  TextsReadAsTheGrammar
  QueriesMeanTheirTrees
  GroupingKeepsScores
  PagesStayInTheWindow
  BodyLimitIsExact
  RankIsExactWhileStill
  ToolThreadsAreBounded
  AnswersCanBeTraced
