SPECIFICATION MCSpec
CONSTANTS
  Dir <- MCDir
  home = "home"
  Paths <- MCPaths
  posts <- MCposts
  MaxCommits = 0
  Place <- MCPlace
  parent <- MCparent
  Tables <- MCTables
  ByHand <- MCByHand
INVARIANTS
  NoQueryBeforeItsTables
  OpensWhatWasMadeByHand
  LogsStayTogether
PROPERTIES
  OpensElsewhereOnlyBeforeTheFirstPull
  WaitersAreAnswered
