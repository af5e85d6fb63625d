SPECIFICATION Spec
CONSTANTS
  Dir <- MCDir
  home = "home"
  Paths <- MCPaths
  posts <- MCposts
  MaxCommits = 1
INVARIANTS
  AtHomeForTheOthers
  FindPostsSearchesTheClone
  RunsHaveTheirDirectory
PROPERTIES
  ClonesNeverChange
