SPECIFICATION Spec
CONSTANTS
  Dir <- MCDir
  home = "home"
  Paths <- MCPaths
  posts <- MCposts
  MaxCommits = 1
PROPERTIES
  ConfiguredUrlSuffices
