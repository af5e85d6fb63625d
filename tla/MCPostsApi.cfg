SPECIFICATION Spec
CONSTANTS
  PostRow <- MCPosts
  TagRow <- MCTags
  CategoryRow <- MCCategories
  rank <- MCrank
  Request <- MCRequest
  QueryError = QueryError
INVARIANTS
  TypeOK
  EachPostWithItsOwnMetadata
  FoundPostsShowTheMatch
  MatchingIsExclusive
  NotFoundMeansAbsent
  PagesMissNothing
