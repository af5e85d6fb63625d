SPECIFICATION Spec
CONSTANTS
  u1 = u1
  u2 = u2
  Absent = Absent
  EmptyText = ""
  Uuid = {u1, u2}
  Text <- MCText
  Path <- AllFiles
  PostFile <- MCPostFile
  Markdown <- MCMarkdown
  TagsFile <- MCTagsFile
  CategoriesFile <- MCCategoriesFile
  NameOf <- MCNameOf
  Below <- MCBelow
  Versions <- VersionsOfAllFiles
  parse <- MCparse
  split <- MCsplit
  task_dependents <- Connected
  cache_size = 2
INVARIANTS
  TypeOK
  BodyIsItsFiles
  MetadataBelongsToAPost
  MetadataIsWhereItBelongs
PROPERTIES
  BlockedForGood
  WornOutForGood
  ForgottenForGood
  ImplementsLedger
