SPECIFICATION Spec
CONSTANTS
  u1 = u1
  u2 = u2
  Absent = Absent
  EmptyText = ""
  Uuid = {u1, u2}
  Text <- MCText
  Path <- PostsOnly
  PostFile <- MCPostFile
  Markdown <- MCMarkdown
  TagsFile <- MCTagsFile
  CategoriesFile <- MCCategoriesFile
  NameOf <- MCNameOf
  Below <- MCBelow
  Versions <- VersionsOfPostsOnly
  parse <- MCparse
  split <- MCsplit
  task_dependents <- Shipped
  cache_size = 3
PROPERTIES
  DiscoveredIsHandedOver
