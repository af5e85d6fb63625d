SPECIFICATION StaggeredSpec
CONSTANTS
  u1 = u1
  u2 = u2
  Absent = Absent
  EmptyText = ""
  Uuid = {u1, u2}
  Text <- MCText
  Path <- MCPath
  PostFile = {"one/one.post.md", "two/two.post.html"}
  Markdown = {"one/one.post.md"}
  TagsFile = {"one/one.tags.csv"}
  CategoriesFile = {"two/two.categories.csv"}
  NameOf <- MCNameOf
  Below <- MCBelow
  Versions <- MCVersions
  parse <- MCparse
  split <- MCsplit
  task_dependents <- Connected
  cache_size = 4
PROPERTIES
  EveryPostIsSaved
  MetadataFollows
