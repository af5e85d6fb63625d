---------------------------- MODULE MCPostPipeline ----------------------------
(***************************************************************************)
(* PostPipeline on small posts directories made of these files:            *)
(*    one/one.post.md                                                      *)
(*    two/two.post.html   two/two.tags.csv   two/two.categories.csv        *)
(* A body may come out the same for both posts, and one content, of two    *)
(* items, be the same for tags and categories.                             *)
(***************************************************************************)
EXTENDS PostPipeline

CONSTANTS u1, u2

one == "one/one.post.md"
two == "two/two.post.html"
tags == "two/two.tags.csv"
categories == "two/two.categories.csv"

(* Both posts and all metadata, or nothing but posts.                      *)
AllFiles  == {one, two, tags, categories}
PostsOnly == {one, two}

MCPostFile == Path \cap {one, two}
MCMarkdown == Path \cap {one}
MCTagsFile == Path \cap {tags}
MCCategoriesFile == Path \cap {categories}
MCNameOf == [p \in Path |-> IF p = one THEN "one" ELSE "two"]
MCBelow == [p \in Path |-> IF p = one THEN {one} ELSE Path \ {one}]

(* The posts have the same body unless one of them is lost or emptied; both*)
(* metadata files hold the same two items.                                 *)
VersionsOfAllFiles == [p \in Path |-> CASE p = one -> {"x"}
                                         [] p = two -> {"<x>"}
                                         [] OTHER   -> {"a,b"}]

VersionsOfPostsOnly == [p \in Path |-> IF p = one THEN {"x", ""} ELSE {"<x>", "y"}]

MCText == Path \cup {"", "one", "two", "x", "<x>", "y", "a", "b", "a,b"}

MCparse == [c \in MCText |-> IF c = "x" THEN "<x>" ELSE c]
MCsplit == [c \in MCText |-> CASE c = "a,b" -> <<"a", "b">>
                               [] c = "" -> <<>>
                               [] OTHER -> <<c>>]

(* The chain as the tasks' messages suppose it.                            *)
Connected == [ find_posts |-> {"load_posts"},
               load_posts |-> {"save_posts"},
               save_posts |-> {"find_metadata"},
               find_metadata |-> {"load_metadata"},
               load_metadata |-> {"save_tags", "save_categories"},
               save_tags |-> {},
               save_categories |-> {} ]

(* The constructors' arguments: find_posts has no dependents.              *)
Shipped == [Connected EXCEPT !.find_posts = {}]
=============================================================================
