------------------------------ MODULE MCPostsApi ------------------------------
(***************************************************************************)
(* PostsApi on a small blog: posts, tags and categories enough to search   *)
(* for and to fill several pages of one row.                               *)
(***************************************************************************)
EXTENDS PostsApi

Post(id, title, time) ==
  [post_id |-> id, name |-> title, body |-> title, created |-> time]
TagOf(id, title, post, time) ==
  [tag_id |-> id, name |-> title, post |-> post, created |-> time]
CategoryOf(id, title, post) ==
  [category_id |-> id, name |-> title, post |-> post, created |-> 1]

MCrank ==
  LET texts == <<"p1", "p2", "t1", "t2", "t3", "k1", "k2", "a", "b", "x", "y">>
  IN  [ text \in {texts[i] : i \in DOMAIN texts} |->
          CHOOSE i \in DOMAIN texts : texts[i] = text ]

Asking(handler, arg, sort_by, sort_order, filter_type, page, limit) ==
  [ handler |-> handler, arg |-> arg, sort_by |-> sort_by, sort_order |-> sort_order,
    filter_type |-> filter_type, page |-> page, limit |-> limit ]

(* "x" may be the tag of two posts, "y" that of one; the second post may   *)
(* be saved in the same second as the first or in the next.                *)
MCPosts == { Post("p1", "b", 1), Post("p2", "a", 1), Post("p2", "a", 2) }
MCTags  == { TagOf("t1", "x", "p1", 1), TagOf("t2", "x", "p2", 1),
             TagOf("t3", "y", "p1", 1) }
MCCategories == { CategoryOf("k1", "x", "p1"), CategoryOf("k2", "x", "p2") }

Filters == {"INCLUDING", "MATCHING"}

Searches ==
  { Asking("get", {"a"}, "created", "DESC", "INCLUDING", 1, 5) } \cup
  { Asking("getByTags", arg, "name", "ASC", filter, 1, limit) :
      arg \in {{"x"}, {"x", "y"}}, filter \in Filters, limit \in {1, 5} } \cup
  { Asking("getByCategories", {"x"}, "name", "DESC", filter, 1, 5) : filter \in Filters }

Lists ==
  { Asking("list", {}, sort_by, order, "INCLUDING", 0, 0) :
      sort_by \in {"name", "colour"}, order \in {"ASC", "DESC"} } \cup
  { Asking("listTags", {}, "tag_id", "ASC", "INCLUDING", 1, 1),
    Asking("listCategories", {}, "category_id", "DESC", "INCLUDING", -1, 1),
    Asking("listTitles", {}, "updated", "ASC", "INCLUDING", 1, 1) }

MCRequest == Searches \cup Lists
=============================================================================
