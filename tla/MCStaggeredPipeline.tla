------------------------- MODULE MCStaggeredPipeline -------------------------
(***************************************************************************)
(* StaggeredPipeline on two posts in directories of their own, the first   *)
(* with a tag, the second with a category:                                 *)
(*    one/one.post.md  one/one.tags.csv                                    *)
(*    two/two.post.html  two/two.categories.csv                            *)
(* A ring of four slots is never filled: the two posts and two metadata    *)
(* files make four entries at most in every cache.                         *)
(***************************************************************************)
EXTENDS StaggeredPipeline

CONSTANTS u1, u2

one == "one/one.post.md"
tags == "one/one.tags.csv"
two == "two/two.post.html"
categories == "two/two.categories.csv"

MCPath == {one, tags, two, categories}
MCNameOf == [p \in MCPath |-> IF p \in {one, tags} THEN "one" ELSE "two"]
MCBelow == [p \in MCPath |-> IF p \in {one, tags} THEN {one, tags}
                             ELSE {two, categories}]
MCVersions == [p \in MCPath |-> CASE p = one  -> {"x"}
                                  [] p = two  -> {"y"}
                                  [] p = tags -> {"a"}
                                  [] OTHER    -> {"b"}]
MCText == MCPath \cup {"", "one", "two", "x", "<x>", "y", "a", "b"}
MCparse == [c \in MCText |-> IF c = "x" THEN "<x>" ELSE c]
MCsplit == [c \in MCText |-> IF c = "" THEN <<>> ELSE <<c>>]

(* The chain as the tasks' messages suppose it (find_posts names no        *)
(* dependents in the code).                                                *)
Connected == [ find_posts |-> {"load_posts"},
               load_posts |-> {"save_posts"},
               save_posts |-> {"find_metadata"},
               find_metadata |-> {"load_metadata"},
               load_metadata |-> {"save_tags", "save_categories"},
               save_tags |-> {},
               save_categories |-> {} ]
=============================================================================
