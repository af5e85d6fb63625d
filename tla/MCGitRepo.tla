------------------------------ MODULE MCGitRepo ------------------------------
(* GitRepo with two directories that may be configured, those it can get to*)
(* and one commit after the first.                                         *)
EXTENDS GitRepo

MCPaths == {"elsewhere", "other"}

MCDir == {"home", "home/posts", "home/posts/posts", "elsewhere", "elsewhere/posts",
          "other", "other/posts"}

Sub(d) == CASE d = "home" -> "home/posts"
            [] d = "home/posts" -> "home/posts/posts"
            [] d = "elsewhere" -> "elsewhere/posts"
            [] d = "other" -> "other/posts"
            [] OTHER -> d

MCposts == [d \in MCDir |-> Sub(d)]
=============================================================================
