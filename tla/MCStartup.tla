------------------------------ MODULE MCStartup ------------------------------
(* Startup with the directories of MCGitRepo, the directories above them   *)
(* and the tables.  Which files find_posts looks for does not matter here: *)
(* its section gives no path.                                              *)
EXTENDS Startup

MCDir == {"home", "home/posts", "home/posts/posts", "elsewhere", "elsewhere/posts"}

Sub(d) == CASE d = "home" -> "home/posts"
            [] d = "home/posts" -> "home/posts/posts"
            [] d = "elsewhere" -> "elsewhere/posts"
            [] OTHER -> d

MCposts == [d \in MCDir |-> Sub(d)]

MCPaths == {"elsewhere"}

MCPlace == MCDir \cup {"above", "above elsewhere"}

MCparent == [d \in MCDir |-> CASE d = "home" -> "above"
                              [] d = "home/posts" -> "home"
                              [] d = "home/posts/posts" -> "home/posts"
                              [] d = "elsewhere" -> "above elsewhere"
                              [] d = "elsewhere/posts" -> "elsewhere"]

MCByHand == {"above", "home"}

MCTables == <<"Posts", "Tags", "Categories">>

MCInit == StartupInit /\ paths["find_posts"] = {}

MCSpec == MCInit /\ [][StartupNext]_all /\ StartupFairness
=============================================================================
