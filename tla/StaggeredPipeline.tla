-------------------------- MODULE StaggeredPipeline --------------------------
(***************************************************************************)
(* The post tasks under the schedule runStaggered() aims at: the threads   *)
(* are launched one launch_interval apart in the order of their task_id    *)
(* (TaskRegistry sorts by task_order) and then all wait for the same       *)
(* interval, so the tasks take turns.  Nothing dies and no query fails;    *)
(* files are only ever added to the posts directory.                       *)
(***************************************************************************)
EXTENDS PostPipeline

VARIABLE turn         \* the position in sorted_registry of the next task to run

staggeredVars == <<vars, turn>>

sorted_registry == << "find_posts", "load_posts", "save_posts", "find_metadata",
                      "load_metadata", "save_tags", "save_categories" >>

StaggeredInit == Init /\ turn = 1

TakeTurn == /\ Begin(sorted_registry[turn])
            /\ turn' = (turn % Len(sorted_registry)) + 1

Proceed == Step /\ UNCHANGED turn

AddFile == /\ EditRepo
           /\ \A p \in Path : repo'[p] # repo[p] => repo[p] = Absent
           /\ UNCHANGED turn

StaggeredNext == \/ ~Dead /\ (TakeTurn \/ Proceed)
                 \/ AddFile

(* Every task keeps running (TaskGroup, EveryTaskKeepsRunning) and its runs*)
(* come to an end.  Nobody is forced to write files.                       *)
StaggeredSpec ==
  /\ StaggeredInit /\ [][StaggeredNext]_staggeredVars
  /\ WF_staggeredVars(~Dead /\ (TakeTurn \/ Proceed))

-----------------------------------------------------------------------------
(* Properties, for posts that keep clear of one another (names, bodies,    *)
(* directories and metadata contents are distinct, a metadata file holds   *)
(* one item) and caches that have not been filled.                         *)

(* Every post file is saved in the end: whichever task comes first and     *)
(* whenever the file appears, taking turns never makes load_posts offer a  *)
(* post again after save_posts has saved it.                               *)
EveryPostIsSaved ==
  \A p \in PostFile :
    repo[p] # Absent ~> \E row \in Posts : row.name = NameOf[p]

IsSaved(p, table, c) ==
  \E post \in Posts, row \in table :
    post.name = NameOf[p] /\ row.post = post.post_id /\ row.name = split[c][1]

(* A metadata file that lies beside a post before the post is saved is     *)
(* saved for it in the end, through four more tasks and their caches.      *)
MetadataFollows ==
  \A p \in PostFile : \A f \in Below[p] \cap (TagsFile \cup CategoriesFile) :
    \A c \in Versions[f] :
      repo[p] # Absent /\ Unknown(p) /\ repo[f] = c ~>
        IsSaved(p, IF f \in TagsFile THEN Tags ELSE Categories, c)
=============================================================================
