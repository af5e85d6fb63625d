----------------------------- MODULE PostPipeline -----------------------------
(***************************************************************************)
(* The seven post tasks (plugins/tasks/types/post), the message caches     *)
(* between them and the tables they fill.  A file of the posts directory   *)
(* travels  find_posts -> load_posts -> save_posts -> find_metadata ->     *)
(* load_metadata -> save_tags, save_categories;  each task sends a pair    *)
(* (PostAction, text) under a key, and the receiver's cache keeps it until *)
(* the receiver's next run (a QuickStore, with all that may go wrong in    *)
(* one).                                                                   *)
(*                                                                         *)
(* One task is in its code at a time (TaskGroup, OneTaskAtATime), so a run *)
(* is a sequence of steps of one task: one per file, message or row.       *)
(* Between two steps the posts directory may change, a query may fail, and *)
(* the process may die and be started again: the caches are then empty,    *)
(* the tables are not.                                                     *)
(***************************************************************************)
EXTENDS QuickStoreOps, FiniteSets

CONSTANTS
  Text,             \* paths, file contents, bodies, names: all std::string
  Path,             \* the files that may lie in the posts directory
  PostFile,         \*   those named *.post.md* or *.post.html*
  Markdown,         \*   those whose extension is .md
  TagsFile,         \*   those named *.tags.csv*
  CategoriesFile,   \*   those named *.categories.csv*
  NameOf,           \* a path's file name without its last two extensions
  Below,            \* the files at any depth under a path's directory
  Versions,         \* the contents a file may come to hold
  EmptyText,        \* ""
  parse,            \* maddy's Parser::Parse
  split,            \* split(content, ',')
  Uuid,             \* what generate_uuid_v4() may return
  Absent,           \* no content, no file, no value
  task_dependents   \* the tasks subscribed to each task

ASSUME TextAssumption ==
  /\ IsFiniteSet(Path) /\ Path \subseteq Text
  /\ EmptyText \in Text /\ Absent \notin Text
  /\ PostFile \cup Markdown \cup TagsFile \cup CategoriesFile \subseteq Path
  /\ NameOf \in [Path -> Text]
  /\ Below \in [Path -> SUBSET Path]
  /\ Versions \in [Path -> SUBSET Text]
  /\ parse \in [Text -> Text]
  /\ split \in [Text -> Seq(Text)]

Task == {"find_posts", "load_posts", "save_posts", "find_metadata",
         "load_metadata", "save_tags", "save_categories"}

ASSUME DependentsAssumption == task_dependents \in [Task -> SUBSET Task]

PostAction == {"LOAD_POST", "SAVE_POST", "PROCESSED_POST", "LOAD_METADATA",
               "SAVE_TAGS", "SAVE_CATEGORIES"}

VARIABLES
  repo,         \* the posts directory: each path's content, or Absent
  Posts, Tags, Categories,      \* the tables
  caches,       \* each task's QuickStore
  run           \* the task in its run(), and that run's local variables

tables == <<Posts, Tags, Categories>>
vars == <<repo, Posts, Tags, Categories, caches, run>>

Message(action, payload) == [first |-> action, second |-> payload]

Idle == [task |-> "none", todo |-> <<>>, found |-> <<>>, processed |-> <<>>]

Init == /\ repo \in [Path -> Text \cup {Absent}]
        /\ \A p \in Path : repo[p] \in Versions[p] \cup {Absent}
        /\ Posts = {} /\ Tags = {} /\ Categories = {}
        /\ caches = [t \in Task |-> EmptyStore]
        /\ run = Idle

PostIds == { p.post_id : p \in Posts }

Dead == \E t \in Task : caches[t].health = "aborted"

-----------------------------------------------------------------------------
(* Storing and sending.                                                    *)

(* What the stores of the tasks in S may be after each has been given k, v.*)
AllOutcomes(S, k, v) ==
  { f \in [S -> UNION { StoreOutcomes(caches[t], k, v) : t \in S }] :
      \A t \in S : f[t] \in StoreOutcomes(caches[t], k, v) }

StoreIn(S, k, v) ==
  \E f \in AllOutcomes(S, k, v) :
    caches' = [t \in Task |-> IF t \in S THEN f[t] ELSE caches[t]]

(* Every subscriber's receive() is called in the sender's thread.          *)
send(t, k, v) == StoreIn(task_dependents[t], k, v)

-----------------------------------------------------------------------------
(* The frame of a run.                                                     *)

Working(t) == run.task = t /\ run.todo # <<>> /\ run.found = <<>>

Current == Head(run.todo).key

(* The message the run finds under the current key, none or one.  All but  *)
(* find_metadata read it when its turn comes; find_metadata has read every *)
(* message before it stores anything.                                      *)
Held == IF run.task = "find_metadata" THEN {Head(run.todo).value}
        ELSE get(caches[run.task], Current)

Wanted == [ load_posts |-> "LOAD_POST", save_posts |-> "SAVE_POST",
            find_metadata |-> "PROCESSED_POST", load_metadata |-> "LOAD_METADATA",
            save_tags |-> "SAVE_TAGS", save_categories |-> "SAVE_CATEGORIES" ]

Skip    == run' = [run EXCEPT !.todo = Tail(run.todo)]
Done(k) == run' = [run EXCEPT !.todo = Tail(run.todo),
                              !.processed = Append(run.processed, k)]
Abort   == run' = Idle        \* an exception leaves run(); nothing is removed

(* find_posts lists the directory, in whatever order it comes in; the      *)
(* others copy their cache's entries (for a corrupt cache the copy throws).*)
Listing == { [i \in DOMAIN s |-> [key |-> s[i], value |-> Absent]] :
               s \in SetToSeqs({ p \in PostFile : repo[p] # Absent }) }

Begin(t) ==
  /\ run.task = "none"
  /\ caches[t].health = "sound"
  /\ \E todo \in IF t = "find_posts" THEN Listing ELSE {caches[t].entries} :
       run' = [Idle EXCEPT !.task = t, !.todo = todo]
  /\ UNCHANGED <<repo, tables, caches>>

(* cache.get(key).value() throws if the entry has been displaced; a message*)
(* for another purpose stays where it is.                                  *)
PassOver ==
  /\ run.task \in DOMAIN Wanted /\ Working(run.task)
  /\ \/ Held = {} /\ Abort
     \/ \E m \in Held : m.first # Wanted[run.task] /\ Skip
  /\ UNCHANGED <<repo, tables, caches>>

(* After the loop: remove what has been processed, one key after the other.*)
RemoveProcessed ==
  /\ run.todo = <<>> /\ run.found = <<>> /\ run.processed # <<>>
  /\ \E s \in RemoveOutcomes(caches[run.task], Head(run.processed)) :
       caches' = [caches EXCEPT ![run.task] = s]
  /\ run' = [run EXCEPT !.processed = Tail(run.processed)]
  /\ UNCHANGED <<repo, tables>>

EndRun ==
  /\ run.task # "none"
  /\ run.todo = <<>> /\ run.found = <<>> /\ run.processed = <<>>
  /\ run' = Idle
  /\ UNCHANGED <<repo, tables, caches>>

-----------------------------------------------------------------------------
(* The loop bodies.                                                        *)

(* Slip: counts all rows.                                                  *)
UnknownIfEmpty(p) == Posts = {}

Unknown(p) == \A row \in Posts : row.name # NameOf[p]

FindPost ==
  /\ Working("find_posts")
  /\ IF get(caches["find_posts"], Current) = {} /\ Unknown(Current)
     THEN send("find_posts", Current, Message("LOAD_POST", Current))
     ELSE UNCHANGED caches
  /\ Skip
  /\ UNCHANGED <<repo, tables>>

(* Slips: hands on nothing for a missing file; does not parse.             *)
BodyOrNothing(p) ==
  IF p \in Markdown /\ repo[p] # Absent THEN parse[repo[p]] ELSE repo[p]
RawBody(p) == IF repo[p] = Absent THEN EmptyText ELSE repo[p]

(* A file that cannot be opened counts as an empty one.                    *)
Body(p) ==
  LET content == IF repo[p] = Absent THEN EmptyText ELSE repo[p]
  IN  IF p \in Markdown THEN parse[content] ELSE content

LoadPost ==
  /\ Working("load_posts")
  /\ \E m \in Held :
       /\ m.first = "LOAD_POST"
       /\ send("load_posts", Current, Message("SAVE_POST", Body(Current)))
  /\ Done(Current)
  /\ UNCHANGED <<repo, tables>>

(* Slip: only the body is UNIQUE.                                          *)
ViolatesBody(name, body) == \E row \in Posts : row.body = body

(* The UNIQUE constraints on name and body.                                *)
Violates(name, body) == \E row \in Posts : row.name = name \/ row.body = body

Insert(m) ==
  \E id \in Uuid \ PostIds :
    /\ Posts' = Posts \cup {[ post_id |-> id, name |-> NameOf[Current],
                              body |-> m.second ]}
    /\ send("save_posts", Current, Message("PROCESSED_POST", id))
    /\ Done(Current)

(* Slips: announces the post that was not inserted; announces the row that *)
(* was in its way; goes on with the next post.                             *)
RejectButAnnounce(m) ==
  /\ \E id \in Uuid \ PostIds :
       send("save_posts", Current, Message("PROCESSED_POST", id))
  /\ Abort
RejectAndReannounce(m) ==
  /\ \E row \in Posts :
       send("save_posts", Current, Message("PROCESSED_POST", row.post_id))
  /\ Abort
RejectAndGoOn(m) == Skip /\ UNCHANGED caches

(* The insert throws: the posts already saved in this run stay in the cache,*)
(* to be inserted, and to fail, again.                                     *)
Reject(m) == Abort /\ UNCHANGED caches

SavePost ==
  /\ Working("save_posts")
  /\ \E m \in Held :
       /\ m.first = "SAVE_POST"
       /\ IF Violates(NameOf[Current], m.second)
          THEN Reject(m) /\ UNCHANGED Posts
          ELSE Insert(m)
  /\ UNCHANGED <<repo, Tags, Categories>>

(* Slips: looks everywhere; forgets the categories.                        *)
MetadataAnywhere(p) == { f \in TagsFile \cup CategoriesFile : repo[f] # Absent }
TagsBelow(p) == { f \in Below[p] \cap TagsFile : repo[f] # Absent }

MetadataBelow(p) == { f \in Below[p] \cap (TagsFile \cup CategoriesFile) :
                        repo[f] # Absent }

(* The directory iterator throws when the directory is gone, as it may be  *)
(* once no file is left under it; an empty one yields nothing.             *)
EnterDirectory ==
  /\ Working("find_metadata")
  /\ \E m \in Held :
       /\ m.first = "PROCESSED_POST"
       /\ \/ (\A f \in Below[Current] : repo[f] = Absent) /\ Abort
          \/ \E s \in SetToSeqs(MetadataBelow(Current)) :
               run' = [run EXCEPT
                         !.todo = Tail(run.todo),
                         !.found = [i \in DOMAIN s |-> [key |-> s[i], id |-> m.second]],
                         !.processed = Append(run.processed, Current)]
  /\ UNCHANGED <<repo, tables, caches>>

NextFound == run' = [run EXCEPT !.found = Tail(run.found)]

FindMetadata ==
  /\ run.task = "find_metadata" /\ run.found # <<>>
  /\ StoreIn({"find_metadata"} \cup task_dependents["find_metadata"],
             Head(run.found).key, Message("LOAD_METADATA", Head(run.found).id))
  /\ NextFound
  /\ UNCHANGED <<repo, tables>>

(* Slip: the two actions swapped.                                          *)
OtherAction(f) == IF f \in TagsFile THEN "SAVE_CATEGORIES" ELSE "SAVE_TAGS"

MetadataAction(f) == IF f \in TagsFile THEN "SAVE_TAGS" ELSE "SAVE_CATEGORIES"

(* The content is the key of what is stored and sent.  A file that cannot  *)
(* be opened stays in the cache.                                           *)
LoadMetadata ==
  /\ Working("load_metadata")
  /\ \E m \in Held :
       /\ m.first = "LOAD_METADATA"
       /\ IF repo[Current] = Absent
          THEN Skip /\ UNCHANGED caches
          ELSE /\ StoreIn({"load_metadata"} \cup task_dependents["load_metadata"],
                          repo[Current], Message(MetadataAction(Current), m.second))
               /\ Done(Current)
  /\ UNCHANGED <<repo, tables>>

SplitContent(t) ==
  /\ Working(t)
  /\ \E m \in Held :
       /\ m.first = Wanted[t]
       /\ run' = [run EXCEPT
                    !.todo = Tail(run.todo),
                    !.found = [i \in DOMAIN split[Current] |->
                                 [key |-> split[Current][i], id |-> m.second]]]
  /\ UNCHANGED <<repo, tables, caches>>

(* An item that is new for its post is inserted, and the item, not the     *)
(* content it came from, is noted for removal.                             *)
SaveItem(table) ==
  LET row == [name |-> Head(run.found).key, post |-> Head(run.found).id] IN
  /\ run.found # <<>>
  /\ table' = table \cup {row}
  /\ run' = [run EXCEPT
               !.found = Tail(run.found),
               !.processed = IF row \in table THEN run.processed
                             ELSE Append(run.processed, row.name)]

SaveTag == /\ run.task = "save_tags" /\ SaveItem(Tags)
           /\ UNCHANGED <<repo, Posts, Categories, caches>>

SaveCategory == /\ run.task = "save_categories" /\ SaveItem(Categories)
                /\ UNCHANGED <<repo, Posts, Tags, caches>>

-----------------------------------------------------------------------------
(* What happens to the tasks.                                              *)

(* A query throws for a reason of its own.                                 *)
QueryFails ==
  /\ \/ run.task \in {"find_posts", "save_posts"} /\ run.todo # <<>>
     \/ run.task \in {"save_tags", "save_categories"} /\ run.found # <<>>
  /\ Abort
  /\ UNCHANGED <<repo, tables, caches>>

(* Somebody writes, changes or deletes a file.                             *)
EditRepo ==
  /\ \E p \in Path, c \in Text \cup {Absent} :
       c \in Versions[p] \cup {Absent} /\ repo' = [repo EXCEPT ![p] = c]
  /\ UNCHANGED <<tables, caches, run>>

(* The process dies, or is dead already, and is started again.             *)
Restart ==
  /\ caches' = [t \in Task |-> EmptyStore]
  /\ run' = Idle
  /\ UNCHANGED <<repo, tables>>

-----------------------------------------------------------------------------
Step == \/ PassOver \/ RemoveProcessed \/ EndRun
        \/ FindPost \/ LoadPost \/ SavePost
        \/ EnterDirectory \/ FindMetadata \/ LoadMetadata
        \/ \E t \in {"save_tags", "save_categories"} : SplitContent(t)
        \/ SaveTag \/ SaveCategory

Next == \/ ~Dead /\ (Step \/ QueryFails \/ \E t \in Task : Begin(t))
        \/ EditRepo
        \/ Restart

Spec == Init /\ [][Next]_vars

-----------------------------------------------------------------------------
(* Properties                                                              *)

Messages == [first : PostAction, second : Text \cup Uuid]

TypeOK ==
  /\ repo \in [Path -> Text \cup {Absent}]
  /\ \A row \in Posts : row \in [post_id : Uuid, name : Text, body : Text]
  /\ \A row \in Tags \cup Categories : row \in [name : Text, post : Uuid]
  /\ caches \in [Task -> QuickStores(Text, Messages)]
  /\ run \in [ task : Task \cup {"none"},
               todo : Seq([key : Text, value : Messages \cup {Absent}]),
               found : Seq([key : Text, id : Uuid]),
               processed : Seq(Text) ]

(* A tag or category never points to a post that is not in the table,      *)
(* whatever fails, dies or is displaced between the tasks: there is no     *)
(* foreign key, only the order of insert and send.                         *)
MetadataBelongsToAPost ==
  \A row \in Tags \cup Categories : row.post \in PostIds

(* A tag was read from a tags file, and a category from a categories file, *)
(* under the directory of a post file with the name of the post it is      *)
(* attached to: no message is ever paired with another's id, although      *)
(* equal contents share one cache key.                                     *)
ReadFrom(row, Files) ==
  \E p \in PostFile, post \in Posts :
    /\ post.post_id = row.post /\ post.name = NameOf[p]
    /\ \E f \in Below[p] \cap Files :
         \E c \in Versions[f] : \E i \in DOMAIN split[c] : split[c][i] = row.name

MetadataIsWhereItBelongs ==
  /\ \A row \in Tags : ReadFrom(row, TagsFile)
  /\ \A row \in Categories : ReadFrom(row, CategoriesFile \ TagsFile)

(* A post's body is that of a file with its name, as it was at some time,  *)
(* or the empty document.                                                  *)
BodyIsItsFiles ==
  \A row \in Posts :
    \E p \in PostFile :
      /\ row.name = NameOf[p]
      /\ \E c \in Versions[p] \cup {EmptyText} :
           row.body = IF p \in Markdown THEN parse[c] ELSE c

(* A post is waiting that cannot be inserted and none before it: the next  *)
(* insert will be this one, and fail.                                      *)
Waiting == { i \in DOMAIN caches["save_posts"].entries :
               caches["save_posts"].entries[i].value.first = "SAVE_POST" }

Blocked ==
  \E i \in Waiting :
    /\ \A j \in Waiting : i <= j
    /\ LET e == caches["save_posts"].entries[i] IN
       /\ \E row \in Posts : row.name = NameOf[e.key]
       /\ run.task = "save_posts" =>
            \E n \in DOMAIN run.todo : run.todo[n].key = e.key

(* Such a post blocks all others for good: until the process is restarted, *)
(* or the ring is full and a new entry displaces another, no post is saved.*)
Restarted == caches' = [t \in Task |-> EmptyStore]
Displaces(t) == ~(Keys(caches[t]) \subseteq Keys(caches'[t]))

BlockedForGood ==
  [][Blocked =>
       \/ Posts' = Posts /\ Blocked'
       \/ Posts' = Posts /\ run.task = "load_posts" /\ Displaces("save_posts")
       \/ Restarted]_vars

(* A cache whose slots have all been handed out and whose entries have all *)
(* been removed takes nothing any more.  load_posts removes every file it  *)
(* has read, and reads a file again each time find_posts sends it, so that *)
(* a file that cannot be saved wears the cache out.  From then on nothing  *)
(* reaches save_posts, and no post is saved that was not waiting there,    *)
(* until the process is restarted.                                         *)
WornOut(t) ==
  /\ caches[t].entries = <<>>
  /\ caches[t].current_allocations = cache_size
  /\ run.task = t => run.todo = <<>>

WornOutForGood ==
  [][WornOut("load_posts") =>
       \/ /\ WornOut("load_posts")'
          /\ Keys(caches'["save_posts"]) \subseteq Keys(caches["save_posts"])
          /\ \A row \in Posts' \ Posts :
               \E k \in Keys(caches["save_posts"]) : row.name = NameOf[k]
       \/ Restarted]_vars

(* Whoever still knows of a post.  What find_posts and load_posts send is  *)
(* a path and a body, whatever it says.                                    *)
Names(m, id) == m.second = id /\ m.first \notin {"LOAD_POST", "SAVE_POST"}

Mentioned(id) ==
  \/ \E t \in Task : \E i \in DOMAIN caches[t].entries :
       Names(caches[t].entries[i].value, id)
  \/ /\ run.task # "find_posts"
     /\ \E i \in DOMAIN run.todo : Names(run.todo[i].value, id)
  \/ \E i \in DOMAIN run.found : run.found[i].id = id

RowsOf(table, id) == { row \in table : row.post = id }

(* Once no message mentions a saved post, because the process was restarted*)
(* or its messages were displaced, the post gets no tag and no category    *)
(* any more: find_posts skips it and save_posts only announces new ids.    *)
ForgottenForGood ==
  [][\A id \in PostIds : ~Mentioned(id) =>
       /\ ~Mentioned(id)'
       /\ RowsOf(Tags', id) = RowsOf(Tags, id)
       /\ RowsOf(Categories', id) = RowsOf(Categories, id)]_vars

(* A post file found to be new is handed to load_posts.                    *)
DiscoveredIsHandedOver ==
  [][run.task = "find_posts" /\ FindPost /\ Unknown(Current) =>
       Current \in Keys(caches'["load_posts"])]_vars

Ledger == INSTANCE BlogLedger
            WITH posts <- Posts, tags <- Tags, categories <- Categories

(* The tasks implement the ledger.                                         *)
ImplementsLedger == Ledger!LedgerSpec
=============================================================================
