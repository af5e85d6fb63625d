-------------------------- MODULE PostPipelineProofs --------------------------
(***************************************************************************)
(* Theorems about PostPipeline, for all files, texts and ring sizes, and   *)
(* (where nothing else is said) whoever is subscribed to whom.             *)
(***************************************************************************)
EXTENDS PostPipeline, QuickStoreLemmas, FiniteSetTheorems

-----------------------------------------------------------------------------
(* What may stand in a cache.                                              *)

(* What a post file's body may come out as.                                *)
Bodies(p) ==
  { IF p \in Markdown THEN parse[c] ELSE c : c \in Versions[p] \cup {EmptyText} }

(* The post with that id has been saved from a file named like p.          *)
SavedFrom(p, id) ==
  p \in PostFile /\ \E post \in Posts : post.post_id = id /\ post.name = NameOf[p]

(* f is one of the Files beside that post.                                 *)
Beside(f, Files, id) ==
  \E p \in PostFile : SavedFrom(p, id) /\ f \in Below[p] \cap Files

(* c is what one of the Files beside that post may hold.                   *)
Content(c, Files, id) ==
  \E f \in Path : Beside(f, Files, id) /\ c \in Versions[f]

MetadataFile == TagsFile \cup CategoriesFile

(* Every message says the truth about the key it is stored under.          *)
Sound(k, m) ==
  /\ m.first \in {"LOAD_POST", "SAVE_POST"} => k \in PostFile
  /\ m.first = "SAVE_POST" => m.second \in Bodies(k)
  /\ m.first = "PROCESSED_POST" => SavedFrom(k, m.second)
  /\ m.first = "LOAD_METADATA" => Beside(k, MetadataFile, m.second)
  /\ m.first = "SAVE_TAGS" => Content(k, TagsFile, m.second)
  /\ m.first = "SAVE_CATEGORIES" => Content(k, CategoriesFile \ TagsFile, m.second)

-----------------------------------------------------------------------------
(* The inductive invariant.                                                *)

RepoOK == /\ repo \in [Path -> Text \cup {Absent}]
          /\ \A p \in Path : repo[p] \in Versions[p] \cup {Absent}

PostRows == [post_id : Uuid, name : Text, body : Text]
MetadataRows == [name : Text, post : Uuid]

TablesOK == /\ Posts \subseteq PostRows
            /\ Tags \subseteq MetadataRows /\ Categories \subseteq MetadataRows
            /\ BodyIsItsFiles
            /\ MetadataIsWhereItBelongs

CachesOK ==
  /\ caches \in [Task -> QuickStores(Text, Messages)]
  /\ \A t \in Task : GoodStore(caches[t], Text, Messages)
  /\ \A t \in Task : \A k \in Text : \A m \in get(caches[t], k) : Sound(k, m)

Runs == [ task : Task \cup {"none"},
          todo : Seq([key : Text, value : Messages \cup {Absent}]),
          found : Seq([key : Text, id : Uuid]),
          processed : Seq(Text) ]

(* What the run has set aside.                                             *)
TodoOK == \A i \in DOMAIN run.todo :
  /\ run.task = "find_posts" => run.todo[i].key \in PostFile
  /\ run.task = "find_metadata" => /\ run.todo[i].value \in Messages
                                   /\ Sound(run.todo[i].key, run.todo[i].value)

FoundIsTrue(task, key, id) ==
  /\ task = "find_metadata" => Beside(key, MetadataFile, id)
  /\ task = "save_tags" => ReadFrom([name |-> key, post |-> id], TagsFile)
  /\ task = "save_categories" =>
       ReadFrom([name |-> key, post |-> id], CategoriesFile \ TagsFile)

FoundOK == \A i \in DOMAIN run.found :
  FoundIsTrue(run.task, run.found[i].key, run.found[i].id)

RunOK == /\ run \in Runs
         /\ run.task = "none" => run = Idle
         /\ TodoOK
         /\ FoundOK

IInv == RepoOK /\ TablesOK /\ CachesOK /\ RunOK

(* Posts are never deleted, so what is true of a post stays true.          *)
LEMMA Rigid ==
  ASSUME Posts \subseteq Posts'
  PROVE  /\ \A k, m : Sound(k, m) => Sound(k, m)'
         /\ \A k, Files, id : Beside(k, Files, id) => Beside(k, Files, id)'
         /\ \A task, key, id : FoundIsTrue(task, key, id) => FoundIsTrue(task, key, id)'
         /\ \A row, Files : ReadFrom(row, Files) => ReadFrom(row, Files)'
<1>1. \A p, id : SavedFrom(p, id) => SavedFrom(p, id)'
  BY DEF SavedFrom
<1>2. \A k, Files, id : Beside(k, Files, id) => Beside(k, Files, id)'
  BY <1>1 DEF Beside
<1>3. \A k, Files, id : Content(k, Files, id) => Content(k, Files, id)'
  BY <1>2 DEF Content
<1>4. \A k, m : Sound(k, m) => Sound(k, m)'
  BY <1>1, <1>2, <1>3 DEF Sound
<1>5. \A row, Files : ReadFrom(row, Files) => ReadFrom(row, Files)'
  BY DEF ReadFrom
<1>6. \A task, key, id : FoundIsTrue(task, key, id) => FoundIsTrue(task, key, id)'
  BY <1>2, <1>5 DEF FoundIsTrue
<1> QED BY <1>2, <1>4, <1>5, <1>6

-----------------------------------------------------------------------------
(* What the steps do to the caches.                                        *)

(* One cache after a store of something sound, after a removal, or as it   *)
(* was.                                                                    *)
Changed(old, new) ==
  \/ new = old
  \/ \E k \in Text, m \in Messages : Sound(k, m)' /\ new \in StoreOutcomes(old, k, m)
  \/ \E k \in Text : new \in RemoveOutcomes(old, k)

(* A store stays a store, and what it says stays true.                     *)
LEMMA ChangedProps ==
  ASSUME Posts \subseteq Posts', NEW old, NEW new,
         GoodStore(old, Text, Messages), Changed(old, new),
         \A k \in Text : \A m \in get(old, k) : Sound(k, m)
  PROVE  /\ GoodStore(new, Text, Messages)
         /\ \A k \in Text : \A m \in get(new, k) : Sound(k, m)'
<1>0. \A k \in Text : \A m \in get(old, k) : Sound(k, m)'
  BY Rigid
<1>1. CASE new = old
  BY <1>0, <1>1
<1>2. ASSUME NEW k \in Text, NEW m \in Messages, Sound(k, m)',
             new \in StoreOutcomes(old, k, m)
      PROVE  /\ GoodStore(new, Text, Messages)
             /\ \A x \in Text : \A y \in get(new, x) : Sound(x, y)'
  <2>1. /\ GoodStore(new, Text, Messages)
        /\ get(new, k) \subseteq {m} \cup get(old, k)
        /\ \A x : x # k => get(new, x) \subseteq get(old, x)
    BY <1>2, StoreProps
  <2> QED BY <1>0, <1>2, <2>1
<1>3. ASSUME NEW k \in Text, new \in RemoveOutcomes(old, k)
      PROVE  /\ GoodStore(new, Text, Messages)
             /\ \A x \in Text : \A y \in get(new, x) : Sound(x, y)'
  <2>1. /\ GoodStore(new, Text, Messages)
        /\ \A x : get(new, x) \subseteq get(old, x)
    BY <1>3, RemoveProps
  <2> QED BY <1>0, <2>1
<1> QED BY <1>1, <1>2, <1>3 DEF Changed

LEMMA CachesStep ==
  ASSUME CachesOK, Posts \subseteq Posts', caches' = [t \in Task |-> caches'[t]],
         \A t \in Task : Changed(caches[t], caches'[t])
  PROVE  CachesOK'
<1>1. \A t \in Task :
        /\ GoodStore(caches'[t], Text, Messages)
        /\ \A k \in Text : \A m \in get(caches'[t], k) : Sound(k, m)'
  BY ChangedProps DEF CachesOK
<1>2. \A t \in Task : caches'[t] \in QuickStores(Text, Messages)
  BY <1>1 DEF GoodStore
<1>3. caches' \in [Task -> QuickStores(Text, Messages)]
  BY <1>2
<1> QED BY <1>1, <1>3 DEF CachesOK

LEMMA StoredIn ==
  ASSUME CachesOK, NEW S \in SUBSET Task, NEW k \in Text, NEW m \in Messages,
         StoreIn(S, k, m)
  PROVE  /\ caches' = [t \in Task |-> caches'[t]]
         /\ \A t \in S : caches'[t] \in StoreOutcomes(caches[t], k, m)
         /\ \A t \in Task \ S : caches'[t] = caches[t]
<1>1. PICK f \in AllOutcomes(S, k, m) :
        caches' = [t \in Task |-> IF t \in S THEN f[t] ELSE caches[t]]
  BY DEF StoreIn
<1>2. \A t \in S : f[t] \in StoreOutcomes(caches[t], k, m)
  BY DEF AllOutcomes
<1>3. \A t \in Task : caches'[t] = IF t \in S THEN f[t] ELSE caches[t]
  BY <1>1
<1>4. \A t \in S : t \in Task
  OBVIOUS
<1> QED BY <1>1, <1>2, <1>3, <1>4

LEMMA StoreStep ==
  ASSUME CachesOK, Posts \subseteq Posts', NEW S \in SUBSET Task,
         NEW k \in Text, NEW m \in Messages, StoreIn(S, k, m), Sound(k, m)'
  PROVE  CachesOK'
<1>1. /\ caches' = [t \in Task |-> caches'[t]]
      /\ \A t \in S : caches'[t] \in StoreOutcomes(caches[t], k, m)
      /\ \A t \in Task \ S : caches'[t] = caches[t]
  BY StoredIn
<1>2. \A t \in Task : Changed(caches[t], caches'[t])
  BY <1>1 DEF Changed
<1> QED BY <1>1, <1>2, CachesStep

LEMMA SendStep ==
  ASSUME CachesOK, Posts \subseteq Posts', NEW S \in SUBSET Task
  PROVE  \A k \in Text, m \in Messages : StoreIn(S, k, m) /\ Sound(k, m) => CachesOK'
<1>1. ASSUME NEW k \in Text, NEW m \in Messages, StoreIn(S, k, m), Sound(k, m)
      PROVE  CachesOK'
  <2>1. Sound(k, m)'
    BY <1>1, Rigid
  <2> QED BY <1>1, <2>1, StoreStep
<1> QED BY <1>1

-----------------------------------------------------------------------------
(* What a step reads and leaves of a run.                                  *)

LEMMA HeadTail ==
  ASSUME NEW S, NEW s \in Seq(S), s # <<>>
  PROVE  /\ 1 \in DOMAIN s /\ Head(s) = s[1] /\ Head(s) \in S
         /\ Tail(s) \in Seq(S)
         /\ \A i \in DOMAIN Tail(s) : i + 1 \in DOMAIN s /\ Tail(s)[i] = s[i + 1]
<1>1. /\ Len(s) \in Nat \ {0} /\ DOMAIN s = 1 .. Len(s)
  BY EmptySeq, LenProperties
<1>2. /\ Head(s) \in S /\ Tail(s) \in Seq(S) /\ Len(Tail(s)) = Len(s) - 1
      /\ \A i \in 1 .. Len(Tail(s)) : Tail(s)[i] = s[i + 1]
  BY HeadTailProperties
<1>3. DOMAIN Tail(s) = 1 .. Len(Tail(s))
  BY <1>2, LenProperties
<1>4. Head(s) = s[1]
  BY <1>1
<1> QED BY <1>1, <1>2, <1>3, <1>4

(* What a run holds in its hand.                                           *)
LEMMA HeldIsSound ==
  ASSUME CachesOK, RunOK, Working(run.task), run.task # "find_posts", NEW m \in Held
  PROVE  run.task \in Task /\ Current \in Text /\ m \in Messages /\ Sound(Current, m)
<1>1. /\ run.task \in Task
      /\ run.todo \in Seq([key : Text, value : Messages \cup {Absent}]) /\ run.todo # <<>>
  BY DEF RunOK, Runs, Working, Idle
<1>2. /\ Head(run.todo) \in [key : Text, value : Messages \cup {Absent}]
      /\ 1 \in DOMAIN run.todo /\ Head(run.todo) = run.todo[1]
  BY <1>1, HeadTail
<1>3. CASE run.task = "find_metadata"
  BY <1>1, <1>2, <1>3 DEF Held, Current, RunOK, TodoOK
<1>4. CASE run.task # "find_metadata"
  <2>1. m \in get(caches[run.task], Current) /\ Current \in Text
    BY <1>2, <1>4 DEF Held, Current
  <2>2. caches[run.task] \in QuickStores(Text, Messages)
    BY <1>1 DEF CachesOK
  <2>3. m \in Messages
    <3>1. \A i \in DOMAIN caches[run.task].entries :
            caches[run.task].entries[i].value \in Messages
      <4>1. caches[run.task].entries \in Seq([key : Text, value : Messages])
        BY <2>2 DEF QuickStores
      <4>2. ASSUME NEW i \in DOMAIN caches[run.task].entries
            PROVE  caches[run.task].entries[i] \in [key : Text, value : Messages]
        BY <4>1, ElementOfSeq, LenProperties
      <4> QED BY <4>2
    <3> QED BY <2>1, <3>1 DEF get
  <2> QED BY <1>1, <2>1, <2>3 DEF CachesOK
<1> QED BY <1>3, <1>4

LEMMA FinitelyMany ==
  ASSUME NEW S \in SUBSET Path, NEW s \in SetToSeqs(S)
  PROVE  /\ Len(s) \in Nat /\ DOMAIN s = 1 .. Len(s)
         /\ \A i \in DOMAIN s : s[i] \in S
<1>1. IsFiniteSet(S)
  BY FS_Subset, TextAssumption
<1>2. Cardinality(S) \in Nat
  BY <1>1, FS_CardinalityType
<1>3. s \in [1 .. Cardinality(S) -> S]
  BY DEF SetToSeqs
<1>4. s \in Seq(S)
  BY <1>2, <1>3, SeqDef
<1> QED BY <1>3, <1>4, LenProperties

(* A run goes on with a part of its todo, and with things found that are   *)
(* true.                                                                   *)
LEMMA TodoStep ==
  ASSUME RunOK, run.task # "none", Posts \subseteq Posts',
         run' \in Runs, run'.task = run.task,
         \A i \in DOMAIN run'.todo :
           \E j \in DOMAIN run.todo : run'.todo[i] = run.todo[j],
         FoundOK'
  PROVE  RunOK'
<1>1. TodoOK'
  BY Rigid DEF RunOK, TodoOK
<1> QED BY <1>1 DEF RunOK, Runs

(* A run goes on with a part of what it had.                               *)
LEMMA RunStep ==
  ASSUME RunOK, run.task # "none", Posts \subseteq Posts',
         run' \in Runs, run'.task = run.task,
         \A i \in DOMAIN run'.todo :
           \E j \in DOMAIN run.todo : run'.todo[i] = run.todo[j],
         \A i \in DOMAIN run'.found :
           \E j \in DOMAIN run.found : run'.found[i] = run.found[j]
  PROVE  RunOK'
<1>1. \A i \in DOMAIN run'.found :
        FoundIsTrue(run'.task, run'.found[i].key, run'.found[i].id)
  BY DEF RunOK, FoundOK
<1>2. FoundOK'
  BY <1>1, Rigid DEF FoundOK
<1> QED BY <1>2, TodoStep

LEMMA Aborted ==
  ASSUME Abort
  PROVE  RunOK'
<1>1. /\ run' = Idle /\ run' \in Runs
      /\ run'.task = "none" /\ run'.todo = <<>> /\ run'.found = <<>>
  BY EmptySeq DEF Abort, Idle, Runs
<1>2. DOMAIN <<>> = {}
  OBVIOUS
<1> QED BY <1>1, <1>2 DEF RunOK, TodoOK, FoundOK, Runs, Idle

LEMMA Skipped ==
  ASSUME RunOK, run.task # "none", run.todo # <<>>, Posts \subseteq Posts',
         Skip \/ \E k \in Text : Done(k)
  PROVE  RunOK'
<1>1. /\ run.todo \in Seq([key : Text, value : Messages \cup {Absent}])
      /\ run.processed \in Seq(Text)
  BY DEF RunOK, Runs
<1>2. /\ Tail(run.todo) \in Seq([key : Text, value : Messages \cup {Absent}])
      /\ \A i \in DOMAIN Tail(run.todo) :
           i + 1 \in DOMAIN run.todo /\ Tail(run.todo)[i] = run.todo[i + 1]
  BY <1>1, HeadTail
<1>3. \A k \in Text : Append(run.processed, k) \in Seq(Text)
  BY <1>1, AppendProperties
<1>4. /\ run' \in Runs
      /\ run'.task = run.task /\ run'.todo = Tail(run.todo) /\ run'.found = run.found
  BY <1>2, <1>3 DEF RunOK, Runs, Skip, Done
<1> QED BY <1>2, <1>4, RunStep

LEMMA FoundNext ==
  ASSUME RunOK, run.found # <<>>, Posts \subseteq Posts', NextFound
  PROVE  RunOK'
<1>0. run.task # "none"
  BY DEF RunOK, Idle
<1>1. run.found \in Seq([key : Text, id : Uuid])
  BY DEF RunOK, Runs
<1>2. /\ Tail(run.found) \in Seq([key : Text, id : Uuid])
      /\ \A i \in DOMAIN Tail(run.found) :
           i + 1 \in DOMAIN run.found /\ Tail(run.found)[i] = run.found[i + 1]
  BY <1>1, HeadTail
<1>4. /\ run' \in Runs
      /\ run'.task = run.task /\ run'.todo = run.todo /\ run'.found = Tail(run.found)
  BY <1>2 DEF RunOK, Runs, NextFound
<1> QED BY <1>0, <1>2, <1>4, RunStep

-----------------------------------------------------------------------------
(* What stays as it is.                                                    *)

LEMMA RepoKept == ASSUME RepoOK, UNCHANGED repo PROVE RepoOK'
BY DEF RepoOK

LEMMA TablesKept == ASSUME TablesOK, UNCHANGED tables PROVE TablesOK'
BY DEF TablesOK, tables, BodyIsItsFiles, MetadataIsWhereItBelongs, ReadFrom

LEMMA CachesKept ==
  ASSUME CachesOK, Posts \subseteq Posts', UNCHANGED caches
  PROVE  CachesOK'
<1>1. \A t \in Task : Changed(caches[t], caches'[t])
  BY DEF Changed
<1>2. caches' = [t \in Task |-> caches'[t]]
  BY DEF CachesOK
<1> QED BY <1>1, <1>2, CachesStep

(* No table changes.                                                       *)
Quiet == IInv /\ UNCHANGED <<repo, tables>>

LEMMA QuietStep ==
  ASSUME Quiet
  PROVE  /\ Posts \subseteq Posts' /\ RepoOK' /\ TablesOK'
         /\ caches' = caches => CachesOK'
         /\ CachesOK' /\ RunOK' => IInv'
<1>1. Posts \subseteq Posts'
  BY DEF Quiet, tables
<1> QED BY <1>1, RepoKept, TablesKept, CachesKept DEF Quiet, IInv

-----------------------------------------------------------------------------
(* The actions.                                                            *)

LEMMA EmptyStoreProps ==
  /\ GoodStore(EmptyStore, Text, Messages)
  /\ \A k \in Text : get(EmptyStore, k) = {}
<1>1. /\ EmptyStore.entries = <<>> /\ DOMAIN EmptyStore.entries = {}
      /\ EmptyStore.current_item_idx = 0 /\ EmptyStore.current_allocations = 0
      /\ EmptyStore.health = "sound" /\ Len(EmptyStore.entries) = 0
  BY EmptySeq DEF EmptyStore
<1>2. EmptyStore \in QuickStores(Text, Messages)
  BY EmptySeq DEF EmptyStore, QuickStores, Health
<1>3. RingIsConsistent(EmptyStore) /\ KeysAreDistinct(EmptyStore)
  BY <1>1, CacheSizeAssumption DEF RingIsConsistent, KeysAreDistinct
<1> QED BY <1>1, <1>2, <1>3 DEF GoodStore, get

LEMMA InitInv == Init => IInv
<1> SUFFICES ASSUME Init PROVE IInv
  OBVIOUS
<1>1. RepoOK /\ TablesOK
  BY DEF Init, RepoOK, TablesOK, BodyIsItsFiles, MetadataIsWhereItBelongs
<1>2. CachesOK
  <2>1. GoodStore(EmptyStore, Text, Messages) /\ \A k \in Text : get(EmptyStore, k) = {}
    BY EmptyStoreProps
  <2> QED BY <2>1 DEF Init, CachesOK, GoodStore
<1>3. RunOK
  <2>1. run.todo = <<>> /\ run.found = <<>> /\ run \in Runs /\ run.task = "none"
    BY EmptySeq DEF Init, Idle, Runs
  <2> QED BY <2>1 DEF Init, RunOK, TodoOK, FoundOK
<1> QED BY <1>1, <1>2, <1>3 DEF IInv

LEMMA PassOverInv == ASSUME IInv, PassOver PROVE IInv'
<1>1. Quiet /\ UNCHANGED caches
  BY DEF Quiet, PassOver
<1>2. RunOK /\ Posts \subseteq Posts'
  BY <1>1, QuietStep DEF IInv
<1>3. run.task # "none" /\ run.todo # <<>>
  BY DEF PassOver, Working, Wanted
<1>4. Abort \/ Skip
  BY DEF PassOver
<1>5. RunOK'
  BY <1>2, <1>3, <1>4, Aborted, Skipped
<1> QED BY <1>1, <1>5, QuietStep

LEMMA RemoveProcessedInv == ASSUME IInv, RemoveProcessed PROVE IInv'
<1>1. Quiet
  BY DEF Quiet, RemoveProcessed
<1>2. RunOK /\ CachesOK /\ Posts \subseteq Posts'
  BY <1>1, QuietStep DEF IInv
<1>3. /\ run.processed \in Seq(Text) /\ run.processed # <<>>
      /\ run.task \in Task
  BY <1>2 DEF RunOK, Runs, Idle, RemoveProcessed
<1>4. Head(run.processed) \in Text /\ Tail(run.processed) \in Seq(Text)
  BY <1>3, HeadTailProperties
<1>5. CachesOK'
  <2>1. PICK s \in RemoveOutcomes(caches[run.task], Head(run.processed)) :
          caches' = [caches EXCEPT ![run.task] = s]
    BY DEF RemoveProcessed
  <2>2. /\ caches' = [t \in Task |-> caches'[t]]
        /\ \A t \in Task : caches'[t] = IF t = run.task THEN s ELSE caches[t]
    BY <1>2, <1>3, <2>1 DEF CachesOK
  <2>3. \A t \in Task : Changed(caches[t], caches'[t])
    BY <1>4, <2>1, <2>2 DEF Changed
  <2> QED BY <1>2, <2>2, <2>3, CachesStep
<1>6. /\ run' \in Runs
      /\ run'.task = run.task /\ run'.todo = run.todo /\ run'.found = run.found
  BY <1>2, <1>4 DEF RunOK, Runs, RemoveProcessed
<1>7. RunOK'
  BY <1>2, <1>3, <1>6, RunStep DEF RunOK, Idle
<1> QED BY <1>1, <1>5, <1>7, QuietStep

LEMMA AbortInv == ASSUME IInv, QueryFails \/ EndRun PROVE IInv'
<1>1. Quiet /\ UNCHANGED caches /\ Abort
  BY DEF Quiet, QueryFails, EndRun, Abort
<1> QED BY <1>1, QuietStep, Aborted

LEMMA RestartInv == ASSUME IInv, Restart PROVE IInv'
<1>1. Quiet /\ Abort
  BY DEF Quiet, Restart, Abort
<1>2. CachesOK'
  <2>1. GoodStore(EmptyStore, Text, Messages) /\ \A k \in Text : get(EmptyStore, k) = {}
    BY EmptyStoreProps
  <2>2. \A t \in Task : caches'[t] = EmptyStore
    BY DEF Restart
  <2>3. caches' \in [Task -> QuickStores(Text, Messages)]
    BY <2>1 DEF Restart, GoodStore
  <2> QED BY <2>1, <2>2, <2>3 DEF CachesOK
<1> QED BY <1>1, <1>2, QuietStep, Aborted

LEMMA EditRepoInv == ASSUME IInv, EditRepo PROVE IInv'
<1>1. RepoOK'
  BY DEF IInv, RepoOK, EditRepo
<1>2. TablesOK'
  BY TablesKept DEF IInv, EditRepo
<1>3. Posts \subseteq Posts' /\ run' = run /\ caches' = caches
  BY DEF EditRepo, tables
<1>4. CachesOK'
  BY <1>3, CachesKept DEF IInv
<1>5. RunOK'
  <2>1. CASE run.task = "none"
    BY <1>3, <2>1, Aborted DEF IInv, RunOK, Abort
  <2>2. CASE run.task # "none"
    BY <1>3, <2>2, RunStep DEF IInv, RunOK
  <2> QED BY <2>1, <2>2
<1> QED BY <1>1, <1>2, <1>4, <1>5 DEF IInv

LEMMA CurrentIsText ==
  ASSUME RunOK, Working(run.task)
  PROVE  /\ run.task \in Task /\ run.task # "none" /\ run.todo # <<>> /\ run.found = <<>>
         /\ Current \in Text
         /\ run.task = "find_posts" => Current \in PostFile
<1>1. /\ run.task \in Task /\ run.task # "none" /\ run.todo # <<>> /\ run.found = <<>>
      /\ run.todo \in Seq([key : Text, value : Messages \cup {Absent}])
  BY DEF RunOK, Runs, Working, Idle, Task
<1>2. /\ Head(run.todo) \in [key : Text, value : Messages \cup {Absent}]
      /\ 1 \in DOMAIN run.todo /\ Head(run.todo) = run.todo[1]
  BY <1>1, HeadTail
<1> QED BY <1>1, <1>2 DEF Current, RunOK, TodoOK

LEMMA FindPostInv == ASSUME IInv, FindPost PROVE IInv'
<1>1. Quiet
  BY DEF Quiet, FindPost
<1>2. RunOK /\ CachesOK /\ Posts \subseteq Posts' /\ Working(run.task)
  BY <1>1, QuietStep DEF IInv, FindPost, Working
<1>3. /\ run.task # "none" /\ run.todo # <<>>
      /\ Current \in Text /\ Current \in PostFile
  BY <1>2, CurrentIsText DEF FindPost, Working
<1>4. RunOK'
  BY <1>2, <1>3, Skipped DEF FindPost
<1>5. CachesOK'
  <2>1. CASE UNCHANGED caches
    BY <1>1, <2>1, QuietStep
  <2>2. CASE send("find_posts", Current, Message("LOAD_POST", Current))
    <3> DEFINE m == Message("LOAD_POST", Current)
    <3>1. m \in Messages /\ m.first = "LOAD_POST"
      BY <1>3 DEF Message, Messages, PostAction
    <3>2. Sound(Current, m)
      BY <1>3, <3>1 DEF Sound
    <3>3. task_dependents["find_posts"] \in SUBSET Task
      BY DependentsAssumption DEF Task
    <3> QED BY <1>2, <1>3, <2>2, <3>1, <3>2, <3>3, SendStep DEF send
  <2> QED BY <2>1, <2>2 DEF FindPost
<1> QED BY <1>1, <1>4, <1>5, QuietStep

(* What load_posts makes of a post file.                                   *)
LEMMA BodyProps ==
  ASSUME RepoOK
  PROVE  \A p \in PostFile : Body(p) \in Bodies(p) /\ Body(p) \in Text
<1> SUFFICES ASSUME NEW p \in PostFile PROVE Body(p) \in Bodies(p) /\ Body(p) \in Text
  OBVIOUS
<1> DEFINE content == IF repo[p] = Absent THEN EmptyText ELSE repo[p]
<1>1. content \in Versions[p] \cup {EmptyText} /\ content \in Text
  BY TextAssumption DEF RepoOK
<1>2. Body(p) = IF p \in Markdown THEN parse[content] ELSE content
  BY DEF Body
<1> HIDE DEF content
<1> QED BY <1>1, <1>2, TextAssumption DEF Bodies

LEMMA LoadPostInv == ASSUME IInv, LoadPost PROVE IInv'
<1>1. Quiet
  BY DEF Quiet, LoadPost
<1>2. /\ RunOK /\ CachesOK /\ RepoOK /\ Posts \subseteq Posts'
      /\ Working(run.task) /\ run.task = "load_posts"
  BY <1>1, QuietStep DEF IInv, LoadPost, Working
<1>3. run.task # "none" /\ run.todo # <<>> /\ Current \in Text
  BY <1>2, CurrentIsText
<1>4. RunOK'
  BY <1>2, <1>3, Skipped DEF LoadPost
<1>5. PICK m \in Held :
        /\ m.first = "LOAD_POST"
        /\ send("load_posts", Current, Message("SAVE_POST", Body(Current)))
  BY DEF LoadPost
<1>6. Current \in PostFile /\ Current \in Path
  BY <1>2, <1>5, HeldIsSound, TextAssumption DEF Sound
<1>7. Body(Current) \in Bodies(Current) /\ Body(Current) \in Text
  BY <1>2, <1>6, BodyProps
<1>8. CachesOK'
  <2> DEFINE n == Message("SAVE_POST", Body(Current))
  <2>1. n \in Messages /\ n.first = "SAVE_POST" /\ n.second = Body(Current)
    BY <1>7 DEF Message, Messages, PostAction
  <2>2. Sound(Current, n)
    BY <1>6, <1>7, <2>1 DEF Sound
  <2>3. task_dependents["load_posts"] \in SUBSET Task
    BY DependentsAssumption DEF Task
  <2> QED BY <1>2, <1>3, <1>5, <2>1, <2>2, <2>3, SendStep DEF send
<1> QED BY <1>1, <1>4, <1>8, QuietStep

(* The row that Insert adds.                                               *)
LEMMA InsertedRow ==
  ASSUME IInv, SavePost, NEW m \in Held, m.first = "SAVE_POST", Insert(m)
  PROVE  /\ run.task = "save_posts" /\ run.task # "none" /\ run.todo # <<>>
         /\ Current \in PostFile /\ Current \in Text
         /\ m.second \in Bodies(Current)
         /\ \E id \in Uuid \ PostIds :
              /\ Posts' = Posts \cup {[ post_id |-> id, name |-> NameOf[Current],
                                        body |-> m.second ]}
              /\ [ post_id |-> id, name |-> NameOf[Current],
                   body |-> m.second ] \in PostRows
              /\ send("save_posts", Current, Message("PROCESSED_POST", id))
              /\ Done(Current)
<1>1. /\ RunOK /\ CachesOK /\ Working(run.task) /\ run.task = "save_posts"
  BY DEF IInv, SavePost, Working
<1>2. run.task # "none" /\ run.todo # <<>> /\ Current \in Text
  BY <1>1, CurrentIsText
<1>3. m \in Messages /\ Sound(Current, m)
  BY <1>1, HeldIsSound
<1>4. Current \in PostFile /\ m.second \in Bodies(Current)
  BY <1>3 DEF Sound
<1>5. NameOf[Current] \in Text /\ m.second \in Text
  BY <1>4, TextAssumption DEF Bodies
<1> QED BY <1>1, <1>2, <1>4, <1>5 DEF Insert, PostRows

LEMMA InsertInv ==
  ASSUME IInv, SavePost, NEW m \in Held, m.first = "SAVE_POST", Insert(m)
  PROVE  IInv'
<1>1. /\ RunOK /\ CachesOK /\ RepoOK /\ TablesOK
      /\ UNCHANGED <<repo, Tags, Categories>>
  BY DEF IInv, SavePost
<1>2. /\ run.task = "save_posts" /\ run.task # "none" /\ run.todo # <<>>
      /\ Current \in PostFile /\ Current \in Text
      /\ m.second \in Bodies(Current)
  BY InsertedRow
<1>3. PICK id \in Uuid \ PostIds :
        /\ Posts' = Posts \cup {[ post_id |-> id, name |-> NameOf[Current],
                                  body |-> m.second ]}
        /\ [ post_id |-> id, name |-> NameOf[Current], body |-> m.second ] \in PostRows
        /\ send("save_posts", Current, Message("PROCESSED_POST", id))
        /\ Done(Current)
  BY InsertedRow
<1>4. PICK k \in Text : k = Current
  BY <1>2
<1>5. PICK row : row = [ post_id |-> id, name |-> NameOf[k], body |-> m.second ]
  OBVIOUS
<1>6. /\ Posts' = Posts \cup {row} /\ row \in PostRows /\ Posts \subseteq Posts'
      /\ row.post_id = id /\ row.name = NameOf[k] /\ row.body = m.second
  BY <1>3, <1>4, <1>5
<1>7. RepoOK'
  BY <1>1, RepoKept
<1>8. RunOK'
  BY <1>1, <1>2, <1>3, <1>6, Skipped
<1>9. TablesOK'
  <2>1. Posts' \subseteq PostRows
    BY <1>1, <1>6 DEF TablesOK
  <2>2. BodyIsItsFiles'
    BY <1>1, <1>2, <1>4, <1>6 DEF TablesOK, BodyIsItsFiles, Bodies
  <2>3. MetadataIsWhereItBelongs'
    <3>1. \A r, Files : ReadFrom(r, Files) => ReadFrom(r, Files)'
      BY <1>6, Rigid
    <3> QED BY <1>1, <3>1 DEF TablesOK, MetadataIsWhereItBelongs
  <2> QED BY <1>1, <2>1, <2>2, <2>3 DEF TablesOK
<1>10. CachesOK'
  <2>1. PICK n : n = Message("PROCESSED_POST", id)
    OBVIOUS
  <2>2. n \in Messages /\ n.first = "PROCESSED_POST" /\ n.second = id
    BY <1>3, <2>1 DEF Message, Messages, PostAction
  <2>3. SavedFrom(k, id)'
    BY <1>2, <1>4, <1>6 DEF SavedFrom
  <2>4. Sound(k, n)'
    BY <2>2, <2>3 DEF Sound
  <2>5. task_dependents["save_posts"] \in SUBSET Task
    BY DependentsAssumption DEF Task
  <2>6. StoreIn(task_dependents["save_posts"], k, n)
    BY <1>3, <1>4, <2>1 DEF send
  <2> QED BY <1>1, <1>6, <2>2, <2>4, <2>5, <2>6, StoreStep
<1> QED BY <1>7, <1>8, <1>9, <1>10 DEF IInv

LEMMA SavePostInv == ASSUME IInv, SavePost PROVE IInv'
<1>1. PICK m \in Held :
        /\ m.first = "SAVE_POST"
        /\ IF Violates(NameOf[Current], m.second)
           THEN Reject(m) /\ UNCHANGED Posts
           ELSE Insert(m)
  BY DEF SavePost
<1>2. CASE Reject(m) /\ UNCHANGED Posts
  <2>1. Quiet /\ Abort /\ UNCHANGED caches
    BY <1>2 DEF Quiet, SavePost, Reject, tables
  <2> QED BY <2>1, QuietStep, Aborted
<1>3. CASE Insert(m)
  BY <1>1, <1>3, InsertInv
<1> QED BY <1>1, <1>2, <1>3

(* A run finds n things, each as the code makes it.                        *)
LEMMA FoundSeq ==
  ASSUME NEW n \in Nat, NEW f, f = [i \in 1 .. n |-> f[i]],
         \A i \in 1 .. n : f[i] \in [key : Text, id : Uuid]
  PROVE  f \in Seq([key : Text, id : Uuid]) /\ DOMAIN f = 1 .. n
<1>1. f \in [1 .. n -> [key : Text, id : Uuid]]
  BY Zenon
<1> QED BY <1>1, SeqDef

LEMMA EnterDirectoryInv == ASSUME IInv, EnterDirectory PROVE IInv'
<1>1. Quiet /\ UNCHANGED caches
  BY DEF Quiet, EnterDirectory
<1>2. /\ RunOK /\ CachesOK /\ TablesOK /\ Posts \subseteq Posts'
      /\ Working(run.task) /\ run.task = "find_metadata"
  BY <1>1, QuietStep DEF IInv, EnterDirectory, Working
<1>3. run.task # "none" /\ run.todo # <<>> /\ Current \in Text
  BY <1>2, CurrentIsText
<1>4. PICK m \in Held :
        /\ m.first = "PROCESSED_POST"
        /\ \/ Abort
           \/ \E s \in SetToSeqs(MetadataBelow(Current)) :
                run' = [run EXCEPT
                          !.todo = Tail(run.todo),
                          !.found = [i \in DOMAIN s |-> [key |-> s[i], id |-> m.second]],
                          !.processed = Append(run.processed, Current)]
  BY DEF EnterDirectory
<1>5. m \in Messages /\ SavedFrom(Current, m.second)
  BY <1>2, <1>4, HeldIsSound DEF Sound
<1>6. m.second \in Uuid /\ Current \in PostFile /\ Current \in Path
  BY <1>2, <1>5, TextAssumption DEF SavedFrom, TablesOK, PostRows
<1>7. ASSUME NEW s \in SetToSeqs(MetadataBelow(Current)),
             run' = [run EXCEPT
                       !.todo = Tail(run.todo),
                       !.found = [i \in DOMAIN s |-> [key |-> s[i], id |-> m.second]],
                       !.processed = Append(run.processed, Current)]
      PROVE  RunOK'
  <2>1. /\ Len(s) \in Nat /\ DOMAIN s = 1 .. Len(s)
        /\ \A i \in DOMAIN s : s[i] \in MetadataBelow(Current)
    <3>1. MetadataBelow(Current) \in SUBSET Path
      BY <1>6, TextAssumption DEF MetadataBelow
    <3> QED BY <3>1, FinitelyMany
  <2>2. \A i \in DOMAIN s :
          /\ s[i] \in Text
          /\ s[i] \in Below[Current] \cap MetadataFile
    BY <1>6, <2>1, TextAssumption DEF MetadataBelow, MetadataFile
  <2> DEFINE f == [i \in DOMAIN s |-> [key |-> s[i], id |-> m.second]]
  <2>3. /\ f \in Seq([key : Text, id : Uuid]) /\ DOMAIN f = DOMAIN s
        /\ \A i \in DOMAIN s : f[i].key = s[i] /\ f[i].id = m.second
    <3>1. /\ f = [i \in 1 .. Len(s) |-> f[i]]
          /\ \A i \in 1 .. Len(s) : f[i] \in [key : Text, id : Uuid]
      BY <1>6, <2>1, <2>2
    <3> QED BY <2>1, <3>1, FoundSeq
  <2> HIDE DEF f
  <2>4. /\ run' = [run EXCEPT !.todo = Tail(run.todo), !.found = f,
                              !.processed = Append(run.processed, Current)]
    BY <1>7 DEF f
  <2>5. /\ Tail(run.todo) \in Seq([key : Text, value : Messages \cup {Absent}])
        /\ \A i \in DOMAIN Tail(run.todo) :
             i + 1 \in DOMAIN run.todo /\ Tail(run.todo)[i] = run.todo[i + 1]
        /\ Append(run.processed, Current) \in Seq(Text)
    BY <1>2, <1>3, HeadTail, AppendProperties DEF RunOK, Runs
  <2>6. /\ run' \in Runs /\ run'.task = run.task
        /\ run'.todo = Tail(run.todo) /\ run'.found = f
    BY <1>2, <2>3, <2>4, <2>5 DEF RunOK, Runs
  <2>7. \A i \in DOMAIN f : FoundIsTrue(run.task, f[i].key, f[i].id)
    BY <1>2, <1>5, <2>2, <2>3 DEF FoundIsTrue, Beside, SavedFrom
  <2>8. FoundOK'
    BY <1>2, <2>6, <2>7, Rigid DEF FoundOK
  <2> QED BY <1>2, <1>3, <2>5, <2>6, <2>8, TodoStep
<1>8. RunOK'
  BY <1>4, <1>7, Aborted
<1> QED BY <1>1, <1>8, QuietStep

LEMMA HeadFound ==
  ASSUME RunOK, run.found # <<>>
  PROVE  /\ Head(run.found) \in [key : Text, id : Uuid]
         /\ FoundIsTrue(run.task, Head(run.found).key, Head(run.found).id)
<1>1. run.found \in Seq([key : Text, id : Uuid])
  BY DEF RunOK, Runs
<1> QED BY <1>1, HeadTail DEF RunOK, FoundOK

LEMMA FindMetadataInv == ASSUME IInv, FindMetadata PROVE IInv'
<1>1. Quiet
  BY DEF Quiet, FindMetadata
<1>2. /\ RunOK /\ CachesOK /\ Posts \subseteq Posts'
      /\ run.task = "find_metadata" /\ run.found # <<>>
  BY <1>1, QuietStep DEF IInv, FindMetadata
<1>3. RunOK'
  BY <1>2, FoundNext DEF FindMetadata
<1>4. CachesOK'
  <2> DEFINE k == Head(run.found).key
             n == Message("LOAD_METADATA", Head(run.found).id)
  <2>1. /\ k \in Text /\ Head(run.found).id \in Uuid
        /\ Beside(k, MetadataFile, Head(run.found).id)
    BY <1>2, HeadFound DEF FoundIsTrue
  <2>2. n \in Messages /\ n.first = "LOAD_METADATA" /\ n.second = Head(run.found).id
    BY <2>1 DEF Message, Messages, PostAction
  <2>3. Sound(k, n)
    BY <2>1, <2>2 DEF Sound
  <2>4. {"find_metadata"} \cup task_dependents["find_metadata"] \in SUBSET Task
    BY DependentsAssumption DEF Task
  <2> QED BY <1>2, <2>1, <2>2, <2>3, <2>4, SendStep DEF FindMetadata
<1> QED BY <1>1, <1>3, <1>4, QuietStep

LEMMA LoadMetadataInv == ASSUME IInv, LoadMetadata PROVE IInv'
<1>1. Quiet
  BY DEF Quiet, LoadMetadata
<1>2. /\ RunOK /\ CachesOK /\ RepoOK /\ Posts \subseteq Posts'
      /\ Working(run.task) /\ run.task = "load_metadata"
  BY <1>1, QuietStep DEF IInv, LoadMetadata, Working
<1>3. run.task # "none" /\ run.todo # <<>> /\ Current \in Text
  BY <1>2, CurrentIsText
<1>4. PICK m \in Held :
        /\ m.first = "LOAD_METADATA"
        /\ IF repo[Current] = Absent
           THEN Skip /\ UNCHANGED caches
           ELSE /\ StoreIn({"load_metadata"} \cup task_dependents["load_metadata"],
                           repo[Current], Message(MetadataAction(Current), m.second))
                /\ Done(Current)
  BY DEF LoadMetadata
<1>5. RunOK'
  BY <1>2, <1>3, <1>4, Skipped
<1>6. CachesOK'
  <2>1. CASE UNCHANGED caches
    BY <1>1, <2>1, QuietStep
  <2>2. CASE /\ repo[Current] # Absent
             /\ StoreIn({"load_metadata"} \cup task_dependents["load_metadata"],
                        repo[Current], Message(MetadataAction(Current), m.second))
    <3> DEFINE n == Message(MetadataAction(Current), m.second)
    <3>1. m \in Messages /\ Beside(Current, MetadataFile, m.second)
      BY <1>2, <1>4, HeldIsSound DEF Sound
    <3>2. Current \in Path /\ Current \in MetadataFile
      BY <3>1, TextAssumption DEF Beside, SavedFrom, MetadataFile
    <3>3. repo[Current] \in Text /\ repo[Current] \in Versions[Current]
      BY <1>2, <2>2, <3>2, TextAssumption DEF RepoOK
    <3>4. /\ n \in Messages /\ n.second = m.second
          /\ n.first = MetadataAction(Current)
      BY <3>1 DEF Message, Messages, PostAction, MetadataAction
    <3>5. ASSUME Current \in TagsFile PROVE Sound(repo[Current], n)
      <4>1. n.first = "SAVE_TAGS"
        BY <3>4, <3>5 DEF MetadataAction
      <4>2. Content(repo[Current], TagsFile, m.second)
        BY <3>1, <3>2, <3>3, <3>5 DEF Content, Beside
      <4> QED BY <3>4, <4>1, <4>2 DEF Sound
    <3>6. ASSUME Current \notin TagsFile PROVE Sound(repo[Current], n)
      <4>1. n.first = "SAVE_CATEGORIES"
        BY <3>4, <3>6 DEF MetadataAction
      <4>2. Content(repo[Current], CategoriesFile \ TagsFile, m.second)
        BY <3>1, <3>2, <3>3, <3>6 DEF Content, Beside, MetadataFile
      <4> QED BY <3>4, <4>1, <4>2 DEF Sound
    <3>7. {"load_metadata"} \cup task_dependents["load_metadata"] \in SUBSET Task
      BY DependentsAssumption DEF Task
    <3> QED BY <1>2, <2>2, <3>3, <3>4, <3>5, <3>6, <3>7, SendStep
  <2> QED BY <1>4, <2>1, <2>2
<1> QED BY <1>1, <1>5, <1>6, QuietStep

LEMMA SplitContentInv ==
  ASSUME IInv, NEW t \in {"save_tags", "save_categories"}, SplitContent(t)
  PROVE  IInv'
<1> DEFINE Files == IF t = "save_tags" THEN TagsFile ELSE CategoriesFile \ TagsFile
<1>1. Quiet /\ UNCHANGED caches
  BY DEF Quiet, SplitContent
<1>2. /\ RunOK /\ CachesOK /\ TablesOK /\ Posts \subseteq Posts'
      /\ Working(run.task) /\ run.task = t
  BY <1>1, QuietStep DEF IInv, SplitContent, Working
<1>3. run.task # "none" /\ run.todo # <<>> /\ Current \in Text
  BY <1>2, CurrentIsText
<1>4. PICK m \in Held :
        /\ m.first = Wanted[t]
        /\ run' = [run EXCEPT
                     !.todo = Tail(run.todo),
                     !.found = [i \in DOMAIN split[Current] |->
                                  [key |-> split[Current][i], id |-> m.second]]]
  BY DEF SplitContent
<1>5. m \in Messages /\ Content(Current, Files, m.second)
  BY <1>2, <1>4, HeldIsSound DEF Sound, Wanted
<1>6. PICK f \in Path : Beside(f, Files, m.second) /\ Current \in Versions[f]
  BY <1>5 DEF Content
<1>7. m.second \in Uuid
  BY <1>2, <1>6 DEF Beside, SavedFrom, TablesOK, PostRows
<1> DEFINE s == split[Current]
<1>8. /\ s \in Seq(Text) /\ Len(s) \in Nat /\ DOMAIN s = 1 .. Len(s)
      /\ \A i \in DOMAIN s : s[i] \in Text
  <2>1. s \in Seq(Text)
    BY <1>3, TextAssumption
  <2> HIDE DEF s
  <2> QED BY <2>1, LenProperties, ElementOfSeq
<1> DEFINE g == [i \in DOMAIN s |-> [key |-> s[i], id |-> m.second]]
<1>9. /\ g \in Seq([key : Text, id : Uuid]) /\ DOMAIN g = DOMAIN s
      /\ \A i \in DOMAIN s : g[i].key = s[i] /\ g[i].id = m.second
  <2> HIDE DEF s
  <2>1. /\ g = [i \in 1 .. Len(s) |-> g[i]]
        /\ \A i \in 1 .. Len(s) : g[i] \in [key : Text, id : Uuid]
    BY <1>7, <1>8
  <2> QED BY <1>8, <2>1, FoundSeq
<1>10. \A i \in DOMAIN s : ReadFrom([name |-> s[i], post |-> m.second], Files)
  <2>1. PICK p \in PostFile : SavedFrom(p, m.second) /\ f \in Below[p] \cap Files
    BY <1>6 DEF Beside
  <2>2. PICK post \in Posts : post.post_id = m.second /\ post.name = NameOf[p]
    BY <2>1 DEF SavedFrom
  <2> SUFFICES ASSUME NEW i \in DOMAIN s
               PROVE  ReadFrom([name |-> s[i], post |-> m.second], Files)
    OBVIOUS
  <2>3. \E c \in Versions[f] : \E j \in DOMAIN split[c] : split[c][j] = s[i]
    BY <1>6
  <2> HIDE DEF s, Files
  <2> QED BY <2>1, <2>2, <2>3 DEF ReadFrom
<1>11. run' = [run EXCEPT !.todo = Tail(run.todo), !.found = g]
  BY <1>4
<1> HIDE DEF g, s
<1>12. /\ Tail(run.todo) \in Seq([key : Text, value : Messages \cup {Absent}])
       /\ \A i \in DOMAIN Tail(run.todo) :
            i + 1 \in DOMAIN run.todo /\ Tail(run.todo)[i] = run.todo[i + 1]
  BY <1>2, <1>3, HeadTail DEF RunOK, Runs
<1>13. /\ run' \in Runs /\ run'.task = run.task
       /\ run'.todo = Tail(run.todo) /\ run'.found = g
  BY <1>2, <1>9, <1>11, <1>12 DEF RunOK, Runs
<1>14. \A i \in DOMAIN g : FoundIsTrue(run.task, g[i].key, g[i].id)
  BY <1>2, <1>9, <1>10 DEF FoundIsTrue
<1>15. FoundOK'
  BY <1>2, <1>13, <1>14, Rigid DEF FoundOK
<1>16. RunOK'
  BY <1>2, <1>3, <1>12, <1>13, <1>15, TodoStep
<1> QED BY <1>1, <1>16, QuietStep

(* The row that SaveItem inserts, unless it is there.                      *)
HeadRow == [name |-> Head(run.found).key, post |-> Head(run.found).id]

LEMMA SaveItemProps ==
  ASSUME RunOK, NEW table, run.found # <<>>, UNCHANGED Posts,
         run' = [run EXCEPT
                   !.found = Tail(run.found),
                   !.processed = IF HeadRow \in table THEN run.processed
                                 ELSE Append(run.processed, HeadRow.name)]
  PROVE  /\ HeadRow \in MetadataRows
         /\ run.task = "save_tags" => ReadFrom(HeadRow, TagsFile)
         /\ run.task = "save_categories" => ReadFrom(HeadRow, CategoriesFile \ TagsFile)
         /\ RunOK'
<1>1. /\ Head(run.found) \in [key : Text, id : Uuid]
      /\ FoundIsTrue(run.task, Head(run.found).key, Head(run.found).id)
  BY HeadFound
<1>2. HeadRow \in MetadataRows /\ HeadRow.name \in Text
  BY <1>1 DEF HeadRow, MetadataRows
<1>3. /\ run.task = "save_tags" => ReadFrom(HeadRow, TagsFile)
      /\ run.task = "save_categories" => ReadFrom(HeadRow, CategoriesFile \ TagsFile)
  BY <1>1 DEF FoundIsTrue, HeadRow
<1>4. /\ Tail(run.found) \in Seq([key : Text, id : Uuid])
      /\ \A i \in DOMAIN Tail(run.found) :
           i + 1 \in DOMAIN run.found /\ Tail(run.found)[i] = run.found[i + 1]
  BY HeadTail DEF RunOK, Runs
<1>5. Append(run.processed, HeadRow.name) \in Seq(Text) /\ run.processed \in Seq(Text)
  BY <1>2, AppendProperties DEF RunOK, Runs
<1>6. /\ run' \in Runs /\ run'.task = run.task
      /\ run'.todo = run.todo /\ run'.found = Tail(run.found)
  BY <1>4, <1>5 DEF RunOK, Runs
<1>7. run.task # "none"
  BY DEF RunOK, Idle
<1> QED BY <1>2, <1>3, <1>4, <1>6, <1>7, RunStep

LEMMA SaveItemInv == ASSUME IInv, SaveTag \/ SaveCategory PROVE IInv'
<1>1. /\ RunOK /\ TablesOK /\ CachesOK /\ RepoOK /\ Posts \subseteq Posts'
      /\ UNCHANGED <<repo, Posts, caches>> /\ run.found # <<>>
  BY DEF IInv, SaveTag, SaveCategory, SaveItem
<1>2. RepoOK' /\ CachesOK'
  BY <1>1, RepoKept, CachesKept
<1>3. /\ \A r, Files : ReadFrom(r, Files) => ReadFrom(r, Files)'
  BY <1>1, Rigid
<1>4. PICK row : row = HeadRow
  OBVIOUS
<1>5. CASE SaveTag
  <2>1. /\ run.task = "save_tags" /\ Tags' = Tags \cup {row} /\ UNCHANGED Categories
        /\ run' = [run EXCEPT
                     !.found = Tail(run.found),
                     !.processed = IF HeadRow \in Tags THEN run.processed
                                   ELSE Append(run.processed, HeadRow.name)]
    BY <1>4, <1>5 DEF SaveTag, SaveItem, HeadRow
  <2>2. row \in MetadataRows /\ ReadFrom(row, TagsFile) /\ RunOK'
    BY <1>1, <1>4, <2>1, SaveItemProps
  <2>3. TablesOK'
    BY <1>1, <1>3, <2>1, <2>2 DEF TablesOK, BodyIsItsFiles, MetadataIsWhereItBelongs
  <2> QED BY <1>2, <2>2, <2>3 DEF IInv
<1>6. CASE SaveCategory
  <2>1. /\ run.task = "save_categories" /\ Categories' = Categories \cup {row}
        /\ UNCHANGED Tags
        /\ run' = [run EXCEPT
                     !.found = Tail(run.found),
                     !.processed = IF HeadRow \in Categories THEN run.processed
                                   ELSE Append(run.processed, HeadRow.name)]
    BY <1>4, <1>6 DEF SaveCategory, SaveItem, HeadRow
  <2>2. row \in MetadataRows /\ ReadFrom(row, CategoriesFile \ TagsFile) /\ RunOK'
    BY <1>1, <1>4, <2>1, SaveItemProps
  <2>3. TablesOK'
    BY <1>1, <1>3, <2>1, <2>2 DEF TablesOK, BodyIsItsFiles, MetadataIsWhereItBelongs
  <2> QED BY <1>2, <2>2, <2>3 DEF IInv
<1> QED BY <1>5, <1>6

(* Every entry of a cache is what get() returns for its key.               *)
LEMMA EntriesAreHeld ==
  ASSUME CachesOK, NEW t \in Task
  PROVE  /\ caches[t].entries \in Seq([key : Text, value : Messages])
         /\ \A i \in DOMAIN caches[t].entries :
              /\ caches[t].entries[i].key \in Text
              /\ caches[t].entries[i].value \in Messages
              /\ Sound(caches[t].entries[i].key, caches[t].entries[i].value)
<1>1. GoodStore(caches[t], Text, Messages)
  BY DEF CachesOK
<1>2. caches[t].entries \in Seq([key : Text, value : Messages])
  BY <1>1 DEF GoodStore, QuickStores
<1>3. ASSUME NEW i \in DOMAIN caches[t].entries
      PROVE  /\ caches[t].entries[i].key \in Text
             /\ caches[t].entries[i].value \in Messages
             /\ Sound(caches[t].entries[i].key, caches[t].entries[i].value)
  <2>1. caches[t].entries[i] \in [key : Text, value : Messages]
    BY <1>2, ElementOfSeq, LenProperties
  <2>2. caches[t].entries[i].value \in get(caches[t], caches[t].entries[i].key)
    BY <1>1, GetProps
  <2> QED BY <2>1, <2>2 DEF CachesOK
<1> QED BY <1>2, <1>3

LEMMA BeginInv == ASSUME IInv, NEW t \in Task, Begin(t) PROVE IInv'
<1>1. Quiet /\ UNCHANGED caches
  BY DEF Quiet, Begin
<1>2. RunOK /\ CachesOK /\ Posts \subseteq Posts'
  BY <1>1, QuietStep DEF IInv
<1> DEFINE E == [key : Text, value : Messages \cup {Absent}]
<1>3. PICK todo \in IF t = "find_posts" THEN Listing ELSE {caches[t].entries} :
        run' = [Idle EXCEPT !.task = t, !.todo = todo]
  BY DEF Begin
<1>4. /\ todo \in Seq(E)
      /\ t = "find_posts" => \A i \in DOMAIN todo : todo[i].key \in PostFile
      /\ t = "find_metadata" => \A i \in DOMAIN todo : /\ todo[i].value \in Messages
                                                       /\ Sound(todo[i].key, todo[i].value)
  <2>1. CASE t = "find_posts"
    <3>1. PICK s \in SetToSeqs({ p \in PostFile : repo[p] # Absent }) :
            todo = [i \in DOMAIN s |-> [key |-> s[i], value |-> Absent]]
      BY <1>3, <2>1 DEF Listing
    <3>2. /\ Len(s) \in Nat /\ DOMAIN s = 1 .. Len(s)
          /\ \A i \in DOMAIN s : s[i] \in { p \in PostFile : repo[p] # Absent }
      <4>1. { p \in PostFile : repo[p] # Absent } \in SUBSET Path
        BY TextAssumption
      <4> QED BY <4>1, FinitelyMany
    <3>3. \A i \in DOMAIN s : s[i] \in PostFile /\ s[i] \in Text
      BY <3>2, TextAssumption
    <3>4. todo \in [1 .. Len(s) -> E]
      BY <3>1, <3>2, <3>3
    <3>5. todo \in Seq(E)
      BY <3>2, <3>4, SeqDef
    <3> QED BY <2>1, <3>1, <3>3, <3>5
  <2>2. CASE t # "find_posts"
    <3>1. /\ todo = caches[t].entries
          /\ caches[t].entries \in Seq([key : Text, value : Messages])
      BY <1>2, <1>3, <2>2, EntriesAreHeld
    <3>2. [key : Text, value : Messages] \subseteq E
      OBVIOUS
    <3>3. todo \in Seq(E)
      BY <3>1, <3>2, SeqMonotonic
    <3> QED BY <1>2, <2>2, <3>1, <3>3, EntriesAreHeld
  <2> QED BY <2>1, <2>2
<1>5. /\ run' \in Runs
      /\ run'.task = t /\ run'.todo = todo /\ run'.found = <<>> /\ t # "none"
  BY <1>3, <1>4, EmptySeq DEF Idle, Runs, Task
<1>6. TodoOK'
  <2>1. \A k, m : Sound(k, m) => Sound(k, m)'
    BY <1>2, Rigid
  <2> QED BY <1>4, <1>5, <2>1 DEF TodoOK
<1>7. FoundOK'
  BY <1>5 DEF FoundOK
<1>8. RunOK'
  BY <1>5, <1>6, <1>7 DEF RunOK
<1> QED BY <1>1, <1>8, QuietStep

-----------------------------------------------------------------------------
(* The invariants.                                                         *)

LEMMA NextInv == ASSUME IInv, [Next]_vars PROVE IInv'
<1>1. CASE Step
  BY <1>1, PassOverInv, RemoveProcessedInv, AbortInv, FindPostInv, LoadPostInv,
     SavePostInv, EnterDirectoryInv, FindMetadataInv, LoadMetadataInv,
     SplitContentInv, SaveItemInv DEF Step
<1>2. CASE QueryFails
  BY <1>2, AbortInv
<1>3. CASE \E t \in Task : Begin(t)
  BY <1>3, BeginInv
<1>4. CASE EditRepo
  BY <1>4, EditRepoInv
<1>5. CASE Restart
  BY <1>5, RestartInv
<1>6. CASE UNCHANGED vars
  <2>1. /\ UNCHANGED <<repo, tables>> /\ caches' = caches /\ run' = run
        /\ Posts \subseteq Posts'
    BY <1>6 DEF vars, tables
  <2>2. Quiet /\ CachesOK'
    BY <2>1, CachesKept DEF Quiet, IInv
  <2>3. RunOK'
    <3>1. CASE run.task = "none"
      BY <2>1, <3>1, Aborted DEF IInv, RunOK, Abort
    <3>2. CASE run.task # "none"
      BY <2>1, <3>2, RunStep DEF IInv, RunOK
    <3> QED BY <3>1, <3>2
  <2> QED BY <2>2, <2>3, QuietStep
<1> QED BY <1>1, <1>2, <1>3, <1>4, <1>5, <1>6 DEF Next

(* Whatever the files hold, whichever queries fail, messages are displaced *)
(* or restarts lose them: each message in a cache, and each thing a run    *)
(* has set aside, is true of the file or content it is keyed by.           *)
THEOREM MessagesAreTrue == Spec => []IInv
<1>1. Init => IInv
  BY InitInv
<1>2. IInv /\ [Next]_vars => IInv'
  BY NextInv
<1> QED BY <1>1, <1>2, PTL DEF Spec

(* The tables, the caches and the variables of a run have their types: no  *)
(* task stores a message of a kind the others do not know.                 *)
THEOREM TypeCorrect == Spec => []TypeOK
<1>1. IInv => TypeOK
  BY DEF IInv, RepoOK, TablesOK, CachesOK, RunOK, Runs, PostRows, MetadataRows, TypeOK
<1> QED BY <1>1, MessagesAreTrue, PTL

(* A post that save_posts inserts has the body that load_posts read from a *)
(* file of its name, parsed if it is markdown, or the empty document.      *)
THEOREM BodiesAreFromFiles == Spec => []BodyIsItsFiles
<1>1. IInv => BodyIsItsFiles
  BY DEF IInv, TablesOK
<1> QED BY <1>1, MessagesAreTrue, PTL

(* save_tags and save_categories attach an item only to a post beside      *)
(* whose file the item was read, and a category never comes from a tags    *)
(* file, although the messages are keyed by contents two files may share.  *)
THEOREM MetadataIsInPlace == Spec => []MetadataIsWhereItBelongs
<1>1. IInv => MetadataIsWhereItBelongs
  BY DEF IInv, TablesOK
<1> QED BY <1>1, MessagesAreTrue, PTL

(* No tag or category ever points to a post that is not in the table.      *)
THEOREM NoOrphans == Spec => []MetadataBelongsToAPost
<1>1. IInv => MetadataBelongsToAPost
  BY DEF IInv, TablesOK, MetadataIsWhereItBelongs, ReadFrom, MetadataBelongsToAPost, PostIds
<1> QED BY <1>1, MessagesAreTrue, PTL

-----------------------------------------------------------------------------
(* The ledger.                                                             *)

LEMMA InitLedger == Init => Ledger!LedgerInit
BY DEF Init, Ledger!LedgerInit

LEMMA StillLedger == UNCHANGED tables => [Ledger!LedgerNext]_Ledger!ledgerVars
BY DEF tables, Ledger!ledgerVars

LEMMA InsertLedger ==
  ASSUME IInv, SavePost, NEW m \in Held, m.first = "SAVE_POST", Insert(m),
         ~Violates(NameOf[Current], m.second)
  PROVE  Ledger!LedgerNext
<1>1. PICK id \in Uuid \ PostIds :
        Posts' = Posts \cup {[ post_id |-> id, name |-> NameOf[Current],
                               body |-> m.second ]}
  BY InsertedRow
<1>2. PICK row :
        row = [ post_id |-> id, name |-> NameOf[Current], body |-> m.second ]
  OBVIOUS
<1>3. /\ row.post_id = id /\ row.name = NameOf[Current] /\ row.body = m.second
      /\ Posts' = Posts \cup {row}
  BY <1>1, <1>2
<1>4. \A p \in Posts :
        p.post_id # row.post_id /\ p.name # row.name /\ p.body # row.body
  BY <1>3 DEF Violates, PostIds
<1>5. UNCHANGED <<Tags, Categories>>
  BY DEF SavePost
<1>6. row \in Posts' /\ Ledger!Publish(row)
  BY <1>3, <1>4, <1>5 DEF Ledger!Publish
<1> QED BY <1>6 DEF Ledger!LedgerNext

LEMMA SaveItemLedger ==
  ASSUME IInv, SaveTag \/ SaveCategory
  PROVE  [Ledger!LedgerNext]_Ledger!ledgerVars
<1>1. RunOK /\ TablesOK /\ UNCHANGED Posts /\ run.found # <<>>
  BY DEF IInv, SaveTag, SaveCategory, SaveItem
<1>2. PICK row : row = HeadRow
  OBVIOUS
<1>3. CASE SaveTag
  <2>1. /\ run.task = "save_tags" /\ Tags' = Tags \cup {row} /\ UNCHANGED Categories
        /\ run' = [run EXCEPT
                     !.found = Tail(run.found),
                     !.processed = IF HeadRow \in Tags THEN run.processed
                                   ELSE Append(run.processed, HeadRow.name)]
    BY <1>2, <1>3 DEF SaveTag, SaveItem, HeadRow
  <2>2. row \in MetadataRows /\ ReadFrom(row, TagsFile)
    BY <1>1, <1>2, <2>1, SaveItemProps
  <2>3. CASE row \in Tags
    BY <1>1, <2>1, <2>3, StillLedger DEF tables
  <2>4. CASE row \notin Tags
    <3>1. row.post \in Ledger!Ids
      BY <2>2 DEF ReadFrom, Ledger!Ids
    <3>2. Ledger!NewIn(Tags, row)
      BY <1>1, <2>2, <2>4 DEF Ledger!NewIn, TablesOK, MetadataRows
    <3>3. row \in Tags' /\ Ledger!Tag(row)
      BY <1>1, <2>1, <3>1, <3>2 DEF Ledger!Tag
    <3> QED BY <3>3 DEF Ledger!LedgerNext
  <2> QED BY <2>3, <2>4
<1>4. CASE SaveCategory
  <2>1. /\ run.task = "save_categories" /\ Categories' = Categories \cup {row}
        /\ UNCHANGED Tags
        /\ run' = [run EXCEPT
                     !.found = Tail(run.found),
                     !.processed = IF HeadRow \in Categories THEN run.processed
                                   ELSE Append(run.processed, HeadRow.name)]
    BY <1>2, <1>4 DEF SaveCategory, SaveItem, HeadRow
  <2>2. row \in MetadataRows /\ ReadFrom(row, CategoriesFile \ TagsFile)
    BY <1>1, <1>2, <2>1, SaveItemProps
  <2>3. CASE row \in Categories
    BY <1>1, <2>1, <2>3, StillLedger DEF tables
  <2>4. CASE row \notin Categories
    <3>1. row.post \in Ledger!Ids
      BY <2>2 DEF ReadFrom, Ledger!Ids
    <3>2. Ledger!NewIn(Categories, row)
      BY <1>1, <2>2, <2>4 DEF Ledger!NewIn, TablesOK, MetadataRows
    <3>3. row \in Categories' /\ Ledger!Categorise(row)
      BY <1>1, <2>1, <3>1, <3>2 DEF Ledger!Categorise
    <3> QED BY <3>3 DEF Ledger!LedgerNext
  <2> QED BY <2>3, <2>4
<1> QED BY <1>3, <1>4

LEMMA NextLedger ==
  ASSUME IInv, [Next]_vars
  PROVE  [Ledger!LedgerNext]_Ledger!ledgerVars
<1>1. CASE SavePost
  <2>1. PICK m \in Held :
          /\ m.first = "SAVE_POST"
          /\ IF Violates(NameOf[Current], m.second)
             THEN Reject(m) /\ UNCHANGED Posts
             ELSE Insert(m)
    BY <1>1 DEF SavePost
  <2>2. CASE Violates(NameOf[Current], m.second)
    BY <1>1, <2>1, <2>2, StillLedger DEF SavePost, tables
  <2>3. CASE ~Violates(NameOf[Current], m.second)
    BY <1>1, <2>1, <2>3, InsertLedger
  <2> QED BY <2>2, <2>3
<1>2. CASE SaveTag \/ SaveCategory
  BY <1>2, SaveItemLedger
<1>3. CASE Step /\ ~SavePost /\ ~SaveTag /\ ~SaveCategory
  <2>1. UNCHANGED tables
    BY <1>3 DEF Step, PassOver, RemoveProcessed, EndRun, FindPost, LoadPost,
       EnterDirectory, FindMetadata, LoadMetadata, SplitContent
  <2> QED BY <2>1, StillLedger
<1>4. CASE QueryFails \/ (\E t \in Task : Begin(t)) \/ EditRepo \/ Restart \/ UNCHANGED vars
  <2>1. UNCHANGED tables
    BY <1>4 DEF QueryFails, Begin, EditRepo, Restart, vars, tables
  <2> QED BY <2>1, StillLedger
<1> QED BY <1>1, <1>2, <1>3, <1>4 DEF Next

(* The seven tasks implement the ledger: the UNIQUE constraints, the fresh *)
(* ids and the lookups before each insert make every row that comes in one *)
(* the ledger allows, and no other step touches a table.                   *)
THEOREM TasksKeepTheLedger == Spec => ImplementsLedger
<1>1. Init => Ledger!LedgerInit
  BY InitLedger
<1>2. IInv /\ [Next]_vars => [Ledger!LedgerNext]_Ledger!ledgerVars
  BY NextLedger
<1> QED BY <1>1, <1>2, MessagesAreTrue, PTL DEF Spec, ImplementsLedger, Ledger!LedgerSpec

-----------------------------------------------------------------------------
(* A post that nobody knows of any more.                                   *)

CachesSilent(id) ==
  \A t \in Task : \A k \in Text : \A m \in get(caches[t], k) : ~Names(m, id)

RunSilent(id) ==
  /\ run.task # "find_posts" =>
       \A i \in DOMAIN run.todo : ~Names(run.todo[i].value, id)
  /\ \A i \in DOMAIN run.found : run.found[i].id # id

(* get() shows every entry and nothing else.                               *)
LEMMA SilentEntries ==
  ASSUME NEW id, NEW s, GoodStore(s, Text, Messages)
  PROVE  (\A k \in Text : \A m \in get(s, k) : ~Names(m, id))
           <=> \A i \in DOMAIN s.entries : ~Names(s.entries[i].value, id)
<1>1. s.entries \in Seq([key : Text, value : Messages])
  BY DEF GoodStore, QuickStores
<1>2. \A i \in DOMAIN s.entries : s.entries[i].key \in Text
  <2>1. ASSUME NEW i \in DOMAIN s.entries
        PROVE  s.entries[i] \in [key : Text, value : Messages]
    BY <1>1, ElementOfSeq, LenProperties
  <2> QED BY <2>1
<1>3. \A k : get(s, k) = { s.entries[i].value :
                           i \in { i \in DOMAIN s.entries : s.entries[i].key = k } }
  BY GetProps
<1> QED BY <1>2, <1>3

(* A store of something that does not name the post, a removal, a restart. *)
SilentChange(old, new, id) ==
  \/ new = old
  \/ \E k \in Text, m \in Messages : ~Names(m, id) /\ new \in StoreOutcomes(old, k, m)
  \/ \E k \in Text : new \in RemoveOutcomes(old, k)
  \/ new = EmptyStore

LEMMA SilentStep ==
  ASSUME CachesOK, NEW id, CachesSilent(id),
         \A t \in Task : SilentChange(caches[t], caches'[t], id)
  PROVE  CachesSilent(id)'
<1> SUFFICES ASSUME NEW t \in Task, NEW x \in Text, NEW y \in get(caches'[t], x)
             PROVE  ~Names(y, id)
  BY DEF CachesSilent
<1>1. GoodStore(caches[t], Text, Messages) /\ SilentChange(caches[t], caches'[t], id)
  BY DEF CachesOK
<1>2. CASE caches'[t] = caches[t]
  BY <1>2 DEF CachesSilent
<1>3. ASSUME NEW k \in Text, NEW m \in Messages, ~Names(m, id),
             caches'[t] \in StoreOutcomes(caches[t], k, m)
      PROVE  ~Names(y, id)
  <2>1. /\ get(caches'[t], k) \subseteq {m} \cup get(caches[t], k)
        /\ x # k => get(caches'[t], x) \subseteq get(caches[t], x)
    BY <1>1, <1>3, StoreProps
  <2> QED BY <1>3, <2>1 DEF CachesSilent
<1>4. ASSUME NEW k \in Text, caches'[t] \in RemoveOutcomes(caches[t], k)
      PROVE  ~Names(y, id)
  <2>1. get(caches'[t], x) \subseteq get(caches[t], x)
    BY <1>1, <1>4, RemoveProps
  <2> QED BY <2>1 DEF CachesSilent
<1>5. CASE caches'[t] = EmptyStore
  BY <1>5, EmptyStoreProps
<1> QED BY <1>1, <1>2, <1>3, <1>4, <1>5 DEF SilentChange

LEMMA SilentSend ==
  ASSUME CachesOK, NEW id, CachesSilent(id), NEW S \in SUBSET Task
  PROVE  \A k \in Text, m \in Messages :
           StoreIn(S, k, m) /\ ~Names(m, id) => CachesSilent(id)'
<1> SUFFICES ASSUME NEW k \in Text, NEW m \in Messages, StoreIn(S, k, m), ~Names(m, id)
             PROVE  CachesSilent(id)'
  OBVIOUS
<1>1. /\ \A t \in S : caches'[t] \in StoreOutcomes(caches[t], k, m)
      /\ \A t \in Task \ S : caches'[t] = caches[t]
  BY StoredIn
<1>2. \A t \in Task : SilentChange(caches[t], caches'[t], id)
  BY <1>1 DEF SilentChange
<1> QED BY <1>2, SilentStep

LEMMA SilentHeld ==
  ASSUME IInv, NEW id, CachesSilent(id), RunSilent(id),
         Working(run.task), run.task # "find_posts", NEW m \in Held
  PROVE  m \in Messages /\ ~Names(m, id)
<1>1. /\ run.task \in Task /\ run.todo # <<>> /\ Current \in Text
      /\ m \in Messages
      /\ run.todo \in Seq([key : Text, value : Messages \cup {Absent}])
  BY CurrentIsText, HeldIsSound DEF IInv, RunOK, Runs
<1>2. CASE run.task = "find_metadata"
  <2>1. 1 \in DOMAIN run.todo /\ Head(run.todo) = run.todo[1]
    BY <1>1, HeadTail
  <2>2. run.todo[1].value \in Messages /\ m = run.todo[1].value
    BY <1>2, <2>1 DEF IInv, RunOK, TodoOK, Held
  <2> QED BY <1>1, <1>2, <2>1, <2>2 DEF RunSilent
<1>3. CASE run.task # "find_metadata"
  BY <1>1, <1>3 DEF Held, CachesSilent
<1> QED BY <1>2, <1>3

LEMMA SilentTodo ==
  ASSUME IInv, NEW id, RunSilent(id), run.task \in Task, run.todo # <<>>,
         run'.task = run.task, run'.todo = Tail(run.todo),
         \A i \in DOMAIN run'.found : run'.found[i].id # id
  PROVE  RunSilent(id)'
<1>1. \A i \in DOMAIN Tail(run.todo) :
        i + 1 \in DOMAIN run.todo /\ Tail(run.todo)[i] = run.todo[i + 1]
  BY HeadTail DEF IInv, RunOK, Runs
<1> QED BY <1>1 DEF RunSilent

LEMMA SilentSkip ==
  ASSUME IInv, NEW id, RunSilent(id), Working(run.task), Skip \/ \E k \in Text : Done(k)
  PROVE  RunSilent(id)'
<1>1. run.task \in Task /\ run.todo # <<>>
  BY CurrentIsText DEF IInv
<1>2. run'.task = run.task /\ run'.todo = Tail(run.todo) /\ run'.found = run.found
  BY DEF IInv, RunOK, Runs, Skip, Done
<1> QED BY <1>1, <1>2, SilentTodo DEF RunSilent

LEMMA SilentIdle ==
  ASSUME Abort, NEW id
  PROVE  RunSilent(id)'
<1>1. run'.todo = <<>> /\ run'.found = <<>>
  BY DEF Abort, Idle
<1> QED BY <1>1 DEF RunSilent

LEMMA SilentFound ==
  ASSUME IInv, NEW id, RunSilent(id), run.found # <<>>,
         run'.task = run.task, run'.todo = run.todo, run'.found = Tail(run.found)
  PROVE  Head(run.found).id # id /\ RunSilent(id)'
<1>1. /\ 1 \in DOMAIN run.found /\ Head(run.found) = run.found[1]
      /\ \A i \in DOMAIN Tail(run.found) :
           i + 1 \in DOMAIN run.found /\ Tail(run.found)[i] = run.found[i + 1]
  BY HeadTail DEF IInv, RunOK, Runs
<1> QED BY <1>1 DEF RunSilent

(* No cache changes.                                                       *)
LEMMA SilentCaches ==
  ASSUME NEW id, CachesSilent(id), UNCHANGED caches
  PROVE  CachesSilent(id)'
BY DEF CachesSilent

(* Nobody knows of the post, and its rows stay as they are.                *)
StaysSilent(id) ==
  /\ CachesSilent(id)' /\ RunSilent(id)'
  /\ RowsOf(Tags', id) = RowsOf(Tags, id)
  /\ RowsOf(Categories', id) = RowsOf(Categories, id)

LEMMA SilentFrame ==
  ASSUME IInv, NEW id \in PostIds, CachesSilent(id), RunSilent(id),
         PassOver \/ RemoveProcessed \/ EndRun \/ QueryFails \/ EditRepo \/ Restart
           \/ UNCHANGED vars
  PROVE  StaysSilent(id)
<1>1. UNCHANGED <<Tags, Categories>>
  BY DEF PassOver, RemoveProcessed, EndRun, QueryFails, EditRepo, Restart, vars, tables
<1>2. CachesSilent(id)'
  <2>1. CASE UNCHANGED caches
    BY <2>1, SilentCaches
  <2>2. CASE Restart
    <3>1. \A t \in Task : SilentChange(caches[t], caches'[t], id)
      BY <2>2 DEF Restart, SilentChange
    <3> QED BY <3>1, SilentStep DEF IInv
  <2>3. CASE RemoveProcessed
    <3>1. run.processed \in Seq(Text) /\ run.processed # <<>> /\ run.task \in Task
      BY <2>3 DEF IInv, RunOK, Runs, Idle, RemoveProcessed
    <3>2. Head(run.processed) \in Text
      BY <3>1, HeadTailProperties
    <3>3. PICK s \in RemoveOutcomes(caches[run.task], Head(run.processed)) :
            caches' = [caches EXCEPT ![run.task] = s]
      BY <2>3 DEF RemoveProcessed
    <3>4. \A t \in Task : caches'[t] = IF t = run.task THEN s ELSE caches[t]
      BY <3>1, <3>3 DEF IInv, CachesOK
    <3>5. \A t \in Task : SilentChange(caches[t], caches'[t], id)
      BY <3>2, <3>3, <3>4 DEF SilentChange
    <3> QED BY <3>5, SilentStep DEF IInv
  <2> QED
    BY <2>1, <2>2, <2>3 DEF PassOver, EndRun, QueryFails, EditRepo, vars, tables
<1>3. RunSilent(id)'
  <2>1. CASE Abort
    BY <2>1, SilentIdle
  <2>2. CASE PassOver
    <3>1. Working(run.task) /\ (Abort \/ Skip)
      BY <2>2 DEF PassOver
    <3> QED BY <2>1, <3>1, SilentSkip
  <2>3. CASE RemoveProcessed
    <3>1. run'.task = run.task /\ run'.todo = run.todo /\ run'.found = run.found
      BY <2>3 DEF RemoveProcessed, IInv, RunOK, Runs
    <3> QED BY <3>1 DEF RunSilent
  <2>4. CASE UNCHANGED run
    BY <2>4 DEF RunSilent
  <2> QED BY <2>1, <2>2, <2>3, <2>4 DEF EndRun, QueryFails, EditRepo, Restart, Abort, vars
<1> QED BY <1>1, <1>2, <1>3 DEF StaysSilent

LEMMA SilentBegin ==
  ASSUME IInv, NEW id \in PostIds, CachesSilent(id), RunSilent(id),
         NEW t \in Task, Begin(t)
  PROVE  StaysSilent(id)
<1>1. UNCHANGED <<Tags, Categories>> /\ UNCHANGED caches
  BY DEF Begin, tables
<1>2. PICK todo \in IF t = "find_posts" THEN Listing ELSE {caches[t].entries} :
        run' = [Idle EXCEPT !.task = t, !.todo = todo]
  BY DEF Begin
<1>3. run'.task = t /\ run'.todo = todo /\ run'.found = <<>>
  BY <1>2 DEF Idle
<1>4. t # "find_posts" => \A i \in DOMAIN todo : ~Names(todo[i].value, id)
  <2> SUFFICES ASSUME t # "find_posts", NEW i \in DOMAIN todo
               PROVE  ~Names(todo[i].value, id)
    OBVIOUS
  <2>1. todo = caches[t].entries /\ caches[t].entries[i].key \in Text
    BY <1>2, EntriesAreHeld DEF IInv
  <2>2. caches[t].entries[i].value \in get(caches[t], caches[t].entries[i].key)
    BY <2>1, GetProps DEF IInv, CachesOK
  <2> QED BY <2>1, <2>2 DEF CachesSilent
<1>5. RunSilent(id)'
  BY <1>3, <1>4 DEF RunSilent
<1> QED BY <1>1, <1>5, SilentCaches DEF StaysSilent

LEMMA SilentPosts ==
  ASSUME IInv, NEW id \in PostIds, CachesSilent(id), RunSilent(id),
         FindPost \/ LoadPost \/ SavePost
  PROVE  StaysSilent(id)
<1>1. UNCHANGED <<Tags, Categories>> /\ CachesOK /\ Working(run.task)
  BY DEF IInv, FindPost, LoadPost, SavePost, tables, Working
<1>2. run.task \in Task /\ run.todo # <<>> /\ Current \in Text
  BY <1>1, CurrentIsText DEF IInv
<1>3. CASE FindPost
  <2>1. RunSilent(id)'
    BY <1>1, <1>3, SilentSkip DEF FindPost
  <2>2. CASE send("find_posts", Current, Message("LOAD_POST", Current))
    <3>1. /\ Message("LOAD_POST", Current) \in Messages
          /\ ~Names(Message("LOAD_POST", Current), id)
      BY <1>2 DEF Message, Messages, PostAction, Names
    <3>2. task_dependents["find_posts"] \in SUBSET Task
      BY DependentsAssumption DEF Task
    <3>3. CachesSilent(id)'
      BY <1>1, <1>2, <2>2, <3>1, <3>2, SilentSend DEF send
    <3> QED BY <1>1, <2>1, <3>3 DEF StaysSilent
  <2>3. CASE UNCHANGED caches
    BY <1>1, <2>1, <2>3, SilentCaches DEF StaysSilent
  <2> QED BY <1>3, <2>2, <2>3 DEF FindPost
<1>4. CASE LoadPost
  <2>1. RunSilent(id)'
    BY <1>1, <1>2, <1>4, SilentSkip DEF LoadPost
  <2>2. PICK n : n = Message("SAVE_POST", Body(Current))
    OBVIOUS
  <2>3. PICK m \in Held :
          /\ m.first = "LOAD_POST"
          /\ send("load_posts", Current, Message("SAVE_POST", Body(Current)))
    BY <1>4 DEF LoadPost
  <2>4. Body(Current) \in Text
    <3>1. run.task = "load_posts" /\ Current \in Path /\ Current \in PostFile
      BY <1>1, <1>4, <2>3, HeldIsSound, TextAssumption DEF IInv, LoadPost, Working, Sound
    <3> QED BY <3>1, BodyProps DEF IInv
  <2>5. n \in Messages /\ ~Names(n, id)
    BY <2>2, <2>4 DEF Message, Messages, PostAction, Names
  <2>6. task_dependents["load_posts"] \in SUBSET Task
    BY DependentsAssumption DEF Task
  <2>7. CachesSilent(id)'
    BY <1>1, <1>2, <2>2, <2>3, <2>5, <2>6, SilentSend DEF send
  <2> QED BY <1>1, <2>1, <2>7 DEF StaysSilent
<1>5. CASE SavePost
  <2>1. PICK m \in Held :
          /\ m.first = "SAVE_POST"
          /\ IF Violates(NameOf[Current], m.second)
             THEN Reject(m) /\ UNCHANGED Posts
             ELSE Insert(m)
    BY <1>5 DEF SavePost
  <2>2. CASE Violates(NameOf[Current], m.second)
    <3>1. Abort /\ UNCHANGED caches
      BY <2>1, <2>2 DEF Reject
    <3> QED BY <1>1, <3>1, SilentIdle, SilentCaches DEF StaysSilent
  <2>3. CASE Insert(m)
    <3>1. PICK new \in Uuid \ PostIds :
            send("save_posts", Current, Message("PROCESSED_POST", new)) /\ Done(Current)
      BY <2>3 DEF Insert
    <3>2. PICK n : n = Message("PROCESSED_POST", new)
      OBVIOUS
    <3>3. n \in Messages /\ ~Names(n, id)
      BY <3>1, <3>2 DEF Message, Messages, PostAction, Names
    <3>4. task_dependents["save_posts"] \in SUBSET Task
      BY DependentsAssumption DEF Task
    <3>5. CachesSilent(id)'
      BY <1>1, <1>2, <3>1, <3>2, <3>3, <3>4, SilentSend DEF send
    <3>6. RunSilent(id)'
      BY <1>1, <1>2, <3>1, SilentSkip
    <3> QED BY <1>1, <3>5, <3>6 DEF StaysSilent
  <2> QED BY <2>1, <2>2, <2>3
<1> QED BY <1>3, <1>4, <1>5

LEMMA SilentMetadata ==
  ASSUME IInv, NEW id \in PostIds, CachesSilent(id), RunSilent(id),
         EnterDirectory \/ FindMetadata \/ LoadMetadata
           \/ \E t \in {"save_tags", "save_categories"} : SplitContent(t)
  PROVE  StaysSilent(id)
<1>1. UNCHANGED <<Tags, Categories>> /\ CachesOK /\ RunOK
  BY DEF IInv, EnterDirectory, FindMetadata, LoadMetadata, SplitContent, tables
<1>2. CASE EnterDirectory
  <2>1. Working(run.task) /\ run.task = "find_metadata" /\ UNCHANGED caches
    BY <1>2 DEF EnterDirectory, Working
  <2>2. PICK m \in Held :
          /\ m.first = "PROCESSED_POST"
          /\ \/ Abort
             \/ \E s \in SetToSeqs(MetadataBelow(Current)) :
                  run' = [run EXCEPT
                            !.todo = Tail(run.todo),
                            !.found = [i \in DOMAIN s |-> [key |-> s[i], id |-> m.second]],
                            !.processed = Append(run.processed, Current)]
    BY <1>2 DEF EnterDirectory
  <2>3. m.second # id
    BY <2>1, <2>2, SilentHeld DEF Names
  <2>4. RunSilent(id)'
    <3>1. CASE Abort
      BY <3>1, SilentIdle
    <3>2. ASSUME NEW s,
                 run' = [run EXCEPT
                           !.todo = Tail(run.todo),
                           !.found = [i \in DOMAIN s |-> [key |-> s[i], id |-> m.second]],
                           !.processed = Append(run.processed, Current)]
          PROVE  RunSilent(id)'
      <4>1. /\ run'.task = run.task /\ run'.todo = Tail(run.todo)
            /\ run'.found = [i \in DOMAIN s |-> [key |-> s[i], id |-> m.second]]
        BY <1>1, <3>2 DEF RunOK, Runs
      <4>2. \A i \in DOMAIN run'.found : run'.found[i].id # id
        BY <2>3, <4>1
      <4> QED BY <1>1, <2>1, <4>1, <4>2, CurrentIsText, SilentTodo
    <3> QED BY <2>2, <3>1, <3>2
  <2> QED BY <1>1, <2>1, <2>4, SilentCaches DEF StaysSilent
<1>3. CASE FindMetadata
  <2>1. /\ run'.task = run.task /\ run'.todo = run.todo /\ run'.found = Tail(run.found)
        /\ run.found # <<>>
    BY <1>1, <1>3 DEF FindMetadata, NextFound, RunOK, Runs
  <2>2. Head(run.found).id # id /\ RunSilent(id)'
    BY <2>1, SilentFound
  <2>3. Head(run.found) \in [key : Text, id : Uuid]
    BY <1>1, <2>1, HeadFound
  <2>4. PICK n : n = Message("LOAD_METADATA", Head(run.found).id)
    OBVIOUS
  <2>5. n \in Messages /\ ~Names(n, id)
    BY <2>2, <2>3, <2>4 DEF Message, Messages, PostAction, Names
  <2>6. {"find_metadata"} \cup task_dependents["find_metadata"] \in SUBSET Task
    BY DependentsAssumption DEF Task
  <2>7. Head(run.found).key \in Text
    BY <2>3
  <2>8. CachesSilent(id)'
    BY <1>1, <1>3, <2>4, <2>5, <2>6, <2>7, SilentSend DEF FindMetadata
  <2> QED BY <1>1, <2>2, <2>8 DEF StaysSilent
<1>4. CASE LoadMetadata
  <2>1. Working(run.task) /\ run.task = "load_metadata" /\ Current \in Text
    BY <1>1, <1>4, CurrentIsText DEF LoadMetadata, Working
  <2>2. PICK m \in Held :
          /\ m.first = "LOAD_METADATA"
          /\ IF repo[Current] = Absent
             THEN Skip /\ UNCHANGED caches
             ELSE /\ StoreIn({"load_metadata"} \cup task_dependents["load_metadata"],
                             repo[Current], Message(MetadataAction(Current), m.second))
                  /\ Done(Current)
    BY <1>4 DEF LoadMetadata
  <2>3. m \in Messages /\ m.second # id /\ Current \in Path
    BY <1>1, <2>1, <2>2, SilentHeld, HeldIsSound, TextAssumption
       DEF Names, Sound, Beside, SavedFrom
  <2>4. RunSilent(id)'
    BY <2>1, <2>2, SilentSkip
  <2>5. CASE UNCHANGED caches
    BY <1>1, <2>4, <2>5, SilentCaches DEF StaysSilent
  <2>6. CASE repo[Current] # Absent
    <3>1. PICK n : n = Message(MetadataAction(Current), m.second)
      OBVIOUS
    <3>2. n \in Messages /\ ~Names(n, id)
      BY <2>3, <3>1 DEF Message, Messages, PostAction, Names, MetadataAction
    <3>3. repo[Current] \in Text
      BY <2>3, <2>6 DEF IInv, RepoOK
    <3>4. {"load_metadata"} \cup task_dependents["load_metadata"] \in SUBSET Task
      BY DependentsAssumption DEF Task
    <3>5. CachesSilent(id)'
      BY <1>1, <2>2, <2>6, <3>1, <3>2, <3>3, <3>4, SilentSend
    <3> QED BY <1>1, <2>4, <3>5 DEF StaysSilent
  <2> QED BY <2>2, <2>5, <2>6
<1>5. ASSUME NEW t \in {"save_tags", "save_categories"}, SplitContent(t)
      PROVE  StaysSilent(id)
  <2>1. Working(run.task) /\ run.task = t /\ UNCHANGED caches
    BY <1>5 DEF SplitContent, Working
  <2>2. PICK m \in Held :
          /\ m.first = Wanted[t]
          /\ run' = [run EXCEPT
                       !.todo = Tail(run.todo),
                       !.found = [i \in DOMAIN split[Current] |->
                                    [key |-> split[Current][i], id |-> m.second]]]
    BY <1>5 DEF SplitContent
  <2>3. m.second # id
    BY <2>1, <2>2, SilentHeld DEF Names, Wanted
  <2>4. /\ run'.task = run.task /\ run'.todo = Tail(run.todo)
        /\ run'.found = [i \in DOMAIN split[Current] |->
                           [key |-> split[Current][i], id |-> m.second]]
    BY <1>1, <2>2 DEF RunOK, Runs
  <2>5. \A i \in DOMAIN run'.found : run'.found[i].id # id
    BY <2>3, <2>4
  <2>6. RunSilent(id)'
    BY <1>1, <2>1, <2>4, <2>5, CurrentIsText, SilentTodo
  <2> QED BY <1>1, <2>1, <2>6, SilentCaches DEF StaysSilent
<1> QED BY <1>2, <1>3, <1>4, <1>5

LEMMA SilentSave ==
  ASSUME IInv, NEW id \in PostIds, CachesSilent(id), RunSilent(id),
         SaveTag \/ SaveCategory
  PROVE  StaysSilent(id)
<1>1. /\ UNCHANGED caches /\ run.found # <<>>
      /\ run'.task = run.task /\ run'.todo = run.todo /\ run'.found = Tail(run.found)
  BY DEF IInv, RunOK, Runs, SaveTag, SaveCategory, SaveItem
<1>2. Head(run.found).id # id /\ RunSilent(id)'
  BY <1>1, SilentFound
<1>3. \A table : RowsOf(table \cup {HeadRow}, id) = RowsOf(table, id)
  BY <1>2 DEF RowsOf, HeadRow
<1>4. /\ Tags' \in {Tags, Tags \cup {HeadRow}}
      /\ Categories' \in {Categories, Categories \cup {HeadRow}}
  BY DEF SaveTag, SaveCategory, SaveItem, HeadRow
<1> QED BY <1>1, <1>2, <1>3, <1>4, SilentCaches DEF StaysSilent

LEMMA NextSilent ==
  ASSUME IInv, [Next]_vars, NEW id \in PostIds, CachesSilent(id), RunSilent(id)
  PROVE  StaysSilent(id)
<1>1. CASE Step
  BY <1>1, SilentFrame, SilentPosts, SilentMetadata, SilentSave DEF Step
<1>2. CASE \E t \in Task : Begin(t)
  BY <1>2, SilentBegin
<1>3. CASE QueryFails \/ EditRepo \/ Restart \/ UNCHANGED vars
  BY <1>3, SilentFrame
<1> QED BY <1>1, <1>2, <1>3 DEF Next

(* A saved post that no message and no run mentions any more, because the  *)
(* process was restarted or its messages were displaced, is never mentioned*)
(* again: save_posts announces new ids only, and every other task hands on *)
(* an id it was given.  It keeps the tags and categories it has.           *)
THEOREM ForgottenPostsStayForgotten == Spec => ForgottenForGood
<1>1. ASSUME IInv, IInv', [Next]_vars, NEW id \in PostIds, ~Mentioned(id)
      PROVE  /\ ~Mentioned(id)'
             /\ RowsOf(Tags', id) = RowsOf(Tags, id)
             /\ RowsOf(Categories', id) = RowsOf(Categories, id)
  <2>1. CachesOK /\ CachesOK'
    BY <1>1 DEF IInv
  <2>2. CachesSilent(id) /\ RunSilent(id)
    <3>1. \A t \in Task : GoodStore(caches[t], Text, Messages)
      BY <2>1 DEF CachesOK
    <3> QED BY <1>1, <3>1, SilentEntries DEF CachesSilent, RunSilent, Mentioned
  <2>3. StaysSilent(id)
    BY <1>1, <2>2, NextSilent
  <2>4. ~Mentioned(id)'
    <3>1. \A t \in Task : GoodStore(caches'[t], Text, Messages)
      BY <2>1 DEF CachesOK
    <3>2. ASSUME NEW t \in Task
          PROVE  \A i \in DOMAIN caches'[t].entries :
                   ~Names(caches'[t].entries[i].value, id)
      <4>1. \A k \in Text : \A m \in get(caches'[t], k) : ~Names(m, id)
        BY <2>3 DEF StaysSilent, CachesSilent
      <4> QED BY <3>1, <4>1, SilentEntries
    <3>3. RunSilent(id)'
      BY <2>3 DEF StaysSilent
    <3> QED BY <3>2, <3>3 DEF RunSilent, Mentioned
  <2> QED BY <2>3, <2>4 DEF StaysSilent
<1>2. IInv /\ IInv' /\ [Next]_vars =>
        [\A id \in PostIds : ~Mentioned(id) =>
           /\ ~Mentioned(id)'
           /\ RowsOf(Tags', id) = RowsOf(Tags, id)
           /\ RowsOf(Categories', id) = RowsOf(Categories, id)]_vars
  BY <1>1
<1> QED BY <1>2, MessagesAreTrue, PTL DEF Spec, ForgottenForGood

-----------------------------------------------------------------------------
(* Who stores what where.                                                  *)

Sends(S, k, m) ==
  /\ StoreIn(S, k, m)
  /\ run.task \in Task
  /\ S \subseteq task_dependents[run.task]
                   \cup ({run.task} \cap {"find_metadata", "load_metadata"})
  /\ run.task = "load_posts" => m.first = "SAVE_POST" /\ run.todo # <<>>

Removes(k) ==
  /\ RemoveProcessed /\ run.task \in Task
  /\ \A t \in Task \ {run.task} : caches'[t] = caches[t]
  /\ caches'[run.task] \in RemoveOutcomes(caches[run.task], k)

LEMMA CacheMoves ==
  ASSUME IInv, [Next]_vars, ~Restart
  PROVE  \/ UNCHANGED caches
         \/ \E S \in SUBSET Task, k \in Text, m \in Messages : Sends(S, k, m)
         \/ \E k \in Text : Removes(k)
<1>0. RunOK /\ CachesOK /\ RepoOK /\ TablesOK
  BY DEF IInv
<1>1. ASSUME RemoveProcessed PROVE \E k \in Text : Removes(k)
  <2>1. run.processed \in Seq(Text) /\ run.processed # <<>> /\ run.task \in Task
    BY <1>0, <1>1 DEF RunOK, Runs, Idle, RemoveProcessed
  <2>2. Head(run.processed) \in Text
    BY <2>1, HeadTailProperties
  <2>3. PICK s \in RemoveOutcomes(caches[run.task], Head(run.processed)) :
          caches' = [caches EXCEPT ![run.task] = s]
    BY <1>1 DEF RemoveProcessed
  <2>4. \A t \in Task : caches'[t] = IF t = run.task THEN s ELSE caches[t]
    BY <1>0, <2>1, <2>3 DEF CachesOK
  <2> QED BY <1>1, <2>1, <2>2, <2>3, <2>4 DEF Removes
<1>2. ASSUME Working(run.task)
      PROVE  /\ run.task \in Task /\ run.todo # <<>> /\ Current \in Text
             /\ \A m : m = Message("LOAD_POST", Current) => m \in Messages
             /\ \A id \in Uuid : \A m : m = Message("PROCESSED_POST", id) => m \in Messages
  <2>1. run.task \in Task /\ run.todo # <<>> /\ Current \in Text
    BY <1>0, <1>2, CurrentIsText
  <2> QED BY <2>1 DEF Message, Messages, PostAction
<1>3. ASSUME FindPost, ~UNCHANGED caches
      PROVE  \E S \in SUBSET Task, k \in Text, m \in Messages : Sends(S, k, m)
  <2>1. /\ Working(run.task) /\ run.task = "find_posts"
        /\ StoreIn(task_dependents["find_posts"], Current, Message("LOAD_POST", Current))
    BY <1>3 DEF FindPost, Working, send
  <2>2. task_dependents["find_posts"] \in SUBSET Task
    BY DependentsAssumption DEF Task
  <2> QED BY <1>2, <2>1, <2>2 DEF Sends
<1>4. ASSUME LoadPost
      PROVE  \E S \in SUBSET Task, k \in Text, m \in Messages : Sends(S, k, m)
  <2>1. Working(run.task) /\ run.task = "load_posts"
    BY <1>4 DEF LoadPost, Working
  <2>2. PICK m \in Held :
          /\ m.first = "LOAD_POST"
          /\ StoreIn(task_dependents["load_posts"], Current,
                     Message("SAVE_POST", Body(Current)))
    BY <1>4 DEF LoadPost, send
  <2>3. Current \in PostFile
    BY <1>0, <2>1, <2>2, HeldIsSound DEF Sound
  <2>4. PICK n : n = Message("SAVE_POST", Body(Current))
    OBVIOUS
  <2>5. n \in Messages /\ n.first = "SAVE_POST"
    BY <1>0, <2>3, <2>4, BodyProps DEF Message, Messages, PostAction
  <2>6. task_dependents["load_posts"] \in SUBSET Task
    BY DependentsAssumption DEF Task
  <2> QED BY <1>2, <2>1, <2>2, <2>4, <2>5, <2>6 DEF Sends
<1>5. ASSUME SavePost, ~UNCHANGED caches
      PROVE  \E S \in SUBSET Task, k \in Text, m \in Messages : Sends(S, k, m)
  <2>1. Working(run.task) /\ run.task = "save_posts"
    BY <1>5 DEF SavePost, Working
  <2>2. PICK id \in Uuid :
          StoreIn(task_dependents["save_posts"], Current, Message("PROCESSED_POST", id))
    BY <1>5 DEF SavePost, Reject, Insert, send
  <2>3. task_dependents["save_posts"] \in SUBSET Task
    BY DependentsAssumption DEF Task
  <2> QED BY <1>2, <2>1, <2>2, <2>3 DEF Sends
<1>6. ASSUME FindMetadata
      PROVE  \E S \in SUBSET Task, k \in Text, m \in Messages : Sends(S, k, m)
  <2>1. Head(run.found) \in [key : Text, id : Uuid] /\ run.task = "find_metadata"
    BY <1>0, <1>6, HeadFound DEF FindMetadata
  <2>2. PICK n : n = Message("LOAD_METADATA", Head(run.found).id)
    OBVIOUS
  <2>3. n \in Messages /\ Head(run.found).key \in Text
    BY <2>1, <2>2 DEF Message, Messages, PostAction
  <2>4. {"find_metadata"} \cup task_dependents["find_metadata"] \in SUBSET Task
    BY DependentsAssumption DEF Task
  <2>5. StoreIn({"find_metadata"} \cup task_dependents["find_metadata"],
                Head(run.found).key, n)
    BY <1>6, <2>2 DEF FindMetadata
  <2> QED BY <2>1, <2>3, <2>4, <2>5 DEF Sends, Task
<1>7. ASSUME LoadMetadata, ~UNCHANGED caches
      PROVE  \E S \in SUBSET Task, k \in Text, m \in Messages : Sends(S, k, m)
  <2>1. Working(run.task) /\ run.task = "load_metadata"
    BY <1>7 DEF LoadMetadata, Working
  <2>2. PICK m \in Held :
          /\ m.first = "LOAD_METADATA" /\ repo[Current] # Absent
          /\ StoreIn({"load_metadata"} \cup task_dependents["load_metadata"],
                     repo[Current], Message(MetadataAction(Current), m.second))
    BY <1>7 DEF LoadMetadata
  <2>3. m \in Messages /\ Current \in Path
    BY <1>0, <2>1, <2>2, HeldIsSound, TextAssumption DEF Sound, Beside, SavedFrom
  <2>4. PICK n : n = Message(MetadataAction(Current), m.second)
    OBVIOUS
  <2>5. n \in Messages /\ repo[Current] \in Text
    BY <1>0, <2>2, <2>3, <2>4 DEF Message, Messages, PostAction, MetadataAction, RepoOK
  <2>6. {"load_metadata"} \cup task_dependents["load_metadata"] \in SUBSET Task
    BY DependentsAssumption DEF Task
  <2> QED BY <1>2, <2>1, <2>2, <2>4, <2>5, <2>6 DEF Sends
<1>8. PassOver \/ EndRun \/ EnterDirectory \/ (\E t \in Task : SplitContent(t))
        \/ SaveTag \/ SaveCategory \/ QueryFails \/ (\E t \in Task : Begin(t)) \/ EditRepo
        \/ UNCHANGED vars
      => UNCHANGED caches
  BY DEF PassOver, EndRun, EnterDirectory, SplitContent, SaveTag, SaveCategory,
     QueryFails, Begin, EditRepo, vars
<1> QED BY <1>1, <1>3, <1>4, <1>5, <1>6, <1>7, <1>8 DEF Next, Step, Task

-----------------------------------------------------------------------------
(* The worn-out cache of load_posts.                                       *)

LEMMA WornStore ==
  ASSUME NEW s, GoodStore(s, Text, Messages),
         s.entries = <<>>, s.current_allocations = cache_size
  PROVE  /\ \A k \in Text, m \in Messages : \A t \in StoreOutcomes(s, k, m) :
              t.entries = <<>> /\ t.current_allocations = cache_size
         /\ \A k \in Text : \A t \in RemoveOutcomes(s, k) :
              t.entries = <<>> /\ t.current_allocations = cache_size
<1>1. /\ s.current_item_idx \in Nat /\ s.current_item_idx < cache_size
      /\ Len(s.entries) = 0 /\ cache_size \in Nat
      /\ \A k : k \notin Keys(s)
  BY EmptySeq, CacheSizeAssumption DEF GoodStore, QuickStores, RingIsConsistent, Keys
<1>2. /\ Killed(s).entries = <<>> /\ Killed(s).current_allocations = cache_size
      /\ Advanced(s).entries = <<>> /\ Advanced(s).current_allocations = cache_size
  BY DEF Killed, Advanced, GoodStore, QuickStores
<1>3. ASSUME NEW k \in Text, NEW m \in Messages, NEW t \in StoreOutcomes(s, k, m)
      PROVE  t \in {Killed(s), Advanced(s)}
  BY <1>1, <1>3 DEF StoreOutcomes, Created
<1>4. ASSUME NEW k \in Text, NEW t \in RemoveOutcomes(s, k)
      PROVE  t.entries = <<>> /\ t.current_allocations = cache_size
  <2>1. /\ GoodStore(t, Text, Messages)
        /\ t.current_allocations = cache_size /\ Len(t.entries) <= 0
    BY <1>1, <1>4, RemoveProps
  <2>2. t.entries \in Seq([key : Text, value : Messages])
    BY <2>1 DEF GoodStore, QuickStores
  <2> QED BY <2>1, <2>2, EmptySeq
<1> QED BY <1>2, <1>3, <1>4

(* A removal, or a store under a key that is there, adds no key.           *)
LEMMA RemovalAddsNoKey ==
  ASSUME NEW s, GoodStore(s, Text, Messages), NEW k \in Text, NEW t \in RemoveOutcomes(s, k)
  PROVE  Keys(t) \subseteq Keys(s)
<1>1. GoodStore(t, Text, Messages) /\ \A x : get(t, x) \subseteq get(s, x)
  BY RemoveProps
<1> SUFFICES ASSUME NEW i \in DOMAIN t.entries PROVE t.entries[i].key \in Keys(s)
  BY DEF Keys
<1>2. t.entries[i].value \in get(t, t.entries[i].key)
  BY <1>1, GetProps
<1>3. get(s, t.entries[i].key) # {}
  BY <1>1, <1>2
<1> QED BY <1>3 DEF get, IsIndex, Keys

(* The subscriptions of the code: to save_posts only load_posts sends.     *)
SentByLoadPosts == \A t \in Task : "save_posts" \in task_dependents[t] => t = "load_posts"

LEMMA SaverIsFedByLoader ==
  ASSUME SentByLoadPosts, NEW S \in SUBSET Task, NEW k \in Text, NEW m \in Messages,
         Sends(S, k, m), "save_posts" \in S
  PROVE  run.task = "load_posts"
BY DEF SentByLoadPosts, Sends

LEMMA WornOutStep ==
  ASSUME SentByLoadPosts, IInv, [Next]_vars, ~Restart, WornOut("load_posts")
  PROVE  /\ WornOut("load_posts")'
         /\ Keys(caches'["save_posts"]) \subseteq Keys(caches["save_posts"])
         /\ \A row \in Posts' \ Posts :
              \E k \in Keys(caches["save_posts"]) : row.name = NameOf[k]
<1>0. /\ RunOK /\ CachesOK
      /\ GoodStore(caches["load_posts"], Text, Messages)
      /\ GoodStore(caches["save_posts"], Text, Messages)
      /\ caches["load_posts"].entries = <<>>
      /\ caches["load_posts"].current_allocations = cache_size
      /\ run.task = "load_posts" => run.todo = <<>>
  BY DEF IInv, CachesOK, WornOut, Task
<1>1. /\ caches'["load_posts"].entries = <<>>
      /\ caches'["load_posts"].current_allocations = cache_size
  <2>1. CASE UNCHANGED caches
    BY <1>0, <2>1
  <2>2. ASSUME NEW S \in SUBSET Task, NEW k \in Text, NEW m \in Messages, Sends(S, k, m)
        PROVE  /\ caches'["load_posts"].entries = <<>>
               /\ caches'["load_posts"].current_allocations = cache_size
    <3>1. \/ caches'["load_posts"] = caches["load_posts"]
          \/ caches'["load_posts"] \in StoreOutcomes(caches["load_posts"], k, m)
      BY <1>0, <2>2, StoredIn DEF Sends, Task
    <3> QED BY <1>0, <3>1, WornStore
  <2>3. ASSUME NEW k \in Text, Removes(k)
        PROVE  /\ caches'["load_posts"].entries = <<>>
               /\ caches'["load_posts"].current_allocations = cache_size
    <3>1. \/ caches'["load_posts"] = caches["load_posts"]
          \/ caches'["load_posts"] \in RemoveOutcomes(caches["load_posts"], k)
      BY <2>3 DEF Removes, Task
    <3> QED BY <1>0, <3>1, WornStore
  <2> QED BY <2>1, <2>2, <2>3, CacheMoves
<1>2. run'.task = "load_posts" => run'.todo = <<>>
  <2>1. CASE \E t \in Task : Begin(t)
    <3>1. PICK t \in Task : Begin(t)
      BY <2>1
    <3>2. PICK todo \in IF t = "find_posts" THEN Listing ELSE {caches[t].entries} :
            run' = [Idle EXCEPT !.task = t, !.todo = todo]
      BY <3>1 DEF Begin
    <3>3. run'.task = t /\ run'.todo = todo
      BY <3>2 DEF Idle
    <3> QED BY <1>0, <3>2, <3>3
  <2>2. CASE run' = Idle \/ UNCHANGED run
    BY <1>0, <2>2 DEF Idle
  <2>3. ASSUME ~(\E t \in Task : Begin(t)), ~(run' = Idle \/ UNCHANGED run)
        PROVE  run'.task = run.task
               /\ (run.task = "load_posts" => RemoveProcessed /\ run'.todo = run.todo)
    <3>1. Step
      BY <2>3 DEF Next, QueryFails, EditRepo, Restart, Abort, vars
    <3>2. run'.task = run.task
      BY <1>0, <2>3, <3>1 DEF Step, PassOver, Abort, Skip, Done, RemoveProcessed, EndRun,
         FindPost, LoadPost, SavePost, Reject, Insert, EnterDirectory, FindMetadata,
         NextFound, LoadMetadata, SplitContent, SaveTag, SaveCategory, SaveItem, RunOK, Runs
    <3>3. run.task = "load_posts" => RemoveProcessed
      BY <1>0, <2>3, <3>1 DEF Step, PassOver, EndRun, FindPost, LoadPost, SavePost,
         EnterDirectory, FindMetadata, LoadMetadata, SplitContent, SaveTag, SaveCategory,
         Working
    <3>4. RemoveProcessed => run'.todo = run.todo
      BY <1>0 DEF RemoveProcessed, RunOK, Runs
    <3> QED BY <3>2, <3>3, <3>4
  <2> QED BY <1>0, <2>1, <2>2, <2>3
<1>3. Keys(caches'["save_posts"]) \subseteq Keys(caches["save_posts"])
  <2>1. CASE UNCHANGED caches
    BY <2>1
  <2>2. ASSUME NEW S \in SUBSET Task, NEW k \in Text, NEW m \in Messages, Sends(S, k, m)
        PROVE  caches'["save_posts"] = caches["save_posts"]
    <3>1. "save_posts" \notin S
      BY <1>0, <2>2, SaverIsFedByLoader DEF Sends
    <3> QED BY <1>0, <2>2, <3>1, StoredIn DEF Sends, Task
  <2>3. ASSUME NEW k \in Text, Removes(k)
        PROVE  Keys(caches'["save_posts"]) \subseteq Keys(caches["save_posts"])
    <3>1. \/ caches'["save_posts"] = caches["save_posts"]
          \/ caches'["save_posts"] \in RemoveOutcomes(caches["save_posts"], k)
      BY <2>3 DEF Removes, Task
    <3> QED BY <1>0, <3>1, RemovalAddsNoKey
  <2> QED BY <2>1, <2>2, <2>3, CacheMoves
<1>4. ASSUME NEW row \in Posts' \ Posts
      PROVE  \E k \in Keys(caches["save_posts"]) : row.name = NameOf[k]
  <2>1. SavePost
    BY <1>4 DEF Next, Step, PassOver, RemoveProcessed, EndRun, FindPost, LoadPost,
       EnterDirectory, FindMetadata, LoadMetadata, SplitContent, SaveTag, SaveCategory,
       QueryFails, Begin, EditRepo, Restart, vars, tables
  <2>2. PICK m \in Held : m.first = "SAVE_POST" /\ Insert(m)
    BY <1>4, <2>1 DEF SavePost
  <2>3. PICK id : Posts' = Posts \cup {[ post_id |-> id, name |-> NameOf[Current],
                                         body |-> m.second ]}
    BY <2>2 DEF Insert
  <2>4. row.name = NameOf[Current]
    BY <1>4, <2>3
  <2>5. m \in get(caches["save_posts"], Current)
    BY <2>1, <2>2 DEF SavePost, Working, Held
  <2> QED BY <2>4, <2>5 DEF get, IsIndex, Keys
<1> QED BY <1>1, <1>2, <1>3, <1>4 DEF WornOut

(* Once every slot of load_posts' ring has been handed out and its entries *)
(* are gone, load_posts takes nothing in and hands nothing on: nothing     *)
(* reaches save_posts any more, until the process is restarted.            *)
THEOREM WornOutStaysWornOut ==
  ASSUME SentByLoadPosts
  PROVE  Spec => WornOutForGood
<1>1. IInv /\ [Next]_vars => [WornOut("load_posts") =>
        \/ /\ WornOut("load_posts")'
           /\ Keys(caches'["save_posts"]) \subseteq Keys(caches["save_posts"])
           /\ \A row \in Posts' \ Posts :
                \E k \in Keys(caches["save_posts"]) : row.name = NameOf[k]
        \/ Restarted]_vars
  BY WornOutStep DEF Restart, Restarted
<1> QED BY <1>1, MessagesAreTrue, PTL DEF Spec, WornOutForGood

-----------------------------------------------------------------------------
(* The post that blocks save_posts.                                        *)

(* save_posts' cache holds nothing but bodies to be saved, and a run of    *)
(* save_posts works through what it has copied of it.                      *)
SaveQueue == \A k \in Text : \A m \in get(caches["save_posts"], k) : m.first = "SAVE_POST"

Suffix ==
  run.task = "save_posts" =>
    \A i \in DOMAIN run.todo :
      LET d == Len(caches["save_posts"].entries) - Len(run.todo) IN
      /\ d >= 0
      /\ run.todo[i] = caches["save_posts"].entries[d + i]

QInv == IInv /\ SaveQueue /\ Suffix

LEMMA SaversRun ==
  ASSUME SentByLoadPosts, IInv, [Next]_vars, ~Restart
  PROVE  \/ caches'["save_posts"] = caches["save_posts"]
         \/ /\ run.task = "save_posts" /\ run.todo = <<>>
            /\ RemoveProcessed
            /\ \E k \in Text :
                 caches'["save_posts"] \in RemoveOutcomes(caches["save_posts"], k)
         \/ /\ run.task = "load_posts"
            /\ \E k \in Text, m \in Messages :
                 /\ m.first = "SAVE_POST"
                 /\ caches'["save_posts"] \in StoreOutcomes(caches["save_posts"], k, m)
<1>0. CachesOK /\ RunOK
  BY DEF IInv
<1>1. CASE UNCHANGED caches
  BY <1>1
<1>2. ASSUME NEW S \in SUBSET Task, NEW k \in Text, NEW m \in Messages, Sends(S, k, m),
             "save_posts" \in S
      PROVE  /\ run.task = "load_posts" /\ m.first = "SAVE_POST"
             /\ caches'["save_posts"] \in StoreOutcomes(caches["save_posts"], k, m)
  <2>1. run.task = "load_posts" /\ m.first = "SAVE_POST" /\ run.todo # <<>>
    BY <1>2, SaverIsFedByLoader DEF Sends
  <2>2. caches'["save_posts"] \in StoreOutcomes(caches["save_posts"], k, m)
    BY <1>0, <1>2, StoredIn DEF Sends
  <2> QED BY <2>1, <2>2
<1>3. ASSUME NEW S \in SUBSET Task, NEW k \in Text, NEW m \in Messages, Sends(S, k, m),
             "save_posts" \notin S
      PROVE  caches'["save_posts"] = caches["save_posts"]
  BY <1>0, <1>3, StoredIn DEF Sends, Task
<1>4. ASSUME NEW k \in Text, Removes(k), run.task # "save_posts"
      PROVE  caches'["save_posts"] = caches["save_posts"]
  BY <1>4 DEF Removes, Task
<1>5. ASSUME NEW k \in Text, Removes(k), run.task = "save_posts"
      PROVE  /\ RemoveProcessed /\ run.todo = <<>>
             /\ caches'["save_posts"] \in RemoveOutcomes(caches["save_posts"], k)
  BY <1>5 DEF Removes, RemoveProcessed
<1> QED BY <1>1, <1>2, <1>3, <1>4, <1>5, CacheMoves

(* What may become of a run of save_posts, and how one comes about.        *)
LEMMA SaversTodo ==
  ASSUME IInv, [Next]_vars, run'.task = "save_posts"
  PROVE  \/ run' = run
         \/ Begin("save_posts") /\ run'.todo = caches["save_posts"].entries
         \/ /\ run.task = "save_posts" /\ run.todo # <<>> /\ run'.todo = Tail(run.todo)
            /\ SavePost \/ PassOver
         \/ /\ run.task = "save_posts" /\ run.todo = <<>> /\ run'.todo = <<>>
            /\ RemoveProcessed
<1>0. RunOK /\ CachesOK
  BY DEF IInv
<1>1. CASE \E t \in Task : Begin(t)
  <2>1. PICK t \in Task : Begin(t)
    BY <1>1
  <2>2. PICK todo \in IF t = "find_posts" THEN Listing ELSE {caches[t].entries} :
          run' = [Idle EXCEPT !.task = t, !.todo = todo]
    BY <2>1 DEF Begin
  <2>3. run'.task = t /\ run'.todo = todo
    BY <2>2 DEF Idle
  <2> QED BY <2>1, <2>2, <2>3
<1>2. CASE run' = run
  BY <1>2
<1>3. run' # Idle
  BY DEF Idle
<1>4. ASSUME ~(\E t \in Task : Begin(t)), run' # run
      PROVE  \/ /\ run.task = "save_posts" /\ run.todo # <<>> /\ run'.todo = Tail(run.todo)
                /\ SavePost \/ PassOver
             \/ /\ run.task = "save_posts" /\ run.todo = <<>> /\ run'.todo = <<>>
                /\ RemoveProcessed
  <2>1. Step
    BY <1>3, <1>4 DEF Next, QueryFails, EditRepo, Restart, Abort, vars
  <2>2. run.task = "save_posts"
    BY <1>0, <1>3, <2>1 DEF Step, PassOver, Abort, Skip, Done, RemoveProcessed, EndRun,
       FindPost, LoadPost, SavePost, Reject, Insert, EnterDirectory, FindMetadata,
       NextFound, LoadMetadata, SplitContent, SaveTag, SaveCategory, SaveItem, RunOK, Runs
  <2>3. SavePost \/ PassOver \/ RemoveProcessed
    BY <1>3, <2>1, <2>2 DEF Step, EndRun, FindPost, LoadPost, EnterDirectory, FindMetadata,
       LoadMetadata, SplitContent, SaveTag, SaveCategory, Working
  <2>4. SavePost \/ PassOver => run.todo # <<>> /\ run'.todo = Tail(run.todo)
    BY <1>0, <1>3 DEF SavePost, PassOver, Reject, Insert, Abort, Skip, Done, Working,
       RunOK, Runs
  <2>5. RemoveProcessed => run.todo = <<>> /\ run'.todo = <<>>
    BY <1>0 DEF RemoveProcessed, RunOK, Runs
  <2> QED BY <2>2, <2>3, <2>4, <2>5
<1> QED BY <1>1, <1>2, <1>4

LEMMA SuffixStep ==
  ASSUME SentByLoadPosts, QInv, [Next]_vars
  PROVE  Suffix'
<1> SUFFICES ASSUME run'.task = "save_posts", NEW i \in DOMAIN run'.todo
             PROVE  /\ Len(caches'["save_posts"].entries) - Len(run.todo') >= 0
                    /\ run'.todo[i] =
                         caches'["save_posts"].entries[
                           Len(caches'["save_posts"].entries) - Len(run.todo') + i]
  BY DEF Suffix
<1>0. IInv /\ RunOK /\ CachesOK /\ ~Restart
  BY DEF QInv, IInv, Restart, Idle
<1>1. CASE run' = run
  <2>1. caches'["save_posts"] = caches["save_posts"]
    <3>1. run.task = "save_posts" /\ run.todo # <<>>
      BY <1>1
    <3> QED BY <1>0, <3>1, SaversRun
  <2> QED BY <1>1, <2>1 DEF QInv, Suffix
<1>2. CASE Begin("save_posts") /\ run'.todo = caches["save_posts"].entries
  <2>1. caches' = caches
    BY <1>2 DEF Begin
  <2>2. caches["save_posts"].entries \in Seq([key : Text, value : Messages])
    BY <1>0, EntriesAreHeld DEF Task
  <2>3. /\ Len(run.todo') \in Nat
        /\ i \in 1 .. Len(run.todo')
    BY <1>2, <2>2, LenProperties
  <2> QED BY <1>2, <2>1, <2>3
<1>3. CASE /\ run.task = "save_posts" /\ run.todo # <<>> /\ run'.todo = Tail(run.todo)
           /\ SavePost \/ PassOver
  <2>1. caches'["save_posts"] = caches["save_posts"]
    BY <1>0, <1>3, SaversRun
  <2>2. run.todo \in Seq([key : Text, value : Messages \cup {Absent}])
    BY <1>0 DEF RunOK, Runs
  <2>3. /\ Len(run.todo) \in Nat /\ Len(Tail(run.todo)) = Len(run.todo) - 1
        /\ i + 1 \in DOMAIN run.todo /\ Tail(run.todo)[i] = run.todo[i + 1]
    BY <1>3, <2>2, HeadTailProperties, HeadTail, LenProperties
  <2>4. /\ Len(caches["save_posts"].entries) - Len(run.todo) >= 0
        /\ run.todo[i + 1] =
             caches["save_posts"].entries[
               Len(caches["save_posts"].entries) - Len(run.todo) + (i + 1)]
    BY <1>3, <2>3 DEF QInv, Suffix
  <2>5. /\ Len(caches["save_posts"].entries) \in Nat /\ i \in Nat
    <3>1. caches["save_posts"].entries \in Seq([key : Text, value : Messages])
      BY <1>0, EntriesAreHeld DEF Task
    <3>2. Tail(run.todo) \in Seq([key : Text, value : Messages \cup {Absent}])
      BY <1>3, <2>2, HeadTail
    <3>3. i \in 1 .. Len(Tail(run.todo)) /\ Len(Tail(run.todo)) \in Nat
      BY <1>3, <3>2, LenProperties
    <3> QED BY <3>1, <3>3, LenProperties
  <2> DEFINE a == Len(caches["save_posts"].entries)
             b == Len(run.todo)
  <2>6. a \in Nat /\ b \in Nat /\ i \in Nat /\ a - b >= 0
    BY <2>3, <2>4, <2>5
  <2>7. /\ Len(caches'["save_posts"].entries) = a /\ Len(run.todo') = b - 1
        /\ run'.todo[i] = caches'["save_posts"].entries[a - b + (i + 1)]
    BY <1>3, <2>1, <2>3, <2>4
  <2> HIDE DEF a, b
  <2>8. a - (b - 1) + i = a - b + (i + 1) /\ a - (b - 1) >= 0
    BY <2>6
  <2> QED BY <2>7, <2>8
<1>4. CASE run'.todo = <<>>
  BY <1>4
<1> QED BY <1>0, <1>1, <1>2, <1>3, <1>4, SaversTodo

LEMMA SaveQueueStep ==
  ASSUME SentByLoadPosts, QInv, [Next]_vars
  PROVE  SaveQueue'
<1>0. IInv /\ GoodStore(caches["save_posts"], Text, Messages)
  BY DEF QInv, IInv, CachesOK, Task
<1> SUFFICES ASSUME NEW x \in Text, NEW y \in get(caches'["save_posts"], x)
             PROVE  y.first = "SAVE_POST"
  BY DEF SaveQueue
<1>1. CASE caches'["save_posts"] = caches["save_posts"]
  BY <1>1 DEF QInv, SaveQueue
<1>2. ASSUME NEW k \in Text,
             caches'["save_posts"] \in RemoveOutcomes(caches["save_posts"], k)
      PROVE  y.first = "SAVE_POST"
  <2>1. get(caches'["save_posts"], x) \subseteq get(caches["save_posts"], x)
    BY <1>0, <1>2, RemoveProps
  <2> QED BY <2>1 DEF QInv, SaveQueue
<1>3. ASSUME NEW k \in Text, NEW m \in Messages, m.first = "SAVE_POST",
             caches'["save_posts"] \in StoreOutcomes(caches["save_posts"], k, m)
      PROVE  y.first = "SAVE_POST"
  <2>1. /\ get(caches'["save_posts"], k) \subseteq {m} \cup get(caches["save_posts"], k)
        /\ x # k => get(caches'["save_posts"], x) \subseteq get(caches["save_posts"], x)
    BY <1>0, <1>3, StoreProps
  <2> QED BY <1>3, <2>1 DEF QInv, SaveQueue
<1>4. CASE Restart
  <2>1. caches'["save_posts"] = EmptyStore
    BY <1>4 DEF Restart, Task
  <2> QED BY <2>1, EmptyStoreProps
<1> QED BY <1>0, <1>1, <1>2, <1>3, <1>4, SaversRun

LEMMA QInvariant ==
  ASSUME SentByLoadPosts
  PROVE  Spec => []QInv
<1>1. Init => QInv
  <2>1. Init => IInv
    BY InitInv
  <2>2. Init => SaveQueue
    BY EmptyStoreProps DEF Init, SaveQueue, Task
  <2>3. Init => Suffix
    BY DEF Init, Suffix, Idle
  <2> QED BY <2>1, <2>2, <2>3 DEF QInv
<1>2. QInv /\ [Next]_vars => QInv'
  BY NextInv, SuffixStep, SaveQueueStep DEF QInv
<1> QED BY <1>1, <1>2, PTL DEF Spec

(* A store that displaces nothing leaves the first entry's key first.      *)
LEMMA FirstKeyKept ==
  ASSUME NEW s, GoodStore(s, Text, Messages), s.entries # <<>>,
         NEW k \in Text, NEW m \in Messages, NEW t \in StoreOutcomes(s, k, m),
         Keys(s) \subseteq Keys(t)
  PROVE  t.entries # <<>> /\ t.entries[1].key = s.entries[1].key
<1> DEFINE E == [key : Text, value : Messages]
           e == [key |-> k, value |-> m]
           j == s.current_item_idx + 1
<1>1. /\ s.entries \in Seq(E) /\ Len(s.entries) \in Nat \ {0}
      /\ DOMAIN s.entries = 1 .. Len(s.entries)
      /\ s.current_item_idx \in Nat
      /\ e \in E /\ e.key = k
  BY EmptySeq, LenProperties DEF GoodStore, QuickStores
<1>2. CASE t.entries = s.entries
  BY <1>2
<1>3. ASSUME NEW i \in 1 .. Len(s.entries), t.entries = [s.entries EXCEPT ![i] = e],
             s.entries[i].key = k \/ k \notin Keys(s)
      PROVE  t.entries # <<>> /\ t.entries[1].key = s.entries[1].key
  <2>1. /\ t.entries \in Seq(E) /\ Len(t.entries) = Len(s.entries)
        /\ \A n \in 1 .. Len(s.entries) :
             t.entries[n] = IF n = i THEN e ELSE s.entries[n]
    BY <1>1, <1>3, ExceptSeq
  <2>2. DOMAIN t.entries = 1 .. Len(s.entries) /\ t.entries # <<>>
    BY <1>1, <2>1, LenProperties, EmptySeq
  <2>3. ASSUME i = 1, s.entries[1].key # k PROVE FALSE
    <3>1. s.entries[1].key \in Keys(t)
      <4>1. 1 \in DOMAIN s.entries
        BY <1>1
      <4>2. s.entries[1].key \in Keys(s)
        BY <4>1 DEF Keys
      <4> QED BY <4>2
    <3>2. PICK n \in DOMAIN t.entries : t.entries[n].key = s.entries[1].key
      BY <3>1 DEF Keys
    <3>3. n # 1 /\ s.entries[n].key = s.entries[1].key
      BY <1>1, <2>1, <2>2, <2>3, <3>2
    <3> QED BY <1>1, <2>2, <3>3 DEF GoodStore, KeysAreDistinct
  <2> QED BY <1>1, <2>1, <2>2, <2>3
<1>4. ASSUME t.entries = Append(s.entries, e)
      PROVE  t.entries # <<>> /\ t.entries[1].key = s.entries[1].key
  BY <1>1, <1>4, AppendProperties
<1>5. CASE s.health # "sound"
  BY <1>2, <1>5 DEF StoreOutcomes, Killed, GoodStore, QuickStores
<1>6. CASE s.health = "sound" /\ k \in Keys(s)
  <2>1. index(s, k) \in 1 .. Len(s.entries) /\ s.entries[index(s, k)].key = k
    BY <1>6, IndexProps
  <2>2. t.entries = [s.entries EXCEPT ![index(s, k)] = e]
    BY <1>6 DEF StoreOutcomes, WithEntry, ReplaceAt, GoodStore, QuickStores
  <2> QED BY <1>3, <2>1, <2>2
<1>7. CASE s.health = "sound" /\ k \notin Keys(s)
  <2>1. t \in Created(s, k, m)
    BY <1>7 DEF StoreOutcomes
  <2>2. CASE t = Advanced(PushedBack(s, k, m))
    <3>1. t.entries = Append(s.entries, e)
      BY <2>2 DEF Advanced, PushedBack, GoodStore, QuickStores
    <3> QED BY <1>4, <3>1
  <2>3. CASE t = Advanced(WithEntry(s, j, k, m)) /\ s.current_item_idx < Len(s.entries)
    <3>1. t.entries = [s.entries EXCEPT ![j] = e] /\ j \in 1 .. Len(s.entries)
      BY <1>1, <2>3 DEF Advanced, WithEntry, ReplaceAt, GoodStore, QuickStores
    <3> QED BY <1>3, <1>7, <3>1
  <2>4. CASE t \in {Advanced(s), Killed(s)}
    BY <1>2, <2>4 DEF Advanced, Killed, GoodStore, QuickStores
  <2> QED BY <2>1, <2>2, <2>3, <2>4 DEF Created
<1> QED BY <1>5, <1>6, <1>7

(* The post at the head of the queue cannot be inserted.                   *)
HeadBlocks ==
  LET e == caches["save_posts"].entries IN
  /\ e # <<>>
  /\ \E row \in Posts : row.name = NameOf[e[1].key]
  /\ run.task = "save_posts" => \E n \in DOMAIN run.todo : run.todo[n].key = e[1].key

LEMMA BlockedIsHead == QInv => (Blocked <=> HeadBlocks)
<1> SUFFICES ASSUME QInv PROVE Blocked <=> HeadBlocks
  OBVIOUS
<1> DEFINE e == caches["save_posts"].entries
<1>1. /\ GoodStore(caches["save_posts"], Text, Messages)
      /\ e \in Seq([key : Text, value : Messages])
      /\ \A i \in DOMAIN e : e[i].key \in Text
  BY EntriesAreHeld DEF QInv, IInv, CachesOK, Task
<1>2. Len(e) \in Nat /\ DOMAIN e = 1 .. Len(e) /\ (e # <<>> <=> Len(e) > 0)
  BY <1>1, LenProperties, EmptySeq
<1>3. ASSUME NEW i \in DOMAIN e PROVE e[i].value.first = "SAVE_POST"
  <2>1. e[i].value \in get(caches["save_posts"], e[i].key)
    BY <1>1, <1>3, GetProps
  <2> QED BY <1>1, <2>1 DEF QInv, SaveQueue
<1>4. Waiting = DOMAIN e
  BY <1>3 DEF Waiting
<1> HIDE DEF e
<1>5. ASSUME NEW i \in Waiting
      PROVE  (\A j \in Waiting : i <= j) <=> i = 1
  <2>1. i \in Nat /\ 1 <= i /\ 1 \in Waiting /\ \A j \in Waiting : j \in Nat /\ 1 <= j
    BY <1>2, <1>4
  <2> QED BY <2>1
<1>6. 1 \in Waiting <=> e # <<>>
  BY <1>2, <1>4
<1> QED BY <1>5, <1>6 DEF Blocked, HeadBlocks, e

LEMMA BlockedStep ==
  ASSUME SentByLoadPosts, QInv, [Next]_vars, ~Restart, HeadBlocks
  PROVE  \/ Posts' = Posts /\ HeadBlocks'
         \/ Posts' = Posts /\ run.task = "load_posts" /\ Displaces("save_posts")
<1> DEFINE e == caches["save_posts"].entries
           k == e[1].key
<1>0. /\ IInv /\ RunOK /\ CachesOK
      /\ GoodStore(caches["save_posts"], Text, Messages)
      /\ e \in Seq([key : Text, value : Messages])
      /\ \A i \in DOMAIN e : e[i].key \in Text
  BY EntriesAreHeld DEF QInv, IInv, CachesOK, Task
<1>1. e # <<>> /\ Len(e) \in Nat \ {0} /\ DOMAIN e = 1 .. Len(e)
  BY <1>0, EmptySeq, LenProperties DEF HeadBlocks
(* The run of save_posts has everything before it.                         *)
<1>2. ASSUME run.task = "save_posts"
      PROVE  run.todo # <<>> /\ Current = k
  <2>1. PICK n \in DOMAIN run.todo : run.todo[n].key = k
    BY <1>2 DEF HeadBlocks
  <2>2. /\ run.todo \in Seq([key : Text, value : Messages \cup {Absent}])
        /\ run.todo # <<>>
    BY <1>0, <2>1 DEF RunOK, Runs
  <2>3. Len(run.todo) \in Nat \ {0} /\ DOMAIN run.todo = 1 .. Len(run.todo)
    BY <2>2, EmptySeq, LenProperties
  <2>4. Head(run.todo) = run.todo[1]
    BY <2>2, HeadTail
  <2> DEFINE d == Len(e) - Len(run.todo)
  <2>5. \A i \in DOMAIN run.todo : d >= 0 /\ run.todo[i] = e[d + i]
    BY <1>2 DEF QInv, Suffix
  <2>6. d \in Nat /\ Len(e) = d + Len(run.todo)
    BY <1>1, <2>1, <2>3, <2>5
  <2>7. e[d + n].key = e[1].key
    BY <2>1, <2>5
  <2> HIDE DEF d
  <2>8. n \in Nat \ {0} /\ d + n \in 1 .. Len(e) /\ 1 \in 1 .. Len(e)
    BY <1>1, <2>1, <2>3, <2>6
  <2>9. d + n = 1
    BY <1>0, <1>1, <2>7, <2>8 DEF GoodStore, KeysAreDistinct
  <2>10. d = 0 /\ 1 \in DOMAIN run.todo
    BY <2>3, <2>6, <2>8, <2>9
  <2>11. run.todo[1] = e[1]
    BY <2>5, <2>10
  <2> QED BY <2>2, <2>4, <2>11 DEF Current
<1>3. ASSUME SavePost PROVE Abort /\ UNCHANGED <<Posts, caches>>
  <2>1. run.task = "save_posts"
    BY <1>3 DEF SavePost, Working
  <2>2. \A body : Violates(NameOf[Current], body)
    BY <1>2, <2>1 DEF HeadBlocks, Violates
  <2> QED BY <1>3, <2>2 DEF SavePost, Reject
<1>4. Posts' = Posts
  <2>1. CASE SavePost
    BY <1>3, <2>1
  <2>2. CASE ~SavePost
    BY <2>2 DEF Next, Step, PassOver, RemoveProcessed, EndRun, FindPost, LoadPost,
       EnterDirectory, FindMetadata, LoadMetadata, SplitContent, SaveTag, SaveCategory,
       QueryFails, Begin, EditRepo, Restart, vars, tables
  <2> QED BY <2>1, <2>2
<1>5. \/ /\ caches'["save_posts"].entries # <<>>
         /\ caches'["save_posts"].entries[1].key = k
      \/ run.task = "load_posts" /\ Displaces("save_posts")
  <2>1. CASE caches'["save_posts"] = caches["save_posts"]
    BY <1>1, <2>1
  <2>2. CASE run.task = "save_posts" /\ run.todo = <<>>
    BY <1>2, <2>2
  <2>3. ASSUME run.task = "load_posts", NEW x \in Text, NEW m \in Messages,
               caches'["save_posts"] \in StoreOutcomes(caches["save_posts"], x, m)
        PROVE  \/ /\ caches'["save_posts"].entries # <<>>
                  /\ caches'["save_posts"].entries[1].key = k
               \/ run.task = "load_posts" /\ Displaces("save_posts")
    BY <1>0, <1>1, <2>3, FirstKeyKept DEF Displaces
  <2> QED BY <1>0, <2>1, <2>2, <2>3, SaversRun
<1>6. ASSUME run'.task = "save_posts",
             caches'["save_posts"].entries[1].key = k
      PROVE  \E n \in DOMAIN run'.todo : run'.todo[n].key = k
  <2>1. CASE run' = run
    BY <1>6, <2>1 DEF HeadBlocks
  <2>2. CASE run'.todo = e
    BY <1>1, <2>2
  <2>3. CASE run.task = "save_posts" /\ run.todo # <<>> /\ (SavePost \/ PassOver)
    <3>1. Abort \/ PassOver
      BY <1>3, <2>3
    <3>2. PassOver => Abort
      <4> SUFFICES ASSUME PassOver, NEW m \in Held, m.first # Wanted[run.task] PROVE FALSE
        BY DEF PassOver
      <4>1. m \in get(caches["save_posts"], Current) /\ Current \in Text
        BY <1>0, <1>1, <1>2, <2>3 DEF Held
      <4>2. m.first = "SAVE_POST"
        BY <4>1 DEF QInv, SaveQueue
      <4> QED BY <2>3, <4>2 DEF Wanted
    <3> QED BY <1>6, <3>1, <3>2 DEF Abort, Idle
  <2>4. CASE run.task = "save_posts" /\ run.todo = <<>>
    BY <1>2, <2>4
  <2> QED BY <1>0, <1>6, <2>1, <2>2, <2>3, <2>4, SaversTodo
<1>7. CASE /\ caches'["save_posts"].entries # <<>>
           /\ caches'["save_posts"].entries[1].key = k
  <2>1. \E row \in Posts' : row.name = NameOf[caches'["save_posts"].entries[1].key]
    BY <1>4, <1>7 DEF HeadBlocks
  <2>2. HeadBlocks'
    BY <1>6, <1>7, <2>1 DEF HeadBlocks
  <2> QED BY <1>4, <2>2
<1> QED BY <1>4, <1>5, <1>7

(* A post that waits in save_posts' cache before all others and cannot be  *)
(* inserted, because its name is taken, ends every run of save_posts at    *)
(* that insert: until a restart, or until a post sent by load_posts        *)
(* displaces an entry, no post is saved.                                   *)
THEOREM BlockedStaysBlocked ==
  ASSUME SentByLoadPosts
  PROVE  Spec => BlockedForGood
<1>1. QInv /\ QInv' /\ [Next]_vars => [Blocked =>
        \/ Posts' = Posts /\ Blocked'
        \/ Posts' = Posts /\ run.task = "load_posts" /\ Displaces("save_posts")
        \/ Restarted]_vars
  <2> SUFFICES ASSUME QInv, QInv', [Next]_vars, Blocked, ~Restarted
               PROVE  \/ Posts' = Posts /\ Blocked'
                      \/ /\ Posts' = Posts
                         /\ run.task = "load_posts" /\ Displaces("save_posts")
    OBVIOUS
  <2>1. HeadBlocks
    BY BlockedIsHead
  <2>2. ~Restart
    BY DEF Restart, Restarted
  <2>3. QInv' => (Blocked' <=> HeadBlocks')
    BY BlockedIsHead, PTL
  <2> QED BY <2>1, <2>2, <2>3, BlockedStep
<1> QED BY <1>1, QInvariant, PTL DEF Spec, BlockedForGood
=============================================================================
