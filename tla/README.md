# A verification project for personal_blog_api

`personal_blog_api` is a small C++ server (drogon, SQLite) for a blog whose posts
live as files in a git repository. Background tasks pull that repository, find
new post files, convert them and fill three tables; HTTP handlers read the
tables. This directory holds TLA+ models of the server's own concurrent and
stateful parts, TLC configurations that check them on small instances, and
TLAPS proofs for every size.

## 1. The system

| part | source | state | operations | hard because |
|---|---|---|---|---|
| message cache | `utilities/storage/quick_store.h` | two parallel vectors, ring position, allocation count | `store`, `index`, `get`, `remove`, `iter` | the count never goes down, so a drained ring is overwritten out of bounds; `remove` of an absent key erases past the end |
| dispatcher | `utilities/storage/Dispatcher.h` | subscriber list | `subscribe`, `send` | `send` writes into other tasks' caches in the sender's thread |
| task group | `plugins/tasks/TaskGroup.h` | threads, one mutex, one condition variable, an atomic flag | `addTask`, `runStaggered`, `stop` | mutual exclusion through `wait_for`, a flag cleared without the mutex, lost notifications, `initialize` outside the `try` |
| task manager, registry | `task_TaskManager.cc`, `TaskRegistry.h` | the group, tasks sorted by `task_order` | `initAndStart`, `shutdown` | the wiring is a list of names |
| post tasks | `plugins/tasks/types/post/*Task.h` | one cache each, run-local lists | `run`, `receive` | seven stages, each a volatile queue in front of a persistent table; exceptions, restarts, arbitrary order |
| repository updates | `types/repo/PullUpdates.h`, `types/repo/git/*` | `config.repo_path`, the process's working directory | `clone`, `fetch`, `checkout`, `pull` | the working directory is shared by all threads |
| markdown parser | `types/post/parser` | a stack of open block parsers per document | `Parse`, `AddLine`, `parseBlock` | nested lists and quotes end each other by markers; what is open at the end |
| database plugin | `plugins/db/tasks` | the tables | creation at start | nobody waits for the coroutines; they outlive the scope they refer to; the file prepared is not the file opened |
| HTTP controllers | `controllers/api/v1` | none | read-only queries | several queries per answer |
| command line, start | `cli`, `config.json` | which steps of the start are made | start, shutdown | other threads are running by then, and one of them changes directory |
| CORS, logging, paths | `plugins/global`, `utilities` | an environment variable, files | `setHeaders`, `LoggerFactory`, `create_file_at_path` | made on every thread, in whatever directory the process is in |
| JWT | `plugins/auth` | none | none | empty |

How they interact. `main` runs the command line, which starts drogon and its
plugins. The database plugin creates the tables; the task manager builds the
tasks, subscribes to each task the ones it names in `task_dependents`, and
launches the group: one thread per task, all sharing one mutex. A task's `run()`
calls `send(key, (action, text))`, which calls `receive()` on every subscriber at
once, which stores the pair in the subscriber's QuickStore. The subscriber's own
next `run()` copies its keys, handles the messages meant for it and removes the
ones it has processed:

    find_posts -LOAD_POST-> load_posts -SAVE_POST-> save_posts -PROCESSED_POST->
    find_metadata -LOAD_METADATA-> load_metadata -SAVE_TAGS, SAVE_CATEGORIES->
    save_tags and save_categories

(In the code the first arrow is missing, see section 6.)

What makes each part correct:

- message cache: what a key shows is what was last stored under it; what can be
  lost, and when; its counters agree with its vectors;
- task group: task code is serial; threads leave only at shutdown; shutdown
  completes; every task keeps running; the tasks outlive their threads;
- post tasks: rows only refer to rows that are there, come from the right files,
  and come in the end; what a failure or a restart costs;
- HTTP controllers: an answer put together from several queries is consistent
  enough to be believed, whatever is inserted meanwhile; pages miss nothing;
- markdown parser: bodies are well formed, and what the author wrote is in them;
- start: no query comes before its table; the database opened is the one beside
  the process's home, the logs go to one place, and whoever waits for the database
  is answered once it can be opened;
- repository updates: the other tasks always find the process at home; commands
  run where they should; the clone is kept up to date (it is not).

`PROJECT.json` lists the hazards one by one, at their lines, with the properties
that cover them.

## 2. The modules

| module | models | extends |
|---|---|---|
| `QuickStoreOps` | the operations of a QuickStore as operators on a record | |
| `LossyMap` | abstract: a map that may lose things | |
| `QuickStore` | one store and its owner; implements `LossyMap` | `QuickStoreOps` |
| `QuickStoreLemmas`, `QuickStoreProofs` | lemmas on the operators; theorems | `QuickStore` |
| `SerialRunner` | abstract: tasks run one at a time | |
| `TaskGroup` | threads, mutex, condition variable; implements `SerialRunner` | |
| `TaskGroupProofs` | theorems | `TaskGroup` |
| `BlogLedger` | abstract: three tables that only grow by sound rows | |
| `PostPipeline` | the seven tasks, their caches, the tables; implements `BlogLedger` | `QuickStoreOps` |
| `PostPipelineProofs` | theorems | `PostPipeline` |
| `StaggeredPipeline` | the same when the tasks take turns; liveness | `PostPipeline` |
| `GitRepo` | `pull_updates` and the working directory | |
| `GitRepoProofs` | theorems | `GitRepo` |
| `Startup` | the start, the database client, the HTTP thread and the shutdown around `pull_updates` | `GitRepo` |
| `StartupProofs` | theorems | `Startup`, `GitRepoProofs` |
| `MarkdownBlocks` | from the lines of a Markdown file to the body of a post | |
| `MarkdownBlocksProofs` | theorems | `MarkdownBlocks` |
| `PostsApi` | the HTTP handlers as readers of a `BlogLedger` that grows | `BlogLedger` (instance) |
| `PostsApiProofs` | theorems | `PostsApi` |
| `MC*` | small instances | |

### QuickStoreOps, QuickStore

A store is a record: `entries` (the vectors `keys` and `values`, which always
change together), `current_item_idx`, `current_allocations`, and `health`. Two
calls leave the vectors' bounds, and C++ leaves undefined what they do;
`StoreOutcomes` and `RemoveOutcomes` therefore return the *set* of stores that
can result with the vectors of libstdc++:

- `store` of a new key after the ring has wrapped, into a slot beyond the
  shrunken vector: the assignment goes to reserved memory (lost), or hits a
  string that was already freed (the process aborts);
- `remove` of an absent key: `erase(end, end + 1)` drops the last element; on an
  empty vector the end falls before the beginning (`"corrupt"`: copying it
  throws, scanning it runs off) or the process dies.

`QuickStore` adds an owner that stores and removes whatever it likes, and
history variables that remember what it asked for. `cache_size` is a constant of
the class (100), whatever size the constructor is given; here it is a parameter.

### TaskGroup

`main` is the position of the main thread, `pc[t]` that of task `t`'s thread.
`wait_for` with a predicate is modelled as the library performs it: test,
sleep (releasing the mutex), wake by notification, timeout or spuriously,
reacquire, test again; a notification reaches only the threads asleep at that
moment. `run_tasks` starts with any value, since the member has no initialiser.
Task code is one step from its beginning (`"initialize"`, `"run"`, `"stop"`) to
its return; what it does is `PostPipeline`'s and `GitRepo`'s subject. Durations
are left out: a sleep may time out at any moment.

### PostPipeline

`repo` is what the posts directory holds, `Posts`, `Tags` and `Categories` are the
tables, `caches[t]` is task `t`'s QuickStore, and `run` holds the task that is in
its `run()` together with that call's local variables (`todo`, the keys still to
come; `found`, the files or items of an inner loop; `processed`, the keys to be
removed at the end). Each file, message or row is a step of its own, so edits,
failing queries and restarts fall between any two of them. One run at a time is
not an assumption but `TaskGroup`'s theorem `MutualExclusion`.

Paths, contents, bodies and names are one set `Text`, since the same cache is
keyed by paths and by contents; what the code computes from them (`NameOf`,
`Below`, `split`, `parse`) are constant functions, with the whole of maddy behind
`parse`. A uuid is any one not in the table yet. `created` and `updated` columns,
log lines and counters for log lines are left out. So is the query `find_posts` makes
for a file that is not a post: its answer is not used, and when it fails the run
ends as it does when the query of the next post fails, or when no post is left. The
UNIQUE constraints are the ones of `db_tasks_DatabaseManager.h`.

`task_dependents` is a constant. `Shipped` is what the constructors say;
`Connected` adds the one subscription that is missing for anything to happen,
and the properties of the chain are checked under it.

### StaggeredPipeline

`runStaggered()` launches the threads one interval apart in the order of their
ids and gives all the same period, so that they take turns as long as runs are
short compared with the period. The turn is the only thing added; nothing fails
here and files only appear. This is the setting in which the pipeline can be
expected to deliver, and liveness is checked in it. Nothing in the code holds the
tasks to this order for ever (the period starts when a run ends), so all safety
properties are checked under every order.

### GitRepo

`setRepoPath(p)` changes into the stored path and *then* stores `p`; `repo_path`
and `cwd` follow that through clone, fetch, checkout and pull. The configuration
(where url and path come from, the branch) and the disk (which directories
exist) are arbitrary at the start and survive restarts; clone, pull and `popen`
may fail. `paths` says which path, if any, each of three places gives: the section of
`pull_updates`, the section of `find_posts` and `REPO_PATH`. Both tasks look into their
own section first and then at `REPO_PATH` (`RepoPath`), so that they may be given
different directories; `FindPostsSearchesTheClone` says when they still agree, and
names the configurations in which they need not. A configured path stands for the
directory it names when it is resolved at home.

### Startup

The threads that are not under the group's mutex, composed with `GitRepo`: the main
thread walks through `StartOrder` (the command line's loggers, the database client,
the database manager with one step per table, the task manager, the listener), the
client's thread opens its file and executes the statements of one queue, the one
HTTP thread serves requests and makes loggers for every response, and a task that
is not `pull_updates` runs and waits for its queries with the mutex. They meet in
`cwd`, which the actions of `GitRepo` change. A database is told by the directory
that its directory `db` is in; `blog` says whether `db/blog.db` is a file or (see
`create_file_at_path`) a directory. The order in which drogon creates clients,
plugins and listeners, and its client's retries, are external and modelled as the
code relies on them. A statement that fails after `initAndStart()` has returned
makes its coroutine use that call's loggers; the process may die of it.

### MarkdownBlocks

`parsers` is the stack of open block parsers; `level` and `phase` say which of them
has the line and whether it is on its way down to a child or back. `AddLine`,
`AddQuoteLine` and `AddTableLine` are the three implementations of `AddLine()`,
`ParseListLine`, `ParseCodeLine` and the others the `parseBlock()` of each kind,
`Return` what the caller does with a parser that has, or has not, finished. A line
is a sequence of marks followed by words, and every line's words are its number, so
that a word lost, repeated or moved can be told. The properties are about elements
and words; emphasis, links and other markup inside a line is left out, and so are
files with CRLF line ends, in which no line looks empty to the parsers.

### PostsApi

A handler is a sequence of queries: one that chooses the rows (for a search, two:
the tags that match, then the posts), then two for every post in the answer.
`reader` is where it stands and its local variables. Between two queries the
ledger may take any of its steps, and any query may fail: the first ones turn the
reply into a 404, the later ones leave an error in the entry. The handlers share
nothing but the tables, so one client is enough; it may turn the pages of an
answer, and `session` remembers what was in the tables when it began.
`created` is kept because it is the default sort column and its values are
not distinct; `updated` equals it, since no row is ever updated. Names, ids and
bodies are ordered by the constant `rank`. That the writers are no more than
`BlogLedger` is the property `ImplementsLedger` of `PostPipeline`.

## 3. The runs

| run | instance | states | what it shows |
|---|---|---|---|
| `quick_store` | 4 keys, 2 values, ring of 3 | 8 652 | types, ring, freshness, losslessness until the ring is full, stall afterwards, refinement of `LossyMap` |
| `task_group` | 3 tasks, two of which may throw | 7 000 | mutual exclusion, safe erase, nobody leaves early, refinement of `SerialRunner`; shutdown completes, every task keeps running |
| `pipeline` | 2 posts, one with tags and categories, colliding and empty bodies, ring of 2 | 1 533 888 | metadata refers to posts that exist and comes from the right directory; bodies come from their files; blocked posts, worn-out caches, forgotten posts; refinement of `BlogLedger` |
| `pipeline_staggered` | 2 posts, 2 metadata files, ring of 4 | 2 774 | every post and its metadata are saved in the end |
| `markdown` | documents of up to 5 of 16 lines | 8 746 019 | bodies are well formed; no words are dropped between blocks; what empty lines and the end of the file end; when a table breaks |
| `git_repo` | all settings, with 2 paths that may be configured, 2 commits | 164 568 | the working directory, where `find_posts` searches, and that a clone is never updated |
| `startup` | all paths and branches, 3 tables, `db` made by hand in the right and in the wrong place | 663 952 | tables before queries; which database is opened, and when another one may be; one directory of logs; waiting tasks and requests are answered |
| `posts_api` | 2 posts, 3 tags, 2 categories, 14 requests | 556 466 | answers are between what was asked and what is there, searches show their match, MATCHING, pages miss nothing |
| `pipeline_shipped`, `pull_target`, `configured_url`, `markdown_unfinished` | | | the findings of section 6 |

The bounds. A ring needs one key more than slots to wrap, and three slots to
tell "first", "last" and "other" apart (`quick_store`); the pipeline's rings have two
so that they wrap and wear out within a few files. Three threads are enough for one
to hold the mutex while another sleeps and a third waits for it; the group's safety
is proved for every number. Two posts are enough for one to
block or to be confused with the other; one content of two items is enough for
`save_tags` to remove keys it does not hold. Nothing else is bounded there: the tables
are finite because names are unique, `created` is counted up to `cache_size + 1`
(only "more than `cache_size`" matters), and `MaxCommits` = 1 gives an old and a
new commit. In `PostsApi` two posts and pages of one row are the least for a row
to move from one page to another, and "x" on both posts with "y" on one tells the
filters apart. Five lines (`MaxLines`) are the least in which a table gets a head, a
separator, another row and its end, and a nested list can begin, continue and be
closed by an outer item or an empty line; deeper nesting repeats the same hand-over
between a parent and its child. In `Startup`, `ByHand` bounds where somebody makes a
directory `db`: above the process's home, where the client is meant to look, and in
the home, where it looks during an excursion of `pull_updates`; commits do not matter
there (`MaxCommits` = 0), nor does a path in `find_posts`' section, which that run leaves
out (`MCSpec`); the theorems about `Startup` include it. In `GitRepo`, two paths that may
be configured are enough for any two of the three places to agree or to differ.
Deadlock is not checked where the program really stops (an
aborted process in `QuickStore`, an erased or terminated group, a document's end).

Every property has a mutant: a definition of the model is replaced by what a
plausible slip would make of it (they are the operators marked "Slip" next to
the definitions), and the run must then find the property violated.

## 4. Fairness

`TaskGroup`: the main thread and every thread that can take a step are
eventually scheduled, task code returns, a wait times out in the end, and the
mutex is eventually granted to a thread that finds it free again and again. The
last two are strong fairness: a deadline is fixed when `wait_for` is entered, so
spurious wake-ups do not postpone it; and between two runs of a thread lies a
sleep of the whole period. Nothing forces a shutdown. `StaggeredPipeline`: weak
fairness of the tasks' steps, which is what `EveryTaskKeepsRunning` delivers.
Nobody is forced to write files. `Startup`: weak fairness of every thread's own steps
(the main thread, the client, which tries again every second, `pull_updates`, a task
that runs, the HTTP thread); nobody is forced to send a request, to make a directory,
to stop or to restart the server. `TaskGroup`'s assumption that task code returns
rests on `WaitersAreAnswered`, and so on a database that can be opened: until it can,
a task waits with the mutex and everything behind it stands still, the shutdown
included.

## 5. The proofs

All theorems hold for every value of the constants that satisfies the named
assumptions (`CacheSizeAssumption`: the ring has a slot; `NumTasksAssumption`:
there is a task; `MayThrowAssumption`: the tasks that may throw are tasks;
`DirAssumption` and `PlaceAssumption`: home and the paths that may be configured are
directories, and each directory has a `posts` and a parent; `TablesAssumption`: the tables are names that no
step of the start, task or handler has; `TextAssumption`: the directory has finitely
many paths, and a path is a text that has a name, contents and files beside it;
`DependentsAssumption`: tasks depend on tasks; `RowAssumption` and `RankAssumption`:
the rows have their columns, and those that order pages have ranks;
`RequestAssumption`: a request is one a handler can be given; `LineAssumption`: a line
consists of words and of the marks the parsers look for, and holds none of the tags
they write; `WordAssumption`: words are neither tags nor marks; `BoxAssumption`: no line ends with
the box of an empty checklist item, for which the code writes a tag that the model
leaves out). Two groups of theorems
have a hypothesis of their own, named and explained below.

- `QuickStoreProofs`: `TypeCorrect`, `RingCorrect`, `Fresh`, `Lossless`, `Stalls`,
  `Refinement`. The
  inductive invariant joins types, `RingOK` and freshness: freshness alone is not
  inductive, since overwriting a slot keeps other keys fresh only when no key
  occurs twice. Losslessness needs in addition that, until the ring is full, every
  allocation is a creation. `QuickStoreLemmas` states what each operator does to
  the entries (`StoreProps`, `RemoveProps` and the lemmas they rest on); both are
  case analyses over the outcomes, the undefined ones included. The refinement maps
  a store to the function from its keys to their values. It needs that no key occurs
  twice (`RingOK`); then each outcome of `store` is the abstract one that displaces at
  most one other key, or loses the new one, and each outcome of `remove` the abstract
  one that removes the key, or a key that nobody asked to remove.
- `TaskGroupProofs`: `TypeCorrect`, `MutualExclusion`, `SafeErase`, `Steadfast`,
  `Refinement`. The invariant says that a thread between `"testing"` and `"stop"`
  owns the mutex (and, with it, that at most one does), and that the flag, the
  main thread's position and the threads' agree: a thread is past its loop only
  after the flag has been cleared, and all joined threads have exited. The
  refinement to `SerialRunner` maps "inside task code" to the abstract active task,
  and shows, action by action, a step of the runner or a stutter.
- `GitRepoProofs`: `TypeCorrect`, `Home`, `SameDirectory`, `DirectoriesExist`, `Frozen`.
  That the process is at home is not inductive, because each change of directory
  uses the path of the one before. The invariant follows the stored path: up to
  the first `setRepoPath` it is the clone's directory and the process is at home,
  from then on it is home, and the process is away only from that first call to the
  next one. For `SameDirectory` it says which directory each task has chosen (`Chosen`);
  the two choices are compared by cases over the places that give a path. `Frozen`
  needs also that nothing is ever cloned at home; it assumes that the process's home
  itself is not a repository path (there, pulls do work).
- `PostPipelineProofs`, for all files, contents, subscriptions of the tasks, ring sizes,
  failures and restarts: `MessagesAreTrue`, `TypeCorrect`, `BodiesAreFromFiles`,
  `MetadataIsInPlace`, `NoOrphans`, `TasksKeepTheLedger` (the refinement of `BlogLedger`),
  `ForgottenPostsStayForgotten`, `WornOutStaysWornOut`, `BlockedStaysBlocked`. What the
  tables hold is right only because what is still on its way is, so the inductive
  invariant says of every cache which messages it may hold, and that *each message is
  true of the key it is stored under*: under a path, a post read from that path (or
  from a file that has vanished); under the text of a metadata file, items of that
  text for posts beside such a file, and so on (`CachesOK`). `RunOK` says the same of
  what a run has set aside between two of its steps, since a file or a cache may
  change in between. A key may be overwritten, lost or removed by a call out of bounds
  without disturbing this, which is why it carries over all of `QuickStoreLemmas`'
  outcomes. `ForgottenForGood` follows because a post that no message and no run
  mentions is mentioned by no later one: `load_metadata` learns of posts only from
  `save_posts`, which announces each post once. `WornOutForGood` and `BlockedForGood`
  speak of `save_posts`' queue; they assume that only `load_posts` sends to
  `save_posts` (`SentByLoadPosts`, true of the shipped subscriptions and of any in
  which each kind of message goes to the task that reads it), and `BlockedForGood` needs
  two more invariants: the queue holds what `load_posts` sent (`SaveQueue`), and what a
  run of `save_posts` has still to do is a suffix of its queue (`Suffix`).
- `PostsApiProofs`, for all tables, requests and writes between two queries:
  `AnswersAreRight`, `TypeCorrect`, `EachWithItsOwn`, `SearchesShowTheMatch`,
  `MatchingExcludes`, `NotFoundIsTrue`, `PagesAreComplete`. A handler's queries see
  different states of the database. The invariant therefore bounds what each query
  can have returned between what the client had seen when it began (`session.seen`)
  and the tables now, part by part of the handler: which rows were matched, which
  posts are still to be completed, which lists have been attached. `PagesAreComplete`
  is the proof that turning pages misses nothing while rows are inserted: if a row
  due to the client has not been shown, it comes after the last page turned, or is on
  the page at hand (`PagesOK`), and then the next page cannot be empty (`NoMoreToDo`).
  It rests on lemmas about sorted sequences, proved by counting: a row's position is
  the number of rows before it, which inserts can only increase. It assumes that
  clients begin at the first page (`FromTheFirstPage`).
- `StartupProofs`: `RightDatabase`, `MadeByHand`, `OneLogDirectory`,
  `TablesBeforeQueries`, for all directories and tables. The part of GitRepo's
  invariant that concerns directories carries over (`DirInv`; the part about the two
  tasks' choices does not, since here a failing statement may end the process at any
  moment). The log directory is fixed by the first step of the start, before which
  no task and no request runs and the process is at home. For the tables, every
  statement whose step of the start is done is executed or in the queue, and every
  asker in the queue has each table's statement executed or before it.

- `MarkdownBlocksProofs`, for documents of any length made of any lines:
  `ParsersAgree` (the inductive invariant), `BodiesAreWellFormed`, `WordsAreKept`,
  `BlocksEnd`, `TablesBreakOnlySo`. None of these is inductive by itself, since what a
  body will be is spread over the stack of open parsers and the line on its way. The
  invariant says which kinds may be nested in which (`ShapeOK`); at which point of a
  line's way down and up each parser is started or finished (`FlagsOK`); that the
  parsers' results *behave as their nesting demands*: the outcome of each leaves open
  exactly the elements its kind still has to close, and a list that ends has put its
  children's ends in front of the line it hands on (`HtmlOK`); that the words of all
  lines read are, in order, in the output, in the open parsers from the outermost in,
  and in the line on its way (`WordsOK`); how many blocks a table has, and which lines
  it has seen (`TableOK`); and that a run of empty lines has cost an equal number of
  quotes, of which no line can open more than it has marks (`QuotesOK`, `EmptyOK`).
  `Concat` and `OpenElements` are recursive functions over sequences. The prover's
  library of induction cannot be used, so what is needed of them (how they treat a
  concatenation, an element, an appended token) is proved by contradiction from the
  smallest position at which it fails (`Smallest`).

Only model-checked: liveness and anything under fairness (`ShutdownCompletes`,
`EveryTaskKeepsRunning`, `EveryPostIsSaved`, `MetadataFollows`, `WaitersAreAnswered`),
which the prover cannot treat, and the properties that the code violates, of which
the runs show counterexamples.

## 6. Findings

1. `FindPostsTask` names no dependents (`FindPostsTask.h:42`), so its messages reach
   nobody and no post is ever saved (run `pipeline_shipped`).
2. `setRepoPath` uses the old path (`git.h:225`): `git pull` runs in the directory the
   server was started in (run `pull_target`), and no clone is ever updated
   (`ClonesNeverChange`, which holds).
3. The shipped `config.json` gives the repository url under `initialize_repo`, but the
   group looks it up under the task's name, `pull_updates`; without `REPO_URL` the
   process terminates (run `configured_url`).
4. `Parse()` means to finish all parsers at the end of a document (`parser.h:104`), but
   the empty line it gives them finishes no code block, no table, and no quote whose
   paragraph takes the line: a document that ends with a quote loses the quote (run
   `markdown_unfinished`; `NothingIsDropped` says that nothing else is lost).

Other behaviour the properties pin down, which a maintainer may want to change:
a path configured for `pull_updates` alone is unknown to `find_posts`, and the other way
round: each searches, or clones into, its own (`FindPostsSearchesTheClone`); a post
that cannot be inserted blocks all others until a restart
(`BlockedForGood`); a restart between a post and its metadata loses the metadata
for good (`ForgottenForGood`); a vanished file is saved as an empty post
(`BodyIsItsFiles`); a cache stops growing after a hundred new keys over the life
of the process (`NeverRegrows`), and since `load_posts` reads a file that cannot be
saved again and again, one such file wears its cache out, after which no post is
saved any more (`WornOutForGood`); an empty line inside a quote ends its paragraph but
not the quote, which swallows what follows until a second one (`EmptyLinesEndBlocks`);
two separators in a row make a table write out of bounds, and since `find_posts`
offers the file again after a restart, the server dies again (`BrokenTables`); without a
directory `db` made by hand, the server makes a *directory* `blog.db` and never opens
a database, and what the database manager prepares is not what the client opens
(`OpensWhatWasMadeByHand`); a client that keeps trying may open a database inside the
wrong directory while `pull_updates` is out (`OpensElsewhereOnlyBeforeTheFirstPull`); a metadata file with two items makes its saver
remove keys its cache does not hold (`RemoveOutcomes`); a `MATCHING` search does not
ask for all the names but answers only when a single post has any of them
(`MatchingIsExclusive`); pages sorted by `created`, the default, may leave out
posts saved in the same second, while pages over a column without equal values
miss nothing (`PagesMissNothing`) but may repeat a post when one is inserted before it.

## 7. Not modelled, and the plan

Not modelled because there is nothing to check: what is logged, the two constant CORS
headers, the empty JWT plugin, the command line's options and `setup` (one pass that
writes a hashed secret to a file). Not modelled because it is not this system's own
code: the models that `drogon_ctl` generates from the tables, and the vendored
libraries (CLI11, jwt-cpp, picojson, bcrypt, dotenv with the ANTLR runtime), most of
which nothing calls. They are more than nine tenths of the lines of the repository,
so that a model of all the rest still covers a small share of it. Not modelled in
the markdown parser: the line parsers, a chain of regular expressions without state,
and `htmlparser.h`, which is not reached because `load_posts` configures HTML to be
wrapped in paragraphs. Without a caller: `setByIndex`, `last`, `pop`, `clear` and
`resize` of QuickStore, and `checkIfValidRepository`, `init` and `branch` of Git.

Every safety property that a passing run checks is also a theorem. The plan has left
only what is out of the prover's reach (section 5).
