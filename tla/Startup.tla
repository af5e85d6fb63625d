-------------------------------- MODULE Startup --------------------------------
(***************************************************************************)
(* The start of the server around the pull_updates task of GitRepo: the    *)
(* main thread (cli/Cli.h, the plugins in the order of config.json), the   *)
(* database client's thread, the HTTP thread and the tasks that query the  *)
(* database.  They share the working directory, which pull_updates changes *)
(* as soon as it has been launched, and the client's queue of statements.  *)
(*                                                                         *)
(* config.json has the client open ../db/blog.db; the database manager     *)
(* prepares db/blog.db in the working directory, or the file that          *)
(* SQLITE_DATABASE_PATH or its own configuration names.  A database is     *)
(* told by the directory that its directory "db" is in.                    *)
(***************************************************************************)
EXTENDS GitRepo, Sequences, FiniteSets, Functions

CONSTANTS
  Place,          \* the directories a directory "db" may be in
  parent,         \* parent[d] is the directory d/..
  Tables,         \* the tables, in the order in which they are created
  ByHand          \* bound: where somebody may make a directory "db"

ASSUME PlaceAssumption == /\ Dir \subseteq Place
                          /\ parent \in [Dir -> Place]
                          /\ ByHand \subseteq Place

(* No table is called like a step of the start, a task or a handler.       *)
ASSUME TablesAssumption ==
  Tables \in Seq(STRING \ {"loggers", "client", "prepare", "return", "task_manager",
                           "listen", "task", "handler"})

Table == Range(Tables)

(* What the database manager is told to prepare: nothing, the file the     *)
(* client opens, or one that is there already (the Dockerfile's            *)
(* SQLITE_DATABASE_PATH is a directory).                                   *)
DatabasePath == {"", "../db/blog.db", "somewhere"}

VARIABLES
  database_path,  \* one of these
  by_hand,        \* the places where somebody has made a directory "db"
  blog,           \* per place, what db/blog.db is there
  env_log_dir,    \* BLOG_API_LOGGING_DIR as the process finds it, none or one
  log_dir,        \* the same variable in the process's environment
  logs,           \* the directories in which log files have been created
  started,        \* how many steps of the start have been made
  server,         \* "up", "stopping" or "stopped"
  client,         \* the place whose database the client has opened, none or one
  queue,          \* the client's statements: tables to create, and who asks
  executed,       \* the tables whose CREATE TABLE has been executed or failed
  task,           \* the task that has the mutex: "none", "running", "waiting"
  handler         \* the HTTP thread: "none", "waiting", "answered"

disk_of_db == <<database_path, by_hand, blog, env_log_dir>>
process == <<log_dir, started, server, client, queue, executed, task, handler>>
startup == <<disk_of_db, logs, process>>
all == <<vars, startup>>

StartupInit == /\ Init
               /\ urls = {"REPO_URL"}
               /\ database_path \in DatabasePath
               /\ by_hand = {}
               /\ blog = [p \in Place |-> "none"]
               /\ env_log_dir \in NoneOrOne(Paths)
               /\ logs = {}
               /\ log_dir = env_log_dir
               /\ started = 0 /\ server = "up"
               /\ client = {} /\ queue = <<>> /\ executed = {}
               /\ task = "none" /\ handler = "none"

Alive == pc # "terminated" /\ server # "stopped"

-----------------------------------------------------------------------------
(* The disk.                                                               *)

HasDbDirectory(p) == p \in by_hand \/ blog[p] # "none"

Openable(p) == HasDbDirectory(p) /\ blog[p] # "directory"

(* Slip, or what was meant: creates the parent directory, then the file.   *)
create_file_in_directory(p) ==
  blog' = [blog EXCEPT ![p] = IF @ = "none" THEN "file" ELSE @]

(* Where the parent directory is missing, the directories made are those of*)
(* the whole path, the file's name included.                               *)
create_file_at_path(p) ==
  blog' = [blog EXCEPT ![p] = IF ~HasDbDirectory(p) THEN "directory"
                              ELSE IF @ = "none" THEN "file" ELSE @]

MakeDbDirectory ==
  /\ \E p \in ByHand : ~HasDbDirectory(p) /\ by_hand' = by_hand \cup {p}
  /\ UNCHANGED <<vars, database_path, blog, env_log_dir, logs, process>>

-----------------------------------------------------------------------------
(* The main thread.                                                        *)

(* Slip: the task manager stands before the database manager.              *)
TasksFirst == <<"loggers", "client", "task_manager", "prepare">> \o Tables
              \o <<"return", "listen">>

(* The command line's loggers; then, in drogon's run(), the database       *)
(* clients, the plugins in the order of config.json, and the listener.     *)
StartOrder == <<"loggers", "client", "prepare">> \o Tables
              \o <<"return", "task_manager", "listen">>

Done(step) == \E i \in 1 .. started : StartOrder[i] = step

Start(step) ==
  /\ Alive /\ server = "up"
  /\ started < Len(StartOrder) /\ StartOrder[started + 1] = step
  /\ started' = started + 1

(* Slip: does not fix the directory for the loggers to come.               *)
LoggerFactoryWithoutEnv ==
  /\ log_dir' = log_dir
  /\ logs' = logs \cup (IF log_dir = {} THEN {cwd} ELSE log_dir)

(* Whoever makes the first logger fixes the directory for all.             *)
LoggerFactory ==
  LET logs_output_directory == IF log_dir = {} THEN {cwd} ELSE log_dir IN
  /\ log_dir' = logs_output_directory
  /\ logs' = logs \cup logs_output_directory

MakeLoggers ==
  /\ Start("loggers")
  /\ LoggerFactory
  /\ UNCHANGED <<vars, disk_of_db, server, client, queue, executed, task,
                 handler>>

PrepareDatabase ==
  /\ Start("prepare")
  /\ \/ database_path = "" /\ create_file_at_path(cwd)
     \/ database_path = "../db/blog.db" /\ create_file_at_path(parent[cwd])
     \/ database_path = "somewhere" /\ UNCHANGED blog
  /\ UNCHANGED <<vars, database_path, by_hand, env_log_dir, logs, log_dir, server,
                 client, queue, executed, task, handler>>

(* The coroutine runs up to its first suspension: the statement is queued. *)
CreateTable ==
  /\ \E t \in Table : Start(t) /\ queue' = Append(queue, t)
  /\ UNCHANGED <<vars, disk_of_db, logs, log_dir, server, client, executed, task,
                 handler>>

OtherSteps ==
  /\ \E s \in {"client", "return", "task_manager", "listen"} : Start(s)
  /\ UNCHANGED <<vars, disk_of_db, logs, log_dir, server, client, queue, executed,
                 task, handler>>

-----------------------------------------------------------------------------
(* The database client's thread.  A connection that cannot be opened is    *)
(* tried again every second, and queries wait without a timeout.           *)

Open ==
  /\ Alive /\ Done("client") /\ client = {}
  /\ Openable(parent[cwd])
  /\ client' = {parent[cwd]}
  /\ blog' = [blog EXCEPT ![parent[cwd]] = "file"]
  /\ UNCHANGED <<vars, database_path, by_hand, env_log_dir, logs, log_dir, started,
                 server, queue, executed, task, handler>>

NextStatement(s) == Alive /\ client # {} /\ queue # <<>> /\ Head(queue) = s
                    /\ queue' = Tail(queue)

(* Where the statement fails, the coroutine logs the error with the loggers*)
(* initAndStart() has on its stack: after its return, anything may happen. *)
ExecuteCreate ==
  /\ \E t \in Table : NextStatement(t) /\ executed' = executed \cup {t}
  /\ \/ UNCHANGED vars
     \/ Done("return") /\ Terminate
  /\ UNCHANGED <<disk_of_db, logs, log_dir, started, server, client, task, handler>>

AnswerTask ==
  /\ NextStatement("task")
  /\ task' = "running"
  /\ UNCHANGED <<vars, disk_of_db, logs, log_dir, started, server, client, executed, handler>>

AnswerHandler ==
  /\ NextStatement("handler")
  /\ handler' = "answered"
  /\ UNCHANGED <<vars, disk_of_db, logs, log_dir, started, server, client, executed, task>>

-----------------------------------------------------------------------------
(* The tasks: pull_updates and find_posts' initialize() as in GitRepo; any *)
(* other run holds the mutex while it waits for its queries.               *)

MutexIsFree == Alive /\ Done("task_manager") /\ task = "none"

(* pull_updates' thread sees that the group stops before each run.         *)
PullUpdatesStep ==
  /\ Task
  /\ pc = "initialized" => (pc' = "stopped" <=> server = "stopping")
  /\ pc = "idle" => server = "up"

GitStep ==
  /\ MutexIsFree
  /\ PullUpdatesStep \/ FindPostsInitialize
  /\ UNCHANGED startup

BeginRun ==
  /\ MutexIsFree /\ server = "up"
  /\ find_path # {} /\ pc \in {"waiting", "idle", "stopped"}
  /\ task' = "running"
  /\ UNCHANGED <<vars, disk_of_db, logs, log_dir, started, server, client, queue,
                 executed, handler>>

(* A mapper's query, .get() on its future.                                 *)
AskAsTask ==
  /\ Alive /\ task = "running"
  /\ task' = "waiting"
  /\ queue' = Append(queue, "task")
  /\ UNCHANGED <<vars, disk_of_db, logs, log_dir, started, server, client, executed,
                 handler>>

EndRun ==
  /\ Alive /\ task = "running"
  /\ task' = "none"
  /\ UNCHANGED <<vars, disk_of_db, logs, log_dir, started, server, client, queue,
                 executed, handler>>

-----------------------------------------------------------------------------
(* The one HTTP thread, which blocks on a mapper's future as tasks do.  A  *)
(* response's headers come with a new LoggerFactory, query or no query.    *)

Handle ==
  /\ Alive /\ server = "up" /\ Done("listen") /\ handler = "none"
  /\ handler' = "waiting"
  /\ queue' = Append(queue, "handler")
  /\ UNCHANGED <<vars, disk_of_db, logs, log_dir, started, server, client, executed,
                 task>>

setHeaders ==
  /\ Alive
  /\ \/ handler = "answered"
     \/ handler = "none" /\ server = "up" /\ Done("listen")
  /\ LoggerFactory
  /\ handler' = "none"
  /\ UNCHANGED <<vars, disk_of_db, started, server, client, queue, executed, task>>

-----------------------------------------------------------------------------
(* The end: shutdown() waits for the tasks, and they for their queries.    *)

Shutdown ==
  /\ Alive /\ server = "up" /\ Done("listen")
  /\ server' = "stopping"
  /\ UNCHANGED <<vars, disk_of_db, logs, log_dir, started, client, queue, executed,
                 task, handler>>

Stopped ==
  /\ Alive /\ server = "stopping"
  /\ task = "none" /\ find_path # {} /\ pc \in {"idle", "stopped"}
  /\ server' = "stopped"
  /\ UNCHANGED <<vars, disk_of_db, logs, log_dir, started, client, queue, executed,
                 task, handler>>

StartAgain == /\ Restart
              /\ UNCHANGED <<disk_of_db, logs>>
              /\ log_dir' = env_log_dir
              /\ started' = 0 /\ server' = "up"
              /\ client' = {} /\ queue' = <<>> /\ executed' = {}
              /\ task' = "none" /\ handler' = "none"

Answer == Open \/ ExecuteCreate \/ AnswerTask \/ AnswerHandler

MainThread == MakeLoggers \/ PrepareDatabase \/ CreateTable \/ OtherSteps

StartupNext ==
  \/ MakeDbDirectory
  \/ MainThread
  \/ Answer
  \/ GitStep \/ BeginRun \/ AskAsTask \/ EndRun
  \/ Handle \/ setHeaders
  \/ Shutdown \/ Stopped
  \/ StartAgain

StartupSpec == StartupInit /\ [][StartupNext]_all

(* Threads run; people need not make directories, stop or restart anything,*)
(* and nobody needs to ask.                                                *)
StartupFairness == /\ WF_all(MainThread) /\ WF_all(Answer) /\ WF_all(GitStep)
                   /\ WF_all(EndRun) /\ WF_all(setHeaders) /\ WF_all(Stopped)

StartupFairSpec == StartupSpec /\ StartupFairness

-----------------------------------------------------------------------------
(* Properties                                                              *)

(* Nobody waits for the coroutines that create the tables (initAndStart()  *)
(* has returned, the tasks run and requests are served), and still no      *)
(* query reaches the database before every table's statement has.          *)
NoQueryBeforeItsTables ==
  client # {} /\ queue # <<>> /\ Head(queue) \in {"task", "handler"} =>
    executed = Table

(* Whatever the database manager has prepared, it is never what the client *)
(* opens: without a directory "db" made by hand, create_file_at_path()     *)
(* makes a directory of the name of the file.                              *)
OpensWhatWasMadeByHand == client \subseteq by_hand

(* The client opens a path relative to the working directory, on a thread  *)
(* of its own, again and again until it succeeds.  Only between git fetch  *)
(* and the first pull of a start (or until the end, if the group is        *)
(* stopped there) can it find another database than the one beside the     *)
(* process's home.                                                         *)
OpensElsewhereOnlyBeforeTheFirstPull ==
  [][client' # client /\ client' \notin {{}, {parent[home]}} =>
       pc \in {"enter_checkout", "initialized", "stopped"}]_all

(* Loggers are made on every thread and in whatever working directory the  *)
(* process is in at that moment, and all log to one directory, also after  *)
(* a restart.                                                              *)
LogsStayTogether == Cardinality(logs) <= 1

(* A task that waits for the database, without a timeout and with the      *)
(* group's mutex, is answered once the database can be opened at home,     *)
(* whatever pull_updates does to the working directory; so is a request,   *)
(* under which pull_updates goes on, as long as the server is not told to  *)
(* stop; unless the process ends or is started again.                      *)
WaitersAreAnswered ==
  /\ task = "waiting" /\ Openable(parent[home]) ~> task # "waiting" \/ ~Alive
  /\ handler = "waiting" /\ Openable(parent[home]) ~>
       handler # "waiting" \/ server # "up" \/ ~Alive
=============================================================================
