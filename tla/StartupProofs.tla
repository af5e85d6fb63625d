----------------------------- MODULE StartupProofs -----------------------------
(***************************************************************************)
(* Theorems about Startup, for all directories, any tables in any order and*)
(* any directories "db" made by hand.                                      *)
(*                                                                         *)
(* GitRepo's invariant carries over, since the threads that Startup adds   *)
(* do not change directory; what they do in the directory they find follows*)
(* from it.  What concerns the tables follows from the order of the start  *)
(* and of the client's queue alone.                                        *)
(***************************************************************************)
EXTENDS Startup, GitRepoProofs, SequenceTheorems, FiniteSetTheorems

-----------------------------------------------------------------------------
(* The order of the start.                                                 *)

LEMMA StartOrderProps ==
  /\ Len(StartOrder) \in Nat
  /\ StartOrder[1] = "loggers"
  /\ \A i \in 1 .. Len(StartOrder) : StartOrder[i] \in {"task_manager", "listen"} =>
       \A t \in Table : \E j \in 1 .. i : StartOrder[j] = t
  /\ Table \cap {"loggers", "client", "prepare", "return", "task_manager", "listen",
                 "task", "handler"} = {}
<1> DEFINE before == <<"loggers", "client", "prepare">>
           after == <<"return", "task_manager", "listen">>
           n == Len(Tables)
           Name == STRING \cup {"loggers", "client", "prepare", "return", "task_manager",
                               "listen"}
<1>1. before \in Seq(Name) /\ after \in Seq(Name) /\ Len(before) = 3 /\ Len(after) = 3
  OBVIOUS
<1>2. Tables \in Seq(Name) /\ n \in Nat
  BY TablesAssumption, SeqMonotonic, LenProperties
<1>3. /\ before \o Tables \in Seq(Name)
      /\ Len(before \o Tables) = 3 + n
      /\ \A i \in 1 .. 3 + n : (before \o Tables)[i] =
                                 IF i <= 3 THEN before[i] ELSE Tables[i - 3]
  BY <1>1, <1>2, ConcatProperties
<1>4. /\ Len(StartOrder) = 6 + n
      /\ \A i \in 1 .. 6 + n : StartOrder[i] =
           IF i <= 3 + n THEN (before \o Tables)[i] ELSE after[i - (3 + n)]
  BY <1>1, <1>2, <1>3, ConcatProperties DEF StartOrder
<1>5. \A k \in 1 .. n : StartOrder[3 + k] = Tables[k]
  BY <1>2, <1>3, <1>4
<1>6. \A t \in Table : \E k \in 1 .. n : t = Tables[k]
  BY <1>2, LenProperties DEF Table, Range
<1>7. \A k \in 1 .. n : Tables[k] \notin {"loggers", "client", "prepare", "return",
                                         "task_manager", "listen", "task", "handler"}
  BY TablesAssumption, ElementOfSeq
<1>8. StartOrder[1] = "loggers"
  BY <1>2, <1>3, <1>4
<1>9. ASSUME NEW i \in 1 .. Len(StartOrder), StartOrder[i] \in {"task_manager", "listen"},
             NEW t \in Table
      PROVE  \E j \in 1 .. i : StartOrder[j] = t
  <2>1. PICK k \in 1 .. n : t = Tables[k]
    BY <1>6
  <2>2. i > 3 + n
    <3>1. ~(i <= 3)
      <4>1. SUFFICES ASSUME i <= 3 PROVE FALSE
        OBVIOUS
      <4>2. StartOrder[i] = before[i] BY <1>2, <1>3, <1>4, <4>1
      <4> QED BY <1>2, <1>4, <1>9, <4>1, <4>2
    <3>2. ASSUME i > 3, i <= 3 + n PROVE FALSE
      <4>1. i - 3 \in 1 .. n /\ StartOrder[i] = Tables[i - 3]
        BY <1>2, <1>3, <1>4, <3>2
      <4> QED BY <1>7, <1>9, <4>1
    <3> QED BY <1>2, <1>4, <3>1, <3>2
  <2>3. 3 + k \in 1 .. i
    BY <1>2, <2>2
  <2> QED BY <1>5, <2>1, <2>3
<1> QED BY <1>2, <1>4, <1>6, <1>7, <1>8, <1>9

-----------------------------------------------------------------------------
(* The invariant of GitRepo.                                               *)

(* Here a thread that runs into a dangling reference can end the process.  *)
LEMMA TerminateDirInv ==
  ASSUME DirInv, Terminate
  PROVE  DirInv'
BY DEF DirInv, AtHome, StoredPath, Terminate, TypeOK, settings, disk, PC

LEMMA GitPart ==
  ASSUME StartupNext
  PROVE  UNCHANGED vars \/ Next \/ Terminate
<1>1. CASE GitStep
  BY <1>1 DEF GitStep, PullUpdatesStep, Next
<1>2. CASE StartAgain
  BY <1>2 DEF StartAgain, Next
<1>3. CASE MainThread \/ Answer
  BY <1>3 DEF MainThread, MakeLoggers, PrepareDatabase, CreateTable, OtherSteps,
     Answer, Open, ExecuteCreate, AnswerTask, AnswerHandler
<1>4. CASE MakeDbDirectory \/ BeginRun \/ AskAsTask \/ EndRun \/ Handle \/ setHeaders
             \/ Shutdown \/ Stopped
  BY <1>4 DEF MakeDbDirectory, BeginRun, AskAsTask, EndRun, Handle, setHeaders,
     Shutdown, Stopped
<1> QED BY <1>1, <1>2, <1>3, <1>4 DEF StartupNext

LEMMA StartupDirInv == StartupSpec => []DirInv
<1>1. StartupInit => DirInv
  BY InitIInv DEF IInv, StartupInit
<1>2. DirInv /\ [StartupNext]_all => DirInv'
  <2>1. ASSUME DirInv, UNCHANGED all PROVE DirInv'
    BY <2>1, NextDirInv DEF all
  <2>2. ASSUME DirInv, StartupNext PROVE DirInv'
    BY <2>2, GitPart, NextDirInv, TerminateDirInv
  <2> QED BY <2>1, <2>2
<1> QED BY <1>1, <1>2, PTL DEF StartupSpec

-----------------------------------------------------------------------------
(* The client opens another database than the one beside the process's home*)
(* only on the stretch on which GitRepo leaves the process elsewhere.      *)

LEMMA ClientSteps ==
  ASSUME StartupNext
  PROVE  client' = client \/ client' = {} \/ Open
<1>1. CASE GitStep
  BY <1>1 DEF GitStep, startup, process
<1>2. CASE StartAgain
  BY <1>2 DEF StartAgain
<1>3. CASE MainThread \/ Answer
  BY <1>3 DEF MainThread, MakeLoggers, PrepareDatabase, CreateTable, OtherSteps,
     Answer, ExecuteCreate, AnswerTask, AnswerHandler
<1>4. CASE MakeDbDirectory \/ BeginRun \/ AskAsTask \/ EndRun \/ Handle \/ setHeaders
             \/ Shutdown \/ Stopped
  BY <1>4 DEF MakeDbDirectory, BeginRun, AskAsTask, EndRun, Handle, setHeaders,
     Shutdown, Stopped, process
<1> QED BY <1>1, <1>2, <1>3, <1>4 DEF StartupNext

(* A client that tries once a second finds another database than the one   *)
(* beside home only before pull_updates has come back from its first pull. *)
THEOREM RightDatabase == StartupSpec => OpensElsewhereOnlyBeforeTheFirstPull
<1>1. ASSUME DirInv, [StartupNext]_all,
             client' # client, client' \notin {{}, {parent[home]}}
      PROVE  pc \in {"enter_checkout", "initialized", "stopped"}
  <2>1. Open
    <3>1. StartupNext
      BY <1>1 DEF all, startup, process
    <3> QED BY <1>1, <3>1, ClientSteps
  <2>2. cwd # home /\ pc # "terminated"
    BY <1>1, <2>1 DEF Open, Alive
  <2> QED BY <1>1, <2>2 DEF DirInv, AtHome, TypeOK, PC
<1>2. DirInv /\ [StartupNext]_all =>
        [client' # client /\ client' \notin {{}, {parent[home]}} =>
           pc \in {"enter_checkout", "initialized", "stopped"}]_all
  BY <1>1
<1> QED BY <1>2, StartupDirInv, PTL DEF StartupSpec, OpensElsewhereOnlyBeforeTheFirstPull

-----------------------------------------------------------------------------
(* What the server prepares is never what the client opens: a file is only *)
(* where a directory has been made by hand.                                *)

DiskInv == /\ by_hand \subseteq Place
           /\ blog \in [Place -> {"none", "file", "directory"}]
           /\ \A p \in Place : blog[p] = "file" => p \in by_hand
           /\ client \subseteq by_hand

LEMMA CreateFile ==
  ASSUME DiskInv, NEW p \in Place, create_file_at_path(p), UNCHANGED <<by_hand, client>>
  PROVE  DiskInv'
BY DEF DiskInv, create_file_at_path, HasDbDirectory

LEMMA DiskSteps ==
  ASSUME DiskInv, DirInv, StartupNext
  PROVE  DiskInv'
<1> USE PlaceAssumption
<1>1. CASE MakeDbDirectory
  BY <1>1 DEF MakeDbDirectory, DiskInv, process
<1>2. CASE PrepareDatabase
  <2>1. cwd \in Place /\ parent[cwd] \in Place
    BY DEF DirInv, TypeOK
  <2>2. CASE UNCHANGED blog
    BY <1>2, <2>2 DEF PrepareDatabase, DiskInv
  <2>3. CASE create_file_at_path(cwd) \/ create_file_at_path(parent[cwd])
    BY <1>2, <2>1, <2>3, CreateFile DEF PrepareDatabase
  <2> QED BY <1>2, <2>2, <2>3 DEF PrepareDatabase
<1>3. CASE Open
  <2>1. parent[cwd] \in Place
    BY DEF DirInv, TypeOK
  <2> QED BY <1>3, <2>1 DEF Open, DiskInv, Openable, HasDbDirectory
<1>4. CASE GitStep
  BY <1>4 DEF GitStep, startup, disk_of_db, process, DiskInv
<1>5. CASE StartAgain
  BY <1>5 DEF StartAgain, disk_of_db, DiskInv
<1>6. CASE MakeLoggers \/ CreateTable \/ OtherSteps \/ ExecuteCreate \/ AnswerTask
             \/ AnswerHandler
  BY <1>6 DEF MakeLoggers, CreateTable, OtherSteps, ExecuteCreate, AnswerTask,
     AnswerHandler, disk_of_db, DiskInv
<1>7. CASE BeginRun \/ AskAsTask \/ EndRun \/ Handle \/ setHeaders \/ Shutdown \/ Stopped
  BY <1>7 DEF BeginRun, AskAsTask, EndRun, Handle, setHeaders, Shutdown, Stopped,
     disk_of_db, DiskInv
<1> QED BY <1>1, <1>2, <1>3, <1>4, <1>5, <1>6, <1>7 DEF StartupNext, MainThread, Answer

(* The client only opens a database whose directory was made by hand.      *)
THEOREM MadeByHand == StartupSpec => []OpensWhatWasMadeByHand
<1>1. StartupInit => DiskInv
  BY DEF StartupInit, DiskInv
<1>2. DiskInv /\ DirInv /\ [StartupNext]_all => DiskInv'
  BY DiskSteps DEF all, startup, disk_of_db, process, DiskInv
<1>3. DiskInv => OpensWhatWasMadeByHand
  BY DEF DiskInv, OpensWhatWasMadeByHand
<1> QED BY <1>1, <1>2, <1>3, StartupDirInv, PTL DEF StartupSpec
-----------------------------------------------------------------------------
(* The directory of the log files is fixed before pull_updates can have    *)
(* left home: the command line makes the first loggers, and the tasks and  *)
(* the HTTP thread come later.                                             *)

LogDirectory == IF env_log_dir = {} THEN {home} ELSE env_log_dir

LogInv == /\ started \in Nat
          /\ env_log_dir \in NoneOrOne(Paths)
          /\ log_dir \in {env_log_dir, LogDirectory}
          /\ log_dir = {} => started = 0
          /\ started = 0 => pc = "waiting" /\ handler = "none" /\ client = {}
          /\ logs \subseteq LogDirectory

LEMMA StartedIfDone ==
  ASSUME started \in Nat, NEW s, Done(s)
  PROVE  started > 0
BY DEF Done

LEMMA LoggerFactoryStep ==
  ASSUME LogInv, LoggerFactory, UNCHANGED env_log_dir, started = 0 => cwd = home
  PROVE  /\ log_dir' = LogDirectory' /\ log_dir' # {}
         /\ logs' \subseteq LogDirectory'
BY DEF LogInv, LoggerFactory, LogDirectory

LEMMA LogSteps ==
  ASSUME LogInv, DirInv, StartupNext
  PROVE  LogInv'
<1>1. started = 0 => cwd = home
  BY DEF LogInv, DirInv, AtHome
<1>2. CASE MakeLoggers
  <2>1. /\ LoggerFactory /\ started' = started + 1
        /\ UNCHANGED <<env_log_dir, pc, handler, client>>
    BY <1>2 DEF MakeLoggers, Start, disk_of_db, vars
  <2> QED BY <1>1, <2>1, LoggerFactoryStep DEF LogInv
<1>3. CASE setHeaders
  <2>1. /\ LoggerFactory /\ handler' = "none"
        /\ UNCHANGED <<started, env_log_dir, pc, client>>
    BY <1>3 DEF setHeaders, disk_of_db, vars
  <2>2. started > 0
    BY <1>3, StartedIfDone DEF setHeaders, LogInv
  <2> QED BY <1>1, <2>1, <2>2, LoggerFactoryStep DEF LogInv
<1>4. CASE PrepareDatabase \/ CreateTable \/ OtherSteps
  <2>1. /\ started < Len(StartOrder) /\ StartOrder[started + 1] # "loggers"
        /\ started' = started + 1
        /\ UNCHANGED <<log_dir, logs, env_log_dir, pc, handler, client>>
    BY <1>4, StartOrderProps
       DEF PrepareDatabase, CreateTable, OtherSteps, Start, disk_of_db, vars
  <2>2. started > 0
    BY <2>1, StartOrderProps DEF LogInv
  <2> QED BY <2>1, <2>2 DEF LogInv, LogDirectory
<1>5. CASE GitStep \/ BeginRun
  <2>1. started > 0
    BY <1>5, StartedIfDone DEF GitStep, BeginRun, MutexIsFree, LogInv
  <2>2. UNCHANGED <<started, log_dir, logs, env_log_dir, handler, client>>
    BY <1>5 DEF GitStep, BeginRun, startup, process, disk_of_db
  <2> QED BY <2>1, <2>2 DEF LogInv, LogDirectory
<1>6. CASE ExecuteCreate
  <2>1. UNCHANGED <<started, log_dir, logs, env_log_dir, handler, client>>
    BY <1>6 DEF ExecuteCreate, disk_of_db
  <2>2. UNCHANGED pc \/ started > 0
    BY <1>6, StartedIfDone DEF ExecuteCreate, LogInv, vars
  <2> QED BY <2>1, <2>2 DEF LogInv, LogDirectory
<1>7. CASE Open
  <2>1. started > 0
    BY <1>7, StartedIfDone DEF Open, LogInv
  <2> QED BY <1>7, <2>1 DEF Open, LogInv, LogDirectory, vars
<1>8. CASE Handle
  <2>1. started > 0
    BY <1>8, StartedIfDone DEF Handle, LogInv
  <2> QED BY <1>8, <2>1 DEF Handle, LogInv, LogDirectory, disk_of_db, vars
<1>9. CASE StartAgain
  BY <1>9 DEF StartAgain, Restart, LogInv, LogDirectory, disk_of_db
<1>10. CASE MakeDbDirectory \/ AnswerTask \/ AnswerHandler \/ AskAsTask \/ EndRun
              \/ Shutdown \/ Stopped
  BY <1>10 DEF MakeDbDirectory, AnswerTask, AnswerHandler, NextStatement, AskAsTask,
     EndRun, Shutdown, Stopped, process, disk_of_db, vars, LogInv, LogDirectory
<1> QED
  BY <1>2, <1>3, <1>4, <1>5, <1>6, <1>7, <1>8, <1>9, <1>10
     DEF StartupNext, MainThread, Answer

(* Whichever thread calls LoggerFactory, and wherever pull_updates has the *)
(* process then, all log files of all starts are in one directory.         *)
THEOREM OneLogDirectory == StartupSpec => []LogsStayTogether
<1>1. StartupInit => LogInv
  BY DEF StartupInit, Init, LogInv, LogDirectory
<1>2. LogInv /\ DirInv /\ [StartupNext]_all => LogInv'
  BY LogSteps DEF all, vars, startup, disk_of_db, process, LogInv, LogDirectory
<1>3. LogInv => LogsStayTogether
  <2> SUFFICES ASSUME LogInv PROVE Cardinality(logs) <= 1
    BY DEF LogsStayTogether
  <2>1. PICK d : logs \subseteq {d}
    BY DEF LogInv, LogDirectory, NoneOrOne
  <2>2. IsFiniteSet({d}) /\ Cardinality({d}) = 1
    BY FS_Singleton
  <2> QED BY <2>1, <2>2, FS_Subset, FS_CardinalityType
<1> QED BY <1>1, <1>2, <1>3, StartupDirInv, PTL DEF StartupSpec

-----------------------------------------------------------------------------
(* Whoever asks the database asks after every table has been queued, and   *)
(* the client takes its statements in their order.                         *)

Asker == {"task", "handler"}

(* The statement of table t has been executed or is among the first k.     *)
Before(t, k) == t \in executed \/ \E j \in 1 .. k : queue[j] = t

QueryInv ==
  /\ started \in Nat /\ started <= Len(StartOrder)
  /\ queue \in Seq(Table \cup Asker)
  /\ executed \subseteq Table
  /\ \A i \in 1 .. started : \A t \in Table : StartOrder[i] = t => Before(t, Len(queue))
  /\ task # "none" => \A t \in Table : Before(t, Len(queue))
  /\ \A k \in 1 .. Len(queue) : queue[k] \in Asker => \A t \in Table : Before(t, k)

(* Once the tasks run or the server listens.                               *)
LEMMA AllQueued ==
  ASSUME QueryInv, Done("task_manager") \/ Done("listen")
  PROVE  \A t \in Table : Before(t, Len(queue))
<1>1. PICK i \in 1 .. started : StartOrder[i] \in {"task_manager", "listen"}
  BY DEF Done
<1>2. i \in 1 .. Len(StartOrder)
  BY StartOrderProps DEF QueryInv
<1>3. \A t \in Table : \E j \in 1 .. started : StartOrder[j] = t
  BY <1>1, <1>2, StartOrderProps DEF QueryInv
<1> QED BY <1>3 DEF QueryInv

(* A statement joins the queue.                                            *)
LEMMA Queued ==
  ASSUME QueryInv, NEW s \in Table \cup Asker,
         queue' = Append(queue, s), UNCHANGED executed
  PROVE  /\ queue' \in Seq(Table \cup Asker)
         /\ Len(queue) \in Nat /\ Len(queue') = Len(queue) + 1
         /\ queue'[Len(queue')] = s
         /\ \A k \in 1 .. Len(queue) : queue'[k] = queue[k]
         /\ \A t \in Table, k \in 0 .. Len(queue) : Before(t, k) => Before(t, k)'
         /\ \A t \in Table : Before(t, Len(queue)) => Before(t, Len(queue))'
<1>1. /\ queue' \in Seq(Table \cup Asker)
      /\ Len(queue) \in Nat /\ Len(queue') = Len(queue) + 1
      /\ queue'[Len(queue')] = s
      /\ \A k \in 1 .. Len(queue) : queue'[k] = queue[k]
  BY AppendProperties, LenProperties DEF QueryInv
<1>2. \A t \in Table, k \in 0 .. Len(queue) : Before(t, k) => Before(t, k)'
  BY <1>1 DEF Before
<1>3. \A t \in Table : Before(t, Len(queue)) => Before(t, Len(queue))'
  BY <1>1 DEF Before
<1> QED BY <1>1, <1>2, <1>3

LEMMA AskerQueued ==
  ASSUME QueryInv, NEW s \in Asker, queue' = Append(queue, s),
         UNCHANGED <<started, executed>>, task' # "none" => task # "none",
         \A t \in Table : Before(t, Len(queue))
  PROVE  QueryInv'
<1>1. \A t \in Table : Before(t, Len(queue))'
  BY Queued
<1>2. ASSUME NEW k \in 1 .. Len(queue'), queue'[k] \in Asker, NEW t \in Table
      PROVE  Before(t, k)'
  <2>1. CASE k = Len(queue')
    BY <1>1, <2>1
  <2>2. CASE k \in 1 .. Len(queue)
    BY <1>2, <2>2, Queued DEF QueryInv
  <2> QED BY <2>1, <2>2, Queued
<1> QED BY <1>1, <1>2, Queued DEF QueryInv, Table

LEMMA TableQueued ==
  ASSUME QueryInv, NEW t \in Table, queue' = Append(queue, t),
         started < Len(StartOrder), started' = started + 1, StartOrder[started + 1] = t,
         UNCHANGED <<executed, task>>
  PROVE  QueryInv'
<1>1. t \notin Asker
  BY StartOrderProps DEF Asker
<1>2. Before(t, Len(queue))'
  BY Queued DEF Before
<1>3. ASSUME NEW k \in 1 .. Len(queue'), queue'[k] \in Asker, NEW u \in Table
      PROVE  Before(u, k)'
  <2>1. k \in 1 .. Len(queue) /\ queue[k] \in Asker
    BY <1>1, <1>3, Queued
  <2> QED BY <2>1, Queued DEF QueryInv
<1>4. ASSUME NEW i \in 1 .. started', NEW u \in Table, StartOrder[i] = u
      PROVE  Before(u, Len(queue))'
  <2>1. CASE i = started + 1
    BY <1>2, <1>4, <2>1
  <2>2. CASE i \in 1 .. started
    BY <1>4, <2>2, Queued DEF QueryInv
  <2> QED BY <2>1, <2>2 DEF QueryInv
<1>5. task' # "none" => \A u \in Table : Before(u, Len(queue))'
  BY Queued DEF QueryInv
<1> QED BY <1>3, <1>4, <1>5, Queued DEF QueryInv, Table

(* The client takes the first statement.                                   *)
LEMMA Taken ==
  ASSUME QueryInv, queue # <<>>, queue' = Tail(queue), UNCHANGED started,
         executed' = executed \cup ({queue[1]} \cap Table),
         task' # "none" => task # "none" \/ queue[1] \in Asker
  PROVE  QueryInv'
<1>1. /\ Len(queue) \in Nat \ {0}
      /\ queue' \in Seq(Table \cup Asker) /\ Len(queue') = Len(queue) - 1
      /\ \A k \in 1 .. Len(queue') : queue'[k] = queue[k + 1]
  BY HeadTailProperties, EmptySeq, LenProperties DEF QueryInv
<1>2. ASSUME NEW t \in Table, NEW k \in 1 .. Len(queue), Before(t, k)
      PROVE  Before(t, k - 1)'
  <2>1. CASE t \in executed
    BY <2>1 DEF Before
  <2>2. CASE queue[1] = t
    BY <2>2 DEF Before
  <2>3. ASSUME NEW j \in 1 .. k, queue[j] = t, j # 1
        PROVE  Before(t, k - 1)'
    <3>1. j - 1 \in 1 .. k - 1 /\ j - 1 \in 1 .. Len(queue')
      BY <1>1, <2>3
    <3>2. queue'[j - 1] = t
      BY <1>1, <2>3, <3>1
    <3> QED BY <3>1, <3>2 DEF Before
  <2> QED BY <1>2, <2>1, <2>2, <2>3 DEF Before
<1>3. \A t \in Table : Before(t, Len(queue)) => Before(t, Len(queue))'
  BY <1>1, <1>2
<1>4. task' # "none" => \A t \in Table : Before(t, Len(queue))'
  <2>1. CASE task # "none"
    BY <1>3, <2>1 DEF QueryInv
  <2>2. CASE queue[1] \in Asker
    <3>1. \A t \in Table : Before(t, 1)
      BY <1>1, <2>2 DEF QueryInv
    <3> QED BY <1>1, <1>3, <3>1 DEF Before
  <2> QED BY <2>1, <2>2
<1>5. ASSUME NEW k \in 1 .. Len(queue'), queue'[k] \in Asker, NEW t \in Table
      PROVE  Before(t, k)'
  <2>1. k + 1 \in 1 .. Len(queue) /\ queue[k + 1] \in Asker
    BY <1>1, <1>5
  <2>2. Before(t, k + 1)
    BY <2>1 DEF QueryInv
  <2>3. Before(t, (k + 1) - 1)'
    BY <1>2, <2>1, <2>2
  <2> QED BY <2>3
<1>6. executed' \subseteq Table'
  BY DEF QueryInv, Table
<1> QED BY <1>1, <1>3, <1>4, <1>5, <1>6 DEF QueryInv, Table

LEMMA QuerySteps ==
  ASSUME QueryInv, StartupNext
  PROVE  QueryInv'
<1>1. CASE CreateTable
  <2>1. PICK t \in Table : Start(t) /\ queue' = Append(queue, t)
    BY <1>1 DEF CreateTable
  <2> QED BY <1>1, <2>1, TableQueued DEF CreateTable, Start
<1>2. CASE MakeLoggers \/ PrepareDatabase \/ OtherSteps
  <2>1. /\ started < Len(StartOrder) /\ started' = started + 1
        /\ StartOrder[started + 1] \notin Table
        /\ UNCHANGED <<queue, executed, task>>
    BY <1>2, StartOrderProps DEF MakeLoggers, PrepareDatabase, OtherSteps, Start
  <2>2. ASSUME NEW i \in 1 .. started', NEW t \in Table, StartOrder[i] = t
        PROVE  i \in 1 .. started
    BY <2>1, <2>2 DEF QueryInv
  <2> QED BY <2>1, <2>2, StartOrderProps DEF QueryInv, Before, Table
<1>3. CASE ExecuteCreate
  <2>1. PICK t \in Table : NextStatement(t) /\ executed' = executed \cup {t}
    BY <1>3 DEF ExecuteCreate
  <2>2. queue # <<>> /\ queue[1] = t /\ queue' = Tail(queue)
    BY <2>1, HeadTailProperties, EmptySeq DEF NextStatement, QueryInv
  <2> QED BY <1>3, <2>1, <2>2, Taken DEF ExecuteCreate
<1>4. CASE AnswerTask \/ AnswerHandler
  <2>1. PICK s \in Asker : NextStatement(s)
    BY <1>4 DEF AnswerTask, AnswerHandler, Asker
  <2>2. queue # <<>> /\ queue[1] = s /\ queue' = Tail(queue)
    BY <2>1, HeadTailProperties, EmptySeq DEF NextStatement, QueryInv
  <2>3. executed' = executed \cup ({s} \cap Table)
    BY <1>4, StartOrderProps DEF AnswerTask, AnswerHandler, Asker
  <2> QED BY <1>4, <2>2, <2>3, Taken DEF AnswerTask, AnswerHandler
<1>5. CASE BeginRun
  <2>1. \A t \in Table : Before(t, Len(queue))
    BY <1>5, AllQueued DEF BeginRun, MutexIsFree
  <2> QED BY <1>5, <2>1 DEF BeginRun, QueryInv, Before, Table
<1>6. CASE AskAsTask
  <2>1. \A t \in Table : Before(t, Len(queue))
    BY <1>6 DEF AskAsTask, QueryInv
  <2> QED BY <1>6, <2>1, AskerQueued DEF AskAsTask, Asker
<1>7. CASE Handle
  <2>1. \A t \in Table : Before(t, Len(queue))
    BY <1>7, AllQueued DEF Handle
  <2> QED BY <1>7, <2>1, AskerQueued DEF Handle, Asker
<1>8. CASE StartAgain
  <2>1. started' = 0 /\ queue' = <<>> /\ executed' = {} /\ task' = "none"
    BY <1>8 DEF StartAgain
  <2> QED BY <2>1, EmptySeq, StartOrderProps DEF QueryInv, Before, Table
<1>9. CASE MakeDbDirectory \/ Open \/ GitStep \/ EndRun \/ setHeaders \/ Shutdown
             \/ Stopped
  <2>1. UNCHANGED <<started, queue, executed>> /\ task' \in {task, "none"}
    BY <1>9 DEF MakeDbDirectory, Open, GitStep, EndRun, setHeaders, Shutdown, Stopped,
       startup, process
  <2> QED BY <2>1 DEF QueryInv, Before, Table
<1> QED
  BY <1>1, <1>2, <1>3, <1>4, <1>5, <1>6, <1>7, <1>8, <1>9
     DEF StartupNext, MainThread, Answer

(* No query reaches the database before the statements of all tables have. *)
THEOREM TablesBeforeQueries == StartupSpec => []NoQueryBeforeItsTables
<1>1. StartupInit => QueryInv
  BY EmptySeq, StartOrderProps DEF StartupInit, QueryInv, Before
<1>2. QueryInv /\ [StartupNext]_all => QueryInv'
  BY QuerySteps DEF all, startup, process, QueryInv, Before, Table
<1>3. QueryInv => NoQueryBeforeItsTables
  <2> SUFFICES ASSUME QueryInv, queue # <<>>, Head(queue) \in Asker
               PROVE  Table \subseteq executed
    BY DEF NoQueryBeforeItsTables, Asker, QueryInv
  <2>1. 1 \in 1 .. Len(queue) /\ queue[1] \in Asker
    BY HeadTailProperties, EmptySeq, LenProperties DEF QueryInv
  <2> QED BY <2>1, StartOrderProps DEF QueryInv, Before, Asker
<1> QED BY <1>1, <1>2, <1>3, PTL DEF StartupSpec
=============================================================================
