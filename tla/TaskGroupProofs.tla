--------------------------- MODULE TaskGroupProofs ---------------------------
(***************************************************************************)
(* The safety properties of TaskGroup for every number of tasks, and that  *)
(* it implements SerialRunner.  Liveness stays with the model checker.     *)
(***************************************************************************)
EXTENDS TaskGroup, TLAPS

(***************************************************************************)
(* The inductive invariant.                                                *)
(***************************************************************************)
StopRequested == main \in {"notifying", "joining", "erased"}

(* runner_mutex belongs to one thread, the one that is outside a sleep.    *)
MutexInv == /\ \A t \in Task : pc[t] \in Owning <=> t \in mutex
            /\ \A t, u \in mutex : t = u

(* The flag follows the main thread.                                       *)
FlagInv == /\ main \in {"launching", "serving"} => run_tasks
           /\ StopRequested => ~run_tasks

(* Threads are created in order, before anything else happens.             *)
LaunchInv == /\ \A t \in Task : pc[t] = "unborn" <=> t >= launched
             /\ main = "configured" => launched = 0
             /\ main \notin {"configured", "launching"} => launched = NumTasks

(* A joined thread has exited.                                             *)
JoinInv == /\ \A t \in Task : t < joined => pc[t] = "exited"
           /\ main = "erased" => joined = NumTasks

(* The wait a thread is in says whether its task has been initialised.     *)
WaitInv == \A t \in Task :
             /\ pc[t] \in {"unborn", "starting", "initialize"} => waits[t] = "launch"
             /\ pc[t] \in {"loop", "run", "stop", "exited"} => waits[t] = "interval"

IInv == /\ TypeOK /\ MutexInv /\ FlagInv /\ LaunchInv /\ JoinInv /\ WaitInv
        /\ NobodyLeavesEarly

LEMMA IInvInit == Init => IInv
<1> SUFFICES ASSUME Init PROVE IInv
  OBVIOUS
<1>1. TypeOK
  <2>1. run_tasks \in BOOLEAN /\ terminated \in BOOLEAN
    BY DEF Init
  <2>2. /\ main \in MainAt /\ launched \in 0 .. NumTasks /\ joined \in 0 .. NumTasks
        /\ mutex \in SUBSET Task /\ pc \in [Task -> ThreadAt]
        /\ waits \in [Task -> {"launch", "interval"}]
    BY NumTasksAssumption DEF Init, MainAt, ThreadAt
  <2> QED BY <2>1, <2>2 DEF TypeOK
<1>2. MutexInv /\ FlagInv /\ WaitInv /\ NobodyLeavesEarly
  BY DEF Init, MutexInv, FlagInv, WaitInv, NobodyLeavesEarly, StopRequested, Owning
<1>3. LaunchInv /\ JoinInv
  BY DEF Init, LaunchInv, JoinInv, Task
<1> QED BY <1>1, <1>2, <1>3 DEF IInv

LEMMA IInvMain ==
  ASSUME IInv, Starting \/ ClearRunTasks \/ Stopping
  PROVE  IInv'
<1> USE NumTasksAssumption DEF StopRequested
<1>0. launched \in Nat /\ joined \in Nat
  BY DEF IInv, TypeOK
<1>1. CASE StartLaunching
  BY <1>1 DEF StartLaunching, IInv, TypeOK, MutexInv, FlagInv, LaunchInv,
              JoinInv, WaitInv, NobodyLeavesEarly, MainAt
<1>2. CASE LaunchThread
  <2>1. launched \in Task /\ pc[launched] = "unborn" /\ waits[launched] = "launch"
    BY <1>0, <1>2 DEF LaunchThread, IInv, LaunchInv, WaitInv, Task
  <2>2. /\ pc' = [pc EXCEPT ![launched] = "starting"]
        /\ pc \in [Task -> ThreadAt]
    BY <1>2 DEF LaunchThread, Goto, IInv, TypeOK
  <2>3. TypeOK'
    BY <1>0, <1>2, <2>1, <2>2
       DEF LaunchThread, IInv, TypeOK, ThreadAt
  <2>4. MutexInv'
    BY <1>2, <2>1, <2>2 DEF LaunchThread, IInv, MutexInv, Owning
  <2>5. LaunchInv'
    BY <1>0, <1>2, <2>1, <2>2 DEF LaunchThread, IInv, LaunchInv, Task
  <2>6. JoinInv' /\ WaitInv' /\ NobodyLeavesEarly' /\ FlagInv'
    BY <1>2, <2>1, <2>2
       DEF LaunchThread, IInv, JoinInv, WaitInv, NobodyLeavesEarly, FlagInv
  <2> QED BY <2>3, <2>4, <2>5, <2>6 DEF IInv
<1>3. CASE Serve
  BY <1>3 DEF Serve, IInv, TypeOK, MutexInv, FlagInv, LaunchInv,
              JoinInv, WaitInv, NobodyLeavesEarly, MainAt
<1>4. CASE ClearRunTasks
  BY <1>4 DEF ClearRunTasks, IInv, TypeOK, MutexInv, FlagInv, LaunchInv,
              JoinInv, WaitInv, NobodyLeavesEarly, MainAt
<1>5. CASE NotifyAll
  <2>1. /\ pc' \in [Task -> ThreadAt]
        /\ \A t \in Task : pc'[t] = IF pc[t] = "asleep" THEN "woken" ELSE pc[t]
    BY <1>5 DEF NotifyAll, IInv, TypeOK, ThreadAt, InWait
  <2>2. TypeOK'
    BY <1>5, <2>1 DEF NotifyAll, IInv, TypeOK, MainAt
  <2>3. MutexInv'
    BY <1>5, <2>1 DEF NotifyAll, IInv, MutexInv, Owning
  <2>4. LaunchInv' /\ JoinInv' /\ WaitInv' /\ FlagInv' /\ NobodyLeavesEarly'
    BY <1>5, <2>1 DEF NotifyAll, IInv, LaunchInv, JoinInv, WaitInv, FlagInv,
                      NobodyLeavesEarly
  <2> QED BY <2>2, <2>3, <2>4 DEF IInv
<1>6. CASE JoinThread
  <2>1. joined' \in 0 .. NumTasks /\ \A t \in Task : t < joined' => pc[t] = "exited"
    BY <1>0, <1>6 DEF JoinThread, IInv, JoinInv, Task
  <2> QED BY <1>6, <2>1
          DEF JoinThread, IInv, TypeOK, MutexInv, FlagInv, LaunchInv,
              JoinInv, WaitInv, NobodyLeavesEarly
<1>7. CASE EraseTasks
  BY <1>7 DEF EraseTasks, IInv, TypeOK, MutexInv, FlagInv, LaunchInv,
              JoinInv, WaitInv, NobodyLeavesEarly, MainAt
<1> QED BY <1>1, <1>2, <1>3, <1>4, <1>5, <1>6, <1>7 DEF Starting, Stopping

(* What the steps of one thread have in common: it moves itself, and takes,*)
(* keeps or gives up the mutex accordingly.                                *)
LEMMA ThreadMoves ==
  ASSUME IInv, NEW t \in Task, NEW l \in ThreadAt \ {"unborn"},
         pc[t] \notin {"unborn", "exited"},
         pc' = [pc EXCEPT ![t] = l],
         UNCHANGED <<main, launched, joined, run_tasks, terminated>>,
         \/ l \in Owning /\ pc[t] \in Owning /\ mutex' = mutex
         \/ l \in Owning /\ mutex = {} /\ mutex' = {t}
         \/ l \notin Owning /\ pc[t] \in Owning /\ mutex' = {}
         \/ l \notin Owning /\ pc[t] \notin Owning /\ mutex' = mutex,
         waits' \in { waits, [waits EXCEPT ![t] = "interval"] },
         l \in {"starting", "initialize"} => waits'[t] = "launch",
         l \in {"loop", "run", "stop", "exited"} => waits'[t] = "interval",
         l \in {"stop", "exited"} => StopRequested
  PROVE  IInv'
<1>0. /\ pc \in [Task -> ThreadAt]
      /\ waits \in [Task -> {"launch", "interval"}]
      /\ mutex \in SUBSET Task
      /\ \A u \in Task : pc'[u] = IF u = t THEN l ELSE pc[u]
      /\ \A u \in Task : u # t => waits'[u] = waits[u]
  BY DEF IInv, TypeOK
<1>1. pc' \in [Task -> ThreadAt] /\ waits' \in [Task -> {"launch", "interval"}]
  BY <1>0
<1>2. mutex' \in SUBSET Task
  BY <1>0
<1>3. TypeOK'
  BY <1>1, <1>2 DEF IInv, TypeOK
<1>4. MutexInv'
  BY <1>0 DEF IInv, MutexInv
<1>5. FlagInv' /\ LaunchInv' /\ JoinInv'
  BY <1>0 DEF IInv, FlagInv, LaunchInv, JoinInv, StopRequested
<1>6. WaitInv'
  BY <1>0 DEF IInv, WaitInv
<1>7. NobodyLeavesEarly'
  BY <1>0 DEF IInv, NobodyLeavesEarly, StopRequested
<1> QED BY <1>3, <1>4, <1>5, <1>6, <1>7 DEF IInv

LEMMA IInvThread ==
  ASSUME IInv, NEW t \in Task, Thread(t)
  PROVE  IInv'
<1> USE DEF Goto, ThreadAt, InWait, Owning
<1>0. /\ pc \in [Task -> ThreadAt] /\ waits \in [Task -> {"launch", "interval"}]
      /\ pc[t] \in {"loop", "run", "stop", "exited"} => waits[t] = "interval"
      /\ pc[t] = "initialize" => waits[t] = "launch"
      /\ [waits EXCEPT ![t] = "interval"][t] = "interval"
  BY DEF IInv, TypeOK, WaitInv
<1>1. CASE Lock(t)
  BY <1>1, ThreadMoves DEF Lock
<1>2. ASSUME AfterWait(t)
      PROVE  \E l \in {"initialize", "loop"} :
               /\ pc' = [pc EXCEPT ![t] = l]
               /\ l = "initialize" => waits[t] = "launch"
               /\ l = "loop" => waits[t] = "interval"
  BY <1>0, <1>2 DEF AfterWait
<1>3. CASE TestPredicate(t)
  <2>1. CASE run_tasks
    BY <1>3, <2>1, ThreadMoves DEF TestPredicate
  <2>2. CASE ~run_tasks
    BY <1>2, <1>3, <2>2, ThreadMoves DEF TestPredicate
  <2> QED BY <2>1, <2>2
<1>4. CASE FallAsleep(t)
  BY <1>4, ThreadMoves DEF FallAsleep
<1>5. CASE TimeOut(t)
  BY <1>5, ThreadMoves DEF TimeOut
<1>6. CASE WakeSpuriously(t)
  BY <1>6, ThreadMoves DEF WakeSpuriously
<1>7. CASE Reacquire(t)
  <2>1. CASE pc[t] = "woken" /\ Goto(t, "testing")
    BY <1>7, <2>1, ThreadMoves DEF Reacquire
  <2>2. CASE pc[t] = "timed_out" /\ AfterWait(t)
    BY <1>2, <1>7, <2>2, ThreadMoves DEF Reacquire
  <2> QED BY <1>7, <2>1, <2>2 DEF Reacquire
<1>8. CASE Initialized(t)
  BY <1>0, <1>8, ThreadMoves DEF Initialized
<1>9. CASE InitializeThrows(t)
  BY <1>9 DEF InitializeThrows, IInv, TypeOK, MutexInv, FlagInv, LaunchInv,
              JoinInv, WaitInv, NobodyLeavesEarly, StopRequested
<1>10. CASE TestLoop(t)
  <2>1. CASE run_tasks
    BY <1>0, <1>10, <2>1, ThreadMoves DEF TestLoop
  <2>2. CASE ~run_tasks
    <3>1. StopRequested
      <4>1. main # "configured"
        BY <1>10, NumTasksAssumption DEF TestLoop, IInv, LaunchInv, Task
      <4>2. main \notin {"launching", "serving"}
        BY <2>2 DEF IInv, FlagInv
      <4> QED BY <4>1, <4>2 DEF IInv, TypeOK, MainAt, StopRequested
    <3> QED BY <1>0, <1>10, <2>2, <3>1, ThreadMoves DEF TestLoop
  <2> QED BY <2>1, <2>2
<1>11. CASE RunReturns(t)
  BY <1>11, ThreadMoves DEF RunReturns
<1>12. CASE Exit(t)
  <2>1. StopRequested
    BY <1>12 DEF Exit, IInv, NobodyLeavesEarly, StopRequested
  <2> QED BY <1>0, <1>12, <2>1, ThreadMoves DEF Exit
<1> QED BY <1>1, <1>3, <1>4, <1>5, <1>6, <1>7, <1>8, <1>9, <1>10, <1>11, <1>12
        DEF Thread, Acquire, Advance, TaskCode

LEMMA IInvNext == IInv /\ [Next]_vars => IInv'
<1> SUFFICES ASSUME IInv, [Next]_vars PROVE IInv'
  OBVIOUS
<1>1. CASE UNCHANGED vars
  BY <1>1 DEF vars, IInv, TypeOK, MutexInv, FlagInv, LaunchInv, JoinInv,
              WaitInv, NobodyLeavesEarly, StopRequested
<1> QED BY <1>1, IInvMain, IInvThread DEF Next

LEMMA IInvAlways == Spec => []IInv
BY IInvInit, IInvNext, PTL DEF Spec

(* Every reachable state is well typed.                                    *)
THEOREM TypeCorrect == Spec => []TypeOK
BY IInvAlways, PTL DEF IInv

(* The mutex excludes: two tasks are never inside their code together,     *)
(* whatever the number of tasks, timeouts and lost notifications.          *)
THEOREM MutualExclusion == Spec => []OneTaskAtATime
<1>1. IInv => OneTaskAtATime
  BY DEF IInv, MutexInv, OneTaskAtATime, InTaskCode, Owning
<1> QED BY <1>1, IInvAlways, PTL

(* stop() gives the tasks up only after every thread has exited.           *)
THEOREM SafeErase == Spec => []NoUseAfterErase
<1>1. IInv => NoUseAfterErase
  BY NumTasksAssumption DEF IInv, JoinInv, NoUseAfterErase, Task
<1> QED BY <1>1, IInvAlways, PTL

(* No thread leaves its loop before the group is stopped.                  *)
THEOREM Steadfast == Spec => []NobodyLeavesEarly
BY IInvAlways, PTL DEF IInv

(***************************************************************************)
(* Refinement of the serial runner.                                        *)
(***************************************************************************)

(* The abstract activity is what the one thread inside its code does.      *)
ActivityInv ==
  /\ (\A t \in Task : pc[t] \notin InTaskCode) => activity = Runner!Idle
  /\ \A t \in Task : pc[t] \in InTaskCode => activity = Runner!Busy(t, pc[t])

LEMMA ActivityAlways == IInv => ActivityInv
<1> SUFFICES ASSUME IInv PROVE ActivityInv
  OBVIOUS
<1> DEFINE inside == { t \in Task : pc[t] \in InTaskCode }
<1>1. ASSUME \A t \in Task : pc[t] \notin InTaskCode
      PROVE  activity = Runner!Idle
  <2>1. inside = {}
    BY <1>1
  <2> QED BY <2>1 DEF activity, Runner!Idle
<1>2. ASSUME NEW t \in Task, pc[t] \in InTaskCode
      PROVE  activity = Runner!Busy(t, pc[t])
  <2>1. inside = {t}
    BY <1>2 DEF IInv, MutexInv, InTaskCode, Owning
  <2>2. (CHOOSE u \in inside : TRUE) = t
    BY <2>1
  <2> QED BY <2>1, <2>2 DEF activity, Runner!Busy
<1> QED BY <1>1, <1>2 DEF ActivityInv

LEMMA ActivityAlwaysNext == IInv' => ActivityInv'
BY ActivityAlways, PTL

(* A move that neither enters nor leaves a task's code is a stutter.       *)
LEMMA QuietMove ==
  /\ IInv /\ IInv'
  /\ \A t \in Task : \/ pc'[t] = pc[t]
                     \/ pc[t] \notin InTaskCode /\ pc'[t] \notin InTaskCode
  => activity' = activity
<1> SUFFICES ASSUME IInv, IInv',
                    \A t \in Task :
                      \/ pc'[t] = pc[t]
                      \/ pc[t] \notin InTaskCode /\ pc'[t] \notin InTaskCode
             PROVE  activity' = activity
  OBVIOUS
<1>1. ActivityInv /\ ActivityInv'
  BY ActivityAlways, ActivityAlwaysNext
<1>2. CASE \A t \in Task : pc[t] \notin InTaskCode
  <2>1. \A t \in Task : pc'[t] \notin InTaskCode
    BY <1>2
  <2> QED BY <1>1, <1>2, <2>1 DEF ActivityInv, Runner!Idle
<1>3. ASSUME NEW t \in Task, pc[t] \in InTaskCode
      PROVE  activity' = activity
  <2>1. pc'[t] = pc[t]
    BY <1>3
  <2> QED BY <1>1, <1>3, <2>1 DEF ActivityInv, Runner!Busy
<1> QED BY <1>2, <1>3

(* Entering a task's code: nobody else is in it.                           *)
LEMMA Enter ==
  ASSUME IInv, IInv', NEW t \in Task, NEW l \in InTaskCode,
         pc' = [pc EXCEPT ![t] = l],
         pc[t] \notin InTaskCode,
         pc[t] \in Owning \/ mutex = {}
  PROVE  activity = Runner!Idle /\ activity' = Runner!Busy(t, l)
<1>1. ActivityInv /\ ActivityInv'
  BY ActivityAlways, ActivityAlwaysNext
<1>2. pc'[t] = l
  BY DEF IInv, TypeOK
<1>3. \A u \in Task : pc[u] \notin InTaskCode
  BY DEF IInv, MutexInv, InTaskCode, Owning
<1> QED BY <1>1, <1>2, <1>3 DEF ActivityInv, Runner!Busy

(* Leaving a task's code: nobody is left in it.                            *)
LEMMA Leave ==
  ASSUME IInv, IInv', NEW t \in Task, NEW l \in ThreadAt \ InTaskCode,
         pc' = [pc EXCEPT ![t] = l],
         pc[t] \in InTaskCode
  PROVE  activity = Runner!Busy(t, pc[t]) /\ activity' = Runner!Idle
<1>1. ActivityInv /\ ActivityInv'
  BY ActivityAlways, ActivityAlwaysNext
<1>2. \A u \in Task : pc'[u] \notin InTaskCode
  BY DEF IInv, TypeOK, MutexInv, InTaskCode, Owning
<1> QED BY <1>1, <1>2 DEF ActivityInv

LEMMA RunnerInitialized == Init => Runner!RunnerInit
<1> SUFFICES ASSUME Init PROVE Runner!RunnerInit
  OBVIOUS
<1>1. activity = Runner!Idle
  BY IInvInit, ActivityAlways DEF Init, ActivityInv, InTaskCode
<1>2. progress = [t \in Task |-> "new"]
  BY DEF Init, progress
<1> QED BY <1>1, <1>2 DEF Init, Runner!RunnerInit

(* The main thread: clearing the flag and erasing the tasks are the only   *)
(* steps the tasks notice.                                                 *)
LEMMA RunnerMain ==
  ASSUME IInv, IInv', ~terminated, Starting \/ ClearRunTasks \/ Stopping
  PROVE  Runner!RunnerNext \/ UNCHANGED Runner!runnerVars
<1>0. /\ terminated' = terminated /\ waits' = waits
      /\ pc \in [Task -> ThreadAt]
      /\ launched \in Nat
  BY DEF Starting, ClearRunTasks, Stopping, StartLaunching, LaunchThread, Serve,
         NotifyAll, JoinThread, EraseTasks, IInv, TypeOK
<1>1. CASE StartLaunching \/ Serve \/ JoinThread
  <2>1. /\ pc' = pc
        /\ main' \in {"notifying", "joining", "erased"} <=>
             main \in {"notifying", "joining", "erased"}
        /\ main' = "erased" <=> main = "erased"
    BY <1>1 DEF StartLaunching, Serve, JoinThread
  <2>2. activity' = activity /\ progress' = progress
    <3>1. activity' = activity
      BY <2>1, QuietMove
    <3>2. progress' = progress
      BY <1>0, <2>1 DEF progress
    <3> QED BY <3>1, <3>2
  <2> QED BY <1>0, <2>1, <2>2 DEF Runner!runnerVars
<1>2. CASE LaunchThread
  <2>1. launched \in Task /\ pc[launched] = "unborn"
    BY <1>0, <1>2, NumTasksAssumption DEF LaunchThread, IInv, LaunchInv, Task
  <2>2. \A t \in Task : \/ pc'[t] = pc[t]
                        \/ pc[t] = "unborn" /\ pc'[t] = "starting"
    BY <1>0, <1>2, <2>1 DEF LaunchThread, Goto
  <2>3. activity' = activity
    <3>1. \A t \in Task : \/ pc'[t] = pc[t]
                          \/ pc[t] \notin InTaskCode /\ pc'[t] \notin InTaskCode
      BY <2>2 DEF InTaskCode
    <3> QED BY <3>1, QuietMove
  <2>4. progress' = progress
    BY <1>0, <2>2 DEF progress
  <2> QED BY <1>0, <1>2, <2>3, <2>4 DEF LaunchThread, Runner!runnerVars
<1>3. CASE ClearRunTasks
  <2>1. pc' = pc
    BY <1>3 DEF ClearRunTasks
  <2>2. activity' = activity /\ progress' = progress
    <3>1. activity' = activity
      BY <2>1, QuietMove
    <3>2. progress' = progress
      BY <1>0, <2>1 DEF progress
    <3> QED BY <3>1, <3>2
  <2>3. Runner!TellToStop
    BY <1>3, <2>2 DEF ClearRunTasks, Runner!TellToStop
  <2> QED BY <1>0, <2>3 DEF Runner!RunnerNext, Runner!Live
<1>4. CASE NotifyAll
  <2>1. \A t \in Task : \/ pc'[t] = pc[t]
                        \/ pc[t] = "asleep" /\ pc'[t] = "woken"
    BY <1>4 DEF NotifyAll
  <2>2. activity' = activity
    <3>1. \A t \in Task : \/ pc'[t] = pc[t]
                          \/ pc[t] \notin InTaskCode /\ pc'[t] \notin InTaskCode
      BY <2>1 DEF InTaskCode
    <3> QED BY <3>1, QuietMove
  <2>3. progress' = progress
    BY <1>0, <2>1 DEF progress
  <2> QED BY <1>0, <1>4, <2>2, <2>3 DEF NotifyAll, Runner!runnerVars
<1>5. CASE EraseTasks
  <2>1. pc' = pc
    BY <1>5 DEF EraseTasks
  <2>2. activity' = activity /\ progress' = progress
    <3>1. activity' = activity
      BY <2>1, QuietMove
    <3>2. progress' = progress
      BY <1>0, <2>1 DEF progress
    <3> QED BY <3>1, <3>2
  <2>3. \A t \in Task : progress[t] = "over"
    BY <1>5, NumTasksAssumption DEF EraseTasks, IInv, JoinInv, Task, progress
  <2>4. Runner!Close
    BY <1>5, <2>2, <2>3 DEF EraseTasks, Runner!Close
  <2> QED BY <1>0, <2>4 DEF Runner!RunnerNext, Runner!Live
<1> QED BY <1>1, <1>2, <1>3, <1>4, <1>5 DEF Starting, Stopping

(* A thread: it enters and leaves its task's code as the runner says, and  *)
(* the rest of what it does, the waiting, is invisible.                    *)
LEMMA RunnerThread ==
  ASSUME IInv, IInv', ~terminated, NEW t \in Task, Thread(t)
  PROVE  Runner!RunnerNext \/ UNCHANGED Runner!runnerVars
<1> USE DEF Goto
<1>0. /\ pc \in [Task -> ThreadAt] /\ waits \in [Task -> {"launch", "interval"}]
      /\ main' = main
      /\ pc[t] \in {"loop", "run", "stop", "exited"} => waits[t] = "interval"
      /\ pc[t] = "initialize" => waits[t] = "launch"
  BY DEF IInv, TypeOK, WaitInv, Thread, Acquire, Advance, TaskCode, Lock,
         Reacquire, TestPredicate, FallAsleep, TestLoop, Initialized,
         RunReturns, Exit, TimeOut, WakeSpuriously, InitializeThrows
<1>1. ASSUME NEW l \in ThreadAt, pc' = [pc EXCEPT ![t] = l], waits' = waits,
             terminated' = terminated,
             pc[t] \notin InTaskCode, l \notin InTaskCode,
             pc[t] # "exited", l # "exited"
      PROVE  UNCHANGED Runner!runnerVars
  <2>1. \A u \in Task : pc'[u] = IF u = t THEN l ELSE pc[u]
    BY <1>0, <1>1
  <2>2. activity' = activity
    BY <1>1, <2>1, QuietMove
  <2>3. progress' = progress
    BY <1>1, <2>1 DEF progress
  <2> QED BY <1>0, <1>1, <2>2, <2>3 DEF Runner!runnerVars
<1>2. ASSUME NEW l \in InTaskCode, pc' = [pc EXCEPT ![t] = l], waits' = waits,
             pc[t] \notin InTaskCode, pc[t] # "exited",
             pc[t] \in Owning \/ mutex = {}
      PROVE  /\ progress' = progress
             /\ activity = Runner!Idle /\ activity' = Runner!Busy(t, l)
  <2>1. progress' = progress
    BY <1>0, <1>2 DEF progress, InTaskCode
  <2> QED BY <1>2, <2>1, Enter
<1>3. ASSUME AfterWait(t), waits' = waits, terminated' = terminated,
             pc[t] \in {"testing", "timed_out"},
             pc[t] \in Owning \/ mutex = {}
      PROVE  Runner!RunnerNext \/ UNCHANGED Runner!runnerVars
  <2>1. CASE waits[t] = "launch"
    <3>1. pc' = [pc EXCEPT ![t] = "initialize"]
      BY <1>3, <2>1 DEF AfterWait
    <3>2. /\ progress' = progress
          /\ activity = Runner!Idle /\ activity' = Runner!Busy(t, "initialize")
      BY <1>2, <1>3, <3>1 DEF InTaskCode
    <3>3. progress[t] = "new" /\ main # "erased"
      BY <1>0, <1>3, <2>1, NumTasksAssumption
         DEF progress, IInv, JoinInv, Task
    <3>4. Runner!BeginInitialize(t)
      BY <1>0, <3>2, <3>3 DEF Runner!BeginInitialize, Runner!Begin
    <3> QED BY <1>3, <3>4 DEF Runner!RunnerNext, Runner!Live
  <2>2. CASE waits[t] = "interval"
    <3>1. pc' = [pc EXCEPT ![t] = "loop"]
      BY <1>3, <2>2 DEF AfterWait
    <3> QED BY <1>1, <1>3, <3>1 DEF InTaskCode, ThreadAt
  <2> QED BY <1>0, <2>1, <2>2
<1>4. CASE Lock(t)
  BY <1>1, <1>4 DEF Lock, InTaskCode, ThreadAt, InWait
<1>5. CASE TestPredicate(t)
  <2>1. CASE run_tasks
    BY <1>1, <1>5, <2>1 DEF TestPredicate, InTaskCode, ThreadAt, InWait
  <2>2. CASE ~run_tasks
    BY <1>3, <1>5, <2>2 DEF TestPredicate, Owning
  <2> QED BY <2>1, <2>2
<1>6. CASE FallAsleep(t)
  BY <1>1, <1>6 DEF FallAsleep, InTaskCode, ThreadAt, InWait
<1>7. CASE TimeOut(t)
  BY <1>1, <1>7 DEF TimeOut, InTaskCode, ThreadAt, InWait
<1>8. CASE WakeSpuriously(t)
  BY <1>1, <1>8 DEF WakeSpuriously, InTaskCode, ThreadAt, InWait
<1>9. CASE Reacquire(t)
  <2>1. CASE pc[t] = "woken" /\ Goto(t, "testing")
    BY <1>1, <1>9, <2>1 DEF Reacquire, InTaskCode, ThreadAt, InWait
  <2>2. CASE pc[t] = "timed_out" /\ AfterWait(t)
    BY <1>3, <1>9, <2>2 DEF Reacquire
  <2> QED BY <1>9, <2>1, <2>2 DEF Reacquire
<1>10. CASE Initialized(t)
  <2>1. activity = Runner!Busy(t, "initialize") /\ activity' = Runner!Idle
    BY <1>10, Leave DEF Initialized, InTaskCode, ThreadAt
  <2>2. progress' = [progress EXCEPT ![t] = "ready"]
    BY <1>0, <1>10 DEF Initialized, progress
  <2>3. Runner!EndInitialize(t)
    BY <1>0, <2>1, <2>2 DEF Runner!EndInitialize, Runner!End
  <2> QED BY <1>10, <2>3 DEF Initialized, Runner!RunnerNext, Runner!Live
<1>11. CASE InitializeThrows(t)
  <2>1. activity = Runner!Busy(t, "initialize")
    BY <1>11, ActivityAlways DEF InitializeThrows, ActivityInv, InTaskCode
  <2>2. activity' = activity
    BY <1>11, QuietMove DEF InitializeThrows
  <2>3. progress' = progress
    BY <1>11 DEF InitializeThrows, progress
  <2>4. Runner!Die
    BY <1>0, <1>11, <2>1, <2>2, <2>3
       DEF InitializeThrows, Runner!Die, Runner!Busy
  <2> QED BY <2>4 DEF Runner!RunnerNext
<1>12. CASE TestLoop(t)
  <2>0. waits[t] = "interval" /\ pc[t] = "loop" /\ progress[t] = "ready"
    BY <1>0, <1>12 DEF TestLoop, progress
  <2>1. CASE run_tasks
    <3>1. /\ progress' = progress
          /\ activity = Runner!Idle /\ activity' = Runner!Busy(t, "run")
      BY <1>2, <1>12, <2>1 DEF TestLoop, InTaskCode, Owning
    <3>2. main \notin {"notifying", "joining", "erased"}
      BY <2>1 DEF IInv, FlagInv, StopRequested
    <3>3. Runner!BeginRun(t)
      BY <1>0, <2>0, <3>1, <3>2 DEF Runner!BeginRun, Runner!Begin
    <3> QED BY <1>12, <3>3 DEF TestLoop, Runner!RunnerNext, Runner!Live
  <2>2. CASE ~run_tasks
    <3>1. /\ progress' = progress
          /\ activity = Runner!Idle /\ activity' = Runner!Busy(t, "stop")
      BY <1>2, <1>12, <2>2 DEF TestLoop, InTaskCode, Owning
    <3>2. main \in {"notifying", "joining"}
      <4>1. main' \in {"notifying", "joining", "erased"}
        <5>1. pc'[t] = "stop"
          BY <1>0, <1>12, <2>2 DEF TestLoop
        <5> QED BY <5>1 DEF IInv, NobodyLeavesEarly
      <4>2. main # "erased"
        BY <2>0, NumTasksAssumption DEF IInv, JoinInv, Task
      <4> QED BY <1>0, <4>1, <4>2
    <3>3. Runner!BeginStop(t)
      BY <1>0, <2>0, <3>1, <3>2 DEF Runner!BeginStop, Runner!Begin
    <3> QED BY <1>12, <3>3 DEF TestLoop, Runner!RunnerNext, Runner!Live
  <2> QED BY <2>1, <2>2
<1>13. CASE RunReturns(t)
  <2>1. activity = Runner!Busy(t, "run") /\ activity' = Runner!Idle
    BY <1>13, Leave DEF RunReturns, InTaskCode, ThreadAt, InWait
  <2>2. progress' = [progress EXCEPT ![t] = "ready"]
    BY <1>0, <1>13 DEF RunReturns, progress
  <2>3. Runner!EndRun(t)
    BY <1>0, <2>1, <2>2 DEF Runner!EndRun, Runner!End
  <2> QED BY <1>13, <2>3 DEF RunReturns, Runner!RunnerNext, Runner!Live
<1>14. CASE Exit(t)
  <2>1. activity = Runner!Busy(t, "stop") /\ activity' = Runner!Idle
    BY <1>14, Leave DEF Exit, InTaskCode, ThreadAt
  <2>2. progress' = [progress EXCEPT ![t] = "over"]
    BY <1>0, <1>14 DEF Exit, progress
  <2>3. Runner!EndStop(t)
    BY <1>0, <2>1, <2>2 DEF Runner!EndStop, Runner!End
  <2> QED BY <1>14, <2>3 DEF Exit, Runner!RunnerNext, Runner!Live
<1> QED BY <1>4, <1>5, <1>6, <1>7, <1>8, <1>9, <1>10, <1>11, <1>12, <1>13, <1>14
        DEF Thread, Acquire, Advance, TaskCode

(* The group implements the serial runner: initial states map to initial   *)
(* states, every step maps to a step of the runner or to a stutter.        *)
THEOREM Refinement == Spec => ImplementsSerialRunner
<1>1. IInv /\ IInv' /\ [Next]_vars => [Runner!RunnerNext]_(Runner!runnerVars)
  <2> SUFFICES ASSUME IInv, IInv', [Next]_vars
               PROVE  Runner!RunnerNext \/ UNCHANGED Runner!runnerVars
    OBVIOUS
  <2>1. CASE UNCHANGED vars
    <3>1. activity' = activity /\ progress' = progress
      <4>1. activity' = activity
        BY <2>1, QuietMove DEF vars
      <4>2. progress' = progress
        BY <2>1 DEF vars, progress
      <4> QED BY <4>1, <4>2
    <3> QED BY <2>1, <3>1 DEF vars, Runner!runnerVars
  <2> QED BY <2>1, RunnerMain, RunnerThread DEF Next
<1> QED BY <1>1, IInvAlways, RunnerInitialized, PTL
        DEF Spec, ImplementsSerialRunner, Runner!RunnerSpec
=============================================================================
