------------------------------ MODULE TaskGroup ------------------------------
(***************************************************************************)
(* task::TaskGroup (plugins/tasks/TaskGroup.h): one thread per background  *)
(* task, all of them sharing runner_mutex and runner_conditional, and the  *)
(* main thread that starts them (TaskManager::initAndStart) and stops them *)
(* (TaskManager::shutdown).                                                *)
(*                                                                         *)
(* A thread owns the mutex from the moment it is launched until it exits,  *)
(* except while it is asleep in one of its two wait_for() calls: the       *)
(* launch stagger and the interval between two runs.  wait_for() is        *)
(* modelled as the library performs it: test the predicate, fall asleep    *)
(* (which releases the mutex), wake by notification, timeout or spuriously,*)
(* get the mutex back and test again.  Time is abstract: a sleep may time  *)
(* out at any moment, since the durations only say when.                   *)
(***************************************************************************)
EXTENDS Integers, FiniteSets

CONSTANTS NumTasks,   \* how many tasks addTask() was called for
          MayThrow    \* the tasks whose initialize() can throw

ASSUME NumTasksAssumption == NumTasks \in Nat \ {0}

Task == 0 .. NumTasks - 1                   \* BaseTask::task_id

ASSUME MayThrowAssumption == MayThrow \subseteq Task

VARIABLES
  main,         \* where the main thread is
  launched,     \* threads created so far (threads.size() in runStaggered)
  joined,       \* threads joined so far by stop()
  run_tasks,    \* the atomic flag
  mutex,        \* the tasks holding runner_mutex: none or one
  pc,           \* where each task's thread is
  waits,        \* which wait_for() a thread is in or comes to next
  terminated    \* TRUE once std::terminate() has been called

vars == <<main, launched, joined, run_tasks, mutex, pc, waits, terminated>>

InWait == {"testing", "blocking", "asleep", "woken", "timed_out"}

ThreadAt == {"unborn", "starting", "initialize", "loop", "run", "stop", "exited"}
            \cup InWait

MainAt == {"configured", "launching", "serving", "notifying", "joining", "erased"}

Init ==
  /\ main = "configured"
  /\ launched = 0 /\ joined = 0
  /\ run_tasks \in BOOLEAN           \* std::atomic_bool without initialiser
  /\ mutex = {}
  /\ pc = [t \in Task |-> "unborn"]
  /\ waits = [t \in Task |-> "launch"]
  /\ terminated = FALSE

Goto(t, l) == pc' = [pc EXCEPT ![t] = l]

-----------------------------------------------------------------------------
(* The main thread: runStaggered(), then stop().                           *)

StartLaunching ==
  /\ main = "configured"
  /\ run_tasks' = TRUE
  /\ main' = "launching"
  /\ UNCHANGED <<launched, joined, mutex, pc, waits, terminated>>

LaunchThread ==
  /\ main = "launching" /\ launched < NumTasks
  /\ Goto(launched, "starting")
  /\ launched' = launched + 1
  /\ UNCHANGED <<main, joined, run_tasks, mutex, waits, terminated>>

Serve ==
  /\ main = "launching" /\ launched = NumTasks
  /\ main' = "serving"
  /\ UNCHANGED <<launched, joined, run_tasks, mutex, pc, waits, terminated>>

(* shutdown(): the flag is cleared without taking runner_mutex.            *)
ClearRunTasks ==
  /\ main = "serving"
  /\ run_tasks' = FALSE
  /\ main' = "notifying"
  /\ UNCHANGED <<launched, joined, mutex, pc, waits, terminated>>

NotifyAll ==
  /\ main = "notifying"
  /\ pc' = [t \in Task |-> IF pc[t] = "asleep" THEN "woken" ELSE pc[t]]
  /\ main' = "joining"
  /\ UNCHANGED <<launched, joined, run_tasks, mutex, waits, terminated>>

(* Slip: lets go of the threads instead of waiting for them.               *)
DetachThread ==
  /\ main = "joining" /\ joined < NumTasks
  /\ joined' = joined + 1
  /\ UNCHANGED <<main, launched, run_tasks, mutex, pc, waits, terminated>>

JoinThread ==
  /\ main = "joining" /\ joined < NumTasks
  /\ pc[joined] = "exited"
  /\ joined' = joined + 1
  /\ UNCHANGED <<main, launched, run_tasks, mutex, pc, waits, terminated>>

EraseTasks ==
  /\ main = "joining" /\ joined = NumTasks
  /\ main' = "erased"
  /\ UNCHANGED <<launched, joined, run_tasks, mutex, pc, waits, terminated>>

-----------------------------------------------------------------------------
(* A task's thread.                                                        *)

(* lock(runner_mutex), then straight into the launch wait.                 *)
Lock(t) ==
  /\ pc[t] = "starting" /\ mutex = {}
  /\ mutex' = {t}
  /\ Goto(t, "testing")
  /\ UNCHANGED <<main, launched, joined, run_tasks, waits, terminated>>

(* Slips: a timed out interval ends the loop; nobody calls initialize().   *)
LeaveAfterWait(t) == Goto(t, IF waits[t] = "launch" THEN "initialize" ELSE "stop")
StraightToLoop(t) == Goto(t, "loop")

(* wait_for() has returned: what comes next ignores its result.            *)
AfterWait(t) == Goto(t, IF waits[t] = "launch" THEN "initialize" ELSE "loop")

(* The predicate !run_tasks, read with the mutex held.                     *)
TestPredicate(t) ==
  /\ pc[t] = "testing"
  /\ IF run_tasks THEN Goto(t, "blocking") ELSE AfterWait(t)
  /\ UNCHANGED <<main, launched, joined, run_tasks, mutex, waits, terminated>>

(* Atomically release the mutex and sleep.  A notification sent since the  *)
(* test is lost.                                                           *)
FallAsleep(t) ==
  /\ pc[t] = "blocking"
  /\ mutex' = {}
  /\ Goto(t, "asleep")
  /\ UNCHANGED <<main, launched, joined, run_tasks, waits, terminated>>

(* Slip: wait() instead of wait_for().                                     *)
NeverTimeOut(t) ==
  /\ pc[t] = "asleep" /\ FALSE
  /\ Goto(t, "timed_out")
  /\ UNCHANGED <<main, launched, joined, run_tasks, mutex, waits, terminated>>

TimeOut(t) ==
  /\ pc[t] = "asleep"
  /\ Goto(t, "timed_out")
  /\ UNCHANGED <<main, launched, joined, run_tasks, mutex, waits, terminated>>

WakeSpuriously(t) ==
  /\ pc[t] = "asleep"
  /\ Goto(t, "woken")
  /\ UNCHANGED <<main, launched, joined, run_tasks, mutex, waits, terminated>>

(* Slips: goes on without the mutex; after a timeout waits for the         *)
(* predicate all over again.                                               *)
ReacquireNothing(t) ==
  /\ mutex' = mutex \cup {t}
  /\ \/ pc[t] = "woken" /\ Goto(t, "testing")
     \/ pc[t] = "timed_out" /\ AfterWait(t)
  /\ UNCHANGED <<main, launched, joined, run_tasks, waits, terminated>>

ReacquireAndTest(t) ==
  /\ mutex = {}
  /\ mutex' = {t}
  /\ pc[t] \in {"woken", "timed_out"} /\ Goto(t, "testing")
  /\ UNCHANGED <<main, launched, joined, run_tasks, waits, terminated>>

Reacquire(t) ==
  /\ mutex = {}
  /\ mutex' = {t}
  /\ \/ pc[t] = "woken" /\ Goto(t, "testing")
     \/ pc[t] = "timed_out" /\ AfterWait(t)
  /\ UNCHANGED <<main, launched, joined, run_tasks, waits, terminated>>

(* initialize() has returned.                                              *)
Initialized(t) ==
  /\ pc[t] = "initialize"
  /\ Goto(t, "loop")
  /\ waits' = [waits EXCEPT ![t] = "interval"]
  /\ UNCHANGED <<main, launched, joined, run_tasks, mutex, terminated>>

(* Nothing in the thread catches what initialize() throws.                 *)
InitializeThrows(t) ==
  /\ pc[t] = "initialize" /\ t \in MayThrow
  /\ terminated' = TRUE
  /\ UNCHANGED <<main, launched, joined, run_tasks, mutex, pc, waits>>

(* while (run_tasks): into run(), or out to stop() and complete().         *)
TestLoop(t) ==
  /\ pc[t] = "loop"
  /\ Goto(t, IF run_tasks THEN "run" ELSE "stop")
  /\ UNCHANGED <<main, launched, joined, run_tasks, mutex, waits, terminated>>

(* run() has returned or thrown a std::exception: either way, wait.        *)
RunReturns(t) ==
  /\ pc[t] = "run"
  /\ Goto(t, "testing")
  /\ UNCHANGED <<main, launched, joined, run_tasks, mutex, waits, terminated>>

(* stop() and complete() have returned; the lock's destructor unlocks.     *)
Exit(t) ==
  /\ pc[t] = "stop"
  /\ mutex' = {}
  /\ Goto(t, "exited")
  /\ UNCHANGED <<main, launched, joined, run_tasks, waits, terminated>>

-----------------------------------------------------------------------------
Starting == StartLaunching \/ LaunchThread \/ Serve
Stopping == NotifyAll \/ JoinThread \/ EraseTasks

Acquire(t) == Lock(t) \/ Reacquire(t)

TaskCode(t) == Initialized(t) \/ RunReturns(t) \/ Exit(t)

Advance(t) == TestPredicate(t) \/ FallAsleep(t) \/ TestLoop(t)

Thread(t) == \/ Acquire(t) \/ Advance(t) \/ TaskCode(t)
             \/ TimeOut(t) \/ WakeSpuriously(t) \/ InitializeThrows(t)

Next == /\ ~terminated
        /\ \/ Starting \/ ClearRunTasks \/ Stopping
           \/ \E t \in Task : Thread(t)

Spec == Init /\ [][Next]_vars

(***************************************************************************)
(* Fairness.  The main thread and every thread that can take a step are    *)
(* scheduled; task code returns (no git command or query hangs).  A wait   *)
(* times out in the end (SF: its deadline is fixed when wait_for() is      *)
(* entered, so spurious wake-ups do not put it off).  The mutex is         *)
(* granted to a waiter that finds it free again and again (SF): between    *)
(* two runs of a thread lies a sleep of the whole process interval, in     *)
(* which everybody else gets their turn.  Nothing forces a shutdown.       *)
(***************************************************************************)
Steps(A) == ~terminated /\ A

Fairness ==
  /\ WF_vars(Steps(Starting)) /\ WF_vars(Steps(Stopping))
  /\ \A t \in Task : /\ WF_vars(Steps(Advance(t)))
                     /\ WF_vars(Steps(TaskCode(t)))
                     /\ SF_vars(Steps(TimeOut(t)))
                     /\ SF_vars(Steps(Acquire(t)))

FairSpec == Spec /\ Fairness

-----------------------------------------------------------------------------
(* Properties                                                              *)

TypeOK ==
  /\ main \in MainAt
  /\ launched \in 0 .. NumTasks /\ joined \in 0 .. NumTasks
  /\ run_tasks \in BOOLEAN
  /\ mutex \in SUBSET Task
  /\ pc \in [Task -> ThreadAt]
  /\ waits \in [Task -> {"launch", "interval"}]
  /\ terminated \in BOOLEAN

(* Threads that own the mutex.                                             *)
Owning == {"testing", "blocking", "initialize", "loop", "run", "stop"}
InTaskCode == {"initialize", "run", "stop"}

(* Two tasks are never inside their code at the same time, so no task needs*)
(* a lock of its own although one task's send() writes into the caches of  *)
(* others: neither the release inside wait_for() nor a timeout racing the  *)
(* notification lets a second thread in.                                   *)
OneTaskAtATime ==
  \A t, u \in Task : pc[t] \in InTaskCode /\ pc[u] \in InTaskCode => t = u

(* stop() erases the tasks only when no thread will touch its task again.  *)
NoUseAfterErase == main = "erased" => \A t \in Task : pc[t] = "exited"

(* A task's thread never leaves its loop while the group is to run: no task*)
(* drops out of the pipeline because of a timeout or an early wake-up.     *)
NobodyLeavesEarly ==
  \A t \in Task : pc[t] \in {"stop", "exited"} => main \in {"notifying", "joining", "erased"}

(* Once the flag has been cleared the group comes down, although the       *)
(* notification can fall between a thread's test and its sleep and is then *)
(* lost: the timeout of wait_for() is what saves the shutdown.             *)
ShutdownCompletes == main = "notifying" ~> main = "erased" \/ terminated

(* As long as nobody stops the group every task gets to run again and      *)
(* again, whatever the order in which threads win the mutex.               *)
EveryTaskKeepsRunning ==
  \A t \in Task :
    []<>(pc[t] = "run" \/ main \in {"notifying", "joining", "erased"} \/ terminated)

-----------------------------------------------------------------------------
(* The group as its tasks see it.                                          *)
activity ==
  LET inside == { t \in Task : pc[t] \in InTaskCode } IN
  [ task |-> inside,
    does |-> IF inside = {} THEN "nothing"
             ELSE pc[CHOOSE t \in inside : TRUE] ]

progress ==
  [ t \in Task |-> IF pc[t] = "exited" THEN "over"
                  ELSE IF waits[t] = "interval" THEN "ready" ELSE "new" ]

Runner == INSTANCE SerialRunner
            WITH active <- activity,
                 life <- progress,
                 told <- main \in {"notifying", "joining", "erased"},
                 closed <- main = "erased",
                 dead <- terminated

(* The threads, the mutex and the condition variable implement the serial  *)
(* runner.                                                                 *)
ImplementsSerialRunner == Runner!RunnerSpec
=============================================================================
