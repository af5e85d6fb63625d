---------------------------- MODULE SerialRunner ----------------------------
(***************************************************************************)
(* What the task group promises the tasks it runs, without threads, mutex, *)
(* condition variable or timeouts: every task is initialised once, then    *)
(* run any number of times, then stopped once, and never are two tasks     *)
(* inside their code at the same time.  No run begins once the group has   *)
(* been told to stop, the group is closed only when all tasks have been    *)
(* stopped, and a closed group touches no task.  An exception escaping     *)
(* from initialize() ends the process.                                     *)
(***************************************************************************)
CONSTANT Task

VARIABLES active,     \* the task inside its code and what it does there
          life,       \* how far each task has come
          told,       \* TRUE once the group has been told to stop
          closed,     \* TRUE once the tasks have been given up
          dead        \* TRUE once the process has been terminated

runnerVars == <<active, life, told, closed, dead>>

Idle == [task |-> {}, does |-> "nothing"]
Busy(t, what) == [task |-> {t}, does |-> what]

RunnerTypeOK ==
  /\ active \in {Idle} \cup { Busy(t, w) : t \in Task,
                                           w \in {"initialize", "run", "stop"} }
  /\ life \in [Task -> {"new", "ready", "over"}]
  /\ told \in BOOLEAN /\ closed \in BOOLEAN /\ dead \in BOOLEAN

RunnerInit == /\ active = Idle
              /\ life = [t \in Task |-> "new"]
              /\ told = FALSE /\ closed = FALSE /\ dead = FALSE

Begin(t, what) == /\ active = Idle
                  /\ ~closed
                  /\ active' = Busy(t, what)
                  /\ UNCHANGED <<life, told, closed>>

BeginInitialize(t) == life[t] = "new" /\ Begin(t, "initialize")
BeginRun(t)        == life[t] = "ready" /\ ~told /\ Begin(t, "run")
BeginStop(t)       == life[t] = "ready" /\ told /\ Begin(t, "stop")

End(t, what, next) == /\ active = Busy(t, what)
                      /\ active' = Idle
                      /\ life' = [life EXCEPT ![t] = next]
                      /\ UNCHANGED <<told, closed>>

EndInitialize(t) == End(t, "initialize", "ready")
EndRun(t)        == End(t, "run", "ready")
EndStop(t)       == End(t, "stop", "over")

TellToStop == /\ ~told /\ told' = TRUE
              /\ UNCHANGED <<active, life, closed>>

Close == /\ told /\ ~closed
         /\ \A t \in Task : life[t] = "over"
         /\ closed' = TRUE
         /\ UNCHANGED <<active, life, told>>

Die == /\ active.does = "initialize"
       /\ dead' = TRUE
       /\ UNCHANGED <<active, life, told, closed>>

Live == \/ \E t \in Task : \/ BeginInitialize(t) \/ EndInitialize(t)
                           \/ BeginRun(t) \/ EndRun(t)
                           \/ BeginStop(t) \/ EndStop(t)
        \/ TellToStop
        \/ Close

RunnerNext == /\ ~dead
              /\ \/ Live /\ UNCHANGED dead
                 \/ Die

RunnerSpec == RunnerInit /\ [][RunnerNext]_runnerVars
=============================================================================
