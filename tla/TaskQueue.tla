----------------------------- MODULE TaskQueue ------------------------------
(***************************************************************************)
(* The queue of tasks that prepare files (storage/localimageloader.cpp): a *)
(* worker thread processes them, the main thread finishes them; each is    *)
(* woken by queued signals.  A timer stops the thread when it is idle.     *)
(*                                                                         *)
(* What a thread does under a lock is one step, with what it does on its   *)
(* own before the next one.                                                *)
(***************************************************************************)
EXTENDS Integers, FiniteSets, Sequences, SequencesExt

CONSTANTS
    Tasks,
    None

VARIABLES
    toProcess,       \* _tasksToProcess
    taskInProcessId, \* or None
    toFinish,        \* _tasksToFinish
    thread,          \* _thread runs
    wakeUps,         \* taskAdded() signals that the worker has not got
    processed,       \* taskProcessed() signals that the main thread has not got
    stopTimer,
    worker,          \* where onTaskAdded() is
    working,         \* its task
    someTasksLeft,
    interruption,    \* requestInterruption()
    main,            \* where the main thread is
    cancelling,      \* the task that cancelTask() is about
    added, finished, cancelled,     \* history: the tasks that were
    swallowed        \* history: the worker went to sleep without seeing a task

vars == <<toProcess, taskInProcessId, toFinish, thread, wakeUps, processed, stopTimer, worker,
          working, someTasksLeft, interruption, main, cancelling, added, finished, cancelled, swallowed>>
mainVars == <<main, cancelling, stopTimer, added, finished, cancelled>>
workerVars == <<worker, working, someTasksLeft>>

TypeOK ==
    /\ toProcess \in Seq(Tasks) /\ toFinish \in Seq(Tasks)
    /\ taskInProcessId \in Tasks \cup {None} /\ working \in Tasks \cup {None}
    /\ thread \in BOOLEAN /\ wakeUps \in Nat /\ processed \in Nat /\ stopTimer \in BOOLEAN
    /\ worker \in {"idle", "take", "process", "store", "events"}
    /\ someTasksLeft \in BOOLEAN /\ interruption \in BOOLEAN
    /\ main \in {"idle", "adding", "finishing", "checking", "cancelling", "stopping"}
    /\ cancelling \in Tasks \cup {None}
    /\ added \subseteq Tasks /\ finished \subseteq added /\ cancelled \subseteq added
    /\ swallowed \in BOOLEAN

Init ==
    /\ toProcess = <<>> /\ taskInProcessId = None /\ toFinish = <<>>
    /\ thread = FALSE /\ wakeUps = 0 /\ processed = 0 /\ stopTimer = FALSE
    /\ worker = "idle" /\ working = None /\ someTasksLeft = FALSE /\ interruption = FALSE
    /\ main = "idle" /\ cancelling = None
    /\ added = {} /\ finished = {} /\ cancelled = {} /\ swallowed = FALSE

Without(tasks, t) == SelectSeq(tasks, LAMBDA s : s # t)

-----------------------------------------------------------------------------
(***************************************************************************)
(* The main thread.                                                        *)
(***************************************************************************)

\* addTask(), addTasks().
AddTasks(tasks) ==
    /\ main = "idle" /\ ToSet(tasks) \cap added = {}
    /\ toProcess' = toProcess \o tasks
    /\ added' = added \cup ToSet(tasks)
    /\ main' = "adding"
    /\ UNCHANGED <<taskInProcessId, toFinish, thread, wakeUps, processed, interruption, stopTimer,
                   cancelling, finished, cancelled, swallowed>>
    /\ UNCHANGED workerVars

\* wakeThread() creates the thread.  Mutant: the timer goes on.
WakeThreadOnly ==
    /\ main = "adding"
    /\ main' = "idle" /\ thread' = TRUE /\ wakeUps' = wakeUps + 1
    /\ UNCHANGED <<toProcess, taskInProcessId, toFinish, processed, interruption, stopTimer,
                   cancelling, added, finished, cancelled, swallowed>>
    /\ UNCHANGED workerVars
WakeThread ==
    /\ main = "adding"
    /\ main' = "idle" /\ thread' = TRUE /\ wakeUps' = wakeUps + 1 /\ stopTimer' = FALSE
    /\ UNCHANGED <<toProcess, taskInProcessId, toFinish, processed, interruption,
                   cancelling, added, finished, cancelled, swallowed>>
    /\ UNCHANGED workerVars

\* cancelTask(): under one lock, then under the other.
CancelTask(t) ==
    /\ main = "idle" /\ t \in added \ (finished \cup cancelled)
    /\ main' = "cancelling" /\ cancelling' = t
    /\ toProcess' = Without(toProcess, t)
    /\ taskInProcessId' = IF taskInProcessId = t THEN None ELSE taskInProcessId
    /\ UNCHANGED <<toFinish, thread, wakeUps, processed, interruption, stopTimer, added, finished,
                   cancelled, swallowed>>
    /\ UNCHANGED workerVars
CancelTaskToFinish ==
    /\ main = "cancelling"
    /\ toFinish' = Without(toFinish, cancelling)
    /\ cancelled' = cancelled \cup {cancelling}
    /\ main' = "idle" /\ cancelling' = None
    /\ UNCHANGED <<toProcess, taskInProcessId, thread, wakeUps, processed, interruption, stopTimer,
                   added, finished, swallowed>>
    /\ UNCHANGED workerVars

\* onTaskProcessed(): tasks are finished until there is none, then the thread may be stopped.
OnTaskProcessed ==
    /\ main = "idle" /\ processed > 0
    /\ processed' = processed - 1 /\ main' = "finishing"
    /\ UNCHANGED <<toProcess, taskInProcessId, toFinish, thread, wakeUps, interruption, stopTimer,
                   cancelling, added, finished, cancelled, swallowed>>
    /\ UNCHANGED workerVars
FinishTask ==
    /\ main = "finishing" /\ toFinish # <<>>
    /\ finished' = finished \cup {Head(toFinish)} /\ toFinish' = Tail(toFinish)
    /\ UNCHANGED <<toProcess, taskInProcessId, thread, wakeUps, processed, interruption, stopTimer,
                   main, cancelling, added, cancelled, swallowed>>
    /\ UNCHANGED workerVars
AllFinished ==
    /\ main = "finishing" /\ toFinish = <<>>
    /\ main' = "checking"
    /\ UNCHANGED <<toProcess, taskInProcessId, toFinish, thread, wakeUps, processed, interruption,
                   stopTimer, cancelling, added, finished, cancelled, swallowed>>
    /\ UNCHANGED workerVars
StartStopTimer ==
    /\ main = "checking"
    /\ stopTimer' = (stopTimer \/ (toProcess = <<>> /\ taskInProcessId = None))
    /\ main' = "idle"
    /\ UNCHANGED <<toProcess, taskInProcessId, toFinish, thread, wakeUps, processed, interruption,
                   cancelling, added, finished, cancelled, swallowed>>
    /\ UNCHANGED workerVars

\* stop(): waits for the worker to come to its end, and forgets all tasks.  A signal that is
\* in the event queue comes before a timer of seconds.
StopTimerFires ==
    /\ main = "idle" /\ stopTimer /\ processed = 0
    /\ main' = "stopping" /\ interruption' = TRUE /\ stopTimer' = FALSE
    /\ UNCHANGED <<toProcess, taskInProcessId, toFinish, thread, wakeUps, processed, cancelling,
                   added, finished, cancelled, swallowed>>
    /\ UNCHANGED workerVars
Stopped ==
    /\ main = "stopping" /\ worker = "idle"
    /\ main' = "idle" /\ thread' = FALSE /\ interruption' = FALSE /\ wakeUps' = 0
    /\ toProcess' = <<>> /\ toFinish' = <<>> /\ taskInProcessId' = None
    /\ UNCHANGED <<processed, stopTimer, cancelling, added, finished, cancelled, swallowed>>
    /\ UNCHANGED workerVars

-----------------------------------------------------------------------------
(***************************************************************************)
(* The worker: TaskQueueWorker::onTaskAdded().                             *)
(***************************************************************************)
OnTaskAdded ==
    /\ worker = "idle" /\ thread /\ wakeUps > 0
    /\ wakeUps' = wakeUps - 1
    /\ worker' = "take" /\ someTasksLeft' = FALSE
    /\ UNCHANGED <<toProcess, taskInProcessId, toFinish, thread, processed, interruption, working,
                   swallowed, mainVars>>
TakeTask ==
    /\ worker = "take"
    /\ IF toProcess = <<>>
       THEN worker' = "events" /\ UNCHANGED <<toProcess, taskInProcessId, working>>
       ELSE /\ worker' = "process"
            /\ working' = Head(toProcess) /\ taskInProcessId' = Head(toProcess)
            /\ toProcess' = Tail(toProcess)
    /\ UNCHANGED <<toFinish, thread, wakeUps, processed, interruption, someTasksLeft, swallowed, mainVars>>
Process ==
    /\ worker = "process"
    /\ worker' = "store"
    /\ UNCHANGED <<toProcess, taskInProcessId, toFinish, thread, wakeUps, processed, interruption,
                   working, someTasksLeft, swallowed, mainVars>>

\* A task that is still the one in process is to be finished; the others have been cancelled.
\* Mutant: the main thread is told only of a task that is the only one left.
StoreTaskQuietly ==
    /\ worker = "store" /\ worker' = "events" /\ working' = None
    /\ IF taskInProcessId = working
       THEN /\ taskInProcessId' = None
            /\ someTasksLeft' = (toProcess # <<>>)
            /\ processed' = processed + IF toFinish = <<>> /\ toProcess = <<>> THEN 1 ELSE 0
            /\ toFinish' = Append(toFinish, working)
       ELSE UNCHANGED <<taskInProcessId, someTasksLeft, processed, toFinish>>
    /\ UNCHANGED <<toProcess, thread, wakeUps, interruption, swallowed, mainVars>>
StoreTask ==
    /\ worker = "store" /\ worker' = "events" /\ working' = None
    /\ IF taskInProcessId = working
       THEN /\ taskInProcessId' = None
            /\ someTasksLeft' = (toProcess # <<>>)
            /\ processed' = processed + IF toFinish = <<>> THEN 1 ELSE 0
            /\ toFinish' = Append(toFinish, working)
       ELSE UNCHANGED <<taskInProcessId, someTasksLeft, processed, toFinish>>
    /\ UNCHANGED <<toProcess, thread, wakeUps, interruption, swallowed, mainVars>>

\* processEvents(): signals that come now find _inTaskAdded set and do nothing.
ProcessEvents ==
    /\ worker = "events"
    /\ wakeUps' = 0
    /\ worker' = IF someTasksLeft /\ ~interruption THEN "take" ELSE "idle"
    /\ swallowed' = (swallowed \/ (~someTasksLeft /\ toProcess # <<>>))
    /\ UNCHANGED <<toProcess, taskInProcessId, toFinish, thread, processed, interruption, working,
                   someTasksLeft, mainVars>>

Worker == OnTaskAdded \/ TakeTask \/ Process \/ StoreTask \/ ProcessEvents
Main ==
    WakeThread \/ CancelTaskToFinish \/ OnTaskProcessed \/ FinishTask \/ AllFinished
        \/ StartStopTimer \/ Stopped

Next ==
    \/ \E t \in Tasks : AddTasks(<<t>>) \/ \E s \in Tasks \ {t} : AddTasks(<<t, s>>)
    \/ \E t \in Tasks : CancelTask(t)
    \/ StopTimerFires
    \/ Worker \/ Main

Spec == Init /\ [][Next]_vars

\* Both threads run.
FairSpec == Spec /\ WF_vars(Worker) /\ WF_vars(Main)

-----------------------------------------------------------------------------
(***************************************************************************)
(* Properties.                                                             *)
(***************************************************************************)

\* A task is finished once, and one that is cancelled is not finished afterwards: it is in no
\* queue any more, and the worker drops it.
OnceAndNotCancelled ==
    /\ finished \cap (ToSet(toFinish) \cup ToSet(toProcess)) = {}
    /\ \A t \in cancelled \ finished :
            t \notin ToSet(toProcess) \cup ToSet(toFinish) \cup {taskInProcessId}

\* The thread is stopped only when there is nothing left to do: stop() throws all tasks away.
StopsWhenDone == main = "stopping" /\ main' = "idle" => toProcess = <<>> /\ toFinish = <<>>

\* However the two threads and the timer meet, a task is neither done twice nor thrown away,
\* and in the end every task is finished or cancelled: a wake-up is never missed, but for those
\* that come while the worker is in processEvents() and knows of no task that is left.
TasksAreDone ==
    /\ []OnceAndNotCancelled
    /\ [][StopsWhenDone]_vars
    /\ <>[](swallowed \/ added = finished \cup cancelled)
=============================================================================
