--------------------------- MODULE ThreadManager ---------------------------
(***************************************************************************)
(* The host thread pool (Common/Thread/ThreadManager.cpp): worker threads, *)
(* the global queue they share, a private queue per worker, the callers    *)
(* that enqueue tasks and the teardown.                                    *)
(*                                                                         *)
(* An action is a step between two points where another host thread may    *)
(* come in: the access to an atomic, or a section under a mutex.  The      *)
(* worker's section under the global mutex is one step per priority, as it *)
(* takes its own mutex inside; the section that decides to sleep is two,   *)
(* the decision and cond.wait(), which releases the mutex.                 *)
(*                                                                         *)
(* The workers for compute tasks and those for I/O never share a queue, so *)
(* one kind is modelled.  A dedicated thread per task is not.              *)
(***************************************************************************)
EXTENDS Integers, Sequences, FiniteSets, FiniteSetsExt, Functions

CONSTANTS
  Worker,        \* indices of the workers, 0 .. numComputeThreads_ - 1
  Task,
  Prio,          \* TaskPriority, 0 is HIGH
  PriorityOf,    \* Task::Priority()
  Cancellable,   \* the tasks whose Cancellable() is TRUE
  Client,        \* host threads that enqueue tasks
  NoTask

NumWorkers == Cardinality(Worker)
NumPrio == Cardinality(Prio)

ASSUME WorkerAssumption ==
  IsFiniteSet(Worker) /\ 0 \in Worker /\ Worker = 0..(NumWorkers - 1)
ASSUME PrioAssumption ==
  IsFiniteSet(Prio) /\ 0 \in Prio /\ Prio = 0..(NumPrio - 1)
ASSUME TaskAssumption ==
  /\ PriorityOf \in [Task -> Prio]
  /\ Cancellable \subseteq Task /\ NoTask \notin Task
ASSUME ClientAssumption == IsFiniteSet(Client)

VARIABLES
  compute_queue, compute_queue_size,
  private_queue, queue_size, cancelled,
  roundRobin,
  worker,        \* where each worker is in WorkerThreadFunc()
  client,        \* where each caller is in EnqueueTask()
  main,          \* where Teardown() is
  task           \* what has become of each task

globals == <<compute_queue, compute_queue_size, roundRobin>>
privates == <<private_queue, queue_size>>
poolvars == <<globals, privates, cancelled, worker, client, main, task>>

WorkerState == [pc : {"while", "size", "lock", "global", "private", "wait",
                      "waiting", "run", "done", "exit"},
                p : Prio, task : Task \cup {NoTask}]
ClientState == [pc : {"idle", "scan", "private", "global", "choose", "notify",
                      "onThread"},
                thread : Worker, task : Task \cup {NoTask}]
MainState == [pc : {"up", "cancel", "drain", "join", "down"}, thread : Worker]
TaskState == {"new", "enqueued", "running", "ended", "cancelled"}

-----------------------------------------------------------------------------
\* The tasks that are in a queue, whatever their priority, and the places where
\* one of them is.
Queued(q) == UNION {Range(q[p]) : p \in Prio}
PlacesOf(q, t) ==
  UNION {{p} \X {i \in 1..Len(q[p]) : q[p][i] = t} : p \in Prio}

\* What the teardown leaves of a queue once it has cancelled the cancellable tasks.
Remaining(s) ==
  LET left[i \in 0..Len(s)] ==
        IF i = 0 THEN <<>>
        ELSE IF s[i] \in Cancellable THEN left[i - 1]
        ELSE Append(left[i - 1], s[i])
  IN  left[Len(s)]

\* A worker keeps its own mutex from its decision to sleep to cond.wait(), and
\* the global one while it looks through the global queue.
GlobalMutexFree == \A w \in Worker : worker[w].pc # "global"
MutexFree(w) == worker[w].pc # "wait"

\* cond.notify_one(): only the worker itself ever waits on its condition.
Notified(wk, w) ==
  IF wk[w].pc = "waiting" THEN [wk EXCEPT ![w].pc = "while"] ELSE wk

AtWorker(w, pc) == worker[w].pc = pc
Goto(w, pc) == worker' = [worker EXCEPT ![w].pc = pc]
Take(w, t) ==
  /\ worker' = [worker EXCEPT ![w].pc = "run", ![w].task = t]
  /\ task' = [task EXCEPT ![t] = "running"]

\* The priority of the first private task, or NumPrio.
FirstPrivate(w) ==
  LET has == {p \in Prio : private_queue[w][p] # <<>>}
  IN  IF has = {} THEN NumPrio ELSE Min(has)
PopPrivate(w, p) ==
  /\ Take(w, Head(private_queue[w][p]))
  /\ private_queue' = [private_queue EXCEPT ![w][p] = Tail(@)]

-----------------------------------------------------------------------------
(* WorkerThreadFunc(). *)

While(w) ==
  /\ AtWorker(w, "while")
  /\ Goto(w, IF cancelled[w] THEN "exit" ELSE "size")
  /\ UNCHANGED <<globals, privates, cancelled, client, main, task>>

LookAtGlobalSize(w) ==
  /\ AtWorker(w, "size")
  /\ Goto(w, IF compute_queue_size > 0 THEN "lock" ELSE "private")
  /\ UNCHANGED <<globals, privates, cancelled, client, main, task>>

LockGlobal(w) ==
  /\ AtWorker(w, "lock") /\ GlobalMutexFree
  /\ worker' = [worker EXCEPT ![w].pc = "global", ![w].p = 0]
  /\ UNCHANGED <<globals, privates, cancelled, client, main, task>>

\* One priority: a global task, or else a private one of the same priority.
LookInGlobal(w) ==
  /\ AtWorker(w, "global")
  /\ LET p == worker[w].p
     IN  IF compute_queue[p] # <<>>
         THEN /\ Take(w, Head(compute_queue[p]))
              /\ compute_queue' = [compute_queue EXCEPT ![p] = Tail(@)]
              /\ compute_queue_size' = compute_queue_size - 1
              /\ queue_size' = [queue_size EXCEPT ![w] = @ + 1]
              /\ UNCHANGED private_queue
         ELSE /\ IF queue_size[w] # 0 /\ private_queue[w][p] # <<>>
                 THEN PopPrivate(w, p)
                 ELSE /\ worker' = IF p + 1 \in Prio
                                   THEN [worker EXCEPT ![w].p = p + 1]
                                   ELSE [worker EXCEPT ![w].pc = "private"]
                      /\ UNCHANGED <<private_queue, task>>
              /\ UNCHANGED <<compute_queue, compute_queue_size, queue_size>>
  /\ UNCHANGED <<roundRobin, cancelled, client, main>>

\* Mutant: the global queue is not looked at again before sleeping.
LookInPrivateOnce(w) ==
  /\ AtWorker(w, "private")
  /\ IF FirstPrivate(w) \in Prio
     THEN PopPrivate(w, FirstPrivate(w))
     ELSE /\ Goto(w, IF cancelled[w] THEN "while" ELSE "wait")
          /\ UNCHANGED <<private_queue, task>>
  /\ UNCHANGED <<globals, queue_size, cancelled, client, main>>

\* Mutant: goes to sleep without looking whether it has been cancelled.
LookInPrivateUncancelled(w) ==
  /\ AtWorker(w, "private")
  /\ IF FirstPrivate(w) \in Prio
     THEN PopPrivate(w, FirstPrivate(w))
     ELSE /\ Goto(w, IF compute_queue_size > 0 THEN "while" ELSE "wait")
          /\ UNCHANGED <<private_queue, task>>
  /\ UNCHANGED <<globals, queue_size, cancelled, client, main>>

\* "We must check both queue and single again, while locked."
LookInPrivate(w) ==
  /\ AtWorker(w, "private")
  /\ IF FirstPrivate(w) \in Prio
     THEN PopPrivate(w, FirstPrivate(w))
     ELSE /\ Goto(w, IF cancelled[w] \/ compute_queue_size > 0
                     THEN "while" ELSE "wait")
          /\ UNCHANGED <<private_queue, task>>
  /\ UNCHANGED <<globals, queue_size, cancelled, client, main>>

\* Spurious wakeups are left out: a notification with nothing to do, which the
\* round robin gives, wakes a worker in the same way.
CondWait(w) ==
  /\ AtWorker(w, "wait")
  /\ Goto(w, "waiting")
  /\ UNCHANGED <<globals, privates, cancelled, client, main, task>>

\* task->Run() returns, and the task is released.
RunEnds(w) ==
  /\ AtWorker(w, "run")
  /\ worker' = [worker EXCEPT ![w].pc = "done", ![w].task = NoTask]
  /\ task' = [task EXCEPT ![worker[w].task] = "ended"]
  /\ UNCHANGED <<globals, privates, cancelled, client, main>>

ReduceQueueSize(w) ==
  /\ AtWorker(w, "done")
  /\ queue_size' = [queue_size EXCEPT ![w] = @ - 1]
  /\ Goto(w, "while")
  /\ UNCHANGED <<globals, private_queue, cancelled, client, main, task>>

WorkerStep(w) ==
  \/ While(w) \/ LookAtGlobalSize(w) \/ LockGlobal(w) \/ LookInGlobal(w)
  \/ LookInPrivate(w) \/ CondWait(w) \/ RunEnds(w) \/ ReduceQueueSize(w)

-----------------------------------------------------------------------------
(* EnqueueTask() and EnqueueTaskOnThread(). *)

AtClient(c, pc) == client[c].pc = pc
ClientGoto(c, pc, w) == client' = [client EXCEPT ![c].pc = pc, ![c].thread = w]
Return(c) == client' = [client EXCEPT ![c] = [pc |-> "idle", thread |-> 0,
                                              task |-> NoTask]]

\* Nobody enqueues during the teardown.
EnqueueTask(c, t) ==
  /\ AtClient(c, "idle") /\ task[t] = "new" /\ main.pc = "up"
  /\ client' = [client EXCEPT ![c] = [pc |-> "scan", thread |-> 0, task |-> t]]
  /\ task' = [task EXCEPT ![t] = "enqueued"]
  /\ UNCHANGED <<globals, privates, cancelled, worker, main>>

\* Looks for a worker with nothing to do, without taking its mutex.
ScanThread(c) ==
  /\ AtClient(c, "scan")
  /\ LET w == client[c].thread
     IN  IF queue_size[w] = 0 THEN ClientGoto(c, "private", w)
         ELSE IF w + 1 \in Worker THEN ClientGoto(c, "scan", w + 1)
         ELSE ClientGoto(c, "global", 0)
  /\ UNCHANGED <<globals, privates, cancelled, worker, main, task>>

PushPrivate(c) ==
  /\ AtClient(c, "private")
  /\ LET w == client[c].thread
         t == client[c].task
     IN  /\ MutexFree(w)
         /\ private_queue' = [private_queue EXCEPT ![w][PriorityOf[t]] = Append(@, t)]
         /\ queue_size' = [queue_size EXCEPT ![w] = @ + 1]
         /\ worker' = Notified(worker, w)
  /\ Return(c)
  /\ UNCHANGED <<globals, cancelled, main, task>>

PushGlobal(c) ==
  /\ AtClient(c, "global") /\ GlobalMutexFree
  /\ LET t == client[c].task
     IN  compute_queue' = [compute_queue EXCEPT ![PriorityOf[t]] = Append(@, t)]
  /\ compute_queue_size' = compute_queue_size + 1
  /\ client' = [client EXCEPT ![c].pc = "choose", ![c].task = NoTask]
  /\ UNCHANGED <<privates, roundRobin, cancelled, worker, main, task>>

\* roundRobin counts on and is used modulo the number of workers.
ChooseThread(c) ==
  /\ AtClient(c, "choose")
  /\ ClientGoto(c, "notify", roundRobin)
  /\ roundRobin' = (roundRobin + 1) % NumWorkers
  /\ UNCHANGED <<compute_queue, compute_queue_size, privates, cancelled, worker,
                 main, task>>

\* Mutant: the worker is notified without its mutex.
NotifyThreadUnlocked(c) ==
  /\ AtClient(c, "notify")
  /\ worker' = Notified(worker, client[c].thread)
  /\ Return(c)
  /\ UNCHANGED <<globals, privates, cancelled, main, task>>

\* "Lock the thread to ensure it gets the message."
NotifyThread(c) ==
  /\ AtClient(c, "notify") /\ MutexFree(client[c].thread)
  /\ worker' = Notified(worker, client[c].thread)
  /\ Return(c)
  /\ UNCHANGED <<globals, privates, cancelled, main, task>>

EnqueueTaskOnThread(c, w, t) ==
  /\ AtClient(c, "idle") /\ task[t] = "new" /\ main.pc = "up"
  /\ queue_size' = [queue_size EXCEPT ![w] = @ + 1]
  /\ client' = [client EXCEPT ![c] = [pc |-> "onThread", thread |-> w, task |-> t]]
  /\ task' = [task EXCEPT ![t] = "enqueued"]
  /\ UNCHANGED <<globals, private_queue, cancelled, worker, main>>

PushOnThread(c) ==
  /\ AtClient(c, "onThread")
  /\ LET w == client[c].thread
         t == client[c].task
     IN  /\ MutexFree(w)
         /\ private_queue' = [private_queue EXCEPT ![w][PriorityOf[t]] = Append(@, t)]
         /\ worker' = Notified(worker, w)
  /\ Return(c)
  /\ UNCHANGED <<globals, queue_size, cancelled, main, task>>

ClientStep(c) ==
  \/ ScanThread(c) \/ PushPrivate(c) \/ PushGlobal(c) \/ ChooseThread(c)
  \/ NotifyThread(c) \/ PushOnThread(c)

-----------------------------------------------------------------------------
(* Teardown(). *)

MainGoto(pc, w) == main' = [pc |-> pc, thread |-> w]
NextThread(w, here, next) ==
  IF w + 1 \in Worker THEN MainGoto(here, w + 1) ELSE MainGoto(next, 0)

Teardown ==
  /\ main.pc = "up" /\ \A c \in Client : AtClient(c, "idle")
  /\ MainGoto("cancel", 0)
  /\ UNCHANGED <<globals, privates, cancelled, worker, client, task>>

CancelThread ==
  /\ main.pc = "cancel" /\ MutexFree(main.thread)
  /\ cancelled' = [cancelled EXCEPT ![main.thread] = TRUE]
  /\ worker' = Notified(worker, main.thread)
  /\ NextThread(main.thread, "cancel", "drain")
  /\ UNCHANGED <<globals, privates, client, task>>

\* Cancels and releases the cancellable tasks of the global queue.
DrainGlobal ==
  /\ main.pc = "drain"
  /\ IF compute_queue_size = 0
     THEN UNCHANGED <<compute_queue, compute_queue_size, task>>
     ELSE /\ GlobalMutexFree
          /\ LET gone == Cancellable \cap Queued(compute_queue)
             IN  /\ compute_queue' = [p \in Prio |-> Remaining(compute_queue[p])]
                 /\ compute_queue_size' = compute_queue_size - Cardinality(gone)
                 /\ task' = [t \in Task |-> IF t \in gone THEN "cancelled"
                                            ELSE task[t]]
  /\ MainGoto("join", 0)
  /\ UNCHANGED <<privates, roundRobin, cancelled, worker, client>>

\* Mutant: what is left in the private queue is deleted with the worker.
JoinThreadDrops ==
  LET w == main.thread
  IN  /\ main.pc = "join" /\ AtWorker(w, "exit")
      /\ private_queue' = [private_queue EXCEPT ![w] = [p \in Prio |-> <<>>]]
      /\ NextThread(w, "join", "down")
      /\ UNCHANGED <<globals, queue_size, cancelled, worker, client, task>>

\* thread.join(), and what is left in the private queue is cancelled or goes back
\* to the global queue.  The code pushes without the global mutex: a worker that
\* is still in its section then races with it, which is left out here.
JoinThread ==
  LET w == main.thread
      here == Queued(private_queue[w])
  IN  /\ main.pc = "join" /\ AtWorker(w, "exit") /\ GlobalMutexFree
      /\ compute_queue' =
           [p \in Prio |-> compute_queue[p] \o Remaining(private_queue[w][p])]
      /\ compute_queue_size' = compute_queue_size + Cardinality(here \ Cancellable)
      /\ task' = [t \in Task |-> IF t \in Cancellable \cap here THEN "cancelled"
                                ELSE task[t]]
      /\ private_queue' = [private_queue EXCEPT ![w] = [p \in Prio |-> <<>>]]
      /\ NextThread(w, "join", "down")
      /\ UNCHANGED <<queue_size, roundRobin, cancelled, worker, client>>

MainStep == CancelThread \/ DrainGlobal \/ JoinThread

-----------------------------------------------------------------------------
NoWork == [p \in Prio |-> <<>>]

Init ==
  /\ compute_queue = NoWork /\ compute_queue_size = 0
  /\ private_queue = [w \in Worker |-> NoWork]
  /\ queue_size = [w \in Worker |-> 0]
  /\ cancelled = [w \in Worker |-> FALSE]
  /\ roundRobin = 0
  /\ worker = [w \in Worker |-> [pc |-> "while", p |-> 0, task |-> NoTask]]
  /\ client = [c \in Client |-> [pc |-> "idle", thread |-> 0, task |-> NoTask]]
  /\ main = [pc |-> "up", thread |-> 0]
  /\ task = [t \in Task |-> "new"]

Next ==
  \/ \E w \in Worker : WorkerStep(w)
  \/ \E c \in Client :
       \/ ClientStep(c)
       \/ \E t \in Task :
            \/ EnqueueTask(c, t)
            \/ \E w \in Worker : EnqueueTaskOnThread(c, w, t)
  \/ Teardown \/ MainStep

Spec == Init /\ [][Next]_poolvars

\* The host schedules every thread, and every task comes to an end.
FairSpec ==
  /\ Spec
  /\ \A w \in Worker : WF_poolvars(WorkerStep(w))
  /\ \A c \in Client : WF_poolvars(ClientStep(c))
  /\ WF_poolvars(MainStep)

-----------------------------------------------------------------------------
(* Properties. *)

PoolTypeOK ==
  /\ compute_queue \in [Prio -> Seq(Task)] /\ compute_queue_size \in Nat
  /\ private_queue \in [Worker -> [Prio -> Seq(Task)]]
  /\ queue_size \in [Worker -> Nat] /\ cancelled \in [Worker -> BOOLEAN]
  /\ roundRobin \in Worker
  /\ worker \in [Worker -> WorkerState] /\ client \in [Client -> ClientState]
  /\ main \in MainState /\ task \in [Task -> TaskState]

\* No task is lost or run twice: one that has been enqueued and not yet begun is
\* with its caller or in exactly one queue, once, and one that runs is with one
\* worker.  Workers, callers and the teardown move tasks between the queues.
EachTaskInOnePlace ==
  \A t \in Task :
    LET queued ==
          {<<"global", x>> : x \in PlacesOf(compute_queue, t)}
          \cup {<<"caller", c>> : c \in {d \in Client : client[d].task = t}}
          \cup UNION {{<<"private", w, x>> : x \in PlacesOf(private_queue[w], t)} :
                       w \in Worker}
        run == {w \in Worker : worker[w].task = t}
    IN  /\ Cardinality(queued) = (IF task[t] = "enqueued" THEN 1 ELSE 0)
        /\ Cardinality(run) = (IF task[t] = "running" THEN 1 ELSE 0)

\* The teardown deletes a worker's context when it has joined its thread.
Joined(w) == main.pc = "down" \/ (main.pc = "join" /\ w < main.thread)

\* queue_size, which EnqueueTask() reads without a lock, is the number of tasks the
\* worker has, queued, running or about to be pushed (a commented-out assertion in
\* WorkerThreadFunc() leaves out the last two); and a worker that reads zero from
\* compute_queue_size before it sleeps leaves no task behind in the global queue.
QueueSizesExact ==
  /\ compute_queue_size = Cardinality(Queued(compute_queue))
  /\ \A w \in Worker :
       ~Joined(w) =>
         queue_size[w] =
           Cardinality(Queued(private_queue[w]))
           + (IF worker[w].pc \in {"run", "done"} THEN 1 ELSE 0)
           + Cardinality({c \in Client : AtClient(c, "onThread") /\ client[c].thread = w})

\* What the steps of all threads keep together, although queues, tasks and the two
\* kinds of counters are changed under different locks.
PoolInv == PoolTypeOK /\ EachTaskInOnePlace /\ QueueSizesExact

\* Workers do not sleep on work: one that waits has no private task and has not
\* been cancelled, and while there is a global task some worker is awake or about
\* to be notified (not necessarily an idle one).
SleepersHaveNoWork ==
  /\ \A w \in Worker : AtWorker(w, "waiting") =>
       FirstPrivate(w) = NumPrio /\ ~cancelled[w]
  /\ compute_queue_size > 0 /\ main.pc = "up" =>
       \/ \E w \in Worker : worker[w].pc # "waiting"
       \/ \E c \in Client : client[c].pc \in {"choose", "notify"}

\* Every task that is enqueued is run in the end, or cancelled by the teardown, or
\* in the global queue when the teardown is done.
EveryTaskHandled ==
  \A t \in Task :
    task[t] = "enqueued" ~>
      task[t] \in {"ended", "cancelled"} \/ (main.pc = "down" /\ t \in Queued(compute_queue))

\* The teardown does not wait forever for a worker.
TeardownEnds == main.pc = "cancel" ~> main.pc = "down"
=============================================================================
