----------------------------- MODULE ThreadPool -----------------------------
(***************************************************************************)
(* Thread_Pool (src/include/ThreadPool.h): workers that take tasks from a  *)
(* queue, client threads that enqueue them, and the owner, who destroys    *)
(* the pool.                                                               *)
(*                                                                         *)
(* Every access to the queue and to `stop` happens under queue_mutex, so a *)
(* critical section is one step; condition.wait releases the mutex in the  *)
(* same step that puts the worker to sleep.  The notifications come after  *)
(* the mutex is released, and are steps of their own.  A sleeping worker   *)
(* may also wake for no reason.                                            *)
(***************************************************************************)
EXTENDS Naturals, Sequences, FiniteSets

CONSTANTS
  Worker,  \* the threads the constructor starts
  Client,  \* threads that enqueue tasks from outside
  Task,    \* tasks, each enqueued at most once
  NoTask,
  FollowUp \* task -> the task it enqueues itself while it runs, or NoTask

ASSUME PoolAssumption ==
  /\ Worker # {} /\ IsFiniteSet(Worker) /\ Worker \cap Client = {}
  /\ NoTask \notin Task
  /\ FollowUp \in [Task -> Task \cup {NoTask}]

FromOutside == Task \ {FollowUp[t] : t \in Task}
Thread == Worker \cup Client

VARIABLES
  tasks,     \* the queue
  stop,      \* set by the destructor
  pc,        \* what each worker is doing
  current,   \* worker -> the task it runs, or NoTask
  notifying, \* threads that have queued a task and have yet to call notify_one
  owner,     \* "using" the pool, in its destructor, or "gone"
  accepted,  \* history: the tasks queued so far, in order
  started,   \* history: the tasks taken so far, in order
  finished,  \* history: the tasks that have run to their end
  refused    \* history: the tasks enqueue has thrown for

vars == <<tasks, stop, pc, current, notifying, owner,
          accepted, started, finished, refused>>

Elements(s) == {s[i] : i \in DOMAIN s}
Asleep == {w \in Worker : pc[w] = "asleep"}
Submitted == Elements(accepted) \cup refused

Init ==
  /\ tasks = <<>> /\ stop = FALSE
  /\ pc = [w \in Worker |-> "checking"]
  /\ current = [w \in Worker |-> NoTask]
  /\ notifying = {} /\ owner = "using"
  /\ accepted = <<>> /\ started = <<>> /\ finished = {} /\ refused = {}
-----------------------------------------------------------------------------
(* enqueue                                                                 *)

(* Mutants of Push: no notification follows; the newest task goes first.   *)
PushSilently(thread, t) ==
  /\ ~stop
  /\ tasks' = Append(tasks, t)
  /\ accepted' = Append(accepted, t)
  /\ UNCHANGED notifying
PushInFront(thread, t) ==
  /\ ~stop
  /\ tasks' = <<t>> \o tasks
  /\ accepted' = Append(accepted, t)
  /\ notifying' = notifying \cup {thread}

(* The critical section of enqueue: it throws on a stopped pool. *)
Push(thread, t) ==
  /\ ~stop
  /\ tasks' = Append(tasks, t)
  /\ accepted' = Append(accepted, t)
  /\ notifying' = notifying \cup {thread}

Refuse(t) ==
  /\ stop
  /\ refused' = refused \cup {t}
  /\ UNCHANGED <<tasks, accepted, notifying>>

(* A client may not use the pool any more once its destructor has begun.   *)
Enqueue(c, t) ==
  /\ owner = "using" /\ c \notin notifying
  /\ t \notin Submitted
  /\ Push(c, t)
  /\ UNCHANGED <<stop, pc, current, owner, started, finished, refused>>

(* notify_one wakes one of the sleeping workers, if there is one. *)
WakeOne ==
  \/ Asleep = {} /\ UNCHANGED pc
  \/ \E w \in Asleep : pc' = [pc EXCEPT ![w] = "checking"]

NotifyOne(thread) ==
  /\ thread \in notifying
  /\ WakeOne
  /\ notifying' = notifying \ {thread}
  /\ UNCHANGED <<tasks, stop, current, owner, accepted, started, finished, refused>>
-----------------------------------------------------------------------------
(* A worker                                                                *)

(* Mutant of Leave: a worker leaves a stopped pool with tasks in the queue. *)
LeaveAtOnce(w) ==
  /\ stop
  /\ pc' = [pc EXCEPT ![w] = "left"]
  /\ UNCHANGED <<tasks, current, started>>

(* The critical section at the top of its loop: leave, take a task, or wait. *)
Leave(w) ==
  /\ stop /\ tasks = <<>>
  /\ pc' = [pc EXCEPT ![w] = "left"]
  /\ UNCHANGED <<tasks, current, started>>

Take(w) ==
  /\ tasks # <<>>
  /\ pc' = [pc EXCEPT ![w] = "running"]
  /\ current' = [current EXCEPT ![w] = Head(tasks)]
  /\ tasks' = Tail(tasks)
  /\ started' = Append(started, Head(tasks))

Wait(w) ==
  /\ ~stop /\ tasks = <<>>
  /\ pc' = [pc EXCEPT ![w] = "asleep"]
  /\ UNCHANGED <<tasks, current, started>>

Check(w) ==
  /\ pc[w] = "checking"
  /\ Leave(w) \/ Take(w) \/ Wait(w)
  /\ UNCHANGED <<stop, notifying, owner, accepted, finished, refused>>

WakeForNoReason(w) ==
  /\ pc[w] = "asleep"
  /\ pc' = [pc EXCEPT ![w] = "checking"]
  /\ UNCHANGED <<tasks, stop, current, notifying, owner,
                 accepted, started, finished, refused>>

(* The task enqueues another one; on a stopped pool this throws, and the   *)
(* exception ends in the task's future.                                    *)
RunFollowUp(w) ==
  /\ pc[w] = "running" /\ w \notin notifying
  /\ FollowUp[current[w]] \in Task \ Submitted
  /\ \/ Push(w, FollowUp[current[w]]) /\ UNCHANGED refused
     \/ Refuse(FollowUp[current[w]])
  /\ UNCHANGED <<stop, pc, current, owner, started, finished>>

(* Mutant of Finish: the worker keeps its task. *)
FinishAndKeep(w) ==
  /\ pc[w] = "running" /\ w \notin notifying
  /\ FollowUp[current[w]] \notin Task \ Submitted
  /\ finished' = finished \cup {current[w]}
  /\ pc' = [pc EXCEPT ![w] = "checking"]
  /\ UNCHANGED <<tasks, stop, current, notifying, owner, accepted, started, refused>>

Finish(w) ==
  /\ pc[w] = "running" /\ w \notin notifying
  /\ FollowUp[current[w]] \notin Task \ Submitted
  /\ finished' = finished \cup {current[w]}
  /\ current' = [current EXCEPT ![w] = NoTask]
  /\ pc' = [pc EXCEPT ![w] = "checking"]
  /\ UNCHANGED <<tasks, stop, notifying, owner, accepted, started, refused>>
-----------------------------------------------------------------------------
(* The destructor; no client is inside enqueue when it begins. *)
SetStop ==
  /\ owner = "using" /\ notifying \cap Client = {}
  /\ stop' = TRUE
  /\ owner' = "stopped"
  /\ UNCHANGED <<tasks, pc, current, notifying, accepted, started, finished, refused>>

(* Mutant of NotifyAll: one worker is woken. *)
NotifyOnlyOne ==
  /\ owner = "stopped"
  /\ WakeOne
  /\ owner' = "joining"
  /\ UNCHANGED <<tasks, stop, current, notifying, accepted, started, finished, refused>>

NotifyAll ==
  /\ owner = "stopped"
  /\ pc' = [w \in Worker |-> IF w \in Asleep THEN "checking" ELSE pc[w]]
  /\ owner' = "joining"
  /\ UNCHANGED <<tasks, stop, current, notifying, accepted, started, finished, refused>>

Join ==
  /\ owner = "joining"
  /\ \A w \in Worker : pc[w] = "left"
  /\ owner' = "gone"
  /\ UNCHANGED <<tasks, stop, pc, current, notifying,
                 accepted, started, finished, refused>>

Next ==
  \/ \E c \in Client, t \in FromOutside : Enqueue(c, t)
  \/ \E thread \in Thread : NotifyOne(thread)
  \/ \E w \in Worker : \/ Check(w) \/ WakeForNoReason(w)
                       \/ RunFollowUp(w) \/ Finish(w)
  \/ SetStop \/ NotifyAll \/ Join

Spec == Init /\ [][Next]_vars

(* Threads that can run do run, and a task ends; nobody has to enqueue,    *)
(* destroy the pool or wake for no reason.                                 *)
FairSpec ==
  /\ Spec
  /\ \A w \in Worker : WF_vars(Check(w) \/ RunFollowUp(w) \/ Finish(w))
  /\ \A thread \in Thread : WF_vars(NotifyOne(thread))
  /\ WF_vars(NotifyAll \/ Join)
-----------------------------------------------------------------------------
TypeOK ==
  /\ tasks \in Seq(Task) /\ stop \in BOOLEAN
  /\ pc \in [Worker -> {"checking", "asleep", "running", "left"}]
  /\ current \in [Worker -> Task \cup {NoTask}]
  /\ \A w \in Worker : pc[w] = "running" <=> current[w] # NoTask
  /\ notifying \subseteq Thread
  /\ owner \in {"using", "stopped", "joining", "gone"}
  /\ accepted \in Seq(Task) /\ started \in Seq(Task)
  /\ finished \subseteq Task /\ refused \subseteq Task

(* The workers never all sleep on a non-empty queue, although notify_one   *)
(* comes after the unlock: then some client is still about to notify.  And *)
(* none sleeps once the destructor has notified them all.                  *)
NoLostWakeup ==
  /\ tasks # <<>> /\ Asleep = Worker => notifying # {}
  /\ owner \in {"joining", "gone"} => Asleep = {}

(* Tasks are taken in the order they were queued, and none twice. *)
TasksAreTakenInOrder ==
  /\ accepted = started \o tasks
  /\ \A i, j \in DOMAIN accepted : accepted[i] = accepted[j] => i = j

(* A worker leaves only when its pool has no work left, now or later: when *)
(* all have left, every accepted task has run, also those other tasks      *)
(* queued shortly before stop was set.                                     *)
DestructorDrainsQueue ==
  /\ \A w \in Worker : pc[w] = "left" => stop /\ tasks = <<>>
  /\ owner = "gone" => Elements(accepted) = finished

(* An accepted task runs, whether or not the pool is being destroyed. *)
AcceptedTasksRun ==
  \A t \in Task : t \in Elements(accepted) ~> t \in finished

(* The destructor returns: no worker sleeps through stop. *)
DestructorReturns == stop ~> owner = "gone"
=============================================================================
