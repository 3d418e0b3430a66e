-------------------------- MODULE ThreadPoolProofs --------------------------
(***************************************************************************)
(* Proofs about ThreadPool for any number of workers, clients and tasks,   *)
(* and any tasks that tasks enqueue themselves.                            *)
(***************************************************************************)
EXTENDS ThreadPool, TLAPS, SequenceTheorems

-----------------------------------------------------------------------------
(* Sequences of tasks                                                      *)

(* Appending adds one element, and keeps a sequence free of duplicates if  *)
(* the element is new.                                                     *)
LEMMA AppendElements ==
  ASSUME NEW s \in Seq(Task), NEW t \in Task
  PROVE  /\ Elements(Append(s, t)) = Elements(s) \cup {t}
         /\ (t \notin Elements(s) /\ \A i, j \in DOMAIN s : s[i] = s[j] => i = j)
              => \A i, j \in DOMAIN Append(s, t) :
                   Append(s, t)[i] = Append(s, t)[j] => i = j
<1> DEFINE a == Append(s, t)
<1>1. /\ Len(s) \in Nat /\ DOMAIN s = 1 .. Len(s)
      /\ DOMAIN a = 1 .. Len(s) + 1
      /\ \A i \in 1 .. Len(s) : a[i] = s[i]
      /\ a[Len(s) + 1] = t
  BY LenProperties, AppendProperties
<1> HIDE DEF a
<1>2. Elements(a) = Elements(s) \cup {t}
  <2>1. \A i \in DOMAIN a : a[i] \in Elements(s) \cup {t}
    BY <1>1 DEF Elements
  <2>2. \A i \in DOMAIN s : s[i] \in Elements(a)
    BY <1>1 DEF Elements
  <2>3. t \in Elements(a)
    BY <1>1 DEF Elements
  <2>4. QED
    BY <2>1, <2>2, <2>3 DEF Elements
<1>3. ASSUME t \notin Elements(s),
             \A i, j \in DOMAIN s : s[i] = s[j] => i = j,
             NEW i \in DOMAIN a, NEW j \in DOMAIN a, a[i] = a[j]
      PROVE  i = j
  BY <1>1, <1>3 DEF Elements
<1>4. QED
  BY <1>2, <1>3 DEF a

(* The elements of a concatenation. *)
LEMMA ConcatElements ==
  ASSUME NEW s \in Seq(Task), NEW u \in Seq(Task)
  PROVE  Elements(s \o u) = Elements(s) \cup Elements(u)
<1> DEFINE a == s \o u
<1>1. /\ Len(s) \in Nat /\ DOMAIN s = 1 .. Len(s)
      /\ Len(u) \in Nat /\ DOMAIN u = 1 .. Len(u)
      /\ DOMAIN a = 1 .. Len(s) + Len(u)
      /\ \A i \in 1 .. Len(s) + Len(u) :
           a[i] = IF i <= Len(s) THEN s[i] ELSE u[i - Len(s)]
  BY LenProperties, ConcatProperties
<1> HIDE DEF a
<1>2. \A i \in DOMAIN a : a[i] \in Elements(s) \cup Elements(u)
  <2> TAKE i \in DOMAIN a
  <2>1. CASE i <= Len(s)
    BY <1>1, <2>1 DEF Elements
  <2>2. CASE i > Len(s)
    <3>1. i - Len(s) \in DOMAIN u /\ a[i] = u[i - Len(s)]
      BY <1>1, <2>2
    <3>2. QED
      BY <3>1 DEF Elements
  <2>3. QED
    BY <2>1, <2>2, <1>1
<1>3. \A i \in DOMAIN s : s[i] \in Elements(a)
  <2> TAKE i \in DOMAIN s
  <2>1. i \in DOMAIN a /\ a[i] = s[i]
    BY <1>1
  <2>2. QED
    BY <2>1 DEF Elements
<1>4. \A i \in DOMAIN u : u[i] \in Elements(a)
  <2> TAKE i \in DOMAIN u
  <2>1. i + Len(s) \in DOMAIN a /\ a[i + Len(s)] = u[i]
    BY <1>1
  <2>2. QED
    BY <2>1 DEF Elements
<1>5. QED
  BY <1>2, <1>3, <1>4 DEF Elements, a

(* Moving the head of one sequence to the end of another one leaves their  *)
(* concatenation as it is.                                                 *)
LEMMA MoveHead ==
  ASSUME NEW s \in Seq(Task), NEW u \in Seq(Task), u # <<>>
  PROVE  /\ Head(u) \in Task /\ Tail(u) \in Seq(Task)
         /\ Append(s, Head(u)) \o Tail(u) = s \o u
<1>1. Head(u) \in Task /\ Tail(u) \in Seq(Task)
  BY HeadTailProperties
<1>2. Append(s, Head(u)) = s \o <<Head(u)>>
  BY <1>1, AppendIsConcat
<1>3. <<Head(u)>> \o Tail(u) = u
  <2>1. <<Head(u)>> \in Seq(Task) /\ Len(<<Head(u)>>) = 1 /\ <<Head(u)>>[1] = Head(u)
    BY <1>1
  <2>2. /\ Len(u) \in Nat \ {0} /\ Len(Tail(u)) = Len(u) - 1
        /\ \A i \in 1 .. Len(u) - 1 : Tail(u)[i] = u[i + 1]
        /\ Head(u) = u[1]
    BY HeadTailProperties, EmptySeq, LenProperties
  <2>3. /\ <<Head(u)>> \o Tail(u) \in Seq(Task)
        /\ Len(<<Head(u)>> \o Tail(u)) = Len(u)
        /\ \A i \in 1 .. Len(u) :
             (<<Head(u)>> \o Tail(u))[i] =
               IF i <= 1 THEN <<Head(u)>>[i] ELSE Tail(u)[i - 1]
    BY <1>1, <2>1, <2>2, ConcatProperties
  <2>4. \A i \in 1 .. Len(u) : (<<Head(u)>> \o Tail(u))[i] = u[i]
    BY <2>1, <2>2, <2>3
  <2>5. QED
    BY <2>3, <2>4, SeqEqual
<1>4. (s \o <<Head(u)>>) \o Tail(u) = s \o (<<Head(u)>> \o Tail(u))
  <2>1. <<Head(u)>> \in Seq(Task)
    BY <1>1
  <2>2. QED
    BY <1>1, <2>1, ConcatAssociative
<1>5. QED
  BY <1>1, <1>2, <1>3, <1>4

-----------------------------------------------------------------------------
(* The inductive invariant                                                 *)

Running == {w \in Worker : pc[w] = "running"}

(* stop is the destructor's flag, and Join is its last statement. *)
OwnerInv ==
  /\ stop <=> owner # "using"
  /\ owner = "gone" => \A w \in Worker : pc[w] = "left"

(* A worker that has left saw a stopped pool without tasks. *)
LeftInv == \A w \in Worker : pc[w] = "left" => stop /\ tasks = <<>>

(* A task that was taken has run or is being run: no worker drops one. *)
TakenInv == Elements(started) = finished \cup {current[w] : w \in Running}

PoolInv ==
  /\ TypeOK /\ TasksAreTakenInOrder /\ NoLostWakeup
  /\ OwnerInv /\ LeftInv /\ TakenInv

LEMMA InitPoolInv == Init => PoolInv
<1> SUFFICES ASSUME Init PROVE PoolInv
  OBVIOUS
<1>1. <<>> \in Seq(Task) /\ <<>> \o <<>> = <<>> /\ DOMAIN <<>> = {}
  BY ConcatEmptySeq, EmptySeq, LenProperties
<1>2. TypeOK
  BY <1>1 DEF Init, TypeOK
<1>3. TasksAreTakenInOrder
  BY <1>1 DEF Init, TasksAreTakenInOrder
<1>4. NoLostWakeup /\ OwnerInv /\ LeftInv
  BY DEF Init, NoLostWakeup, OwnerInv, LeftInv
<1>5. TakenInv
  BY <1>1 DEF Init, TakenInv, Elements, Running
<1>6. QED
  BY <1>2, <1>3, <1>4, <1>5 DEF PoolInv

(* A task queued from anywhere: at the end, once, and with a notification  *)
(* to follow.                                                              *)
LEMMA PushPreserves ==
  ASSUME PoolInv, NEW thread \in Thread, NEW t \in Task \ Submitted,
         Push(thread, t),
         UNCHANGED <<stop, pc, current, owner, started, finished, refused>>
  PROVE  PoolInv'
<1>1. /\ tasks \in Seq(Task) /\ accepted \in Seq(Task) /\ started \in Seq(Task)
      /\ t \notin Elements(accepted) /\ accepted = started \o tasks
      /\ \A i, j \in DOMAIN accepted : accepted[i] = accepted[j] => i = j
  BY DEF PoolInv, TypeOK, TasksAreTakenInOrder, Submitted
<1>2. tasks' = Append(tasks, t) /\ accepted' = Append(accepted, t)
  BY DEF Push
<1>3. tasks' \in Seq(Task) /\ accepted' \in Seq(Task)
  BY <1>1, <1>2, AppendProperties
<1>4. TypeOK'
  BY <1>3 DEF PoolInv, TypeOK, Push, Thread
<1>5. TasksAreTakenInOrder'
  <2>1. Append(started \o tasks, t) = started \o Append(tasks, t)
    <3>1. <<t>> \in Seq(Task) /\ started \o tasks \in Seq(Task)
      BY <1>1
    <3>2. (started \o tasks) \o <<t>> = started \o (tasks \o <<t>>)
      BY <1>1, <3>1, ConcatAssociative
    <3>3. /\ Append(started \o tasks, t) = (started \o tasks) \o <<t>>
          /\ Append(tasks, t) = tasks \o <<t>>
      BY <1>1, <3>1, AppendIsConcat
    <3>4. QED
      BY <3>2, <3>3
  <2>2. \A i, j \in DOMAIN accepted' : accepted'[i] = accepted'[j] => i = j
    BY <1>1, <1>2, AppendElements
  <2>3. QED
    BY <1>1, <1>2, <2>1, <2>2 DEF TasksAreTakenInOrder
<1>6. NoLostWakeup'
  BY DEF PoolInv, NoLostWakeup, Push, Asleep
<1>7. OwnerInv' /\ LeftInv' /\ TakenInv'
  BY DEF PoolInv, OwnerInv, LeftInv, TakenInv, Running, Push, Elements
<1>8. QED
  BY <1>4, <1>5, <1>6, <1>7 DEF PoolInv

LEMMA EnqueuePreserves ==
  ASSUME PoolInv, NEW c \in Client, NEW t \in FromOutside, Enqueue(c, t)
  PROVE  PoolInv'
<1>1. c \in Thread /\ t \in Task \ Submitted
  BY DEF Enqueue, Thread, FromOutside
<1>2. QED
  BY <1>1, PushPreserves DEF Enqueue

(* Only the thread that wakes up and the notifier are disturbed. *)
LEMMA NotifyOnePreserves ==
  ASSUME PoolInv, NEW thread \in Thread, NotifyOne(thread)
  PROVE  PoolInv'
<1>1. UNCHANGED <<tasks, stop, current, owner, accepted, started, finished, refused>>
  BY DEF NotifyOne
<1>2. CASE Asleep = {} /\ UNCHANGED pc
  <2>1. Worker # {}
    BY PoolAssumption
  <2>2. TypeOK'
    BY <1>1, <1>2 DEF PoolInv, TypeOK, NotifyOne
  <2>3. NoLostWakeup'
    BY <1>1, <1>2, <2>1 DEF PoolInv, NoLostWakeup, Asleep
  <2>4. QED
    BY <1>1, <1>2, <2>2, <2>3
       DEF PoolInv, TasksAreTakenInOrder, OwnerInv, LeftInv, TakenInv, Running, Elements
<1>3. CASE \E w \in Asleep : pc' = [pc EXCEPT ![w] = "checking"]
  <2>1. PICK w \in Asleep : pc' = [pc EXCEPT ![w] = "checking"]
    BY <1>3
  <2>2. /\ w \in Worker /\ pc[w] = "asleep" /\ pc'[w] = "checking"
        /\ \A v \in Worker \ {w} : pc'[v] = pc[v]
        /\ pc' \in [Worker -> {"checking", "asleep", "running", "left"}]
    BY <2>1 DEF PoolInv, TypeOK, Asleep
  <2>3. Asleep' = Asleep \ {w} /\ Running' = Running
    BY <2>2 DEF Asleep, Running
  <2>4. TypeOK'
    BY <1>1, <2>2 DEF PoolInv, TypeOK, NotifyOne
  <2>5. NoLostWakeup'
    BY <1>1, <2>2, <2>3 DEF PoolInv, NoLostWakeup
  <2>6. OwnerInv' /\ LeftInv'
    BY <1>1, <2>2 DEF PoolInv, OwnerInv, LeftInv
  <2>7. TakenInv'
    BY <1>1, <2>3 DEF PoolInv, TakenInv, Elements
  <2>8. TasksAreTakenInOrder'
    BY <1>1 DEF PoolInv, TasksAreTakenInOrder
  <2>9. QED
    BY <2>4, <2>5, <2>6, <2>7, <2>8 DEF PoolInv
<1>4. QED
  BY <1>2, <1>3 DEF NotifyOne, WakeOne

(* One critical section at the top of the worker's loop.  A worker falls   *)
(* asleep only on an empty queue of a pool that is not stopped, and leaves *)
(* only an empty queue of a stopped one.                                   *)
LEMMA CheckPreserves ==
  ASSUME PoolInv, NEW w \in Worker, Check(w)
  PROVE  PoolInv'
<1>1. /\ UNCHANGED <<stop, notifying, owner, accepted, finished, refused>>
      /\ pc[w] = "checking" /\ current[w] = NoTask
      /\ tasks \in Seq(Task) /\ started \in Seq(Task)
      /\ pc \in [Worker -> {"checking", "asleep", "running", "left"}]
      /\ current \in [Worker -> Task \cup {NoTask}]
  BY DEF Check, PoolInv, TypeOK
<1>2. owner # "gone"
  BY <1>1 DEF PoolInv, OwnerInv
<1>3. CASE Leave(w)
  <2>1. /\ UNCHANGED <<tasks, current, started>> /\ stop /\ tasks = <<>>
        /\ pc' = [pc EXCEPT ![w] = "left"]
    BY <1>3 DEF Leave
  <2>2. Asleep' = Asleep /\ Running' = Running
    BY <1>1, <2>1 DEF Asleep, Running
  <2>3. TypeOK'
    BY <1>1, <2>1 DEF PoolInv, TypeOK
  <2>4. TasksAreTakenInOrder' /\ NoLostWakeup'
    BY <1>1, <2>1, <2>2 DEF PoolInv, TasksAreTakenInOrder, NoLostWakeup
  <2>5. OwnerInv' /\ LeftInv'
    BY <1>1, <1>2, <2>1 DEF PoolInv, OwnerInv, LeftInv
  <2>6. TakenInv'
    BY <1>1, <2>1, <2>2 DEF PoolInv, TakenInv, Elements
  <2>7. QED
    BY <2>3, <2>4, <2>5, <2>6 DEF PoolInv
<1>4. CASE Take(w)
  <2> DEFINE t == Head(tasks)
  <2>1. /\ tasks # <<>> /\ tasks' = Tail(tasks) /\ started' = Append(started, t)
        /\ pc' = [pc EXCEPT ![w] = "running"]
        /\ current' = [current EXCEPT ![w] = t]
    BY <1>4 DEF Take
  <2>2. /\ t \in Task /\ tasks' \in Seq(Task)
        /\ started' \in Seq(Task) /\ started' \o tasks' = started \o tasks
        /\ Elements(started') = Elements(started) \cup {t}
    BY <1>1, <2>1, MoveHead, AppendProperties, AppendElements
  <2> HIDE DEF t
  <2>3. t # NoTask
    BY <2>2, PoolAssumption
  <2>4. /\ Asleep' = Asleep /\ w \notin Asleep
        /\ Running' = Running \cup {w} /\ w \notin Running
    BY <1>1, <2>1 DEF Asleep, Running
  <2>5. TypeOK'
    BY <1>1, <2>1, <2>2, <2>3 DEF PoolInv, TypeOK
  <2>6. TasksAreTakenInOrder'
    BY <1>1, <2>2 DEF PoolInv, TasksAreTakenInOrder
  <2>7. NoLostWakeup' /\ OwnerInv' /\ LeftInv'
    BY <1>1, <1>2, <2>1, <2>4
       DEF PoolInv, NoLostWakeup, OwnerInv, LeftInv
  <2>8. TakenInv'
    <3>1. {current'[v] : v \in Running'} = {current[v] : v \in Running} \cup {t}
      BY <1>1, <2>1, <2>4 DEF Running
    <3>2. Elements(started)' = Elements(started')
      BY DEF Elements
    <3>3. QED
      BY <1>1, <2>2, <3>1, <3>2 DEF PoolInv, TakenInv
  <2>9. QED
    BY <2>5, <2>6, <2>7, <2>8 DEF PoolInv
<1>5. CASE Wait(w)
  <2>1. /\ UNCHANGED <<tasks, current, started>> /\ ~stop /\ tasks = <<>>
        /\ pc' = [pc EXCEPT ![w] = "asleep"]
    BY <1>5 DEF Wait
  <2>2. Running' = Running
    BY <1>1, <2>1 DEF Running
  <2>3. TypeOK'
    BY <1>1, <2>1 DEF PoolInv, TypeOK
  <2>4. TasksAreTakenInOrder'
    BY <1>1, <2>1 DEF PoolInv, TasksAreTakenInOrder
  <2>5. NoLostWakeup' /\ OwnerInv' /\ LeftInv'
    BY <1>1, <2>1 DEF PoolInv, NoLostWakeup, OwnerInv, LeftInv
  <2>6. TakenInv'
    BY <1>1, <2>1, <2>2 DEF PoolInv, TakenInv, Elements
  <2>7. QED
    BY <2>3, <2>4, <2>5, <2>6 DEF PoolInv
<1>6. QED
  BY <1>3, <1>4, <1>5 DEF Check

LEMMA WakeForNoReasonPreserves ==
  ASSUME PoolInv, NEW w \in Worker, WakeForNoReason(w)
  PROVE  PoolInv'
<1>1. /\ UNCHANGED <<tasks, stop, current, notifying, owner, accepted, started,
                     finished, refused>>
      /\ pc[w] = "asleep" /\ pc' = [pc EXCEPT ![w] = "checking"]
      /\ pc \in [Worker -> {"checking", "asleep", "running", "left"}]
  BY DEF WakeForNoReason, PoolInv, TypeOK
<1>2. Asleep' = Asleep \ {w} /\ Running' = Running /\ w \in Asleep
  BY <1>1 DEF Asleep, Running
<1>3. TypeOK'
  BY <1>1 DEF PoolInv, TypeOK
<1>4. TasksAreTakenInOrder'
  BY <1>1 DEF PoolInv, TasksAreTakenInOrder
<1>5. NoLostWakeup' /\ OwnerInv' /\ LeftInv'
  BY <1>1, <1>2 DEF PoolInv, NoLostWakeup, OwnerInv, LeftInv
<1>6. TakenInv'
  BY <1>1, <1>2 DEF PoolInv, TakenInv, Elements
<1>7. QED
  BY <1>3, <1>4, <1>5, <1>6 DEF PoolInv

LEMMA RunFollowUpPreserves ==
  ASSUME PoolInv, NEW w \in Worker, RunFollowUp(w)
  PROVE  PoolInv'
<1> DEFINE t == FollowUp[current[w]]
<1>1. /\ t \in Task \ Submitted /\ w \in Thread
      /\ UNCHANGED <<stop, pc, current, owner, started, finished>>
  BY DEF RunFollowUp, Thread
<1>2. CASE Push(w, t) /\ UNCHANGED refused
  BY <1>1, <1>2, PushPreserves
<1>3. CASE Refuse(t)
  <2>1. UNCHANGED <<tasks, accepted, notifying>> /\ refused' = refused \cup {t}
    BY <1>3 DEF Refuse
  <2>2. TypeOK'
    BY <1>1, <2>1 DEF PoolInv, TypeOK
  <2>3. TasksAreTakenInOrder'
    BY <1>1, <2>1 DEF PoolInv, TasksAreTakenInOrder
  <2>4. NoLostWakeup' /\ OwnerInv' /\ LeftInv'
    BY <1>1, <2>1 DEF PoolInv, NoLostWakeup, OwnerInv, LeftInv, Asleep
  <2>5. TakenInv'
    BY <1>1 DEF PoolInv, TakenInv, Running, Elements
  <2>6. QED
    BY <2>2, <2>3, <2>4, <2>5 DEF PoolInv
<1>4. QED
  BY <1>2, <1>3 DEF RunFollowUp

(* The task moves from the running ones to the finished ones. *)
LEMMA FinishPreserves ==
  ASSUME PoolInv, NEW w \in Worker, Finish(w)
  PROVE  PoolInv'
<1>1. /\ UNCHANGED <<tasks, stop, notifying, owner, accepted, started, refused>>
      /\ pc[w] = "running" /\ pc' = [pc EXCEPT ![w] = "checking"]
      /\ current' = [current EXCEPT ![w] = NoTask]
      /\ finished' = finished \cup {current[w]}
      /\ pc \in [Worker -> {"checking", "asleep", "running", "left"}]
      /\ current \in [Worker -> Task \cup {NoTask}] /\ current[w] \in Task
  BY DEF Finish, PoolInv, TypeOK
<1>2. /\ Asleep' = Asleep /\ Running' = Running \ {w} /\ w \in Running
      /\ owner # "gone"
  BY <1>1 DEF Asleep, Running, PoolInv, OwnerInv
<1>3. TypeOK'
  BY <1>1 DEF PoolInv, TypeOK
<1>4. TasksAreTakenInOrder'
  BY <1>1 DEF PoolInv, TasksAreTakenInOrder
<1>5. NoLostWakeup' /\ OwnerInv' /\ LeftInv'
  BY <1>1, <1>2 DEF PoolInv, NoLostWakeup, OwnerInv, LeftInv
<1>6. TakenInv'
  <2>1. {current[v] : v \in Running} = {current'[v] : v \in Running'} \cup {current[w]}
    BY <1>1, <1>2 DEF Running
  <2>2. Elements(started)' = Elements(started)
    BY <1>1 DEF Elements
  <2>3. QED
    BY <1>1, <2>1, <2>2 DEF PoolInv, TakenInv
<1>7. QED
  BY <1>3, <1>4, <1>5, <1>6 DEF PoolInv

LEMMA DestructorPreserves ==
  ASSUME PoolInv, SetStop \/ NotifyAll \/ Join
  PROVE  PoolInv'
<1>1. UNCHANGED <<tasks, current, notifying, accepted, started, finished, refused>>
  BY DEF SetStop, NotifyAll, Join
<1>2. TasksAreTakenInOrder'
  BY <1>1 DEF PoolInv, TasksAreTakenInOrder
<1>3. CASE SetStop
  <2>1. UNCHANGED pc /\ owner = "using" /\ owner' = "stopped" /\ stop'
        /\ stop' \in BOOLEAN
    BY <1>3 DEF SetStop
  <2>2. TypeOK'
    BY <1>1, <2>1 DEF PoolInv, TypeOK
  <2>3. NoLostWakeup' /\ OwnerInv' /\ LeftInv'
    BY <1>1, <2>1 DEF PoolInv, NoLostWakeup, OwnerInv, LeftInv, Asleep
  <2>4. TakenInv'
    BY <1>1, <2>1 DEF PoolInv, TakenInv, Running, Elements
  <2>5. QED
    BY <1>2, <2>2, <2>3, <2>4 DEF PoolInv
<1>4. CASE NotifyAll
  <2>1. /\ owner = "stopped" /\ owner' = "joining" /\ UNCHANGED stop
        /\ pc' = [w \in Worker |-> IF w \in Asleep THEN "checking" ELSE pc[w]]
        /\ pc \in [Worker -> {"checking", "asleep", "running", "left"}]
    BY <1>4 DEF NotifyAll, PoolInv, TypeOK
  <2>2. Asleep' = {} /\ Running' = Running
    BY <2>1 DEF Asleep, Running
  <2>3. TypeOK'
    BY <1>1, <2>1 DEF PoolInv, TypeOK, Asleep
  <2>4. NoLostWakeup'
    BY <2>2, PoolAssumption DEF NoLostWakeup
  <2>5. OwnerInv' /\ LeftInv'
    BY <1>1, <2>1 DEF PoolInv, OwnerInv, LeftInv
  <2>6. TakenInv'
    BY <1>1, <2>2 DEF PoolInv, TakenInv, Elements
  <2>7. QED
    BY <1>2, <2>3, <2>4, <2>5, <2>6 DEF PoolInv
<1>5. CASE Join
  <2>1. UNCHANGED <<stop, pc>> /\ owner = "joining" /\ owner' = "gone"
        /\ \A w \in Worker : pc[w] = "left"
    BY <1>5 DEF Join
  <2>2. TypeOK'
    BY <1>1, <2>1 DEF PoolInv, TypeOK
  <2>3. NoLostWakeup' /\ OwnerInv' /\ LeftInv'
    BY <1>1, <2>1 DEF PoolInv, NoLostWakeup, OwnerInv, LeftInv, Asleep
  <2>4. TakenInv'
    BY <1>1, <2>1 DEF PoolInv, TakenInv, Running, Elements
  <2>5. QED
    BY <1>2, <2>2, <2>3, <2>4 DEF PoolInv
<1>6. QED
  BY <1>3, <1>4, <1>5

LEMMA NextPoolInv == PoolInv /\ [Next]_vars => PoolInv'
<1> SUFFICES ASSUME PoolInv, [Next]_vars PROVE PoolInv'
  OBVIOUS
<1>1. ASSUME NEW c \in Client, NEW t \in FromOutside, Enqueue(c, t) PROVE PoolInv'
  BY <1>1, EnqueuePreserves
<1>2. ASSUME NEW thread \in Thread, NotifyOne(thread) PROVE PoolInv'
  BY <1>2, NotifyOnePreserves
<1>3. ASSUME NEW w \in Worker,
             Check(w) \/ WakeForNoReason(w) \/ RunFollowUp(w) \/ Finish(w)
      PROVE  PoolInv'
  BY <1>3, CheckPreserves, WakeForNoReasonPreserves, RunFollowUpPreserves,
     FinishPreserves
<1>4. CASE SetStop \/ NotifyAll \/ Join
  BY <1>4, DestructorPreserves
<1>5. CASE UNCHANGED vars
  <2>1. TypeOK'
    BY <1>5 DEF vars, PoolInv, TypeOK
  <2>2. TasksAreTakenInOrder'
    BY <1>5 DEF vars, PoolInv, TasksAreTakenInOrder
  <2>3. NoLostWakeup' /\ OwnerInv' /\ LeftInv'
    BY <1>5 DEF vars, PoolInv, NoLostWakeup, OwnerInv, LeftInv, Asleep
  <2>4. TakenInv'
    BY <1>5 DEF vars, PoolInv, TakenInv, Running, Elements
  <2>5. QED
    BY <2>1, <2>2, <2>3, <2>4 DEF PoolInv
<1>6. QED
  BY <1>1, <1>2, <1>3, <1>4, <1>5 DEF Next

LEMMA SpecPoolInv == Spec => []PoolInv
BY InitPoolInv, NextPoolInv, PTL DEF Spec

-----------------------------------------------------------------------------
(* The theorems                                                            *)

(* Every variable keeps its type, and a worker has a task exactly while it *)
(* runs one.                                                               *)
THEOREM PoolTypeCorrect == Spec => []TypeOK
<1>1. PoolInv => TypeOK
  BY DEF PoolInv
<1>2. QED
  BY <1>1, SpecPoolInv, PTL

(* The notification after the unlock is never too late: the workers do not *)
(* all sleep on a queue with tasks unless somebody is about to notify.     *)
THEOREM WakeupsAreNotLost == Spec => []NoLostWakeup
<1>1. PoolInv => NoLostWakeup
  BY DEF PoolInv
<1>2. QED
  BY <1>1, SpecPoolInv, PTL

(* The queue is first-in first-out, and no task is taken twice. *)
THEOREM QueueIsFifo == Spec => []TasksAreTakenInOrder
<1>1. PoolInv => TasksAreTakenInOrder
  BY DEF PoolInv
<1>2. QED
  BY <1>1, SpecPoolInv, PTL

(* When the destructor returns, every task that enqueue ever accepted has  *)
(* run to its end.                                                         *)
THEOREM NoTaskIsDropped == Spec => []DestructorDrainsQueue
<1>1. PoolInv => DestructorDrainsQueue
  <2> SUFFICES ASSUME PoolInv PROVE DestructorDrainsQueue
    OBVIOUS
  <2>1. \A w \in Worker : pc[w] = "left" => stop /\ tasks = <<>>
    BY DEF PoolInv, LeftInv
  <2>2. ASSUME owner = "gone" PROVE Elements(accepted) = finished
    <3>1. Running = {} /\ tasks = <<>>
      BY <2>1, <2>2, PoolAssumption DEF PoolInv, OwnerInv, Running
    <3>2. accepted = started
      BY <3>1, ConcatEmptySeq DEF PoolInv, TypeOK, TasksAreTakenInOrder
    <3>3. QED
      BY <3>1, <3>2 DEF PoolInv, TakenInv
  <2>3. QED
    BY <2>1, <2>2 DEF DestructorDrainsQueue
<1>2. QED
  BY <1>1, SpecPoolInv, PTL
=============================================================================
