--------------------------- MODULE ThreadSafeQueue ---------------------------
(***************************************************************************)
(* The blocking queue of src/include/thread_safe_queue.hpp: a std::queue,  *)
(* a shutdown flag, the mutex that protects both and a condition variable. *)
(*                                                                         *)
(* A call is cut where another thread can see the difference: taking the   *)
(* mutex, the critical section with the release that ends it, and the      *)
(* notification, which comes after the release.  condition_variable::wait  *)
(* releases the mutex and blocks in one step, may wake for no reason, and  *)
(* takes the mutex again before it looks at its predicate.                 *)
(***************************************************************************)
EXTENDS Naturals, Sequences, SequencesExt, FiniteSets

CONSTANTS
  Producers,    \* threads that call push
  Consumers,    \* threads that call pop until it returns nothing
  Closers,      \* threads that call shutdown
  Items,        \* what is pushed, each at most once
  MaxSpurious,  \* bound: how many wakeups come for no reason
  NoThread      \* the mutex is free

Threads == Producers \cup Consumers \cup Closers

ASSUME ThreadsAssumption ==
  /\ NoThread \notin Threads
  /\ Producers \cap Consumers = {} /\ Producers \cap Closers = {}
  /\ Consumers \cap Closers = {}
  /\ IsFiniteSet(Threads)
ASSUME MaxSpuriousAssumption == MaxSpurious \in Nat

VARIABLES
  queue,        \* queue_
  shutdown,     \* shutdown_
  mutex,        \* the thread that holds mutex_, or NoThread
  stage,        \* where each thread is
  spurious,     \* wakeups for no reason so far
  sent,         \* history: the items in the order they were pushed
  received      \* history: the items in the order they were popped

vars == <<queue, shutdown, mutex, stage, spurious, sent, received>>
history == <<sent, received>>

\* "out": in no call.  "pushing", "closing", "checking": in a critical section
\* of push, shutdown, pop.  "notify_one", "notify_all": past it.  "blocked": in
\* cv_.wait.  "woken": wants the mutex back.  "drained": pop returned nothing.
Stages == {"out", "pushing", "notify_one", "closing", "notify_all",
           "checking", "blocked", "woken", "drained"}

In(s) == {t \in Threads : stage[t] = s}

Goto(t, s) == stage' = [stage EXCEPT ![t] = s]
Acquire(t) == mutex = NoThread /\ mutex' = t
Release(t) == mutex = t /\ mutex' = NoThread

-----------------------------------------------------------------------------
(* push                                                                    *)

EnterPush(t) ==
  /\ stage[t] = "out" /\ Acquire(t) /\ Goto(t, "pushing")
  /\ UNCHANGED <<queue, shutdown, spurious, history>>

\* Mutant: a push onto a queue that is not empty notifies nobody.
Enqueue_NotifyIfEmpty(t, item) ==
  /\ stage[t] = "pushing"
  /\ queue' = Append(queue, item) /\ sent' = Append(sent, item)
  /\ Release(t) /\ Goto(t, IF queue = <<>> THEN "notify_one" ELSE "out")
  /\ UNCHANGED <<shutdown, spurious, received>>

Enqueue(t, item) ==
  /\ stage[t] = "pushing"
  /\ queue' = Append(queue, item) /\ sent' = Append(sent, item)
  /\ Release(t) /\ Goto(t, "notify_one")
  /\ UNCHANGED <<shutdown, spurious, received>>

\* Mutant: the notification is forgotten.
NotifyOne_Lost(t) ==
  /\ stage[t] = "notify_one" /\ Goto(t, "out")
  /\ UNCHANGED <<queue, shutdown, mutex, spurious, history>>

\* One of the blocked threads wakes, if any is blocked.
NotifyOne(t) ==
  /\ stage[t] = "notify_one"
  /\ \/ In("blocked") = {} /\ Goto(t, "out")
     \/ \E c \in In("blocked") : stage' = [stage EXCEPT ![t] = "out", ![c] = "woken"]
  /\ UNCHANGED <<queue, shutdown, mutex, spurious, history>>

-----------------------------------------------------------------------------
(* shutdown                                                                *)

EnterShutdown(t) ==
  /\ stage[t] = "out" /\ Acquire(t) /\ Goto(t, "closing")
  /\ UNCHANGED <<queue, shutdown, spurious, history>>

SetShutdown(t) ==
  /\ stage[t] = "closing"
  /\ shutdown' = TRUE
  /\ Release(t) /\ Goto(t, "notify_all")
  /\ UNCHANGED <<queue, spurious, history>>

\* Mutant: shutdown wakes nobody.
NotifyAll_Nobody(t) ==
  /\ stage[t] = "notify_all" /\ Goto(t, "out")
  /\ UNCHANGED <<queue, shutdown, mutex, spurious, history>>

NotifyAll(t) ==
  /\ stage[t] = "notify_all"
  /\ stage' = [u \in Threads |-> IF u = t THEN "out"
                                 ELSE IF stage[u] = "blocked" THEN "woken" ELSE stage[u]]
  /\ UNCHANGED <<queue, shutdown, mutex, spurious, history>>

-----------------------------------------------------------------------------
(* pop                                                                     *)

EnterPop(t) ==
  /\ stage[t] = "out" /\ Acquire(t) /\ Goto(t, "checking")
  /\ UNCHANGED <<queue, shutdown, spurious, history>>

Block(t) ==
  /\ stage[t] = "checking" /\ queue = <<>> /\ ~shutdown
  /\ Release(t) /\ Goto(t, "blocked")
  /\ UNCHANGED <<queue, shutdown, spurious, history>>

WakeSpuriously(t) ==
  /\ stage[t] = "blocked" /\ spurious < MaxSpurious
  /\ spurious' = spurious + 1 /\ Goto(t, "woken")
  /\ UNCHANGED <<queue, shutdown, mutex, history>>

\* Mutant: a woken thread goes on without the mutex.
Reacquire_NoLock(t) ==
  /\ stage[t] = "woken" /\ Goto(t, "checking")
  /\ UNCHANGED <<queue, shutdown, mutex, spurious, history>>

Reacquire(t) ==
  /\ stage[t] = "woken" /\ Acquire(t) /\ Goto(t, "checking")
  /\ UNCHANGED <<queue, shutdown, spurious, history>>

\* Mutant: the newest item is popped, not the oldest.
PopItem_Newest(t) ==
  /\ stage[t] = "checking" /\ queue # <<>>
  /\ queue' = Front(queue) /\ received' = Append(received, Last(queue))
  /\ Release(t) /\ Goto(t, "out")
  /\ UNCHANGED <<shutdown, spurious, sent>>

PopItem(t) ==
  /\ stage[t] = "checking" /\ queue # <<>>
  /\ queue' = Tail(queue) /\ received' = Append(received, Head(queue))
  /\ Release(t) /\ Goto(t, "out")
  /\ UNCHANGED <<shutdown, spurious, sent>>

\* Mutant: a shut-down queue is left with items in it.
PopNothing_Undrained(t) ==
  /\ stage[t] = "checking" /\ shutdown
  /\ Release(t) /\ Goto(t, "drained")
  /\ UNCHANGED <<queue, shutdown, spurious, history>>

PopNothing(t) ==
  /\ stage[t] = "checking" /\ queue = <<>> /\ shutdown
  /\ Release(t) /\ Goto(t, "drained")
  /\ UNCHANGED <<queue, shutdown, spurious, history>>

-----------------------------------------------------------------------------
Init ==
  /\ queue = <<>> /\ shutdown = FALSE /\ mutex = NoThread
  /\ stage = [t \in Threads |-> "out"] /\ spurious = 0
  /\ sent = <<>> /\ received = <<>>

\* The steps a thread takes once it is in a call; a consumer calls pop again.
PushStep(t) ==
  \/ \E item \in Items \ ToSet(sent) : Enqueue(t, item)
  \/ NotifyOne(t)
ShutdownStep(t) == SetShutdown(t) \/ NotifyAll(t)
PopStep(t) == EnterPop(t) \/ Block(t) \/ Reacquire(t) \/ PopItem(t) \/ PopNothing(t)

Next ==
  \/ \E t \in Producers : (Items \ ToSet(sent) # {} /\ EnterPush(t)) \/ PushStep(t)
  \/ \E t \in Closers   : (~shutdown /\ EnterShutdown(t)) \/ ShutdownStep(t)
  \/ \E t \in Consumers : PopStep(t) \/ WakeSpuriously(t)

Spec == Init /\ [][Next]_vars

\* The scheduler runs every thread that can take a step.  No caller has to push
\* or to shut down, and no fairness of the mutex is assumed.
FairSpec ==
  /\ Spec
  /\ \A t \in Producers : WF_vars(PushStep(t))
  /\ \A t \in Closers   : WF_vars(ShutdownStep(t))
  /\ \A t \in Consumers : WF_vars(PopStep(t))

-----------------------------------------------------------------------------
(* Properties.                                                             *)

\* The types of the variables, and the mutex is held exactly in the critical
\* sections.
TypeOK ==
  /\ queue \in Seq(Items) /\ sent \in Seq(Items) /\ received \in Seq(Items)
  /\ shutdown \in BOOLEAN /\ spurious \in 0 .. MaxSpurious
  /\ stage \in [Threads -> Stages]
  /\ mutex \in Threads \cup {NoThread}
  /\ \A t \in Threads : stage[t] \in {"pushing", "closing", "checking"} <=> mutex = t

\* Each item pushed is in the queue or was popped, once and in order, however
\* the calls interleave.
NothingLostOrReordered == received \o queue = sent

\* The notification comes after the unlock, so a consumer may block in between:
\* even so, while a consumer is blocked, each item that waits has a notification
\* on its way or a consumer about to look, and a shutdown has its notify_all.
NoLostWakeup ==
  In("blocked") # {} =>
    /\ Len(queue) <= Cardinality(In("notify_one") \cup In("woken") \cup In("checking"))
    /\ shutdown => In("notify_all") # {}

\* Shutdown drains first: when pop returns nothing, all that was pushed until
\* then has been popped.
DrainedBeforeNothing ==
  [][\A c \in Consumers : stage[c] # "drained" /\ stage'[c] = "drained"
       => shutdown /\ received = sent]_vars

\* What is pushed before a consumer has left is eventually popped.  The pushes
\* are finitely many: ones that never cease could keep a thread from the mutex.
Delivered ==
  \A item \in Items :
    (item \in ToSet(sent) /\ \E c \in Consumers : stage[c] # "drained")
      ~> item \in ToSet(received)

\* After shutdown every consumer ends, if no more than finitely many items are
\* pushed: each one that is found in the queue is popped first.
ConsumersEnd == shutdown ~> \A c \in Consumers : stage[c] = "drained"
=============================================================================
