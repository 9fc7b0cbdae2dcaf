----------------------- MODULE ThreadSafeQueueProofs -----------------------
(***************************************************************************)
(* Theorems about ThreadSafeQueue, for any number of producers, consumers, *)
(* closers and items.                                                      *)
(***************************************************************************)
EXTENDS ThreadSafeQueue, FiniteSetTheorems, SequenceTheorems, TLAPS

LEMMA InitTypeOK == Init => TypeOK
<1> SUFFICES ASSUME Init PROVE TypeOK
  OBVIOUS
<1>1. stage \in [Threads -> Stages] /\ \A t \in Threads : stage[t] = "out"
  BY DEF Init, Stages
<1>2. spurious \in 0 .. MaxSpurious
  BY MaxSpuriousAssumption DEF Init
<1>3. \A t \in Threads : stage[t] \in {"pushing", "closing", "checking"} <=> mutex = t
  BY <1>1, ThreadsAssumption DEF Init
<1>4. queue \in Seq(Items) /\ sent \in Seq(Items) /\ received \in Seq(Items)
  BY DEF Init
<1>5. shutdown \in BOOLEAN /\ mutex \in Threads \cup {NoThread}
  BY DEF Init
<1> QED  BY <1>1, <1>2, <1>3, <1>4, <1>5 DEF TypeOK

LEMMA TypeOKStep == TypeOK /\ [Next]_vars => TypeOK'
<1> SUFFICES ASSUME TypeOK, [Next]_vars
             PROVE  TypeOK'
  OBVIOUS
<1> USE ThreadsAssumption, MaxSpuriousAssumption DEF TypeOK, Threads
<1>1. ASSUME NEW t \in Producers, EnterPush(t)
      PROVE  TypeOK'
  BY <1>1 DEF EnterPush, Acquire, Goto, history, Stages
<1>2. ASSUME NEW t \in Producers, NEW item \in Items, Enqueue(t, item)
      PROVE  TypeOK'
  BY <1>2 DEF Enqueue, Release, Goto, history, Stages
<1>3. ASSUME NEW t \in Producers, NotifyOne(t)
      PROVE  TypeOK'
  BY <1>3 DEF NotifyOne, Goto, In, history, Stages
<1>4. ASSUME NEW t \in Closers, EnterShutdown(t)
      PROVE  TypeOK'
  BY <1>4 DEF EnterShutdown, Acquire, Goto, history, Stages
<1>5. ASSUME NEW t \in Closers, SetShutdown(t)
      PROVE  TypeOK'
  BY <1>5 DEF SetShutdown, Release, Goto, history, Stages
<1>6. ASSUME NEW t \in Closers, NotifyAll(t)
      PROVE  TypeOK'
  BY <1>6 DEF NotifyAll, history, Stages
<1>7. ASSUME NEW t \in Consumers, EnterPop(t) \/ Reacquire(t)
      PROVE  TypeOK'
  BY <1>7 DEF EnterPop, Reacquire, Acquire, Goto, history, Stages
<1>8. ASSUME NEW t \in Consumers, Block(t) \/ PopNothing(t)
      PROVE  TypeOK'
  BY <1>8 DEF Block, PopNothing, Release, Goto, history, Stages
<1>9. ASSUME NEW t \in Consumers, PopItem(t)
      PROVE  TypeOK'
  BY <1>9 DEF PopItem, Release, Goto, history, Stages
<1>10. ASSUME NEW t \in Consumers, WakeSpuriously(t)
       PROVE  TypeOK'
  BY <1>10 DEF WakeSpuriously, Goto, history, Stages
<1>11. CASE UNCHANGED vars
  BY <1>11 DEF vars
<1> QED
  BY <1>1, <1>2, <1>3, <1>4, <1>5, <1>6, <1>7, <1>8, <1>9, <1>10, <1>11
  DEF Next, PushStep, ShutdownStep, PopStep

\* The mutex excludes: whoever is in a critical section is the one that holds it.
THEOREM QueueTypeCorrect == Spec => []TypeOK
<1>1. Init => TypeOK
  BY InitTypeOK
<1>2. TypeOK /\ [Next]_vars => TypeOK'
  BY TypeOKStep
<1> QED  BY <1>1, <1>2, PTL DEF Spec

-----------------------------------------------------------------------------
(* The queue is a queue.                                                   *)

LEMMA ConcatAppend ==
  ASSUME NEW S, NEW s \in Seq(S), NEW q \in Seq(S), NEW e \in S
  PROVE  s \o Append(q, e) = Append(s \o q, e)
<1>1. <<e>> \in Seq(S)
  OBVIOUS
<1>2. s \o q \in Seq(S)
  BY ConcatProperties
<1>3. Append(q, e) = q \o <<e>>
  BY AppendIsConcat
<1>4. Append(s \o q, e) = (s \o q) \o <<e>>
  BY <1>2, AppendIsConcat
<1>5. (s \o q) \o <<e>> = s \o (q \o <<e>>)
  BY <1>1, ConcatAssociative
<1> QED  BY <1>3, <1>4, <1>5

FifoInv == TypeOK /\ NothingLostOrReordered

LEMMA FifoStep == FifoInv /\ [Next]_vars => NothingLostOrReordered'
<1> SUFFICES ASSUME FifoInv, [Next]_vars
             PROVE  NothingLostOrReordered'
  OBVIOUS
<1> USE DEF FifoInv, TypeOK, NothingLostOrReordered
<1>1. ASSUME NEW t \in Producers, NEW item \in Items, Enqueue(t, item)
      PROVE  NothingLostOrReordered'
  <2>1. received \o Append(queue, item) = Append(received \o queue, item)
    BY ConcatAppend
  <2> QED  BY <1>1, <2>1 DEF Enqueue
<1>2. ASSUME NEW t \in Consumers, PopItem(t)
      PROVE  NothingLostOrReordered'
  <2>1. queue # <<>>
    BY <1>2 DEF PopItem
  <2>2. Append(received, Head(queue)) \o Tail(queue) = received \o queue
    <3>1. Head(queue) \in Items /\ Tail(queue) \in Seq(Items)
      BY <2>1
    <3>2. Append(received, Head(queue)) = received \o <<Head(queue)>>
      BY <3>1, AppendIsConcat
    <3>3. <<Head(queue)>> \in Seq(Items)
      BY <3>1
    <3>4. (received \o <<Head(queue)>>) \o Tail(queue) = received \o (<<Head(queue)>> \o Tail(queue))
      BY <3>1, <3>3, ConcatAssociative
    <3>5. <<Head(queue)>> \o Tail(queue) = queue
      BY <2>1
    <3> QED  BY <3>2, <3>4, <3>5
  <2> QED  BY <1>2, <2>2 DEF PopItem
<1>3. CASE UNCHANGED <<queue, history>>
  BY <1>3 DEF history
<1> QED
  BY <1>1, <1>2, <1>3
  DEF Next, PushStep, ShutdownStep, PopStep, vars, history, EnterPush, NotifyOne,
      EnterShutdown, SetShutdown, NotifyAll, EnterPop, Block, Reacquire, PopNothing,
      WakeSpuriously

LEMMA FifoInvStep == FifoInv /\ [Next]_vars => FifoInv'
BY TypeOKStep, FifoStep DEF FifoInv

LEMMA InitFifoInv == Init => FifoInv
BY InitTypeOK DEF Init, FifoInv, NothingLostOrReordered

\* Whatever the interleaving of pushes and pops, each item pushed is in the
\* queue or was popped, once, and in the order of the pushes.
THEOREM QueueIsFifo == Spec => []NothingLostOrReordered
<1>1. FifoInv => NothingLostOrReordered
  BY DEF FifoInv
<1> QED  BY <1>1, InitFifoInv, FifoInvStep, PTL DEF Spec

\* pop returns nothing only after shutdown, and when all that was pushed until
\* then has been popped.
THEOREM QueueDrainsBeforeNothing == Spec => DrainedBeforeNothing
<1>1. ASSUME FifoInv, Next, NEW c \in Consumers, stage[c] # "drained", stage'[c] = "drained"
      PROVE  shutdown /\ received = sent
  <2> USE ThreadsAssumption DEF FifoInv, TypeOK, NothingLostOrReordered, Threads
  <2>1. ASSUME NEW t \in Producers, EnterPush(t) \/ PushStep(t)
        PROVE  FALSE
    BY <1>1, <2>1 DEF EnterPush, PushStep, Enqueue, NotifyOne, In, Goto
  <2>2. ASSUME NEW t \in Closers, EnterShutdown(t) \/ ShutdownStep(t)
        PROVE  FALSE
    BY <1>1, <2>2 DEF EnterShutdown, ShutdownStep, SetShutdown, NotifyAll, Goto
  <2>3. ASSUME NEW t \in Consumers,
               EnterPop(t) \/ Block(t) \/ Reacquire(t) \/ PopItem(t) \/ WakeSpuriously(t)
        PROVE  FALSE
    BY <1>1, <2>3 DEF EnterPop, Block, Reacquire, PopItem, WakeSpuriously, Goto
  <2>4. ASSUME NEW t \in Consumers, PopNothing(t)
        PROVE  shutdown /\ received = sent
    <3>1. queue = <<>> /\ shutdown
      BY <2>4 DEF PopNothing
    <3>2. received \o <<>> = received
      BY <1>1, ConcatEmptySeq
    <3> QED  BY <1>1, <3>1, <3>2
  <2> QED  BY <1>1, <2>1, <2>2, <2>3, <2>4 DEF Next, PopStep
<1>2. ASSUME FifoInv, [Next]_vars
      PROVE  [\A c \in Consumers : stage[c] # "drained" /\ stage'[c] = "drained"
                => shutdown /\ received = sent]_vars
  BY <1>1, <1>2
<1> QED  BY <1>2, InitFifoInv, FifoInvStep, PTL DEF Spec, DrainedBeforeNothing

-----------------------------------------------------------------------------
(* No wakeup is lost.                                                      *)

\* Who will look at the queue, or make somebody look.
Watchers == In("notify_one") \cup In("woken") \cup In("checking")

WakeupInv == TypeOK /\ NoLostWakeup

LEMMA WatchersFinite ==
  ASSUME TypeOK
  PROVE  IsFiniteSet(Watchers) /\ Cardinality(Watchers) \in Nat
<1>1. Watchers \subseteq Threads
  BY DEF Watchers, In
<1>2. IsFiniteSet(Watchers)
  BY <1>1, ThreadsAssumption, FS_Subset
<1> QED  BY <1>2, FS_CardinalityType

\* The steps that change neither the queue nor the flag, block nobody, and take
\* away neither a watcher nor a notify_all.
LEMMA QuietStepKeepsWakeup ==
  ASSUME WakeupInv, TypeOK', queue' = queue, shutdown' = shutdown,
         In("blocked")' \subseteq In("blocked"), Watchers \subseteq Watchers',
         In("notify_all") \subseteq In("notify_all")'
  PROVE  NoLostWakeup'
<1>1. Cardinality(Watchers) <= Cardinality(Watchers')
  <2>1. IsFiniteSet(Watchers')
    BY WatchersFinite, ThreadsAssumption, FS_Subset DEF Watchers, In
  <2> HIDE DEF Watchers
  <2> QED  BY <2>1, FS_Subset
<1>2. /\ Cardinality(Watchers) \in Nat /\ Cardinality(Watchers') \in Nat
      /\ Len(queue) \in Nat
  <2>1. IsFiniteSet(Watchers')
    BY ThreadsAssumption, FS_Subset DEF Watchers, In
  <2> QED  BY <2>1, WatchersFinite, FS_CardinalityType, LenProperties DEF WakeupInv, TypeOK
<1>3. CASE In("blocked")' = {}
  BY <1>3 DEF NoLostWakeup
<1>4. CASE In("blocked")' # {}
  <2>1. Len(queue) <= Cardinality(Watchers) /\ (shutdown => In("notify_all") # {})
    BY <1>4 DEF WakeupInv, NoLostWakeup, Watchers
  <2>2. Len(queue') <= Cardinality(Watchers')
    BY <1>1, <1>2, <2>1
  <2>3. shutdown' => In("notify_all")' # {}
    BY <2>1
  <2> QED  BY <2>2, <2>3 DEF NoLostWakeup, Watchers
<1> QED  BY <1>3, <1>4

\* push: one item more, and its pusher is about to notify.
LEMMA EnqueueKeepsWakeup ==
  ASSUME WakeupInv, NEW t \in Producers, NEW item \in Items, Enqueue(t, item)
  PROVE  NoLostWakeup'
<1> USE ThreadsAssumption DEF WakeupInv, TypeOK, Threads
<1>1. Watchers' = Watchers \cup {t} /\ t \notin Watchers
  BY DEF Enqueue, Goto, Watchers, In
<1>2. In("blocked")' = In("blocked") /\ In("notify_all")' = In("notify_all")
  BY DEF Enqueue, Goto, In
<1>3. Cardinality(Watchers \cup {t}) = Cardinality(Watchers) + 1
  <2>1. IsFiniteSet(Watchers)
    BY WatchersFinite
  <2> HIDE DEF Watchers
  <2> QED  BY <1>1, <2>1, FS_AddElement
<1>4. Len(queue') = Len(queue) + 1 /\ Len(queue) \in Nat /\ Cardinality(Watchers) \in Nat
  BY WatchersFinite, AppendProperties, LenProperties DEF Enqueue
<1>5. ASSUME In("blocked")' # {}
      PROVE  Len(queue') <= Cardinality(Watchers') /\ (shutdown' => In("notify_all")' # {})
  <2>1. Len(queue) <= Cardinality(Watchers) /\ (shutdown => In("notify_all") # {})
    BY <1>2, <1>5 DEF NoLostWakeup, Watchers
  <2>2. shutdown' = shutdown
    BY DEF Enqueue
  <2>3. Cardinality(Watchers') = Cardinality(Watchers) + 1
    BY <1>1, <1>3
  <2> QED  BY <1>2, <1>4, <2>1, <2>2, <2>3
<1> QED  BY <1>5 DEF NoLostWakeup, Watchers

\* notify_one: the woken consumer takes the place of the notifier.
LEMMA NotifyOneKeepsWakeup ==
  ASSUME WakeupInv, NEW t \in Producers, NotifyOne(t)
  PROVE  NoLostWakeup'
<1> USE ThreadsAssumption DEF WakeupInv, TypeOK, Threads
<1>1. CASE In("blocked") = {} /\ Goto(t, "out")
  <2>1. In("blocked")' = {}
    BY <1>1 DEF Goto, In
  <2> QED  BY <2>1 DEF NoLostWakeup
<1>2. ASSUME NEW c \in In("blocked"), stage' = [stage EXCEPT ![t] = "out", ![c] = "woken"]
      PROVE  NoLostWakeup'
  <2> DEFINE W == Watchers \ {t}
  <2>1. stage[t] = "notify_one" /\ stage[c] = "blocked" /\ c \in Threads
    BY <1>2 DEF NotifyOne, In
  <2>2. Watchers' = W \cup {c} /\ c \notin W /\ t \in Watchers
    BY <1>2, <2>1 DEF Watchers, In
  <2>3. In("notify_all")' = In("notify_all") /\ queue' = queue /\ shutdown' = shutdown
    BY <1>2, <2>1 DEF NotifyOne, In
  <2>4. Cardinality(Watchers') = Cardinality(Watchers)
    <3>1. IsFiniteSet(Watchers) /\ Cardinality(Watchers) \in Nat
      BY WatchersFinite
    <3>2. IsFiniteSet(W) /\ Cardinality(W) = Cardinality(Watchers) - 1
      BY <2>2, <3>1, FS_RemoveElement
    <3> HIDE DEF W
    <3>3. Cardinality(W \cup {c}) = Cardinality(W) + 1
      BY <2>2, <3>2, FS_AddElement
    <3> QED  BY <2>2, <3>1, <3>2, <3>3
  <2>5. Len(queue) <= Cardinality(Watchers) /\ (shutdown => In("notify_all") # {})
    BY <1>2 DEF NoLostWakeup, Watchers
  <2>6. Len(queue') <= Cardinality(Watchers')
    BY <2>3, <2>4, <2>5
  <2> QED  BY <2>3, <2>5, <2>6 DEF NoLostWakeup, Watchers
<1> QED  BY <1>1, <1>2 DEF NotifyOne

\* pop: one item less, and one watcher less.
LEMMA PopItemKeepsWakeup ==
  ASSUME WakeupInv, NEW t \in Consumers, PopItem(t)
  PROVE  NoLostWakeup'
<1> USE ThreadsAssumption DEF WakeupInv, TypeOK, Threads
<1>1. Watchers' = Watchers \ {t} /\ t \in Watchers
  BY DEF PopItem, Goto, Watchers, In
<1>2. In("blocked")' = In("blocked") /\ In("notify_all")' = In("notify_all")
  BY DEF PopItem, Goto, In
<1>3. Cardinality(Watchers \ {t}) = Cardinality(Watchers) - 1
  <2>1. IsFiniteSet(Watchers)
    BY WatchersFinite
  <2> HIDE DEF Watchers
  <2> QED  BY <1>1, <2>1, FS_RemoveElement
<1>4. Len(queue') = Len(queue) - 1 /\ Len(queue) \in Nat /\ Cardinality(Watchers) \in Nat
  BY WatchersFinite, HeadTailProperties, LenProperties DEF PopItem
<1>5. ASSUME In("blocked")' # {}
      PROVE  Len(queue') <= Cardinality(Watchers') /\ (shutdown' => In("notify_all")' # {})
  <2>1. Len(queue) <= Cardinality(Watchers) /\ (shutdown => In("notify_all") # {})
    BY <1>2, <1>5 DEF NoLostWakeup, Watchers
  <2>2. shutdown' = shutdown
    BY DEF PopItem
  <2>3. Cardinality(Watchers') = Cardinality(Watchers) - 1
    BY <1>1, <1>3
  <2> QED  BY <1>2, <1>4, <2>1, <2>2, <2>3
<1> QED  BY <1>5 DEF NoLostWakeup, Watchers

LEMMA WakeupStep == WakeupInv /\ [Next]_vars => NoLostWakeup'
<1> SUFFICES ASSUME WakeupInv, [Next]_vars
             PROVE  NoLostWakeup'
  OBVIOUS
<1>0. TypeOK /\ TypeOK'
  BY TypeOKStep DEF WakeupInv
<1>1. ASSUME NEW t \in Producers \cup Closers, EnterPush(t) \/ EnterShutdown(t)
      PROVE  NoLostWakeup'
  <2>1. /\ queue' = queue /\ shutdown' = shutdown
        /\ In("blocked")' \subseteq In("blocked") /\ Watchers \subseteq Watchers'
        /\ In("notify_all") \subseteq In("notify_all")'
    BY <1>0, <1>1 DEF TypeOK, EnterPush, EnterShutdown, Goto, In, Watchers, Threads
  <2> QED  BY <1>0, <2>1, QuietStepKeepsWakeup
<1>2. ASSUME NEW t \in Closers, SetShutdown(t)
      PROVE  NoLostWakeup'
  <2>1. Watchers' = Watchers /\ In("blocked")' = In("blocked") /\ queue' = queue
    BY <1>0, <1>2 DEF TypeOK, SetShutdown, Goto, In, Watchers, Threads
  <2>2. t \in In("notify_all")'
    BY <1>0, <1>2 DEF TypeOK, SetShutdown, Goto, In, Threads
  <2> QED  BY <2>1, <2>2 DEF WakeupInv, NoLostWakeup, Watchers
<1>3. ASSUME NEW t \in Closers, NotifyAll(t)
      PROVE  NoLostWakeup'
  <2>1. In("blocked")' = {}
    BY <1>3 DEF NotifyAll, In
  <2> QED  BY <2>1 DEF NoLostWakeup
<1>4. ASSUME NEW t \in Consumers, EnterPop(t) \/ Reacquire(t) \/ WakeSpuriously(t)
      PROVE  NoLostWakeup'
  <2>1. /\ queue' = queue /\ shutdown' = shutdown
        /\ In("blocked")' \subseteq In("blocked") /\ Watchers \subseteq Watchers'
        /\ In("notify_all") \subseteq In("notify_all")'
    BY <1>0, <1>4 DEF TypeOK, EnterPop, Reacquire, WakeSpuriously, Goto, In, Watchers, Threads
  <2> QED  BY <1>0, <2>1, QuietStepKeepsWakeup
<1>5. ASSUME NEW t \in Consumers, Block(t)
      PROVE  NoLostWakeup'
  <2>1. queue' = <<>> /\ ~shutdown'
    BY <1>5 DEF Block
  <2>2. IsFiniteSet(Watchers')
    BY ThreadsAssumption, FS_Subset DEF Watchers, In
  <2>3. Cardinality(Watchers') \in Nat
    BY <2>2, FS_CardinalityType
  <2>4. Len(queue') <= Cardinality(Watchers')
    BY <2>1, <2>3
  <2> QED  BY <2>1, <2>4 DEF NoLostWakeup, Watchers
<1>6. ASSUME NEW t \in Consumers, PopNothing(t)
      PROVE  NoLostWakeup'
  <2>1. queue' = <<>> /\ shutdown' = shutdown
    BY <1>6 DEF PopNothing
  <2>2. In("blocked")' = In("blocked") /\ In("notify_all")' = In("notify_all")
    BY <1>0, <1>6 DEF TypeOK, PopNothing, Goto, In, Threads
  <2>3. IsFiniteSet(Watchers')
    BY ThreadsAssumption, FS_Subset DEF Watchers, In
  <2>4. Cardinality(Watchers') \in Nat
    BY <2>3, FS_CardinalityType
  <2>5. Len(queue') <= Cardinality(Watchers')
    BY <2>1, <2>4
  <2> QED  BY <2>1, <2>2, <2>5 DEF WakeupInv, NoLostWakeup, Watchers
<1>7. CASE UNCHANGED vars
  BY <1>7 DEF vars, WakeupInv, NoLostWakeup, In
<1> QED
  BY <1>1, <1>2, <1>3, <1>4, <1>5, <1>6, <1>7, EnqueueKeepsWakeup, NotifyOneKeepsWakeup,
     PopItemKeepsWakeup
  DEF Next, PushStep, ShutdownStep, PopStep

\* The notification comes after the unlock.  Even so, for any number of threads,
\* no consumer is left blocked while an item waits that nobody will look at, or
\* after a shutdown of which nobody will tell it.
THEOREM QueueLosesNoWakeup == Spec => []NoLostWakeup
<1>1. Init => WakeupInv
  <2>1. Init => In("blocked") = {}
    BY DEF Init, In
  <2> QED  BY <2>1, InitTypeOK DEF WakeupInv, NoLostWakeup
<1>2. WakeupInv /\ [Next]_vars => WakeupInv'
  BY TypeOKStep, WakeupStep DEF WakeupInv
<1>3. WakeupInv => NoLostWakeup
  BY DEF WakeupInv
<1> QED  BY <1>1, <1>2, <1>3, PTL DEF Spec
=============================================================================
