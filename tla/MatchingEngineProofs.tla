-------------------------- MODULE MatchingEngineProofs --------------------------
(***************************************************************************)
(* Theorems about MatchingEngine, for any number of clients and calls and  *)
(* any requests.  What is known of the queue and the book comes from the   *)
(* theorems of ThreadSafeQueueProofs and FillOrKillProofs: every step of   *)
(* the engine is a step of its queue and a step of its book, or of neither.*)
(***************************************************************************)
EXTENDS MatchingEngine, FiniteSetTheorems, SequenceTheorems, TLAPS

QueueProofs == INSTANCE ThreadSafeQueueProofs WITH
  Producers <- Clients, Consumers <- {Matcher}, Closers <- {Owner}, Items <- Tickets
BookProofs == INSTANCE FillOrKillProofs WITH Discipline <- {}

-----------------------------------------------------------------------------
(* The inductive invariant.                                                *)

\* How many of its calls a client has pushed: all but the one it is in, until
\* that one is past its critical section.
Pushed(c) ==
  IF doing[c] = "called" /\ stage[c] # "notify_one" THEN Len(calls[c]) - 1
                                                    ELSE Len(calls[c])

\* Where each client is, in its own code and in push, and what it has pushed.
ClientInv ==
  \A c \in Clients :
    /\ doing[c] # "called" => stage[c] = "out"
    /\ doing[c] = "called" => stage[c] \in {"out", "pushing", "notify_one"} /\ calls[c] # <<>>
    /\ \A n \in 1 .. MaxCalls : <<c, n>> \in Queue!ToSet(sent) <=> n <= Pushed(c)

\* Each client's tickets are sent once and in its order.
SentInOrder ==
  \A i, j \in DOMAIN sent :
    i < j /\ sent[i][1] = sent[j][1] => sent[i][2] < sent[j][2]

\* Where the owner is, in stop and in shutdown, and whether the flag is set.
OwnerInv ==
  /\ stage[Owner] \in {"out", "closing", "notify_all"}
  /\ owner # "stopping" => stage[Owner] = "out"
  /\ owner \in {"new", "started"} => ~shutdown
  /\ owner = "stopping" => (shutdown <=> stage[Owner] = "notify_all")
  /\ owner \in {"joining", "stopped"} => shutdown
  /\ early \subseteq Queue!ToSet(sent)
  /\ ~shutdown => early = {}

\* Where the matching thread is, in pop and in its loop.  It leaves only when
\* all the early requests have been received.
MatcherInv ==
  /\ stage[Matcher] \in {"out", "checking", "blocked", "woken", "drained"}
  /\ owner = "new" => stage[Matcher] = "out" /\ current = Nothing
  /\ owner = "stopped" => stage[Matcher] = "drained"
  /\ owner = "destroyed" => stage[Matcher] \in {"out", "drained"} /\ current = Nothing
                            /\ early \subseteq Queue!ToSet(received)
  /\ stage[Matcher] = "drained" => current = Nothing /\ shutdown
                                   /\ early \subseteq Queue!ToSet(received)
  /\ current # Nothing => /\ stage[Matcher] = "out" /\ received # <<>>
                          /\ current = received[Len(received)]
  /\ current = Nothing => pc = "idle"

\* What was received has been answered, but for the request in hand.
AnswerInv ==
  \A t \in Tickets : Answered(t) <=> t \in Queue!ToSet(received) /\ t # current

EngineInv ==
  /\ TypeOK /\ Queue!NothingLostOrReordered
  /\ ClientInv /\ SentInOrder /\ OwnerInv /\ MatcherInv /\ AnswerInv

-----------------------------------------------------------------------------
(* The queue of the engine is the queue of ThreadSafeQueue.                *)

LEMMA QueueAssumptions ==
  QueueProofs!ThreadsAssumption /\ QueueProofs!MaxSpuriousAssumption
<1>1. QueueProofs!Threads = Clients \cup {Matcher} \cup {Owner}
  BY DEF QueueProofs!Threads
<1>2. IsFiniteSet(Clients \cup {Matcher} \cup {Owner})
  BY EngineThreadsAssumption, FS_AddElement
<1>3. QueueProofs!IsFiniteSet(QueueProofs!Threads)
  BY <1>1, <1>2 DEF QueueProofs!IsFiniteSet, IsFiniteSet
<1> QED  BY <1>1, <1>3, EngineThreadsAssumption, EngineBoundsAssumption
         DEF QueueProofs!ThreadsAssumption, QueueProofs!MaxSpuriousAssumption

\* The two instances say the same.
LEMMA SameQueueInvariants ==
  /\ QueueProofs!FifoInv <=> Queue!TypeOK /\ Queue!NothingLostOrReordered
  /\ QueueProofs!TypeOK <=> Queue!TypeOK
BY DEF QueueProofs!FifoInv, QueueProofs!TypeOK, Queue!TypeOK, QueueProofs!Threads,
       Queue!Threads, QueueProofs!Stages, Queue!Stages,
       QueueProofs!NothingLostOrReordered, Queue!NothingLostOrReordered

LEMMA SameQueueInit == Queue!Init <=> QueueProofs!Init
BY DEF Queue!Init, QueueProofs!Init, Queue!Threads, QueueProofs!Threads

LEMMA SameQueueNext == [Queue!Next]_(Queue!vars) <=> [QueueProofs!Next]_(QueueProofs!vars)
<1>1. /\ \A t : Queue!EnterPush(t) <=> QueueProofs!EnterPush(t)
      /\ \A t, i : Queue!Enqueue(t, i) <=> QueueProofs!Enqueue(t, i)
      /\ \A t : Queue!NotifyOne(t) <=> QueueProofs!NotifyOne(t)
  BY DEF Queue!EnterPush, QueueProofs!EnterPush, Queue!Enqueue, QueueProofs!Enqueue,
         Queue!NotifyOne, QueueProofs!NotifyOne, Queue!Acquire, QueueProofs!Acquire,
         Queue!Release, QueueProofs!Release, Queue!Goto, QueueProofs!Goto,
         Queue!In, QueueProofs!In, Queue!Threads, QueueProofs!Threads,
         Queue!history, QueueProofs!history
<1>2. /\ \A t : Queue!EnterShutdown(t) <=> QueueProofs!EnterShutdown(t)
      /\ \A t : Queue!SetShutdown(t) <=> QueueProofs!SetShutdown(t)
      /\ \A t : Queue!NotifyAll(t) <=> QueueProofs!NotifyAll(t)
  BY DEF Queue!EnterShutdown, QueueProofs!EnterShutdown, Queue!SetShutdown,
         QueueProofs!SetShutdown, Queue!NotifyAll, QueueProofs!NotifyAll,
         Queue!Acquire, QueueProofs!Acquire, Queue!Release, QueueProofs!Release,
         Queue!Goto, QueueProofs!Goto, Queue!Threads, QueueProofs!Threads,
         Queue!history, QueueProofs!history
<1>3. /\ \A t : Queue!EnterPop(t) <=> QueueProofs!EnterPop(t)
      /\ \A t : Queue!Block(t) <=> QueueProofs!Block(t)
      /\ \A t : Queue!WakeSpuriously(t) <=> QueueProofs!WakeSpuriously(t)
      /\ \A t : Queue!Reacquire(t) <=> QueueProofs!Reacquire(t)
      /\ \A t : Queue!PopItem(t) <=> QueueProofs!PopItem(t)
      /\ \A t : Queue!PopNothing(t) <=> QueueProofs!PopNothing(t)
  BY DEF Queue!EnterPop, QueueProofs!EnterPop, Queue!Block, QueueProofs!Block,
         Queue!WakeSpuriously, QueueProofs!WakeSpuriously, Queue!Reacquire,
         QueueProofs!Reacquire, Queue!PopItem, QueueProofs!PopItem,
         Queue!PopNothing, QueueProofs!PopNothing,
         Queue!Acquire, QueueProofs!Acquire, Queue!Release, QueueProofs!Release,
         Queue!Goto, QueueProofs!Goto, Queue!history, QueueProofs!history
<1>4. Queue!ToSet(sent) = QueueProofs!ToSet(sent)
  BY DEF Queue!ToSet, QueueProofs!ToSet
<1>5. Queue!vars = QueueProofs!vars
  BY DEF Queue!vars, QueueProofs!vars
<1>6. UNCHANGED Queue!vars <=> UNCHANGED QueueProofs!vars
  BY DEF Queue!vars, QueueProofs!vars
<1>7. Queue!Next <=> QueueProofs!Next
  BY <1>1, <1>2, <1>3, <1>4
  DEF Queue!Next, QueueProofs!Next, Queue!PushStep, QueueProofs!PushStep,
      Queue!ShutdownStep, QueueProofs!ShutdownStep, Queue!PopStep, QueueProofs!PopStep
<1> QED  BY <1>6, <1>7

\* What the proofs below use of the queue's types.
LEMMA QueueTypes ==
  ASSUME TypeOK
  PROVE  /\ stage = [t \in Clients \cup {Matcher, Owner} |-> stage[t]]
         /\ queue \in Seq(Tickets) /\ sent \in Seq(Tickets) /\ received \in Seq(Tickets)
         /\ shutdown \in BOOLEAN
<1>1. Queue!Threads = Clients \cup {Matcher, Owner}
  BY DEF Queue!Threads
<1> QED  BY <1>1 DEF TypeOK, Queue!TypeOK

\* Only the matching thread is ever blocked.
LEMMA OnlyMatcherBlocks ==
  ASSUME ClientInv, OwnerInv
  PROVE  Queue!In("blocked") \subseteq {Matcher}
<1>1. Queue!Threads = Clients \cup {Matcher, Owner}
  BY DEF Queue!Threads
<1>2. \A c \in Clients : stage[c] # "blocked"
  BY DEF ClientInv
<1>3. stage[Owner] # "blocked"
  BY DEF OwnerInv
<1> QED  BY <1>1, <1>2, <1>3 DEF Queue!In

\* The ticket a client is about to push has not been pushed.
LEMMA LastTicketUnsent ==
  ASSUME TypeOK, ClientInv, NEW c \in Clients, doing[c] = "called", stage[c] # "notify_one"
  PROVE  LastTicket(c) \in Tickets \ Queue!ToSet(sent)
<1>1. calls[c] \in Seq(Requests) /\ calls[c] # <<>> /\ Len(calls[c]) <= MaxCalls
  BY DEF TypeOK, ClientInv
<1>2. Len(calls[c]) \in 1 .. MaxCalls
  BY <1>1, EngineBoundsAssumption
<1>3. Pushed(c) = Len(calls[c]) - 1
  BY DEF Pushed
<1>4. ~(Len(calls[c]) <= Pushed(c))
  BY <1>2, <1>3
<1>5. <<c, Len(calls[c])>> \notin Queue!ToSet(sent)
  BY <1>2, <1>4 DEF ClientInv
<1> QED  BY <1>2, <1>5 DEF LastTicket, Tickets

\* Whatever the threads of the engine do, they use the queue as it is meant to
\* be used: each item is pushed once, the flag is set once, one thread pops.
LEMMA EngineStepsQueue ==
  ASSUME EngineInv, [Next]_vars
  PROVE  [Queue!Next]_(Queue!vars)
<1> USE DEF EngineInv
<1>1. ASSUME NEW c \in Clients, Push(c)
      PROVE  Queue!Next
  <2>1. doing[c] = "called"
    BY <1>1 DEF Push
  <2>2. stage[c] # "notify_one"
    BY <1>1 DEF Push, Queue!EnterPush, Queue!Enqueue
  <2>3. LastTicket(c) \in Tickets \ Queue!ToSet(sent)
    BY <2>1, <2>2, LastTicketUnsent
  <2> QED  BY <1>1, <2>3 DEF Push, Queue!Next, Queue!PushStep
<1>2. ASSUME NEW c \in Clients, PushReturns(c)
      PROVE  Queue!Next
  BY <1>2 DEF PushReturns, Queue!Next, Queue!PushStep
<1>3. ASSUME Shutdown
      PROVE  Queue!Next
  <2>1. Queue!EnterShutdown(Owner) => ~shutdown
    BY <1>3 DEF Shutdown, OwnerInv, Queue!EnterShutdown
  <2> QED  BY <1>3, <2>1 DEF Shutdown, Queue!Next, Queue!ShutdownStep
<1>4. ASSUME Pop \/ WakeSpuriously
      PROVE  Queue!Next
  BY <1>4 DEF Pop, WakeSpuriously, Queue!Next, Queue!PopStep
<1>5. ASSUME UNCHANGED queueVars
      PROVE  UNCHANGED Queue!vars
  BY <1>5 DEF queueVars, Queue!vars
<1>6. ASSUME NEW c \in Clients, ReadReturns(c) \/ \E r \in Requests : Call(c, r)
      PROVE  UNCHANGED Queue!vars
  BY <1>5, <1>6 DEF ReadReturns, Call
<1>7. ASSUME Start \/ Stop \/ Join \/ Destroy
      PROVE  UNCHANGED Queue!vars
  BY <1>5, <1>7 DEF Start, Stop, Join, Destroy
<1>8. ASSUME Process \/ Match \/ Fulfil \/ FulfilRead
      PROVE  UNCHANGED Queue!vars
  BY <1>5, <1>8 DEF Process, Match, Fulfil, FulfilRead
<1>9. ASSUME UNCHANGED vars
      PROVE  UNCHANGED Queue!vars
  BY <1>5, <1>9 DEF vars
<1> QED
  BY <1>1, <1>2, <1>3, <1>4, <1>6, <1>7, <1>8, <1>9
  DEF Next, ClientStep, StopStep, MatcherStep

-----------------------------------------------------------------------------
(* Sequences.                                                              *)

LEMMA ToSetAppend ==
  ASSUME NEW S, NEW s \in Seq(S), NEW e \in S
  PROVE  Queue!ToSet(Append(s, e)) = Queue!ToSet(s) \cup {e}
<1> DEFINE a == Append(s, e)
<1>1. /\ DOMAIN a = 1 .. Len(s) + 1 /\ DOMAIN s = 1 .. Len(s) /\ Len(s) \in Nat
      /\ a[Len(s) + 1] = e /\ \A i \in 1 .. Len(s) : a[i] = s[i]
  OBVIOUS
<1> HIDE DEF a
<1>2. Queue!ToSet(a) = Queue!ToSet(s) \cup {e}
  BY <1>1 DEF Queue!ToSet
<1> QED  BY <1>2 DEF a

\* What was received is a prefix of what was sent, and the queue is the rest.
LEMMA SentIsReceivedThenQueue ==
  ASSUME TypeOK, Queue!NothingLostOrReordered
  PROVE  /\ Len(sent) = Len(received) + Len(queue)
         /\ Len(received) \in Nat /\ Len(queue) \in Nat
         /\ \A i \in 1 .. Len(received) : sent[i] = received[i]
         /\ \A i \in 1 .. Len(queue) : sent[Len(received) + i] = queue[i]
<1>1. received \in Seq(Tickets) /\ queue \in Seq(Tickets) /\ sent = received \o queue
  BY QueueTypes DEF Queue!NothingLostOrReordered
<1> QED  BY <1>1

LEMMA ReceivedWereSent ==
  ASSUME TypeOK, Queue!NothingLostOrReordered
  PROVE  /\ Queue!ToSet(received) \subseteq Queue!ToSet(sent)
         /\ Queue!ToSet(queue) \subseteq Queue!ToSet(sent)
         /\ queue = <<>> => Queue!ToSet(received) = Queue!ToSet(sent)
<1>1. /\ DOMAIN sent = 1 .. Len(sent) /\ DOMAIN received = 1 .. Len(received)
      /\ DOMAIN queue = 1 .. Len(queue)
  BY QueueTypes
<1>2. queue = <<>> => Len(queue) = 0
  OBVIOUS
<1>3. Queue!ToSet(received) \subseteq Queue!ToSet(sent)
  BY <1>1, SentIsReceivedThenQueue DEF Queue!ToSet
<1>4. Queue!ToSet(queue) \subseteq Queue!ToSet(sent)
  <2>1. ASSUME NEW i \in 1 .. Len(queue)
        PROVE  queue[i] \in Queue!ToSet(sent)
    <3>1. Len(received) + i \in DOMAIN sent /\ sent[Len(received) + i] = queue[i]
      BY <1>1, SentIsReceivedThenQueue
    <3> QED  BY <3>1 DEF Queue!ToSet
  <2> QED  BY <1>1, <2>1 DEF Queue!ToSet
<1>5. ASSUME queue = <<>>
      PROVE  Queue!ToSet(sent) \subseteq Queue!ToSet(received)
  BY <1>1, <1>2, <1>5, SentIsReceivedThenQueue DEF Queue!ToSet
<1> QED  BY <1>3, <1>4, <1>5

\* A ticket stands in one place of what was sent.
LEMMA SentOnce ==
  ASSUME TypeOK, SentInOrder, NEW i \in DOMAIN sent, NEW j \in DOMAIN sent,
         sent[i] = sent[j]
  PROVE  i = j
<1>1. i \in Int /\ j \in Int /\ sent[i] \in Tickets /\ sent[j] \in Tickets
  BY QueueTypes
<1>2. sent[i][2] \in Int /\ sent[j][2] \in Int
  BY <1>1 DEF Tickets
<1> QED  BY <1>1, <1>2 DEF SentInOrder

\* What still waits in the queue has not been received.
LEMMA QueuedNotReceived ==
  ASSUME TypeOK, Queue!NothingLostOrReordered, SentInOrder
  PROVE  Queue!ToSet(queue) \cap Queue!ToSet(received) = {}
<1> SUFFICES ASSUME NEW i \in DOMAIN queue, NEW j \in DOMAIN received, queue[i] = received[j]
             PROVE  FALSE
  BY DEF Queue!ToSet
<1>1. i \in 1 .. Len(queue) /\ j \in 1 .. Len(received) /\ DOMAIN sent = 1 .. Len(sent)
  BY QueueTypes
<1>2. sent[Len(received) + i] = sent[j]
  BY <1>1, SentIsReceivedThenQueue
<1>3. Len(received) + i \in DOMAIN sent /\ j \in DOMAIN sent /\ Len(received) + i # j
  BY <1>1, SentIsReceivedThenQueue
<1> QED  BY <1>2, <1>3, SentOnce

-----------------------------------------------------------------------------
(* The steps.                                                              *)

LEMMA InitEngineInv == Init => EngineInv
<1> SUFFICES ASSUME Init PROVE EngineInv
  OBVIOUS
<1>1. Queue!TypeOK /\ Queue!NothingLostOrReordered
  BY QueueAssumptions, SameQueueInit, SameQueueInvariants, QueueProofs!InitFifoInv DEF Init
<1>2. TypeOK
  BY <1>1, EngineBoundsAssumption DEF Init, TypeOK
<1>3. \A t \in Clients \cup {Matcher, Owner} : stage[t] = "out"
  BY DEF Init, Queue!Init, Queue!Threads
<1>4. sent = <<>> /\ received = <<>> /\ shutdown = FALSE /\ pc = "idle"
  BY DEF Init, Queue!Init, Book!Init
<1>5. Queue!ToSet(sent) = {} /\ Queue!ToSet(received) = {} /\ DOMAIN sent = {}
  BY <1>4 DEF Queue!ToSet
<1>6. ClientInv
  <2>1. ASSUME NEW c \in Clients
        PROVE  doing[c] = "idle" /\ Len(calls[c]) = 0 /\ Pushed(c) = 0
    BY DEF Init, Pushed
  <2> QED  BY <1>3, <1>5, <2>1 DEF ClientInv
<1>7. SentInOrder /\ OwnerInv /\ MatcherInv
  BY <1>3, <1>4, <1>5 DEF Init, SentInOrder, OwnerInv, MatcherInv
<1>8. AnswerInv
  BY <1>5 DEF Init, AnswerInv, Answered
<1> QED  BY <1>1, <1>2, <1>6, <1>7, <1>8 DEF EngineInv

LEMMA QueueInvStep ==
  ASSUME EngineInv, [Next]_vars
  PROVE  Queue!TypeOK' /\ Queue!NothingLostOrReordered'
<1>1. [QueueProofs!Next]_(QueueProofs!vars)
  BY EngineStepsQueue, SameQueueNext
<1>2. QueueProofs!FifoInv
  BY SameQueueInvariants DEF EngineInv, TypeOK
<1>3. QueueProofs!FifoInv'
  BY <1>1, <1>2, QueueAssumptions, QueueProofs!FifoInvStep
<1> QED
  BY <1>3
  DEF QueueProofs!FifoInv, QueueProofs!TypeOK, Queue!TypeOK, QueueProofs!Threads,
      Queue!Threads, QueueProofs!Stages, Queue!Stages,
      QueueProofs!NothingLostOrReordered, Queue!NothingLostOrReordered

LEMMA TypeOKStep ==
  ASSUME EngineInv, [Next]_vars
  PROVE  TypeOK'
<1> DEFINE Own ==
      /\ owner \in {"new", "started", "stopping", "joining", "stopped", "destroyed"}
      /\ calls \in [Clients -> Seq(Requests)]
      /\ \A c \in Clients : Len(calls[c]) <= MaxCalls
      /\ doing \in [Clients -> {"idle", "called", "awaits"}]
      /\ current \in Tickets \cup {Nothing}
      /\ DOMAIN futures = Tickets
      /\ early \subseteq Tickets
<1>1. Own
  BY DEF EngineInv, TypeOK
<1>2. ASSUME NEW c \in Clients, NEW r \in Requests, Call(c, r)
      PROVE  Own'
  <2>1. calls[c] \in Seq(Requests) /\ Len(calls[c]) < MaxCalls
    BY <1>1, <1>2 DEF Call
  <2>2. /\ Append(calls[c], r) \in Seq(Requests) /\ Len(Append(calls[c], r)) <= MaxCalls
    BY <2>1, EngineBoundsAssumption
  <2> QED  BY <1>1, <1>2, <2>2 DEF Call
<1>3. ASSUME NEW c \in Clients, ClientStep(c)
      PROVE  Own'
  BY <1>1, <1>3 DEF ClientStep, Push, PushReturns, ReadReturns, clientVars
<1>4. ASSUME Start \/ Stop \/ Join \/ Destroy
      PROVE  Own'
  BY <1>1, <1>4 DEF Start, Stop, Join, Destroy, clientVars
<1>5. ASSUME Shutdown
      PROVE  Own'
  <2>1. Queue!ToSet(sent) \subseteq Tickets
    BY QueueTypes DEF EngineInv, Queue!ToSet
  <2> QED  BY <1>1, <1>5, <2>1 DEF Shutdown, clientVars
<1>6. ASSUME Pop \/ WakeSpuriously
      PROVE  Own'
  <2>1. Queue!PopItem(Matcher) => Head(queue) \in Tickets
    BY QueueTypes DEF EngineInv, Queue!PopItem
  <2> QED  BY <1>1, <1>6, <2>1 DEF Pop, WakeSpuriously, clientVars
<1>7. ASSUME Process \/ Match \/ Fulfil \/ FulfilRead
      PROVE  Own'
  BY <1>1, <1>7 DEF Process, Match, Fulfil, FulfilRead, Settle, clientVars
<1>8. ASSUME UNCHANGED vars
      PROVE  Own'
  BY <1>1, <1>8 DEF vars, clientVars
<1>9. Own'
  BY <1>2, <1>3, <1>4, <1>5, <1>6, <1>7, <1>8 DEF Next, StopStep, MatcherStep
<1> QED  BY <1>9, QueueInvStep DEF TypeOK

\* The steps of the owner and of the matching thread leave the clients alone.
LEMMA OthersKeepClients ==
  ASSUME ClientInv, UNCHANGED <<calls, doing, sent>>,
         \A c \in Clients : stage'[c] = stage[c]
  PROVE  ClientInv'
BY DEF ClientInv, Pushed, Queue!ToSet

LEMMA ClientInvStep ==
  ASSUME EngineInv, [Next]_vars
  PROVE  ClientInv'
<1> USE DEF EngineInv
<1>0. /\ stage = [t \in Clients \cup {Matcher, Owner} |-> stage[t]]
      /\ sent \in Seq(Tickets)
      /\ calls \in [Clients -> Seq(Requests)]
      /\ doing \in [Clients -> {"idle", "called", "awaits"}]
  BY QueueTypes DEF TypeOK
<1>1. ASSUME NEW c \in Clients, NEW r \in Requests, Call(c, r)
      PROVE  ClientInv'
  <2>1. /\ doing[c] = "idle" /\ doing'[c] = "called" /\ calls'[c] = Append(calls[c], r)
        /\ \A d \in Clients \ {c} : doing'[d] = doing[d] /\ calls'[d] = calls[d]
        /\ stage' = stage /\ sent' = sent
    BY <1>0, <1>1 DEF Call, queueVars
  <2>2. calls'[c] # <<>> /\ Len(calls'[c]) - 1 = Len(calls[c])
    <3>1. calls[c] \in Seq(Requests) /\ Len(calls[c]) \in Nat
      BY <1>0
    <3>2. Append(calls[c], r) # <<>> /\ Len(Append(calls[c], r)) = Len(calls[c]) + 1
      BY <3>1
    <3> QED  BY <2>1, <3>1, <3>2
  <2>3. stage[c] = "out"
    BY <2>1 DEF ClientInv
  <2>4. Pushed(c)' = Len(calls'[c]) - 1 /\ Pushed(c) = Len(calls[c])
    BY <2>1, <2>3 DEF Pushed
  <2>5. \A d \in Clients \ {c} : Pushed(d)' = Pushed(d)
    BY <2>1 DEF Pushed
  <2>6. \A d \in Clients : Pushed(d)' = Pushed(d)
    BY <2>2, <2>4, <2>5
  <2> QED  BY <2>1, <2>2, <2>3, <2>6 DEF ClientInv, Queue!ToSet
<1>2. ASSUME NEW c \in Clients, Push(c)
      PROVE  ClientInv'
  <2>1. doing[c] = "called" /\ doing' = doing /\ calls' = calls
    BY <1>2 DEF Push, clientVars
  <2>2. CASE Queue!EnterPush(c)
    <3>1. /\ stage[c] = "out" /\ stage'[c] = "pushing" /\ sent' = sent
          /\ \A d \in Clients \ {c} : stage'[d] = stage[d]
      BY <1>0, <2>2 DEF Queue!EnterPush, Queue!Goto, Queue!history
    <3>2. \A d \in Clients : Pushed(d)' = Pushed(d)
      BY <2>1, <3>1 DEF Pushed
    <3> QED  BY <2>1, <3>1, <3>2 DEF ClientInv, Queue!ToSet
  <2>3. CASE Queue!Enqueue(c, LastTicket(c))
    <3>1. /\ stage[c] = "pushing" /\ stage'[c] = "notify_one"
          /\ sent' = Append(sent, LastTicket(c))
          /\ \A d \in Clients \ {c} : stage'[d] = stage[d]
      BY <1>0, <2>3 DEF Queue!Enqueue, Queue!Goto
    <3>2. /\ Pushed(c) = Len(calls[c]) - 1 /\ Pushed(c)' = Len(calls[c])
          /\ \A d \in Clients \ {c} : Pushed(d)' = Pushed(d)
      BY <2>1, <3>1 DEF Pushed
    <3>3. LastTicket(c) \in Tickets
      BY <2>1, <3>1, LastTicketUnsent
    <3>4. Queue!ToSet(sent') = Queue!ToSet(sent) \cup {LastTicket(c)}
      BY <1>0, <3>1, <3>3, ToSetAppend
    <3>5. ASSUME NEW d \in Clients, NEW n \in 1 .. MaxCalls
          PROVE  <<d, n>> \in Queue!ToSet(sent') <=> n <= Pushed(d)'
      <4>1. <<d, n>> \in Queue!ToSet(sent) <=> n <= Pushed(d)
        BY DEF ClientInv
      <4>2. <<d, n>> = LastTicket(c) <=> d = c /\ n = Len(calls[c])
        BY DEF LastTicket
      <4>3. Len(calls[c]) \in Nat /\ n \in Int
        BY <1>0
      <4> QED  BY <3>2, <3>4, <4>1, <4>2, <4>3
    <3> QED  BY <2>1, <3>1, <3>5 DEF ClientInv, Queue!ToSet
  <2> QED  BY <1>2, <2>2, <2>3 DEF Push
<1>3. ASSUME NEW c \in Clients, PushReturns(c)
      PROVE  ClientInv'
  <2>1. /\ stage[c] = "notify_one" /\ stage'[c] = "out" /\ sent' = sent
        /\ \A d \in Clients \ {c} : stage'[d] = stage[d]
    BY <1>0, <1>3, OnlyMatcherBlocks, EngineThreadsAssumption
    DEF PushReturns, Queue!NotifyOne, Queue!Goto, Queue!history, Queue!In
  <2>2. /\ doing'[c] \in {"awaits", "idle"} /\ calls' = calls
        /\ \A d \in Clients \ {c} : doing'[d] = doing[d]
    BY <1>0, <1>3 DEF PushReturns
  <2>3. \A d \in Clients : Pushed(d)' = Pushed(d)
    BY <2>1, <2>2 DEF Pushed
  <2> QED  BY <2>1, <2>2, <2>3 DEF ClientInv, Queue!ToSet
<1>4. ASSUME NEW c \in Clients, ReadReturns(c)
      PROVE  ClientInv'
  <2>1. /\ doing[c] = "awaits" /\ doing'[c] = "idle" /\ calls' = calls
        /\ \A d \in Clients \ {c} : doing'[d] = doing[d]
        /\ stage' = stage /\ sent' = sent
    BY <1>0, <1>4 DEF ReadReturns, queueVars
  <2>2. \A d \in Clients : Pushed(d)' = Pushed(d)
    BY <2>1 DEF Pushed
  <2> QED  BY <2>1, <2>2 DEF ClientInv, Queue!ToSet
<1>5. ASSUME Shutdown
      PROVE  ClientInv'
  <2>1. \A c \in Clients : stage'[c] = stage[c]
    BY <1>0, <1>5, EngineThreadsAssumption
    DEF Shutdown, ClientInv, Queue!EnterShutdown, Queue!SetShutdown, Queue!NotifyAll,
        Queue!Goto, Queue!Threads
  <2>2. UNCHANGED <<calls, doing, sent>>
    BY <1>5 DEF Shutdown, clientVars, Queue!EnterShutdown, Queue!SetShutdown,
                Queue!NotifyAll, Queue!history
  <2> QED  BY <2>1, <2>2, OthersKeepClients
<1>6. ASSUME Pop \/ WakeSpuriously
      PROVE  ClientInv'
  <2>1. \A c \in Clients : stage'[c] = stage[c]
    BY <1>0, <1>6, EngineThreadsAssumption
    DEF Pop, WakeSpuriously, Queue!EnterPop, Queue!Block, Queue!Reacquire,
        Queue!PopNothing, Queue!PopItem, Queue!WakeSpuriously, Queue!Goto
  <2>2. UNCHANGED <<calls, doing, sent>>
    BY <1>6 DEF Pop, WakeSpuriously, clientVars, Queue!EnterPop, Queue!Block,
                Queue!Reacquire, Queue!PopNothing, Queue!PopItem,
                Queue!WakeSpuriously, Queue!history
  <2> QED  BY <2>1, <2>2, OthersKeepClients
<1>7. ASSUME UNCHANGED <<clientVars, queueVars>>
      PROVE  ClientInv'
  BY <1>7, OthersKeepClients DEF clientVars, queueVars
<1>8. ASSUME Start \/ Stop \/ Join \/ Destroy
      PROVE  ClientInv'
  BY <1>7, <1>8 DEF Start, Stop, Join, Destroy
<1>9. ASSUME Process \/ Match \/ Fulfil \/ FulfilRead \/ UNCHANGED vars
      PROVE  ClientInv'
  BY <1>7, <1>9 DEF Process, Match, Fulfil, FulfilRead, vars
<1> QED
  BY <1>1, <1>2, <1>3, <1>4, <1>5, <1>6, <1>8, <1>9
  DEF Next, ClientStep, StopStep, MatcherStep

\* Only Enqueue sends, and it sends a ticket past all that its client has sent.
LEMMA SentGrows ==
  ASSUME EngineInv, [Next]_vars
  PROVE  \/ sent' = sent
         \/ \E c \in Clients : /\ doing[c] = "called" /\ stage[c] = "pushing"
                               /\ sent' = Append(sent, LastTicket(c))
BY DEF Next, ClientStep, StopStep, MatcherStep, Call, Push, PushReturns, ReadReturns,
       Start, Stop, Shutdown, Join, Destroy, Pop, WakeSpuriously, Process, Match, Fulfil,
       FulfilRead, queueVars, vars, Queue!history, Queue!EnterPush, Queue!Enqueue,
       Queue!NotifyOne, Queue!EnterShutdown, Queue!SetShutdown, Queue!NotifyAll,
       Queue!EnterPop, Queue!Block, Queue!Reacquire, Queue!PopNothing, Queue!PopItem,
       Queue!WakeSpuriously

LEMMA SentInOrderStep ==
  ASSUME EngineInv, [Next]_vars
  PROVE  SentInOrder'
<1> USE DEF EngineInv
<1>1. CASE sent' = sent
  BY <1>1 DEF SentInOrder
<1>2. ASSUME NEW c \in Clients, doing[c] = "called", stage[c] = "pushing",
             sent' = Append(sent, LastTicket(c))
      PROVE  SentInOrder'
  <2>1. sent \in Seq(Tickets) /\ LastTicket(c) = <<c, Len(calls[c])>>
    BY QueueTypes DEF LastTicket
  <2>2. /\ DOMAIN sent' = 1 .. Len(sent) + 1 /\ DOMAIN sent = 1 .. Len(sent)
        /\ Len(sent) \in Nat /\ sent'[Len(sent) + 1] = LastTicket(c)
        /\ \A i \in 1 .. Len(sent) : sent'[i] = sent[i]
    BY <1>2, <2>1
  <2>3. Len(calls[c]) \in Nat /\ Pushed(c) = Len(calls[c]) - 1
    BY <1>2 DEF Pushed, TypeOK
  <2>4. ASSUME NEW i \in DOMAIN sent, sent[i][1] = c
        PROVE  sent[i][2] < Len(calls[c])
    <3>1. PICK n \in 1 .. MaxCalls : sent[i] = <<c, n>>
      BY <2>1, <2>4 DEF Tickets
    <3>2. <<c, n>> \in Queue!ToSet(sent)
      BY <3>1 DEF Queue!ToSet
    <3>3. n <= Pushed(c) /\ n \in Int
      BY <3>2 DEF ClientInv
    <3> QED  BY <2>3, <3>1, <3>3
  <2>5. ASSUME NEW i \in DOMAIN sent', NEW j \in DOMAIN sent', i < j,
               sent'[i][1] = sent'[j][1]
        PROVE  sent'[i][2] < sent'[j][2]
    <3>1. i \in DOMAIN sent /\ sent'[i] = sent[i]
      BY <2>2, <2>5
    <3>2. CASE j \in DOMAIN sent
      BY <2>2, <2>5, <3>1, <3>2 DEF SentInOrder
    <3>3. CASE j = Len(sent) + 1
      BY <2>1, <2>2, <2>4, <2>5, <3>1, <3>3
    <3> QED  BY <2>2, <3>2, <3>3
  <2> QED  BY <2>5 DEF SentInOrder
<1> QED  BY <1>1, <1>2, SentGrows

LEMMA SentSetGrows ==
  ASSUME EngineInv, [Next]_vars
  PROVE  Queue!ToSet(sent) \subseteq Queue!ToSet(sent')
<1>1. ASSUME NEW c \in Clients, doing[c] = "called", stage[c] = "pushing",
             sent' = Append(sent, LastTicket(c))
      PROVE  Queue!ToSet(sent) \subseteq Queue!ToSet(sent')
  <2>1. sent \in Seq(Tickets) /\ LastTicket(c) \in Tickets
    BY <1>1, QueueTypes, LastTicketUnsent DEF EngineInv
  <2> QED  BY <1>1, <2>1, ToSetAppend
<1> QED  BY <1>1, SentGrows

\* The steps of the clients and of the matching thread leave the owner alone.
LEMMA OthersKeepOwner ==
  ASSUME EngineInv, UNCHANGED <<owner, shutdown, early>>, stage'[Owner] = stage[Owner],
         Queue!ToSet(sent) \subseteq Queue!ToSet(sent')
  PROVE  OwnerInv'
BY DEF EngineInv, OwnerInv, Queue!ToSet

LEMMA OwnerInvStep ==
  ASSUME EngineInv, [Next]_vars
  PROVE  OwnerInv'
<1> USE DEF EngineInv
<1>0. /\ stage = [t \in Clients \cup {Matcher, Owner} |-> stage[t]]
      /\ sent \in Seq(Tickets) /\ shutdown \in BOOLEAN
      /\ owner \in {"new", "started", "stopping", "joining", "stopped", "destroyed"}
  BY QueueTypes DEF TypeOK
<1>1. Queue!ToSet(sent) \subseteq Queue!ToSet(sent')
  BY SentSetGrows
<1>2. ASSUME NEW c \in Clients, Push(c) \/ PushReturns(c)
      PROVE  OwnerInv'
  <2>1. stage'[Owner] = stage[Owner]
    BY <1>0, <1>2, OnlyMatcherBlocks, EngineThreadsAssumption
    DEF Push, PushReturns, Queue!EnterPush, Queue!Enqueue, Queue!NotifyOne, Queue!Goto, Queue!In
  <2>2. UNCHANGED <<owner, shutdown, early>>
    BY <1>2 DEF Push, PushReturns, Queue!EnterPush, Queue!Enqueue, Queue!NotifyOne
  <2> QED  BY <1>1, <2>1, <2>2, OthersKeepOwner
<1>3. ASSUME Shutdown
      PROVE  OwnerInv'
  <2>1. CASE Queue!EnterShutdown(Owner) /\ UNCHANGED <<early, owner>>
    BY <1>0, <1>3, <2>1 DEF Shutdown, OwnerInv, Queue!EnterShutdown, Queue!Goto,
                            Queue!history, Queue!ToSet
  <2>2. CASE Queue!SetShutdown(Owner) /\ early' = Queue!ToSet(sent) /\ UNCHANGED owner
    BY <1>0, <1>3, <2>2 DEF Shutdown, OwnerInv, Queue!SetShutdown, Queue!Goto,
                            Queue!history, Queue!ToSet
  <2>3. CASE Queue!NotifyAll(Owner) /\ owner' = "joining" /\ UNCHANGED early
    <3>1. stage'[Owner] = "out"
      BY <2>3 DEF Queue!NotifyAll, Queue!Threads
    <3> QED  BY <1>3, <2>3, <3>1 DEF Shutdown, OwnerInv, Queue!NotifyAll, Queue!history, Queue!ToSet
  <2> QED  BY <1>3, <2>1, <2>2, <2>3 DEF Shutdown
<1>4. ASSUME Pop \/ WakeSpuriously
      PROVE  OwnerInv'
  <2>1. stage'[Owner] = stage[Owner]
    BY <1>0, <1>4, EngineThreadsAssumption
    DEF Pop, WakeSpuriously, Queue!EnterPop, Queue!Block, Queue!Reacquire,
        Queue!PopNothing, Queue!PopItem, Queue!WakeSpuriously, Queue!Goto
  <2>2. UNCHANGED <<owner, shutdown, early>>
    BY <1>4 DEF Pop, WakeSpuriously, Queue!EnterPop, Queue!Block, Queue!Reacquire,
                Queue!PopNothing, Queue!PopItem, Queue!WakeSpuriously
  <2> QED  BY <1>1, <2>1, <2>2, OthersKeepOwner
<1>5. ASSUME Start \/ Stop \/ Join \/ Destroy
      PROVE  OwnerInv'
  BY <1>0, <1>5 DEF Start, Stop, Join, Destroy, OwnerInv, queueVars, Queue!ToSet
<1>6. ASSUME UNCHANGED <<queueVars, owner, early>>
      PROVE  OwnerInv'
  BY <1>1, <1>6, OthersKeepOwner DEF queueVars
<1>7. ASSUME NEW c \in Clients, ReadReturns(c) \/ \E r \in Requests : Call(c, r)
      PROVE  OwnerInv'
  BY <1>6, <1>7 DEF ReadReturns, Call
<1>8. ASSUME Process \/ Match \/ Fulfil \/ FulfilRead \/ UNCHANGED vars
      PROVE  OwnerInv'
  BY <1>6, <1>8 DEF Process, Match, Fulfil, FulfilRead, vars
<1> QED
  BY <1>2, <1>3, <1>4, <1>5, <1>7, <1>8 DEF Next, ClientStep, StopStep, MatcherStep

\* The steps of the clients and of the owner wake the matching thread at most.
LEMMA OthersKeepMatcher ==
  ASSUME EngineInv, UNCHANGED <<received, current, pc, owner>>,
         \/ early' = early
         \/ stage[Matcher] # "drained" /\ owner # "destroyed",
         shutdown => shutdown',
         \/ stage'[Matcher] = stage[Matcher]
         \/ stage[Matcher] = "blocked" /\ stage'[Matcher] = "woken"
  PROVE  MatcherInv'
BY DEF EngineInv, MatcherInv, Queue!ToSet

LEMMA MatcherInvStep ==
  ASSUME EngineInv, [Next]_vars
  PROVE  MatcherInv'
<1> USE DEF EngineInv
<1>0. /\ stage = [t \in Clients \cup {Matcher, Owner} |-> stage[t]]
      /\ shutdown \in BOOLEAN /\ received \in Seq(Tickets) /\ queue \in Seq(Tickets)
      /\ current \in Tickets \cup {Nothing}
      /\ owner \in {"new", "started", "stopping", "joining", "stopped", "destroyed"}
  BY QueueTypes DEF TypeOK
<1>1. ASSUME NEW c \in Clients, Push(c) \/ PushReturns(c)
      PROVE  MatcherInv'
  <2>1. \/ stage'[Matcher] = stage[Matcher]
        \/ stage[Matcher] = "blocked" /\ stage'[Matcher] = "woken"
    BY <1>0, <1>1, EngineThreadsAssumption
    DEF Push, PushReturns, Queue!EnterPush, Queue!Enqueue, Queue!NotifyOne, Queue!Goto, Queue!In
  <2>2. UNCHANGED <<received, current, pc, owner, early, shutdown>>
    BY <1>1 DEF Push, PushReturns, Queue!EnterPush, Queue!Enqueue, Queue!NotifyOne,
                Queue!history, bookVars
  <2> QED  BY <2>1, <2>2, OthersKeepMatcher
<1>2. ASSUME Shutdown
      PROVE  MatcherInv'
  <2>1. UNCHANGED <<received, current, pc>>
    BY <1>2 DEF Shutdown, Queue!EnterShutdown, Queue!SetShutdown, Queue!NotifyAll,
                Queue!history, bookVars
  <2>2. CASE Queue!EnterShutdown(Owner) /\ UNCHANGED <<early, owner>>
    <3>1. stage'[Matcher] = stage[Matcher] /\ shutdown' = shutdown
      BY <1>0, <2>2, EngineThreadsAssumption DEF Queue!EnterShutdown, Queue!Goto
    <3> QED  BY <2>1, <2>2, <3>1, OthersKeepMatcher
  <2>3. CASE Queue!SetShutdown(Owner) /\ UNCHANGED owner
    <3>1. stage'[Matcher] = stage[Matcher] /\ shutdown' = TRUE
      BY <1>0, <2>3, EngineThreadsAssumption DEF Queue!SetShutdown, Queue!Goto
    <3>2. ~shutdown /\ owner = "stopping"
      BY <1>2, <2>3 DEF Shutdown, Queue!SetShutdown, OwnerInv
    <3>3. stage[Matcher] # "drained"
      BY <3>2 DEF MatcherInv
    <3> QED  BY <2>1, <2>3, <3>1, <3>2, <3>3, OthersKeepMatcher
  <2>4. CASE Queue!NotifyAll(Owner) /\ owner' = "joining" /\ UNCHANGED early
    <3>1. /\ \/ stage'[Matcher] = stage[Matcher]
             \/ stage[Matcher] = "blocked" /\ stage'[Matcher] = "woken"
          /\ shutdown' = shutdown
      BY <1>0, <2>4, EngineThreadsAssumption DEF Queue!NotifyAll, Queue!Threads
    <3> QED  BY <1>2, <2>1, <2>4, <3>1 DEF Shutdown, MatcherInv, Queue!ToSet
  <2> QED  BY <1>2, <2>2, <2>3, <2>4 DEF Shutdown
<1>3. ASSUME Pop, ~Queue!PopItem(Matcher), ~Queue!PopNothing(Matcher)
      PROVE  MatcherInv'
  <2>1. /\ stage[Matcher] \in {"out", "checking", "woken"}
        /\ stage'[Matcher] \in {"checking", "blocked"}
        /\ current = Nothing /\ owner \in {"started", "stopping", "joining", "stopped"}
    BY <1>0, <1>3
    DEF Pop, Queue!EnterPop, Queue!Block, Queue!Reacquire, Queue!Goto
  <2>2. UNCHANGED <<received, current, pc, owner, early, shutdown>>
    BY <1>3 DEF Pop, Queue!EnterPop, Queue!Block, Queue!Reacquire, Queue!history, bookVars
  <2> QED  BY <2>1, <2>2 DEF MatcherInv
<1>4. ASSUME Pop, Queue!PopNothing(Matcher)
      PROVE  MatcherInv'
  <2>1. /\ queue = <<>> /\ shutdown /\ stage'[Matcher] = "drained" /\ current = Nothing
        /\ owner \notin {"new", "destroyed"}
    BY <1>0, <1>4 DEF Pop, Queue!PopNothing, Queue!Goto
  <2>2. UNCHANGED <<received, current, pc, owner, early, shutdown>>
    BY <1>4, <2>1 DEF Pop, Queue!PopNothing, Queue!PopItem, Queue!history, bookVars
  <2>3. early \subseteq Queue!ToSet(received)
    BY <2>1, ReceivedWereSent DEF OwnerInv
  <2> QED  BY <2>1, <2>2, <2>3 DEF MatcherInv, Queue!ToSet
<1>5. ASSUME Pop, Queue!PopItem(Matcher)
      PROVE  MatcherInv'
  <2>1. /\ stage[Matcher] = "checking" /\ stage'[Matcher] = "out"
        /\ received' = Append(received, Head(queue)) /\ queue # <<>>
        /\ owner \notin {"new", "destroyed"}
    BY <1>0, <1>5 DEF Pop, Queue!PopItem, Queue!Goto
  <2>2. current' = Head(queue) /\ UNCHANGED owner
    BY <1>5, <2>1 DEF Pop, Queue!PopItem, Queue!EnterPop, Queue!Block, Queue!Reacquire,
                      Queue!PopNothing
  <2>3. Head(queue) \in Tickets
    BY <1>0, <2>1
  <2>4. received' # <<>> /\ received'[Len(received')] = Head(queue)
    BY <1>0, <2>1, <2>3
  <2>5. owner # "stopped" /\ current' # Nothing
    BY <2>1, <2>2, <2>3, NothingAssumption DEF MatcherInv
  <2> QED  BY <2>1, <2>2, <2>4, <2>5 DEF MatcherInv
<1>6. ASSUME WakeSpuriously
      PROVE  MatcherInv'
  <2>1. stage[Matcher] = "blocked" /\ stage'[Matcher] = "woken"
    BY <1>0, <1>6 DEF WakeSpuriously, Queue!WakeSpuriously, Queue!Goto
  <2>2. UNCHANGED <<received, current, pc, owner, early, shutdown>>
    BY <1>6 DEF WakeSpuriously, Queue!WakeSpuriously, Queue!history, bookVars
  <2> QED  BY <2>1, <2>2, OthersKeepMatcher
<1>7. ASSUME Start \/ Stop \/ Join \/ Destroy
      PROVE  MatcherInv'
  <2>1. UNCHANGED <<received, current, pc, stage, shutdown, early>>
    BY <1>7 DEF Start, Stop, Join, Destroy, queueVars, bookVars
  <2>2. Destroy => /\ stage[Matcher] \in {"out", "drained"} /\ current = Nothing
                   /\ early \subseteq Queue!ToSet(received)
    BY DEF Destroy, MatcherInv, OwnerInv
  <2> QED  BY <1>7, <2>1, <2>2 DEF Start, Stop, Join, Destroy, MatcherInv, Queue!ToSet
<1>8. ASSUME Process \/ Match \/ Fulfil \/ FulfilRead
      PROVE  MatcherInv'
  <2>1. UNCHANGED <<received, stage, shutdown, early, owner>>
    BY <1>8 DEF Process, Match, Fulfil, FulfilRead, queueVars
  <2>2. current # Nothing
    BY <1>8 DEF Process, Match, Fulfil, FulfilRead, MatcherInv, Book!ConsumeMaker,
                Book!ReduceMaker, Book!RestRemainder, Book!DropRemainder, Book!Return
  <2>3. \/ current' = current
        \/ current' = Nothing /\ pc' = "idle"
    BY <1>8 DEF Process, Match, Fulfil, FulfilRead, Settle, Book!Return, bookVars
  <2> QED  BY <2>1, <2>2, <2>3 DEF MatcherInv, Queue!ToSet
<1>9. ASSUME UNCHANGED <<queueVars, bookVars, owner, current, early>>
      PROVE  MatcherInv'
  BY <1>9 DEF queueVars, bookVars, MatcherInv, Queue!ToSet
<1>10. ASSUME NEW c \in Clients, ReadReturns(c) \/ \E r \in Requests : Call(c, r)
       PROVE  MatcherInv'
  BY <1>9, <1>10 DEF ReadReturns, Call
<1>11. ASSUME UNCHANGED vars
       PROVE  MatcherInv'
  BY <1>9, <1>11 DEF vars
<1> QED
  BY <1>1, <1>2, <1>3, <1>4, <1>5, <1>6, <1>7, <1>8, <1>10, <1>11
  DEF Next, ClientStep, StopStep, MatcherStep

LEMMA AnswerInvStep ==
  ASSUME EngineInv, [Next]_vars
  PROVE  AnswerInv'
<1> USE DEF EngineInv
<1>0. /\ received \in Seq(Tickets) /\ queue \in Seq(Tickets)
      /\ current \in Tickets \cup {Nothing}
      /\ DOMAIN futures = Tickets
  BY QueueTypes DEF TypeOK, AnswerInv
<1>1. ASSUME UNCHANGED <<received, current, futures>>
      PROVE  AnswerInv'
  BY <1>1 DEF AnswerInv, Answered, Queue!ToSet
<1>2. ASSUME Pop, Queue!PopItem(Matcher)
      PROVE  AnswerInv'
  <2> DEFINE h == Head(queue)
  <2>1. queue # <<>> /\ received' = Append(received, h)
    BY <1>2 DEF Queue!PopItem
  <2>2. current = Nothing /\ current' = h /\ futures' = futures
    BY <1>2, <2>1 DEF Pop, Queue!PopItem, Queue!EnterPop, Queue!Block, Queue!Reacquire,
                      Queue!PopNothing
  <2>3. h \in Tickets /\ h \in Queue!ToSet(queue)
    <3>1. 1 \in DOMAIN queue /\ h = queue[1]
      BY <1>0, <2>1
    <3> QED  BY <1>0, <3>1 DEF Queue!ToSet
  <2>4. h \notin Queue!ToSet(received)
    BY <2>3, QueuedNotReceived
  <2>5. Queue!ToSet(received') = Queue!ToSet(received) \cup {h}
    BY <1>0, <2>1, <2>3, ToSetAppend
  <2> HIDE DEF h
  <2>6. ASSUME NEW t \in Tickets
        PROVE  Answered(t)' <=> t \in Queue!ToSet(received') /\ t # current'
    <3>1. Answered(t)' <=> Answered(t)
      BY <2>2 DEF Answered
    <3>2. Answered(t) <=> t \in Queue!ToSet(received)
      BY <2>2, NothingAssumption DEF AnswerInv
    <3> QED  BY <2>2, <2>4, <2>5, <3>1, <3>2
  <2> QED  BY <2>6 DEF AnswerInv, Queue!ToSet
<1>3. ASSUME Fulfil \/ FulfilRead
      PROVE  AnswerInv'
  <2>1. current # Nothing /\ UNCHANGED received
    BY <1>3 DEF Fulfil, FulfilRead, queueVars, MatcherInv, Book!Return
  <2>2. current \in Tickets /\ current \in Queue!ToSet(received)
    <3>1. Len(received) \in DOMAIN received /\ current = received[Len(received)]
      BY <1>0, <2>1 DEF MatcherInv
    <3> QED  BY <1>0, <2>1, <3>1 DEF Queue!ToSet
  <2>3. PICK answer : /\ answer \notin {Pending, Broken}
                      /\ futures' = [futures EXCEPT ![current] = answer]
                      /\ current' = Nothing
    <3>1. Done \notin {Pending, Broken}
      BY DEF Done, Pending, Broken
    <3>2. \A r, tr : [result |-> r, trades |-> tr] \notin {Pending, Broken}
      BY DEF Pending, Broken
    <3>3. \A v : [value |-> v] \notin {Pending, Broken}
      BY DEF Pending, Broken
    <3>4. CASE Fulfil
      BY <3>1, <3>2, <3>4 DEF Fulfil, Settle
    <3>5. CASE FulfilRead
      BY <3>3, <3>5 DEF FulfilRead, Settle
    <3> QED  BY <1>3, <3>4, <3>5
  <2>4. ASSUME NEW t \in Tickets
        PROVE  Answered(t)' <=> t \in Queue!ToSet(received) /\ t # current'
    <3>1. CASE t = current
      BY <1>0, <2>2, <2>3, <3>1, NothingAssumption DEF Answered
    <3>2. CASE t # current
      <4>1. futures'[t] = futures[t]
        BY <1>0, <2>3, <3>2
      <4>2. Answered(t) <=> t \in Queue!ToSet(received)
        BY <3>2 DEF AnswerInv
      <4> QED  BY <2>3, <4>1, <4>2, NothingAssumption DEF Answered
    <3> QED  BY <3>1, <3>2
  <2> QED  BY <2>1, <2>4 DEF AnswerInv, Queue!ToSet
<1>4. ASSUME Destroy
      PROVE  AnswerInv'
  <2>1. /\ futures' = [t \in Tickets |->
                         IF t \in Queue!ToSet(queue) THEN Broken ELSE futures[t]]
        /\ UNCHANGED <<received, current>>
    BY <1>4 DEF Destroy, queueVars
  <2>2. ASSUME NEW t \in Tickets
        PROVE  Answered(t)' <=> Answered(t)
    <3>1. CASE t \in Queue!ToSet(queue)
      <4>1. ~Answered(t)
        BY <3>1, QueuedNotReceived DEF AnswerInv
      <4> QED  BY <2>1, <3>1, <4>1 DEF Answered
    <3>2. CASE t \notin Queue!ToSet(queue)
      BY <2>1, <3>2 DEF Answered
    <3> QED  BY <3>1, <3>2
  <2> QED  BY <2>1, <2>2 DEF AnswerInv, Queue!ToSet
<1>5. ASSUME NEW c \in Clients, ClientStep(c) \/ \E r \in Requests : Call(c, r)
      PROVE  AnswerInv'
  BY <1>1, <1>5 DEF ClientStep, Push, PushReturns, ReadReturns, Call, queueVars,
     Queue!EnterPush, Queue!Enqueue, Queue!NotifyOne, Queue!history
<1>6. ASSUME Start \/ Stop \/ Join \/ Shutdown
      PROVE  AnswerInv'
  BY <1>1, <1>6 DEF Start, Stop, Join, Shutdown, queueVars, Queue!EnterShutdown,
     Queue!SetShutdown, Queue!NotifyAll, Queue!history
<1>7. ASSUME Pop \/ WakeSpuriously, ~Queue!PopItem(Matcher)
      PROVE  AnswerInv'
  BY <1>1, <1>7 DEF Pop, WakeSpuriously, Queue!EnterPop, Queue!Block, Queue!Reacquire,
     Queue!PopNothing, Queue!WakeSpuriously, Queue!history
<1>8. ASSUME Process \/ Match \/ UNCHANGED vars
      PROVE  AnswerInv'
  BY <1>1, <1>8 DEF Process, Match, queueVars, vars
<1>9. WakeSpuriously => ~Queue!PopItem(Matcher)
  BY DEF WakeSpuriously, Queue!WakeSpuriously, Queue!PopItem
<1> QED
  BY <1>2, <1>3, <1>4, <1>5, <1>6, <1>7, <1>8, <1>9 DEF Next, StopStep, MatcherStep

LEMMA EngineInvStep == EngineInv /\ [Next]_vars => EngineInv'
<1> SUFFICES ASSUME EngineInv, [Next]_vars
             PROVE  EngineInv'
  OBVIOUS
<1> QED
  BY QueueInvStep, TypeOKStep, ClientInvStep, SentInOrderStep, OwnerInvStep,
     MatcherInvStep, AnswerInvStep DEF EngineInv

-----------------------------------------------------------------------------
(* What follows.                                                           *)

\* The variables of the engine keep their types, and so do those of its queue,
\* for any number of clients.
THEOREM EngineTypeCorrect == Spec => []TypeOK
<1>1. EngineInv => TypeOK
  BY DEF EngineInv
<1> QED  BY <1>1, InitEngineInv, EngineInvStep, PTL DEF Spec

\* stop() drains, however the pushes of the clients interleave with it: when it
\* has returned, each request that was pushed before the shutdown flag was set
\* has its answer, and it keeps it when the engine is destroyed.
THEOREM StopAnswersEarlyRequests == Spec => []EarlyRequestsAnswered
<1>1. EngineInv => EarlyRequestsAnswered
  <2> SUFFICES ASSUME EngineInv, owner \in {"stopped", "destroyed"}, NEW t \in early
               PROVE  Answered(t)
    BY DEF EarlyRequestsAnswered
  <2>1. t \in Queue!ToSet(received) /\ current = Nothing
    BY DEF EngineInv, MatcherInv
  <2>2. t \in Tickets
    BY DEF EngineInv, TypeOK
  <2> QED  BY <2>1, <2>2, NothingAssumption DEF EngineInv, AnswerInv
<1> QED  BY <1>1, InitEngineInv, EngineInvStep, PTL DEF Spec

\* No request is answered before an earlier one of the same client, whatever
\* the other clients push in between.
THEOREM RequestsAnsweredInProgramOrder == Spec => []ProgramOrder
<1>1. EngineInv => ProgramOrder
  <2> SUFFICES ASSUME EngineInv, NEW c \in Clients, NEW n \in DOMAIN calls[c],
                      NEW m \in 1 .. n-1, Answered(<<c, n>>)
               PROVE  Answered(<<c, m>>)
    BY DEF ProgramOrder
  <2> USE DEF EngineInv
  <2>1. n \in 1 .. MaxCalls /\ m \in 1 .. MaxCalls /\ m < n
    <3>1. n \in 1 .. Len(calls[c]) /\ Len(calls[c]) \in Nat /\ Len(calls[c]) <= MaxCalls
      BY DEF TypeOK
    <3> QED  BY <3>1, EngineBoundsAssumption
  <2>2. <<c, n>> \in Tickets /\ <<c, m>> \in Tickets
    BY <2>1 DEF Tickets
  <2>3. /\ DOMAIN received = 1 .. Len(received) /\ Len(received) \in Nat
        /\ DOMAIN sent = 1 .. Len(sent) /\ Len(sent) \in Nat
    BY QueueTypes
  <2>4. PICK i \in DOMAIN received : received[i] = <<c, n>>
    BY <2>2 DEF AnswerInv, Queue!ToSet
  <2>5. i \in DOMAIN sent /\ sent[i] = <<c, n>>
    BY <2>3, <2>4, SentIsReceivedThenQueue
  <2>6. Pushed(c) \in Int
    BY DEF Pushed, TypeOK
  <2>7. n <= Pushed(c)
    BY <2>1, <2>5 DEF ClientInv, Queue!ToSet
  <2>8. m <= Pushed(c)
    BY <2>1, <2>6, <2>7
  <2>9. PICK j \in DOMAIN sent : sent[j] = <<c, m>>
    BY <2>1, <2>8 DEF ClientInv, Queue!ToSet
  <2>10. j < i
    <3>1. ~(i < j)
      BY <2>1, <2>5, <2>9 DEF SentInOrder
    <3>2. i # j
      BY <2>1, <2>5, <2>9
    <3> QED  BY <2>3, <2>5, <3>1, <3>2
  <2>11. j \in DOMAIN received /\ received[j] = <<c, m>>
    BY <2>3, <2>4, <2>9, <2>10, SentIsReceivedThenQueue
  <2>12. <<c, m>> # current
    <3> SUFFICES ASSUME <<c, m>> = current
                 PROVE  FALSE
      OBVIOUS
    <3>1. <<c, m>> = received[Len(received)]
      BY <2>2, NothingAssumption DEF MatcherInv
    <3>2. Len(received) \in DOMAIN sent /\ sent[Len(received)] = sent[j]
      BY <2>3, <2>9, <2>11, <3>1, SentIsReceivedThenQueue
    <3>3. Len(received) = j
      BY <2>9, <3>2, SentOnce
    <3> QED  BY <2>3, <2>4, <2>10, <3>3
  <2> QED  BY <2>2, <2>11, <2>12 DEF AnswerInv, Queue!ToSet
<1> QED  BY <1>1, InitEngineInv, EngineInvStep, PTL DEF Spec

\* When stop() has returned, nothing touches the book or takes from the queue
\* any more: the destructor may run.
THEOREM EngineQuietAfterStop == Spec => QuietAfterStop
<1>1. ASSUME EngineInv, [Next]_vars
      PROVE  [(owner \in {"stopped", "destroyed"}) =>
                UNCHANGED <<bookVars, current, received>>]_vars
  <2> SUFFICES ASSUME owner \in {"stopped", "destroyed"}, Next
               PROVE  UNCHANGED <<bookVars, current, received>>
    BY <1>1
  <2> USE <1>1 DEF EngineInv
  <2>1. current = Nothing /\ pc = "idle" /\ stage[Matcher] \in {"out", "drained"}
    BY DEF MatcherInv
  <2>2. ~Process /\ ~Match /\ ~Fulfil /\ ~FulfilRead
    BY <2>1 DEF Process, Match, Fulfil, FulfilRead, Book!ConsumeMaker,
                Book!ReduceMaker, Book!RestRemainder, Book!DropRemainder, Book!Return
  <2>3. ~Pop /\ ~WakeSpuriously
    BY <2>1 DEF Pop, WakeSpuriously, MatcherInv, Queue!WakeSpuriously, Queue!EnterPop,
                Queue!Block, Queue!Reacquire, Queue!PopNothing, Queue!PopItem
  <2>4. ~Shutdown
    BY DEF Shutdown
  <2>5. ASSUME NEW c \in Clients, ClientStep(c) \/ \E r \in Requests : Call(c, r)
        PROVE  UNCHANGED <<bookVars, current, received>>
    BY <2>5 DEF ClientStep, Push, PushReturns, ReadReturns, Call, queueVars,
       Queue!EnterPush, Queue!Enqueue, Queue!NotifyOne, Queue!history
  <2>6. ASSUME Start \/ Stop \/ Join \/ Destroy
        PROVE  UNCHANGED <<bookVars, current, received>>
    BY <2>6 DEF Start, Stop, Join, Destroy, queueVars
  <2> QED  BY <2>2, <2>3, <2>4, <2>5, <2>6 DEF Next, StopStep, MatcherStep
<1> QED  BY <1>1, InitEngineInv, EngineInvStep, PTL DEF Spec, QuietAfterStop

\* The engine's threads use the queue by its protocol: hidden behind the engine,
\* the queue behaves as ThreadSafeQueue says, and whatever is proved there holds.
THEOREM EngineRunsQueue == Spec => Queue!Spec
<1>1. Init => Queue!Init
  BY DEF Init
<1> QED  BY <1>1, InitEngineInv, EngineInvStep, EngineStepsQueue, PTL DEF Spec, Queue!Spec

\* In particular, the matching thread is never left blocked beside a request
\* that waits, or beside a shutdown, with no notification on its way.
THEOREM MatcherMissesNoWakeup == Spec => []Queue!NoLostWakeup
<1>1. Queue!Init => QueueProofs!Init
  BY SameQueueInit
<1>2. [Queue!Next]_(Queue!vars) => [QueueProofs!Next]_(QueueProofs!vars)
  BY SameQueueNext
<1>3. QueueProofs!Spec => []QueueProofs!NoLostWakeup
  BY QueueAssumptions, QueueProofs!QueueLosesNoWakeup
<1>4. QueueProofs!NoLostWakeup => Queue!NoLostWakeup
  BY DEF QueueProofs!NoLostWakeup, Queue!NoLostWakeup, QueueProofs!In, Queue!In,
         QueueProofs!Threads, Queue!Threads, QueueProofs!Cardinality, Queue!Cardinality
<1> QED
  BY <1>1, <1>2, <1>3, <1>4, EngineRunsQueue, PTL DEF Queue!Spec, QueueProofs!Spec

-----------------------------------------------------------------------------
(* The book of the engine is the book of OrderBook.                        *)

\* The request in hand was made by its client.
LEMMA CurrentWasRequested ==
  ASSUME EngineInv, current # Nothing
  PROVE  RequestOf(current) \in Requests
<1>1. current \in Tickets /\ current \in Queue!ToSet(sent)
  <2>1. received \in Seq(Tickets) /\ received # <<>> /\ current = received[Len(received)]
    BY QueueTypes DEF EngineInv, MatcherInv
  <2>2. Len(received) \in DOMAIN received
    BY <2>1
  <2>3. current \in Queue!ToSet(received)
    BY <2>1, <2>2 DEF Queue!ToSet
  <2> QED  BY <2>1, <2>2, <2>3, ReceivedWereSent DEF EngineInv
<1> DEFINE c == current[1]
           n == current[2]
<1>2. c \in Clients /\ n \in 1 .. MaxCalls /\ current = <<c, n>>
  BY <1>1 DEF Tickets
<1>3. calls[c] \in Seq(Requests)
  BY <1>2 DEF EngineInv, TypeOK
<1> HIDE DEF c, n
<1>4. n <= Pushed(c)
  BY <1>1, <1>2 DEF EngineInv, ClientInv
<1>5. n \in 1 .. Len(calls[c])
  BY <1>2, <1>3, <1>4, EngineBoundsAssumption DEF Pushed
<1>6. calls[c][n] \in Requests
  BY <1>3, <1>5
<1> QED  BY <1>6 DEF RequestOf, c, n

\* Whatever the threads of the engine do, the book is called with one request at
\* a time, and by nobody else.
LEMMA EngineStepsBook ==
  ASSUME EngineInv, [Next]_vars
  PROVE  [Book!Next]_(Book!vars)
<1>1. ASSUME UNCHANGED bookVars
      PROVE  UNCHANGED Book!vars
  BY <1>1 DEF bookVars, Book!vars
<1>2. ASSUME Process
      PROVE  Book!Next
  <2> DEFINE r == RequestOf(current)
  <2>1. r \in Requests
    BY <1>2, CurrentWasRequested DEF Process
  <2>2. /\ r.op \in {"add", "submit"} => r.order \in Book!NewOrders
        /\ r.op = "cancel" => r.id \in Ids
        /\ r.op = "modify" => r.id \in Ids /\ r.price \in Prices /\ r.quantity \in Quantities
    BY <2>1, RequestsAssumption
  <2>3. \/ r.op = "add"    /\ Book!AddOrder(r.order)
        \/ r.op = "cancel" /\ Book!CancelOrder(r.id)
        \/ r.op = "submit" /\ Book!SubmitOrder(r.order)
        \/ r.op = "modify" /\ Book!ModifyOrder(r.id, r.price, r.quantity)
    BY <1>2 DEF Process
  <2> HIDE DEF r
  <2> QED  BY <2>2, <2>3 DEF Book!Next, Book!Call
<1>3. ASSUME Match \/ Fulfil
      PROVE  Book!Next
  BY <1>3 DEF Match, Fulfil, Book!Next, Book!Run
<1>4. ASSUME Pop \/ WakeSpuriously \/ FulfilRead
      PROVE  UNCHANGED Book!vars
  BY <1>1, <1>4 DEF Pop, WakeSpuriously, FulfilRead
<1>5. ASSUME NEW c \in Clients, ClientStep(c) \/ \E r \in Requests : Call(c, r)
      PROVE  UNCHANGED Book!vars
  BY <1>1, <1>5 DEF ClientStep, Push, PushReturns, ReadReturns, Call
<1>6. ASSUME Start \/ Stop \/ Shutdown \/ Join \/ Destroy
      PROVE  UNCHANGED Book!vars
  BY <1>1, <1>6 DEF Start, Stop, Shutdown, Join, Destroy
<1>7. ASSUME UNCHANGED vars
      PROVE  UNCHANGED Book!vars
  BY <1>1, <1>7 DEF vars
<1> QED
  BY <1>2, <1>3, <1>4, <1>5, <1>6, <1>7 DEF Next, StopStep, MatcherStep

\* One request at a time reaches the book, however many clients there are: the
\* engine's book behaves as OrderBook says of a book with one caller that
\* follows no convention.
THEOREM EngineRunsBook == Spec => Book!Spec
<1>1. Init => Book!Init
  BY DEF Init
<1> QED  BY <1>1, InitEngineInv, EngineInvStep, EngineStepsBook, PTL DEF Spec, Book!Spec

-----------------------------------------------------------------------------
(* What is known of the book, from the theorems about OrderBook.           *)

LEMMA BookAssumptions ==
  /\ BookProofs!PricesAssumption /\ BookProofs!QuantitiesAssumption
  /\ BookProofs!NoOrderAssumption /\ BookProofs!DisciplineAssumption
BY BookAssumption
DEF Book!PricesAssumption, BookProofs!PricesAssumption, Book!QuantitiesAssumption,
    BookProofs!QuantitiesAssumption, Book!NoOrderAssumption, BookProofs!NoOrderAssumption,
    BookProofs!DisciplineAssumption, Book!Uint64, BookProofs!Uint64, Book!Order,
    BookProofs!Order, Book!Side, BookProofs!Side, Book!OrderType, BookProofs!OrderType

\* The two instances of the book say the same.
LEMMA SameBookContainers ==
  /\ \A s : Book!Best(s) = BookProofs!Best(s)
  /\ \A map, p : Book!Level(map, p) = BookProofs!Level(map, p)
  /\ \A map, p, q : Book!SetLevel(map, p, q) = BookProofs!SetLevel(map, p, q)
  /\ \A q, id : Book!HasId(q, id) = BookProofs!HasId(q, id)
  /\ \A q, id : Book!FindId(q, id) = BookProofs!FindId(q, id)
  /\ \A q, id : Book!EraseId(q, id) = BookProofs!EraseId(q, id)
  /\ \A id : Book!WithoutId(id) = BookProofs!WithoutId(id)
  /\ \A s : Book!Opposite(s) = BookProofs!Opposite(s)
  /\ \A s, p, q : Book!Crosses(s, p, q) <=> BookProofs!Crosses(s, p, q)
<1>1. \A s : Book!Best(s) = BookProofs!Best(s)
  BY DEF Book!Best, BookProofs!Best, Book!Better, BookProofs!Better
<1>2. \A q, id : Book!FindId(q, id) = BookProofs!FindId(q, id)
  BY DEF Book!FindId, BookProofs!FindId
<1>3. \A q, id : Book!EraseId(q, id) = BookProofs!EraseId(q, id)
  BY <1>2 DEF Book!EraseId, BookProofs!EraseId
<1>4. \A map, p, q : Book!SetLevel(map, p, q) = BookProofs!SetLevel(map, p, q)
  BY DEF Book!SetLevel, BookProofs!SetLevel
<1>5. \A id : Book!WithoutId(id) = BookProofs!WithoutId(id)
  BY DEF Book!WithoutId, BookProofs!WithoutId
<1> QED
  BY <1>1, <1>2, <1>3, <1>4, <1>5
  DEF Book!Level, BookProofs!Level, Book!HasId, BookProofs!HasId,
      Book!Crosses, BookProofs!Crosses, Book!Opposite, BookProofs!Opposite

\* The sums of the preview included.
LEMMA SameBookPreview ==
  /\ \A s, S : Book!Total(s, S) = BookProofs!Total(s, S)
  /\ \A s : Book!Slots(s) = BookProofs!Slots(s)
  /\ \A o : Book!Refused(o) <=> BookProofs!Refused(o)
<1>1. \A s, S : Book!Total(s, S) = BookProofs!Total(s, S)
  BY DEF Book!Total, BookProofs!Total, Book!At, BookProofs!At, Book!MapThenSumSet,
     BookProofs!MapThenSumSet, Book!MapThenFoldSet, BookProofs!MapThenFoldSet
<1>2. \A s : Book!Slots(s) = BookProofs!Slots(s)
  BY DEF Book!Slots, BookProofs!Slots
<1>3. \A s, x : Book!UpTo(s, x) = BookProofs!UpTo(s, x)
  BY <1>2 DEF Book!UpTo, BookProofs!UpTo, Book!Better, BookProofs!Better
<1>4. \A o : Book!CanFullyFill(o) <=> BookProofs!CanFullyFill(o)
  BY <1>1, <1>2, <1>3, SameBookContainers DEF Book!CanFullyFill, BookProofs!CanFullyFill
<1> QED  BY <1>1, <1>2, <1>4 DEF Book!Refused, BookProofs!Refused

LEMMA SameBookEffects ==
  /\ \A o : Book!PushBack(o) <=> BookProofs!PushBack(o)
  /\ \A id : Book!Erase(id) <=> BookProofs!Erase(id)
  /\ \A id : Book!Located(id) <=> BookProofs!Located(id)
  /\ \A id, q : Book!ModifyInPlace(id, q) <=> BookProofs!ModifyInPlace(id, q)
<1>1. \A o : Book!PushBack(o) <=> BookProofs!PushBack(o)
  BY SameBookContainers DEF Book!PushBack, BookProofs!PushBack
<1>2. \A id : Book!Erase(id) <=> BookProofs!Erase(id)
  BY SameBookContainers DEF Book!Erase, BookProofs!Erase
<1>3. \A id : Book!Located(id) <=> BookProofs!Located(id)
  BY SameBookContainers DEF Book!Located, BookProofs!Located
<1>4. \A id, q : Book!ModifyInPlace(id, q) <=> BookProofs!ModifyInPlace(id, q)
  BY SameBookContainers DEF Book!ModifyInPlace, BookProofs!ModifyInPlace
<1> QED  BY <1>1, <1>2, <1>3, <1>4

LEMMA SameBookCalls ==
  /\ \A o : Book!AddOrder(o) <=> BookProofs!AddOrder(o)
  /\ \A o : Book!SubmitOrder(o) <=> BookProofs!SubmitOrder(o)
  /\ \A id : Book!CancelOrder(id) <=> BookProofs!CancelOrder(id)
  /\ \A id, p, q : Book!ModifyOrder(id, p, q) <=> BookProofs!ModifyOrder(id, p, q)
<1>1. \A o : Book!AddOrder(o) <=> BookProofs!AddOrder(o)
  BY SameBookEffects
  DEF Book!AddOrder, BookProofs!AddOrder, Book!Addable, BookProofs!Addable, Book!Fresh,
      BookProofs!Fresh, Book!Answer, BookProofs!Answer, Book!NoMatching, BookProofs!NoMatching
<1>2. \A o : Book!SubmitOrder(o) <=> BookProofs!SubmitOrder(o)
  BY SameBookPreview
  DEF Book!SubmitOrder, BookProofs!SubmitOrder, Book!Fresh, BookProofs!Fresh,
      Book!Answer, BookProofs!Answer
<1>3. \A id : Book!CancelOrder(id) <=> BookProofs!CancelOrder(id)
  BY SameBookEffects
  DEF Book!CancelOrder, BookProofs!CancelOrder, Book!Answer, BookProofs!Answer,
      Book!NoMatching, BookProofs!NoMatching, Book!book, BookProofs!book
<1>4. ASSUME NEW id, NEW p, NEW q
      PROVE  Book!ModifyOrder(id, p, q) <=> BookProofs!ModifyOrder(id, p, q)
  <2> DEFINE deque == levels[orderIndex[id].side][orderIndex[id].price]
             keeps == Book!KeepsPlace(deque[Book!FindId(deque, id)], p, q)
  <2>1. keeps <=> BookProofs!KeepsPlace(deque[BookProofs!FindId(deque, id)], p, q)
    BY SameBookContainers DEF Book!KeepsPlace, BookProofs!KeepsPlace
  <2> HIDE DEF keeps
  <2>2. Book!ModifyOrder(id, p, q) <=>
          /\ pc = "idle"
          /\ \/ ~Book!Located(id)
                /\ UNCHANGED Book!book /\ Book!Answer("absent") /\ Book!NoMatching
             \/ /\ Book!Located(id) /\ q = 0
                /\ Book!Erase(id) /\ Book!Answer("ok") /\ Book!NoMatching
             \/ /\ Book!Located(id) /\ q > 0 /\ keeps
                /\ Book!ModifyInPlace(id, q)
                /\ Book!Answer("ok") /\ Book!NoMatching /\ UNCHANGED orderIndex
             \/ /\ Book!Located(id) /\ q > 0 /\ ~keeps
                /\ Book!Erase(id)
                /\ incoming' = [id |-> id, side |-> orderIndex[id].side, price |-> p,
                                quantity |-> q, type |-> "LIMIT"]
                /\ pc' = "match"
                /\ UNCHANGED <<trades, result>>
    BY DEF Book!ModifyOrder, keeps
  <2> QED
    BY <2>1, <2>2, SameBookEffects
    DEF BookProofs!ModifyOrder, Book!Answer, BookProofs!Answer,
        Book!NoMatching, BookProofs!NoMatching, Book!book, BookProofs!book
<1> QED  BY <1>1, <1>2, <1>3, <1>4

LEMMA SameBookRun == Book!Run <=> BookProofs!Run
<1>1. /\ Book!MakerSide = BookProofs!MakerSide /\ Book!Maker = BookProofs!Maker
      /\ Book!LoopCondition <=> BookProofs!LoopCondition
      /\ Book!MakerFilled <=> BookProofs!MakerFilled
  BY SameBookContainers
  DEF Book!MakerSide, BookProofs!MakerSide, Book!Maker, BookProofs!Maker,
      Book!LoopCondition, BookProofs!LoopCondition, Book!MakerFilled, BookProofs!MakerFilled,
      Book!SkipsPriceCheck, BookProofs!SkipsPriceCheck
<1>2. \A n : Book!Fill(n) <=> BookProofs!Fill(n)
  BY <1>1 DEF Book!Fill, BookProofs!Fill
<1>3. Book!ConsumeMaker <=> BookProofs!ConsumeMaker
  BY <1>1, <1>2, SameBookContainers DEF Book!ConsumeMaker, BookProofs!ConsumeMaker
<1>4. Book!ReduceMaker <=> BookProofs!ReduceMaker
  BY <1>1, <1>2, SameBookContainers DEF Book!ReduceMaker, BookProofs!ReduceMaker
<1>5. Book!RestRemainder <=> BookProofs!RestRemainder
  BY <1>1, SameBookEffects
  DEF Book!RestRemainder, BookProofs!RestRemainder, Book!NeverRests, BookProofs!NeverRests,
      Book!Answer, BookProofs!Answer, Book!NoMatching, BookProofs!NoMatching
<1>6. Book!DropRemainder <=> BookProofs!DropRemainder
  BY <1>1
  DEF Book!DropRemainder, BookProofs!DropRemainder, Book!NeverRests, BookProofs!NeverRests,
      Book!Answer, BookProofs!Answer, Book!NoMatching, BookProofs!NoMatching,
      Book!book, BookProofs!book
<1>7. Book!Return <=> BookProofs!Return
  BY DEF Book!Return, BookProofs!Return, Book!book, BookProofs!book
<1> QED  BY <1>3, <1>4, <1>5, <1>6, <1>7 DEF Book!Run, BookProofs!Run

LEMMA SameBookNext ==
  /\ Book!Init <=> BookProofs!Init
  /\ [Book!Next]_(Book!vars) <=> [BookProofs!Next]_(BookProofs!vars)
<1>1. Book!NewOrders = BookProofs!NewOrders
  BY DEF Book!NewOrders, BookProofs!NewOrders, Book!Side, BookProofs!Side,
     Book!OrderType, BookProofs!OrderType
<1>2. Book!Call <=> BookProofs!Call
  BY <1>1, SameBookCalls DEF Book!Call, BookProofs!Call
<1>3. UNCHANGED Book!vars <=> UNCHANGED BookProofs!vars
  BY DEF Book!vars, BookProofs!vars
<1>4. Book!Init <=> BookProofs!Init
  BY DEF Book!Init, BookProofs!Init, Book!Side, BookProofs!Side
<1> QED  BY <1>2, <1>3, <1>4, SameBookRun DEF Book!Next, BookProofs!Next

LEMMA SameBookPromises ==
  /\ BookProofs!NoTradeThrough => Book!NoTradeThrough
  /\ BookProofs!FokAllOrNothing => Book!FokAllOrNothing
<1>1. BookProofs!NoTradeThrough => Book!NoTradeThrough
  BY SameBookContainers
  DEF BookProofs!NoTradeThrough, Book!NoTradeThrough, BookProofs!MakerSide, Book!MakerSide,
      BookProofs!Better, Book!Better, BookProofs!SkipsPriceCheck, Book!SkipsPriceCheck
<1>2. Book!Liquidity(incoming) = BookProofs!Liquidity(incoming)
  BY SameBookContainers, SameBookPreview DEF Book!Liquidity, BookProofs!Liquidity
<1>3. BookProofs!FokAllOrNothing => Book!FokAllOrNothing
  BY <1>2 DEF BookProofs!FokAllOrNothing, Book!FokAllOrNothing
<1> QED  BY <1>1, <1>3

\* Under any interleaving of clients, owner and matching thread, and whatever the
\* clients send: the fills of a request go from the best price to worse ones,
\* inside its limit.
THEOREM EngineNeverTradesThrough == Spec => []Book!NoTradeThrough
<1>1. BookProofs!Spec => []BookProofs!NoTradeThrough
  BY BookAssumptions, BookProofs!NeverTradesThrough
<1> QED
  BY <1>1, SameBookNext, SameBookPromises, EngineRunsBook, PTL DEF Book!Spec, BookProofs!Spec

\* And a FOK request is filled completely or not at all: no client gets in between
\* its preview and its fills.
THEOREM EngineFillsOrKills == Spec => []Book!FokAllOrNothing
<1>1. BookProofs!Spec => []BookProofs!FokAllOrNothing
  BY BookAssumptions, BookProofs!FokFillsCompletelyOrNotAtAll
<1> QED
  BY <1>1, SameBookNext, SameBookPromises, EngineRunsBook, PTL DEF Book!Spec, BookProofs!Spec
=============================================================================
