--------------------------- MODULE MatchingEngine ---------------------------
(***************************************************************************)
(* The engine of src/src/matching_engine.cpp: client threads push requests *)
(* on a ThreadSafeQueue, one matching thread pops them and runs them on an *)
(* OrderBook, and an owner starts, stops and destroys the engine.          *)
(*                                                                         *)
(* The queue and the book are the modules of those names; here are the     *)
(* threads that run them.  A request is named by its ticket, the client    *)
(* and the number of the call; the promise that travels with the request   *)
(* and the future the client keeps are one entry of futures.               *)
(***************************************************************************)
EXTENDS Integers, Sequences, FiniteSets

CONSTANTS
  Clients, Matcher, Owner, NoThread,            \* the threads
  Requests,                                     \* what a client may ask for
  MaxCalls,                                     \* bound: calls of one client
  Ids, Prices, Quantities, MaxUint, NoOrder,    \* of OrderBook
  MaxSpurious,                                  \* of ThreadSafeQueue
  Nothing                                       \* no request is in hand

Tickets == Clients \X (1 .. MaxCalls)

ASSUME EngineThreadsAssumption ==
  /\ IsFiniteSet(Clients)
  /\ Matcher \notin Clients /\ Owner \notin Clients /\ Matcher # Owner
  /\ NoThread \notin Clients \cup {Matcher, Owner}
ASSUME EngineBoundsAssumption == MaxCalls \in Nat /\ MaxSpurious \in Nat
ASSUME NothingAssumption == Nothing \notin Tickets

VARIABLES
  queue, shutdown, mutex, stage, spurious, sent, received,   \* queue_
  levels, orderIndex, pc, incoming, trades, result,          \* book_
  owner,       \* started_, stopped_ and where the owner is
  calls,       \* calls[c]: the requests client c made, in order
  doing,       \* doing[c]: "idle", "called" (before or in push), "awaits"
  current,     \* req, the ticket popped and not yet finished, or Nothing
  futures,     \* what the future of each ticket holds
  early        \* history: the tickets pushed before the shutdown flag was set

Queue == INSTANCE ThreadSafeQueue WITH
  Producers <- Clients, Consumers <- {Matcher}, Closers <- {Owner}, Items <- Tickets
Book == INSTANCE OrderBook WITH Discipline <- {}

\* The requests carry what the book's parameters have.
ASSUME RequestsAssumption ==
  \A r \in Requests :
    /\ r.op \in {"add", "submit"} => r.order \in Book!NewOrders
    /\ r.op = "cancel" => r.id \in Ids
    /\ r.op = "modify" => r.id \in Ids /\ r.price \in Prices /\ r.quantity \in Quantities
ASSUME BookAssumption ==
  Book!PricesAssumption /\ Book!QuantitiesAssumption /\ Book!NoOrderAssumption

queueVars  == <<queue, shutdown, mutex, stage, spurious, sent, received>>
bookVars   == <<levels, orderIndex, pc, incoming, trades, result>>
clientVars == <<calls, doing>>
vars == <<queueVars, bookVars, clientVars, owner, current, futures, early>>

Pending == [pending |-> TRUE]   \* the promise is not fulfilled
Broken == [broken |-> TRUE]     \* the promise was destroyed unfulfilled
Done   == [done |-> TRUE]       \* addOrderAsync has no promise

IsRead(r) == r.op \in {"bestBid", "bestAsk", "totalOrderCount"}
RequestOf(t) == calls[t[1]][t[2]]
LastTicket(c) == <<c, Len(calls[c])>>

-----------------------------------------------------------------------------
(* The clients.                                                            *)

Call(c, r) ==
  /\ owner # "destroyed"
  /\ doing[c] = "idle" /\ Len(calls[c]) < MaxCalls
  /\ calls' = [calls EXCEPT ![c] = Append(@, r)]
  /\ doing' = [doing EXCEPT ![c] = "called"]
  /\ UNCHANGED <<queueVars, bookVars, owner, current, futures, early>>

Push(c) ==
  /\ doing[c] = "called"
  /\ Queue!EnterPush(c) \/ Queue!Enqueue(c, LastTicket(c))
  /\ UNCHANGED <<bookVars, clientVars, owner, current, futures, early>>

\* The last step of push.  The mutations return the future, the reads wait on it.
PushReturns(c) ==
  /\ Queue!NotifyOne(c)
  /\ doing' = [doing EXCEPT ![c] =
                 IF IsRead(RequestOf(LastTicket(c))) THEN "awaits" ELSE "idle"]
  /\ UNCHANGED <<bookVars, calls, owner, current, futures, early>>

\* future.get() of a read.
ReadReturns(c) ==
  /\ doing[c] = "awaits" /\ futures[LastTicket(c)] # Pending
  /\ doing' = [doing EXCEPT ![c] = "idle"]
  /\ UNCHANGED <<queueVars, bookVars, calls, owner, current, futures, early>>

-----------------------------------------------------------------------------
(* The owner.  start and stop are no-ops outside the states below.         *)

Start ==
  /\ owner = "new" /\ owner' = "started"
  /\ UNCHANGED <<queueVars, bookVars, clientVars, current, futures, early>>

Stop ==
  /\ owner = "started" /\ owner' = "stopping"
  /\ UNCHANGED <<queueVars, bookVars, clientVars, current, futures, early>>

Shutdown ==
  /\ owner = "stopping"
  /\ \/ Queue!EnterShutdown(Owner) /\ UNCHANGED <<early, owner>>
     \/ Queue!SetShutdown(Owner) /\ early' = Queue!ToSet(sent) /\ UNCHANGED owner
     \/ Queue!NotifyAll(Owner) /\ owner' = "joining" /\ UNCHANGED early
  /\ UNCHANGED <<bookVars, clientVars, current, futures>>

\* Mutant: the thread is detached, not joined.
Join_Detached ==
  /\ owner = "joining"
  /\ owner' = "stopped"
  /\ UNCHANGED <<queueVars, bookVars, clientVars, current, futures, early>>

Join ==
  /\ owner = "joining" /\ stage[Matcher] = "drained"
  /\ owner' = "stopped"
  /\ UNCHANGED <<queueVars, bookVars, clientVars, current, futures, early>>

\* After stop() the members go; the promises left in the queue are broken.  No
\* client may be inside a call.
Destroy ==
  /\ owner \in {"new", "stopped"} /\ \A c \in Clients : doing[c] = "idle"
  /\ owner' = "destroyed"
  /\ futures' = [t \in Tickets |->
                   IF t \in Queue!ToSet(queue) THEN Broken ELSE futures[t]]
  /\ UNCHANGED <<queueVars, bookVars, clientVars, current, early>>

-----------------------------------------------------------------------------
(* The matching thread.                                                    *)

Settle(t, value) == futures' = [futures EXCEPT ![t] = value] /\ current' = Nothing

\* while (auto req = queue_.pop())
Pop ==
  /\ owner \notin {"new", "destroyed"} /\ current = Nothing
  /\ \/ /\ \/ Queue!EnterPop(Matcher) \/ Queue!Block(Matcher)
           \/ Queue!Reacquire(Matcher) \/ Queue!PopNothing(Matcher)
        /\ UNCHANGED current
     \/ Queue!PopItem(Matcher) /\ current' = Head(queue)
  /\ UNCHANGED <<bookVars, clientVars, owner, futures, early>>

WakeSpuriously ==
  /\ Queue!WakeSpuriously(Matcher)
  /\ UNCHANGED <<bookVars, clientVars, owner, current, futures, early>>

\* processRequest_ calls the book.
Process ==
  /\ current # Nothing
  /\ LET r == RequestOf(current)
     IN  \/ r.op = "add"    /\ Book!AddOrder(r.order)
         \/ r.op = "cancel" /\ Book!CancelOrder(r.id)
         \/ r.op = "submit" /\ Book!SubmitOrder(r.order)
         \/ r.op = "modify" /\ Book!ModifyOrder(r.id, r.price, r.quantity)
  /\ UNCHANGED <<queueVars, clientVars, owner, current, futures, early>>

Match ==
  /\ \/ Book!ConsumeMaker \/ Book!ReduceMaker
     \/ Book!RestRemainder \/ Book!DropRemainder
  /\ UNCHANGED <<queueVars, clientVars, owner, current, futures, early>>

\* Mutant: the answer does not say that the order was not found.
Fulfil_AlwaysOk ==
  /\ Book!Return
  /\ Settle(current, IF RequestOf(current).op = "add" THEN Done
                     ELSE [result |-> "ok", trades |-> trades])
  /\ UNCHANGED <<queueVars, clientVars, owner, early>>

\* The book has returned: promise.set_value.
Fulfil ==
  /\ Book!Return
  /\ Settle(current, IF RequestOf(current).op = "add" THEN Done
                     ELSE [result |-> result, trades |-> trades])
  /\ UNCHANGED <<queueVars, clientVars, owner, early>>

FulfilRead ==
  /\ current # Nothing /\ pc = "idle" /\ IsRead(RequestOf(current))
  /\ LET op == RequestOf(current).op
     IN  Settle(current,
           [value |-> IF op = "bestBid" THEN Book!BestBid
                      ELSE IF op = "bestAsk" THEN Book!BestAsk
                      ELSE {Book!TotalOrderCount}])
  /\ UNCHANGED <<queueVars, bookVars, clientVars, owner, early>>

-----------------------------------------------------------------------------
Init ==
  /\ Queue!Init /\ Book!Init
  /\ owner = "new" /\ current = Nothing /\ early = {}
  /\ calls = [c \in Clients |-> <<>>] /\ doing = [c \in Clients |-> "idle"]
  /\ futures = [t \in Tickets |-> Pending]

ClientStep(c) == Push(c) \/ PushReturns(c) \/ ReadReturns(c)
StopStep      == Shutdown \/ Join
MatcherStep   == Pop \/ Process \/ Match \/ Fulfil \/ FulfilRead

Next ==
  \/ \E c \in Clients : ClientStep(c) \/ \E r \in Requests : Call(c, r)
  \/ Start \/ Stop \/ StopStep \/ Destroy
  \/ MatcherStep \/ WakeSpuriously

Spec == Init /\ [][Next]_vars

\* The scheduler runs every thread that can take a step.  Nobody has to call
\* the engine, to start it, to stop it or to destroy it.
FairSpec ==
  /\ Spec
  /\ \A c \in Clients : WF_vars(ClientStep(c))
  /\ WF_vars(StopStep) /\ WF_vars(MatcherStep)

-----------------------------------------------------------------------------
(* Properties.                                                             *)

\* The types of what is the engine's own.
TypeOK ==
  /\ owner \in {"new", "started", "stopping", "joining", "stopped", "destroyed"}
  /\ calls \in [Clients -> Seq(Requests)]
  /\ \A c \in Clients : Len(calls[c]) <= MaxCalls
  /\ doing \in [Clients -> {"idle", "called", "awaits"}]
  /\ current \in Tickets \cup {Nothing}
  /\ DOMAIN futures = Tickets
  /\ early \subseteq Tickets
  /\ Queue!TypeOK

Answered(t) == futures[t] \notin {Pending, Broken}

\* stop() drains: when it returns, every request pushed before the shutdown
\* flag was set has been run and its future holds the answer, whatever the
\* other clients were doing meanwhile.
EarlyRequestsAnswered ==
  owner \in {"stopped", "destroyed"} => \A t \in early : Answered(t)

\* When stop() has returned the matching thread is gone: the owner may destroy
\* the book and the queue.
QuietAfterStop ==
  [][(owner \in {"stopped", "destroyed"}) =>
       UNCHANGED <<bookVars, current, received>>]_vars

\* Requests of one client take effect in the order it made them: none is
\* answered while an earlier one is still waiting, read or mutation.
ProgramOrder ==
  \A c \in Clients : \A n \in DOMAIN calls[c] : \A m \in 1 .. n-1 :
    Answered(<<c, n>>) => Answered(<<c, m>>)

\* Every request that reaches a running engine is answered, if the clients make
\* finitely many calls.
RunningEngineAnswers ==
  \A t \in Tickets :
    (t \in Queue!ToSet(sent) /\ owner \in {"started", "stopping"} /\ ~shutdown)
      ~> Answered(t)

\* stop() returns: the shutdown reaches the matching thread wherever it is.  The
\* clients make finitely many calls: it drains what they push meanwhile.
StopReturns == owner = "stopping" ~> owner = "stopped"

\* What the comment on stop() says: no future is left forever pending.  A read
\* on an engine that was started returns.
ReadersReturn ==
  \A c \in Clients : (owner # "new" /\ doing[c] = "awaits") ~> doing[c] = "idle"
=============================================================================
