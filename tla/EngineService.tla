----------------------------- MODULE EngineService -----------------------------
(***************************************************************************)
(* What the engine promises its clients: requests are accepted one after   *)
(* the other, each inside the call that makes it, and each has its whole   *)
(* effect and its answer at once, in the order of acceptance, by the rules *)
(* of price-time priority.  There is no thread, no queue and no loop.      *)
(***************************************************************************)
EXTENDS PriceTimeRules

CONSTANTS
  Clients, Requests, MaxCalls

VARIABLES
  lists,        \* the resting orders
  calls,        \* calls[c]: the requests client c made, in order
  doing,        \* doing[c]: "idle" or "called"
  accepted,     \* the tickets of the accepted requests, in order
  futures,      \* what the future of each ticket holds
  open          \* the service has not been taken down

vars == <<lists, calls, doing, accepted, futures, open>>

Tickets == Clients \X (1 .. MaxCalls)
Pending == [pending |-> TRUE]
Broken  == [broken |-> TRUE]
Done    == [done |-> TRUE]

IsRead(r) == r.op \in {"bestBid", "bestAsk", "totalOrderCount"}
RequestOf(t)   == calls[t[1]][t[2]]
LastTicket(c)  == <<c, Len(calls[c])>>
IsAccepted(t)  == \E i \in DOMAIN accepted : accepted[i] = t

-----------------------------------------------------------------------------
Call(c, r) ==
  /\ open /\ doing[c] = "idle" /\ Len(calls[c]) < MaxCalls
  /\ calls' = [calls EXCEPT ![c] = Append(@, r)]
  /\ doing' = [doing EXCEPT ![c] = "called"]
  /\ UNCHANGED <<lists, accepted, futures, open>>

Accept(c) ==
  /\ doing[c] = "called" /\ ~IsAccepted(LastTicket(c))
  /\ accepted' = Append(accepted, LastTicket(c))
  /\ UNCHANGED <<lists, calls, doing, futures, open>>

\* A mutation returns its future, a read what its future holds.
Return(c) ==
  /\ doing[c] = "called" /\ IsAccepted(LastTicket(c))
  /\ IsRead(RequestOf(LastTicket(c))) => futures[LastTicket(c)] # Pending
  /\ doing' = [doing EXCEPT ![c] = "idle"]
  /\ UNCHANGED <<lists, calls, accepted, futures, open>>

Effect(r) ==
  CASE r.op \in {"add", "submit"} -> Placed(lists, r.order)
    [] r.op = "cancel"            -> Cancelled(lists, r.id)
    [] r.op = "modify"            -> Modified(lists, r.id, r.price, r.quantity)
    [] IsRead(r)                  -> Outcome(lists, "ok", <<>>)

Reply(r) ==
  CASE r.op = "add"     -> Done
    [] r.op = "bestBid" -> [value |-> BestOf(lists, "BUY")]
    [] r.op = "bestAsk" -> [value |-> BestOf(lists, "SELL")]
    [] r.op = "totalOrderCount" -> [value |-> {Count(lists)}]
    [] OTHER -> [result |-> Effect(r).result, trades |-> Effect(r).trades]

\* The oldest request that has no answer.
Serve ==
  /\ open
  /\ \E i \in DOMAIN accepted :
       /\ futures[accepted[i]] = Pending
       /\ \A j \in 1 .. i-1 : futures[accepted[j]] # Pending
       /\ lists' = Effect(RequestOf(accepted[i])).lists
       /\ futures' = [futures EXCEPT ![accepted[i]] = Reply(RequestOf(accepted[i]))]
  /\ UNCHANGED <<calls, doing, accepted, open>>

TakeDown ==
  /\ open /\ \A c \in Clients : doing[c] = "idle"
  /\ open' = FALSE
  /\ futures' = [t \in Tickets |->
                   IF IsAccepted(t) /\ futures[t] = Pending THEN Broken ELSE futures[t]]
  /\ UNCHANGED <<lists, calls, doing, accepted>>

-----------------------------------------------------------------------------
Init ==
  /\ lists = [s \in Side |-> <<>>]
  /\ calls = [c \in Clients |-> <<>>] /\ doing = [c \in Clients |-> "idle"]
  /\ accepted = <<>> /\ futures = [t \in Tickets |-> Pending] /\ open = TRUE

Next ==
  \/ \E c \in Clients : Accept(c) \/ Return(c) \/ \E r \in Requests : Call(c, r)
  \/ Serve \/ TakeDown

Spec == Init /\ [][Next]_vars
=============================================================================
