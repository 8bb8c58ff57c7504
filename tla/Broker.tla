------------------------------- MODULE Broker -------------------------------
(***************************************************************************)
(* RabbitMQService and what stands on it: the connection that every server *)
(* process opens once, the consumers RabbitExplorer registers on it, and   *)
(* request/reply over a durable queue and one reply queue per call.        *)
(* The processes of the cluster share the broker; each has one connection  *)
(* with one channel, so its frames reach the broker in order.              *)
(***************************************************************************)
EXTENDS Integers, FiniteSets

CONSTANTS Processes,
          Requests,     \* calls of AbstractEvents.rabbitMQ.request
          Events,       \* messages another program publishes to an event queue
          Poison,       \* those of them that are no JSON
          Home,         \* the process that makes each call
          Prefetch,     \* unacknowledged deliveries a consumer may have
          MaxFaults     \* bound on lost connections and crashes

Messages == Requests \cup Events

ASSUME BrokerAssumption ==
    /\ IsFiniteSet(Processes)
    /\ Home \in [Requests -> Processes]
    /\ Poison \subseteq Events
    /\ Requests \cap Events = {}
    /\ Prefetch \in Nat \ {0}
    /\ MaxFaults \in Nat

VARIABLES
    conn,         \* each process's connection
    consumes,     \* the processes whose consumers the broker knows
    at,           \* how far each call is
    subscription, \* the consumer of its reply queue
    outcome,      \* what the caller was given ("refused" is a null too)
    replyQueues,  \* the calls whose exclusive reply queue exists
    queue,        \* messages ready in the durable queues
    unacked,      \* deliveries the broker holds until they are acknowledged
    running,      \* handlers that have not ended
    answers,      \* replies in the reply queues
    published,    \* history: calls whose message was published
    succeeded,    \* history: messages a handler has done its work for
    ended,        \* history: messages a handler has ended for, or that were rejected
    runs,         \* history: how often a message was handed to a handler
    requeued,     \* history: how often a connection was lost with it unacknowledged
    faults

callVars == <<at, subscription, outcome, replyQueues, answers, published>>
messageVars == <<queue, unacked, running, succeeded, ended, runs, requeued>>
vars == <<conn, consumes, faults, callVars, messageVars>>

-----------------------------------------------------------------------------

Open(p) == conn[p] = "open"

Of(p) == {r \in Requests : Home[r] = p}

DeliveredTo(p, D) == {m \in Messages : <<p, m>> \in D}

Init == /\ conn = [p \in Processes |-> "starting"]
        /\ consumes = {}
        /\ at = [r \in Requests |-> "idle"]
        /\ subscription = [r \in Requests |-> "none"]
        /\ outcome = [r \in Requests |-> "none"]
        /\ replyQueues = {} /\ queue = {} /\ unacked = {} /\ running = {} /\ answers = {}
        /\ published = {} /\ succeeded = {} /\ ended = {}
        /\ runs = [m \in Messages |-> 0]
        /\ requeued = [m \in Messages |-> 0]
        /\ faults = 0

-----------------------------------------------------------------------------
(* The connection.                                                         *)

\* The application listens only once the constructor's initialize() has connected.
Connect(p) == /\ conn[p] = "starting"
              /\ conn' = [conn EXCEPT ![p] = "open"]
              /\ UNCHANGED <<consumes, faults, callVars, messageVars>>

\* The explorer's consume and consumeRPC, once per process: nobody awaits them.
Register(p) == /\ Open(p)
               /\ p \notin consumes
               /\ consumes' = consumes \cup {p}
               /\ UNCHANGED <<conn, faults, callVars, messageVars>>

\* The broker takes back what is not acknowledged and deletes the exclusive queues.
Disconnected(p) ==
    LET back == DeliveredTo(p, unacked) IN
    /\ consumes' = consumes \ {p}
    /\ replyQueues' = replyQueues \ Of(p)
    /\ answers' = {a \in answers : a[1] \notin Of(p)}
    /\ queue' = queue \cup back
    /\ unacked' = {d \in unacked : d[1] # p}
    /\ requeued' = [m \in Messages |-> IF m \in back THEN requeued[m] + 1 ELSE requeued[m]]
    /\ faults < MaxFaults /\ faults' = faults + 1
    /\ UNCHANGED <<published, succeeded, ended, runs>>

\* The connection is lost, or onModuleDestroy closes it.  Handlers go on running.
Close(p) == /\ Open(p)
            /\ conn' = [conn EXCEPT ![p] = "lost"]
            /\ subscription' = [r \in Requests |-> IF r \in Of(p) /\ subscription[r] = "asked"
                                                   THEN "none" ELSE subscription[r]]
            /\ Disconnected(p)
            /\ UNCHANGED <<at, outcome, running>>

\* The 'close' handler: this.connection still holds the dead connection, so the function to retry
\* returns false, which is no error, and retry() is content with it.
Retry(p) == /\ conn[p] = "lost"
            /\ conn' = [conn EXCEPT ![p] = "abandoned"]
            /\ UNCHANGED <<consumes, faults, callVars, messageVars>>

\* The process dies with its calls and handlers ...
Crash(p) == /\ conn[p] # "down"
            /\ conn' = [conn EXCEPT ![p] = "down"]
            /\ at' = [r \in Requests |-> IF r \in Of(p) /\ at[r] # "idle" THEN "ended" ELSE at[r]]
            /\ subscription' = [r \in Requests |-> IF r \in Of(p) THEN "none" ELSE subscription[r]]
            /\ running' = {d \in running : d[1] # p}
            /\ Disconnected(p)
            /\ UNCHANGED outcome

\* ... and PM2 starts it again.
Restart(p) == /\ conn[p] = "down"
              /\ conn' = [conn EXCEPT ![p] = "starting"]
              /\ UNCHANGED <<consumes, faults, callVars, messageVars>>

-----------------------------------------------------------------------------
(* The caller: RabbitMQService.request.                                    *)

\* The exclusive reply queue comes first.
Call(r) == /\ at[r] = "idle" /\ Open(Home[r])
           /\ at' = [at EXCEPT ![r] = "declared"]
           /\ replyQueues' = replyQueues \cup {r}
           /\ UNCHANGED <<conn, consumes, faults, subscription, outcome, answers, published, messageVars>>

End(r, o) == /\ at' = [at EXCEPT ![r] = "ended"]
             /\ outcome' = [outcome EXCEPT ![r] = o]

\* The channel of a lost connection throws, and rejects the calls that wait for the broker.
CallFails(r) == /\ at[r] \in {"idle", "declared"}
                /\ conn[Home[r]] \in {"lost", "abandoned"}
                /\ End(r, "null")
                /\ UNCHANGED <<conn, consumes, faults, subscription, replyQueues, answers, published, messageVars>>

\* consumerCount is zero: the throw leaves the reply queue behind.
Refuse(r) == /\ at[r] = "declared" /\ Open(Home[r])
             /\ consumes = {}
             /\ End(r, "refused")
             /\ UNCHANGED <<conn, consumes, faults, subscription, replyQueues, answers, published, messageVars>>

\* The subscription to the Observable asks for a consumer and starts the timeout.
Subscribe(r) == /\ at[r] = "declared" /\ Open(Home[r])
                /\ consumes # {}
                /\ at' = [at EXCEPT ![r] = "waiting"]
                /\ subscription' = [subscription EXCEPT ![r] = "asked"]
                /\ UNCHANGED <<conn, consumes, faults, outcome, replyQueues, answers, published, messageVars>>

\* consume-ok publishes the message, and does so even if the caller has given up meanwhile.
Publish(r) == /\ subscription[r] = "asked" /\ Open(Home[r])
              /\ subscription' = [subscription EXCEPT ![r] = "active"]
              /\ queue' = queue \cup {r}
              /\ published' = published \cup {r}
              /\ UNCHANGED <<conn, consumes, faults, at, outcome, replyQueues, answers,
                             unacked, running, succeeded, ended, runs, requeued>>

Closing(r, o) == /\ at[r] = "waiting"
                 /\ at' = [at EXCEPT ![r] = "closing"]
                 /\ outcome' = [outcome EXCEPT ![r] = o]
                 /\ UNCHANGED <<conn, consumes, faults, subscription, replyQueues, published, messageVars>>

\* Mutant: an error reply is handed to the caller like any other.
AnswerUnchecked(r) == \E a \in answers : /\ a[1] = r
                                         /\ subscription[r] = "active"
                                         /\ answers' = answers \ {a}
                                         /\ Closing(r, "data")

\* The first reply; requestRabbitMQRPC turns one without success into null.
Answer(r) == \E a \in answers : /\ a[1] = r
                                /\ subscription[r] = "active"
                                /\ answers' = answers \ {a}
                                /\ Closing(r, IF a[2] THEN "data" ELSE "null")

\* Mutant: the timer does not survive the connection.
TimeoutWhileOpen(r) == /\ Open(Home[r])
                       /\ Closing(r, "null")
                       /\ UNCHANGED answers

\* rxTimeout: TimeoutError, which requestRabbitMQRPC turns into null.
Timeout(r) == /\ Closing(r, "null")
              /\ UNCHANGED answers

\* Mutant: only a subscription that has its consumer tag is torn down.
TeardownByTag(r) == /\ at[r] = "closing"
                    /\ at' = [at EXCEPT ![r] = "ended"]
                    /\ LET gone == {r} \cap {q \in Requests : subscription[q] = "active"} IN
                       /\ replyQueues' = replyQueues \ gone
                       /\ answers' = {a \in answers : a[1] \notin gone}
                    /\ UNCHANGED <<conn, consumes, faults, subscription, outcome, published, messageVars>>

\* cancel (if there is a tag) and deleteQueue; on a dead channel both throw, but the queue is gone.
Teardown(r) == /\ at[r] = "closing"
               /\ at' = [at EXCEPT ![r] = "ended"]
               /\ replyQueues' = replyQueues \ {r}
               /\ answers' = {a \in answers : a[1] # r}
               /\ UNCHANGED <<conn, consumes, faults, subscription, outcome, published, messageVars>>

-----------------------------------------------------------------------------
(* The consumers: RabbitMQService.consume and consumeRPC.                  *)

\* Another program publishes an event (the keys this one publishes are bound to no queue).
ForeignEvent(e) == /\ e \notin queue \cup ended /\ runs[e] = 0
                   /\ queue' = queue \cup {e}
                   /\ UNCHANGED <<conn, consumes, faults, callVars, unacked, running, succeeded, ended, runs, requeued>>

\* Events and requests have their own queues, and each consumer its own prefetch count.
Consumed(m) == IF m \in Events THEN Events ELSE Requests

CanTake(p, m) == /\ p \in consumes /\ Open(p)
                 /\ m \in queue
                 /\ Cardinality(DeliveredTo(p, unacked) \cap Consumed(m)) < Prefetch

\* Mutant: the consumer is registered with noAck.
DeliverNoAck(p, m) == /\ CanTake(p, m) /\ m \notin Poison
                      /\ queue' = queue \ {m}
                      /\ running' = running \cup {<<p, m>>}
                      /\ runs' = [runs EXCEPT ![m] = @ + 1]
                      /\ UNCHANGED <<conn, consumes, faults, callVars, unacked, succeeded, ended, requeued>>

\* A delivery: the handler starts.
Deliver(p, m) == /\ CanTake(p, m) /\ m \notin Poison
                 /\ queue' = queue \ {m}
                 /\ unacked' = unacked \cup {<<p, m>>}
                 /\ running' = running \cup {<<p, m>>}
                 /\ runs' = [runs EXCEPT ![m] = @ + 1]
                 /\ UNCHANGED <<conn, consumes, faults, callVars, succeeded, ended, requeued>>

\* Mutant: nack puts the message back.
RejectAndRequeue(p, m) == /\ CanTake(p, m) /\ m \in Poison
                          /\ UNCHANGED vars

\* JSON.parse throws: nack without requeue.
Reject(p, m) == /\ CanTake(p, m) /\ m \in Poison
                /\ queue' = queue \ {m}
                /\ unacked' = unacked \cup {<<p, m>>}
                /\ ended' = ended \cup {m}
                /\ UNCHANGED <<conn, consumes, faults, callVars, running, succeeded, runs, requeued>>

\* Mutant: consume() replies too, to the address of a call.
HandlerEndsReplyAlways(p, m, ok) ==
    /\ <<p, m>> \in running
    /\ running' = running \ {<<p, m>>}
    /\ ended' = ended \cup {m}
    /\ succeeded' = IF ok THEN succeeded \cup {m} ELSE succeeded
    /\ answers' = IF Open(p) THEN answers \cup {<<m, ok>>} ELSE answers

\* The reply goes to a queue that may be gone; on a lost connection it is not sent at all.
HandlerEnds(p, m, ok) ==
    /\ <<p, m>> \in running
    /\ running' = running \ {<<p, m>>}
    /\ ended' = ended \cup {m}
    /\ succeeded' = IF ok THEN succeeded \cup {m} ELSE succeeded
    /\ answers' = IF m \in replyQueues /\ Open(p) THEN answers \cup {<<m, ok>>} ELSE answers

\* Mutant: a handler that fails gives the message to the next consumer.
HandleAndRequeue(p, m, ok) ==
    /\ HandlerEnds(p, m, ok)
    /\ queue' = IF Open(p) /\ ~ok THEN queue \cup {m} ELSE queue
    /\ unacked' = IF ok THEN unacked ELSE unacked \ {<<p, m>>}
    /\ UNCHANGED <<conn, consumes, faults, at, subscription, outcome, replyQueues, published, runs, requeued>>

\* consumeRPC's callback, or the handler whose promise consume() dropped, comes to its end.
Handle(p, m, ok) ==
    /\ HandlerEnds(p, m, ok)
    /\ UNCHANGED <<conn, consumes, faults, at, subscription, outcome, replyQueues, published,
                   queue, unacked, runs, requeued>>

\* An event is acknowledged when its handler has started, a request when it has ended.
Acked(p, m) == m \in Events \/ <<p, m>> \notin running

\* The acknowledgement reaches the broker.
Ack(p, m) == /\ <<p, m>> \in unacked
             /\ Acked(p, m)
             /\ unacked' = unacked \ {<<p, m>>}
             /\ UNCHANGED <<conn, consumes, faults, callVars, queue, running, succeeded, ended, runs, requeued>>

-----------------------------------------------------------------------------

Caller(r) == \/ CallFails(r) \/ Refuse(r) \/ Subscribe(r) \/ Publish(r)
             \/ Answer(r) \/ Timeout(r) \/ Teardown(r)

Consumer(p, m) == \/ Deliver(p, m)
                  \/ Reject(p, m)
                  \/ \E ok \in BOOLEAN : Handle(p, m, ok)
                  \/ Ack(p, m)

Next == \/ \E p \in Processes : Connect(p) \/ Register(p) \/ Close(p) \/ Retry(p) \/ Crash(p) \/ Restart(p)
        \/ \E r \in Requests : Call(r) \/ Caller(r)
        \/ \E e \in Events : ForeignEvent(e)
        \/ \E p \in Processes, m \in Messages : Consumer(p, m)

\* Calls proceed or time out, the event loop runs what is ready, and the broker serves its consumers.
Fairness == /\ \A p \in Processes : WF_vars(Connect(p)) /\ WF_vars(Register(p)) /\ WF_vars(Retry(p))
            /\ \A r \in Requests : WF_vars(Caller(r))
            /\ \A p \in Processes, m \in Messages : WF_vars(Consumer(p, m))

Spec == Init /\ [][Next]_vars /\ Fairness

-----------------------------------------------------------------------------
(* Properties.                                                             *)

TypeOK ==
    /\ conn \in [Processes -> {"starting", "open", "lost", "abandoned", "down"}]
    /\ consumes \subseteq Processes
    /\ at \in [Requests -> {"idle", "declared", "waiting", "closing", "ended"}]
    /\ subscription \in [Requests -> {"none", "asked", "active"}]
    /\ outcome \in [Requests -> {"none", "data", "null", "refused"}]
    /\ replyQueues \subseteq Requests
    /\ queue \subseteq Messages
    /\ unacked \subseteq Processes \X Messages
    /\ running \subseteq Processes \X Messages
    /\ answers \subseteq Requests \X BOOLEAN
    /\ published \subseteq Requests
    /\ succeeded \subseteq Messages
    /\ ended \subseteq Messages
    /\ runs \in [Messages -> Nat]
    /\ requeued \in [Messages -> Nat]
    /\ faults \in 0..MaxFaults

\* A caller is given data only if a handler has done the work, however many replies there are.
DataWasComputed == \A r \in Requests : outcome[r] = "data" => r \in succeeded

\* A call that has ended leaves no reply queue on the broker, except one that found no consumer.
OnlyRefusedLeak == \A r \in replyQueues : at[r] = "ended" => outcome[r] = "refused"

\* What request() has published is never lost with a consumer: until a handler has come to its end
\* with it, the broker has it.
NothingLost == \A r \in published : r \notin ended => r \in queue \/ \E p \in Processes : <<p, r>> \in unacked

\* A message runs again only if a connection was lost before its acknowledgement arrived: a failed
\* handler, or a caller that gave up, does not repeat it.
RepeatedOnlyAfterLoss == \A m \in Messages : runs[m] <= 1 + requeued[m]

\* Whatever happens to the connection, the handlers and the answer, the caller is not kept waiting.
EveryRequestEnds == \A r \in Requests : at[r] # "idle" ~> at[r] = "ended"

\* While there is a consumer the queues drain: messages that cannot be read or handled do not block
\* those behind them.
MessagesAreServed == (\E p \in Processes : <>[](p \in consumes)) => \A m \in Messages : m \in queue ~> m \notin queue

\* What the log says when the connection is lost: "RabbitMQ connection closed! Reconnecting...".
Reconnects == \A p \in Processes : conn[p] = "lost" ~> conn[p] = "open"

=============================================================================
