----------------------------- MODULE BrokerProofs -----------------------------
(***************************************************************************)
(* The safety properties of Broker for any processes, calls, events, homes *)
(* of calls, prefetch and number of faults.                                *)
(***************************************************************************)
EXTENDS Broker, TLAPS

\* What a call's place says: its reply queue is on an open connection, it subscribes once and
\* publishes once, and a good reply comes from a handler that has done its work.
CallInv ==
    \A r \in Requests :
        /\ r \in replyQueues => Open(Home[r])
        /\ at[r] \in {"idle", "declared"} => subscription[r] = "none"
        /\ (at[r] \in {"idle", "declared"} \/ subscription[r] = "asked") => r \notin published
        /\ <<r, TRUE>> \in answers => r \in succeeded

\* A message is in one place at a time.
OnePlace ==
    \A m \in Messages, p \in Processes : <<p, m>> \in unacked =>
        /\ m \notin queue
        /\ \A q \in Processes : <<q, m>> \in unacked => p = q

\* What the broker holds was published, and a consumer that holds it is at work on it or through.
Held ==
    \A m \in Messages, p \in Processes : <<p, m>> \in unacked =>
        /\ m \in Requests => m \in published
        /\ m \in ended \/ <<p, m>> \in running
        /\ m \in ended \/ runs[m] >= 1

\* A message that is ready has not run since the connection it was delivered on was lost.
Counted ==
    \A m \in Messages :
        /\ m \in queue => runs[m] <= requeued[m]
        /\ m \in queue /\ m \in Requests => m \in published
        /\ m \in Requests /\ m \notin published => runs[m] = 0

IInv == /\ TypeOK
        /\ CallInv
        /\ OnlyRefusedLeak
        /\ DataWasComputed
        /\ OnePlace
        /\ Held
        /\ Counted
        /\ NothingLost
        /\ RepeatedOnlyAfterLoss

LEMMA InitInv == Init => IInv
BY BrokerAssumption DEF Init, IInv, TypeOK, CallInv, OnlyRefusedLeak, DataWasComputed, OnePlace, Held,
   Counted, NothingLost, RepeatedOnlyAfterLoss, Messages

-----------------------------------------------------------------------------
(* What a step leaves alone.                                               *)

\* A step that moves no message keeps all that is said of messages.
LEMMA MessagesOn ==
    ASSUME IInv, UNCHANGED <<messageVars, published>>
    PROVE  OnePlace' /\ Held' /\ Counted' /\ NothingLost' /\ RepeatedOnlyAfterLoss'
BY DEF IInv, messageVars, OnePlace, Held, Counted, NothingLost, RepeatedOnlyAfterLoss

\* A step that moves no call keeps all that is said of calls.
LEMMA CallsOn ==
    ASSUME IInv, UNCHANGED <<conn, callVars>>, succeeded \subseteq succeeded'
    PROVE  CallInv' /\ OnlyRefusedLeak' /\ DataWasComputed'
BY DEF IInv, callVars, CallInv, Open, OnlyRefusedLeak, DataWasComputed

-----------------------------------------------------------------------------
(* The connection.                                                         *)

LEMMA ConnectionStep ==
    ASSUME IInv, NEW p \in Processes,
           Connect(p) \/ Register(p) \/ Retry(p) \/ Restart(p)
    PROVE  IInv'
<1>1. UNCHANGED <<faults, callVars, messageVars>>
  BY DEF Connect, Register, Retry, Restart
<1>2. TypeOK'
  BY <1>1 DEF Connect, Register, Retry, Restart, IInv, TypeOK, callVars, messageVars
<1>3. \A q \in Processes : Open(q) => Open(q)'
  BY DEF Connect, Register, Retry, Restart, Open, IInv, TypeOK
<1>4. CallInv' /\ OnlyRefusedLeak' /\ DataWasComputed'
  BY <1>1, <1>3, BrokerAssumption DEF IInv, callVars, messageVars, CallInv, OnlyRefusedLeak, DataWasComputed
<1>5. OnePlace' /\ Held' /\ Counted' /\ NothingLost' /\ RepeatedOnlyAfterLoss'
  BY <1>1, MessagesOn DEF callVars
<1> QED BY <1>2, <1>4, <1>5 DEF IInv

\* What the broker does when it loses a connection, whatever becomes of its handlers.
LEMMA DisconnectedStep ==
    ASSUME IInv, NEW p \in Processes, Disconnected(p),
           running' = running \/ running' = {d \in running : d[1] # p}
    PROVE  /\ OnePlace' /\ Held' /\ Counted' /\ NothingLost' /\ RepeatedOnlyAfterLoss'
           /\ consumes' \subseteq Processes
           /\ replyQueues' \subseteq Requests
           /\ queue' \subseteq Messages
           /\ unacked' \subseteq Processes \X Messages
           /\ answers' \subseteq Requests \X BOOLEAN
           /\ requeued' \in [Messages -> Nat]
           /\ faults' \in 0..MaxFaults
<1> DEFINE back == DeliveredTo(p, unacked)
<1>1. /\ queue' = queue \cup back
      /\ unacked' = {d \in unacked : d[1] # p}
      /\ requeued' = [m \in Messages |-> IF m \in back THEN requeued[m] + 1 ELSE requeued[m]]
      /\ UNCHANGED <<published, succeeded, ended, runs>>
  BY DEF Disconnected
<1>2. \A m \in Messages : m \in back <=> <<p, m>> \in unacked
  BY DEF DeliveredTo
<1>3. \A q \in Processes, m \in Messages : <<q, m>> \in unacked' <=> <<q, m>> \in unacked /\ q # p
  BY <1>1
<1>4. \A m \in Messages : m \in queue' <=> m \in queue \/ <<p, m>> \in unacked
  BY <1>1, <1>2
<1>5. requeued' \in [Messages -> Nat]
  BY <1>1 DEF IInv, TypeOK
<1>6. \A m \in Messages : requeued'[m] = IF <<p, m>> \in unacked THEN requeued[m] + 1 ELSE requeued[m]
  BY <1>1, <1>2
<1>7. /\ requeued \in [Messages -> Nat] /\ runs \in [Messages -> Nat]
      /\ OnePlace /\ Held /\ Counted /\ NothingLost /\ RepeatedOnlyAfterLoss
  BY DEF IInv, TypeOK
<1>8. OnePlace'
  BY <1>3, <1>4, <1>7 DEF OnePlace
<1>9. Held'
  BY <1>1, <1>3, <1>7 DEF Held
<1>10. Counted'
  <2> SUFFICES ASSUME NEW m \in Messages
               PROVE  /\ m \in queue' => runs[m] <= requeued'[m]
                      /\ m \in queue' /\ m \in Requests => m \in published
                      /\ m \in Requests /\ m \notin published => runs[m] = 0
    BY <1>1 DEF Counted
  <2>1. runs[m] \in Nat /\ requeued[m] \in Nat
    BY <1>7
  <2>2. CASE <<p, m>> \in unacked
    BY <1>6, <1>7, <2>1, <2>2 DEF Counted, Held, RepeatedOnlyAfterLoss
  <2>3. CASE <<p, m>> \notin unacked
    BY <1>4, <1>6, <1>7, <2>1, <2>3 DEF Counted
  <2> QED BY <2>2, <2>3
<1>11. NothingLost'
  <2> SUFFICES ASSUME NEW r \in published, r \notin ended
               PROVE  r \in queue' \/ \E q \in Processes : <<q, r>> \in unacked'
    BY <1>1 DEF NothingLost
  <2>1. r \in Messages
    BY DEF IInv, TypeOK, Messages
  <2>2. CASE r \in queue \/ <<p, r>> \in unacked
    BY <1>4, <2>1, <2>2
  <2>3. CASE r \notin queue /\ <<p, r>> \notin unacked
    <3>1. PICK q \in Processes : <<q, r>> \in unacked
      BY <1>7, <2>3 DEF NothingLost
    <3> QED BY <1>3, <2>1, <2>3, <3>1
  <2> QED BY <2>2, <2>3
<1>12. RepeatedOnlyAfterLoss'
  BY <1>1, <1>6, <1>7 DEF RepeatedOnlyAfterLoss
<1>13. /\ consumes' \subseteq Processes
       /\ replyQueues' \subseteq Requests
       /\ answers' \subseteq Requests \X BOOLEAN
       /\ faults' \in 0..MaxFaults
  BY BrokerAssumption DEF Disconnected, IInv, TypeOK
<1>14. queue' \subseteq Messages /\ unacked' \subseteq Processes \X Messages
  BY <1>1 DEF DeliveredTo, IInv, TypeOK
<1> QED BY <1>5, <1>8, <1>9, <1>10, <1>11, <1>12, <1>13, <1>14

\* The calls of a process whose connection is gone.
LEMMA CallsOfLost ==
    ASSUME IInv, NEW p \in Processes, Disconnected(p),
           \A q \in Processes \ {p} : conn'[q] = conn[q],
           outcome' = outcome,
           \A r \in Requests : at'[r] = at[r] \/ (r \in Of(p) /\ at[r] # "idle" /\ at'[r] = "ended"),
           \A r \in Requests : subscription'[r] = subscription[r] \/ subscription'[r] = "none"
    PROVE  CallInv' /\ OnlyRefusedLeak' /\ DataWasComputed'
<1>1. /\ replyQueues' = replyQueues \ Of(p)
      /\ answers' = {a \in answers : a[1] \notin Of(p)}
      /\ UNCHANGED <<published, succeeded>>
  BY DEF Disconnected
<1>2. \A r \in Requests : r \in Of(p) <=> Home[r] = p
  BY DEF Of
<1>3. \A r \in Requests : r \in replyQueues' => Open(Home[r])'
  BY <1>1, <1>2, BrokerAssumption DEF IInv, CallInv, Open
<1>4. CallInv'
  BY <1>1, <1>3 DEF IInv, CallInv
<1>5. OnlyRefusedLeak'
  BY <1>1, <1>2 DEF IInv, OnlyRefusedLeak, TypeOK
<1>6. DataWasComputed'
  BY <1>1 DEF IInv, DataWasComputed
<1> QED BY <1>4, <1>5, <1>6

LEMMA CloseStep ==
    ASSUME IInv, NEW p \in Processes, Close(p)
    PROVE  IInv'
<1>1. Disconnected(p) /\ UNCHANGED <<at, outcome, running, published, succeeded, ended, runs>>
  BY DEF Close, Disconnected
<1>2. conn' = [conn EXCEPT ![p] = "lost"]
      /\ subscription' = [r \in Requests |-> IF r \in Of(p) /\ subscription[r] = "asked"
                                             THEN "none" ELSE subscription[r]]
  BY DEF Close
<1>3. CallInv' /\ OnlyRefusedLeak' /\ DataWasComputed'
  BY <1>1, <1>2, CallsOfLost DEF IInv, TypeOK
<1>4. conn' \in [Processes -> {"starting", "open", "lost", "abandoned", "down"}]
      /\ subscription' \in [Requests -> {"none", "asked", "active"}]
  BY <1>2 DEF IInv, TypeOK
<1>5. TypeOK'
  BY <1>1, <1>4, DisconnectedStep DEF IInv, TypeOK
<1> QED BY <1>1, <1>3, <1>5, DisconnectedStep DEF IInv

LEMMA CrashStep ==
    ASSUME IInv, NEW p \in Processes, Crash(p)
    PROVE  IInv'
<1>1. /\ Disconnected(p) /\ UNCHANGED <<outcome, published, succeeded, ended, runs>>
      /\ running' = {d \in running : d[1] # p}
  BY DEF Crash, Disconnected
<1>2. /\ conn' = [conn EXCEPT ![p] = "down"]
      /\ at' = [r \in Requests |-> IF r \in Of(p) /\ at[r] # "idle" THEN "ended" ELSE at[r]]
      /\ subscription' = [r \in Requests |-> IF r \in Of(p) THEN "none" ELSE subscription[r]]
  BY DEF Crash
<1>3. CallInv' /\ OnlyRefusedLeak' /\ DataWasComputed'
  BY <1>1, <1>2, CallsOfLost DEF IInv, TypeOK
<1>4. /\ conn' \in [Processes -> {"starting", "open", "lost", "abandoned", "down"}]
      /\ at' \in [Requests -> {"idle", "declared", "waiting", "closing", "ended"}]
      /\ subscription' \in [Requests -> {"none", "asked", "active"}]
  BY <1>2 DEF IInv, TypeOK
<1>5. running' \subseteq Processes \X Messages
  BY <1>1 DEF IInv, TypeOK
<1>6. TypeOK'
  BY <1>1, <1>4, <1>5, DisconnectedStep DEF IInv, TypeOK
<1> QED BY <1>1, <1>3, <1>6, DisconnectedStep DEF IInv

-----------------------------------------------------------------------------
(* The caller.                                                             *)

LEMMA CallStep ==
    ASSUME IInv, NEW r \in Requests, Call(r) \/ CallFails(r) \/ Refuse(r) \/ Subscribe(r)
    PROVE  IInv'
<1>1. UNCHANGED <<conn, consumes, faults, answers, published, messageVars>>
  BY DEF Call, CallFails, Refuse, Subscribe
<1>2. OnePlace' /\ Held' /\ Counted' /\ NothingLost' /\ RepeatedOnlyAfterLoss'
  BY <1>1, MessagesOn
<1>3. TypeOK'
  BY <1>1 DEF Call, CallFails, Refuse, Subscribe, End, IInv, TypeOK, messageVars
<1>4. CallInv'
  <2> USE DEF IInv, TypeOK, CallInv, Open, messageVars
  <2>1. CASE Call(r)
    BY <1>1, <2>1 DEF Call
  <2>2. CASE CallFails(r)
    BY <1>1, <2>2 DEF CallFails, End
  <2>3. CASE Refuse(r)
    BY <1>1, <2>3 DEF Refuse, End
  <2>4. CASE Subscribe(r)
    BY <1>1, <2>4 DEF Subscribe
  <2> QED BY <2>1, <2>2, <2>3, <2>4
<1>5. OnlyRefusedLeak'
  <2> USE DEF IInv, TypeOK, OnlyRefusedLeak
  <2>1. CASE Call(r)
    BY <2>1 DEF Call
  <2>2. CASE CallFails(r)
    <3>1. r \notin replyQueues
      BY <2>2 DEF CallFails, CallInv, Open
    <3> QED BY <2>2, <3>1 DEF CallFails, End
  <2>3. CASE Refuse(r)
    BY <2>3 DEF Refuse, End
  <2>4. CASE Subscribe(r)
    BY <2>4 DEF Subscribe
  <2> QED BY <2>1, <2>2, <2>3, <2>4
<1>6. DataWasComputed'
  BY <1>1 DEF Call, CallFails, Refuse, Subscribe, End, IInv, TypeOK, DataWasComputed, messageVars
<1> QED BY <1>2, <1>3, <1>4, <1>5, <1>6 DEF IInv

LEMMA PublishStep ==
    ASSUME IInv, NEW r \in Requests, Publish(r)
    PROVE  IInv'
<1>1. /\ subscription[r] = "asked" /\ subscription' = [subscription EXCEPT ![r] = "active"]
      /\ queue' = queue \cup {r} /\ published' = published \cup {r}
      /\ UNCHANGED <<conn, consumes, faults, at, outcome, replyQueues, answers,
                     unacked, running, succeeded, ended, runs, requeued>>
  BY DEF Publish
<1>2. r \notin published /\ at[r] \notin {"idle", "declared"}
  BY <1>1 DEF IInv, CallInv
<1>3. r \in Messages /\ runs[r] = 0 /\ requeued[r] \in Nat /\ \A p \in Processes : <<p, r>> \notin unacked
  BY <1>2 DEF IInv, Counted, Held, Messages, TypeOK
<1>4. TypeOK'
  BY <1>1, <1>3 DEF IInv, TypeOK
<1>5. CallInv'
  BY <1>1, <1>2 DEF IInv, CallInv, Open, TypeOK
<1>6. OnlyRefusedLeak' /\ DataWasComputed'
  BY <1>1 DEF IInv, OnlyRefusedLeak, DataWasComputed
<1>7. OnePlace'
  BY <1>1, <1>3 DEF IInv, OnePlace
<1>8. Held' /\ NothingLost' /\ RepeatedOnlyAfterLoss'
  BY <1>1 DEF IInv, Held, NothingLost, RepeatedOnlyAfterLoss
<1>9. Counted'
  BY <1>1, <1>3 DEF IInv, Counted
<1> QED BY <1>4, <1>5, <1>6, <1>7, <1>8, <1>9 DEF IInv

LEMMA ClosingStep ==
    ASSUME IInv, NEW r \in Requests, Answer(r) \/ Timeout(r) \/ Teardown(r)
    PROVE  IInv'
<1>1. UNCHANGED <<conn, consumes, faults, subscription, published, messageVars>>
      /\ answers' \subseteq answers /\ replyQueues' \subseteq replyQueues
  BY DEF Answer, Timeout, Teardown, Closing
<1>2. OnePlace' /\ Held' /\ Counted' /\ NothingLost' /\ RepeatedOnlyAfterLoss'
  BY <1>1, MessagesOn
<1>3. TypeOK'
  BY <1>1 DEF Answer, Timeout, Teardown, Closing, IInv, TypeOK, messageVars
<1>4. CallInv'
  <2>1. \A q \in Requests : at'[q] = at[q] \/ at'[q] \notin {"idle", "declared"}
    BY DEF Answer, Timeout, Teardown, Closing, IInv, TypeOK
  <2> QED BY <1>1, <2>1 DEF IInv, CallInv, Open, messageVars
<1>5. OnlyRefusedLeak'
  BY DEF Answer, Timeout, Teardown, Closing, IInv, TypeOK, OnlyRefusedLeak
<1>6. DataWasComputed'
  <2>1. CASE Timeout(r) \/ Teardown(r)
    BY <1>1, <2>1 DEF Timeout, Teardown, Closing, IInv, TypeOK, DataWasComputed, messageVars
  <2>2. CASE Answer(r)
    <3>1. PICK a \in answers : a[1] = r /\ outcome' = [outcome EXCEPT ![r] = IF a[2] THEN "data" ELSE "null"]
      BY <2>2 DEF Answer, Closing
    <3>2. a = <<r, a[2]>> /\ a[2] \in BOOLEAN
      BY <3>1 DEF IInv, TypeOK
    <3>3. a[2] => r \in succeeded
      BY <3>1, <3>2 DEF IInv, CallInv
    <3> QED BY <1>1, <3>1, <3>3 DEF IInv, TypeOK, DataWasComputed, messageVars
  <2> QED BY <2>1, <2>2
<1> QED BY <1>2, <1>3, <1>4, <1>5, <1>6 DEF IInv

-----------------------------------------------------------------------------
(* The consumers.                                                          *)

LEMMA ForeignEventStep ==
    ASSUME IInv, NEW e \in Events, ForeignEvent(e)
    PROVE  IInv'
<1>1. /\ e \notin queue \cup ended /\ runs[e] = 0 /\ queue' = queue \cup {e}
      /\ UNCHANGED <<conn, consumes, faults, callVars, unacked, running, succeeded, ended, runs, requeued>>
  BY DEF ForeignEvent
<1>2. e \in Messages /\ e \notin Requests /\ requeued[e] \in Nat /\ \A p \in Processes : <<p, e>> \notin unacked
  BY <1>1, BrokerAssumption DEF IInv, Held, Messages, TypeOK
<1>3. TypeOK'
  BY <1>1, <1>2 DEF IInv, TypeOK, callVars
<1>4. CallInv' /\ OnlyRefusedLeak' /\ DataWasComputed'
  BY <1>1, CallsOn
<1>5. OnePlace'
  BY <1>1, <1>2 DEF IInv, OnePlace
<1>6. Held' /\ NothingLost' /\ RepeatedOnlyAfterLoss'
  BY <1>1 DEF IInv, callVars, Held, NothingLost, RepeatedOnlyAfterLoss
<1>7. Counted'
  BY <1>1, <1>2 DEF IInv, callVars, Counted
<1> QED BY <1>3, <1>4, <1>5, <1>6, <1>7 DEF IInv

LEMMA DeliverStep ==
    ASSUME IInv, NEW p \in Processes, NEW m \in Messages, Deliver(p, m)
    PROVE  IInv'
<1>1. /\ m \in queue /\ queue' = queue \ {m}
      /\ unacked' = unacked \cup {<<p, m>>} /\ running' = running \cup {<<p, m>>}
      /\ runs' = [runs EXCEPT ![m] = @ + 1]
      /\ UNCHANGED <<conn, consumes, faults, callVars, succeeded, ended, requeued>>
  BY DEF Deliver, CanTake
<1>2. runs \in [Messages -> Nat] /\ requeued \in [Messages -> Nat]
  BY DEF IInv, TypeOK
<1>3. \A n \in Messages : runs'[n] = IF n = m THEN runs[n] + 1 ELSE runs[n]
  BY <1>1, <1>2
<1>4. \A q \in Processes : <<q, m>> \notin unacked
  BY <1>1 DEF IInv, OnePlace
<1>5. TypeOK'
  BY <1>1, <1>2 DEF IInv, TypeOK, callVars
<1>6. CallInv' /\ OnlyRefusedLeak' /\ DataWasComputed'
  BY <1>1, CallsOn
<1>7. OnePlace'
  BY <1>1, <1>4 DEF IInv, OnePlace
<1>8. Held'
  BY <1>1, <1>2, <1>3 DEF IInv, callVars, Held, Counted
<1>9. Counted'
  BY <1>1, <1>2, <1>3 DEF IInv, callVars, Counted
<1>10. NothingLost'
  BY <1>1 DEF IInv, callVars, NothingLost, Messages
<1>11. RepeatedOnlyAfterLoss'
  BY <1>1, <1>2, <1>3 DEF IInv, Counted, RepeatedOnlyAfterLoss
<1> QED BY <1>5, <1>6, <1>7, <1>8, <1>9, <1>10, <1>11 DEF IInv

LEMMA RejectStep ==
    ASSUME IInv, NEW p \in Processes, NEW m \in Messages, Reject(p, m)
    PROVE  IInv'
<1>1. /\ m \in queue /\ queue' = queue \ {m} /\ m \in Poison
      /\ unacked' = unacked \cup {<<p, m>>} /\ ended' = ended \cup {m}
      /\ UNCHANGED <<conn, consumes, faults, callVars, running, succeeded, runs, requeued>>
  BY DEF Reject, CanTake
<1>2. m \notin Requests
  BY <1>1, BrokerAssumption
<1>3. TypeOK'
  BY <1>1 DEF IInv, TypeOK, callVars
<1>4. CallInv' /\ OnlyRefusedLeak' /\ DataWasComputed'
  BY <1>1, CallsOn
<1>5. OnePlace'
  BY <1>1 DEF IInv, OnePlace
<1>6. Held'
  BY <1>1, <1>2 DEF IInv, callVars, Held
<1>7. Counted' /\ RepeatedOnlyAfterLoss'
  BY <1>1 DEF IInv, callVars, Counted, RepeatedOnlyAfterLoss
<1>8. NothingLost'
  BY <1>1, <1>2 DEF IInv, callVars, NothingLost
<1> QED BY <1>3, <1>4, <1>5, <1>6, <1>7, <1>8 DEF IInv

LEMMA HandleStep ==
    ASSUME IInv, NEW p \in Processes, NEW m \in Messages, NEW ok \in BOOLEAN, Handle(p, m, ok)
    PROVE  IInv'
<1>1. /\ running' = running \ {<<p, m>>} /\ ended' = ended \cup {m}
      /\ succeeded' = IF ok THEN succeeded \cup {m} ELSE succeeded
      /\ answers' = IF m \in replyQueues /\ Open(p) THEN answers \cup {<<m, ok>>} ELSE answers
      /\ UNCHANGED <<conn, consumes, faults, at, subscription, outcome, replyQueues, published,
                     queue, unacked, runs, requeued>>
  BY DEF Handle, HandlerEnds
<1>2. TypeOK'
  BY <1>1 DEF IInv, TypeOK
<1>3. \A r \in Requests : <<r, TRUE>> \in answers' => <<r, TRUE>> \in answers \/ (r = m /\ ok)
  BY <1>1
<1>4. CallInv'
  BY <1>1, <1>3 DEF IInv, CallInv, Open
<1>5. OnlyRefusedLeak' /\ DataWasComputed'
  BY <1>1 DEF IInv, OnlyRefusedLeak, DataWasComputed
<1>6. OnePlace' /\ Held' /\ Counted' /\ NothingLost' /\ RepeatedOnlyAfterLoss'
  BY <1>1 DEF IInv, OnePlace, Held, Counted, NothingLost, RepeatedOnlyAfterLoss
<1> QED BY <1>2, <1>4, <1>5, <1>6 DEF IInv

LEMMA AckStep ==
    ASSUME IInv, NEW p \in Processes, NEW m \in Messages, Ack(p, m)
    PROVE  IInv'
<1>1. /\ <<p, m>> \in unacked /\ unacked' = unacked \ {<<p, m>>}
      /\ m \in Events \/ <<p, m>> \notin running
      /\ UNCHANGED <<conn, consumes, faults, callVars, queue, running, succeeded, ended, runs, requeued>>
  BY DEF Ack, Acked
<1>2. m \in Requests => m \in ended
  BY <1>1, BrokerAssumption DEF IInv, Held
<1>3. TypeOK'
  BY <1>1 DEF IInv, TypeOK, callVars
<1>4. CallInv' /\ OnlyRefusedLeak' /\ DataWasComputed'
  BY <1>1, CallsOn
<1>5. OnePlace' /\ Held' /\ Counted' /\ RepeatedOnlyAfterLoss'
  BY <1>1 DEF IInv, callVars, OnePlace, Held, Counted, RepeatedOnlyAfterLoss
<1>6. NothingLost'
  BY <1>1, <1>2 DEF IInv, callVars, NothingLost, TypeOK
<1> QED BY <1>3, <1>4, <1>5, <1>6 DEF IInv

-----------------------------------------------------------------------------
(* The theorems.                                                           *)

LEMMA StepInv == IInv /\ [Next]_vars => IInv'
<1> SUFFICES ASSUME IInv, [Next]_vars PROVE IInv'
  OBVIOUS
<1>1. ASSUME NEW p \in Processes,
             Connect(p) \/ Register(p) \/ Close(p) \/ Retry(p) \/ Crash(p) \/ Restart(p)
      PROVE  IInv'
  BY <1>1, ConnectionStep, CloseStep, CrashStep
<1>2. ASSUME NEW r \in Requests, Call(r) \/ Caller(r)
      PROVE  IInv'
  BY <1>2, CallStep, PublishStep, ClosingStep DEF Caller
<1>3. ASSUME NEW e \in Events, ForeignEvent(e)
      PROVE  IInv'
  BY <1>3, ForeignEventStep
<1>4. ASSUME NEW p \in Processes, NEW m \in Messages, Consumer(p, m)
      PROVE  IInv'
  BY <1>4, DeliverStep, RejectStep, HandleStep, AckStep DEF Consumer
<1>5. CASE UNCHANGED vars
  <2>1. UNCHANGED <<conn, consumes, faults, callVars, messageVars, published, succeeded>>
    BY <1>5 DEF vars, callVars, messageVars
  <2>2. TypeOK'
    BY <2>1 DEF IInv, TypeOK, callVars, messageVars
  <2> QED BY <2>1, <2>2, MessagesOn, CallsOn DEF IInv
<1> QED BY <1>1, <1>2, <1>3, <1>4, <1>5 DEF Next

LEMMA IInvAlways == Spec => []IInv
BY InitInv, StepInv, PTL DEF Spec

\* Connections, calls, queues and messages always have their types: every reply is to a call.
THEOREM TypeCorrect == Spec => []TypeOK
<1>1. IInv => TypeOK
  BY DEF IInv
<1> QED BY <1>1, IInvAlways, PTL

\* A caller is given data only if a handler has done the work, however late the reply, whoever else
\* handled the same message and whichever connections were lost.
THEOREM NoDataWithoutWork == Spec => []DataWasComputed
<1>1. IInv => DataWasComputed
  BY DEF IInv
<1> QED BY <1>1, IInvAlways, PTL

\* Timeouts, failed calls and lost connections leave no reply queue on the broker; only a call
\* that found no consumer does.
THEOREM ReplyQueuesGo == Spec => []OnlyRefusedLeak
<1>1. IInv => OnlyRefusedLeak
  BY DEF IInv
<1> QED BY <1>1, IInvAlways, PTL

\* A request that was published stays on the broker until a handler has come to its end with it,
\* however often its consumers crash.
THEOREM RequestsSurvive == Spec => []NothingLost
<1>1. IInv => NothingLost
  BY DEF IInv
<1> QED BY <1>1, IInvAlways, PTL

\* Every run of a message but the first was paid for by a lost connection.
THEOREM NoNeedlessRuns == Spec => []RepeatedOnlyAfterLoss
<1>1. IInv => RepeatedOnlyAfterLoss
  BY DEF IInv
<1> QED BY <1>1, IInvAlways, PTL

-----------------------------------------------------------------------------
(* Why a caller is not kept waiting.  What is left of a call counts its    *)
(* places twice, so that a subscription in between has room.               *)

Places == [idle |-> 4, declared |-> 3, waiting |-> 2, closing |-> 1, ended |-> 0]

Left(r) == 2 * Places[at[r]] + (IF subscription[r] = "asked" THEN 1 ELSE 0)

\* Nothing sets a call back, neither its own steps nor lost connections, crashes and replies, and
\* its own steps bring it nearer to its end.
CallsAdvance == \A r \in Requests : /\ Left(r) \in Nat
                                    /\ Left(r)' <= Left(r)
                                    /\ Caller(r) => Left(r)' < Left(r)

\* A call is under way only in a process that is up, so that its next step is possible whatever
\* has become of the connection.
CallsAreInLiveProcesses ==
    \A r \in Requests : at[r] \notin {"idle", "ended"} => conn[Home[r]] \in {"open", "lost", "abandoned"}

LEMMA LeftIsLess ==
    ASSUME TypeOK, TypeOK', NEW r \in Requests
    PROVE  /\ Left(r) \in Nat /\ Left(r)' \in Nat
           /\ at'[r] = at[r] /\ (subscription'[r] = "asked" => subscription[r] = "asked") => Left(r)' <= Left(r)
           /\ at'[r] = at[r] /\ subscription[r] = "asked" /\ subscription'[r] # "asked" => Left(r)' < Left(r)
           /\ Places[at'[r]] < Places[at[r]] => Left(r)' < Left(r)
<1>1. /\ at[r] \in {"idle", "declared", "waiting", "closing", "ended"}
      /\ at'[r] \in {"idle", "declared", "waiting", "closing", "ended"}
  BY DEF TypeOK
<1>2. \A a \in {"idle", "declared", "waiting", "closing", "ended"} : Places[a] \in Nat
  BY DEF Places
<1>3. PICK a \in Nat, b \in Nat : a = Places[at[r]] /\ b = Places[at'[r]]
  BY <1>1, <1>2
<1>4. PICK s, t : s = subscription[r] /\ t = subscription'[r]
  OBVIOUS
<1>5. /\ Left(r) = 2 * a + (IF s = "asked" THEN 1 ELSE 0)
      /\ Left(r)' = 2 * b + (IF t = "asked" THEN 1 ELSE 0)
  BY <1>3, <1>4 DEF Left, Places
<1>6. PICK x, y : x = Left(r) /\ y = Left(r)'
  OBVIOUS
<1>7. /\ x \in Nat /\ y \in Nat
      /\ a = b /\ (t = "asked" => s = "asked") => y <= x
      /\ a = b /\ s = "asked" /\ t # "asked" => y < x
      /\ b < a => y < x
  BY <1>5, <1>6
<1> QED BY <1>3, <1>4, <1>6, <1>7

LEMMA CallsAdvanceStep ==
    ASSUME TypeOK, TypeOK', [Next]_vars
    PROVE  CallsAdvance
<1> SUFFICES ASSUME NEW r \in Requests
             PROVE  /\ Left(r) \in Nat
                    /\ Left(r)' <= Left(r)
                    /\ Caller(r) => Left(r)' < Left(r)
  BY DEF CallsAdvance
<1>0. /\ at \in [Requests -> {"idle", "declared", "waiting", "closing", "ended"}]
      /\ subscription \in [Requests -> {"none", "asked", "active"}]
      /\ Left(r) \in Nat /\ Left(r)' \in Nat
  BY LeftIsLess DEF TypeOK
<1>1. ASSUME Caller(r) PROVE Left(r)' < Left(r)
  <2>1. CASE Publish(r)
    BY <1>0, <2>1, LeftIsLess DEF Publish
  <2>2. CASE ~Publish(r)
    <3>1. Places[at'[r]] < Places[at[r]]
      BY <1>0, <1>1, <2>2 DEF Caller, CallFails, Refuse, Subscribe, Answer, Timeout, Teardown, Closing, End, Places
    <3> QED BY <3>1, LeftIsLess
  <2> QED BY <2>1, <2>2
<1>2. Left(r)' <= Left(r)
  <2>1. CASE Call(r)
    <3>1. Places[at'[r]] < Places[at[r]]
      BY <1>0, <2>1 DEF Call, Places
    <3> QED BY <1>0, <3>1, LeftIsLess
  <2>2. ASSUME NEW p \in Processes, Close(p) PROVE Left(r)' <= Left(r)
    <3>1. at'[r] = at[r] /\ (subscription'[r] = "asked" => subscription[r] = "asked")
      BY <1>0, <2>2 DEF Close
    <3> QED BY <1>0, <3>1, LeftIsLess
  <2>3. ASSUME NEW p \in Processes, Crash(p) PROVE Left(r)' <= Left(r)
    <3>1. CASE r \in Of(p)
      <4>1. subscription'[r] = "none" /\ (at'[r] = at[r] \/ at'[r] = "ended")
        BY <1>0, <2>3, <3>1 DEF Crash
      <4>2. at'[r] = at[r] \/ Places[at'[r]] < Places[at[r]]
        BY <1>0, <4>1, SMT DEF Places
      <4> QED BY <1>0, <4>1, <4>2, LeftIsLess
    <3>2. CASE r \notin Of(p)
      <4>1. at'[r] = at[r] /\ subscription'[r] = subscription[r]
        BY <1>0, <2>3, <3>2 DEF Crash
      <4> QED BY <1>0, <4>1, LeftIsLess
    <3> QED BY <3>1, <3>2
  <2>4. ASSUME NEW q \in Requests, q # r, Call(q) \/ Caller(q) PROVE Left(r)' <= Left(r)
    <3>1. at'[r] = at[r] /\ subscription'[r] = subscription[r]
      BY <1>0, <2>4 DEF Call, Caller, CallFails, Refuse, Subscribe, Publish, Answer, Timeout, Teardown, Closing, End
    <3> QED BY <1>0, <3>1, LeftIsLess
  <2>5. ASSUME UNCHANGED <<at, subscription>> PROVE Left(r)' <= Left(r)
    BY <1>0, <2>5, LeftIsLess
  <2>6. ASSUME NEW p \in Processes, Connect(p) \/ Register(p) \/ Retry(p) \/ Restart(p)
        PROVE  UNCHANGED <<at, subscription>>
    BY <2>6 DEF Connect, Register, Retry, Restart, callVars
  <2>7. ASSUME NEW p \in Processes, NEW m \in Messages, Consumer(p, m)
        PROVE  UNCHANGED <<at, subscription>>
    BY <2>7 DEF Consumer, Deliver, Reject, Handle, Ack, callVars
  <2>8. ASSUME NEW e \in Events, ForeignEvent(e) PROVE UNCHANGED <<at, subscription>>
    BY <2>8 DEF ForeignEvent, callVars
  <2>9. CASE UNCHANGED vars
    BY <2>5, <2>9 DEF vars, callVars
  <2> QED BY <1>0, <1>1, <2>1, <2>2, <2>3, <2>4, <2>5, <2>6, <2>7, <2>8, <2>9 DEF Next
<1> QED BY <1>0, <1>1, <1>2

LEMMA LiveProcessesStep ==
    ASSUME TypeOK, CallsAreInLiveProcesses, [Next]_vars
    PROVE  CallsAreInLiveProcesses'
<1> SUFFICES ASSUME NEW r \in Requests, at'[r] \notin {"idle", "ended"}
             PROVE  conn'[Home[r]] \in {"open", "lost", "abandoned"}
  BY DEF CallsAreInLiveProcesses
<1>0. /\ at \in [Requests -> {"idle", "declared", "waiting", "closing", "ended"}]
      /\ conn \in [Processes -> {"starting", "open", "lost", "abandoned", "down"}]
      /\ Home[r] \in Processes
      /\ at[r] \notin {"idle", "ended"} => conn[Home[r]] \in {"open", "lost", "abandoned"}
  BY BrokerAssumption DEF TypeOK, CallsAreInLiveProcesses
<1>1. ASSUME NEW p \in Processes, Connect(p) \/ Register(p) \/ Close(p) \/ Retry(p) \/ Restart(p)
      PROVE  conn'[Home[r]] \in {"open", "lost", "abandoned"}
  BY <1>0, <1>1 DEF Connect, Register, Close, Retry, Restart, Open, callVars
<1>2. ASSUME NEW p \in Processes, Crash(p) PROVE conn'[Home[r]] \in {"open", "lost", "abandoned"}
  <2>1. Home[r] # p
    BY <1>0, <1>2 DEF Crash, Of
  <2>2. at'[r] = at[r] /\ conn'[Home[r]] = conn[Home[r]]
    BY <1>0, <1>2, <2>1 DEF Crash, Of
  <2> QED BY <1>0, <2>2
<1>3. ASSUME NEW q \in Requests, Call(q) \/ Caller(q)
      PROVE  conn'[Home[r]] \in {"open", "lost", "abandoned"}
  BY <1>0, <1>3 DEF Call, Caller, CallFails, Refuse, Subscribe, Publish, Answer, Timeout, Teardown, Closing, End, Open
<1>4. ASSUME UNCHANGED <<at, conn>> PROVE conn'[Home[r]] \in {"open", "lost", "abandoned"}
  BY <1>0, <1>4
<1>5. ASSUME NEW p \in Processes, NEW m \in Messages, Consumer(p, m) PROVE UNCHANGED <<at, conn>>
  BY <1>5 DEF Consumer, Deliver, Reject, Handle, Ack, callVars
<1>6. ASSUME NEW e \in Events, ForeignEvent(e) PROVE UNCHANGED <<at, conn>>
  BY <1>6 DEF ForeignEvent, callVars
<1>7. CASE UNCHANGED vars
  BY <1>4, <1>7 DEF vars, callVars
<1> QED BY <1>1, <1>2, <1>3, <1>4, <1>5, <1>6, <1>7 DEF Next

\* Whatever happens to connections, replies and processes, no step sets a call back, and a call has
\* at most eight steps of its own.
THEOREM NoCallIsSetBack == Spec => [][CallsAdvance]_vars
<1>1. TypeOK /\ TypeOK' /\ [Next]_vars => CallsAdvance
  BY CallsAdvanceStep
<1> QED BY <1>1, TypeCorrect, PTL DEF Spec

\* A crash takes its calls along, and a lost connection or a retry that gives up does not: what is
\* under way has a process that can end it.
THEOREM CallsHaveAProcess == Spec => []CallsAreInLiveProcesses
<1>1. Init => CallsAreInLiveProcesses
  BY DEF Init, CallsAreInLiveProcesses
<1>2. TypeOK /\ CallsAreInLiveProcesses /\ [Next]_vars => CallsAreInLiveProcesses'
  BY LiveProcessesStep
<1> QED BY <1>1, <1>2, TypeCorrect, PTL DEF Spec

=============================================================================
