---------------------------- MODULE ConnectionPool ----------------------------
(***************************************************************************)
(* The database connections behind AbstractRepository.executeInTransaction.*)
(* dataSource.transaction takes a connection from the pool and keeps it    *)
(* until the callback ends; the callback ignores the EntityManager, so     *)
(* every query in it, and every nested executeInTransaction, takes one     *)
(* connection more.  OrderService.createOrder and CartService.checkoutCart *)
(* handle the lines of a form in parallel (Promise.all), each with its own *)
(* queries and transactions: a request is a main strand and a strand for   *)
(* each line.  The pool hands connections out first come, first served,    *)
(* and a caller waits for one without a timeout.                           *)
(***************************************************************************)
EXTENDS Integers, Sequences, FiniteSets

CONSTANTS Requests,
          Lines,        \* the lines that the form of each request may have, at most
          Main,         \* the handler itself, beside its lines
          Connections,  \* connections a pool may have
          Pools,        \* the pools (sets of connections) a deployment may configure
          Programs,     \* what handlers do, step by step
          LinePrograms, \* what the lines do that a handler launches
          MaxDepth,     \* how deep handlers nest executeInTransaction,
          LineDepth     \* and their lines

Handlers == Requests \X {Main}

LineStrands == UNION {{r} \X Lines[r] : r \in Requests}

Strands == Handlers \cup LineStrands

\* The lines of the form that strand s handles.
LinesOf(s) == {s[1]} \X Lines[s[1]]

LineSteps == {"begin", "query", "commit"}

\* Promise.all starts the lines, and is awaited.
Steps == LineSteps \cup {"launch", "join"}

Positions(p, i, what) == {j \in 1..i : p[j] = what}

\* Transactions open after the first i steps of program p.
Depth(p, i) == Cardinality(Positions(p, i, "begin")) - Cardinality(Positions(p, i, "commit"))

Nests(p, depth) == /\ \A i \in 0..Len(p) : Depth(p, i) \in 0..depth
                   /\ Depth(p, Len(p)) = 0

ASSUME PoolAssumption ==
    /\ IsFiniteSet(Requests)
    /\ IsFiniteSet(LineStrands)
    /\ \A r \in Requests : Main \notin Lines[r]
    /\ MaxDepth \in Nat
    /\ LineDepth \in Nat
    /\ Pools \subseteq SUBSET Connections
    /\ \A P \in Pools : IsFiniteSet(P)
    /\ Programs \subseteq Seq(Steps)
    /\ \A p \in Programs : /\ Nests(p, MaxDepth)
                           /\ \A i, j \in 1..Len(p) : p[i] = "launch" /\ p[j] = "launch" => i = j
                           /\ LinePrograms[p] \subseteq Seq(LineSteps)
                           /\ \A k \in LinePrograms[p] : Nests(k, LineDepth)

VARIABLES
    pool,       \* the pool's connections
    program,    \* what each strand does, <<>> before it starts
    at,         \* how many of these steps it has done
    failed,     \* a query of it was rejected: it only rolls back
    held,       \* the connections of its open transactions, outermost first
    got,        \* the connection its next step runs on, if it has been given one
    waiting     \* pg-pool's queue of pending connects

vars == <<pool, program, at, failed, held, got, waiting>>

-----------------------------------------------------------------------------

HeldBy(s) == {held[s][i] : i \in 1..Len(held[s])}

\* Mutant: the pool opens connections beyond its limit.
Unlimited == Connections \ UNION {HeldBy(s) \cup got[s] : s \in Strands}

Free == pool \ UNION {HeldBy(s) \cup got[s] : s \in Strands}

Busy(s) == IF failed[s] THEN held[s] # <<>> ELSE at[s] < Len(program[s])

\* The step it takes next.
Ahead(s) == IF failed[s] THEN "commit" ELSE program[s][at[s] + 1]

IsWaiting(s) == \E i \in 1..Len(waiting) : waiting[i] = s

Init == /\ pool \in Pools
        /\ program = [s \in Strands |-> <<>>]
        /\ at = [s \in Strands |-> 0]
        /\ failed = [s \in Strands |-> FALSE]
        /\ held = [s \in Strands |-> <<>>]
        /\ got = [s \in Strands |-> {}]
        /\ waiting = <<>>

Arrive(r) == /\ program[<<r, Main>>] = <<>>
             /\ \E p \in Programs : program' = [program EXCEPT ![<<r, Main>>] = p]
             /\ UNCHANGED <<pool, at, failed, held, got, waiting>>

\* A step that needs a connection asks the pool for one.
Asks(s) == Busy(s) /\ Ahead(s) \in {"begin", "query"} /\ got[s] = {} /\ ~IsWaiting(s)

\* Which of the free ones it gets makes no difference.
Connect(s) == /\ Asks(s)
              /\ Free # {}
              /\ got' = [got EXCEPT ![s] = {CHOOSE c \in Free : TRUE}]
              /\ UNCHANGED <<pool, program, at, failed, held, waiting>>

Wait(s) == /\ Asks(s)
           /\ Free = {}
           /\ waiting' = Append(waiting, s)
           /\ UNCHANGED <<pool, program, at, failed, held, got>>

\* A connection that is let go of passes to the strand that waits longest.
PassOn(C, g) ==
    IF waiting = <<>>
    THEN got' = g /\ UNCHANGED waiting
    ELSE got' = [g EXCEPT ![Head(waiting)] = C] /\ waiting' = Tail(waiting)

Done(s) == at' = [at EXCEPT ![s] = IF failed[s] THEN @ ELSE @ + 1]

\* Mutant: the first query of the callback runs on the transaction's connection.
BeginAndKeep(s) == /\ got[s] # {} /\ Ahead(s) = "begin"
                   /\ \E c \in got[s] : held' = [held EXCEPT ![s] = Append(@, c)]
                   /\ Done(s)
                   /\ UNCHANGED <<pool, program, failed, got, waiting>>

\* START TRANSACTION on the connection, which stays with the transaction.
Begin(s) == /\ got[s] # {} /\ Ahead(s) = "begin"
            /\ \E c \in got[s] : held' = [held EXCEPT ![s] = Append(@, c)]
            /\ got' = [got EXCEPT ![s] = {}]
            /\ Done(s)
            /\ UNCHANGED <<pool, program, failed, waiting>>

\* Mutant: a query does not release its connection before the transaction ends.
QueryAndHold(s) == /\ got[s] # {} /\ Ahead(s) = "query"
                   /\ \E c \in got[s] : held' = [held EXCEPT ![s] = Append(@, c)]
                   /\ got' = [got EXCEPT ![s] = {}]
                   /\ Done(s)
                   /\ UNCHANGED <<pool, program, failed, waiting>>

\* A query of the callback, or a save with its own short transaction.
Query(s) == /\ got[s] # {} /\ Ahead(s) = "query"
            /\ PassOn(got[s], [got EXCEPT ![s] = {}])
            /\ Done(s)
            /\ UNCHANGED <<pool, program, failed, held>>

\* Mutant: a transaction ends without telling those who wait for its connection.
CommitSilently(s) == /\ Busy(s) /\ Ahead(s) = "commit"
                     /\ held' = [held EXCEPT ![s] = SubSeq(@, 1, Len(@) - 1)]
                     /\ Done(s)
                     /\ UNCHANGED <<pool, program, failed, got, waiting>>

\* The callback has ended: COMMIT and release (ROLLBACK and release, for a failed strand).
Commit(s) == /\ Busy(s) /\ Ahead(s) = "commit"
             /\ PassOn({held[s][Len(held[s])]}, got)
             /\ held' = [held EXCEPT ![s] = SubSeq(@, 1, Len(@) - 1)]
             /\ Done(s)
             /\ UNCHANGED <<pool, program, failed>>

\* Promise.all starts the handling of every line at once; a form may have fewer.
Launch(s) == /\ Busy(s) /\ Ahead(s) = "launch"
             /\ \E k \in [LinesOf(s) -> LinePrograms[program[s]] \cup {<<>>}] :
                    program' = [q \in Strands |-> IF q \in LinesOf(s) THEN k[q] ELSE program[q]]
             /\ Done(s)
             /\ UNCHANGED <<pool, failed, held, got, waiting>>

\* Some line has thrown, its transactions rolled back.
LineFailed(s) == \E q \in LinesOf(s) : failed[q] /\ ~Busy(q)

LinesEnded(s) == \A q \in LinesOf(s) : ~Busy(q)

\* Promise.all resolves when every line has been handled.
Join(s) == /\ Busy(s) /\ Ahead(s) = "join"
           /\ LinesEnded(s) /\ ~LineFailed(s)
           /\ Done(s)
           /\ UNCHANGED <<pool, program, failed, held, got, waiting>>

\* Mutant: the rejection of a line does not reach the handler.
NeverRejects(s) == /\ Busy(s) /\ Ahead(s) = "join"
                   /\ LineFailed(s)
                   /\ UNCHANGED vars

\* It rejects as soon as one line throws; the others go on.
JoinFails(s) == /\ Busy(s) /\ Ahead(s) = "join"
                /\ LineFailed(s)
                /\ failed' = [failed EXCEPT ![s] = TRUE]
                /\ UNCHANGED <<pool, program, at, held, got, waiting>>

\* A query rejects: the exception goes up through the open transactions.
Fail(s) == /\ got[s] # {}
           /\ PassOn(got[s], [got EXCEPT ![s] = {}])
           /\ failed' = [failed EXCEPT ![s] = TRUE]
           /\ UNCHANGED <<pool, program, at, held>>

Proceed(s) == \/ Connect(s) \/ Wait(s) \/ Begin(s) \/ Query(s) \/ Commit(s)
              \/ Launch(s) \/ Join(s) \/ JoinFails(s)

Next == \/ \E r \in Requests : Arrive(r)
        \/ \E s \in Strands : Proceed(s) \/ Fail(s)

\* The event loop runs every callback that is ready, and the database answers every query.
Spec == Init /\ [][Next]_vars /\ \A s \in Strands : WF_vars(Proceed(s))

-----------------------------------------------------------------------------
(* Properties.                                                             *)

TypeOK ==
    /\ pool \in Pools
    /\ program \in [Strands -> Seq(Steps)]
    /\ at \in [Strands -> Nat]
    /\ failed \in [Strands -> BOOLEAN]
    /\ held \in [Strands -> Seq(pool)]
    /\ got \in [Strands -> SUBSET pool]
    /\ waiting \in Seq(Strands)

\* Every connection has at most one owner: one open transaction, or one query.
OneOwner ==
    /\ \A s, q \in Strands : s # q => (HeldBy(s) \cup got[s]) \cap (HeldBy(q) \cup got[q]) = {}
    /\ \A s \in Strands :
         /\ HeldBy(s) \cap got[s] = {}
         /\ \A i, j \in 1..Len(held[s]) : held[s][i] = held[s][j] => i = j

\* A strand waits only while every connection is taken: none is forgotten in the pool.
NoIdleConnection == waiting # <<>> => Free = {}

\* A handler awaits its lines, which are not done yet.
AwaitsLines(s) == Ahead(s) = "join" /\ ~LinesEnded(s) /\ ~LineFailed(s)

\* Everybody who is under way waits for a connection that somebody else holds, or for lines
\* that do.
Stuck == waiting # <<>> /\ \A s \in Strands : Busy(s) => IsWaiting(s) \/ AwaitsLines(s)

EnoughConnections ==
    Cardinality(pool) > Cardinality(Handlers) * MaxDepth + Cardinality(LineStrands) * LineDepth

\* Transactions that wait for each other's connections, be they of two requests or of two lines of
\* one form, stop the server for good, but not if the pool is larger than all the transactions
\* that the handlers in flight and the lines of their forms may have open together.
NoDeadlock == EnoughConnections => ~Stuck

InFlight(r) == \E s \in Strands : s[1] = r /\ Busy(s)

\* Such a pool gives every request its connections in the end, and every line it has started.
EveryRequestEnds == EnoughConnections => \A r \in Requests : InFlight(r) ~> ~InFlight(r)

=============================================================================
