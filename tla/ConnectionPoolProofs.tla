------------------------ MODULE ConnectionPoolProofs ------------------------
(***************************************************************************)
(* Theorems about ConnectionPool for every set of requests, handlers and   *)
(* lines, every nesting depth and every pool.  r and q are strands.        *)
(***************************************************************************)
EXTENDS ConnectionPool, FiniteSetTheorems, SequenceTheorems, TLAPS

-----------------------------------------------------------------------------
(* The stack of an open transaction's connections.                         *)

Elements(s) == {s[i] : i \in 1..Len(s)}

\* Opening a transaction adds its connection to those held.
LEMMA AppendElements ==
  ASSUME NEW S, NEW s \in Seq(S), NEW c \in S
  PROVE  /\ Append(s, c) \in Seq(S)
         /\ Len(Append(s, c)) = Len(s) + 1
         /\ Elements(Append(s, c)) = Elements(s) \cup {c}
  BY DEF Elements

\* Closing the innermost one takes the last away, which is one of them.
LEMMA PopElements ==
  ASSUME NEW S, NEW s \in Seq(S), Len(s) > 0
  PROVE  /\ SubSeq(s, 1, Len(s) - 1) \in Seq(S)
         /\ Len(SubSeq(s, 1, Len(s) - 1)) = Len(s) - 1
         /\ \A i \in 1..(Len(s) - 1) : SubSeq(s, 1, Len(s) - 1)[i] = s[i]
         /\ Elements(s) = Elements(SubSeq(s, 1, Len(s) - 1)) \cup {s[Len(s)]}
         /\ s[Len(s)] \in S
  <1> DEFINE t == SubSeq(s, 1, Len(s) - 1)
  <1>1. Len(s) \in Nat /\ \A i \in 1..Len(s) : s[i] \in S
    OBVIOUS
  <1>2. t \in Seq(S) /\ Len(t) = Len(s) - 1 /\ \A i \in 1..(Len(s) - 1) : t[i] = s[i]
    <2>1. \A i \in 1..(Len(s) - 1) : s[i] \in S
      BY <1>1
    <2>2. /\ t \in Seq(S)
          /\ Len(t) = IF 1 <= Len(s) - 1 THEN (Len(s) - 1) - 1 + 1 ELSE 0
          /\ \A i \in 1..((Len(s) - 1) - 1 + 1) : t[i] = s[1 + i - 1]
      BY <1>1, <2>1, SubSeqProperties
    <2> HIDE DEF t
    <2>3. /\ 1 <= Len(s) - 1 => Len(t) = Len(s) - 1
          /\ ~(1 <= Len(s) - 1) => Len(t) = 0
      BY <1>1, <2>2
    <2>4. Len(t) = Len(s) - 1
      BY <1>1, <2>3
    <2>5. ASSUME NEW i \in 1..(Len(s) - 1) PROVE t[i] = s[i]
      <3>1. i \in 1..((Len(s) - 1) - 1 + 1) /\ 1 + i - 1 = i
        BY <1>1
      <3>2. QED
        BY <2>2, <3>1
    <2>6. QED
      BY <2>2, <2>4, <2>5
  <1>3. Elements(s) = Elements(t) \cup {s[Len(s)]}
    <2> HIDE DEF t
    <2>1. 1..Len(s) = 1..Len(t) \cup {Len(s)}
      BY <1>1, <1>2
    <2>2. QED
      BY <1>1, <1>2, <2>1 DEF Elements
  <1>4. QED
    BY <1>1, <1>2, <1>3

-----------------------------------------------------------------------------
(* How deep a handler nests its transactions.                              *)

LEMMA PositionsStep ==
  ASSUME NEW p, NEW i \in Nat, NEW what
  PROVE  /\ IsFiniteSet(Positions(p, i, what))
         /\ Cardinality(Positions(p, i, what)) \in Nat
         /\ Cardinality(Positions(p, i + 1, what)) =
              Cardinality(Positions(p, i, what)) + (IF p[i + 1] = what THEN 1 ELSE 0)
  <1>1. IsFiniteSet(1..i)
    BY FS_Interval
  <1>2. IsFiniteSet(Positions(p, i, what))
    BY <1>1, FS_Subset DEF Positions
  <1>3. Cardinality(Positions(p, i, what)) \in Nat
    BY <1>2, FS_CardinalityType
  <1>4. Positions(p, i + 1, what) =
          IF p[i + 1] = what THEN Positions(p, i, what) \cup {i + 1} ELSE Positions(p, i, what)
    BY DEF Positions
  <1>5. i + 1 \notin Positions(p, i, what)
    BY DEF Positions
  <1>6. Cardinality(Positions(p, i, what) \cup {i + 1}) = Cardinality(Positions(p, i, what)) + 1
    BY <1>2, <1>5, FS_AddElement
  <1>7. QED
    BY <1>2, <1>3, <1>4, <1>6

\* Only "begin" and "commit" change the depth, by one.
LEMMA DepthStep ==
  ASSUME NEW p \in Seq(Steps), NEW i \in Nat, i < Len(p)
  PROVE  /\ Depth(p, i) \in Int
         /\ p[i + 1] = "begin" => Depth(p, i + 1) = Depth(p, i) + 1
         /\ p[i + 1] = "commit" => Depth(p, i + 1) = Depth(p, i) - 1
         /\ p[i + 1] \notin {"begin", "commit"} => Depth(p, i + 1) = Depth(p, i)
  <1> DEFINE b == Cardinality(Positions(p, i, "begin"))
             c == Cardinality(Positions(p, i, "commit"))
  <1>1. /\ b \in Nat
        /\ Cardinality(Positions(p, i + 1, "begin")) = b + (IF p[i + 1] = "begin" THEN 1 ELSE 0)
    BY PositionsStep
  <1>2. /\ c \in Nat
        /\ Cardinality(Positions(p, i + 1, "commit")) = c + (IF p[i + 1] = "commit" THEN 1 ELSE 0)
    BY PositionsStep
  <1>3. Depth(p, i) = b - c
    BY DEF Depth
  <1>4. Depth(p, i + 1) = Cardinality(Positions(p, i + 1, "begin")) - Cardinality(Positions(p, i + 1, "commit"))
    BY DEF Depth
  <1> HIDE DEF b, c
  <1>5. "begin" # "commit"
    OBVIOUS
  <1>6. QED
    BY <1>1, <1>2, <1>3, <1>4, <1>5

LEMMA DepthStart ==
  ASSUME NEW p
  PROVE  Depth(p, 0) = 0
  <1>1. Positions(p, 0, "begin") = {} /\ Positions(p, 0, "commit") = {}
    BY DEF Positions
  <1>2. QED
    BY <1>1, FS_EmptySet DEF Depth

-----------------------------------------------------------------------------
(* What a strand does.                                                     *)

Follows(r) == IF r[2] = Main THEN Programs ELSE UNION {LinePrograms[p] : p \in Programs}

MayOpen(r) == IF r[2] = Main THEN MaxDepth ELSE LineDepth

LEMMA FollowsNests ==
  ASSUME NEW r \in Strands, NEW p \in Follows(r)
  PROVE  /\ p \in Seq(Steps)
         /\ \A i \in 0..Len(p) : Depth(p, i) \in 0..MayOpen(r)
         /\ Depth(p, Len(p)) = 0
         /\ MayOpen(r) \in Nat
         /\ r[2] # Main => p \in Seq(LineSteps)
  <1>1. CASE r[2] = Main
    BY <1>1, PoolAssumption DEF Follows, MayOpen, Nests
  <1>2. CASE r[2] # Main
    <2>1. PICK h \in Programs : p \in LinePrograms[h]
      BY <1>2 DEF Follows
    <2>2. p \in Seq(LineSteps) /\ Nests(p, LineDepth)
      BY <2>1, PoolAssumption
    <2>3. p \in Seq(Steps)
      BY <2>2 DEF Steps
    <2>4. QED
      BY <1>2, <2>2, <2>3, PoolAssumption DEF MayOpen, Nests
  <1>3. QED
    BY <1>1, <1>2

\* The lines of a form are strands of the same request, other than the handler.
LEMMA LinesAreStrands ==
  ASSUME NEW r \in Strands, NEW q \in LinesOf(r)
  PROVE  q \in Strands /\ q[1] = r[1] /\ q[2] # Main
  <1>1. r[1] \in Requests
    BY DEF Strands, Handlers, LineStrands
  <1>2. q \in {r[1]} \X Lines[r[1]] /\ q[1] = r[1] /\ q[2] \in Lines[r[1]]
    BY DEF LinesOf
  <1>3. QED
    BY <1>1, <1>2, PoolAssumption DEF Strands, LineStrands

\* A strand is the handler of its request, or one of the lines.
LEMMA StrandKinds ==
  ASSUME NEW r \in Strands
  PROVE  /\ r[2] = Main => r \in Handlers
         /\ r[2] # Main => r \in LineStrands
  BY PoolAssumption DEF Strands, Handlers, LineStrands

-----------------------------------------------------------------------------
(* The inductive invariant.                                                *)

\* A connection is given, and a place in the queue is taken, only for a step that needs one.
Asking(r) ==
    /\ got[r] = {} \/ \E c \in pool : got[r] = {c}
    /\ got[r] # {} \/ IsWaiting(r) => Busy(r) /\ Ahead(r) \in {"begin", "query"}
    /\ IsWaiting(r) => got[r] = {}

\* A strand holds one connection for each transaction that it has open.
Nested(r) ==
    /\ ~failed[r] => /\ program[r] \in Follows(r) \cup {<<>>}
                     /\ at[r] <= Len(program[r])
                     /\ Len(held[r]) = Depth(program[r], at[r])
    /\ failed[r] => program[r] # <<>>
    /\ Len(held[r]) <= MayOpen(r)

\* Lines start when their handler launches them.
Unlaunched(r) ==
    r[2] = Main /\ Positions(program[r], at[r], "launch") = {} => \A q \in LinesOf(r) : program[q] = <<>>

\* Nobody waits in the queue twice.
InLine == \A i, j \in 1..Len(waiting) : waiting[i] = waiting[j] => i = j

IInv == /\ TypeOK
        /\ \A r \in Strands : Asking(r)
        /\ \A r \in Strands : Nested(r)
        /\ \A r \in Strands : Unlaunched(r)
        /\ InLine
        /\ NoIdleConnection

LEMMA IInvInit == Init => IInv
  <1> SUFFICES ASSUME Init PROVE IInv
    OBVIOUS
  <1>1. TypeOK
    BY DEF Init, TypeOK
  <1>2. ASSUME NEW r \in Strands PROVE Asking(r)
    BY DEF Init, Asking, IsWaiting
  <1>3. ASSUME NEW r \in Strands PROVE Nested(r)
    BY DepthStart, PoolAssumption DEF Init, Nested, MayOpen
  <1>4. InLine /\ NoIdleConnection
    BY DEF Init, InLine, NoIdleConnection
  <1>5. ASSUME NEW r \in Strands PROVE Unlaunched(r)
    BY LinesAreStrands DEF Init, Unlaunched
  <1>6. QED
    BY <1>1, <1>2, <1>3, <1>4, <1>5 DEF IInv

\* A strand that commits holds a connection.
LEMMA CommitHolds ==
  ASSUME TypeOK, NEW r \in Strands, Nested(r), Busy(r), Ahead(r) = "commit"
  PROVE  Len(held[r]) > 0
  <1>1. CASE failed[r]
    <2>1. held[r] # <<>> /\ held[r] \in Seq(pool)
      BY <1>1 DEF Busy, TypeOK
    <2>2. QED
      BY <2>1, EmptySeq
  <1>2. CASE ~failed[r]
    <2> DEFINE p == program[r]
    <2>1. p \in Seq(Steps) /\ at[r] \in Nat /\ at[r] < Len(p) /\ p[at[r] + 1] = "commit"
      BY <1>2 DEF Busy, Ahead, TypeOK
    <2>2. p \in Follows(r)
      BY <1>2, <2>1 DEF Nested
    <2>3. Depth(p, at[r] + 1) \in 0..MayOpen(r) /\ MayOpen(r) \in Nat
      BY <2>1, <2>2, FollowsNests
    <2>4. Depth(p, at[r] + 1) = Depth(p, at[r]) - 1 /\ Depth(p, at[r]) \in Int
      BY <2>1, DepthStep
    <2>5. Len(held[r]) = Depth(p, at[r])
      BY <1>2 DEF Nested
    <2>6. QED
      BY <2>3, <2>4, <2>5
  <1>3. QED
    BY <1>1, <1>2

\* What giving away a connection does to the queue and to those who hold one.
LEMMA PassOnEffect ==
  ASSUME TypeOK, InLine, \A r \in Strands : Asking(r),
         NEW g \in [Strands -> SUBSET pool], NEW C \in SUBSET pool, PassOn(C, g)
  PROVE  /\ got' \in [Strands -> SUBSET pool]
         /\ waiting' \in Seq(Strands)
         /\ InLine'
         /\ \A q \in Strands : IsWaiting(q)' => IsWaiting(q) /\ got'[q] = g[q]
         /\ \A q \in Strands : got'[q] = g[q] \/ (IsWaiting(q) /\ got'[q] = C)
         /\ waiting' # <<>> => waiting # <<>> /\ \E q \in Strands : IsWaiting(q) /\ got'[q] = C
         /\ \E h : \A q \in Strands \ {h} : got'[q] = g[q]
  <1>1. CASE waiting = <<>>
    BY <1>1 DEF PassOn, TypeOK, InLine, IsWaiting
  <1>2. CASE waiting # <<>>
    <2> DEFINE h == Head(waiting)
    <2>1. /\ waiting \in Seq(Strands)
          /\ Len(waiting) \in Nat \ {0}
          /\ waiting[1] = h
          /\ h \in Strands
      BY <1>2 DEF TypeOK
    <2>2. /\ waiting' = Tail(waiting)
          /\ waiting' \in Seq(Strands)
          /\ Len(waiting') = Len(waiting) - 1
          /\ \A i \in 1..Len(waiting') : waiting'[i] = waiting[i + 1]
      <3>1. /\ Tail(waiting) \in Seq(Strands)
            /\ Len(Tail(waiting)) = Len(waiting) - 1
            /\ \A i \in 1..Len(Tail(waiting)) : Tail(waiting)[i] = waiting[i + 1]
        BY <1>2, <2>1, HeadTailProperties
      <3>2. waiting' = Tail(waiting)
        BY <1>2 DEF PassOn
      <3>3. QED
        BY <3>1, <3>2
    <2>3. got' = [g EXCEPT ![h] = C]
      BY <1>2 DEF PassOn
    <2>4. InLine'
      <3> SUFFICES ASSUME NEW i \in 1..Len(waiting'), NEW j \in 1..Len(waiting'),
                          waiting'[i] = waiting'[j]
                   PROVE  i = j
        BY DEF InLine
      <3>1. i + 1 \in 1..Len(waiting) /\ j + 1 \in 1..Len(waiting)
        BY <2>1, <2>2
      <3>2. QED
        BY <2>1, <2>2, <3>1 DEF InLine
    <2>5. IsWaiting(h)
      BY <2>1 DEF IsWaiting
    <2>6. ASSUME NEW q \in Strands, IsWaiting(q)' PROVE IsWaiting(q) /\ q # h
      <3>1. PICK i \in 1..Len(waiting') : waiting'[i] = q
        BY <2>6 DEF IsWaiting
      <3>2. i + 1 \in 1..Len(waiting) /\ waiting[i + 1] = q /\ i + 1 # 1
        BY <2>1, <2>2, <3>1
      <3>3. 1 \in 1..Len(waiting)
        BY <2>1
      <3>4. QED
        BY <2>1, <3>2, <3>3 DEF IsWaiting, InLine
    <2> HIDE DEF h
    <2>7. QED
      BY <1>2, <2>1, <2>2, <2>3, <2>4, <2>5, <2>6
  <1>3. QED
    BY <1>1, <1>2

-----------------------------------------------------------------------------
(* Every step keeps the invariant.                                         *)

\* A handler's next step leaves it between no transaction and as many as it may nest.
LEMMA Advance ==
  ASSUME TypeOK, NEW r \in Strands, Nested(r), Busy(r), ~failed[r]
  PROVE  /\ program[r] \in Follows(r)
         /\ at[r] + 1 <= Len(program[r])
         /\ Ahead(r) \in Steps
         /\ r[2] # Main => Ahead(r) \in LineSteps
         /\ Depth(program[r], at[r] + 1) <= MayOpen(r)
         /\ Ahead(r) = "begin" => Depth(program[r], at[r] + 1) = Len(held[r]) + 1
         /\ Ahead(r) \in {"query", "launch", "join"} => Depth(program[r], at[r] + 1) = Len(held[r])
         /\ Ahead(r) = "commit" => Depth(program[r], at[r] + 1) = Len(held[r]) - 1
  <1> DEFINE p == program[r]
  <1>1. /\ p \in Seq(Steps)
        /\ at[r] \in Nat
        /\ at[r] < Len(p)
        /\ Ahead(r) = p[at[r] + 1]
    BY DEF Busy, Ahead, TypeOK
  <1>2. p \in Follows(r) /\ Len(held[r]) = Depth(p, at[r])
    BY <1>1 DEF Nested
  <1>3. Depth(p, at[r] + 1) \in 0..MayOpen(r) /\ MayOpen(r) \in Nat
    BY <1>1, <1>2, FollowsNests
  <1>4. Ahead(r) \in Steps
    BY <1>1
  <1>5. r[2] # Main => Ahead(r) \in LineSteps
    BY <1>1, <1>2, FollowsNests
  <1>6. /\ Depth(p, at[r]) \in Int
        /\ p[at[r] + 1] = "begin" => Depth(p, at[r] + 1) = Depth(p, at[r]) + 1
        /\ p[at[r] + 1] = "commit" => Depth(p, at[r] + 1) = Depth(p, at[r]) - 1
        /\ p[at[r] + 1] \notin {"begin", "commit"} => Depth(p, at[r] + 1) = Depth(p, at[r])
    BY <1>1, DepthStep
  <1>7. /\ Ahead(r) = "begin" => Depth(p, at[r] + 1) = Len(held[r]) + 1
        /\ Ahead(r) = "commit" => Depth(p, at[r] + 1) = Len(held[r]) - 1
        /\ Ahead(r) \in {"query", "launch", "join"} => Depth(p, at[r] + 1) = Len(held[r])
    <2>1. \A x \in {"query", "launch", "join"} : x \notin {"begin", "commit"}
      OBVIOUS
    <2>2. QED
      BY <1>1, <1>2, <1>6, <2>1
  <1>8. at[r] + 1 <= Len(p) /\ Depth(p, at[r] + 1) <= MayOpen(r)
    BY <1>1, <1>3
  <1>9. QED
    BY <1>2, <1>4, <1>5, <1>7, <1>8

\* A step of r leaves every other strand where it is.
Others(r) == \A q \in Strands \ {r} :
    at'[q] = at[q] /\ failed'[q] = failed[q] /\ program'[q] = program[q] /\ held'[q] = held[q]

LEMMA OthersNested ==
  ASSUME IInv, NEW r \in Strands, Others(r), Nested(r)'
  PROVE  \A q \in Strands : Nested(q)'
  BY DEF IInv, Others, Nested

\* Steps that start nobody leave lines unstarted that were not launched.
LEMMA StillUnlaunched ==
  ASSUME IInv, program' = program, \A r \in Strands : at'[r] = at[r] \/ at'[r] = at[r] + 1
  PROVE  \A r \in Strands : Unlaunched(r)'
  <1> SUFFICES ASSUME NEW r \in Strands, r[2] = Main,
                      Positions(program[r], at'[r], "launch") = {},
                      NEW q \in LinesOf(r)
               PROVE  program[q] = <<>>
    BY DEF Unlaunched, LinesOf
  <1>1. at[r] \in Nat /\ Unlaunched(r)
    BY DEF IInv, TypeOK
  <1>2. Positions(program[r], at[r], "launch") \subseteq Positions(program[r], at'[r], "launch")
    BY <1>1 DEF Positions
  <1>3. QED
    BY <1>1, <1>2 DEF Unlaunched

LEMMA ArriveStep ==
  ASSUME IInv, NEW a \in Requests, Arrive(a)
  PROVE  IInv'
  <1> DEFINE r == <<a, Main>>
  <1>0. r \in Strands /\ r[1] = a /\ r[2] = Main
    BY DEF Strands, Handlers
  <1>1. PICK p \in Programs : program' = [program EXCEPT ![r] = p]
    BY DEF Arrive
  <1>2. /\ program[r] = <<>>
        /\ UNCHANGED <<pool, at, failed, held, got, waiting>>
    BY DEF Arrive
  <1> HIDE DEF r
  <1>n. p \in Follows(r) /\ p \in Seq(Steps) /\ Len(p) \in Nat
    BY <1>0, PoolAssumption DEF Follows
  <1>3. TypeOK'
    BY <1>1, <1>2, <1>n DEF IInv, TypeOK
  <1>4. /\ ~failed[r]
        /\ at[r] = 0
        /\ Len(held[r]) = 0
        /\ ~Busy(r)
    BY <1>0, <1>2, DepthStart DEF IInv, TypeOK, Nested, Busy
  <1>5. Nested(r)'
    <2>1. program'[r] = p
      BY <1>0, <1>1 DEF IInv, TypeOK
    <2>2. MayOpen(r) \in Nat
      BY PoolAssumption DEF MayOpen
    <2>3. QED
      BY <1>2, <1>4, <1>n, <2>1, <2>2, DepthStart DEF Nested
  <1>6. \A q \in Strands : Nested(q)'
    BY <1>0, <1>1, <1>2, <1>5, OthersNested DEF Others, IInv, TypeOK
  <1>7. ASSUME NEW q \in Strands PROVE Asking(q)'
    <2>1. IsWaiting(q)' = IsWaiting(q)
      BY <1>2 DEF IsWaiting
    <2>2. CASE q = r
      BY <1>2, <1>4, <2>1, <2>2 DEF IInv, Asking
    <2>3. CASE q # r
      BY <1>1, <1>2, <2>1, <2>3 DEF IInv, TypeOK, Asking, Busy, Ahead
    <2>4. QED
      BY <2>2, <2>3
  <1>8. InLine' /\ NoIdleConnection'
    BY <1>2 DEF IInv, InLine, NoIdleConnection, Free, HeldBy
  <1>9. ASSUME NEW q \in Strands PROVE Unlaunched(q)'
    <2>1. \A x \in LinesOf(q) : program'[x] = program[x]
      BY <1>0, <1>1, LinesAreStrands DEF IInv, TypeOK
    <2>2. CASE q = r
      <3>1. Positions(program[r], at[r], "launch") = {}
        BY <1>4 DEF Positions
      <3>2. \A x \in LinesOf(r) : program[x] = <<>>
        BY <1>0, <3>1 DEF IInv, Unlaunched
      <3>3. QED
        BY <2>1, <2>2, <3>2 DEF Unlaunched
    <2>3. CASE q # r
      <3>1. program'[q] = program[q] /\ at'[q] = at[q]
        BY <1>1, <1>2, <2>3 DEF IInv, TypeOK
      <3>2. QED
        BY <2>1, <3>1 DEF IInv, Unlaunched
    <2>4. QED
      BY <2>2, <2>3
  <1>10. QED
    BY <1>3, <1>6, <1>7, <1>8, <1>9 DEF IInv

LEMMA ConnectStep ==
  ASSUME IInv, NEW r \in Strands, Connect(r)
  PROVE  IInv'
  <1> DEFINE c == CHOOSE c \in Free : TRUE
  <1>1. c \in Free /\ c \in pool
    BY DEF Connect, Free
  <1> HIDE DEF c
  <1>2. /\ got' = [got EXCEPT ![r] = {c}]
        /\ UNCHANGED <<pool, program, at, failed, held, waiting>>
        /\ Busy(r) /\ Ahead(r) \in {"begin", "query"} /\ ~IsWaiting(r)
    BY DEF Connect, Asks, c
  <1>3. TypeOK'
    BY <1>1, <1>2 DEF IInv, TypeOK
  <1>4. \A q \in Strands : Nested(q)'
    BY <1>2 DEF IInv, Nested
  <1>5. ASSUME NEW q \in Strands PROVE Asking(q)'
    <2>1. IsWaiting(q)' = IsWaiting(q) /\ Busy(q)' = Busy(q) /\ Ahead(q)' = Ahead(q)
      BY <1>2 DEF IsWaiting, Busy, Ahead
    <2>2. CASE q = r
      <3>1. got'[q] = {c}
        BY <1>2, <2>2 DEF IInv, TypeOK
      <3>2. QED
        BY <1>1, <1>2, <2>1, <2>2, <3>1 DEF Asking
    <2>3. CASE q # r
      BY <1>2, <2>1, <2>3 DEF IInv, TypeOK, Asking
    <2>4. QED
      BY <2>2, <2>3
  <1>6. InLine'
    BY <1>2 DEF IInv, InLine
  <1>7. NoIdleConnection'
    BY <1>1, <1>2 DEF IInv, NoIdleConnection
  <1>8. \A q \in Strands : Unlaunched(q)'
    BY <1>2, StillUnlaunched
  <1>9. QED
    BY <1>3, <1>4, <1>5, <1>6, <1>7, <1>8 DEF IInv

LEMMA WaitStep ==
  ASSUME IInv, NEW r \in Strands, Wait(r)
  PROVE  IInv'
  <1>1. /\ waiting' = Append(waiting, r)
        /\ UNCHANGED <<pool, program, at, failed, held, got>>
        /\ Busy(r) /\ Ahead(r) \in {"begin", "query"} /\ got[r] = {} /\ ~IsWaiting(r)
        /\ Free = {}
    BY DEF Wait, Asks
  <1>2. /\ waiting \in Seq(Strands)
        /\ waiting' \in Seq(Strands)
        /\ Len(waiting') = Len(waiting) + 1
        /\ \A i \in 1..Len(waiting) : waiting'[i] = waiting[i]
        /\ waiting'[Len(waiting) + 1] = r
    BY <1>1 DEF IInv, TypeOK
  <1>3. TypeOK'
    BY <1>1, <1>2 DEF IInv, TypeOK
  <1>4. \A q \in Strands : Nested(q)'
    BY <1>1 DEF IInv, Nested
  <1>5. ASSUME NEW q \in Strands PROVE Asking(q)'
    <2>1. Busy(q)' = Busy(q) /\ Ahead(q)' = Ahead(q) /\ got'[q] = got[q]
      BY <1>1 DEF Busy, Ahead
    <2>2. IsWaiting(q)' => IsWaiting(q) \/ q = r
      BY <1>2 DEF IsWaiting
    <2>3. QED
      BY <1>1, <2>1, <2>2 DEF IInv, Asking
  <1>6. InLine'
    BY <1>1, <1>2 DEF IInv, InLine, IsWaiting
  <1>7. NoIdleConnection'
    BY <1>1 DEF NoIdleConnection, Free, HeldBy
  <1>8. \A q \in Strands : Unlaunched(q)'
    BY <1>1, StillUnlaunched
  <1>9. QED
    BY <1>3, <1>4, <1>5, <1>6, <1>7, <1>8 DEF IInv

LEMMA BeginStep ==
  ASSUME IInv, NEW r \in Strands, Begin(r)
  PROVE  IInv'
  <1>1. got[r] # {} /\ Ahead(r) = "begin"
    BY DEF Begin
  <1>2. PICK c \in got[r] : held' = [held EXCEPT ![r] = Append(@, c)]
    BY DEF Begin
  <1>3. c \in pool /\ got[r] = {c} /\ Busy(r) /\ ~IsWaiting(r) /\ ~failed[r]
    BY <1>1, <1>2 DEF IInv, Asking, Ahead
  <1>4. /\ got' = [got EXCEPT ![r] = {}]
        /\ at' = [at EXCEPT ![r] = @ + 1]
        /\ UNCHANGED <<pool, program, failed, waiting>>
    BY <1>3 DEF Begin, Done, IInv, TypeOK
  <1>5. /\ held[r] \in Seq(pool)
        /\ held'[r] = Append(held[r], c)
        /\ held'[r] \in Seq(pool)
        /\ Len(held'[r]) = Len(held[r]) + 1
        /\ Elements(held'[r]) = Elements(held[r]) \cup {c}
    <2>1. held[r] \in Seq(pool) /\ held'[r] = Append(held[r], c)
      BY <1>2 DEF IInv, TypeOK
    <2>2. QED
      BY <1>3, <2>1, AppendElements
  <1>6. TypeOK'
    BY <1>2, <1>4, <1>5 DEF IInv, TypeOK
  <1>7. Nested(r)'
    <2>1. /\ program[r] \in Follows(r)
          /\ at[r] + 1 <= Len(program[r])
          /\ Depth(program[r], at[r] + 1) <= MayOpen(r)
          /\ Depth(program[r], at[r] + 1) = Len(held[r]) + 1
      BY <1>1, <1>3, Advance DEF IInv
    <2>2. at'[r] = at[r] + 1 /\ program'[r] = program[r] /\ failed'[r] = failed[r]
      BY <1>4 DEF IInv, TypeOK
    <2>3. QED
      BY <1>3, <1>5, <2>1, <2>2 DEF Nested
  <1>8. \A q \in Strands : Nested(q)'
    BY <1>2, <1>4, <1>7, OthersNested DEF Others, IInv, TypeOK
  <1>9. ASSUME NEW q \in Strands PROVE Asking(q)'
    <2>1. IsWaiting(q)' = IsWaiting(q)
      BY <1>4 DEF IsWaiting
    <2>2. CASE q = r
      BY <1>3, <1>4, <2>1, <2>2 DEF IInv, TypeOK, Asking
    <2>3. CASE q # r
      BY <1>2, <1>4, <2>1, <2>3 DEF IInv, TypeOK, Asking, Busy, Ahead
    <2>4. QED
      BY <2>2, <2>3
  <1>10. InLine'
    BY <1>4 DEF IInv, InLine
  <1>11. NoIdleConnection'
    <2>1. ASSUME NEW q \in Strands PROVE HeldBy(q)' \cup got'[q] = HeldBy(q) \cup got[q]
      <3>1. CASE q = r
        <4>1. HeldBy(r) = Elements(held[r]) /\ HeldBy(r)' = Elements(held'[r])
          BY DEF HeldBy, Elements
        <4>2. got'[r] = {}
          BY <1>4 DEF IInv, TypeOK
        <4>3. QED
          BY <1>3, <1>5, <3>1, <4>1, <4>2
      <3>2. CASE q # r
        BY <1>2, <1>4, <3>2 DEF IInv, TypeOK, HeldBy
      <3>3. QED
        BY <3>1, <3>2
    <2>2. QED
      BY <1>4, <2>1 DEF IInv, NoIdleConnection, Free
  <1>12. \A q \in Strands : Unlaunched(q)'
    BY <1>4, StillUnlaunched DEF IInv, TypeOK
  <1>13. QED
    BY <1>6, <1>8, <1>9, <1>10, <1>11, <1>12 DEF IInv

\* Giving a connection away leaves none idle while somebody waits.
LEMMA PassOnIdlesNone ==
  ASSUME IInv, NEW g \in [Strands -> SUBSET pool], NEW C \in SUBSET pool, PassOn(C, g),
         pool' = pool,
         \A q \in Strands : IsWaiting(q) => g[q] = {},
         \A q \in Strands : HeldBy(q) \cup got[q] \subseteq HeldBy(q)' \cup g[q] \cup C
  PROVE  NoIdleConnection'
  <1> SUFFICES ASSUME waiting' # <<>>, NEW c \in pool
               PROVE  \E q \in Strands : c \in HeldBy(q)' \cup got'[q]
    BY DEF NoIdleConnection, Free
  <1>1. /\ \A q \in Strands : got'[q] = g[q] \/ (IsWaiting(q) /\ got'[q] = C)
        /\ waiting # <<>>
        /\ \E q \in Strands : IsWaiting(q) /\ got'[q] = C
    BY PassOnEffect DEF IInv
  <1>2. PICK x \in Strands : c \in HeldBy(x) \cup got[x]
    BY <1>1 DEF IInv, NoIdleConnection, Free
  <1>3. CASE c \in C
    BY <1>1, <1>3
  <1>4. CASE c \in HeldBy(x)'
    BY <1>4
  <1>5. CASE c \in g[x]
    BY <1>1, <1>5
  <1>6. QED
    BY <1>2, <1>3, <1>4, <1>5

LEMMA QueryStep ==
  ASSUME IInv, NEW r \in Strands, Query(r)
  PROVE  IInv'
  <1> DEFINE g == [got EXCEPT ![r] = {}]
  <1>1. /\ got[r] # {} /\ Ahead(r) = "query"
        /\ Busy(r) /\ ~IsWaiting(r) /\ ~failed[r]
    BY DEF Query, IInv, Asking, Ahead
  <1>2. /\ PassOn(got[r], g)
        /\ at' = [at EXCEPT ![r] = @ + 1]
        /\ UNCHANGED <<pool, program, failed, held>>
    BY <1>1 DEF Query, Done, IInv, TypeOK
  <1>3. /\ g \in [Strands -> SUBSET pool]
        /\ got[r] \in SUBSET pool
        /\ g[r] = {}
        /\ \A q \in Strands \ {r} : g[q] = got[q]
    BY DEF IInv, TypeOK
  <1> HIDE DEF g
  <1>4. /\ got' \in [Strands -> SUBSET pool]
        /\ waiting' \in Seq(Strands)
        /\ InLine'
        /\ \A q \in Strands : IsWaiting(q)' => IsWaiting(q) /\ got'[q] = g[q]
        /\ \A q \in Strands : got'[q] = g[q] \/ (IsWaiting(q) /\ got'[q] = got[r])
    BY <1>2, <1>3, PassOnEffect DEF IInv
  <1>5. TypeOK'
    <2>1. at' \in [Strands -> Nat]
      BY <1>2 DEF IInv, TypeOK
    <2>2. QED
      BY <1>2, <1>4, <2>1 DEF IInv, TypeOK
  <1>6. Nested(r)'
    <2>1. /\ program[r] \in Follows(r)
          /\ at[r] + 1 <= Len(program[r])
          /\ Depth(program[r], at[r] + 1) = Len(held[r])
      BY <1>1, Advance DEF IInv
    <2>2. at'[r] = at[r] + 1
      BY <1>2 DEF IInv, TypeOK
    <2>3. QED
      BY <1>1, <1>2, <2>1, <2>2 DEF IInv, Nested
  <1>7. \A q \in Strands : Nested(q)'
    BY <1>2, <1>6, OthersNested DEF Others, IInv, TypeOK
  <1>8. ASSUME NEW q \in Strands PROVE Asking(q)'
    <2>1. CASE q = r
      BY <1>1, <1>3, <1>4, <2>1 DEF Asking
    <2>2. CASE q # r
      <3>1. Busy(q)' = Busy(q) /\ Ahead(q)' = Ahead(q)
        BY <1>2, <2>2 DEF IInv, TypeOK, Busy, Ahead
      <3>2. \E c \in pool : got[r] = {c}
        BY <1>1 DEF IInv, Asking
      <3>3. QED
        BY <1>2, <1>3, <1>4, <2>2, <3>1, <3>2 DEF IInv, Asking
    <2>3. QED
      BY <2>1, <2>2
  <1>9. NoIdleConnection'
    <2>1. \A q \in Strands : IsWaiting(q) => g[q] = {}
      BY <1>1, <1>3 DEF IInv, Asking
    <2>2. \A q \in Strands : HeldBy(q)' = HeldBy(q)
      BY <1>2 DEF HeldBy
    <2>3. \A q \in Strands : HeldBy(q) \cup got[q] \subseteq HeldBy(q)' \cup g[q] \cup got[r]
      BY <1>3, <2>2
    <2>4. QED
      BY <1>2, <1>3, <2>1, <2>3, PassOnIdlesNone
  <1>10. \A q \in Strands : Unlaunched(q)'
    BY <1>2, StillUnlaunched DEF IInv, TypeOK
  <1>11. QED
    BY <1>4, <1>5, <1>7, <1>8, <1>9, <1>10 DEF IInv

LEMMA FailStep ==
  ASSUME IInv, NEW r \in Strands, Fail(r)
  PROVE  IInv'
  <1> DEFINE g == [got EXCEPT ![r] = {}]
  <1>1. got[r] # {} /\ Busy(r) /\ ~IsWaiting(r) /\ ~failed[r]
    BY DEF Fail, IInv, Asking, Ahead
  <1>2. /\ PassOn(got[r], g)
        /\ failed' = [failed EXCEPT ![r] = TRUE]
        /\ UNCHANGED <<pool, program, at, held>>
    BY DEF Fail
  <1>3. /\ g \in [Strands -> SUBSET pool]
        /\ got[r] \in SUBSET pool
        /\ g[r] = {}
        /\ \A q \in Strands \ {r} : g[q] = got[q]
    BY DEF IInv, TypeOK
  <1> HIDE DEF g
  <1>4. /\ got' \in [Strands -> SUBSET pool]
        /\ waiting' \in Seq(Strands)
        /\ InLine'
        /\ \A q \in Strands : IsWaiting(q)' => IsWaiting(q) /\ got'[q] = g[q]
        /\ \A q \in Strands : got'[q] = g[q] \/ (IsWaiting(q) /\ got'[q] = got[r])
    BY <1>2, <1>3, PassOnEffect DEF IInv
  <1>5. TypeOK'
    BY <1>2, <1>4 DEF IInv, TypeOK
  <1>6. Nested(r)'
    <2>1. program[r] # <<>>
      BY <1>1 DEF IInv, TypeOK, Busy
    <2>2. failed'[r]
      BY <1>2 DEF IInv, TypeOK
    <2>3. QED
      BY <1>2, <2>1, <2>2 DEF IInv, Nested
  <1>7. \A q \in Strands : Nested(q)'
    BY <1>2, <1>6, OthersNested DEF Others, IInv, TypeOK
  <1>8. ASSUME NEW q \in Strands PROVE Asking(q)'
    <2>1. CASE q = r
      BY <1>1, <1>3, <1>4, <2>1 DEF Asking
    <2>2. CASE q # r
      <3>1. Busy(q)' = Busy(q) /\ Ahead(q)' = Ahead(q)
        BY <1>2, <2>2 DEF IInv, TypeOK, Busy, Ahead
      <3>2. \E c \in pool : got[r] = {c}
        BY <1>1 DEF IInv, Asking
      <3>3. QED
        BY <1>2, <1>3, <1>4, <2>2, <3>1, <3>2 DEF IInv, Asking
    <2>3. QED
      BY <2>1, <2>2
  <1>9. NoIdleConnection'
    <2>1. \A q \in Strands : IsWaiting(q) => g[q] = {}
      BY <1>1, <1>3 DEF IInv, Asking
    <2>2. \A q \in Strands : HeldBy(q)' = HeldBy(q)
      BY <1>2 DEF HeldBy
    <2>3. \A q \in Strands : HeldBy(q) \cup got[q] \subseteq HeldBy(q)' \cup g[q] \cup got[r]
      BY <1>3, <2>2
    <2>4. QED
      BY <1>2, <1>3, <2>1, <2>3, PassOnIdlesNone
  <1>10. \A q \in Strands : Unlaunched(q)'
    BY <1>2, StillUnlaunched DEF IInv, TypeOK
  <1>11. QED
    BY <1>4, <1>5, <1>7, <1>8, <1>9, <1>10 DEF IInv

LEMMA CommitStep ==
  ASSUME IInv, NEW r \in Strands, Commit(r)
  PROVE  IInv'
  <1> DEFINE s == held[r]
             t == SubSeq(s, 1, Len(s) - 1)
             C == {s[Len(s)]}
  <1>1. Busy(r) /\ Ahead(r) = "commit" /\ got[r] = {} /\ ~IsWaiting(r)
    BY DEF Commit, IInv, Asking
  <1>2. s \in Seq(pool) /\ Len(s) > 0
    BY <1>1, CommitHolds DEF IInv, TypeOK
  <1>3. /\ PassOn(C, got)
        /\ held' = [held EXCEPT ![r] = t]
        /\ at' = [at EXCEPT ![r] = IF failed[r] THEN @ ELSE @ + 1]
        /\ UNCHANGED <<pool, program, failed>>
    BY DEF Commit, Done, IInv, TypeOK
  <1>4. /\ t \in Seq(pool)
        /\ Len(t) = Len(s) - 1
        /\ Elements(s) = Elements(t) \cup C
        /\ C \in SUBSET pool
    BY <1>2, PopElements
  <1> HIDE DEF t, C
  <1>5. got \in [Strands -> SUBSET pool]
    BY DEF IInv, TypeOK
  <1>6. /\ got' \in [Strands -> SUBSET pool]
        /\ waiting' \in Seq(Strands)
        /\ InLine'
        /\ \A q \in Strands : IsWaiting(q)' => IsWaiting(q) /\ got'[q] = got[q]
        /\ \A q \in Strands : got'[q] = got[q] \/ (IsWaiting(q) /\ got'[q] = C)
    BY <1>3, <1>4, <1>5, PassOnEffect DEF IInv
  <1>7. held'[r] = t /\ \A q \in Strands \ {r} : held'[q] = held[q]
    BY <1>3 DEF IInv, TypeOK
  <1>8. TypeOK'
    <2>1. at' \in [Strands -> Nat]
      BY <1>3 DEF IInv, TypeOK
    <2>2. held' \in [Strands -> Seq(pool)]
      BY <1>3, <1>4 DEF IInv, TypeOK
    <2>3. QED
      BY <1>3, <1>6, <2>1, <2>2 DEF IInv, TypeOK
  <1>9. Nested(r)'
    <2>1. CASE failed[r]
      <3>1. MayOpen(r) \in Nat
        BY PoolAssumption DEF MayOpen
      <3>2. QED
        BY <1>2, <1>3, <1>4, <1>7, <2>1, <3>1 DEF IInv, Nested
    <2>2. CASE ~failed[r]
      <3>1. /\ program[r] \in Follows(r)
            /\ at[r] + 1 <= Len(program[r])
            /\ Depth(program[r], at[r] + 1) = Len(s) - 1
            /\ Depth(program[r], at[r] + 1) <= MayOpen(r)
        BY <1>1, <2>2, Advance DEF IInv
      <3>2. at'[r] = at[r] + 1
        BY <1>3, <2>2 DEF IInv, TypeOK
      <3>3. QED
        BY <1>3, <1>4, <1>7, <2>2, <3>1, <3>2 DEF Nested
    <2>3. QED
      BY <2>1, <2>2
  <1>10. \A q \in Strands : Nested(q)'
    BY <1>3, <1>7, <1>9, OthersNested DEF Others, IInv, TypeOK
  <1>11. ASSUME NEW q \in Strands PROVE Asking(q)'
    <2>1. CASE q = r
      BY <1>1, <1>6, <2>1 DEF Asking
    <2>2. CASE q # r
      <3>1. Busy(q)' = Busy(q) /\ Ahead(q)' = Ahead(q)
        BY <1>3, <1>7, <2>2 DEF IInv, TypeOK, Busy, Ahead
      <3>2. \E c \in pool : C = {c}
        BY <1>4 DEF C
      <3>3. QED
        BY <1>3, <1>6, <2>2, <3>1, <3>2 DEF IInv, Asking
    <2>3. QED
      BY <2>1, <2>2
  <1>12. NoIdleConnection'
    <2>1. \A q \in Strands : IsWaiting(q) => got[q] = {}
      BY DEF IInv, Asking
    <2>2. ASSUME NEW q \in Strands
          PROVE  HeldBy(q) \cup got[q] \subseteq HeldBy(q)' \cup got[q] \cup C
      <3>1. HeldBy(q) = Elements(held[q]) /\ HeldBy(q)' = Elements(held'[q])
        BY DEF HeldBy, Elements
      <3>2. QED
        BY <1>4, <1>7, <3>1
    <2>3. pool' = pool
      BY <1>3
    <2>4. QED
      BY <1>3, <1>4, <1>5, <2>1, <2>2, <2>3, PassOnIdlesNone
  <1>13. \A q \in Strands : Unlaunched(q)'
    BY <1>3, StillUnlaunched DEF IInv, TypeOK
  <1>14. QED
    BY <1>6, <1>8, <1>10, <1>11, <1>12, <1>13 DEF IInv

\* Launching starts the lines of the form, none of which has been started before.
LEMMA LaunchStarts ==
  ASSUME IInv, NEW r \in Strands, Launch(r)
  PROVE  /\ r[2] = Main /\ program[r] \in Programs /\ r \notin LinesOf(r)
         /\ program' \in [Strands -> Seq(Steps)]
         /\ program[r][at[r] + 1] = "launch" /\ at[r] < Len(program[r])
         /\ ~failed[r] /\ got[r] = {} /\ ~IsWaiting(r)
         /\ Depth(program[r], at[r] + 1) = Len(held[r])
         /\ at' = [at EXCEPT ![r] = at[r] + 1]
         /\ \A q \in LinesOf(r) :
              /\ q \in Strands /\ q # r /\ q[2] # Main
              /\ program[q] = <<>> /\ at[q] = 0 /\ ~failed[q] /\ Len(held[q]) = 0 /\ ~Busy(q)
              /\ program'[q] \in Follows(q) \cup {<<>>}
         /\ \A q \in Strands \ LinesOf(r) : program'[q] = program[q]
  <1>1. /\ Busy(r) /\ Ahead(r) = "launch"
        /\ UNCHANGED <<pool, failed, held, got, waiting>>
    BY DEF Launch
  <1>2. PICK k \in [LinesOf(r) -> LinePrograms[program[r]] \cup {<<>>}] :
            program' = [q \in Strands |-> IF q \in LinesOf(r) THEN k[q] ELSE program[q]]
    BY DEF Launch
  <1>3. /\ ~failed[r]
        /\ program[r] \in Follows(r)
        /\ at[r] \in Nat /\ at[r] < Len(program[r])
        /\ program[r][at[r] + 1] = "launch"
        /\ got[r] = {} /\ ~IsWaiting(r)
        /\ Depth(program[r], at[r] + 1) = Len(held[r])
    <2>1. ~failed[r]
      BY <1>1 DEF Ahead
    <2>2. /\ program[r] \in Follows(r)
          /\ Depth(program[r], at[r] + 1) = Len(held[r])
      BY <1>1, <2>1, Advance DEF IInv
    <2>3. at[r] \in Nat /\ at[r] < Len(program[r]) /\ program[r][at[r] + 1] = "launch"
      BY <1>1, <2>1 DEF IInv, TypeOK, Busy, Ahead
    <2>4. got[r] = {} /\ ~IsWaiting(r)
      BY <1>1 DEF IInv, Asking
    <2>5. QED
      BY <2>1, <2>2, <2>3, <2>4
  <1>4. at' = [at EXCEPT ![r] = at[r] + 1]
    BY <1>3 DEF Launch, Done
  <1>5. r[2] = Main /\ program[r] \in Programs
    <2>1. r[2] = Main
      BY <1>1, <1>3, Advance DEF IInv, LineSteps
    <2>2. QED
      BY <1>3, <2>1 DEF Follows
  <1>6. ASSUME NEW q \in LinesOf(r)
        PROVE  /\ q \in Strands /\ q # r /\ q[2] # Main
               /\ program[q] = <<>> /\ at[q] = 0 /\ ~failed[q] /\ Len(held[q]) = 0 /\ ~Busy(q)
               /\ program'[q] \in Follows(q) \cup {<<>>}
    <2>1. q \in Strands /\ q[2] # Main /\ q # r
      BY <1>5, <1>6, LinesAreStrands
    <2>2. Positions(program[r], at[r], "launch") = {}
      <3> SUFFICES ASSUME NEW i \in 1..at[r], program[r][i] = "launch" PROVE FALSE
        BY DEF Positions
      <3>1. i \in 1..Len(program[r]) /\ at[r] + 1 \in 1..Len(program[r]) /\ i # at[r] + 1
        BY <1>3
      <3>2. QED
        BY <1>3, <1>5, <3>1, PoolAssumption
    <2>3. program[q] = <<>>
      BY <1>5, <1>6, <2>2 DEF IInv, Unlaunched
    <2>4. at[q] = 0 /\ ~failed[q] /\ Len(held[q]) = 0 /\ ~Busy(q)
      BY <2>1, <2>3, DepthStart DEF IInv, TypeOK, Nested, Busy
    <2>5. program'[q] = k[q]
      BY <1>2, <1>6, <2>1
    <2>6. k[q] \in LinePrograms[program[r]] \cup {<<>>}
      BY <1>6
    <2>7. QED
      BY <1>5, <2>1, <2>3, <2>4, <2>5, <2>6 DEF Follows
  <1>7. ASSUME NEW q \in Strands, q \notin LinesOf(r) PROVE program'[q] = program[q]
    BY <1>2, <1>7
  <1>8. ASSUME NEW q \in Strands PROVE program'[q] \in Seq(Steps)
    <2>1. CASE q \in LinesOf(r)
      <3>1. program'[q] \in Follows(q) \/ program'[q] = <<>>
        BY <1>6, <2>1
      <3>2. <<>> \in Seq(Steps)
        OBVIOUS
      <3>3. QED
        BY <3>1, <3>2, FollowsNests
    <2>2. CASE q \notin LinesOf(r)
      BY <1>7, <2>2 DEF IInv, TypeOK
    <2>3. QED
      BY <2>1, <2>2
  <1>9. program' \in [Strands -> Seq(Steps)]
    BY <1>2, <1>8
  <1>10. QED
    BY <1>3, <1>4, <1>5, <1>6, <1>7, <1>9

LEMMA LaunchStep ==
  ASSUME IInv, NEW r \in Strands, Launch(r)
  PROVE  IInv'
  <1>1. /\ Busy(r) /\ Ahead(r) = "launch"
        /\ UNCHANGED <<pool, failed, held, got, waiting>>
    BY DEF Launch
  <1>3. /\ program[r][at[r] + 1] = "launch" /\ at[r] < Len(program[r])
        /\ ~failed[r] /\ got[r] = {} /\ ~IsWaiting(r)
        /\ Depth(program[r], at[r] + 1) = Len(held[r])
        /\ program[r] \in Follows(r)
        /\ at[r] \in Nat
    BY LaunchStarts DEF Follows, IInv, TypeOK
  <1>4. at' = [at EXCEPT ![r] = at[r] + 1]
    BY LaunchStarts
  <1>5. r[2] = Main
    BY LaunchStarts
  <1>6. \A q \in LinesOf(r) :
           /\ q \in Strands /\ q # r /\ q[2] # Main
           /\ program[q] = <<>> /\ at[q] = 0 /\ ~failed[q] /\ Len(held[q]) = 0 /\ ~Busy(q)
           /\ program'[q] \in Follows(q) \cup {<<>>}
    BY LaunchStarts
  <1>7. \A q \in Strands \ LinesOf(r) : program'[q] = program[q]
    BY LaunchStarts
  <1>8. TypeOK'
    <2>2. program' \in [Strands -> Seq(Steps)]
      BY LaunchStarts
    <2>3. at' \in [Strands -> Nat]
      BY <1>3, <1>4 DEF IInv, TypeOK
    <2>4. QED
      BY <1>1, <2>2, <2>3 DEF IInv, TypeOK
  <1>9. r \notin LinesOf(r)
    BY <1>6
  <1>10. ASSUME NEW q \in Strands PROVE Nested(q)'
    <2>1. CASE q \in LinesOf(r)
      <3>1. Len(program'[q]) \in Nat
        BY <1>8 DEF TypeOK
      <3>2. at'[q] = 0 /\ Len(held'[q]) = 0 /\ ~failed'[q] /\ program'[q] \in Follows(q) \cup {<<>>}
        BY <1>1, <1>4, <1>6, <2>1 DEF IInv, TypeOK
      <3>3. MayOpen(q) \in Nat
        BY PoolAssumption DEF MayOpen
      <3>4. QED
        BY <3>1, <3>2, <3>3, DepthStart DEF Nested
    <2>2. CASE q = r
      <3>1. /\ program'[r] = program[r] /\ at'[r] = at[r] + 1 /\ held'[r] = held[r]
            /\ failed'[r] = failed[r]
        BY <1>1, <1>4, <1>7, <1>9 DEF IInv, TypeOK
      <3>2. Len(program[r]) \in Nat
        BY DEF IInv, TypeOK
      <3>3. QED
        BY <1>3, <2>2, <3>1, <3>2 DEF IInv, Nested
    <2>3. CASE q # r /\ q \notin LinesOf(r)
      BY <1>1, <1>4, <1>7, <2>3 DEF IInv, TypeOK, Nested
    <2>4. QED
      BY <2>1, <2>2, <2>3
  <1>11. ASSUME NEW q \in Strands PROVE Asking(q)'
    <2>1. IsWaiting(q)' = IsWaiting(q) /\ got'[q] = got[q] /\ pool' = pool
      BY <1>1 DEF IsWaiting
    <2>2. CASE q \in LinesOf(r) \/ q = r
      <3>1. got[q] = {} /\ ~IsWaiting(q)
        BY <1>3, <1>6, <2>2 DEF IInv, Asking
      <3>2. QED
        BY <2>1, <3>1 DEF Asking
    <2>3. CASE q # r /\ q \notin LinesOf(r)
      <3>1. Busy(q)' = Busy(q) /\ Ahead(q)' = Ahead(q)
        BY <1>1, <1>4, <1>7, <2>3 DEF IInv, TypeOK, Busy, Ahead
      <3>2. QED
        BY <2>1, <3>1 DEF IInv, Asking
    <2>4. QED
      BY <2>2, <2>3
  <1>12. ASSUME NEW q \in Strands PROVE Unlaunched(q)'
    <2>1. CASE q = r
      <3>1. at[r] + 1 \in Positions(program[r], at[r] + 1, "launch")
        BY <1>3 DEF Positions
      <3>2. program'[r] = program[r] /\ at'[r] = at[r] + 1
        BY <1>4, <1>7, <1>9 DEF IInv, TypeOK
      <3>3. QED
        BY <2>1, <3>1, <3>2 DEF Unlaunched
    <2>2. CASE q # r /\ q[2] = Main
      <3>1. \A x \in LinesOf(q) : x \in Strands /\ x \notin LinesOf(r)
        <4>1. q \in Handlers /\ r \in Handlers
          BY <1>5, <2>2, StrandKinds
        <4>2. q[1] # r[1]
          BY <1>5, <2>2, <4>1 DEF Handlers
        <4>3. QED
          BY <4>2, LinesAreStrands
      <3>2. \A x \in LinesOf(q) : program'[x] = program[x]
        BY <1>7, <3>1
      <3>3. q \notin LinesOf(r)
        BY <2>2, LinesAreStrands
      <3>4. program'[q] = program[q] /\ at'[q] = at[q]
        BY <1>4, <1>7, <2>2, <3>3 DEF IInv, TypeOK
      <3>5. QED
        BY <3>2, <3>4 DEF IInv, Unlaunched
    <2>3. QED
      BY <2>1, <2>2 DEF Unlaunched
  <1>13. InLine' /\ NoIdleConnection'
    BY <1>1 DEF IInv, InLine, NoIdleConnection, Free, HeldBy
  <1>14. QED
    BY <1>8, <1>10, <1>11, <1>12, <1>13 DEF IInv

LEMMA JoinStep ==
  ASSUME IInv, NEW r \in Strands, Join(r) \/ JoinFails(r)
  PROVE  IInv'
  <1>1. /\ Busy(r) /\ Ahead(r) = "join"
        /\ UNCHANGED <<pool, program, held, got, waiting>>
    BY DEF Join, JoinFails
  <1>2. ~failed[r] /\ got[r] = {} /\ ~IsWaiting(r)
    BY <1>1 DEF IInv, Asking, Ahead
  <1>3. \/ at' = [at EXCEPT ![r] = at[r] + 1] /\ failed' = failed
        \/ at' = at /\ failed' = [failed EXCEPT ![r] = TRUE]
    BY <1>2 DEF Join, JoinFails, Done
  <1>4. TypeOK'
    <2>1. at \in [Strands -> Nat] /\ failed \in [Strands -> BOOLEAN] /\ at[r] + 1 \in Nat
      BY DEF IInv, TypeOK
    <2>2. at' \in [Strands -> Nat]
      BY <1>3, <2>1
    <2>3. failed' \in [Strands -> BOOLEAN]
      BY <1>3, <2>1
    <2>4. QED
      BY <1>1, <2>2, <2>3 DEF IInv, TypeOK
  <1>5. Nested(r)'
    <2>1. /\ program[r] \in Follows(r)
          /\ at[r] + 1 <= Len(program[r])
          /\ Depth(program[r], at[r] + 1) = Len(held[r])
      BY <1>1, <1>2, Advance DEF IInv
    <2>2. program[r] # <<>>
      BY <1>1, <1>2 DEF IInv, TypeOK, Busy
    <2>3. (at'[r] = at[r] + 1 /\ ~failed'[r]) \/ failed'[r]
      BY <1>2, <1>3 DEF IInv, TypeOK
    <2>4. QED
      BY <1>1, <2>1, <2>2, <2>3 DEF IInv, Nested
  <1>6. \A q \in Strands : Nested(q)'
    BY <1>1, <1>3, <1>5, OthersNested DEF Others, IInv, TypeOK
  <1>7. ASSUME NEW q \in Strands PROVE Asking(q)'
    <2>1. IsWaiting(q)' = IsWaiting(q) /\ got'[q] = got[q] /\ pool' = pool
      BY <1>1 DEF IsWaiting
    <2>2. CASE q = r
      BY <1>2, <2>1, <2>2 DEF Asking
    <2>3. CASE q # r
      <3>1. Busy(q)' = Busy(q) /\ Ahead(q)' = Ahead(q)
        BY <1>1, <1>3, <2>3 DEF IInv, TypeOK, Busy, Ahead
      <3>2. QED
        BY <2>1, <3>1 DEF IInv, Asking
    <2>4. QED
      BY <2>2, <2>3
  <1>8. \A q \in Strands : Unlaunched(q)'
    BY <1>1, <1>3, StillUnlaunched DEF IInv, TypeOK
  <1>9. InLine' /\ NoIdleConnection'
    BY <1>1 DEF IInv, InLine, NoIdleConnection, Free, HeldBy
  <1>10. QED
    BY <1>4, <1>6, <1>7, <1>8, <1>9 DEF IInv

LEMMA IInvStep == IInv /\ [Next]_vars => IInv'
  <1> SUFFICES ASSUME IInv, [Next]_vars PROVE IInv'
    OBVIOUS
  <1>1. ASSUME NEW r \in Requests, Arrive(r) PROVE IInv'
    BY <1>1, ArriveStep
  <1>2. ASSUME NEW r \in Strands, Proceed(r) PROVE IInv'
    BY <1>2, ConnectStep, WaitStep, BeginStep, QueryStep, CommitStep, LaunchStep, JoinStep
       DEF Proceed
  <1>3. ASSUME NEW r \in Strands, Fail(r) PROVE IInv'
    BY <1>3, FailStep
  <1>4. CASE UNCHANGED vars
    <2>1. TypeOK' /\ InLine' /\ \A r \in Strands : Nested(r)'
      BY <1>4 DEF vars, IInv, TypeOK, Nested, InLine
    <2>2. \A r \in Strands : Asking(r)'
      BY <1>4 DEF vars, IInv, Asking, IsWaiting, Busy, Ahead
    <2>3. NoIdleConnection'
      BY <1>4 DEF vars, IInv, NoIdleConnection, Free, HeldBy
    <2>4. \A r \in Strands : Unlaunched(r)'
      BY <1>4, StillUnlaunched DEF vars
    <2>5. QED
      BY <2>1, <2>2, <2>3, <2>4 DEF IInv
  <1>5. QED
    BY <1>1, <1>2, <1>3, <1>4 DEF Next

LEMMA IInvAlways == Spec => []IInv
  BY IInvInit, IInvStep, PTL DEF Spec

-----------------------------------------------------------------------------
(* No connection is used twice.                                            *)

LEMMA OneOwnerInit == Init => OneOwner
  BY DEF Init, OneOwner, HeldBy

\* Giving away a connection that its owner drops leaves every connection with one owner.
LEMMA PassOnOwners ==
  ASSUME IInv, OneOwner, NEW g \in [Strands -> SUBSET pool], NEW C \in SUBSET pool,
         PassOn(C, g),
         \A q \in Strands : HeldBy(q)' \subseteq HeldBy(q) \ C,
         \A q \in Strands : g[q] \subseteq got[q] \ C
  PROVE  /\ \A r, q \in Strands :
              r # q => (HeldBy(r)' \cup got'[r]) \cap (HeldBy(q)' \cup got'[q]) = {}
         /\ \A r \in Strands : HeldBy(r)' \cap got'[r] = {}
  <1>1. /\ \A q \in Strands : got'[q] = g[q] \/ got'[q] = C
        /\ \E h : \A q \in Strands \ {h} : got'[q] = g[q]
    BY PassOnEffect DEF IInv
  <1>2. PICK h : \A q \in Strands \ {h} : got'[q] = g[q]
    BY <1>1
  <1>3. ASSUME NEW r \in Strands, NEW q \in Strands, r # q
        PROVE  (HeldBy(r)' \cup got'[r]) \cap (HeldBy(q)' \cup got'[q]) = {}
    <2>1. (HeldBy(r) \cup got[r]) \cap (HeldBy(q) \cup got[q]) = {}
      BY <1>3 DEF OneOwner
    <2>2. got'[r] = g[r] \/ got'[q] = g[q]
      BY <1>2, <1>3
    <2>3. QED
      BY <1>1, <2>1, <2>2
  <1>4. ASSUME NEW r \in Strands PROVE HeldBy(r)' \cap got'[r] = {}
    BY <1>1 DEF OneOwner
  <1>5. QED
    BY <1>3, <1>4

LEMMA OneOwnerStep == IInv /\ OneOwner /\ [Next]_vars => OneOwner'
  <1> SUFFICES ASSUME IInv, OneOwner, [Next]_vars PROVE OneOwner'
    OBVIOUS
  <1>1. ASSUME held' = held, got' = got PROVE OneOwner'
    <2>1. \A q \in Strands : HeldBy(q)' = HeldBy(q)
      BY <1>1 DEF HeldBy
    <2>2. QED
      BY <1>1, <2>1 DEF OneOwner
  <1>0. ASSUME NEW a \in Requests, Arrive(a) PROVE OneOwner'
    <2>1. held' = held /\ got' = got
      BY <1>0 DEF Arrive
    <2>2. QED
      BY <1>1, <2>1
  <1>2. ASSUME NEW r \in Strands, Wait(r) \/ Launch(r) \/ Join(r) \/ JoinFails(r) PROVE OneOwner'
    <2>1. held' = held /\ got' = got
      BY <1>2 DEF Wait, Launch, Join, JoinFails
    <2>2. QED
      BY <1>1, <2>1
  <1>3. ASSUME NEW r \in Strands, Connect(r) PROVE OneOwner'
    <2> DEFINE c == CHOOSE c \in Free : TRUE
    <2>1. c \in Free
      BY <1>3 DEF Connect
    <2> HIDE DEF c
    <2>2. held' = held /\ got'[r] = {c} /\ \A q \in Strands \ {r} : got'[q] = got[q]
      BY <1>3 DEF Connect, c, IInv, TypeOK
    <2>3. \A q \in Strands : c \notin HeldBy(q) \cup got[q]
      BY <2>1 DEF Free
    <2>4. \A q \in Strands : HeldBy(q)' = HeldBy(q)
      BY <2>2 DEF HeldBy
    <2>5. ASSUME NEW p \in Strands, NEW q \in Strands, p # q
          PROVE  (HeldBy(p)' \cup got'[p]) \cap (HeldBy(q)' \cup got'[q]) = {}
      <3>1. (HeldBy(p) \cup got[p]) \cap (HeldBy(q) \cup got[q]) = {}
        BY <2>5 DEF OneOwner
      <3>2. QED
        BY <2>2, <2>3, <2>4, <2>5, <3>1
    <2>6. ASSUME NEW q \in Strands PROVE HeldBy(q)' \cap got'[q] = {}
      BY <2>2, <2>3, <2>4 DEF OneOwner
    <2>7. QED
      BY <2>2, <2>5, <2>6 DEF OneOwner
  <1>4. ASSUME NEW r \in Strands, Begin(r) PROVE OneOwner'
    <2>1. PICK c \in got[r] : held' = [held EXCEPT ![r] = Append(@, c)]
      BY <1>4 DEF Begin
    <2>2. got' = [got EXCEPT ![r] = {}] /\ c \in pool
      BY <1>4, <2>1 DEF Begin, IInv, TypeOK
    <2>3. /\ held[r] \in Seq(pool)
          /\ held'[r] = Append(held[r], c)
          /\ \A q \in Strands \ {r} : held'[q] = held[q] /\ got'[q] = got[q]
          /\ got'[r] = {}
      BY <2>1, <2>2 DEF IInv, TypeOK
    <2>4. HeldBy(r)' = HeldBy(r) \cup {c}
      <3>1. HeldBy(r) = Elements(held[r]) /\ HeldBy(r)' = Elements(held'[r])
        BY DEF HeldBy, Elements
      <3>2. QED
        BY <2>2, <2>3, <3>1, AppendElements
    <2>5. \A q \in Strands \ {r} : HeldBy(q)' = HeldBy(q)
      BY <2>3 DEF HeldBy
    <2>6. ASSUME NEW p \in Strands, NEW q \in Strands, p # q
          PROVE  (HeldBy(p)' \cup got'[p]) \cap (HeldBy(q)' \cup got'[q]) = {}
      <3>1. \A x \in Strands : HeldBy(x)' \cup got'[x] \subseteq HeldBy(x) \cup got[x]
        BY <2>3, <2>4, <2>5
      <3>2. (HeldBy(p) \cup got[p]) \cap (HeldBy(q) \cup got[q]) = {}
        BY <2>6 DEF OneOwner
      <3>3. QED
        BY <3>1, <3>2
    <2>7. ASSUME NEW q \in Strands PROVE HeldBy(q)' \cap got'[q] = {}
      BY <2>3, <2>5 DEF OneOwner
    <2>8. \A i, j \in 1..Len(held'[r]) : held'[r][i] = held'[r][j] => i = j
      <3>1. c \notin HeldBy(r)
        BY <2>1 DEF OneOwner
      <3>2. \A i, j \in 1..Len(held[r]) : held[r][i] = held[r][j] => i = j
        BY DEF OneOwner
      <3>3. QED
        BY <2>2, <2>3, <3>1, <3>2 DEF HeldBy
    <2>9. QED
      BY <2>3, <2>6, <2>7, <2>8 DEF OneOwner
  <1>5. ASSUME NEW r \in Strands, Query(r) \/ Fail(r) PROVE OneOwner'
    <2> DEFINE g == [got EXCEPT ![r] = {}]
    <2>1. PassOn(got[r], g) /\ held' = held
      BY <1>5 DEF Query, Fail
    <2>2. /\ g \in [Strands -> SUBSET pool]
          /\ got[r] \in SUBSET pool
          /\ g[r] = {}
          /\ \A q \in Strands \ {r} : g[q] = got[q]
      BY DEF IInv, TypeOK
    <2> HIDE DEF g
    <2>3. \A q \in Strands : HeldBy(q)' = HeldBy(q)
      BY <2>1 DEF HeldBy
    <2>4. \A q \in Strands : HeldBy(q)' \subseteq HeldBy(q) \ got[r]
      BY <2>3 DEF OneOwner
    <2>5. \A q \in Strands : g[q] \subseteq got[q] \ got[r]
      BY <2>2 DEF OneOwner
    <2>6. QED
      BY <2>1, <2>2, <2>4, <2>5, PassOnOwners DEF OneOwner
  <1>6. ASSUME NEW r \in Strands, Commit(r) PROVE OneOwner'
    <2> DEFINE s == held[r]
               t == SubSeq(s, 1, Len(s) - 1)
               C == {s[Len(s)]}
    <2>1. s \in Seq(pool) /\ Len(s) \in Nat /\ Len(s) > 0
      <3>1. Busy(r) /\ Ahead(r) = "commit" /\ s \in Seq(pool)
        BY <1>6 DEF Commit, IInv, TypeOK
      <3>2. QED
        BY <3>1, CommitHolds DEF IInv
    <2>2. PassOn(C, got) /\ held'[r] = t /\ \A q \in Strands \ {r} : held'[q] = held[q]
      BY <1>6 DEF Commit, IInv, TypeOK
    <2>3. /\ Len(t) = Len(s) - 1
          /\ \A i \in 1..(Len(s) - 1) : t[i] = s[i]
          /\ C \in SUBSET pool
      BY <2>1, PopElements
    <2> HIDE DEF t
    <2>4. \A i, j \in 1..Len(s) : s[i] = s[j] => i = j
      BY DEF OneOwner
    <2>5. ASSUME NEW q \in Strands PROVE HeldBy(q)' \subseteq HeldBy(q) \ C
      <3>1. CASE q = r
        BY <2>1, <2>2, <2>3, <2>4, <3>1 DEF HeldBy
      <3>2. CASE q # r
        <4>1. HeldBy(q)' = HeldBy(q)
          BY <2>2, <3>2 DEF HeldBy
        <4>2. C \subseteq HeldBy(r)
          BY <2>1 DEF HeldBy
        <4>3. QED
          BY <3>2, <4>1, <4>2 DEF OneOwner
      <3>3. QED
        BY <3>1, <3>2
    <2>6. \A q \in Strands : got[q] \subseteq got[q] \ C
      <3>1. C \subseteq HeldBy(r)
        BY <2>1 DEF HeldBy
      <3>2. QED
        BY <3>1 DEF OneOwner
    <2>7. got \in [Strands -> SUBSET pool]
      BY DEF IInv, TypeOK
    <2> HIDE DEF C
    <2>8. /\ \A p, q \in Strands :
               p # q => (HeldBy(p)' \cup got'[p]) \cap (HeldBy(q)' \cup got'[q]) = {}
          /\ \A q \in Strands : HeldBy(q)' \cap got'[q] = {}
      BY <2>2, <2>3, <2>5, <2>6, <2>7, PassOnOwners
    <2>9. ASSUME NEW q \in Strands
          PROVE  \A i, j \in 1..Len(held'[q]) : held'[q][i] = held'[q][j] => i = j
      <3>1. CASE q = r
        BY <2>1, <2>2, <2>3, <2>4, <3>1
      <3>2. CASE q # r
        BY <2>2, <3>2 DEF OneOwner
      <3>3. QED
        BY <3>1, <3>2
    <2>10. QED
      BY <2>8, <2>9 DEF OneOwner
  <1>7. CASE UNCHANGED vars
    BY <1>1, <1>7 DEF vars
  <1>8. QED
    BY <1>0, <1>2, <1>3, <1>4, <1>5, <1>6, <1>7 DEF Next, Proceed

-----------------------------------------------------------------------------
(* Why a large pool cannot be exhausted.                                   *)

\* When everybody waits, every connection stands in one of the slots <<strand, level>> that
\* transactions may occupy: a pool with more connections than slots would have one left.
LEMMA StuckExhaustsPool == IInv => NoDeadlock
  <1> SUFFICES ASSUME IInv, Stuck, EnoughConnections PROVE FALSE
    BY DEF NoDeadlock
  <1> DEFINE Mains == Handlers \X (1..MaxDepth)
             Parts == LineStrands \X (1..LineDepth)
             Slots == Mains \cup Parts
  <1>0. IsFiniteSet(Handlers) /\ IsFiniteSet(LineStrands)
    <2>1. IsFiniteSet({Main})
      BY FS_Singleton
    <2>2. QED
      BY <2>1, FS_Product, PoolAssumption DEF Handlers
  <1>1. /\ IsFiniteSet(Slots)
        /\ Cardinality(Slots) <= Cardinality(Handlers) * MaxDepth + Cardinality(LineStrands) * LineDepth
    <2>1. /\ IsFiniteSet(1..MaxDepth) /\ Cardinality(1..MaxDepth) = MaxDepth
          /\ IsFiniteSet(1..LineDepth) /\ Cardinality(1..LineDepth) = LineDepth
      BY FS_Interval, PoolAssumption
    <2>2. /\ IsFiniteSet(Mains) /\ Cardinality(Mains) = Cardinality(Handlers) * MaxDepth
      BY <1>0, <2>1, FS_Product
    <2>4. /\ IsFiniteSet(Parts) /\ Cardinality(Parts) = Cardinality(LineStrands) * LineDepth
      BY <1>0, <2>1, FS_Product
    <2> HIDE DEF Mains, Parts
    <2>5. /\ IsFiniteSet(Slots)
          /\ Cardinality(Slots) = Cardinality(Mains) + Cardinality(Parts) - Cardinality(Mains \cap Parts)
      BY <2>2, <2>4, FS_Union
    <2>6. Cardinality(Mains \cap Parts) \in Nat /\ Cardinality(Mains) \in Nat /\ Cardinality(Parts) \in Nat
      BY <2>2, <2>4, FS_Intersection, FS_CardinalityType
    <2>7. Cardinality(Slots) <= Cardinality(Mains) + Cardinality(Parts)
      BY <2>5, <2>6
    <2>8. QED
      BY <2>2, <2>4, <2>5, <2>7
  <1>2. IsFiniteSet(pool)
    BY PoolAssumption DEF IInv, TypeOK
  <1>3. \A r \in Strands : got[r] = {}
    BY DEF IInv, Asking, Stuck, AwaitsLines
  <1>4. ASSUME NEW c \in pool
        PROVE  \E slot \in Slots : held[slot[1]][slot[2]] = c
    <2>1. Free = {}
      BY DEF IInv, Stuck, NoIdleConnection
    <2>2. PICK r \in Strands : c \in HeldBy(r)
      BY <1>3, <2>1 DEF Free
    <2>3. PICK i \in 1..Len(held[r]) : held[r][i] = c
      BY <2>2 DEF HeldBy
    <2>4. Len(held[r]) <= MayOpen(r) /\ Len(held[r]) \in Nat
      BY DEF IInv, Nested, TypeOK
    <2>5. i \in 1..MayOpen(r)
      BY <2>3, <2>4, PoolAssumption DEF MayOpen
    <2>n. <<r, i>> \in Slots
      BY <2>5, StrandKinds DEF MayOpen
    <2>6. QED
      BY <2>3, <2>n
  <1> DEFINE f == [c \in pool |-> CHOOSE slot \in Slots : held[slot[1]][slot[2]] = c]
  <1>5. \A c \in pool : f[c] \in Slots /\ held[f[c][1]][f[c][2]] = c
    BY <1>4
  <1>6. f \in [pool -> Slots]
    BY <1>5
  <1> HIDE DEF f, Slots
  <1>7. Cardinality(Slots) < Cardinality(pool)
    <2>1. /\ Cardinality(Slots) \in Nat
          /\ Cardinality(pool) \in Nat
      BY <1>1, <1>2, FS_CardinalityType
    <2>2. PICK bound \in Int : bound = Cardinality(Handlers) * MaxDepth + Cardinality(LineStrands) * LineDepth
      <3>1. Cardinality(Handlers) \in Nat /\ Cardinality(LineStrands) \in Nat
        BY <1>0, FS_CardinalityType
      <3>2. QED
        BY <3>1, PoolAssumption
    <2>3. QED
      BY <1>1, <2>1, <2>2 DEF EnoughConnections
  <1>8. \E x, y \in pool : x # y /\ f[x] = f[y]
    BY <1>1, <1>2, <1>6, <1>7, FS_PigeonHole
  <1>9. QED
    BY <1>5, <1>8

-----------------------------------------------------------------------------
(* Why everybody comes to an end.  What is left of a strand counts the     *)
(* steps of its program four times, so that asking for a connection,       *)
(* waiting for it and getting it each bring it nearer to the next one.     *)

Served(r) == IF got[r] # {} THEN 2 ELSE IF IsWaiting(r) THEN 1 ELSE 0

Remains(h, l, a, s) == 4 * (l - a) + h - s

Left(r) == IF failed[r] THEN Len(held[r])
           ELSE Remains(Len(held[r]), Len(program[r]), at[r], Served(r))

\* What is left is a number, and nothing is left of a strand just when it is not busy.
LeftCounts == \A r \in Strands : Left(r) \in Nat /\ (Left(r) = 0 <=> ~Busy(r))

\* A step starts a strand or brings one nearer to its end; none that has started is set back or
\* starts again.
NearerTheEnd ==
    /\ \E r \in Strands : (program[r] = <<>> /\ program'[r] # <<>>) \/ Left(r)' < Left(r)
    /\ \A q \in Strands : program[q] # <<>> => program'[q] = program[q] /\ Left(q)' <= Left(q)

\* Some step of r is possible.
Ready(r) == \/ Asks(r)
            \/ got[r] # {} /\ Ahead(r) \in {"begin", "query"}
            \/ Busy(r) /\ Ahead(r) \in {"commit", "launch"}
            \/ Busy(r) /\ Ahead(r) = "join" /\ (LinesEnded(r) \/ LineFailed(r))

SomebodyIsReady ==
    EnoughConnections /\ (\E r \in Strands : Busy(r)) => \E r \in Strands : Busy(r) /\ Ready(r)

LEMMA RemainsIsInt ==
  ASSUME NEW h \in Nat, NEW l \in Nat, NEW a \in Nat, NEW s \in 0..2
  PROVE  Remains(h, l, a, s) \in Int
  BY DEF Remains

LEMMA LeftOfStrand ==
  ASSUME IInv, NEW r \in Strands
  PROVE  /\ Len(held[r]) \in Nat /\ Len(program[r]) \in Nat /\ at[r] \in Nat
         /\ Served(r) \in 0..2
         /\ Served(r) # 0 => Busy(r) /\ ~failed[r]
         /\ Left(r) \in Int
  <1>1. Len(held[r]) \in Nat /\ Len(program[r]) \in Nat /\ at[r] \in Nat
    BY DEF IInv, TypeOK
  <1>2. Served(r) \in 0..2
    BY DEF Served
  <1>3. Served(r) # 0 => Busy(r) /\ ~failed[r]
    BY DEF IInv, Asking, Served, Ahead
  <1>4. Left(r) \in Int
    <2>1. Remains(Len(held[r]), Len(program[r]), at[r], Served(r)) \in Int
      BY Zenon, <1>1, <1>2, RemainsIsInt
    <2>2. QED
      BY <1>1, <2>1 DEF Left
  <1>5. QED
    BY <1>1, <1>2, <1>3, <1>4

LEMMA LeftIsCounted == IInv => LeftCounts
  <1> SUFFICES ASSUME IInv, NEW r \in Strands PROVE Left(r) \in Nat /\ (Left(r) = 0 <=> ~Busy(r))
    BY DEF LeftCounts
  <1>1. /\ Len(held[r]) \in Nat /\ Len(program[r]) \in Nat /\ at[r] \in Nat
        /\ Served(r) \in 0..2
        /\ Served(r) # 0 => Busy(r)
    BY LeftOfStrand
  <1>2. CASE failed[r]
    <2>1. held[r] = <<>> <=> Len(held[r]) = 0
      BY EmptySeq DEF IInv, TypeOK
    <2>2. QED
      BY <1>1, <1>2, <2>1 DEF Left, Busy
  <1>3. CASE ~failed[r]
    <2>1. /\ at[r] <= Len(program[r]) /\ (Busy(r) <=> at[r] < Len(program[r]))
          /\ program[r] \in Follows(r) \cup {<<>>} /\ Len(held[r]) = Depth(program[r], at[r])
      BY <1>1, <1>3 DEF IInv, Nested, Busy
    <2>2. at[r] = Len(program[r]) => Len(held[r]) = 0
      BY <2>1, DepthStart, FollowsNests
    <2>3. Left(r) = Remains(Len(held[r]), Len(program[r]), at[r], Served(r))
      BY <1>3 DEF Left
    <2>4. \/ at[r] < Len(program[r])
          \/ ~(at[r] < Len(program[r])) /\ at[r] = Len(program[r]) /\ Len(held[r]) = 0 /\ Served(r) = 0
      BY <1>1, <2>1, <2>2
    <2>5. /\ Remains(Len(held[r]), Len(program[r]), at[r], Served(r)) \in Nat
          /\ Remains(Len(held[r]), Len(program[r]), at[r], Served(r)) = 0 <=> ~(at[r] < Len(program[r]))
      <3>1. PICK h \in Nat, l \in Nat, a \in Nat, s \in 0..2 :
              h = Len(held[r]) /\ l = Len(program[r]) /\ a = at[r] /\ s = Served(r)
        BY <1>1
      <3>2. a < l \/ (~(a < l) /\ a = l /\ h = 0 /\ s = 0)
        BY <2>4, <3>1
      <3>3. Remains(h, l, a, s) \in Nat /\ (Remains(h, l, a, s) = 0 <=> ~(a < l))
        BY <3>2 DEF Remains
      <3>4. QED
        BY <3>1, <3>3
    <2>6. QED
      BY <2>1, <2>3, <2>5
  <1>4. QED
    BY <1>2, <1>3

\* Whoever leaves the queue has been given the connection.
LEMMA PassOnServes ==
  ASSUME IInv, NEW r \in Strands, ~IsWaiting(r), NEW g \in [Strands -> SUBSET pool],
         NEW C \in SUBSET pool, C # {}, PassOn(C, g), \A q \in Strands \ {r} : g[q] = got[q]
  PROVE  \A q \in Strands \ {r} : Served(q) <= Served(q)'
  <1> SUFFICES ASSUME NEW q \in Strands \ {r} PROVE Served(q) <= Served(q)'
    OBVIOUS
  <1>1. IsWaiting(q) => IsWaiting(q)' \/ got'[q] = C
    <2> SUFFICES ASSUME IsWaiting(q) PROVE IsWaiting(q)' \/ got'[q] = C
      OBVIOUS
    <2>1. PICK i \in 1..Len(waiting) : waiting[i] = q
      BY DEF IsWaiting
    <2>2. waiting \in Seq(Strands) /\ waiting # <<>> /\ waiting[1] = Head(waiting)
      BY <2>1 DEF IInv, TypeOK
    <2>3. got' = [g EXCEPT ![Head(waiting)] = C] /\ waiting' = Tail(waiting)
      BY <2>2 DEF PassOn
    <2>4. CASE i = 1
      BY <2>1, <2>2, <2>3, <2>4
    <2>5. CASE i # 1
      <3>1. /\ Len(Tail(waiting)) = Len(waiting) - 1
            /\ \A j \in 1..Len(Tail(waiting)) : Tail(waiting)[j] = waiting[j + 1]
        BY <2>2, HeadTailProperties
      <3>2. Len(waiting) \in Nat
        BY <2>2
      <3>3. i - 1 \in 1..Len(waiting') /\ waiting'[i - 1] = q
        BY <2>1, <2>3, <2>5, <3>1, <3>2
      <3>4. QED
        BY <3>3 DEF IsWaiting
    <2>6. QED
      BY <2>4, <2>5
  <1>2. got'[q] = got[q] \/ (IsWaiting(q) /\ got'[q] = C)
    BY PassOnEffect DEF IInv
  <1>3. IsWaiting(q) => got[q] = {}
    BY DEF IInv, Asking
  <1>4. QED
    BY <1>1, <1>2, <1>3 DEF Served

LEMMA OthersComeNearer ==
  ASSUME IInv, IInv', NEW r \in Strands, Others(r), \A q \in Strands \ {r} : Served(q) <= Served(q)'
  PROVE  \A q \in Strands \ {r} : Left(q)' <= Left(q)
  <1> SUFFICES ASSUME NEW q \in Strands \ {r} PROVE Left(q)' <= Left(q)
    OBVIOUS
  <1>1. /\ Len(held[q]) \in Nat /\ Len(program[q]) \in Nat /\ at[q] \in Nat
        /\ Served(q) \in 0..2
    BY LeftOfStrand
  <1>2. Served(q)' \in 0..2
    BY DEF Served
  <1>3. at'[q] = at[q] /\ failed'[q] = failed[q] /\ program'[q] = program[q] /\ held'[q] = held[q]
    BY DEF Others
  <1>4. Served(q) <= Served(q)'
    OBVIOUS
  <1>5. /\ Left(q) = IF failed[q] THEN Len(held[q])
                    ELSE Remains(Len(held[q]), Len(program[q]), at[q], Served(q))
        /\ Left(q)' = IF failed[q] THEN Len(held[q])
                     ELSE Remains(Len(held[q]), Len(program[q]), at[q], Served(q)')
    BY <1>3 DEF Left
  <1>6. /\ Len(held[q]) <= Len(held[q])
        /\ Remains(Len(held[q]), Len(program[q]), at[q], Served(q)')
             <= Remains(Len(held[q]), Len(program[q]), at[q], Served(q))
    <2>1. PICK h \in Nat, l \in Nat, a \in Nat, s \in 0..2, t \in 0..2 :
            h = Len(held[q]) /\ l = Len(program[q]) /\ a = at[q] /\ s = Served(q) /\ t = Served(q)'
      BY <1>1, <1>2
    <2>2. s <= t
      BY <1>4, <2>1
    <2>3. h <= h /\ Remains(h, l, a, t) <= Remains(h, l, a, s)
      BY <2>2 DEF Remains
    <2>4. QED
      BY <2>1, <2>3
  <1>7. QED
    BY <1>5, <1>6

LEMMA ProgressOfSteps ==
  ASSUME IInv, IInv', NEW r \in Strands, Proceed(r) \/ Fail(r)
  PROVE  /\ Left(r)' < Left(r)
         /\ \A q \in Strands \ {r} : program[q] # <<>> => Left(q)' <= Left(q)
         /\ \A q \in Strands : program[q] # <<>> => program'[q] = program[q]
  <1>0. /\ Len(held[r]) \in Nat /\ Len(program[r]) \in Nat /\ at[r] \in Nat
        /\ Served(r) \in 0..2 /\ Served(r)' \in 0..2
        /\ Served(r) # 0 => Busy(r) /\ ~failed[r]
        /\ ~failed[r] => (Busy(r) <=> at[r] < Len(program[r]))
        /\ at \in [Strands -> Nat] /\ failed \in [Strands -> BOOLEAN]
        /\ got \in [Strands -> SUBSET pool] /\ held \in [Strands -> Seq(pool)]
        /\ got[r] # {} => Served(r) = 2 /\ ~IsWaiting(r)
        /\ got[r] \in SUBSET pool
    <2>1. Served(r)' \in 0..2
      BY DEF Served
    <2>2. QED
      BY <2>1, LeftOfStrand DEF Busy, IInv, TypeOK, Served, Asking
  <1>n. PICK h \in Nat, l \in Nat, a \in Nat, s \in 0..2, t \in 0..2 :
         h = Len(held[r]) /\ l = Len(program[r]) /\ a = at[r] /\ s = Served(r) /\ t = Served(r)'
    BY <1>0
  <1>1. CASE Connect(r) \/ Wait(r)
    <2>1. UNCHANGED <<program, at, failed, held>> /\ Asks(r)
      BY <1>1 DEF Connect, Wait
    <2>2. Served(r) = 0 /\ ~failed[r]
      BY <2>1 DEF Asks, Served, Ahead
    <2>3. Served(r)' # 0 /\ \A q \in Strands \ {r} : Served(q) <= Served(q)'
      <3>1. CASE Connect(r)
        <4>1. PICK c : got' = [got EXCEPT ![r] = {c}] /\ waiting' = waiting
          BY <3>1 DEF Connect
        <4>2. got'[r] # {} /\ \A q \in Strands \ {r} : got'[q] = got[q]
          BY <1>0, <4>1
        <4>3. QED
          BY <4>1, <4>2 DEF Served, IsWaiting
      <3>2. CASE Wait(r)
        <4>1. waiting' = Append(waiting, r) /\ got' = got /\ waiting \in Seq(Strands)
          BY <3>2 DEF Wait, IInv, TypeOK
        <4>2. PICK n \in Nat : n = Len(waiting)
          BY <4>1
        <4>3. Len(waiting') = n + 1 /\ waiting'[n + 1] = r /\ \A i \in 1..n : waiting'[i] = waiting[i]
          BY <4>1, <4>2
        <4>4. n + 1 \in 1..(n + 1) /\ \A i \in 1..n : i \in 1..(n + 1)
          OBVIOUS
        <4>5. IsWaiting(r)' /\ \A q \in Strands \ {r} : IsWaiting(q) => IsWaiting(q)'
          BY Zenon, <4>2, <4>3, <4>4 DEF IsWaiting
        <4>6. QED
          BY <4>1, <4>5 DEF Served
      <3>3. QED
        BY <1>1, <3>1, <3>2
    <2>4. Left(r)' < Left(r)
      <3>1. /\ Left(r) = Remains(h, l, a, s)
            /\ Left(r)' = Remains(h, l, a, t)
        BY <1>n, <2>1, <2>2 DEF Left
      <3>2. s = 0 /\ t # 0
        BY <1>n, <2>2, <2>3
      <3>3. Remains(h, l, a, t) < Remains(h, l, a, s)
        BY <3>2 DEF Remains
      <3>4. QED
        BY <3>1, <3>3
    <2>5. QED
      BY <2>1, <2>3, <2>4, OthersComeNearer DEF Others
  <1>2. CASE Begin(r)
    <2>1. PICK c \in got[r] : held' = [held EXCEPT ![r] = Append(@, c)]
      BY <1>2 DEF Begin
    <2>2. /\ got[r] # {} /\ got' = [got EXCEPT ![r] = {}] /\ UNCHANGED <<program, failed, waiting>>
          /\ at' = [at EXCEPT ![r] = IF failed[r] THEN @ ELSE @ + 1]
      BY <1>2 DEF Begin, Done
    <2>3. Len(held'[r]) = Len(held[r]) + 1
      BY <1>0, <2>1, AppendElements
    <2>4. at'[r] = at[r] + 1 /\ ~failed[r] /\ Served(r) = 2 /\ failed'[r] = failed[r]
      BY <1>0, <2>2
    <2>5. Left(r)' < Left(r)
      <3>1. /\ Left(r) = Remains(h, l, a, s)
            /\ Left(r)' = Remains(h + 1, l, a + 1, t)
        BY <1>n, <2>2, <2>3, <2>4 DEF Left
      <3>2. Remains(h + 1, l, a + 1, t) < Remains(h, l, a, s)
        BY DEF Remains
      <3>3. QED
        BY <3>1, <3>2
    <2>6. Others(r) /\ \A q \in Strands \ {r} : Served(q) <= Served(q)'
      BY <1>0, <2>1, <2>2 DEF Others, Served, IsWaiting
    <2>7. QED
      BY <2>2, <2>5, <2>6, OthersComeNearer
  <1>3. CASE Query(r) \/ Fail(r)
    <2>1. PICK g : g = [got EXCEPT ![r] = {}]
      OBVIOUS
    <2>2. /\ g \in [Strands -> SUBSET pool] /\ \A q \in Strands \ {r} : g[q] = got[q]
          /\ got[r] # {} /\ PassOn(got[r], g)
      BY <1>0, <1>3, <2>1 DEF Query, Fail
    <2>3. \A q \in Strands \ {r} : Served(q) <= Served(q)'
      BY <1>0, <2>2, PassOnServes
    <2>4. /\ UNCHANGED <<program, held>>
          /\ \/ failed' = failed /\ at' = [at EXCEPT ![r] = IF failed[r] THEN @ ELSE @ + 1]
             \/ at' = at /\ failed' = [failed EXCEPT ![r] = TRUE]
      BY <1>3 DEF Query, Fail, Done
    <2>5. Others(r)
      BY <1>0, <2>4 DEF Others
    <2>6. \/ at'[r] = at[r] + 1 /\ ~failed'[r]
          \/ failed'[r]
      BY <1>0, <2>2, <2>4
    <2>7. Left(r) = Remains(h, l, a, s) /\ a < l
      BY <1>n, <1>0, <2>2 DEF Left
    <2>8. Left(r)' < Left(r)
      <3>1. \/ Left(r)' = Remains(h, l, a + 1, t)
            \/ Left(r)' = h
        BY <1>n, <2>4, <2>6 DEF Left
      <3>2. Remains(h, l, a + 1, t) < Remains(h, l, a, s) /\ h < Remains(h, l, a, s)
        BY <2>7 DEF Remains
      <3>3. QED
        BY <2>7, <3>1, <3>2
    <2>9. QED
      BY <2>3, <2>4, <2>5, <2>8, OthersComeNearer
  <1>4. CASE Commit(r)
    <2>1. PICK C : C = {held[r][Len(held[r])]}
      OBVIOUS
    <2>2. /\ Busy(r) /\ Ahead(r) = "commit" /\ PassOn(C, got)
          /\ held' = [held EXCEPT ![r] = SubSeq(@, 1, Len(@) - 1)]
          /\ at' = [at EXCEPT ![r] = IF failed[r] THEN @ ELSE @ + 1]
          /\ UNCHANGED <<program, failed>>
      BY <1>4, <2>1 DEF Commit, Done
    <2>3. got[r] = {} /\ ~IsWaiting(r)
      BY <2>2 DEF IInv, Asking
    <2>4. Len(held[r]) > 0
      BY <2>2, CommitHolds DEF IInv
    <2>5. Len(held'[r]) = Len(held[r]) - 1 /\ held[r][Len(held[r])] \in pool
      BY <1>0, <2>2, <2>4, PopElements
    <2>6. \A q \in Strands \ {r} : Served(q) <= Served(q)'
      BY <1>0, <2>1, <2>2, <2>3, <2>5, PassOnServes
    <2>7. Served(r) = 0
      BY <2>3 DEF Served
    <2>8. Left(r)' < Left(r)
      <3>1. CASE failed[r]
        <4>1. Left(r) = h /\ Left(r)' = h - 1
          BY <1>n, <2>2, <2>5, <3>1 DEF Left
        <4>2. h - 1 < h
          OBVIOUS
        <4>3. QED
          BY <4>1, <4>2
      <3>2. CASE ~failed[r]
        <4>1. at'[r] = at[r] + 1
          BY <1>0, <2>2, <3>2
        <4>2. /\ Left(r) = Remains(h, l, a, s)
              /\ Left(r)' = Remains(h - 1, l, a + 1, t)
          BY <1>n, <2>2, <2>5, <3>2, <4>1 DEF Left
        <4>3. Remains(h - 1, l, a + 1, t) < Remains(h, l, a, s)
          BY DEF Remains
        <4>4. QED
          BY <4>2, <4>3
      <3>3. QED
        BY <3>1, <3>2
    <2>9. Others(r)
      BY <1>0, <2>2 DEF Others
    <2>10. QED
      BY <2>2, <2>6, <2>8, <2>9, OthersComeNearer
  <1>5. CASE Join(r) \/ JoinFails(r)
    <2>1. /\ Busy(r) /\ Ahead(r) = "join"
          /\ UNCHANGED <<program, held, got, waiting>>
      BY <1>5 DEF Join, JoinFails
    <2>2. ~failed[r] /\ Served(r) = 0 /\ a < l
      BY <1>n, <1>0, <2>1 DEF IInv, Asking, Ahead, Served
    <2>3. \A q \in Strands : Served(q)' = Served(q)
      BY <2>1 DEF Served, IsWaiting
    <2>4. \/ at' = [at EXCEPT ![r] = at[r] + 1] /\ failed' = failed
          \/ at' = at /\ failed' = [failed EXCEPT ![r] = TRUE]
      BY <1>5, <2>2 DEF Join, JoinFails, Done
    <2>5. \A q \in Strands \ {r} : Left(q)' = Left(q)
      BY <1>0, <2>1, <2>3, <2>4 DEF Left
    <2>6. \A q \in Strands \ {r} : Left(q) <= Left(q)
      BY LeftOfStrand
    <2>7. Left(r) = Remains(h, l, a, s) /\ s = 0 /\ t = 0
      BY <1>n, <2>2, <2>3 DEF Left
    <2>8. (at'[r] = at[r] + 1 /\ ~failed'[r]) \/ failed'[r]
      BY <1>0, <2>2, <2>4
    <2>9. Left(r)' = Remains(h, l, a + 1, t) \/ Left(r)' = h
      BY <1>n, <2>1, <2>8 DEF Left
    <2>10. Remains(h, l, a + 1, t) < Remains(h, l, a, s) /\ h < Remains(h, l, a, s)
      BY <2>2, <2>7 DEF Remains
    <2>11. QED
      BY <2>1, <2>5, <2>6, <2>7, <2>9, <2>10
  <1>6. CASE Launch(r)
    <2>1. /\ Busy(r) /\ Ahead(r) = "launch"
          /\ UNCHANGED <<failed, held, got, waiting>>
      BY <1>6 DEF Launch
    <2>2. ~failed[r] /\ Served(r) = 0 /\ a < l
      BY <1>n, <1>0, <2>1 DEF IInv, Asking, Ahead, Served
    <2>3. \A q \in Strands : Served(q)' = Served(q)
      BY <2>1 DEF Served, IsWaiting
    <2>4. at' = [at EXCEPT ![r] = at[r] + 1]
      BY <1>6, <2>2 DEF Launch, Done
    <2>5. /\ r \notin LinesOf(r)
          /\ \A q \in LinesOf(r) : program[q] = <<>>
          /\ \A q \in Strands \ LinesOf(r) : program'[q] = program[q]
      BY <1>6, LaunchStarts
    <2>6. ASSUME NEW q \in Strands \ {r}, program[q] # <<>>
          PROVE  program'[q] = program[q] /\ Left(q)' <= Left(q)
      <3>1. program'[q] = program[q]
        BY <2>5, <2>6
      <3>2. Left(q)' = Left(q)
        BY <1>0, <2>1, <2>3, <2>4, <3>1 DEF Left
      <3>3. Left(q) <= Left(q)
        BY LeftOfStrand
      <3>4. QED
        BY <3>1, <3>2, <3>3
    <2>7. program'[r] = program[r] /\ at'[r] = at[r] + 1 /\ held'[r] = held[r]
      BY <1>0, <2>1, <2>4, <2>5
    <2>8. Left(r) = Remains(h, l, a, s) /\ Left(r)' = Remains(h, l, a + 1, t) /\ s = 0 /\ t = 0
      BY <1>n, <2>1, <2>2, <2>3, <2>7 DEF Left
    <2>9. Remains(h, l, a + 1, t) < Remains(h, l, a, s)
      BY <2>8 DEF Remains
    <2>10. QED
      BY <2>6, <2>7, <2>8, <2>9
  <1>7. QED
    BY <1>1, <1>2, <1>3, <1>4, <1>5, <1>6 DEF Proceed

LEMMA NearerStep == IInv /\ [Next]_vars => [NearerTheEnd]_vars
  <1> SUFFICES ASSUME IInv, Next, ~UNCHANGED vars PROVE NearerTheEnd
    OBVIOUS
  <1>0. IInv'
    BY IInvStep
  <1>1. ASSUME NEW a \in Requests, Arrive(a) PROVE NearerTheEnd
    <2>1. PICK r \in Strands : r = <<a, Main>>
      BY DEF Strands, Handlers
    <2>2. PICK p \in Programs : program' = [program EXCEPT ![r] = p]
      BY <1>1, <2>1 DEF Arrive
    <2>3. program[r] = <<>> /\ UNCHANGED <<pool, at, failed, held, got, waiting>>
      BY <1>1, <2>1 DEF Arrive
    <2>4. program'[r] # <<>>
      <3> SUFFICES ASSUME program'[r] = <<>> PROVE FALSE
        OBVIOUS
      <3>1. program \in [Strands -> Seq(Steps)]
        BY DEF IInv, TypeOK
      <3>2. p = <<>>
        BY <2>2, <3>1
      <3>3. program' = program
        BY <2>2, <2>3, <3>1, <3>2
      <3>4. QED
        BY <2>3, <3>3 DEF vars
    <2>5. ASSUME NEW q \in Strands, program[q] # <<>>
          PROVE  program'[q] = program[q] /\ Left(q)' <= Left(q)
      <3>1. program'[q] = program[q]
        BY <2>2, <2>3, <2>5 DEF IInv, TypeOK
      <3>2. Served(q)' = Served(q)
        BY <2>3 DEF Served, IsWaiting
      <3>3. Left(q)' = Left(q)
        BY <2>3, <3>1, <3>2 DEF Left
      <3>4. Left(q) <= Left(q)
        BY LeftOfStrand
      <3>5. QED
        BY <3>1, <3>3, <3>4
    <2>6. QED
      BY <2>3, <2>4, <2>5 DEF NearerTheEnd
  <1>2. ASSUME NEW r \in Strands, Proceed(r) \/ Fail(r) PROVE NearerTheEnd
    <2>1. /\ Left(r)' < Left(r)
          /\ \A q \in Strands \ {r} : program[q] # <<>> => Left(q)' <= Left(q)
          /\ \A q \in Strands : program[q] # <<>> => program'[q] = program[q]
      BY <1>0, <1>2, ProgressOfSteps
    <2>2. Left(r)' <= Left(r)
      <3>1. Left(r) \in Int
        BY LeftOfStrand
      <3>2. Left(r)' \in Int
        <4>1. Len(held'[r]) \in Nat /\ Len(program'[r]) \in Nat /\ at'[r] \in Nat
          BY <1>0 DEF IInv, TypeOK
        <4>2. Served(r)' \in 0..2
          BY DEF Served
        <4>3. Remains(Len(held'[r]), Len(program'[r]), at'[r], Served(r)') \in Int
          BY Zenon, <4>1, <4>2, RemainsIsInt
        <4>4. Left(r)' = IF failed'[r] THEN Len(held'[r])
                         ELSE Remains(Len(held'[r]), Len(program'[r]), at'[r], Served(r)')
          BY DEF Left
        <4>5. QED
          BY <4>1, <4>3, <4>4
      <3>3. QED
        BY <2>1, <3>1, <3>2
    <2>3. QED
      BY <2>1, <2>2 DEF NearerTheEnd
  <1>3. QED
    BY <1>1, <1>2 DEF Next

LEMMA BusyIsReady ==
  ASSUME IInv, NEW r \in Strands, Busy(r), ~IsWaiting(r), ~AwaitsLines(r)
  PROVE  Ready(r)
  <1>1. Ahead(r) \in Steps
    <2>1. CASE failed[r]
      BY <2>1 DEF Ahead, Steps, LineSteps
    <2>2. CASE ~failed[r]
      BY <2>2, Advance DEF IInv
    <2>3. QED
      BY <2>1, <2>2
  <1>2. QED
    BY <1>1 DEF Ready, Asks, Steps, LineSteps, AwaitsLines

LEMMA SomebodyReady == IInv => SomebodyIsReady
  <1> SUFFICES ASSUME IInv, EnoughConnections, NEW r \in Strands, Busy(r)
               PROVE  \E q \in Strands : Busy(q) /\ Ready(q)
    BY DEF SomebodyIsReady
  <1>1. CASE waiting = <<>>
    <2>1. \A q \in Strands : ~IsWaiting(q)
      BY <1>1 DEF IsWaiting
    <2>2. CASE ~AwaitsLines(r)
      BY <2>1, <2>2, BusyIsReady
    <2>3. CASE AwaitsLines(r)
      <3>1. PICK q \in LinesOf(r) : Busy(q)
        BY <2>3 DEF AwaitsLines, LinesEnded
      <3>2. q \in Strands /\ q[2] # Main
        BY LinesAreStrands
      <3>3. Ahead(q) # "join"
        <4>1. CASE failed[q]
          BY <4>1 DEF Ahead
        <4>2. CASE ~failed[q]
          BY <3>1, <3>2, <4>2, Advance DEF IInv, LineSteps
        <4>3. QED
          BY <4>1, <4>2
      <3>4. ~AwaitsLines(q)
        BY <3>3 DEF AwaitsLines
      <3>5. QED
        BY <2>1, <3>1, <3>2, <3>4, BusyIsReady
    <2>4. QED
      BY <2>2, <2>3
  <1>2. CASE waiting # <<>>
    <2>1. PICK q \in Strands : Busy(q) /\ ~IsWaiting(q) /\ ~AwaitsLines(q)
      BY <1>2, StuckExhaustsPool DEF NoDeadlock, Stuck
    <2>2. QED
      BY <2>1, BusyIsReady
  <1>3. QED
    BY <1>1, <1>2

-----------------------------------------------------------------------------
(* The theorems.                                                           *)

\* The pool and the strands' stacks always have their types.
THEOREM TypeCorrect == Spec => []TypeOK
  <1>1. IInv => TypeOK
    BY DEF IInv
  <1>2. QED
    BY <1>1, IInvAlways, PTL

\* A connection never serves two transactions or queries at a time.
THEOREM NoSharedConnection == Spec => []OneOwner
  BY IInvAlways, OneOwnerInit, OneOwnerStep, PTL DEF Spec

\* No strand waits while a connection lies idle in the pool.
THEOREM NoLostWakeUp == Spec => []NoIdleConnection
  <1>1. IInv => NoIdleConnection
    BY DEF IInv
  <1>2. QED
    BY <1>1, IInvAlways, PTL

\* Nested and parallel transactions cannot bring the server to a halt if the pool is larger than all
\* those that the requests in flight and the lines of their forms may have open: for every request
\* the depth its handler nests, and for every line of its form the depth that a line nests.
THEOREM LargePoolsDoNotDeadlock == Spec => []NoDeadlock
  BY StuckExhaustsPool, IInvAlways, PTL

\* No step sets a strand back, waiting and failing included, and every step brings one nearer to its
\* end or starts one, each of which starts only once: a busy server cannot run in circles.
THEOREM StepsLeadToTheEnd == Spec => []LeftCounts /\ [][NearerTheEnd]_vars
  BY LeftIsCounted, NearerStep, IInvAlways, PTL DEF Spec

\* In a large enough pool, as long as a handler or a line is under way, one of those under way can
\* take its next step: nobody waits for lines that all wait themselves.
THEOREM LargePoolsGoOn == Spec => []SomebodyIsReady
  BY SomebodyReady, IInvAlways, PTL

=============================================================================
