---------------------------- MODULE RecordsProofs ----------------------------
(***************************************************************************)
(* Records for any rows, any number of requests and every shape.           *)
(***************************************************************************)
EXTENDS Records, TLAPS

Places == {"idle", "children", "shown", "lookUp", "select", "write", "written", "refused"}
AllKinds == {"create", "update", "delete", "status"}

\* Every module has no statuses, or those of a booking.
LEMMA ModuleTransitions ==
    \A m \in Modules : m.transitions \in {NoStatus, BookingTransitions}
BY SMTT(60) DEF Modules, Module, Plain, AppointmentTransitions

LEMMA ShapeTransitions ==
    ASSUME shape \in Shapes
    PROVE  shape.transitions \in {NoStatus, BookingTransitions}
<1>1. PICK m \in Modules : shape \in {Shape(m, f) : f \in m.fields}
  BY DEF Shapes
<1>2. PICK f \in m.fields : shape = Shape(m, f)
  BY <1>1
<1>3. shape.transitions = m.transitions
  BY <1>2 DEF Shape
<1> QED BY <1>3, ModuleTransitions

\* The type of what a status mutation or a form gives.
LEMMA StatusTypes ==
    ASSUME shape \in Shapes
    PROVE  /\ First \in Statuses
           /\ shape.transitions # NoStatus =>
                {"PENDING", "CONFIRMED", "COMPLETED", "CANCELLED"} \subseteq Statuses
<1>1. CASE shape.transitions = NoStatus
  <2>1. Statuses = {"none"}
    BY <1>1 DEF Statuses, NoStatus
  <2>2. First = "none"
    BY <2>1 DEF First
  <2> QED BY <1>1, <2>1, <2>2
<1>2. CASE shape.transitions = BookingTransitions
  <2>1. Statuses = {"PENDING", "CONFIRMED", "RESCHEDULED", "COMPLETED", "CANCELLED"}
    BY <1>2 DEF Statuses, BookingTransitions
  <2>2. First = "PENDING"
    BY <2>1 DEF First
  <2> QED BY <2>1, <2>2
<1> QED BY <1>1, <1>2, ShapeTransitions

\* A mutation's row, and what it gives its columns.
LEMMA MutationParts ==
    ASSUME shape \in Shapes, NEW kinds \in SUBSET AllKinds, NEW o \in Mutations(kinds)
    PROVE  /\ o.kind \in kinds
           /\ o.row \in Rows
           /\ o.refs \in (SUBSET Rows) \cup {Keep}
           /\ o.status \in Statuses \cup {Keep}
           /\ o.status # Keep => \/ o.kind \in {"create", "status"}
                                 \/ o.kind = "update" /\ shape.statusForm
<1>1. PICK k \in kinds, x \in Rows : o \in MutationsOf(k, x)
  BY DEF Mutations
<1>2. /\ o.kind = k /\ o.row = x
      /\ o.refs \in Assignments(k, x) /\ o.status \in StatusAssignments(k, x)
  BY <1>1 DEF MutationsOf
<1>3. Assignments(k, x) \subseteq (SUBSET Rows) \cup {Keep}
  <2>1. Others(x) \subseteq Rows
    BY DEF Others, Rows
  <2>2. Performers(x) \subseteq SUBSET Rows
    BY <2>1 DEF Performers
  <2>3. Values(x) \subseteq SUBSET Rows
    BY <2>1, <2>2 DEF Values
  <2>4. \/ Assignments(k, x) = {Keep}
        \/ Assignments(k, x) = Performers(x)
        \/ Assignments(k, x) = (Performers(x) \ {{}}) \cup {Keep}
        \/ Assignments(k, x) = Values(x)
        \/ Assignments(k, x) = Values(x) \cup {Keep}
    BY DEF Assignments
  <2> QED BY <2>2, <2>3, <2>4
<1>4. \/ StatusAssignments(k, x) = {Keep}
      \/ /\ StatusAssignments(k, x) = {"PENDING", "CONFIRMED", "COMPLETED", "CANCELLED"}
         /\ k = "status" /\ shape.transitions # NoStatus
      \/ /\ StatusAssignments(k, x) = Statuses
         /\ k \in {"create", "update"} /\ shape.statusForm
  BY DEF StatusAssignments
<1>5. StatusAssignments(k, x) \subseteq Statuses \cup {Keep}
  BY <1>4, StatusTypes
<1> QED BY <1>2, <1>3, <1>4, <1>5

-----------------------------------------------------------------------------
(* The invariant.                                                          *)

RowTable == [Rows -> Row \cup {Absent}]
Operations == {[kind |-> "none"], [kind |-> "query"]} \cup Mutations(AllKinds)

Typed == /\ shape \in Shapes
         /\ rows \in RowTable
         /\ at \in [Requests -> Places]
         /\ op \in [Requests -> Operations]
         /\ copied \in [Requests -> SUBSET (Parents \X SUBSET Rows)]
         /\ shown \in [Requests -> SUBSET (Parents \X Children)]
         /\ failed \in [Requests -> BOOLEAN]
         /\ moments \in [Requests -> SUBSET RowTable]
         /\ base \in [Requests -> Row \cup {Absent}]
         /\ model \in [Requests -> Row \cup {Absent}]
         /\ image \in [Requests -> Row \cup {Absent}]

\* A key refers to a row.
KeysHold == \A x \in Rows : Exists(rows, x) /\ HasColumn(x) /\ shape.key =>
                \A y \in rows[x].refs : Exists(rows, y)

\* A mutation under way carries a copy that is one step of the form away from the row it loaded.
Carries(r) ==
    at[r] \in {"lookUp", "select", "write"} =>
        /\ op[r] \in Mutations(AllKinds)
        /\ model[r] \in Row
        /\ op[r].kind # "create" =>
             /\ Exists(rows, op[r].row)
             /\ base[r] \in Row
             /\ model[r].live => base[r].live
             /\ op[r].status = Keep => model[r].status = base[r].status
             /\ op[r].status # Keep => model[r].status = op[r].status
             /\ MayChange(base[r], op[r])
             /\ at[r] = "write" => image[r] \in Row
        /\ at[r] = "select" => op[r].kind # "create"

\* A query under way has seen the rows it copied, and the tables as they are are the last it saw.
Looks(r) ==
    /\ at[r] \in {"idle", "children"} => shown[r] = {}
    /\ at[r] = "idle" => copied[r] = {}
    /\ at[r] = "children" =>
         /\ rows \in moments[r]
         /\ \A pair \in copied[r] : \E m \in moments[r] :
              Live(m, pair[1]) /\ pair[2] = m[pair[1]].refs

\* ShownWasThere for one query.
Faithful(r) ==
    at[r] = "shown" =>
        /\ \A pair \in shown[r] :
             /\ \E m \in moments[r] : Live(m, pair[1])
             /\ \E m \in moments[r] : Live(m, pair[2])
             /\ \E m \in moments[r] : Related(m, pair[1], pair[2])
        /\ ~failed[r] /\ shape.reads = "each" =>
             \A pair \in copied[r], c \in Children :
                 (\A m \in moments[r] : Live(m, c) /\ Related(m, pair[1], c)) => <<pair[1], c>> \in shown[r]

IInv == /\ Typed
        /\ KeysHold
        /\ \A r \in Requests : Carries(r) /\ Looks(r) /\ Faithful(r)

-----------------------------------------------------------------------------

LEMMA BlankRow == shape \in Shapes => Blank \in Row
BY StatusTypes DEF Blank, Row

LEMMA RowsExist ==
    ASSUME shape \in Shapes, NEW row \in Row
    PROVE  row # Absent
BY RecordsAssumption DEF Row, Statuses

LEMMA AssignedRow ==
    ASSUME shape \in Shapes, NEW row \in Row, NEW o \in Mutations(AllKinds)
    PROVE  /\ Assigned(row, o) \in Row
           /\ Assigned(row, o).live => row.live
           /\ Assigned(row, o).status = IF o.status = Keep THEN row.status ELSE o.status
<1>1. o.refs \in (SUBSET Rows) \cup {Keep} /\ o.status \in Statuses \cup {Keep}
  BY MutationParts
<1>3. row.live \in BOOLEAN /\ row.refs \in SUBSET Rows /\ row.status \in Statuses
  BY DEF Row
<1> QED BY <1>1, <1>3 DEF Assigned, Row

LEMMA SavedRow ==
    ASSUME shape \in Shapes, NEW copy \in Row, NEW read \in Row, NEW row \in Row
    PROVE  /\ Saved(copy, read, row) \in Row
           /\ Saved(copy, read, row).live = IF copy.live # read.live THEN copy.live ELSE row.live
           /\ Saved(copy, read, row).status = IF copy.status # read.status THEN copy.status ELSE row.status
BY DEF Saved, Row

LEMMA InitInv == Init => IInv
<1> SUFFICES ASSUME Init PROVE IInv
  OBVIOUS
<1>1. PICK p \in Parents, c \in Children, new \in Rows :
        /\ new \notin {p, c}
        /\ rows = [x \in Rows |->
              IF x = new THEN Absent
              ELSE IF HasColumn(x) /\ (shape.form \/ shape.stamp # "none")
                   THEN [Blank EXCEPT !.refs = {IF x \in Parents THEN c ELSE p}]
                   ELSE Blank]
  BY DEF Init
<1>2. shape \in Shapes
  BY DEF Init
<1>3. \A refs \in SUBSET Rows : [Blank EXCEPT !.refs = refs] \in Row
  BY <1>2, BlankRow DEF Row, Blank
<1>4. rows \in RowTable
  BY <1>1, <1>2, <1>3, BlankRow DEF RowTable, Rows
<1>5. Typed
  BY <1>2, <1>4 DEF Init, Typed, Places, Operations
<1>6. KeysHold
  <2> SUFFICES ASSUME NEW x \in Rows, Exists(rows, x), NEW y \in rows[x].refs
               PROVE  Exists(rows, y)
    BY DEF KeysHold
  <2>1. y \in {p, c}
    BY <1>1 DEF Exists, Blank
  <2>2. rows[y] \in Row
    BY <1>1, <1>2, <1>3, <2>1, BlankRow DEF Rows
  <2> QED BY <1>2, <2>2, RowsExist DEF Exists
<1>7. \A r \in Requests : Carries(r) /\ Looks(r) /\ Faithful(r)
  BY DEF Init, Carries, Looks, Faithful
<1> QED BY <1>5, <1>6, <1>7 DEF IInv

-----------------------------------------------------------------------------
(* What a step leaves alone.                                               *)

LEMMA SameShape ==
    ASSUME shape' = shape
    PROVE  /\ Statuses' = Statuses
           /\ Row' = Row
           /\ RowTable' = RowTable
           /\ \A x : HasColumn(x)' <=> HasColumn(x)
           /\ \A m, p, c : Related(m, p, c)' <=> Related(m, p, c)
           /\ \A row, o : MayChange(row, o)' <=> MayChange(row, o)
<1>1. Statuses' = Statuses
  BY DEF Statuses
<1>2. Row' = Row
  BY <1>1 DEF Row
<1>3. RowTable' = RowTable
  BY <1>2 DEF RowTable
<1>4. \A x : HasColumn(x)' <=> HasColumn(x)
  BY DEF HasColumn
<1>5. \A m, p, c : Related(m, p, c)' <=> Related(m, p, c)
  BY DEF Related
<1>6. \A row, o : MayChange(row, o)' <=> MayChange(row, o)
  BY DEF MayChange
<1> QED BY <1>1, <1>2, <1>3, <1>4, <1>5, <1>6

LEMMA SameMutations ==
    ASSUME shape' = shape
    PROVE  /\ Mutations(AllKinds)' = Mutations(AllKinds)
           /\ Operations' = Operations
<1>1. \A k, x : Assignments(k, x)' = Assignments(k, x)
  BY DEF Assignments, HasColumn, Values, Performers, Others
<1>2. \A k, x : StatusAssignments(k, x)' = StatusAssignments(k, x)
  BY DEF StatusAssignments, Statuses
<1>3. \A k, x : MutationsOf(k, x)' = MutationsOf(k, x)
  BY <1>1, <1>2 DEF MutationsOf
<1>4. Mutations(AllKinds)' = Mutations(AllKinds)
  BY <1>3 DEF Mutations
<1> QED BY <1>4 DEF Operations

\* Rows never vanish: deletion is a column.
Grows == \A x \in Rows : Exists(rows, x) => Exists(rows, x)'

LEMMA MutationRow ==
    ASSUME shape \in Shapes, NEW o \in Mutations(AllKinds)
    PROVE  o.row \in Rows
BY MutationParts

LEMMA CarriesOn ==
    ASSUME shape \in Shapes, NEW q \in Requests, Carries(q), Grows,
           UNCHANGED <<shape, at[q], op[q], base[q], model[q], image[q]>>
    PROVE  Carries(q)'
BY SameShape, SameMutations, MutationRow DEF Carries, Grows

LEMMA LooksOn ==
    ASSUME NEW q \in Requests, Looks(q),
           UNCHANGED <<rows, at[q], copied[q], shown[q], moments[q]>>
    PROVE  Looks(q)'
BY DEF Looks

LEMMA FaithfulOn ==
    ASSUME NEW q \in Requests, Faithful(q),
           UNCHANGED <<shape, at[q], copied[q], shown[q], failed[q], moments[q]>>
    PROVE  Faithful(q)'
BY SameShape DEF Faithful

-----------------------------------------------------------------------------
(* The steps of queries.                                                   *)

\* When a request's step leaves the tables alone, only its own part of the invariant is at stake.
LEMMA OwnStep ==
    ASSUME IInv, Typed', UNCHANGED <<shape, rows>>, NEW r \in Requests,
           \A q \in Requests \ {r} :
               UNCHANGED <<at[q], op[q], copied[q], shown[q], failed[q], moments[q],
                           base[q], model[q], image[q]>>,
           Carries(r)', Looks(r)', Faithful(r)'
    PROVE  IInv'
<1>1. KeysHold'
  BY SameShape DEF IInv, KeysHold, Exists
<1>2. ASSUME NEW q \in Requests \ {r}
      PROVE  Carries(q)' /\ Looks(q)' /\ Faithful(q)'
  <2>1. Grows
    BY DEF Grows, Exists
  <2> QED BY <1>2, <2>1, CarriesOn, LooksOn, FaithfulOn DEF IInv, Typed
<1> QED BY <1>1, <1>2 DEF IInv

LEMMA LiveRow ==
    ASSUME Typed, NEW x \in Rows, Live(rows, x)
    PROVE  rows[x] \in Row
BY DEF Typed, RowTable, Live, Exists

LEMMA ReadParentsStep ==
    ASSUME IInv, NEW r \in Requests, ReadParents(r)
    PROVE  IInv'
<1>1. PICK ps \in SUBSET {p \in Parents : Live(rows, p)} :
        copied' = [copied EXCEPT ![r] = {<<p, rows[p].refs>> : p \in ps}]
  BY DEF ReadParents
<1>2. \A p \in ps : p \in Parents /\ Live(rows, p) /\ rows[p].refs \in SUBSET Rows
  BY LiveRow DEF IInv, Rows, Row
<1>3. copied'[r] = {<<p, rows[p].refs>> : p \in ps}
  BY <1>1 DEF IInv, Typed
<1>4. copied'[r] \in SUBSET (Parents \X SUBSET Rows)
  BY <1>2, <1>3
<1>5. Typed'
  <2>1. shape' = shape
    BY DEF ReadParents
  <2>2. copied' \in [Requests -> SUBSET (Parents \X SUBSET Rows)]
    BY <1>1, <1>3, <1>4 DEF IInv, Typed
  <2>3. at' \in [Requests -> Places] /\ op' \in [Requests -> Operations]
    BY DEF ReadParents, IInv, Typed, Places, Operations
  <2>4. moments' \in [Requests -> SUBSET RowTable]
    BY DEF ReadParents, IInv, Typed
  <2> QED BY <2>1, <2>2, <2>3, <2>4, SameShape, SameMutations DEF ReadParents, saving, IInv, Typed
<1>6. at'[r] = "children" /\ shown'[r] = {} /\ moments'[r] = {rows} /\ rows' = rows
  BY DEF ReadParents, IInv, Typed, Looks
<1>7. Looks(r)'
  BY <1>2, <1>3, <1>6 DEF Looks
<1>8. Carries(r)' /\ Faithful(r)'
  BY <1>6 DEF Carries, Faithful
<1>9. UNCHANGED <<shape, rows>>
  BY DEF ReadParents
<1>10. \A q \in Requests \ {r} :
               UNCHANGED <<at[q], op[q], copied[q], shown[q], failed[q], moments[q],
                           base[q], model[q], image[q]>>
  BY DEF ReadParents, saving, IInv, Typed
<1> QED BY <1>5, <1>7, <1>8, <1>9, <1>10, OwnStep

LEMMA FailReadStep ==
    ASSUME IInv, NEW r \in Requests, FailRead(r)
    PROVE  IInv'
<1>1. UNCHANGED <<shape, rows, copied, shown, moments, base, model, image>>
  BY DEF FailRead, saving
<1>2. Typed'
  <2>1. at' \in [Requests -> Places] /\ op' \in [Requests -> Operations]
        /\ failed' \in [Requests -> BOOLEAN]
    BY DEF FailRead, IInv, Typed, Places, Operations
  <2> QED BY <1>1, <2>1, SameShape, SameMutations DEF IInv, Typed
<1>3. at'[r] = "shown" /\ shown'[r] = {} /\ failed'[r]
  BY DEF FailRead, IInv, Typed, Looks
<1>4. Carries(r)' /\ Looks(r)' /\ Faithful(r)'
  BY <1>3 DEF Carries, Looks, Faithful
<1>5. \A q \in Requests \ {r} :
               UNCHANGED <<at[q], op[q], copied[q], shown[q], failed[q], moments[q],
                           base[q], model[q], image[q]>>
  BY <1>1 DEF FailRead, IInv, Typed
<1> QED BY <1>1, <1>2, <1>4, <1>5, OwnStep

\* The heart of it: what the batch finds was there, and it finds all that was there.
LEMMA FoundWasThere ==
    ASSUME IInv, NEW r \in Requests, at[r] = "children", NEW pair \in copied[r]
    PROVE  /\ \A c \in Found(r, pair) :
                /\ \E m \in moments[r] : Live(m, pair[1])
                /\ \E m \in moments[r] : Live(m, c)
                /\ \E m \in moments[r] : Related(m, pair[1], c)
           /\ \A c \in Children :
                (\A m \in moments[r] : Live(m, c) /\ Related(m, pair[1], c)) => c \in Found(r, pair)
<1>1. rows \in moments[r]
  BY DEF IInv, Looks
<1>2. PICK m0 \in moments[r] : Live(m0, pair[1]) /\ pair[2] = m0[pair[1]].refs
  BY DEF IInv, Looks
<1>3. ASSUME NEW c \in Found(r, pair)
      PROVE  \E m \in moments[r] : Related(m, pair[1], c)
  <2>1. CASE shape.by = "id"
    BY <1>2, <1>3, <2>1 DEF Found, Related, Live
  <2>2. CASE shape.by # "id"
    BY <1>1, <1>3, <2>2 DEF Found, Related, Live
  <2> QED BY <2>1, <2>2
<1>4. \A c \in Found(r, pair) : Live(rows, c)
  BY DEF Found
<1>5. ASSUME NEW c \in Children, \A m \in moments[r] : Live(m, c) /\ Related(m, pair[1], c)
      PROVE  c \in Found(r, pair)
  <2>1. CASE shape.by = "id"
    BY <1>1, <1>2, <1>5, <2>1 DEF Found, Related, BatchKeys
  <2>2. CASE shape.by # "id"
    BY <1>1, <1>5, <2>2 DEF Found, Related, BatchKeys
  <2> QED BY <2>1, <2>2
<1> QED BY <1>1, <1>2, <1>3, <1>4, <1>5

LEMMA ReadingsFound ==
    ASSUME NEW r \in Requests, NEW pair \in copied[r], NEW cs \in Readings(r, pair)
    PROVE  /\ cs \subseteq Found(r, pair)
           /\ shape.reads = "each" => cs = Found(r, pair)
BY DEF Readings

LEMMA ReadChildrenStep ==
    ASSUME IInv, NEW r \in Requests, ReadChildren(r)
    PROVE  IInv'
<1>1. PICK seen \in [copied[r] -> SUBSET Children] :
         /\ \A pair \in copied[r] : seen[pair] \in Readings(r, pair)
         /\ shown' = [shown EXCEPT ![r] = UNION {{pair[1]} \X seen[pair] : pair \in copied[r]}]
  BY DEF ReadChildren
<1>2. UNCHANGED <<shape, rows, op, copied, failed, moments, base, model, image>>
      /\ at[r] = "children" /\ at' = [at EXCEPT ![r] = "shown"]
  BY DEF ReadChildren, saving
<1>3. copied[r] \in SUBSET (Parents \X SUBSET Rows)
  BY DEF IInv, Typed
<1>4. shown'[r] = UNION {{pair[1]} \X seen[pair] : pair \in copied[r]}
  BY <1>1 DEF IInv, Typed
<1>5. \A x \in shown'[r] : \E pair \in copied[r] :
          x[1] = pair[1] /\ x[2] \in seen[pair] /\ x = <<x[1], x[2]>>
  BY <1>4
<1>6. shown'[r] \in SUBSET (Parents \X Children)
  BY <1>1, <1>3, <1>4
<1>7. Typed'
  <2>1. at' \in [Requests -> Places]
    BY <1>2 DEF IInv, Typed, Places
  <2>2. shown' \in [Requests -> SUBSET (Parents \X Children)]
    BY <1>1, <1>4, <1>6 DEF IInv, Typed
  <2> QED BY <1>2, <2>1, <2>2, SameShape, SameMutations DEF IInv, Typed
<1>8. at'[r] = "shown"
  BY <1>2 DEF IInv, Typed
<1>9. Faithful(r)'
  <2>1. \A x \in shown'[r] :
             /\ \E m \in moments[r] : Live(m, x[1])
             /\ \E m \in moments[r] : Live(m, x[2])
             /\ \E m \in moments[r] : Related(m, x[1], x[2])
    <3> TAKE x \in shown'[r]
    <3>1. PICK pair \in copied[r] : x[1] = pair[1] /\ x[2] \in seen[pair]
      BY <1>5
    <3>2. x[2] \in Found(r, pair)
      BY <1>1, <3>1, ReadingsFound
    <3> QED BY <1>2, <3>1, <3>2, FoundWasThere
  <2>2. ASSUME shape.reads = "each", NEW pair \in copied[r], NEW c \in Children,
               \A m \in moments[r] : Live(m, c) /\ Related(m, pair[1], c)
        PROVE  <<pair[1], c>> \in shown'[r]
    <3>1. c \in Found(r, pair)
      BY <1>2, <2>2, FoundWasThere
    <3>2. c \in seen[pair]
      BY <1>1, <2>2, <3>1, ReadingsFound
    <3> QED BY <1>4, <3>2
  <2> QED BY <1>2, <1>8, <2>1, <2>2, SameShape DEF Faithful
<1>10. Carries(r)' /\ Looks(r)'
  BY <1>8 DEF Carries, Looks
<1>11. \A q \in Requests \ {r} :
               UNCHANGED <<at[q], op[q], copied[q], shown[q], failed[q], moments[q],
                           base[q], model[q], image[q]>>
  BY <1>1, <1>2 DEF IInv, Typed
<1> QED BY <1>2, <1>7, <1>9, <1>10, <1>11, OwnStep

-----------------------------------------------------------------------------
(* The steps of mutations.                                                 *)

LEMMA MoreKinds ==
    ASSUME NEW kinds \in SUBSET AllKinds, NEW o \in Mutations(kinds)
    PROVE  o \in Mutations(AllKinds)
BY DEF Mutations

LEMMA RefuseStep ==
    ASSUME IInv, NEW r \in Requests, Refuse(r)
    PROVE  IInv'
<1>1. UNCHANGED <<shape, rows, copied, shown, failed, moments>>
  BY DEF Refuse, reading
<1>2. Typed'
  <2>1. at' \in [Requests -> Places] /\ op' \in [Requests -> Operations]
    BY DEF Refuse, Forget, IInv, Typed, Places, Operations
  <2>2. /\ base' \in [Requests -> Row \cup {Absent}]
        /\ model' \in [Requests -> Row \cup {Absent}]
        /\ image' \in [Requests -> Row \cup {Absent}]
    BY DEF Refuse, Forget, IInv, Typed
  <2> QED BY <1>1, <2>1, <2>2, SameShape, SameMutations DEF IInv, Typed
<1>3. at'[r] = "refused"
  BY DEF Refuse, IInv, Typed
<1>4. Carries(r)' /\ Looks(r)' /\ Faithful(r)'
  BY <1>3 DEF Carries, Looks, Faithful
<1>5. \A q \in Requests \ {r} :
               UNCHANGED <<at[q], op[q], copied[q], shown[q], failed[q], moments[q],
                           base[q], model[q], image[q]>>
  BY <1>1 DEF Refuse, Forget, IInv, Typed
<1> QED BY <1>1, <1>2, <1>4, <1>5, OwnStep

LEMMA CreateStep ==
    ASSUME IInv, NEW r \in Requests, Create(r)
    PROVE  IInv'
<1>1. PICK o \in Mutations({"create"}) :
         /\ op' = [op EXCEPT ![r] = o]
         /\ model' = [model EXCEPT ![r] = Assigned(Blank, o)]
         /\ at' = [at EXCEPT ![r] = Then(o, "write")]
  BY DEF Create
<1>2. UNCHANGED <<shape, rows, copied, shown, failed, moments, base, image>>
  BY DEF Create, reading
<1>3. o.kind = "create" /\ o \in Mutations(AllKinds)
  <2>1. {"create"} \in SUBSET AllKinds
    BY DEF AllKinds
  <2> QED BY <2>1, MutationParts, MoreKinds DEF IInv, Typed
<1>4. Assigned(Blank, o) \in Row
  BY <1>3, AssignedRow, BlankRow DEF IInv, Typed
<1>5. Then(o, "write") \in {"lookUp", "write"}
  BY DEF Then
<1>6. Typed'
  <2>1. at' \in [Requests -> Places]
    BY <1>1, <1>5 DEF IInv, Typed, Places
  <2>2. op' \in [Requests -> Operations]
    BY <1>1, <1>3 DEF IInv, Typed, Operations
  <2>3. model' \in [Requests -> Row \cup {Absent}]
    BY <1>1, <1>4 DEF IInv, Typed
  <2> QED BY <1>2, <2>1, <2>2, <2>3, SameShape, SameMutations DEF IInv, Typed
<1>7. at'[r] \in {"lookUp", "write"} /\ op'[r] = o /\ model'[r] \in Row
  BY <1>1, <1>4, <1>5 DEF IInv, Typed
<1>8. Carries(r)'
  BY <1>2, <1>3, <1>7, SameShape, SameMutations DEF Carries
<1>9. Looks(r)' /\ Faithful(r)'
  BY <1>7 DEF Looks, Faithful
<1>10. \A q \in Requests \ {r} :
               UNCHANGED <<at[q], op[q], copied[q], shown[q], failed[q], moments[q],
                           base[q], model[q], image[q]>>
  BY <1>1, <1>2 DEF IInv, Typed
<1> QED BY <1>2, <1>6, <1>8, <1>9, <1>10, OwnStep

LEMMA LoadStep ==
    ASSUME IInv, NEW r \in Requests, Load(r)
    PROVE  IInv'
<1>1. PICK o \in Mutations({"update", "delete", "status"}) :
         /\ Live(rows, o.row)
         /\ MayChange(rows[o.row], o)
         /\ op' = [op EXCEPT ![r] = o]
         /\ base' = [base EXCEPT ![r] = rows[o.row]]
         /\ model' = [model EXCEPT ![r] = Assigned(rows[o.row], o)]
         /\ at' = [at EXCEPT ![r] = Then(o, "select")]
  BY DEF Load
<1>2. UNCHANGED <<shape, rows, copied, shown, failed, moments, image>>
  BY DEF Load, reading
<1>3. o.kind # "create" /\ o \in Mutations(AllKinds) /\ o.row \in Rows
  <2>1. {"update", "delete", "status"} \in SUBSET AllKinds
    BY DEF AllKinds
  <2>2. o.kind \in {"update", "delete", "status"} /\ o.row \in Rows
    BY <2>1, MutationParts DEF IInv, Typed
  <2> QED BY <2>1, <2>2, MoreKinds
<1>4. rows[o.row] \in Row
  BY <1>1, <1>3, LiveRow DEF IInv
<1>5. /\ Assigned(rows[o.row], o) \in Row
      /\ Assigned(rows[o.row], o).live => rows[o.row].live
      /\ Assigned(rows[o.row], o).status = IF o.status = Keep THEN rows[o.row].status ELSE o.status
  BY <1>3, <1>4, AssignedRow DEF IInv, Typed
<1>6. Then(o, "select") \in {"lookUp", "select"}
  BY DEF Then
<1>7. Typed'
  <2>1. at' \in [Requests -> Places]
    BY <1>1, <1>6 DEF IInv, Typed, Places
  <2>2. op' \in [Requests -> Operations]
    BY <1>1, <1>3 DEF IInv, Typed, Operations
  <2>3. /\ model' \in [Requests -> Row \cup {Absent}]
        /\ base' \in [Requests -> Row \cup {Absent}]
    BY <1>1, <1>4, <1>5 DEF IInv, Typed
  <2> QED BY <1>2, <2>1, <2>2, <2>3, SameShape, SameMutations DEF IInv, Typed
<1>8. /\ at'[r] \in {"lookUp", "select"} /\ op'[r] = o
      /\ base'[r] = rows[o.row] /\ model'[r] = Assigned(rows[o.row], o)
  BY <1>1, <1>6 DEF IInv, Typed
<1>9. Carries(r)'
  BY <1>1, <1>2, <1>3, <1>4, <1>5, <1>8, SameShape, SameMutations DEF Carries, Exists, Live
<1>10. Looks(r)' /\ Faithful(r)'
  BY <1>8 DEF Looks, Faithful
<1>11. \A q \in Requests \ {r} :
               UNCHANGED <<at[q], op[q], copied[q], shown[q], failed[q], moments[q],
                           base[q], model[q], image[q]>>
  BY <1>1, <1>2 DEF IInv, Typed
<1> QED BY <1>2, <1>7, <1>9, <1>10, <1>11, OwnStep

LEMMA LookUpStep ==
    ASSUME IInv, NEW r \in Requests, LookUp(r)
    PROVE  IInv'
<1>1. PICK found \in {{x \in model[r].refs : Live(rows, x)}, {}} :
         model' = [model EXCEPT ![r].refs = found]
  BY DEF LookUp
<1>2. /\ UNCHANGED <<shape, rows, op, copied, shown, failed, moments, base, image>>
      /\ at[r] = "lookUp"
      /\ at' = [at EXCEPT ![r] = IF op[r].kind = "create" THEN "write" ELSE "select"]
  BY DEF LookUp, reading
<1>3. Carries(r) /\ model[r] \in Row
  BY <1>2 DEF IInv, Carries
<1>4. found \in SUBSET Rows
  BY <1>1, <1>3 DEF Row
<1>5. /\ model'[r] \in Row
      /\ model'[r].live = model[r].live /\ model'[r].status = model[r].status
  BY <1>1, <1>3, <1>4 DEF IInv, Typed, Row
<1>6. at'[r] = IF op[r].kind = "create" THEN "write" ELSE "select"
  BY <1>2 DEF IInv, Typed
<1>7. Typed'
  <2>1. at' \in [Requests -> Places]
    BY <1>2 DEF IInv, Typed, Places
  <2>2. model' \in [Requests -> Row \cup {Absent}]
    <3>1. \A q \in Requests \ {r} : model'[q] = model[q]
      BY <1>1 DEF IInv, Typed
    <3>2. model' = [q \in Requests |-> model'[q]]
      BY <1>1 DEF IInv, Typed
    <3>3. \A q \in Requests : model'[q] \in Row \cup {Absent}
      BY <1>5, <3>1 DEF IInv, Typed
    <3> QED BY <3>2, <3>3
  <2> QED BY <1>2, <2>1, <2>2, SameShape, SameMutations DEF IInv, Typed
<1>8. Carries(r)'
  BY <1>2, <1>3, <1>5, <1>6, SameShape, SameMutations DEF Carries, Exists
<1>9. Looks(r)' /\ Faithful(r)'
  BY <1>6 DEF Looks, Faithful
<1>10. \A q \in Requests \ {r} :
               UNCHANGED <<at[q], op[q], copied[q], shown[q], failed[q], moments[q],
                           base[q], model[q], image[q]>>
  BY <1>1, <1>2 DEF IInv, Typed
<1> QED BY <1>2, <1>7, <1>8, <1>9, <1>10, OwnStep

LEMMA SelectStep ==
    ASSUME IInv, NEW r \in Requests, Select(r)
    PROVE  IInv'
<1>1. /\ UNCHANGED <<shape, rows, op, copied, shown, failed, moments, base, model>>
      /\ at[r] = "select" /\ at' = [at EXCEPT ![r] = "write"]
      /\ image' = [image EXCEPT ![r] = rows[op[r].row]]
  BY DEF Select, reading
<1>2. Carries(r) /\ op[r] \in Mutations(AllKinds) /\ op[r].kind # "create" /\ Exists(rows, op[r].row)
  BY <1>1 DEF IInv, Carries
<1>3. rows[op[r].row] \in Row
  BY <1>2, MutationRow DEF IInv, Typed, RowTable, Exists
<1>4. at'[r] = "write" /\ image'[r] \in Row
  BY <1>1, <1>3 DEF IInv, Typed
<1>5. Typed'
  <2>1. at' \in [Requests -> Places]
    BY <1>1 DEF IInv, Typed, Places
  <2>2. image' \in [Requests -> Row \cup {Absent}]
    BY <1>1, <1>3 DEF IInv, Typed
  <2> QED BY <1>1, <2>1, <2>2, SameShape, SameMutations DEF IInv, Typed
<1>6. Carries(r)'
  BY <1>1, <1>2, <1>4, SameShape, SameMutations DEF Carries, Exists
<1>7. Looks(r)' /\ Faithful(r)'
  BY <1>4 DEF Looks, Faithful
<1>8. \A q \in Requests \ {r} :
               UNCHANGED <<at[q], op[q], copied[q], shown[q], failed[q], moments[q],
                           base[q], model[q], image[q]>>
  BY <1>1 DEF IInv, Typed
<1> QED BY <1>1, <1>5, <1>6, <1>7, <1>8, OwnStep

\* What a Write does to the tables.
LEMMA Written ==
    ASSUME IInv, NEW r \in Requests, Write(r)
    PROVE  /\ op[r] \in Mutations(AllKinds)
           /\ op[r].row \in Rows
           /\ \E new \in Row :
                /\ rows' = [rows EXCEPT ![op[r].row] = new]
                /\ Accepted(op[r].row, new)
                /\ op[r].kind = "create" => ~Exists(rows, op[r].row)
                /\ op[r].kind # "create" =>
                     /\ rows[op[r].row] \in Row
                     /\ new = Saved(model[r], image[r], rows[op[r].row])
<1>1. at[r] = "write" /\ Carries(r)
  BY DEF Write, IInv
<1>2. op[r] \in Mutations(AllKinds) /\ model[r] \in Row
  BY <1>1 DEF Carries
<1>3. op[r].row \in Rows
  BY <1>2, MutationRow DEF IInv, Typed
<1>4. op[r].kind # "create" => rows[op[r].row] \in Row /\ image[r] \in Row
  BY <1>1, <1>3 DEF Carries, Exists, IInv, Typed, RowTable
<1>5. CASE op[r].kind = "create"
  BY <1>2, <1>3, <1>5 DEF Write
<1>6. CASE op[r].kind # "create"
  <2>1. Saved(model[r], image[r], rows[op[r].row]) \in Row
    BY <1>2, <1>4, <1>6, SavedRow DEF IInv, Typed
  <2> QED BY <1>2, <1>3, <1>4, <1>6, <2>1 DEF Write
<1> QED BY <1>5, <1>6

LEMMA WriteStep ==
    ASSUME IInv, NEW r \in Requests, Write(r)
    PROVE  IInv'
<1> DEFINE x == op[r].row
<1>1. PICK new \in Row : rows' = [rows EXCEPT ![x] = new] /\ Accepted(x, new)
  BY Written
<1>2. x \in Rows
  BY Written
<1>3. /\ UNCHANGED <<shape, copied, shown, failed>>
      /\ at[r] = "write" /\ at' = [at EXCEPT ![r] = "written"]
      /\ moments' = [q \in Requests |-> IF at[q] = "children" THEN moments[q] \cup {rows'} ELSE moments[q]]
  BY DEF Write, reading
<1>4. rows' \in RowTable
  BY <1>1, <1>2 DEF IInv, Typed, RowTable
<1>5. \A y \in Rows \ {x} : rows'[y] = rows[y]
  BY <1>1, <1>2 DEF IInv, Typed, RowTable
<1>6. rows'[x] = new /\ new # Absent
  BY <1>1, <1>2, RowsExist DEF IInv, Typed, RowTable
<1>7. Grows
  BY <1>2, <1>5, <1>6 DEF Grows, Exists
<1>8. Typed'
  <2>1. at' \in [Requests -> Places]
    BY <1>3 DEF IInv, Typed, Places
  <2>2. op' \in [Requests -> Operations]
    BY DEF Write, Forget, IInv, Typed, Operations
  <2>3. moments' \in [Requests -> SUBSET RowTable]
    BY <1>3, <1>4 DEF IInv, Typed
  <2>4. /\ base' \in [Requests -> Row \cup {Absent}]
        /\ model' \in [Requests -> Row \cup {Absent}]
        /\ image' \in [Requests -> Row \cup {Absent}]
    BY DEF Write, Forget, IInv, Typed
  <2> QED BY <1>3, <1>4, <2>1, <2>2, <2>3, <2>4, SameShape, SameMutations DEF IInv, Typed
<1>9. KeysHold'
  <2> SUFFICES ASSUME NEW z \in Rows, Exists(rows', z), HasColumn(z), shape.key, NEW y \in rows'[z].refs
               PROVE  Exists(rows', y)
    BY <1>3, SameShape DEF KeysHold, Exists
  <2>1. CASE z = x
    <3>1. Exists(rows, y) /\ y \in Rows
      BY <1>1, <1>6, <2>1 DEF Accepted, Row
    <3> QED BY <1>7, <3>1 DEF Grows, Exists
  <2>2. CASE z # x
    <3>1. rows[z] \in Row /\ y \in rows[z].refs
      BY <1>5, <2>2 DEF Exists, IInv, Typed, RowTable
    <3>2. Exists(rows, y) /\ y \in Rows
      BY <3>1, RowsExist DEF IInv, KeysHold, Exists, Row, Typed
    <3> QED BY <1>7, <3>2 DEF Grows, Exists
  <2> QED BY <2>1, <2>2
<1>10. at'[r] = "written"
  BY <1>3 DEF IInv, Typed
<1>11. Carries(r)' /\ Looks(r)' /\ Faithful(r)'
  BY <1>10 DEF Carries, Looks, Faithful
<1>12. ASSUME NEW q \in Requests \ {r}
       PROVE  Carries(q)' /\ Looks(q)' /\ Faithful(q)'
  <2>1. UNCHANGED <<at[q], op[q], copied[q], shown[q], failed[q], base[q], model[q], image[q]>>
    BY <1>3 DEF Write, Forget, IInv, Typed
  <2>2. Carries(q)'
    BY <1>3, <1>7, <2>1, CarriesOn DEF IInv, Typed
  <2>3. Looks(q)'
    <3>1. CASE at[q] = "children"
      <4>1. moments'[q] = moments[q] \cup {rows'}
        BY <1>3, <3>1
      <4> QED BY <2>1, <3>1, <4>1 DEF Looks, IInv
    <3>2. CASE at[q] # "children"
      BY <2>1, <3>2 DEF Looks, IInv
    <3> QED BY <3>1, <3>2
  <2>4. Faithful(q)'
    <3>1. CASE at[q] = "shown"
      <4>1. moments'[q] = moments[q]
        BY <1>3, <3>1
      <4> QED BY <1>3, <2>1, <4>1, FaithfulOn DEF IInv
    <3>2. CASE at[q] # "shown"
      BY <2>1, <3>2 DEF Faithful
    <3> QED BY <3>1, <3>2
  <2> QED BY <2>2, <2>3, <2>4
<1> QED BY <1>8, <1>9, <1>11, <1>12 DEF IInv

-----------------------------------------------------------------------------
(* The theorems.                                                           *)

LEMMA StepInv == IInv /\ [Next]_vars => IInv'
<1> SUFFICES ASSUME IInv, [Next]_vars PROVE IInv'
  OBVIOUS
<1>1. ASSUME NEW r \in Requests,
             \/ ReadParents(r) \/ ReadChildren(r) \/ FailRead(r)
             \/ Refuse(r) \/ Create(r) \/ Load(r) \/ LookUp(r) \/ Select(r) \/ Write(r)
      PROVE  IInv'
  BY <1>1, ReadParentsStep, ReadChildrenStep, FailReadStep, RefuseStep, CreateStep, LoadStep,
     LookUpStep, SelectStep, WriteStep
<1>2. CASE UNCHANGED vars
  <2>1. UNCHANGED <<shape, rows, at, op, copied, shown, failed, moments, base, model, image>>
    BY <1>2 DEF vars, reading, saving
  <2>2. Typed'
    BY <2>1, SameShape, SameMutations DEF IInv, Typed
  <2>3. KeysHold'
    BY <2>1, SameShape DEF IInv, KeysHold, Exists
  <2>4. ASSUME NEW q \in Requests
        PROVE  Carries(q)' /\ Looks(q)' /\ Faithful(q)'
    <3>1. Grows
      BY <2>1 DEF Grows, Exists
    <3> QED BY <2>1, <2>4, <3>1, CarriesOn, LooksOn, FaithfulOn DEF IInv, Typed
  <2> QED BY <2>2, <2>3, <2>4 DEF IInv
<1> QED BY <1>1, <1>2 DEF Next

LEMMA IInvAlways == Spec => []IInv
  BY InitInv, StepInv, PTL DEF Spec

\* Rows, copies and queries always have their types, a required column is never null and a key
\* never refers to a row that is not there.
THEOREM TypeCorrect == Spec => []TypeOK
<1>1. IInv => TypeOK
  <2> SUFFICES ASSUME IInv PROVE TypeOK
    OBVIOUS
  <2>1. \A r \in Requests : op[r].kind \in Kinds
    <3> TAKE r \in Requests
    <3>1. CASE op[r] \in Mutations(AllKinds)
      <4>1. AllKinds \in SUBSET AllKinds
        OBVIOUS
      <4>2. op[r].kind \in AllKinds
        BY <3>1, <4>1, MutationParts DEF IInv, Typed
      <4> QED BY <4>2 DEF Kinds, AllKinds, Writes
    <3>2. CASE op[r] \notin Mutations(AllKinds)
      BY <3>2 DEF IInv, Typed, Operations, Kinds
    <3> QED BY <3>1, <3>2
  <2> QED BY <2>1 DEF IInv, Typed, KeysHold, TypeOK, Places, RowTable
<1> QED BY <1>1, IInvAlways, PTL

\* What a query shows was there while it ran, and it leaves out nothing that was there all along,
\* however many queries and mutations run at once and whatever rows there are.
THEOREM QueriesShowWhatWasThere == Spec => []ShownWasThere
<1>1. IInv => ShownWasThere
  BY DEF IInv, Faithful, ShownWasThere
<1> QED BY <1>1, IInvAlways, PTL

\* The step that changes a row is the Write of a mutation that had loaded it.
LEMMA ChangesAreWrites ==
    ASSUME IInv, Next, NEW x \in Rows, Exists(rows, x), rows'[x] # rows[x]
    PROVE  \E r \in Requests : Write(r) /\ op[r].row = x /\ op[r].kind # "create"
<1>1. PICK r \in Requests : Write(r)
  BY DEF Next, ReadParents, ReadChildren, FailRead, Refuse, Create, Load, LookUp, Select
<1>2. op[r].row = x
  BY <1>1, Written DEF IInv, Typed, RowTable
<1>3. op[r].kind # "create"
  BY <1>1, <1>2, Written
<1> QED BY <1>1, <1>2, <1>3

\* A status leaves its table of transitions, and a deleted row comes back, only by the form of
\* bookings or by a mutation whose copy of the row was stale.
THEOREM OnlyStaleCopiesUndo == Spec => OnlyStaleUndo
<1> DEFINE Undo(x) ==
         LET undone == /\ rows'[x].status # rows[x].status
                       /\ rows'[x].status \notin shape.transitions[rows[x].status]
             revived == rows'[x].live /\ ~rows[x].live
         IN  undone \/ revived =>
               \E r \in Requests :
                   /\ at[r] = "write" /\ at'[r] = "written" /\ op[r].row = x
                   /\ \/ revived /\ base[r].live
                      \/ undone /\ op[r].kind = "update" /\ shape.statusForm
                      \/ undone /\ base[r].status # rows[x].status
<1>1. ASSUME IInv, Next, NEW x \in Rows, Exists(rows, x), rows'[x] # rows[x]
      PROVE  Undo(x)
  <2>1. PICK r \in Requests : Write(r) /\ op[r].row = x /\ op[r].kind # "create"
    BY <1>1, ChangesAreWrites
  <2>2. at[r] = "write" /\ at'[r] = "written"
    BY <1>1, <2>1 DEF Write, IInv, Typed
  <2>3. /\ rows[x] \in Row /\ rows'[x] = Saved(model[r], image[r], rows[x])
        /\ op[r] \in Mutations(AllKinds)
    BY <1>1, <2>1, Written DEF IInv, Typed, RowTable
  <2>4. Carries(r) /\ model[r] \in Row /\ image[r] \in Row /\ base[r] \in Row
    BY <1>1, <2>1, <2>2 DEF IInv, Carries
  <2>5. /\ rows'[x].live /\ ~rows[x].live => base[r].live
        /\ rows'[x].status # rows[x].status => rows'[x].status = model[r].status
    BY <1>1, <2>1, <2>2, <2>3, <2>4, SavedRow DEF Carries, IInv, Typed
  <2>6. ASSUME rows'[x].status # rows[x].status,
               rows'[x].status \notin shape.transitions[rows[x].status]
        PROVE  \/ op[r].kind = "update" /\ shape.statusForm
               \/ base[r].status # rows[x].status
    <3>1. CASE op[r].status = Keep
      BY <2>1, <2>2, <2>4, <2>5, <2>6, <3>1 DEF Carries
    <3>2. CASE op[r].status # Keep
      <4>1. rows'[x].status = op[r].status /\ MayChange(base[r], op[r])
        BY <2>1, <2>2, <2>4, <2>5, <2>6, <3>2 DEF Carries
      <4>2. AllKinds \in SUBSET AllKinds
        OBVIOUS
      <4>3. op[r].kind = "status" \/ (op[r].kind = "update" /\ shape.statusForm)
        BY <1>1, <2>1, <2>3, <3>2, <4>2, MutationParts DEF IInv, Typed
      <4> QED BY <2>6, <4>1, <4>3 DEF MayChange
    <3> QED BY <3>1, <3>2
  <2> QED BY <2>1, <2>2, <2>5, <2>6
<1>2. IInv /\ [Next]_vars => [\A x \in Rows : Exists(rows, x) /\ rows'[x] # rows[x] => Undo(x)]_vars
  BY <1>1
<1> QED BY <1>2, IInvAlways, PTL DEF Spec, OnlyStaleUndo

=============================================================================
