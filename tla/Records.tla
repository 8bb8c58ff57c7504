------------------------------ MODULE Records -------------------------------
(***************************************************************************)
(* Rows that refer to rows, in every module of the shop.  AbstractService  *)
(* reads a row, assigns a form to the copy and saves it; a GraphQL query   *)
(* reads rows and then, in one batch of the DataLoader for all of them,    *)
(* the rows they refer to.  Nothing keeps two requests apart.              *)
(*                                                                         *)
(* A behaviour is about one resolved field of one module: its rows are the *)
(* parents, those the field shows are the children, and either side holds  *)
(* the column.  Fields of the same shape behave alike.                     *)
(***************************************************************************)
EXTENDS Schema, Naturals

CONSTANTS Parents, Children,    \* ids in the two tables
          Requests,
          AddedByHand,          \* columns the database has besides the migrated ones
          Absent,               \* no row
          Keep                  \* undefined: the column is left out

Rows == Parents \cup Children

\* Modules without statuses.
NoStatus == [none |-> {}]

Module(table, form, lookUps, ops, fields, transitions) ==
    [table |-> table, form |-> form, lookUps |-> lookUps, ops |-> ops, fields |-> fields,
     transitions |-> transitions]

Plain(table, form, ops, fields) == Module(table, form, {}, ops, fields, NoStatus)

\* These rows are saved with a product, or by carts and orders.
ByOthers == Ops({}, CRUD)

Modules == {
    Module(UserTable, UserForm, UserLookUps, UserOps, UserFields, NoStatus),
    Module(RoleTable, RoleForm, RoleLookUps, RoleOps, RoleFields, NoStatus),
    Plain(PermissionTable, {}, PermissionOps, {}),
    Plain(FileUploadTable, FileUploadForm, FileUploadOps, FileUploadFields),
    Plain(ProductTable, ProductForm, ProductOps, ProductFields),
    Plain(ProductVariantTable, ProductVariantForm, ByOthers, ProductVariantFields),
    Plain(ConversionUnitTable, ConversionUnitForm, ConversionUnitOps, ConversionUnitFields),
    Plain(UnitTable, {}, UnitOps, UnitFields),
    Module(CategoryTable, CategoryForm, CategoryLookUps, CategoryOps, CategoryFields, NoStatus),
    Plain(ProductAttributeTable, {}, ProductAttributeOps, ProductAttributeFields),
    Plain(ProductAttributeValueTable, ProductAttributeValueForm, ProductAttributeValueOps, ProductAttributeValueFields),
    Plain(ProductReviewTable, ProductReviewForm, ProductReviewOps, ProductReviewFields),
    Plain(OrderTable, OrderForm, OrderOps, OrderFields \cup CartFields),
    Plain(OrderDetailTable, OrderDetailForm, ByOthers, OrderDetailFields),
    Plain(OrderShippingTable, OrderShippingForm, ByOthers, OrderShippingFields),
    Plain(OrderHistoryTable, OrderHistoryForm, ByOthers, OrderHistoryFields),
    Module(BookingTable, BookingForm, {}, BookingOps, BookingFields, BookingTransitions),
    Module(AppointmentTable, AppointmentForm, {}, AppointmentOps, AppointmentFields, AppointmentTransitions),
    Plain(BlogTable, BlogForm, BlogOps, BlogFields),
    Plain(AddressTable, {}, AddressOps, AddressFields)}

ModuleOf(name) == CHOOSE m \in Modules : m.table.name = name

\* The loaders there are: by id, and of rows grouped by a column.
Loaders == {m.table.name : m \in Modules} \ {"bookings", "product_reviews"}
RelatedLoaders ==
    {<<"conversion_units", "product_id">>, <<"product_variants", "product_id">>,
     <<"product_reviews", "product_id">>, <<"product_attribute_values", "attribute_id">>,
     <<"conversion_units", "variant_id">>, <<"order_details", "order_id">>,
     <<"order_histories", "order_id">>, <<"order_shippings", "order_detail_id">>}

Migrated(name) ==
    CASE name \in DOMAIN MigratedUsers -> MigratedUsers[name]
      [] name \in DOMAIN MigratedProducts -> MigratedProducts[name]
      [] name \in DOMAIN MigratedUnits -> MigratedUnits[name]
      [] name \in DOMAIN MigratedOrders -> MigratedOrders[name]
      [] name \in DOMAIN MigratedOthers -> MigratedOthers[name]

\* Columns that every statement on the table names and the migrations do not create.
Lacking(m) == Columns(m.table) \ Migrated(m.table.name).columns

\* Every field has its column and its loader, and every column of a form is one of the table.
\* The migrations forget is_active everywhere, and in two tables more.
ASSUME SchemaAssumption ==
    \A m \in Modules :
        /\ m.form \subseteq Columns(m.table) \cup {"status"}
        /\ \A f \in m.fields :
             IF f.by = "id" THEN f.column \in Columns(m.table) /\ f.table \in Loaders
             ELSE f.column \in Columns(ModuleOf(f.table).table) /\ <<f.table, f.column>> \in RelatedLoaders
        /\ "is_active" \in Lacking(m)
        /\ Lacking(m) # {"is_active"} <=> m.table.name \in {"blogs", "product_reviews"}

\* All that a field's behaviour depends on.
Shape(m, f) ==
    LET target == ModuleOf(f.table)
        holder == IF f.by = "id" THEN m ELSE target
        db == Migrated(holder.table.name)
    IN  [by |-> f.by, reads |-> f.reads,
         many |-> f.column \in holder.table.many,
         stamp |-> IF f.column \in StampColumns THEN f.column ELSE "none",
         form |-> f.column \in holder.form,
         looks |-> {o \in Writes : <<o, f.column>> \in holder.lookUps},
         required |-> f.column \in db.required,
         key |-> f.column \in db.keys,
         parents |-> m.ops, children |-> target.ops,
         transitions |-> m.transitions,
         statusForm |-> "status" \in m.form,
         works |-> Lacking(m) \cup Lacking(target) \subseteq AddedByHand]

Shapes == UNION {{Shape(m, f) : f \in m.fields} : m \in Modules}

\* What stands for no row is none.
ASSUME RecordsAssumption ==
    \A s \in Shapes : Absent \notin [live : BOOLEAN, refs : SUBSET Rows, status : DOMAIN s.transitions]

VARIABLES
    shape,
    rows,       \* the two tables
    at,         \* where each request is
    op,         \* what it asks
    copied,     \* the rows a query has read
    shown,      \* the pairs a query's field has shown
    failed,     \* a read of the query failed
    moments,    \* history: the tables since the query's first read
    base,       \* the row as a mutation loaded it
    model,      \* ... with its form assigned
    image       \* the row as save() selected it

reading == <<copied, shown, failed>>
saving == <<base, model, image>>
vars == <<shape, rows, at, op, reading, moments, saving>>

-----------------------------------------------------------------------------

Statuses == DOMAIN shape.transitions
First == IF "PENDING" \in Statuses THEN "PENDING" ELSE "none"

Row == [live : BOOLEAN, refs : SUBSET Rows, status : Statuses]

Exists(table, x) == table[x] # Absent
Live(table, x) == Exists(table, x) /\ table[x].live

Others(x) == IF x \in Parents THEN Children ELSE Parents
HasColumn(x) == (x \in Parents) = (shape.by = "id")
OpsOn(x) == IF x \in Parents THEN shape.parents ELSE shape.children

\* In which table p shows c.
Related(table, p, c) == IF shape.by = "id" THEN Exists(table, p) /\ c \in table[p].refs
                                            ELSE Exists(table, c) /\ p \in table[c].refs

Performers(x) == {{}} \cup {{u} : u \in Others(x)}
Values(x) == IF shape.many THEN SUBSET Others(x) ELSE Performers(x)

\* What a mutation may assign to the column of a row.
Assignments(kind, x) ==
    IF ~HasColumn(x) THEN {Keep}
    ELSE IF shape.stamp = "created_by" THEN (IF kind = "create" THEN Performers(x) ELSE {Keep})
    ELSE IF shape.stamp = "updated_by" THEN (Performers(x) \ {{}}) \cup {Keep}
    ELSE IF ~shape.form \/ kind \notin {"create", "update"} THEN {Keep}
    ELSE Values(x) \cup (IF kind = "update" THEN {Keep} ELSE {})

\* ... and to its status: bookings' form has one, with PENDING for a default even in an update.
StatusAssignments(kind, x) ==
    IF x \in Children \/ shape.transitions = NoStatus THEN {Keep}
    ELSE IF kind = "status" THEN {"PENDING", "CONFIRMED", "COMPLETED", "CANCELLED"}
    ELSE IF kind \in {"create", "update"} /\ shape.statusForm THEN Statuses
    ELSE {Keep}

MutationsOf(k, x) ==
    [kind : {k}, row : {x}, refs : Assignments(k, x), status : StatusAssignments(k, x)]

Mutations(kinds) == UNION {UNION {MutationsOf(k, x) : x \in Rows} : k \in kinds}

Offered(o) == o.kind \in OpsOn(o.row).guarded \cup OpsOn(o.row).open

-----------------------------------------------------------------------------

Blank == [live |-> TRUE, refs |-> {}, status |-> First]

\* One row of either table refers to the other's, one is still to be created.
Init == /\ shape \in Shapes
        /\ \E p \in Parents, c \in Children, new \in Rows :
             /\ new \notin {p, c}
             /\ rows = [x \in Rows |->
                   IF x = new THEN Absent
                   ELSE IF HasColumn(x) /\ (shape.form \/ shape.stamp # "none")
                        THEN [Blank EXCEPT !.refs = {IF x \in Parents THEN c ELSE p}]
                        ELSE Blank]
        /\ at = [r \in Requests |-> "idle"]
        /\ op = [r \in Requests |-> [kind |-> "none"]]
        /\ copied = [r \in Requests |-> {}]
        /\ shown = [r \in Requests |-> {}]
        /\ failed = [r \in Requests |-> FALSE]
        /\ moments = [r \in Requests |-> {}]
        /\ base = [r \in Requests |-> Absent]
        /\ model = [r \in Requests |-> Absent]
        /\ image = [r \in Requests |-> Absent]

-----------------------------------------------------------------------------
(* Queries.                                                                *)

\* getOne, getMany or getPagination: the live rows that a condition and a page select.
ReadParents(r) ==
    /\ at[r] = "idle" /\ shape.works
    /\ "query" \in shape.parents.guarded \cup shape.parents.open
    /\ \E ps \in SUBSET {p \in Parents : Live(rows, p)} :
         copied' = [copied EXCEPT ![r] = {<<p, rows[p].refs>> : p \in ps}]
    /\ at' = [at EXCEPT ![r] = "children"]
    /\ op' = [op EXCEPT ![r] = [kind |-> "query"]]
    /\ moments' = [moments EXCEPT ![r] = {rows}]
    /\ UNCHANGED <<shape, rows, shown, failed, saving>>

\* Mutant: a batch that asks for the first parent's children only.
FirstKeys(r) == IF copied[r] = {} THEN {} ELSE {CHOOSE pair \in copied[r] : TRUE}

\* keys.flat(): the batch asks for the children of all the parents at once.
BatchKeys(r) == copied[r]

\* The children that the loader finds for a parent.
Found(r, pair) ==
    {c \in Children : Live(rows, c) /\ \E k \in BatchKeys(r) :
        IF shape.by = "id" THEN c \in pair[2] /\ c \in k[2]
                           ELSE k[1] = pair[1] /\ pair[1] \in rows[c].refs}

\* What the field makes of them.
Readings(r, pair) ==
    IF shape.reads = "each" THEN {Found(r, pair)}
    ELSE IF shape.reads = "first" THEN (IF Found(r, pair) = {} THEN {{}} ELSE {{c} : c \in Found(r, pair)})
    ELSE IF shape.reads = "all" THEN {{}} \cup (IF Found(r, pair) = pair[2] THEN {pair[2]} ELSE {})
    ELSE {{}}

ReadChildren(r) ==
    /\ at[r] = "children"
    /\ \E seen \in [copied[r] -> SUBSET Children] :
         /\ \A pair \in copied[r] : seen[pair] \in Readings(r, pair)
         /\ shown' = [shown EXCEPT ![r] = UNION {{pair[1]} \X seen[pair] : pair \in copied[r]}]
    /\ at' = [at EXCEPT ![r] = "shown"]
    /\ UNCHANGED <<shape, rows, op, copied, failed, moments, saving>>

\* A statement fails: getOne answers null, getMany and getPagination nothing.
FailRead(r) ==
    /\ \/ at[r] = "children"
       \/ at[r] = "idle" /\ "query" \in shape.parents.guarded \cup shape.parents.open
    /\ op' = [op EXCEPT ![r] = [kind |-> "query"]]
    /\ failed' = [failed EXCEPT ![r] = TRUE]
    /\ at' = [at EXCEPT ![r] = "shown"]
    /\ UNCHANGED <<shape, rows, copied, shown, moments, saving>>

-----------------------------------------------------------------------------
(* Mutations.                                                              *)

\* The copies of a mutation that has ended.
Forget(r) == /\ op' = [op EXCEPT ![r] = [kind |-> "none"]]
             /\ base' = [base EXCEPT ![r] = Absent]
             /\ model' = [model EXCEPT ![r] = Absent]
             /\ image' = [image EXCEPT ![r] = Absent]

\* GraphqlPassportAuthGuard refuses, or a statement fails: nothing was written.
Refuse(r) ==
    /\ at[r] \in {"idle", "lookUp", "select", "write"}
    /\ at[r] = "idle" => shape.parents.guarded # {}
    /\ at' = [at EXCEPT ![r] = "refused"]
    /\ Forget(r)
    /\ UNCHANGED <<shape, rows, reading, moments>>

\* Object.assign; what is undefined is not saved.
Assigned(row, o) == [live |-> row.live /\ o.kind # "delete",
                     refs |-> IF o.refs = Keep THEN row.refs ELSE o.refs,
                     status |-> IF o.status = Keep THEN row.status ELSE o.status]

\* Mutant: a status mutation sets what it is asked.
MayAlways(row, o) == TRUE

\* validateStatusTransition, against the row as loaded.
MayChange(row, o) == o.kind = "status" => o.status \in shape.transitions[row.status]

\* Where an assigned copy goes next: roles, permissions and categories are looked up first.
Then(o, next) == IF o.kind \in shape.looks /\ o.refs # Keep THEN "lookUp" ELSE next

Create(r) ==
    /\ at[r] = "idle" /\ shape.works
    /\ \E o \in Mutations({"create"}) :
         /\ Offered(o) /\ ~Exists(rows, o.row)
         /\ op' = [op EXCEPT ![r] = o]
         /\ model' = [model EXCEPT ![r] = Assigned(Blank, o)]
         /\ at' = [at EXCEPT ![r] = Then(o, "write")]
    /\ UNCHANGED <<shape, rows, reading, moments, base, image>>

\* update, changeStatus and delete: the row must be there.
Load(r) ==
    /\ at[r] = "idle" /\ shape.works
    /\ \E o \in Mutations({"update", "delete", "status"}) :
         /\ Offered(o) /\ Live(rows, o.row)
         /\ MayChange(rows[o.row], o)
         /\ op' = [op EXCEPT ![r] = o]
         /\ base' = [base EXCEPT ![r] = rows[o.row]]
         /\ model' = [model EXCEPT ![r] = Assigned(rows[o.row], o)]
         /\ at' = [at EXCEPT ![r] = Then(o, "select")]
    /\ UNCHANGED <<shape, rows, reading, moments, image>>

\* The ids that are found; when the look-up fails, none.
LookUp(r) ==
    /\ at[r] = "lookUp"
    /\ \E found \in {{x \in model[r].refs : Live(rows, x)}, {}} :
         model' = [model EXCEPT ![r].refs = found]
    /\ at' = [at EXCEPT ![r] = IF op[r].kind = "create" THEN "write" ELSE "select"]
    /\ UNCHANGED <<shape, rows, op, reading, moments, base, image>>

\* save() selects the row, deleted or not.
Select(r) ==
    /\ at[r] = "select"
    /\ image' = [image EXCEPT ![r] = rows[op[r].row]]
    /\ at' = [at EXCEPT ![r] = "write"]
    /\ UNCHANGED <<shape, rows, op, reading, moments, base, model>>

\* ... and writes the columns in which the copy differs from it.
Saved(copy, read, row) == [c \in DOMAIN row |-> IF copy[c] # read[c] THEN copy[c] ELSE row[c]]

\* Mutant: a migration without foreign keys.
AcceptedKeyless(x, row) == HasColumn(x) /\ shape.required => row.refs # {}

\* NOT NULL and foreign keys (a deleted row is still one that can be referred to).
Accepted(x, row) ==
    HasColumn(x) => /\ shape.required => row.refs # {}
                    /\ shape.key => \A y \in row.refs : Exists(rows, y)

Write(r) ==
    /\ at[r] = "write"
    /\ LET x == op[r].row
           new == IF op[r].kind = "create" THEN model[r] ELSE Saved(model[r], image[r], rows[x])
       IN  /\ op[r].kind = "create" => ~Exists(rows, x)
           /\ Accepted(x, new)
           /\ rows' = [rows EXCEPT ![x] = new]
           /\ moments' = [q \in Requests |-> IF at[q] = "children" THEN moments[q] \cup {rows'} ELSE moments[q]]
    /\ at' = [at EXCEPT ![r] = "written"]
    /\ Forget(r)
    /\ UNCHANGED <<shape, reading>>

Next == \E r \in Requests :
            \/ ReadParents(r) \/ ReadChildren(r) \/ FailRead(r)
            \/ Refuse(r) \/ Create(r) \/ Load(r) \/ LookUp(r) \/ Select(r) \/ Write(r)

Spec == Init /\ [][Next]_vars

-----------------------------------------------------------------------------
(* Properties.                                                             *)

Kinds == {"none", "query", "status"} \cup Writes

TypeOK ==
    /\ shape \in Shapes
    /\ rows \in [Rows -> Row \cup {Absent}]
    /\ at \in [Requests -> {"idle", "children", "shown", "lookUp", "select", "write", "written", "refused"}]
    /\ \A r \in Requests :
         /\ op[r].kind \in Kinds
         /\ copied[r] \subseteq Parents \X SUBSET Rows
         /\ shown[r] \subseteq Parents \X Children
         /\ {base[r], model[r], image[r]} \subseteq Row \cup {Absent}
    \* a required column is never null, and a key never dangles
    /\ \A x \in Rows : Exists(rows, x) /\ HasColumn(x) /\ shape.key => \A y \in rows[x].refs : Exists(rows, y)

\* What a query's field shows, was there while the query ran: the parent was live, the child was
\* live, and the one referred to the other.  And it leaves out no child of a row it read that was
\* there all the time, unless a read failed.
ShownWasThere ==
    \A r \in Requests : at[r] = "shown" =>
        /\ \A pair \in shown[r] :
             /\ \E m \in moments[r] : Live(m, pair[1])
             /\ \E m \in moments[r] : Live(m, pair[2])
             /\ \E m \in moments[r] : Related(m, pair[1], pair[2])
        /\ ~failed[r] /\ shape.reads = "each" =>
             \A pair \in copied[r], c \in Children :
                 (\A m \in moments[r] : Live(m, c) /\ Related(m, pair[1], c)) => <<pair[1], c>> \in shown[r]

\* A status leaves its table of transitions, and a deleted row comes back, only by the form of
\* bookings or by a request that loaded the row before it was what it undoes.
OnlyStaleUndo ==
    [][\A x \in Rows : Exists(rows, x) /\ rows'[x] # rows[x] =>
         LET undone == /\ rows'[x].status # rows[x].status
                       /\ rows'[x].status \notin shape.transitions[rows[x].status]
             revived == rows'[x].live /\ ~rows[x].live
         IN  undone \/ revived =>
               \E r \in Requests :
                   /\ at[r] = "write" /\ at'[r] = "written" /\ op[r].row = x
                   /\ \/ revived /\ base[r].live
                      \/ undone /\ op[r].kind = "update" /\ shape.statusForm
                      \/ undone /\ base[r].status # rows[x].status]_vars

=============================================================================
