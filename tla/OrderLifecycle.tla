---------------------------- MODULE OrderLifecycle ----------------------------
(***************************************************************************)
(* The handlers of OrderService that change the status columns of one      *)
(* order, as AbstractStatusService and AbstractService run them.  A        *)
(* handler SELECTs the order, checks the transition against that copy,     *)
(* assigns the new value to the copy and saves the WHOLE copy; TypeORM's   *)
(* save SELECTs the row again and UPDATEs the columns in which the copy    *)
(* differs from what it has just read.  Every await between these          *)
(* statements lets another request run, and no transaction or lock covers  *)
(* them, so each statement is an action of its own.                        *)
(***************************************************************************)
EXTENDS OrderStatuses, Sequences, Naturals

CONSTANTS Requests,       \* requests that may be in flight on this order
          Serialized,     \* TRUE: a request starts only when no other is in flight
          InitialRows,    \* the rows createOrder leaves behind
          EditStatuses,   \* statuses a form sends that may set the status
          EditShippings   \* shipping statuses a form sends

Row == [status : EOrderStatus, shipping : EShippingStatus, deleted : BOOLEAN]

ASSUME LifecycleAssumption ==
    /\ Serialized \in BOOLEAN
    /\ InitialRows \subseteq [status : EOrderStatus, shipping : EShippingStatus,
                              deleted : {FALSE}]
    /\ EditStatuses \subseteq EOrderStatus
    /\ EditShippings \subseteq EShippingStatus

VARIABLES
    row,        \* the order's row in the database
    versions,   \* every value the row has had, oldest first (a history variable)
    histories,  \* the order_histories rows of this order, oldest first
    pc,         \* where each request is
    request,    \* the mutation each request carries out
    model,      \* options.model: the request's own copy of the row
    image       \* what the SELECT inside save() returned to the request

vars == <<row, versions, histories, pc, request, model, image>>

-----------------------------------------------------------------------------
(* The mutations.  Keep marks a column that the mutation does not assign.  *)

Keep == "keep"

Ops == {"none", "changeStatus", "shippedOrder", "changeShippingStatus", "updateOrder", "delete"}

Mutation == [op : Ops, status : EOrderStatus \cup {Keep}, shipping : EShippingStatus \cup {Keep}]

NoMutation == [op |-> "none", status |-> Keep, shipping |-> Keep]

ChangeStatus(s) == [op |-> "changeStatus", status |-> s, shipping |-> Keep]

ChangeShippingStatus(s) == [op |-> "changeShippingStatus", status |-> Keep, shipping |-> s]

\* Mutant: shippedOrder begins with the parcel.
ShippedParcel == ChangeShippingStatus("SHIPPED")

ShippedOrder == [op |-> "shippedOrder", status |-> "SHIPPED", shipping |-> Keep]

\* Without the SET_ORDER_STATUS permission the resolver deletes data.status; the shipping
\* status is always there, because the input type gives it a default.
UpdateOrder(s, sh) == [op |-> "updateOrder", status |-> s, shipping |-> sh]

DeleteOrder == [op |-> "delete", status |-> Keep, shipping |-> Keep]

Mutations ==
    {ChangeStatus(s) : s \in {"CONFIRMED", "PROCESSING", "COMPLETED", "REFUNDED", "CANCELLED"}}
    \cup {ShippedOrder, DeleteOrder}
    \cup {ChangeShippingStatus(s) : s \in {"IN_TRANSIT", "RETURNED"}}
    \cup {UpdateOrder(s, sh) : s \in EditStatuses \cup {Keep}, sh \in EditShippings}

\* Mutant: the decorator is trusted to validate the order's transition.
AcceptsAnyStatus(m, order) ==
    m.op = "changeShippingStatus" => m.shipping \in SHIPPING_TRANSITIONS[order.shipping]

\* Mutant: the shipping status is taken as it comes.
AcceptsAnyShipping(m, order) ==
    m.op \in {"changeStatus", "shippedOrder"} => m.status \in ORDER_TRANSITIONS[order.status]

\* validateStatusTransition and validateShippingTransition; the other operations check nothing.
Accepts(m, order) ==
    /\ m.op \in {"changeStatus", "shippedOrder"} => m.status \in ORDER_TRANSITIONS[order.status]
    /\ m.op = "changeShippingStatus" => m.shipping \in SHIPPING_TRANSITIONS[order.shipping]

\* Mutant: a column the form does not carry is overwritten too.
AssignedBlindly(m, order) ==
    [status |-> m.status, shipping |-> m.shipping, deleted |-> order.deleted \/ m.op = "delete"]

\* Object.assign(options.model, data, metadata): the copy with the new values.
Assigned(m, order) ==
    [status   |-> IF m.status = Keep THEN order.status ELSE m.status,
     shipping |-> IF m.shipping = Keep THEN order.shipping ELSE m.shipping,
     deleted  |-> order.deleted \/ m.op = "delete"]

\* What a save leaves in a column: the copy's value where it differs from the image.
Column(copy, read, now) == IF copy # read THEN copy ELSE now

Saved(copy, read, now) ==
    [status   |-> Column(copy.status, read.status, now.status),
     shipping |-> Column(copy.shipping, read.shipping, now.shipping),
     deleted  |-> Column(copy.deleted, read.deleted, now.deleted)]

Entry == [field : {"status", "shipping_status"}, value : EOrderStatus \cup EShippingStatus]

\* The order_histories row a status handler writes once the save is through.
EntryOf(m) == IF m.op = "changeStatus" THEN [field |-> "status", value |-> m.status]
                                       ELSE [field |-> "shipping_status", value |-> m.shipping]

-----------------------------------------------------------------------------

InFlight(r) == pc[r] \notin {"idle", "done", "failed"}

Init == /\ row \in InitialRows
        /\ versions = <<row>>
        /\ histories = <<>>
        /\ pc = [r \in Requests |-> "idle"]
        /\ request = [r \in Requests |-> NoMutation]
        /\ model = [r \in Requests |-> row]
        /\ image = [r \in Requests |-> row]

\* The resolver calls the service.
Start(r) == /\ pc[r] = "idle"
            /\ Serialized => \A q \in Requests : ~InFlight(q)
            /\ request' \in {[request EXCEPT ![r] = m] : m \in Mutations}
            /\ pc' = [pc EXCEPT ![r] = "read"]
            /\ UNCHANGED <<row, versions, histories, model, image>>

\* getOne, the check and the assignment: no await stands between the answer and update().
Read(r) == /\ pc[r] = "read"
           /\ ~row.deleted
           /\ Accepts(request[r], row)
           /\ model' = [model EXCEPT ![r] = Assigned(request[r], row)]
           /\ pc' = [pc EXCEPT ![r] = "select"]
           /\ UNCHANGED <<row, versions, histories, request, image>>

\* getOne finds nothing (it hides deleted rows), or the transition is not in the table.
Refuse(r) == /\ pc[r] = "read"
             /\ row.deleted \/ ~Accepts(request[r], row)
             /\ pc' = [pc EXCEPT ![r] = "failed"]
             /\ UNCHANGED <<row, versions, histories, request, model, image>>

\* save(), first statement: SELECT the row by id, deleted or not.
SaveSelect(r) == /\ pc[r] = "select"
                 /\ image' = [image EXCEPT ![r] = row]
                 /\ pc' = [pc EXCEPT ![r] = "write"]
                 /\ UNCHANGED <<row, versions, histories, request, model>>

\* Mutant: only changeStatus writes a history.
AfterSaveOfStatus(m) == CASE m.op = "changeStatus" -> "record"
                          [] m.op = "shippedOrder" -> "ship"
                          [] OTHER -> "done"

AfterSave(m) == CASE m.op \in {"changeStatus", "changeShippingStatus"} -> "record"
                  [] m.op = "shippedOrder" -> "ship"
                  [] OTHER -> "done"

\* Mutant: update() logs the error of a save and goes on.
SaveOrLog(r) ==
    /\ pc[r] = "write"
    /\ row' \in {Saved(model[r], image[r], row), row}
    /\ versions' = IF row' = row THEN versions ELSE Append(versions, row')
    /\ pc' = [pc EXCEPT ![r] = AfterSave(request[r])]
    /\ UNCHANGED <<histories, request, model, image>>

\* save(), second statement: UPDATE the columns that differ.
SaveUpdate(r) ==
    /\ pc[r] = "write"
    /\ row' = Saved(model[r], image[r], row)
    /\ versions' = IF row' = row THEN versions ELSE Append(versions, row')
    /\ pc' = [pc EXCEPT ![r] = AfterSave(request[r])]
    /\ UNCHANGED <<histories, request, model, image>>

\* shippedOrder goes on with changeShippingStatus on the same options.model.  The SHIPPED status
\* is saved by now, and afterStatusChange wrote no history for it.
ShipOn(r) == /\ pc[r] = "ship"
             /\ "SHIPPED" \in SHIPPING_TRANSITIONS[model[r].shipping]
             /\ request' = [request EXCEPT ![r] = ChangeShippingStatus("SHIPPED")]
             /\ model' = [model EXCEPT ![r].shipping = "SHIPPED"]
             /\ pc' = [pc EXCEPT ![r] = "select"]
             /\ UNCHANGED <<row, versions, histories, image>>

ShipRefused(r) == /\ pc[r] = "ship"
                  /\ "SHIPPED" \notin SHIPPING_TRANSITIONS[model[r].shipping]
                  /\ pc' = [pc EXCEPT ![r] = "failed"]
                  /\ UNCHANGED <<row, versions, histories, request, model, image>>

\* Mutant: the history is written once more when its answer gets lost.
RecordTwice(r) == /\ pc[r] = "record"
                  /\ histories' = histories \o <<EntryOf(request[r]), EntryOf(request[r])>>
                  /\ pc' = [pc EXCEPT ![r] = "done"]
                  /\ UNCHANGED <<row, versions, request, model, image>>

\* createOrderHistory.
Record(r) == /\ pc[r] = "record"
             /\ histories' = Append(histories, EntryOf(request[r]))
             /\ pc' = [pc EXCEPT ![r] = "done"]
             /\ UNCHANGED <<row, versions, request, model, image>>

\* A statement rejects or the process stops: what was saved stays saved.
Abort(r) == /\ InFlight(r)
            /\ pc' = [pc EXCEPT ![r] = "failed"]
            /\ UNCHANGED <<row, versions, histories, request, model, image>>

Next == \E r \in Requests :
    \/ Start(r) \/ Read(r) \/ Refuse(r) \/ SaveSelect(r) \/ SaveUpdate(r)
    \/ ShipOn(r) \/ ShipRefused(r) \/ Record(r) \/ Abort(r)

Spec == Init /\ [][Next]_vars

-----------------------------------------------------------------------------
(* Properties.                                                             *)

\* Every variable has its type, and the row is the last of its versions.
TypeOK ==
    /\ row \in Row
    /\ versions \in Seq(Row)
    /\ versions # <<>>
    /\ row = versions[Len(versions)]
    /\ histories \in Seq(Entry)
    /\ pc \in [Requests -> {"idle", "read", "select", "write", "ship", "record", "done", "failed"}]
    /\ request \in [Requests -> Mutation]
    /\ model \in [Requests -> Row]
    /\ image \in [Requests -> Row]

\* s is a status that one of the first n versions in vs had, or the next one after it in the
\* table, or one that an editor sent.
StatusKnown(vs, n, s) ==
    \/ s \in EditStatuses
    \/ \E j \in 1..n : s = vs[j].status \/ s \in ORDER_TRANSITIONS[vs[j].status]

ShippingKnown(vs, n, s) ==
    \/ s \in EditShippings
    \/ \E j \in 1..n : s = vs[j].shipping \/ s \in SHIPPING_TRANSITIONS[vs[j].shipping]

\* However requests interleave, no status is skipped: each status the row takes on is the
\* successor in ORDER_TRANSITIONS of one it had earlier (a stale save may only bring back an
\* old status), so REFUNDED is never reached without COMPLETED, nor that without SHIPPED.
StatusJustified ==
    \A i \in 2..Len(versions) : StatusKnown(versions, i - 1, versions[i].status)

\* The same for the shipping status and SHIPPING_TRANSITIONS.
ShippingJustified ==
    \A i \in 2..Len(versions) : ShippingKnown(versions, i - 1, versions[i].shipping)

\* shippedOrder saves the order's status before the parcel's: a row says that the parcel is
\* shipped only if the order itself has been SHIPPED by then.
ParcelFollowsOrder ==
    \A i \in 1..Len(versions) :
        versions[i].shipping = "SHIPPED" =>
            \/ versions[1].shipping = "SHIPPED"
            \/ "SHIPPED" \in EditShippings
            \/ \E j \in 1..i : versions[j].status = "SHIPPED"

HeldBy(e, v) == IF e.field = "status" THEN v.status = e.value ELSE v.shipping = e.value

\* The audit trail never claims a change that did not happen: whatever order_histories says was a
\* value of that column at some time.
HistoryIsTrue ==
    \A i \in 1..Len(histories) :
        \E j \in 1..Len(versions) : HeldBy(histories[i], versions[j])

Recorded(f, s) == \E i \in 1..Len(histories) : histories[i] = [field |-> f, value |-> s]

\* A change is missing from the audit trail only while its request still has to write it or when
\* that request was cut off after its save.  (SHIPPED is the exception in afterStatusChange,
\* and edits write no history.)
ChangesAreRecorded ==
    \A i \in 2..Len(versions) :
        LET v == versions[i]
            Cut(f) == \E r \in Requests : /\ pc[r] \in {"record", "failed"}
                                          /\ request[r][f] = v[f]
        IN  /\ \/ v.status \in EditStatuses \cup {"SHIPPED", versions[1].status}
               \/ Recorded("status", v.status)
               \/ Cut("status")
            /\ \/ v.shipping \in EditShippings \cup {versions[1].shipping}
               \/ Recorded("shipping_status", v.shipping)
               \/ Cut("shipping")

\* When requests come one at a time, the audit trail lists the changes in the order in which the
\* row went through them.
HistoryInOrder ==
    \E at \in [1..Len(histories) -> 1..Len(versions)] :
        \A i \in 1..Len(histories) :
            /\ HeldBy(histories[i], versions[at[i]])
            /\ \A k \in 1..(i - 1) : at[k] < at[i]

Contract == INSTANCE OrderContract WITH
    status <- row.status, shipping <- row.shipping, deleted <- row.deleted

\* When requests come one at a time, the handlers implement the contract: every step of the row
\* is one edge of a transition table, an edit, or the deletion, and a deleted order stays so.
ImplementsContract == Contract!Spec

\* What validateStatusTransition says by refusing every other step: the status moves along
\* ORDER_TRANSITIONS or by an edit.
StatusMovesAlongTable ==
    [][row'.status # row.status =>
         row'.status \in ORDER_TRANSITIONS[row.status] \cup EditStatuses]_vars

=============================================================================
