------------------------ MODULE OrderLifecycleProofs ------------------------
(***************************************************************************)
(* Theorems about OrderLifecycle for every set of requests, every set of   *)
(* initial rows and every edit form.                                       *)
(***************************************************************************)
EXTENDS OrderLifecycle, TLAPS

-----------------------------------------------------------------------------
(* What the operators of the model return.                                 *)

\* The rows that createOrder leaves behind are rows.
LEMMA InitialRowsAreRows == InitialRows \subseteq Row
  BY LifecycleAssumption DEF Row

\* Object.assign keeps the type of the copy.
LEMMA AssignedIsRow ==
  ASSUME NEW m \in Mutation, NEW order \in Row
  PROVE  Assigned(m, order) \in Row
  BY DEF Assigned, Mutation, Row, Keep

\* A save leaves in every column a value of the copy or of the row.
LEMMA SavedIsRow ==
  ASSUME NEW copy \in Row, NEW read \in Row, NEW now \in Row
  PROVE  /\ Saved(copy, read, now) \in Row
         /\ Saved(copy, read, now).status \in {copy.status, now.status}
         /\ Saved(copy, read, now).shipping \in {copy.shipping, now.shipping}
  BY DEF Saved, Column, Row

LEMMA MutationsAreMutations == Mutations \subseteq Mutation \ {NoMutation}
  BY LifecycleAssumption
  DEF Mutations, Mutation, NoMutation, ChangeStatus, ShippedOrder, DeleteOrder,
      ChangeShippingStatus, UpdateOrder, EOrderStatus, EShippingStatus, Ops, Keep

\* The contract of an entry: a status handler names the column that it changed.
LEMMA EntryOfIsEntry ==
  ASSUME NEW m \in Mutation, m.op \in {"changeStatus", "changeShippingStatus"},
         m.op = "changeStatus" => m.status # Keep,
         m.op = "changeShippingStatus" => m.shipping # Keep
  PROVE  EntryOf(m) \in Entry
  BY DEF EntryOf, Entry, Mutation

-----------------------------------------------------------------------------
(* Type correctness.                                                       *)

\* Beyond the types: a request that will write a history row knows what it says.
Targets == \A r \in Requests :
    /\ request[r].op = "changeStatus" => request[r].status # Keep
    /\ request[r].op = "changeShippingStatus" => request[r].shipping # Keep
    /\ pc[r] = "record" => request[r].op \in {"changeStatus", "changeShippingStatus"}

TypeInv == TypeOK /\ Targets

LEMMA TypeInvInit == Init => TypeInv
  <1> SUFFICES ASSUME Init PROVE TypeInv
    OBVIOUS
  <1>1. row \in Row
    BY InitialRowsAreRows DEF Init
  <1>2. /\ versions \in Seq(Row)
        /\ versions # <<>>
        /\ row = versions[Len(versions)]
    BY <1>1 DEF Init
  <1>3. NoMutation \in Mutation
    BY DEF NoMutation, Mutation, Ops
  <1>4. TypeOK
    BY <1>1, <1>2, <1>3 DEF Init, TypeOK
  <1>5. Targets
    BY DEF Init, Targets, NoMutation
  <1>6. QED
    BY <1>4, <1>5 DEF TypeInv

\* The mutations a resolver starts name the column they change.
LEMMA MutationTargets ==
  ASSUME NEW m \in Mutations
  PROVE  /\ m \in Mutation
         /\ m.op = "changeStatus" => m.status # Keep
         /\ m.op = "changeShippingStatus" => m.shipping # Keep
  BY MutationsAreMutations
  DEF Mutations, ChangeStatus, ShippedOrder, DeleteOrder, ChangeShippingStatus, UpdateOrder, Keep

LEMMA TypeInvStep == TypeInv /\ [Next]_vars => TypeInv'
  <1> SUFFICES ASSUME TypeInv, [Next]_vars PROVE TypeInv'
    OBVIOUS
  <1> USE DEF TypeInv, TypeOK, Targets
  <1>1. ASSUME NEW r \in Requests, Start(r) PROVE TypeInv'
    <2>1. PICK m \in Mutations : request' = [request EXCEPT ![r] = m]
      BY <1>1 DEF Start
    <2>2. QED
      BY <1>1, <2>1, MutationTargets DEF Start
  <1>2. ASSUME NEW r \in Requests, Read(r) PROVE TypeInv'
    <2>1. Assigned(request[r], row) \in Row
      BY AssignedIsRow
    <2>2. QED
      BY <1>2, <2>1 DEF Read
  <1>3. ASSUME NEW r \in Requests, Refuse(r) PROVE TypeInv'
    BY <1>3 DEF Refuse
  <1>4. ASSUME NEW r \in Requests, SaveSelect(r) PROVE TypeInv'
    BY <1>4 DEF SaveSelect
  <1>5. ASSUME NEW r \in Requests, SaveUpdate(r) PROVE TypeInv'
    <2>1. row' \in Row
      BY <1>5, SavedIsRow DEF SaveUpdate
    <2>2. /\ versions' \in Seq(Row)
          /\ versions' # <<>>
          /\ row' = versions'[Len(versions')]
      BY <1>5, <2>1 DEF SaveUpdate
    <2>3. pc' = [pc EXCEPT ![r] = AfterSave(request[r])]
      BY <1>5 DEF SaveUpdate
    <2>4. /\ AfterSave(request[r]) \in {"record", "ship", "done"}
          /\ AfterSave(request[r]) = "record" =>
               request[r].op \in {"changeStatus", "changeShippingStatus"}
      BY DEF AfterSave
    <2>5. QED
      BY <1>5, <2>1, <2>2, <2>3, <2>4 DEF SaveUpdate
  <1>6. ASSUME NEW r \in Requests, ShipOn(r) PROVE TypeInv'
    <2>1. ChangeShippingStatus("SHIPPED") \in Mutation
      BY DEF ChangeShippingStatus, Mutation, Ops, EShippingStatus
    <2>2. [model[r] EXCEPT !.shipping = "SHIPPED"] \in Row
      BY DEF Row, EShippingStatus
    <2>3. QED
      BY <1>6, <2>1, <2>2 DEF ShipOn, ChangeShippingStatus, Keep
  <1>7. ASSUME NEW r \in Requests, ShipRefused(r) PROVE TypeInv'
    BY <1>7 DEF ShipRefused
  <1>8. ASSUME NEW r \in Requests, Record(r) PROVE TypeInv'
    <2>1. EntryOf(request[r]) \in Entry
      BY <1>8, EntryOfIsEntry DEF Record
    <2>2. QED
      BY <1>8, <2>1 DEF Record
  <1>9. ASSUME NEW r \in Requests, Abort(r) PROVE TypeInv'
    BY <1>9 DEF Abort
  <1>10. CASE UNCHANGED vars
    BY <1>10 DEF vars
  <1>11. QED
    BY <1>1, <1>2, <1>3, <1>4, <1>5, <1>6, <1>7, <1>8, <1>9, <1>10 DEF Next

LEMMA TypeInvAlways == Spec => []TypeInv
  BY TypeInvInit, TypeInvStep, PTL DEF Spec

\* Every reachable state is well typed, and the row is the last of its versions.
THEOREM TypeCorrect == Spec => []TypeOK
  <1>1. TypeInv => TypeOK
    BY DEF TypeInv
  <1>2. QED
    BY TypeInvAlways, <1>1, PTL

-----------------------------------------------------------------------------
(* No status is skipped.  A version alone does not show where its statuses *)
(* come from: they come from a copy that some request read earlier.  So    *)
(* the invariant also says of every copy about to be saved that its        *)
(* statuses are known, and knowing grows with the versions.                *)

KnownIn(vs, n, order) ==
    StatusKnown(vs, n, order.status) /\ ShippingKnown(vs, n, order.shipping)

CopiesKnown == \A r \in Requests :
    pc[r] \in {"select", "write", "ship"} => KnownIn(versions, Len(versions), model[r])

\* The first save of shippedOrder leaves the shipping status alone, so the second check starts
\* from a value that the row really had.
ShipsFromHeld == \A r \in Requests :
    /\ pc[r] = "ship" => request[r].op = "shippedOrder"
    /\ pc[r] \in {"select", "write", "ship"} /\ request[r].op = "shippedOrder" =>
         \E j \in 1..Len(versions) : versions[j].shipping = model[r].shipping

StartedMutations == \A r \in Requests : pc[r] = "read" => request[r] \in Mutations

Provenance == /\ StatusJustified
              /\ ShippingJustified
              /\ CopiesKnown
              /\ ShipsFromHeld
              /\ StartedMutations

\* What was known from a prefix stays known when versions are appended.
LEMMA KnownStaysKnown ==
  ASSUME NEW vs \in Seq(Row), NEW ws \in Seq(Row), NEW n \in Nat, NEW k \in Nat, n <= k,
         \A j \in 1..n : ws[j] = vs[j],
         NEW order, KnownIn(vs, n, order)
  PROVE  KnownIn(ws, k, order)
  <1>1. \A j \in 1..n : j \in 1..k
    OBVIOUS
  <1>2. QED
    BY <1>1 DEF KnownIn, StatusKnown, ShippingKnown

\* What a request assigns after its check is known: the row is the newest version.
LEMMA AssignedIsKnown ==
  ASSUME TypeOK, NEW m \in Mutations, Accepts(m, row)
  PROVE  KnownIn(versions, Len(versions), Assigned(m, row))
  <1>1. Len(versions) \in 1..Len(versions) /\ row = versions[Len(versions)]
    BY DEF TypeOK
  <1>2. /\ m.status \in EditStatuses \cup {Keep} \/ m.op \in {"changeStatus", "shippedOrder"}
        /\ m.shipping \in EditShippings \cup {Keep} \/ m.op = "changeShippingStatus"
    BY DEF Mutations, ChangeStatus, ShippedOrder, DeleteOrder, ChangeShippingStatus, UpdateOrder
  <1>3. QED
    BY <1>1, <1>2 DEF Assigned, Accepts, KnownIn, StatusKnown, ShippingKnown

LEMMA SaveKeepsProvenance ==
  ASSUME TypeInv, Provenance, NEW r \in Requests, SaveUpdate(r)
  PROVE  Provenance'
  <1>0. /\ row \in Row /\ model[r] \in Row /\ image[r] \in Row
        /\ versions \in Seq(Row) /\ versions # <<>> /\ row = versions[Len(versions)]
    BY DEF TypeInv, TypeOK
  <1> DEFINE n == Len(versions)
  <1>1. /\ row' \in Row
        /\ row'.status \in {model[r].status, row.status}
        /\ row'.shipping \in {model[r].shipping, row.shipping}
    BY <1>0, SavedIsRow DEF SaveUpdate
  <1>2. versions' = versions \/ versions' = Append(versions, row')
    BY DEF SaveUpdate
  <1>3. /\ n \in Nat \ {0} /\ versions' \in Seq(Row)
        /\ Len(versions') \in {n, n + 1}
        /\ \A j \in 1..n : versions'[j] = versions[j]
        /\ Len(versions') = n + 1 => versions'[n + 1] = row'
    BY <1>0, <1>1, <1>2
  <1> HIDE DEF n
  <1>4. KnownIn(versions, n, row')
    <2>1. KnownIn(versions, n, model[r])
      BY DEF Provenance, CopiesKnown, SaveUpdate, n
    <2>2. KnownIn(versions, n, row)
      BY <1>0, <1>3 DEF n, KnownIn, StatusKnown, ShippingKnown
    <2>3. QED
      BY <1>1, <2>1, <2>2 DEF KnownIn, StatusKnown, ShippingKnown
  <1>5. \A i \in 2..Len(versions') : KnownIn(versions', i - 1, versions'[i])
    <2> SUFFICES ASSUME NEW i \in 2..Len(versions')
                 PROVE  KnownIn(versions', i - 1, versions'[i])
      OBVIOUS
    <2>1. CASE i <= n
      <3>1. KnownIn(versions, i - 1, versions[i])
        BY <1>3, <2>1 DEF n, Provenance, StatusJustified, ShippingJustified, KnownIn
      <3>2. /\ versions'[i] = versions[i]
            /\ i - 1 \in Nat /\ i - 1 <= i - 1
            /\ versions \in Seq(Row) /\ versions' \in Seq(Row)
            /\ \A j \in 1..(i - 1) : versions'[j] = versions[j]
        BY <1>0, <1>3, <2>1
      <3>3. QED
        BY <3>1, <3>2, KnownStaysKnown
    <2>2. CASE i = n + 1
      <3>1. versions'[i] = row' /\ i - 1 = n
        BY <1>3, <2>2
      <3>2. /\ n \in Nat /\ n <= n
            /\ versions \in Seq(Row) /\ versions' \in Seq(Row)
            /\ \A j \in 1..n : versions'[j] = versions[j]
        BY <1>0, <1>3
      <3>3. KnownIn(versions', n, row')
        BY <1>4, <3>2, KnownStaysKnown
      <3>4. QED
        BY <3>1, <3>3
    <2>3. QED
      BY <1>3, <2>1, <2>2
  <1>6. ASSUME NEW q \in Requests, pc'[q] \in {"select", "write", "ship"}
        PROVE  KnownIn(versions', Len(versions'), model'[q])
    <2>1. pc[q] \in {"select", "write", "ship"} /\ model' = model
      BY <1>6 DEF SaveUpdate, AfterSave, TypeInv, TypeOK
    <2>2. KnownIn(versions, n, model[q])
      BY <2>1 DEF Provenance, CopiesKnown, n
    <2>3. n <= Len(versions') /\ Len(versions') \in Nat
      BY <1>3
    <2>4. QED
      BY <1>0, <1>3, <2>1, <2>2, <2>3, KnownStaysKnown
  <1>7. ShipsFromHeld'
    <2> SUFFICES ASSUME NEW q \in Requests
                 PROVE  /\ pc'[q] = "ship" => request'[q].op = "shippedOrder"
                        /\ pc'[q] \in {"select", "write", "ship"} /\ request'[q].op = "shippedOrder" =>
                             \E j \in 1..Len(versions') : versions'[j].shipping = model'[q].shipping
      BY DEF ShipsFromHeld
    <2>1. request' = request /\ model' = model
      BY DEF SaveUpdate
    <2>2. pc'[q] = "ship" => request[q].op = "shippedOrder"
      BY DEF SaveUpdate, AfterSave, Provenance, ShipsFromHeld, TypeInv, TypeOK
    <2>3. ASSUME pc'[q] \in {"select", "write", "ship"}, request[q].op = "shippedOrder"
          PROVE  \E j \in 1..Len(versions') : versions'[j].shipping = model[q].shipping
      <3>1. pc[q] \in {"select", "write", "ship"}
        BY <2>3 DEF SaveUpdate, AfterSave, TypeInv, TypeOK
      <3>2. PICK j \in 1..n : versions[j].shipping = model[q].shipping
        BY <2>3, <3>1 DEF Provenance, ShipsFromHeld, n
      <3>3. j \in 1..Len(versions') /\ versions'[j] = versions[j]
        BY <1>3
      <3>4. QED
        BY <3>2, <3>3
    <2>4. QED
      BY <2>1, <2>2, <2>3
  <1>8. StartedMutations'
    BY DEF SaveUpdate, AfterSave, Provenance, StartedMutations, TypeInv, TypeOK
  <1>9. QED
    BY <1>5, <1>6, <1>7, <1>8
    DEF Provenance, StatusJustified, ShippingJustified, CopiesKnown, KnownIn

LEMMA ProvenanceInit == Init => Provenance
  BY DEF Init, Provenance, StatusJustified, ShippingJustified, CopiesKnown, ShipsFromHeld,
         StartedMutations

LEMMA ProvenanceStep == TypeInv /\ Provenance /\ [Next]_vars => Provenance'
  <1> SUFFICES ASSUME TypeInv, Provenance, [Next]_vars PROVE Provenance'
    OBVIOUS
  <1>1. ASSUME NEW r \in Requests, Start(r) PROVE Provenance'
    BY <1>1 DEF Start, Provenance, StatusJustified, ShippingJustified, CopiesKnown, ShipsFromHeld,
                StartedMutations, TypeInv, TypeOK
  <1>2. ASSUME NEW r \in Requests, Read(r) PROVE Provenance'
    <2>1. request[r] \in Mutations
      BY <1>2 DEF Read, Provenance, StartedMutations
    <2>2. KnownIn(versions, Len(versions), Assigned(request[r], row))
      BY <1>2, <2>1, AssignedIsKnown DEF Read, TypeInv
    <2>3. request[r].op = "shippedOrder" =>
            \E j \in 1..Len(versions) : versions[j].shipping = Assigned(request[r], row).shipping
      <3>1. request[r].op = "shippedOrder" => request[r].shipping = Keep
        BY <2>1 DEF Mutations, ChangeStatus, ShippedOrder, DeleteOrder, ChangeShippingStatus,
                    UpdateOrder
      <3>2. Len(versions) \in 1..Len(versions) /\ row = versions[Len(versions)]
        BY DEF TypeInv, TypeOK
      <3>3. QED
        BY <3>1, <3>2 DEF Assigned
    <2>4. QED
      BY <1>2, <2>2, <2>3
      DEF Read, Provenance, StatusJustified, ShippingJustified, CopiesKnown, ShipsFromHeld,
          StartedMutations, TypeInv, TypeOK
  <1>3. ASSUME NEW r \in Requests, SaveUpdate(r) PROVE Provenance'
    BY <1>3, SaveKeepsProvenance
  <1>4. ASSUME NEW r \in Requests, ShipOn(r) PROVE Provenance'
    <2>1. KnownIn(versions, Len(versions), [model[r] EXCEPT !.shipping = "SHIPPED"])
      <3>1. KnownIn(versions, Len(versions), model[r])
        BY <1>4 DEF ShipOn, Provenance, CopiesKnown
      <3>2. PICK j \in 1..Len(versions) : versions[j].shipping = model[r].shipping
        BY <1>4 DEF ShipOn, Provenance, ShipsFromHeld
      <3>3. "SHIPPED" \in SHIPPING_TRANSITIONS[versions[j].shipping]
        BY <1>4, <3>2 DEF ShipOn
      <3>4. model[r] \in Row
        BY DEF TypeInv, TypeOK
      <3>5. QED
        BY <3>1, <3>3, <3>4 DEF KnownIn, StatusKnown, ShippingKnown, Row
    <2>2. QED
      BY <1>4, <2>1
      DEF ShipOn, ChangeShippingStatus, Provenance, StatusJustified, ShippingJustified, CopiesKnown,
          ShipsFromHeld, StartedMutations, TypeInv, TypeOK
  <1>5. ASSUME NEW r \in Requests,
               Refuse(r) \/ SaveSelect(r) \/ ShipRefused(r) \/ Record(r) \/ Abort(r)
        PROVE  Provenance'
    <2>1. UNCHANGED <<versions, request, model>>
      BY <1>5 DEF Refuse, SaveSelect, ShipRefused, Record, Abort
    <2>2. \A q \in Requests :
            /\ pc'[q] \in {"select", "write", "ship"} => pc[q] \in {"select", "write", "ship"}
            /\ pc'[q] = "ship" => pc[q] = "ship"
            /\ pc'[q] = "read" => pc[q] = "read"
      BY <1>5 DEF Refuse, SaveSelect, ShipRefused, Record, Abort, TypeInv, TypeOK
    <2>3. QED
      BY <2>1, <2>2
      DEF Provenance, StatusJustified, ShippingJustified, CopiesKnown, ShipsFromHeld, StartedMutations
  <1>6. CASE UNCHANGED vars
    BY <1>6 DEF vars, Provenance, StatusJustified, ShippingJustified, CopiesKnown, ShipsFromHeld,
                StartedMutations
  <1>7. QED
    BY <1>1, <1>2, <1>3, <1>4, <1>5, <1>6 DEF Next

LEMMA ProvenanceAlways == Spec => []Provenance
  <1>1. Init => Provenance
    BY ProvenanceInit
  <1>2. TypeInv /\ Provenance /\ [Next]_vars => Provenance'
    BY ProvenanceStep
  <1>3. QED
    BY <1>1, <1>2, TypeInvAlways, PTL DEF Spec

\* No interleaving of requests, stale saves or cut-off requests takes an order to a status
\* whose predecessor in ORDER_TRANSITIONS it never had.
THEOREM NoStatusSkipped == Spec => []StatusJustified
  <1>1. Provenance => StatusJustified
    BY DEF Provenance
  <1>2. QED
    BY ProvenanceAlways, <1>1, PTL

\* The same for the shipping status.
THEOREM NoShippingSkipped == Spec => []ShippingJustified
  <1>1. Provenance => ShippingJustified
    BY DEF Provenance
  <1>2. QED
    BY ProvenanceAlways, <1>1, PTL

-----------------------------------------------------------------------------
(* What a save leaves behind.  A save writes only the columns in which the *)
(* copy differs from what its own SELECT read.  Either way the copy's      *)
(* value has been in the row: it is written now, or the SELECT saw it.     *)

\* The request's copy carries what the request is to achieve.
Carries == \A r \in Requests : pc[r] \in {"select", "write"} =>
    /\ request[r].op = "changeStatus" => model[r].status = request[r].status
    /\ request[r].op = "shippedOrder" => model[r].status = "SHIPPED"
    /\ request[r].op = "changeShippingStatus" => model[r].shipping = request[r].shipping

\* What the SELECT inside a save read was the row at that time.
ImagesWereRows == \A r \in Requests :
    pc[r] = "write" => \E j \in 1..Len(versions) : versions[j] = image[r]

LEMMA VersionsGrow ==
  ASSUME TypeInv, NEW r \in Requests, SaveUpdate(r)
  PROVE  /\ Len(versions) \in Nat \ {0}
         /\ Len(versions') \in {Len(versions), Len(versions) + 1}
         /\ \A j \in 1..Len(versions) : versions'[j] = versions[j]
         /\ row' = versions'[Len(versions')]
         /\ row' = Saved(model[r], image[r], row)
         /\ versions \in Seq(Row) /\ model[r] \in Row /\ image[r] \in Row
  <1>1. /\ row \in Row /\ model[r] \in Row /\ image[r] \in Row
        /\ versions \in Seq(Row) /\ versions # <<>> /\ row = versions[Len(versions)]
    BY DEF TypeInv, TypeOK
  <1>2. row' \in Row /\ row' = Saved(model[r], image[r], row)
    BY <1>1, SavedIsRow DEF SaveUpdate
  <1>3. \/ versions' = versions /\ row' = row
        \/ versions' = Append(versions, row')
    BY DEF SaveUpdate
  <1>4. QED
    BY <1>1, <1>2, <1>3

LEMMA SaveReaches ==
  ASSUME TypeInv, ImagesWereRows, NEW r \in Requests, SaveUpdate(r)
  PROVE  /\ \E j \in 1..Len(versions') : versions'[j].status = model[r].status
         /\ \E j \in 1..Len(versions') : versions'[j].shipping = model[r].shipping
  <1>1. PICK i \in 1..Len(versions) : versions[i] = image[r]
    BY DEF ImagesWereRows, SaveUpdate
  <1>2. /\ i \in 1..Len(versions') /\ versions'[i] = image[r]
        /\ Len(versions') \in 1..Len(versions') /\ versions'[Len(versions')] = row'
    BY <1>1, VersionsGrow
  <1>3. /\ row'.status = model[r].status \/ image[r].status = model[r].status
        /\ row'.shipping = model[r].shipping \/ image[r].shipping = model[r].shipping
    BY VersionsGrow DEF Saved, Column
  <1>4. QED
    BY <1>2, <1>3

CopiesInv == Carries /\ ImagesWereRows

LEMMA CopiesStep == TypeInv /\ Provenance /\ CopiesInv /\ [Next]_vars => CopiesInv'
  <1> SUFFICES ASSUME TypeInv, Provenance, CopiesInv, [Next]_vars PROVE CopiesInv'
    OBVIOUS
  <1> USE DEF CopiesInv, Carries, ImagesWereRows
  <1>1. ASSUME NEW r \in Requests, Start(r) PROVE CopiesInv'
    BY <1>1 DEF Start, TypeInv, TypeOK
  <1>2. ASSUME NEW r \in Requests, Read(r) PROVE CopiesInv'
    <2>1. request[r] \in Mutations
      BY <1>2 DEF Read, Provenance, StartedMutations
    <2>2. /\ request[r].op = "changeStatus" => request[r].status # Keep
          /\ request[r].op = "shippedOrder" => request[r].status = "SHIPPED"
          /\ request[r].op = "changeShippingStatus" => request[r].shipping # Keep
      BY <2>1 DEF Mutations, ChangeStatus, ShippedOrder, DeleteOrder, ChangeShippingStatus,
                  UpdateOrder, Keep
    <2>3. QED
      BY <1>2, <2>2 DEF Read, Assigned, Keep, TypeInv, TypeOK
  <1>3. ASSUME NEW r \in Requests, SaveSelect(r) PROVE CopiesInv'
    <2>1. Len(versions) \in 1..Len(versions) /\ row = versions[Len(versions)]
      BY DEF TypeInv, TypeOK
    <2>2. Carries'
      BY <1>3 DEF SaveSelect, TypeInv, TypeOK
    <2>3. ImagesWereRows'
      BY <1>3, <2>1 DEF SaveSelect, TypeInv, TypeOK
    <2>4. QED
      BY <2>2, <2>3
  <1>4. ASSUME NEW r \in Requests, SaveUpdate(r) PROVE CopiesInv'
    <2>1. \A q \in Requests : pc'[q] \in {"select", "write"} => pc[q] = pc'[q]
      BY <1>4 DEF SaveUpdate, AfterSave, TypeInv, TypeOK
    <2>2. Carries'
      BY <1>4, <2>1 DEF SaveUpdate
    <2>3. \A j \in 1..Len(versions) : j \in 1..Len(versions') /\ versions'[j] = versions[j]
      BY <1>4, VersionsGrow
    <2>4. ImagesWereRows'
      BY <1>4, <2>1, <2>3 DEF SaveUpdate
    <2>5. QED
      BY <2>2, <2>4
  <1>5. ASSUME NEW r \in Requests, ShipOn(r) PROVE CopiesInv'
    <2>1. /\ model' = [model EXCEPT ![r].shipping = "SHIPPED"]
          /\ request' = [request EXCEPT ![r] = ChangeShippingStatus("SHIPPED")]
          /\ pc' = [pc EXCEPT ![r] = "select"]
          /\ UNCHANGED <<versions, image>>
      BY <1>5 DEF ShipOn
    <2>2. /\ model'[r].shipping = "SHIPPED"
          /\ \A q \in Requests : q # r => model'[q] = model[q]
      BY <2>1 DEF TypeInv, TypeOK, Row
    <2>3. /\ request'[r].op = "changeShippingStatus" /\ request'[r].shipping = "SHIPPED"
          /\ \A q \in Requests : q # r => request'[q] = request[q]
      BY <2>1 DEF ChangeShippingStatus, TypeInv, TypeOK
    <2>4. pc'[r] = "select" /\ \A q \in Requests : q # r => pc'[q] = pc[q]
      BY <2>1 DEF TypeInv, TypeOK
    <2>5. Carries'
      BY <2>2, <2>3, <2>4
    <2>6. ImagesWereRows'
      BY <2>1, <2>4
    <2>7. QED
      BY <2>5, <2>6
  <1>6. ASSUME NEW r \in Requests, Refuse(r) \/ ShipRefused(r) \/ Record(r) \/ Abort(r)
        PROVE  CopiesInv'
    <2>1. UNCHANGED <<versions, request, model, image>>
      BY <1>6 DEF Refuse, ShipRefused, Record, Abort
    <2>2. \A q \in Requests : pc'[q] \in {"select", "write"} => pc'[q] = pc[q]
      BY <1>6 DEF Refuse, ShipRefused, Record, Abort, TypeInv, TypeOK
    <2>3. QED
      BY <2>1, <2>2
  <1>7. CASE UNCHANGED vars
    BY <1>7 DEF vars
  <1>8. QED
    BY <1>1, <1>2, <1>3, <1>4, <1>5, <1>6, <1>7 DEF Next

LEMMA CopiesAlways == Spec => []CopiesInv
  <1>1. Init => CopiesInv
    BY DEF Init, CopiesInv, Carries, ImagesWereRows
  <1>2. QED
    BY <1>1, CopiesStep, TypeInvAlways, ProvenanceAlways, PTL DEF Spec

-----------------------------------------------------------------------------
(* The history is true: what a request is about to write into it has been  *)
(* a value of the row since its save, and the versions never forget.       *)

HeldOnce(e) == \E j \in 1..Len(versions) : HeldBy(e, versions[j])

OwedIsTrue == \A r \in Requests : pc[r] = "record" => HeldOnce(EntryOf(request[r]))

HistoryInv == HistoryIsTrue /\ OwedIsTrue

LEMMA HistoryStep == TypeInv /\ CopiesInv /\ HistoryInv /\ [Next]_vars => HistoryInv'
  <1> SUFFICES ASSUME TypeInv, CopiesInv, HistoryInv, [Next]_vars PROVE HistoryInv'
    OBVIOUS
  <1>1. ASSUME NEW r \in Requests, SaveUpdate(r) PROVE HistoryInv'
    <2>1. \A e : HeldOnce(e) => HeldOnce(e)'
      <3>1. \A j \in 1..Len(versions) : j \in 1..Len(versions') /\ versions'[j] = versions[j]
        BY <1>1, VersionsGrow
      <3>2. QED
        BY <3>1 DEF HeldOnce, HeldBy
    <2>2. HistoryIsTrue'
      <3>1. histories' = histories
        BY <1>1 DEF SaveUpdate
      <3>2. \A i \in 1..Len(histories) : HeldOnce(histories[i])
        BY DEF HistoryInv, HistoryIsTrue, HeldOnce
      <3>3. QED
        BY <2>1, <3>1, <3>2 DEF HistoryIsTrue, HeldOnce
    <2>3. ASSUME pc'[r] = "record" PROVE HeldOnce(EntryOf(request[r]))'
      <3>1. request[r].op \in {"changeStatus", "changeShippingStatus"}
        BY <1>1, <2>3 DEF SaveUpdate, AfterSave, TypeInv, TypeOK
      <3>2. /\ request[r].op = "changeStatus" => model[r].status = request[r].status
            /\ request[r].op = "changeShippingStatus" => model[r].shipping = request[r].shipping
        BY <1>1 DEF SaveUpdate, CopiesInv, Carries
      <3>3. /\ \E j \in 1..Len(versions') : versions'[j].status = model[r].status
            /\ \E j \in 1..Len(versions') : versions'[j].shipping = model[r].shipping
        BY <1>1, SaveReaches DEF CopiesInv
      <3>4. request' = request
        BY <1>1 DEF SaveUpdate
      <3>5. QED
        BY <3>1, <3>2, <3>3, <3>4 DEF HeldOnce, HeldBy, EntryOf
    <2>4. ASSUME NEW q \in Requests, q # r, pc'[q] = "record"
          PROVE  HeldOnce(EntryOf(request[q]))'
      <3>1. pc[q] = "record" /\ request' = request
        BY <1>1, <2>4 DEF SaveUpdate, TypeInv, TypeOK
      <3>2. HeldOnce(EntryOf(request[q]))
        BY <3>1 DEF HistoryInv, OwedIsTrue
      <3>3. EntryOf(request[q])' = EntryOf(request[q])
        BY <3>1 DEF EntryOf
      <3>4. QED
        BY <2>1, <3>2, <3>3 DEF HeldOnce
    <2>5. OwedIsTrue'
      BY <2>3, <2>4 DEF OwedIsTrue
    <2>6. QED
      BY <2>2, <2>5 DEF HistoryInv
  <1>2. ASSUME NEW r \in Requests, Record(r) PROVE HistoryInv'
    <2>1. /\ histories' = Append(histories, EntryOf(request[r]))
          /\ UNCHANGED <<versions, request>>
          /\ HeldOnce(EntryOf(request[r]))
      BY <1>2 DEF Record, HistoryInv, OwedIsTrue
    <2>2. histories \in Seq(Entry)
      BY DEF TypeInv, TypeOK
    <2>3. HistoryIsTrue'
      BY <2>1, <2>2 DEF HistoryInv, HistoryIsTrue, HeldOnce
    <2>4. OwedIsTrue'
      BY <1>2, <2>1 DEF Record, HistoryInv, OwedIsTrue, HeldOnce, TypeInv, TypeOK
    <2>5. QED
      BY <2>3, <2>4 DEF HistoryInv
  <1>3. ASSUME UNCHANGED <<versions, histories>>,
               \A q \in Requests : pc'[q] = "record" => pc[q] = "record" /\ request'[q] = request[q]
        PROVE  HistoryInv'
    BY <1>3 DEF HistoryInv, HistoryIsTrue, OwedIsTrue, HeldOnce, EntryOf
  <1>4. ASSUME NEW r \in Requests,
               \/ Start(r) \/ Read(r) \/ Refuse(r) \/ SaveSelect(r) \/ ShipOn(r) \/ ShipRefused(r)
               \/ Abort(r)
        PROVE  HistoryInv'
    <2>1. UNCHANGED <<versions, histories>>
      BY <1>4 DEF Start, Read, Refuse, SaveSelect, ShipOn, ShipRefused, Abort
    <2>2. ASSUME NEW q \in Requests, pc'[q] = "record"
          PROVE  pc[q] = "record" /\ request'[q] = request[q]
      BY <1>4, <2>2 DEF Start, Read, Refuse, SaveSelect, ShipOn, ShipRefused, Abort, TypeInv, TypeOK
    <2>3. QED
      BY <1>3, <2>1, <2>2
  <1>5. CASE UNCHANGED vars
    BY <1>3, <1>5 DEF vars
  <1>6. QED
    BY <1>1, <1>2, <1>4, <1>5 DEF Next

\* Whatever order_histories says was, at some time, a value of that column: no entry claims a
\* change that was lost.
THEOREM HistoryDoesNotLie == Spec => []HistoryIsTrue
  <1>1. Init => HistoryInv
    BY DEF Init, HistoryInv, HistoryIsTrue, OwedIsTrue
  <1>2. HistoryInv => HistoryIsTrue
    BY DEF HistoryInv
  <1>3. QED
    BY <1>1, <1>2, HistoryStep, TypeInvAlways, CopiesAlways, PTL DEF Spec

-----------------------------------------------------------------------------
(* The parcel follows the order.  shippedOrder lets the parcel go only     *)
(* after its own save, and that save has put SHIPPED into the row; any     *)
(* other copy that says SHIPPED took it from a row that followed.          *)

\* By the n-th version of vs the parcel may have been shipped.
Released(vs, n) == \/ vs[1].shipping = "SHIPPED"
                   \/ "SHIPPED" \in EditShippings
                   \/ \E j \in 1..n : vs[j].status = "SHIPPED"

ParcelInv ==
    /\ \A i \in 1..Len(versions) : versions[i].shipping = "SHIPPED" => Released(versions, i)
    /\ \A r \in Requests :
         /\ pc[r] \in {"select", "write", "ship"} /\ model[r].shipping = "SHIPPED" =>
              Released(versions, Len(versions))
         /\ pc[r] = "ship" => Released(versions, Len(versions))

LEMMA SaveKeepsParcelInv ==
  ASSUME TypeInv, Provenance, CopiesInv, ParcelInv, NEW r \in Requests, SaveUpdate(r)
  PROVE  ParcelInv'
  <1> DEFINE n == Len(versions)
             m == Len(versions')
  <1>1. /\ n \in Nat \ {0} /\ m \in {n, n + 1}
        /\ \A j \in 1..n : versions'[j] = versions[j]
        /\ row' = versions'[m]
    BY VersionsGrow
  <1>2. row'.shipping \in {model[r].shipping, row.shipping} /\ row = versions[n]
    BY VersionsGrow, SavedIsRow DEF TypeInv, TypeOK
  <1>3. /\ pc[r] = "write" /\ model' = model
        /\ \E j \in 1..m : versions'[j].status = model[r].status
    BY SaveReaches DEF SaveUpdate, CopiesInv
  <1> HIDE DEF n, m
  <1>4. ASSUME NEW i \in 1..n, NEW k \in 1..m, i <= k, Released(versions, i)
        PROVE  Released(versions', k)
    <2>1. versions'[1] = versions[1] /\ \A j \in 1..i : j \in 1..k /\ versions'[j] = versions[j]
      BY <1>1, <1>4
    <2>2. QED
      BY <1>4, <2>1 DEF Released
  <1>5. n \in 1..n /\ n \in 1..m /\ m \in 1..m /\ n <= m
    BY <1>1
  <1>6. row'.shipping = "SHIPPED" => Released(versions', m)
    <2>1. model[r].shipping = "SHIPPED" => Released(versions, n)
      BY <1>3 DEF ParcelInv, n
    <2>2. row.shipping = "SHIPPED" => Released(versions, n)
      BY <1>2, <1>5 DEF ParcelInv, n
    <2>3. QED
      BY <1>2, <1>4, <1>5, <2>1, <2>2
  <1>7. ASSUME NEW i \in 1..m, versions'[i].shipping = "SHIPPED"
        PROVE  Released(versions', i)
    <2>1. CASE i \in 1..n
      <3>1. Released(versions, i)
        BY <1>1, <1>7, <2>1 DEF ParcelInv, n
      <3>2. QED
        BY <1>4, <2>1, <3>1
    <2>2. CASE i = m
      BY <1>1, <1>6, <1>7, <2>2
    <2>3. QED
      BY <1>1, <2>1, <2>2
  <1>8. ASSUME NEW q \in Requests,
               pc'[q] \in {"select", "write", "ship"}, model'[q].shipping = "SHIPPED"
        PROVE  Released(versions', m)
    <2>1. pc[q] \in {"select", "write", "ship"} /\ model[q].shipping = "SHIPPED"
      BY <1>3, <1>8 DEF SaveUpdate, AfterSave, TypeInv, TypeOK
    <2>2. Released(versions, n)
      BY <2>1 DEF ParcelInv, n
    <2>3. QED
      BY <1>4, <1>5, <2>2
  <1>9. ASSUME NEW q \in Requests, pc'[q] = "ship"
        PROVE  Released(versions', m)
    <2>1. CASE q = r
      <3>1. request[r].op = "shippedOrder"
        BY <1>9, <2>1 DEF SaveUpdate, AfterSave, TypeInv, TypeOK
      <3>2. model[r].status = "SHIPPED"
        BY <1>3, <3>1 DEF CopiesInv, Carries
      <3>3. QED
        BY <1>3, <3>2 DEF Released
    <2>2. CASE q # r
      <3>1. pc[q] = "ship"
        BY <1>9, <2>2 DEF SaveUpdate, TypeInv, TypeOK
      <3>2. Released(versions, n)
        BY <3>1 DEF ParcelInv, n
      <3>3. QED
        BY <1>4, <1>5, <3>2
    <2>3. QED
      BY <2>1, <2>2
  <1>10. QED
    BY <1>7, <1>8, <1>9 DEF ParcelInv, m

LEMMA ParcelStep ==
  TypeInv /\ Provenance /\ CopiesInv /\ ParcelInv /\ [Next]_vars => ParcelInv'
  <1> SUFFICES ASSUME TypeInv, Provenance, CopiesInv, ParcelInv, [Next]_vars PROVE ParcelInv'
    OBVIOUS
  <1>1. ASSUME NEW r \in Requests, Read(r) PROVE ParcelInv'
    <2>1. Assigned(request[r], row).shipping = "SHIPPED" => Released(versions, Len(versions))
      <3>1. request[r] \in Mutations
        BY <1>1 DEF Read, Provenance, StartedMutations
      <3>2. request[r].shipping = "SHIPPED" => "SHIPPED" \in EditShippings
        BY <3>1 DEF Mutations, ChangeStatus, ShippedOrder, DeleteOrder, ChangeShippingStatus,
                    UpdateOrder, Keep
      <3>3. row.shipping = "SHIPPED" => Released(versions, Len(versions))
        <4>1. Len(versions) \in 1..Len(versions) /\ row = versions[Len(versions)]
          BY DEF TypeInv, TypeOK
        <4>2. QED
          BY <4>1 DEF ParcelInv
      <3>4. QED
        BY <3>2, <3>3 DEF Assigned, Released
    <2>2. /\ model'[r] = Assigned(request[r], row) /\ pc'[r] = "select"
          /\ \A q \in Requests : q # r => model'[q] = model[q] /\ pc'[q] = pc[q]
          /\ versions' = versions
      BY <1>1 DEF Read, TypeInv, TypeOK
    <2>3. QED
      BY <2>1, <2>2 DEF ParcelInv, Released
  <1>2. ASSUME NEW r \in Requests, SaveUpdate(r) PROVE ParcelInv'
    BY <1>2, SaveKeepsParcelInv
  <1>3. ASSUME NEW r \in Requests, ShipOn(r) PROVE ParcelInv'
    <2>1. Released(versions, Len(versions))
      BY <1>3 DEF ShipOn, ParcelInv
    <2>2. versions' = versions /\ \A q \in Requests : pc'[q] = "ship" => pc[q] = "ship"
      BY <1>3 DEF ShipOn, TypeInv, TypeOK
    <2>3. QED
      BY <2>1, <2>2 DEF ParcelInv, Released
  <1>4. ASSUME versions' = versions,
               \A q \in Requests :
                 pc'[q] \in {"select", "write", "ship"} =>
                   /\ pc[q] \in {"select", "write", "ship"} /\ model'[q] = model[q]
                   /\ pc'[q] = "ship" => pc[q] = "ship"
        PROVE  ParcelInv'
    BY <1>4 DEF ParcelInv, Released
  <1>5. ASSUME NEW r \in Requests,
               Start(r) \/ Refuse(r) \/ SaveSelect(r) \/ ShipRefused(r) \/ Record(r) \/ Abort(r)
        PROVE  ParcelInv'
    <2>1. UNCHANGED <<versions, model>>
      BY <1>5 DEF Start, Refuse, SaveSelect, ShipRefused, Record, Abort
    <2>2. ASSUME NEW q \in Requests, pc'[q] \in {"select", "write", "ship"}
          PROVE  /\ pc[q] \in {"select", "write", "ship"}
                 /\ pc'[q] = "ship" => pc[q] = "ship"
      BY <1>5, <2>2 DEF Start, Refuse, SaveSelect, ShipRefused, Record, Abort, TypeInv, TypeOK
    <2>3. QED
      BY <1>4, <2>1, <2>2
  <1>6. CASE UNCHANGED vars
    BY <1>4, <1>6 DEF vars
  <1>7. QED
    BY <1>1, <1>2, <1>3, <1>5, <1>6 DEF Next

\* No row ever said that the parcel is shipped before the order itself had been SHIPPED, unless
\* the order was created that way or an editor may write it.
THEOREM ParcelNeverFirst == Spec => []ParcelFollowsOrder
  <1>1. Init => ParcelInv
    BY DEF Init, ParcelInv, Released
  <1>2. ParcelInv => ParcelFollowsOrder
    BY DEF ParcelInv, ParcelFollowsOrder, Released
  <1>3. QED
    BY <1>1, <1>2, ParcelStep, TypeInvAlways, ProvenanceAlways, CopiesAlways, PTL DEF Spec

-----------------------------------------------------------------------------
(* One request at a time.  Then the row cannot change between a request's  *)
(* SELECT and its save: the image is the row, and the copy is one step of  *)
(* the contract ahead of it.                                               *)

\* One step of the contract, as a relation between two rows.
ContractStep(order, next) ==
    /\ ~order.deleted
    /\ \/ /\ next.status \in ORDER_TRANSITIONS[order.status]
          /\ next.shipping = order.shipping
          /\ ~next.deleted
       \/ /\ next.shipping \in SHIPPING_TRANSITIONS[order.shipping]
          /\ next.status = order.status
          /\ ~next.deleted
       \/ /\ next.status \in EditStatuses \cup {order.status}
          /\ next.shipping \in EditShippings
          /\ ~next.deleted
       \/ /\ next.status = order.status
          /\ next.shipping = order.shipping
          /\ next.deleted

OneAtATime == \A r, q \in Requests : InFlight(r) /\ InFlight(q) => r = q

CopyIsNext == \A r \in Requests :
    /\ pc[r] \in {"select", "write"} =>
         /\ ContractStep(row, model[r])
         /\ request[r].op # "delete" => ~model[r].deleted
    /\ pc[r] = "write" => image[r] = row
    /\ pc[r] = "ship" => model[r] = row /\ ~row.deleted

SerialInv == OneAtATime /\ CopyIsNext

\* What passes the check is one step of the contract.
LEMMA AssignedIsContractStep ==
  ASSUME NEW m \in Mutations, NEW order \in Row, ~order.deleted, Accepts(m, order)
  PROVE  /\ ContractStep(order, Assigned(m, order))
         /\ m.op # "delete" => ~Assigned(m, order).deleted
  <1>1. CASE \E s \in {"CONFIRMED", "PROCESSING", "COMPLETED", "REFUNDED", "CANCELLED"} :
               m = ChangeStatus(s)
    BY <1>1 DEF ChangeStatus, Accepts, Assigned, ContractStep, Row, Keep
  <1>2. CASE m = ShippedOrder
    BY <1>2 DEF ShippedOrder, Accepts, Assigned, ContractStep, Row, Keep
  <1>3. CASE m = DeleteOrder
    BY <1>3 DEF DeleteOrder, Assigned, ContractStep, Row, Keep
  <1>4. CASE \E s \in {"IN_TRANSIT", "RETURNED"} : m = ChangeShippingStatus(s)
    BY <1>4 DEF ChangeShippingStatus, Accepts, Assigned, ContractStep, Row, Keep
  <1>5. ASSUME NEW s \in EditStatuses \cup {Keep}, NEW sh \in EditShippings, m = UpdateOrder(s, sh)
        PROVE  /\ ContractStep(order, Assigned(m, order))
               /\ m.op # "delete" => ~Assigned(m, order).deleted
    <2>1. sh # Keep
      BY LifecycleAssumption DEF EShippingStatus, Keep
    <2>2. QED
      BY <1>5, <2>1 DEF UpdateOrder, Assigned, ContractStep, Row
  <1>6. QED
    BY <1>1, <1>2, <1>3, <1>4, <1>5 DEF Mutations

\* A save that finds the row as it was read writes the copy.
LEMMA UndisturbedSave ==
  ASSUME NEW copy \in Row, NEW now \in Row
  PROVE  Saved(copy, now, now) = copy
  BY DEF Saved, Column, Row

LEMMA SerialInit == Init => SerialInv
  BY DEF Init, SerialInv, OneAtATime, CopyIsNext, InFlight

LEMMA SerialStep ==
  ASSUME Serialized, TypeInv, Provenance, SerialInv, [Next]_vars
  PROVE  SerialInv'
  <1> USE DEF SerialInv, OneAtATime, CopyIsNext, InFlight
  <1>0. /\ row \in Row
        /\ pc \in [Requests -> {"idle", "read", "select", "write", "ship", "record", "done", "failed"}]
        /\ request \in [Requests -> Mutation]
        /\ model \in [Requests -> Row]
        /\ image \in [Requests -> Row]
    BY DEF TypeInv, TypeOK
  <1>1. ASSUME NEW r \in Requests, Start(r) PROVE SerialInv'
    BY <1>0, <1>1 DEF Start
  <1>2. ASSUME NEW r \in Requests, Read(r) PROVE SerialInv'
    <2>1. /\ ContractStep(row, Assigned(request[r], row))
          /\ request[r].op # "delete" => ~Assigned(request[r], row).deleted
      BY <1>0, <1>2, AssignedIsContractStep DEF Read, Provenance, StartedMutations
    <2>2. QED
      BY <1>0, <1>2, <2>1 DEF Read
  <1>3. ASSUME NEW r \in Requests, SaveSelect(r) PROVE SerialInv'
    BY <1>0, <1>3 DEF SaveSelect
  <1>4. ASSUME NEW r \in Requests, SaveUpdate(r) PROVE SerialInv'
    <2>1. row' = model[r]
      BY <1>0, <1>4, UndisturbedSave DEF SaveUpdate
    <2>2. AfterSave(request[r]) \in {"record", "ship", "done"}
          /\ (AfterSave(request[r]) = "ship" => request[r].op = "shippedOrder")
      BY DEF AfterSave
    <2>3. \A q \in Requests : q # r => pc'[q] = pc[q] /\ ~InFlight(q)
      BY <1>0, <1>4 DEF SaveUpdate
    <2>4. QED
      BY <1>0, <1>4, <2>1, <2>2, <2>3 DEF SaveUpdate
  <1>5. ASSUME NEW r \in Requests, ShipOn(r) PROVE SerialInv'
    <2>1. ContractStep(row, [model[r] EXCEPT !.shipping = "SHIPPED"])
      BY <1>0, <1>5 DEF ShipOn, ContractStep, Row
    <2>2. ~[model[r] EXCEPT !.shipping = "SHIPPED"].deleted
      BY <1>0, <1>5 DEF ShipOn, Row
    <2>3. QED
      BY <1>0, <1>5, <2>1, <2>2 DEF ShipOn
  <1>6. ASSUME NEW r \in Requests, Refuse(r) \/ ShipRefused(r) \/ Record(r) \/ Abort(r)
        PROVE  SerialInv'
    <2>1. UNCHANGED <<row, request, model, image>>
      BY <1>6 DEF Refuse, ShipRefused, Record, Abort
    <2>2. \A q \in Requests : pc'[q] = pc[q] \/ pc'[q] \in {"done", "failed"}
      BY <1>0, <1>6 DEF Refuse, ShipRefused, Record, Abort
    <2>3. QED
      BY <2>1, <2>2
  <1>7. CASE UNCHANGED vars
    BY <1>7 DEF vars
  <1>8. QED
    BY <1>1, <1>2, <1>3, <1>4, <1>5, <1>6, <1>7 DEF Next

\* Every step of a serialized system is a step of the contract or leaves the row alone.
LEMMA StepImplementsContract ==
  ASSUME TypeInv, SerialInv, [Next]_vars
  PROVE  [Contract!Next]_(Contract!order)
  <1>1. ASSUME NEW r \in Requests, SaveUpdate(r) PROVE Contract!Next
    <2>1. row' = model[r] /\ ContractStep(row, model[r])
      BY <1>1, UndisturbedSave DEF SaveUpdate, TypeInv, TypeOK, SerialInv, CopyIsNext
    <2>2. row \in Row /\ row' \in Row
      BY <1>1, <2>1 DEF TypeInv, TypeOK
    <2>3. QED
      BY <2>1, <2>2
      DEF ContractStep, Row, Contract!Next, Contract!ChangeStatus, Contract!ChangeShipping,
          Contract!Edit, Contract!Delete, Contract!ORDER_TRANSITIONS,
          Contract!SHIPPING_TRANSITIONS, Contract!EOrderStatus, Contract!EShippingStatus,
          ORDER_TRANSITIONS, SHIPPING_TRANSITIONS, EOrderStatus, EShippingStatus
  <1>2. (\A r \in Requests : ~SaveUpdate(r)) => UNCHANGED row
    BY DEF Next, vars, Start, Read, Refuse, SaveSelect, ShipOn, ShipRefused, Record, Abort
  <1>3. QED
    BY <1>1, <1>2 DEF Contract!order

\* When requests on an order come one at a time, the handlers implement the contract.
THEOREM SerialRequestsImplementContract ==
  ASSUME Serialized
  PROVE  Spec => ImplementsContract
  <1>1. Init => Contract!Init
    BY DEF Init, Contract!Init
  <1>2. TypeInv /\ Provenance /\ SerialInv /\ [Next]_vars => SerialInv'
    BY SerialStep
  <1>3. Spec => []SerialInv
    BY <1>2, SerialInit, TypeInvAlways, ProvenanceAlways, PTL DEF Spec
  <1>4. TypeInv /\ SerialInv /\ [Next]_vars => [Contract!Next]_(Contract!order)
    BY StepImplementsContract
  <1>5. QED
    BY <1>1, <1>3, <1>4, TypeInvAlways, PTL DEF Spec, ImplementsContract, Contract!Spec

-----------------------------------------------------------------------------
(* The history misses nothing but what a request was cut off from.  Every  *)
(* value the row takes on was in the row before, is that of a request      *)
(* about to record it, or is one that nobody records.                      *)

\* A column's value is in the history, or excused from it.
StatusAccounted(s) ==
  \/ s \in EditStatuses \cup {"SHIPPED", versions[1].status}
  \/ Recorded("status", s)
  \/ \E r \in Requests : pc[r] \in {"record", "failed"} /\ request[r].status = s

ShippingAccounted(s) ==
  \/ s \in EditShippings \cup {versions[1].shipping}
  \/ Recorded("shipping_status", s)
  \/ \E r \in Requests : pc[r] \in {"record", "failed"} /\ request[r].shipping = s

AllAccounted == \A j \in 1..Len(versions) :
    StatusAccounted(versions[j].status) /\ ShippingAccounted(versions[j].shipping)

\* Where the columns of a copy come from: a version, the request itself, or a value nobody records.
StatusOrigin(r) ==
  \/ \E j \in 1..Len(versions) : model[r].status = versions[j].status
  \/ model[r].status \in EditStatuses \cup {"SHIPPED"}
  \/ request[r].op = "changeStatus" /\ request[r].status = model[r].status

ShippingOrigin(r) ==
  \/ \E j \in 1..Len(versions) : model[r].shipping = versions[j].shipping
  \/ model[r].shipping \in EditShippings
  \/ request[r].op = "changeShippingStatus" /\ request[r].shipping = model[r].shipping

Origins == \A r \in Requests :
    /\ pc[r] \in {"select", "write", "ship"} => StatusOrigin(r) /\ ShippingOrigin(r)
    /\ pc[r] = "ship" => request[r].op = "shippedOrder"

\* A status handler changes one column.
OneColumn == \A r \in Requests :
    /\ request[r].op = "changeStatus" => request[r].shipping = Keep
    /\ request[r].op = "changeShippingStatus" => request[r].status = Keep

RecordInv == AllAccounted /\ Origins /\ OneColumn

\* A status handler assigns one column; what nobody records is an edit or a release.
LEMMA MutationColumns ==
  ASSUME NEW m \in Mutations
  PROVE  /\ m \in Mutation
         /\ m.op = "changeStatus" => m.shipping = Keep
         /\ m.op = "changeShippingStatus" => m.status = Keep
         /\ m.status \in EditStatuses \cup {"SHIPPED", Keep} \/ m.op = "changeStatus"
         /\ m.shipping \in EditShippings \cup {Keep} \/ m.op = "changeShippingStatus"
  BY MutationsAreMutations
  DEF Mutations, ChangeStatus, ShippedOrder, DeleteOrder, ChangeShippingStatus, UpdateOrder, Keep

\* Once accounted for, always accounted for.
LEMMA AccountedStays ==
  ASSUME TypeInv, OneColumn, [Next]_vars
  PROVE  /\ \A s \in EOrderStatus : StatusAccounted(s) => StatusAccounted(s)'
         /\ \A s \in EShippingStatus : ShippingAccounted(s) => ShippingAccounted(s)'
  <1>1. /\ Len(versions) \in Nat \ {0}
        /\ versions'[1] = versions[1]
    <2>1. Len(versions) \in Nat \ {0}
      BY DEF TypeInv, TypeOK
    <2>2. ASSUME NEW r \in Requests, SaveUpdate(r) PROVE versions'[1] = versions[1]
      BY <2>1, <2>2, VersionsGrow
    <2>3. ASSUME NEW r \in Requests,
                 \/ Start(r) \/ Read(r) \/ Refuse(r) \/ SaveSelect(r)
                 \/ ShipOn(r) \/ ShipRefused(r) \/ Record(r) \/ Abort(r)
          PROVE  versions' = versions
      BY <2>3 DEF Start, Read, Refuse, SaveSelect, ShipOn, ShipRefused, Record, Abort
    <2>4. QED
      BY <2>1, <2>2, <2>3 DEF Next, vars
  <1>2. \A f, s : Recorded(f, s) => Recorded(f, s)'
    <2>1. histories \in Seq(Entry)
      BY DEF TypeInv, TypeOK
    <2>2. ASSUME NEW r \in Requests, Record(r) PROVE \E e \in Entry : histories' = Append(histories, e)
      BY <2>2, EntryOfIsEntry DEF Record, TypeInv, TypeOK, Targets
    <2>3. ASSUME NEW r \in Requests,
                 \/ Start(r) \/ Read(r) \/ Refuse(r) \/ SaveSelect(r) \/ SaveUpdate(r)
                 \/ ShipOn(r) \/ ShipRefused(r) \/ Abort(r)
          PROVE  histories' = histories
      BY <2>3 DEF Start, Read, Refuse, SaveSelect, SaveUpdate, ShipOn, ShipRefused, Abort
    <2>4. histories' = histories \/ \E e \in Entry : histories' = Append(histories, e)
      BY <2>2, <2>3 DEF Next, vars
    <2>5. QED
      BY <2>1, <2>4 DEF Recorded
  <1>3. ASSUME NEW q \in Requests, pc[q] \in {"record", "failed"}
        PROVE  /\ request'[q] = request[q]
               /\ \/ pc'[q] \in {"record", "failed"}
                  \/ pc[q] = "record" /\ Record(q)
    <2>1. ASSUME NEW r \in Requests,
                 \/ Start(r) \/ Read(r) \/ Refuse(r) \/ SaveSelect(r) \/ SaveUpdate(r)
                 \/ ShipOn(r) \/ ShipRefused(r) \/ Record(r)
          PROVE  request'[q] = request[q] /\ (pc'[q] = pc[q] \/ (q = r /\ Record(q)))
      BY <1>3, <2>1
      DEF Start, Read, Refuse, SaveSelect, SaveUpdate, ShipOn, ShipRefused, Record, TypeInv, TypeOK
    <2>2. ASSUME NEW r \in Requests, Abort(r)
          PROVE  request' = request /\ (pc'[q] = pc[q] \/ pc'[q] = "failed")
      BY <2>2 DEF Abort, TypeInv, TypeOK
    <2>3. QED
      BY <1>3, <2>1, <2>2 DEF Next, vars, Record
  <1>4. ASSUME NEW q \in Requests, Record(q)
        PROVE  /\ \A s \in EOrderStatus : request[q].status = s => Recorded("status", s)'
               /\ \A s \in EShippingStatus : request[q].shipping = s => Recorded("shipping_status", s)'
    <2>1. /\ request[q].op \in {"changeStatus", "changeShippingStatus"}
          /\ histories \in Seq(Entry) /\ EntryOf(request[q]) \in Entry
          /\ histories' = Append(histories, EntryOf(request[q]))
      BY <1>4, EntryOfIsEntry DEF Record, TypeInv, TypeOK, Targets
    <2>2. Len(histories') \in 1..Len(histories') /\ histories'[Len(histories')] = EntryOf(request[q])
      BY <2>1
    <2>3. Keep \notin EOrderStatus /\ Keep \notin EShippingStatus
      BY DEF Keep, EOrderStatus, EShippingStatus
    <2>4. CASE request[q].op = "changeStatus"
      BY <2>2, <2>3, <2>4 DEF EntryOf, Recorded, OneColumn
    <2>5. CASE request[q].op = "changeShippingStatus"
      BY <2>2, <2>3, <2>5 DEF EntryOf, Recorded, OneColumn
    <2>6. QED
      BY <2>1, <2>4, <2>5
  <1>5. ASSUME NEW s \in EOrderStatus, StatusAccounted(s) PROVE StatusAccounted(s)'
    BY <1>1, <1>2, <1>3, <1>4, <1>5 DEF StatusAccounted
  <1>6. ASSUME NEW s \in EShippingStatus, ShippingAccounted(s) PROVE ShippingAccounted(s)'
    BY <1>1, <1>2, <1>3, <1>4, <1>6 DEF ShippingAccounted
  <1>7. QED
    BY <1>5, <1>6

\* What a save puts into the row was there before or is accounted for when the save is through.
LEMMA SaveIsAccounted ==
  ASSUME TypeInv, RecordInv, NEW r \in Requests, SaveUpdate(r)
  PROVE  AllAccounted'
  <1>1. \A j \in 1..Len(versions) :
          /\ versions[j].status \in EOrderStatus /\ StatusAccounted(versions[j].status)
          /\ versions[j].shipping \in EShippingStatus /\ ShippingAccounted(versions[j].shipping)
    <2>1. \A j \in 1..Len(versions) : versions[j] \in Row
      BY DEF TypeInv, TypeOK
    <2>2. \A j \in 1..Len(versions) :
            StatusAccounted(versions[j].status) /\ ShippingAccounted(versions[j].shipping)
      BY DEF RecordInv, AllAccounted
    <2>3. QED
      BY <2>1, <2>2 DEF Row
  <1>2. PICK st, sh : st = row'.status /\ sh = row'.shipping
    OBVIOUS
  <1>3. /\ st \in {row.status, model[r].status} /\ sh \in {row.shipping, model[r].shipping}
        /\ row = versions[Len(versions)] /\ Len(versions) \in 1..Len(versions)
    BY <1>2, SavedIsRow DEF SaveUpdate, TypeInv, TypeOK
  <1>4. \A j \in 1..Len(versions) : \A s, t :
          /\ versions[j].status = s => StatusAccounted(s)'
          /\ versions[j].shipping = t => ShippingAccounted(t)'
    <2>1. /\ \A s \in EOrderStatus : StatusAccounted(s) => StatusAccounted(s)'
          /\ \A s \in EShippingStatus : ShippingAccounted(s) => ShippingAccounted(s)'
      BY AccountedStays DEF RecordInv, Next
    <2>2. QED
      BY <1>1, <2>1
  <1>5. /\ pc[r] = "write" /\ request' = request
        /\ request[r].op \in {"changeStatus", "changeShippingStatus"} => pc'[r] = "record"
    BY DEF SaveUpdate, AfterSave, TypeInv, TypeOK
  <1>6. StatusOrigin(r) /\ ShippingOrigin(r)
    BY <1>5 DEF RecordInv, Origins
  <1>7. StatusAccounted(st)'
    <2>1. CASE st = row.status
      BY <1>3, <1>4, <2>1
    <2>2. CASE st = model[r].status
      BY <1>4, <1>5, <1>6, <2>2 DEF StatusOrigin, StatusAccounted
    <2>3. QED
      BY <1>3, <2>1, <2>2
  <1>8. ShippingAccounted(sh)'
    <2>1. CASE sh = row.shipping
      BY <1>3, <1>4, <2>1
    <2>2. CASE sh = model[r].shipping
      BY <1>4, <1>5, <1>6, <2>2 DEF ShippingOrigin, ShippingAccounted
    <2>3. QED
      BY <1>3, <2>1, <2>2
  <1>9. \A j \in 1..Len(versions') :
          \/ j \in 1..Len(versions) /\ versions'[j] = versions[j]
          \/ versions'[j].status = st /\ versions'[j].shipping = sh
    BY <1>2, VersionsGrow
  <1>10. QED
    BY <1>4, <1>7, <1>8, <1>9 DEF AllAccounted, StatusAccounted, ShippingAccounted

LEMMA AccountedStep == TypeInv /\ RecordInv /\ [Next]_vars => AllAccounted'
  <1> SUFFICES ASSUME TypeInv, RecordInv, [Next]_vars PROVE AllAccounted'
    OBVIOUS
  <1>1. ASSUME NEW r \in Requests, SaveUpdate(r) PROVE AllAccounted'
    BY <1>1, SaveIsAccounted
  <1>2. CASE versions' = versions
    <2>1. \A j \in 1..Len(versions) : versions[j] \in Row
      BY DEF TypeInv, TypeOK
    <2>2. /\ \A s \in EOrderStatus : StatusAccounted(s) => StatusAccounted(s)'
          /\ \A s \in EShippingStatus : ShippingAccounted(s) => ShippingAccounted(s)'
      BY AccountedStays DEF RecordInv
    <2>3. ASSUME NEW j \in 1..Len(versions), NEW st, NEW sh,
                 st = versions[j].status, sh = versions[j].shipping
          PROVE  StatusAccounted(st)' /\ ShippingAccounted(sh)'
      <3>1. st \in EOrderStatus /\ sh \in EShippingStatus
        BY <2>1, <2>3 DEF Row
      <3>2. StatusAccounted(st) /\ ShippingAccounted(sh)
        BY <2>3 DEF RecordInv, AllAccounted
      <3>3. QED
        BY <2>2, <3>1, <3>2
    <2>4. QED
      BY <1>2, <2>3 DEF AllAccounted, StatusAccounted, ShippingAccounted
  <1>3. ASSUME NEW r \in Requests,
               \/ Start(r) \/ Read(r) \/ Refuse(r) \/ SaveSelect(r)
               \/ ShipOn(r) \/ ShipRefused(r) \/ Record(r) \/ Abort(r)
        PROVE  versions' = versions
    BY <1>3 DEF Start, Read, Refuse, SaveSelect, ShipOn, ShipRefused, Record, Abort
  <1>4. QED
    BY <1>1, <1>2, <1>3 DEF Next, vars

LEMMA OneColumnStep == TypeInv /\ OneColumn /\ [Next]_vars => OneColumn'
  <1> SUFFICES ASSUME TypeInv, OneColumn, [Next]_vars PROVE OneColumn'
    OBVIOUS
  <1>1. ASSUME NEW r \in Requests, Start(r) PROVE OneColumn'
    <2>1. PICK m \in Mutations : request' = [request EXCEPT ![r] = m]
      BY <1>1 DEF Start
    <2>2. QED
      BY <2>1, MutationColumns DEF OneColumn, TypeInv, TypeOK
  <1>2. ASSUME NEW r \in Requests, ShipOn(r) PROVE OneColumn'
    BY <1>2 DEF ShipOn, ChangeShippingStatus, OneColumn, TypeInv, TypeOK
  <1>3. CASE request' = request
    BY <1>3 DEF OneColumn
  <1>4. QED
    BY <1>1, <1>2, <1>3
    DEF Next, vars, Read, Refuse, SaveSelect, SaveUpdate, ShipRefused, Record, Abort

LEMMA OriginsStep == TypeInv /\ Provenance /\ Carries /\ Origins /\ [Next]_vars => Origins'
  <1> SUFFICES ASSUME TypeInv, Provenance, Carries, Origins, [Next]_vars PROVE Origins'
    OBVIOUS
  <1>1. ASSUME NEW r \in Requests, Start(r) PROVE Origins'
    BY <1>1 DEF Start, Origins, StatusOrigin, ShippingOrigin, TypeInv, TypeOK
  <1>2. ASSUME NEW r \in Requests, Read(r) PROVE Origins'
    <2>1. request[r] \in Mutations /\ request[r] \in Mutation /\ row \in Row
      BY <1>2 DEF Read, Provenance, StartedMutations, TypeInv, TypeOK
    <2>2. /\ model' = [model EXCEPT ![r] = Assigned(request[r], row)]
          /\ pc' = [pc EXCEPT ![r] = "select"] /\ UNCHANGED <<versions, request>>
      BY <1>2 DEF Read
    <2>3. Len(versions) \in 1..Len(versions) /\ row = versions[Len(versions)]
      BY DEF TypeInv, TypeOK
    <2>4. /\ Assigned(request[r], row).status = IF request[r].status = Keep THEN row.status ELSE request[r].status
          /\ Assigned(request[r], row).shipping = IF request[r].shipping = Keep THEN row.shipping ELSE request[r].shipping
      BY DEF Assigned
    <2>5. model'[r] = Assigned(request[r], row) /\ \A q \in Requests \ {r} : model'[q] = model[q] /\ pc'[q] = pc[q]
      BY <2>2 DEF TypeInv, TypeOK
    <2>6. StatusOrigin(r)'
      BY <2>1, <2>2, <2>3, <2>4, <2>5, MutationColumns DEF StatusOrigin
    <2>7. ShippingOrigin(r)'
      BY <2>1, <2>2, <2>3, <2>4, <2>5, MutationColumns DEF ShippingOrigin
    <2>8. QED
      BY <2>2, <2>5, <2>6, <2>7 DEF Origins, StatusOrigin, ShippingOrigin
  <1>3. ASSUME NEW r \in Requests, SaveUpdate(r) PROVE Origins'
    <2>1. \A j \in 1..Len(versions) : j \in 1..Len(versions') /\ versions'[j] = versions[j]
      BY <1>3, VersionsGrow
    <2>2. /\ UNCHANGED <<request, model>> /\ pc[r] = "write"
          /\ \A q \in Requests \ {r} : pc'[q] = pc[q]
          /\ pc'[r] = "ship" => request[r].op = "shippedOrder"
      BY <1>3 DEF SaveUpdate, AfterSave, TypeInv, TypeOK
    <2>3. QED
      BY <2>1, <2>2 DEF Origins, StatusOrigin, ShippingOrigin
  <1>4. ASSUME NEW r \in Requests, ShipOn(r) PROVE Origins'
    <2>1. /\ model' = [model EXCEPT ![r].shipping = "SHIPPED"]
          /\ request' = [request EXCEPT ![r] = ChangeShippingStatus("SHIPPED")]
          /\ pc' = [pc EXCEPT ![r] = "select"] /\ pc[r] = "ship"
          /\ versions' = versions
      BY <1>4 DEF ShipOn
    <2>2. /\ model'[r].shipping = "SHIPPED" /\ model'[r].status = model[r].status
          /\ \A q \in Requests \ {r} : model'[q] = model[q]
      BY <2>1 DEF TypeInv, TypeOK, Row
    <2>3. /\ request'[r].op = "changeShippingStatus" /\ request'[r].shipping = "SHIPPED"
          /\ pc'[r] = "select"
          /\ \A q \in Requests \ {r} : request'[q] = request[q] /\ pc'[q] = pc[q]
      BY <2>1 DEF ChangeShippingStatus, TypeInv, TypeOK
    <2>4. StatusOrigin(r) /\ request[r].op = "shippedOrder"
      BY <2>1 DEF Origins
    <2>5. StatusOrigin(r)' /\ ShippingOrigin(r)'
      BY <2>1, <2>2, <2>3, <2>4 DEF StatusOrigin, ShippingOrigin
    <2>6. QED
      BY <2>1, <2>2, <2>3, <2>5 DEF Origins, StatusOrigin, ShippingOrigin
  <1>5. ASSUME NEW r \in Requests,
               Refuse(r) \/ SaveSelect(r) \/ ShipRefused(r) \/ Record(r) \/ Abort(r)
        PROVE  Origins'
    <2>1. UNCHANGED <<versions, request, model>>
      BY <1>5 DEF Refuse, SaveSelect, ShipRefused, Record, Abort
    <2>2. \A q \in Requests :
            /\ pc'[q] \in {"select", "write", "ship"} => pc[q] \in {"select", "write", "ship"}
            /\ pc'[q] = "ship" => pc[q] = "ship"
      BY <1>5 DEF Refuse, SaveSelect, ShipRefused, Record, Abort, TypeInv, TypeOK
    <2>3. QED
      BY <2>1, <2>2 DEF Origins, StatusOrigin, ShippingOrigin
  <1>6. CASE UNCHANGED vars
    BY <1>6 DEF vars, Origins, StatusOrigin, ShippingOrigin
  <1>7. QED
    BY <1>1, <1>2, <1>3, <1>4, <1>5, <1>6 DEF Next

LEMMA RecordInit == Init => RecordInv
  <1> SUFFICES ASSUME Init PROVE RecordInv
    OBVIOUS
  <1>1. Len(versions) = 1
    BY DEF Init
  <1>2. AllAccounted
    BY <1>1 DEF AllAccounted, StatusAccounted, ShippingAccounted
  <1>3. Origins /\ OneColumn
    BY DEF Init, Origins, OneColumn, NoMutation
  <1>4. QED
    BY <1>2, <1>3 DEF RecordInv

\* A change of the row is missing from order_histories only while its request still has to write it
\* or if that request was cut off (releases and edits excepted), however requests interleave.
THEOREM HistoryMissesNothing == Spec => []ChangesAreRecorded
  <1>1. RecordInv => ChangesAreRecorded
    <2>1. RecordInv => \A i \in 1..Len(versions) :
             StatusAccounted(versions[i].status) /\ ShippingAccounted(versions[i].shipping)
      BY DEF RecordInv, AllAccounted
    <2>2. \A i \in 2..Len(versions) : i \in 1..Len(versions)
      OBVIOUS
    <2>3. QED
      BY <2>1, <2>2 DEF ChangesAreRecorded, StatusAccounted, ShippingAccounted
  <1>2. TypeInv /\ Provenance /\ CopiesInv /\ RecordInv /\ [Next]_vars => RecordInv'
    BY AccountedStep, OneColumnStep, OriginsStep DEF RecordInv, CopiesInv
  <1>3. QED
    BY <1>1, <1>2, RecordInit, TypeInvAlways, ProvenanceAlways, CopiesAlways, PTL DEF Spec

-----------------------------------------------------------------------------
(* The history is in order when requests come one at a time.  The entries  *)
(* sit at ascending versions.  A request about to record has just appended *)
(* the newest version, because a status handler never saves the value that *)
(* is there, and so every earlier entry sits below it.                     *)

\* The entries of hs sit at ascending places among the first n versions of vs.
Ordered(hs, vs, n) ==
    \E at \in [1..Len(hs) -> 1..n] :
        \A i \in 1..Len(hs) :
            /\ HeldBy(hs[i], vs[at[i]])
            /\ \A k \in 1..(i - 1) : at[k] < at[i]

\* The copy a status handler saves differs from the row.
Moves == \A r \in Requests :
    /\ pc[r] \in {"select", "write"}
    /\ request[r].op \in {"changeStatus", "changeShippingStatus"}
    => model[r] # row

OwedIsNewest == \A r \in Requests : pc[r] = "record" =>
    /\ HeldBy(EntryOf(request[r]), row)
    /\ Ordered(histories, versions, Len(versions) - 1)

OrderInv == Ordered(histories, versions, Len(versions)) /\ OwedIsNewest

\* Entries in order stay so when versions are appended.
LEMMA OrderedGrows ==
  ASSUME NEW hs \in Seq(Entry), NEW vs \in Seq(Row), NEW ws \in Seq(Row),
         NEW n \in Nat, NEW k \in Nat, n <= k,
         \A j \in 1..n : ws[j] = vs[j],
         Ordered(hs, vs, n)
  PROVE  Ordered(hs, ws, k)
  <1>1. PICK at \in [1..Len(hs) -> 1..n] :
          \A i \in 1..Len(hs) :
            /\ HeldBy(hs[i], vs[at[i]])
            /\ \A l \in 1..(i - 1) : at[l] < at[i]
    BY DEF Ordered
  <1>2. at \in [1..Len(hs) -> 1..k]
    <2>1. 1..n \subseteq 1..k
      OBVIOUS
    <2>2. QED
      BY <2>1
  <1>3. \A i \in 1..Len(hs) : ws[at[i]] = vs[at[i]]
    OBVIOUS
  <1>4. QED
    BY <1>1, <1>2, <1>3 DEF Ordered

\* An entry that the next version holds goes to its end.
LEMMA OrderedExtends ==
  ASSUME NEW hs \in Seq(Entry), NEW vs \in Seq(Row), NEW n \in Nat, NEW e \in Entry,
         HeldBy(e, vs[n + 1]),
         Ordered(hs, vs, n)
  PROVE  Ordered(Append(hs, e), vs, n + 1)
  <1>1. PICK at \in [1..Len(hs) -> 1..n] :
          \A i \in 1..Len(hs) :
            /\ HeldBy(hs[i], vs[at[i]])
            /\ \A k \in 1..(i - 1) : at[k] < at[i]
    BY DEF Ordered
  <1> DEFINE to == [i \in 1..(Len(hs) + 1) |-> IF i <= Len(hs) THEN at[i] ELSE n + 1]
  <1>2. Len(hs) \in Nat /\ Len(Append(hs, e)) = Len(hs) + 1
    OBVIOUS
  <1>3. \A i \in 1..Len(hs) : to[i] = at[i] /\ to[i] \in 1..n /\ Append(hs, e)[i] = hs[i]
    BY <1>2
  <1>4. to[Len(hs) + 1] = n + 1 /\ Append(hs, e)[Len(hs) + 1] = e
    BY <1>2
  <1>5. to \in [1..(Len(hs) + 1) -> 1..(n + 1)]
    BY <1>2
  <1> HIDE DEF to
  <1>6. ASSUME NEW i \in 1..(Len(hs) + 1)
        PROVE  HeldBy(Append(hs, e)[i], vs[to[i]]) /\ \A k \in 1..(i - 1) : to[k] < to[i]
    <2>1. CASE i \in 1..Len(hs)
      <3>1. \A k \in 1..(i - 1) : k \in 1..Len(hs)
        BY <1>2, <2>1
      <3>2. QED
        BY <1>1, <1>3, <2>1, <3>1
    <2>2. CASE i = Len(hs) + 1
      <3>1. \A k \in 1..(i - 1) : to[k] \in 1..n
        BY <1>2, <1>3, <2>2
      <3>2. QED
        BY <1>4, <2>2, <3>1
    <2>3. QED
      BY <1>2, <2>1, <2>2
  <1>7. QED
    BY <1>2, <1>5, <1>6 DEF Ordered

\* No status follows itself, so what passes the check is another value.
LEMMA AcceptedMoves ==
  ASSUME NEW m \in Mutations, NEW order \in Row, Accepts(m, order),
         m.op \in {"changeStatus", "changeShippingStatus"}
  PROVE  Assigned(m, order) # order
  <1>1. /\ \A s \in EOrderStatus : s \notin ORDER_TRANSITIONS[s]
        /\ \A s \in EShippingStatus : s \notin SHIPPING_TRANSITIONS[s]
    BY DEF ORDER_TRANSITIONS, SHIPPING_TRANSITIONS, EOrderStatus, EShippingStatus
  <1>2. /\ m.op = "changeStatus" => m.status # Keep
        /\ m.op = "changeShippingStatus" => m.shipping # Keep
    BY DEF Mutations, ChangeStatus, ShippedOrder, DeleteOrder, ChangeShippingStatus, UpdateOrder, Keep
  <1>3. CASE m.op = "changeStatus"
    BY <1>1, <1>2, <1>3 DEF Accepts, Assigned, Row
  <1>4. CASE m.op = "changeShippingStatus"
    BY <1>1, <1>2, <1>4 DEF Accepts, Assigned, Row
  <1>5. QED
    BY <1>3, <1>4

LEMMA MovesStep ==
  ASSUME TypeInv, Provenance, SerialInv, Moves, [Next]_vars
  PROVE  Moves'
  <1> USE DEF Moves
  <1>0. /\ row \in Row
        /\ pc \in [Requests -> {"idle", "read", "select", "write", "ship", "record", "done", "failed"}]
        /\ request \in [Requests -> Mutation]
        /\ model \in [Requests -> Row]
    BY DEF TypeInv, TypeOK
  <1>1. ASSUME NEW r \in Requests, Read(r) PROVE Moves'
    <2>1. request[r].op \in {"changeStatus", "changeShippingStatus"} => Assigned(request[r], row) # row
      BY <1>0, <1>1, AcceptedMoves DEF Read, Provenance, StartedMutations
    <2>2. QED
      BY <1>0, <1>1, <2>1 DEF Read
  <1>2. ASSUME NEW r \in Requests, SaveUpdate(r) PROVE Moves'
    <2>1. \A q \in Requests : q # r => pc'[q] = pc[q] /\ ~InFlight(q)
      BY <1>0, <1>2 DEF SaveUpdate, SerialInv, OneAtATime, InFlight
    <2>2. pc'[r] \notin {"select", "write"}
      BY <1>0, <1>2 DEF SaveUpdate, AfterSave
    <2>3. QED
      BY <2>1, <2>2 DEF InFlight
  <1>3. ASSUME NEW r \in Requests, ShipOn(r) PROVE Moves'
    <2>1. model[r] = row /\ row.shipping # "SHIPPED"
      BY <1>0, <1>3 DEF ShipOn, SerialInv, CopyIsNext, SHIPPING_TRANSITIONS, EShippingStatus, Row
    <2>2. model'[r].shipping = "SHIPPED" /\ row' = row
      BY <1>0, <1>3 DEF ShipOn, Row
    <2>3. \A q \in Requests : q # r =>
            pc'[q] = pc[q] /\ request'[q] = request[q] /\ model'[q] = model[q]
      BY <1>0, <1>3 DEF ShipOn
    <2>4. QED
      BY <2>1, <2>2, <2>3
  <1>4. ASSUME NEW r \in Requests,
               \/ Start(r) \/ Refuse(r) \/ SaveSelect(r) \/ ShipRefused(r) \/ Record(r) \/ Abort(r)
        PROVE  Moves'
    <2>1. UNCHANGED <<row, model>>
      BY <1>4 DEF Start, Refuse, SaveSelect, ShipRefused, Record, Abort
    <2>2. \A q \in Requests : pc'[q] \in {"select", "write"} =>
            pc[q] \in {"select", "write"} /\ request'[q] = request[q]
      BY <1>0, <1>4 DEF Start, Refuse, SaveSelect, ShipRefused, Record, Abort
    <2>3. QED
      BY <2>1, <2>2
  <1>5. CASE UNCHANGED vars
    BY <1>5 DEF vars
  <1>6. QED
    BY <1>1, <1>2, <1>3, <1>4, <1>5 DEF Next

LEMMA OrderStep ==
  ASSUME TypeInv, CopiesInv, SerialInv, Moves, OrderInv, [Next]_vars
  PROVE  OrderInv'
  <1>0. /\ row \in Row
        /\ pc \in [Requests -> {"idle", "read", "select", "write", "ship", "record", "done", "failed"}]
        /\ request \in [Requests -> Mutation]
        /\ model \in [Requests -> Row]
        /\ histories \in Seq(Entry)
        /\ versions \in Seq(Row) /\ Len(versions) \in Nat \ {0}
        /\ row = versions[Len(versions)]
    BY DEF TypeInv, TypeOK
  <1>1. ASSUME NEW r \in Requests, SaveUpdate(r) PROVE OrderInv'
    <2>1. row' = model[r] /\ histories' = histories /\ request' = request
      BY <1>0, <1>1, UndisturbedSave DEF SaveUpdate, SerialInv, CopyIsNext
    <2>2. /\ versions' \in Seq(Row) /\ Len(versions') \in Nat
          /\ Len(versions) <= Len(versions')
          /\ \A j \in 1..Len(versions) : versions'[j] = versions[j]
          /\ row' # row => Len(versions') = Len(versions) + 1
      BY <1>0, <1>1, <2>1 DEF SaveUpdate
    <2>3. Ordered(histories, versions', Len(versions))
      BY <1>0, <2>2, OrderedGrows DEF OrderInv
    <2>4. Ordered(histories, versions', Len(versions'))
      BY <1>0, <2>2, OrderedGrows DEF OrderInv
    <2>5. \A q \in Requests : q # r => pc'[q] = pc[q] /\ ~InFlight(q)
      BY <1>0, <1>1 DEF SaveUpdate, SerialInv, OneAtATime, InFlight
    <2>6. ASSUME pc'[r] = "record"
          PROVE  /\ HeldBy(EntryOf(request[r]), row')
                 /\ Ordered(histories, versions', Len(versions') - 1)
      <3>1. pc[r] = "write" /\ request[r].op \in {"changeStatus", "changeShippingStatus"}
        BY <1>0, <1>1, <2>6 DEF SaveUpdate, AfterSave
      <3>2. Len(versions') - 1 = Len(versions)
        BY <1>0, <2>1, <2>2, <3>1 DEF Moves
      <3>3. /\ request[r].op = "changeStatus" => model[r].status = request[r].status
            /\ request[r].op = "changeShippingStatus" => model[r].shipping = request[r].shipping
        BY <3>1 DEF CopiesInv, Carries
      <3>4. QED
        BY <2>1, <2>3, <3>1, <3>2, <3>3 DEF HeldBy, EntryOf
    <2>7. OwedIsNewest'
      BY <2>1, <2>5, <2>6 DEF OwedIsNewest, InFlight, EntryOf
    <2>8. QED
      BY <2>1, <2>4, <2>7 DEF OrderInv
  <1>2. ASSUME NEW r \in Requests, Record(r) PROVE OrderInv'
    <2>1. /\ histories' = Append(histories, EntryOf(request[r]))
          /\ UNCHANGED <<row, versions, request>>
          /\ HeldBy(EntryOf(request[r]), versions[Len(versions)])
          /\ Ordered(histories, versions, Len(versions) - 1)
      BY <1>0, <1>2 DEF Record, OrderInv, OwedIsNewest
    <2>2. EntryOf(request[r]) \in Entry
      BY <1>0, <1>2, EntryOfIsEntry DEF Record, TypeInv, Targets
    <2>3. Ordered(Append(histories, EntryOf(request[r])), versions, Len(versions))
      <3>1. Len(versions) - 1 \in Nat /\ (Len(versions) - 1) + 1 = Len(versions)
        BY <1>0
      <3>2. PICK n \in Nat : n = Len(versions) - 1 /\ n + 1 = Len(versions)
        BY <3>1
      <3>3. HeldBy(EntryOf(request[r]), versions[n + 1]) /\ Ordered(histories, versions, n)
        BY <2>1, <3>2
      <3>4. Ordered(Append(histories, EntryOf(request[r])), versions, n + 1)
        BY <1>0, <2>2, <3>3, OrderedExtends
      <3>5. QED
        BY <3>2, <3>4
    <2>4. \A q \in Requests : pc'[q] # "record"
      BY <1>0, <1>2 DEF Record, SerialInv, OneAtATime, InFlight
    <2>5. QED
      BY <2>1, <2>3, <2>4 DEF OrderInv, OwedIsNewest
  <1>3. ASSUME UNCHANGED <<row, versions, histories>>,
               \A q \in Requests : pc'[q] = "record" => pc[q] = "record" /\ request'[q] = request[q]
        PROVE  OrderInv'
    <2>1. Ordered(histories', versions', Len(versions'))
      BY <1>3 DEF OrderInv
    <2>2. OwedIsNewest'
      BY <1>3 DEF OrderInv, OwedIsNewest, EntryOf, HeldBy
    <2>3. QED
      BY <2>1, <2>2 DEF OrderInv
  <1>4. ASSUME NEW r \in Requests,
               \/ Start(r) \/ Read(r) \/ Refuse(r) \/ SaveSelect(r) \/ ShipOn(r) \/ ShipRefused(r)
               \/ Abort(r)
        PROVE  OrderInv'
    <2>1. UNCHANGED <<row, versions, histories>>
      BY <1>4 DEF Start, Read, Refuse, SaveSelect, ShipOn, ShipRefused, Abort
    <2>2. ASSUME NEW q \in Requests, pc'[q] = "record"
          PROVE  pc[q] = "record" /\ request'[q] = request[q]
      BY <1>0, <1>4, <2>2 DEF Start, Read, Refuse, SaveSelect, ShipOn, ShipRefused, Abort
    <2>3. QED
      BY <1>3, <2>1, <2>2
  <1>5. CASE UNCHANGED vars
    BY <1>3, <1>5 DEF vars
  <1>6. QED
    BY <1>1, <1>2, <1>4, <1>5 DEF Next

\* When requests come one at a time, the audit trail lists the changes in the order in which the
\* row went through them.
THEOREM SerialHistoryIsInOrder ==
  ASSUME Serialized
  PROVE  Spec => []HistoryInOrder
  <1>1. ASSUME Init PROVE Moves /\ OrderInv
    <2>1. Ordered(<<>>, versions, Len(versions))
      <3>1. 1..Len(<<>>) = {}
        OBVIOUS
      <3>2. [i \in {} |-> 1] \in [{} -> 1..Len(versions)]
        OBVIOUS
      <3>3. QED
        BY <3>1, <3>2, Zenon DEF Ordered
    <2>2. Moves /\ OwedIsNewest
      BY <1>1 DEF Init, Moves, OwedIsNewest
    <2>3. QED
      BY <1>1, <2>1, <2>2 DEF Init, OrderInv
  <1>2. TypeInv /\ Provenance /\ SerialInv /\ [Next]_vars => SerialInv'
    BY SerialStep
  <1>3. Spec => []SerialInv
    BY <1>2, SerialInit, TypeInvAlways, ProvenanceAlways, PTL DEF Spec
  <1>4. TypeInv /\ Provenance /\ SerialInv /\ Moves /\ [Next]_vars => Moves'
    BY MovesStep
  <1>5. TypeInv /\ CopiesInv /\ SerialInv /\ Moves /\ OrderInv /\ [Next]_vars => OrderInv'
    BY OrderStep
  <1>6. OrderInv => HistoryInOrder
    BY DEF OrderInv, Ordered, HistoryInOrder
  <1>7. QED
    BY <1>1, <1>3, <1>4, <1>5, <1>6, TypeInvAlways, ProvenanceAlways, CopiesAlways, PTL DEF Spec

-----------------------------------------------------------------------------
(* What follows for a whole order.                                         *)

StatusFollows(vs, i) ==
  \/ vs[i].status \in EditStatuses \cup {vs[1].status}
  \/ \E j \in 1..(i - 1) : vs[i].status \in ORDER_TRANSITIONS[vs[j].status]

ShippingFollows(vs, i) ==
  \/ vs[i].shipping \in EditShippings \cup {vs[1].shipping}
  \/ \E j \in 1..(i - 1) : vs[i].shipping \in SHIPPING_TRANSITIONS[vs[j].shipping]

EachFollows == \A i \in 1..Len(versions) : StatusFollows(versions, i) /\ ShippingFollows(versions, i)

\* A value that was there before followed on something even earlier.
LEMMA NextFollows ==
  ASSUME NEW n \in Nat \ {0}, NEW vs, NEW ws,
         \A i \in 1..n : ws[i] = vs[i] /\ StatusFollows(vs, i) /\ ShippingFollows(vs, i),
         StatusKnown(ws, n, ws[n + 1].status), ShippingKnown(ws, n, ws[n + 1].shipping)
  PROVE  \A i \in 1..(n + 1) : StatusFollows(ws, i) /\ ShippingFollows(ws, i)
  <1>1. ASSUME NEW i \in 1..n PROVE StatusFollows(ws, i) /\ ShippingFollows(ws, i)
    <2>1. 1 \in 1..n /\ \A j \in 1..(i - 1) : j \in 1..n
      OBVIOUS
    <2>2. QED
      BY <2>1 DEF StatusFollows, ShippingFollows
  <1>2. 1 \in 1..n /\ n = (n + 1) - 1 /\ \A j \in 1..n : j < n + 1
    OBVIOUS
  <1>3. StatusFollows(ws, n + 1)
    <2>1. CASE \E j \in 1..n : ws[n + 1].status = ws[j].status
      BY <1>1, <1>2, <2>1 DEF StatusFollows
    <2>2. CASE \E j \in 1..n : ws[n + 1].status \in ORDER_TRANSITIONS[ws[j].status]
      BY <1>2, <2>2 DEF StatusFollows
    <2>3. QED
      BY <2>1, <2>2 DEF StatusKnown, StatusFollows
  <1>4. ShippingFollows(ws, n + 1)
    <2>1. CASE \E j \in 1..n : ws[n + 1].shipping = ws[j].shipping
      BY <1>1, <1>2, <2>1 DEF ShippingFollows
    <2>2. CASE \E j \in 1..n : ws[n + 1].shipping \in SHIPPING_TRANSITIONS[ws[j].shipping]
      BY <1>2, <2>2 DEF ShippingFollows
    <2>3. QED
      BY <2>1, <2>2 DEF ShippingKnown, ShippingFollows
  <1>5. \A i \in 1..(n + 1) : i \in 1..n \/ i = n + 1
    OBVIOUS
  <1>6. QED
    BY <1>1, <1>3, <1>4, <1>5

\* However requests interleave, and although a stale save may bring an old status back: each status
\* that an order has was there from the start, is an editor's, or was once preceded by one that
\* leads to it in the table.  (REFUNDED came after COMPLETED, and that after SHIPPED; FAILED, to
\* which nothing leads, is only an editor's.)  The same holds of the shipping status.
THEOREM EveryStatusWasLedTo == Spec => []EachFollows
  <1>1. Init => EachFollows
    BY DEF Init, EachFollows, StatusFollows, ShippingFollows
  <1>2. TypeInv /\ EachFollows /\ StatusJustified' /\ ShippingJustified' /\ [Next]_vars => EachFollows'
    <2> SUFFICES ASSUME TypeInv, EachFollows, StatusJustified', ShippingJustified', [Next]_vars
                 PROVE  EachFollows'
      OBVIOUS
    <2> DEFINE n == Len(versions)
    <2>0. versions \in Seq(Row) /\ n \in Nat \ {0}
      BY DEF TypeInv, TypeOK
    <2>1. versions' = versions \/ versions' = Append(versions, row')
      BY DEF Next, vars, Start, Read, Refuse, SaveSelect, SaveUpdate, ShipOn, ShipRefused, Record, Abort
    <2>2. CASE versions' = versions
      BY <2>2 DEF EachFollows, StatusFollows, ShippingFollows
    <2>3. CASE versions' = Append(versions, row')
      <3>1. Len(versions') = n + 1 /\ \A i \in 1..n : versions'[i] = versions[i]
        BY <2>0, <2>3
      <3>2. /\ StatusKnown(versions', n, versions'[n + 1].status)
            /\ ShippingKnown(versions', n, versions'[n + 1].shipping)
        <4>1. n + 1 \in 2..Len(versions') /\ (n + 1) - 1 = n
          BY <2>0, <3>1
        <4>2. QED
          BY <4>1 DEF StatusJustified, ShippingJustified
      <3>3. \A i \in 1..n : /\ versions'[i] = versions[i]
                            /\ StatusFollows(versions, i) /\ ShippingFollows(versions, i)
        BY <3>1 DEF EachFollows
      <3>4. \A i \in 1..(n + 1) : StatusFollows(versions', i) /\ ShippingFollows(versions', i)
        BY <2>0, <3>2, <3>3, NextFollows
      <3>5. QED
        BY <3>1, <3>4 DEF EachFollows, StatusFollows, ShippingFollows
    <2>4. QED
      BY <2>1, <2>2, <2>3
  <1>3. QED
    BY <1>1, <1>2, TypeInvAlways, NoStatusSkipped, NoShippingSkipped, PTL DEF Spec

LEMMA SerialInvAlways ==
  ASSUME Serialized
  PROVE  Spec => []SerialInv
  <1>1. TypeInv /\ Provenance /\ SerialInv /\ [Next]_vars => SerialInv'
    BY SerialStep
  <1>2. QED
    BY <1>1, SerialInit, TypeInvAlways, ProvenanceAlways, PTL DEF Spec

\* What two overlapping requests break (a status leaves the table) cannot happen to requests that
\* come one at a time: the check in the handler and the save then see the same row.
THEOREM SerialStatusesFollowTable ==
  ASSUME Serialized
  PROVE  Spec => StatusMovesAlongTable
  <1>1. TypeInv /\ SerialInv /\ [Next]_vars
          => [row'.status # row.status =>
                row'.status \in ORDER_TRANSITIONS[row.status] \cup EditStatuses]_vars
    <2> SUFFICES ASSUME TypeInv, SerialInv, [Next]_vars, row'.status # row.status
                 PROVE  row'.status \in ORDER_TRANSITIONS[row.status] \cup EditStatuses
      OBVIOUS
    <2>1. Contract!Next
      BY StepImplementsContract DEF Contract!order
    <2>2. QED
      BY <2>1 DEF Contract!Next, Contract!ChangeStatus, Contract!ChangeShipping, Contract!Edit,
                  Contract!Delete, Contract!ORDER_TRANSITIONS, Contract!EOrderStatus,
                  ORDER_TRANSITIONS, EOrderStatus
  <1>2. QED
    BY <1>1, SerialInvAlways, TypeInvAlways, PTL DEF Spec, StatusMovesAlongTable

\* A deleted order is final: requests that come one at a time neither bring it back nor change it.
THEOREM SerialDeletedOrderIsFinal ==
  ASSUME Serialized
  PROVE  Spec => [][row.deleted => row' = row]_vars
  <1>1. TypeInv /\ SerialInv /\ [Next]_vars => [row.deleted => row' = row]_vars
    <2> SUFFICES ASSUME TypeInv, SerialInv, [Next]_vars, row.deleted
                 PROVE  row' = row
      OBVIOUS
    <2>1. UNCHANGED Contract!order
      BY StepImplementsContract DEF Contract!Next
    <2>2. row \in Row /\ row' \in Row
      BY TypeInvStep DEF TypeInv, TypeOK
    <2>3. \A v \in Row : v = [status |-> v.status, shipping |-> v.shipping, deleted |-> v.deleted]
      BY DEF Row
    <2>4. QED
      BY <2>1, <2>2, <2>3 DEF Contract!order
  <1>2. QED
    BY <1>1, SerialInvAlways, TypeInvAlways, PTL DEF Spec

=============================================================================
