--------------------------------- MODULE Cart ---------------------------------
(***************************************************************************)
(* CartService on one cart: a cart is an order with the status CART, found *)
(* by its code; its lines are order_details rows.  Every handler finds the *)
(* cart, works on the lines and ends in refreshOrder, which reads the cart *)
(* with its lines, sums them up and saves the WHOLE of what it has read,   *)
(* lines included (the relation cascades).  checkoutCart registers a       *)
(* shipping for every line at once (Promise.all), then turns the cart into *)
(* an order.  executeInTransaction hands its callback no EntityManager, so *)
(* each statement commits by itself and nothing is rolled back.            *)
(***************************************************************************)
EXTENDS Naturals, FiniteSets, Functions, FiniteSetsExt

CONSTANTS Requests,       \* requests that may be in flight on this cart
          Serialized,     \* TRUE: a request starts only when no other is in flight
          Items,          \* product, variant and unit: what tells lines apart
          Price,          \* price of each item's conversion unit
          Quantities,     \* quantities a customer asks for
          InitialCarts,   \* the carts, with their lines, to start from
          FormStatuses    \* statuses updateCart's form may carry

\* A line that belongs to the cart.
Kept == [item : Items, quantity : Nat \ {0}, attached : {TRUE}]

ASSUME CartAssumption ==
    /\ Serialized \in BOOLEAN
    /\ Quantities \subseteq Nat \ {0}
    /\ Price \in [Items -> Nat]
    /\ FormStatuses \subseteq {"CART", "PENDING"}
    /\ \A c \in InitialCarts :
         /\ IsFiniteSet(DOMAIN c) /\ DOMAIN c = 1..Cardinality(DOMAIN c)
         /\ c \in [DOMAIN c -> Kept]
         /\ \A a, b \in DOMAIN c : c[a].item = c[b].item => a = b

VARIABLES
    cart,        \* the orders row: status, code, total
    lines,       \* its order_details rows by id; attached: order_id still points to the cart
    nextId,      \* the sequence behind order_details.id
    shippings,   \* order_shippings: the line each is for and the request that made it
    histories,   \* the requests that wrote a PENDING order_histories row
    pc, request, \* where each request is and what it asks for
    copy,        \* the entities each request holds in memory
    image,       \* what the SELECT inside its save() returned
    selected,    \* whether that SELECT has been made
    task,        \* checkout's callback for each line it listed
    misread,     \* requests that went on after a read was rejected (a history variable)
    totals       \* every sum the cart's lines ever had (a history variable)

db == <<cart, lines, nextId, shippings, histories>>
vars == <<db, pc, request, copy, image, selected, task, misread, totals>>

-----------------------------------------------------------------------------

NoLines == [id \in {} |-> {}]

\* What a request holds before it has read anything, and after its end.
Blank == [cart |-> [status |-> "CART", code |-> "cart", total |-> 0], lines |-> NoLines]

Attached(ls) == {id \in DOMAIN ls : ls[id].attached}

\* summaryOrder, with summaryOrderDetail's price * quantity for each line.
Total(ls) == MapThenSumSet(LAMBDA id : Price[ls[id].item] * ls[id].quantity, Attached(ls))

\* What save() leaves in a column: the copy's value where it differs from the image.
Column(mine, read, now) == IF mine # read THEN mine ELSE now

SavedCart(mine, read, now) ==
    [status |-> Column(mine.status, read.status, now.status),
     code   |-> Column(mine.code, read.code, now.code),
     total  |-> Column(mine.total, read.total, now.total)]

\* A line the SELECT did not find is INSERTed under its old id; one that is gone by the time of
\* the UPDATE stays gone.
SavedLines(mine, read, now) ==
    [id \in DOMAIN now \cup (DOMAIN mine \ DOMAIN read) |->
        IF id \notin DOMAIN now THEN mine[id]
        ELSE IF id \notin DOMAIN mine THEN now[id]
        ELSE [item     |-> now[id].item,
              quantity |-> Column(mine[id].quantity, read[id].quantity, now[id].quantity),
              attached |-> Column(mine[id].attached, read[id].attached, now[id].attached)]]

\* The relation order_details is saved with the cart: a line of the cart that the copy does not
\* list gets order_id NULL.
Orphaned(mine, read, now) ==
    [id \in DOMAIN now |->
        [now[id] EXCEPT !.attached = @ /\ ~(id \in Attached(read) \ DOMAIN mine)]]

\* An INSERT under an id that somebody else has inserted meanwhile is refused.
Clash(mine, read, now) == (DOMAIN mine \ DOMAIN read) \cap DOMAIN now # {}

Requested(op, item, quantity, status) ==
    [op |-> op, item |-> item, quantity |-> quantity, status |-> status]

NoItem == "no item"

Mutations ==
    {Requested("addToCart", i, q, "CART") : i \in Items, q \in Quantities}
    \cup {Requested("removeFromCart", i, 0, "CART") : i \in Items}
    \cup {Requested(op, NoItem, 0, "CART") : op \in {"clearCart", "checkoutCart"}}
    \cup {Requested("updateCart", NoItem, 0, s) : s \in FormStatuses}

\* A checkout is in flight as long as one of its callbacks is.
InFlight(r) == \/ pc[r] \notin {"idle", "done", "failed"}
               \/ \E id \in DOMAIN task[r] : task[r][id] \notin {"done", "failed"}

-----------------------------------------------------------------------------

Init == /\ \E c \in InitialCarts :
             /\ lines = c
             /\ cart = [status |-> "CART", code |-> "cart", total |-> Total(c)]
             /\ nextId = Cardinality(DOMAIN c) + 1
        /\ shippings = {}
        /\ histories = {}
        /\ pc = [r \in Requests |-> "idle"]
        /\ request = [r \in Requests |-> Requested("none", NoItem, 0, "CART")]
        /\ copy = [r \in Requests |-> Blank]
        /\ image = copy
        /\ selected = [r \in Requests |-> FALSE]
        /\ task = [r \in Requests |-> NoLines]
        /\ misread = {}
        /\ totals = {cart.total}

Goto(r, where) == pc' = [pc EXCEPT ![r] = where]

Start(r) == /\ pc[r] = "idle"
            /\ Serialized => \A q \in Requests : ~InFlight(q)
            /\ \E m \in Mutations : request' = [request EXCEPT ![r] = m]
            /\ Goto(r, "getCart")
            /\ UNCHANGED <<db, copy, image, selected, task>>

AfterGetCart(op) == CASE op \in {"addToCart", "removeFromCart"} -> "getLine"
                      [] op \in {"clearCart", "checkoutCart"}   -> "listLines"
                      [] op = "updateCart"                      -> "load"

\* Mutant: getCart finds an order, whatever it is.
IsOrder(c) == c.code \in {"cart", "order"}

\* getCart({ code }).
IsCart(c) == c.code = "cart" /\ c.status = "CART"

GetCart(r) == /\ pc[r] = "getCart"
              /\ IsCart(cart)
              /\ copy' = [copy EXCEPT ![r].cart = cart]
              /\ Goto(r, AfterGetCart(request[r].op))
              /\ UNCHANGED <<db, request, image, selected, task>>

\* Where a handler goes on when a read finds nothing.  addToCart answers null for a cart and
\* creates a line, the others throw; checkoutCart's Array.isArray lets an empty list pass.
AfterNothing(op, where) ==
    CASE where = "getCart"   -> IF op = "addToCart" THEN "done" ELSE "failed"
      [] where = "getLine"   -> IF op = "addToCart" THEN "insertLine" ELSE "failed"
      [] where = "listLines" -> IF op = "clearCart" THEN "deleteLines" ELSE "ship"

NoCart(r) == /\ pc[r] = "getCart"
             /\ ~IsCart(cart)
             /\ Goto(r, AfterNothing(request[r].op, "getCart"))
             /\ UNCHANGED <<db, request, copy, image, selected, task>>

\* A read is rejected: getOne and getMany log the error and answer null or [].
MisreadNothing(r) ==
    /\ pc[r] \in {"getCart", "getLine", "listLines"}
    /\ Goto(r, AfterNothing(request[r].op, pc[r]))
    /\ UNCHANGED <<db, request, copy, image, selected, task>>

LinesOf(item) == {id \in Attached(lines) : lines[id].item = item}

\* createOrderDetail's getOne and updateOrderDetail's assignment: the new quantity REPLACES the
\* old one.  removeFromCart's getOne.
GetLine(r) ==
    /\ pc[r] = "getLine"
    /\ \E id \in LinesOf(request[r].item) :
         IF request[r].op = "addToCart"
         THEN /\ copy' = [copy EXCEPT ![r].lines =
                             [k \in {id} |-> [lines[id] EXCEPT !.quantity = request[r].quantity]]]
              /\ Goto(r, "saveLine")
         ELSE /\ copy' = [copy EXCEPT ![r].lines = Restrict(lines, {id})]
              /\ Goto(r, "deleteLines")
    /\ UNCHANGED <<db, request, image, selected, task>>

\* Mutant: createOrderDetail inserts without looking.
InsertAnyway(r) == /\ pc[r] = "getLine"
                   /\ request[r].op = "addToCart"
                   /\ Goto(r, "insertLine")
                   /\ UNCHANGED <<db, request, copy, image, selected, task>>

NoLine(r) == /\ pc[r] = "getLine"
             /\ LinesOf(request[r].item) = {}
             /\ Goto(r, AfterNothing(request[r].op, "getLine"))
             /\ UNCHANGED <<db, request, copy, image, selected, task>>

InsertLine(r) ==
    /\ pc[r] = "insertLine"
    /\ lines' = [id \in DOMAIN lines \cup {nextId} |->
                    IF id = nextId THEN [item |-> request[r].item, quantity |-> request[r].quantity,
                                         attached |-> TRUE]
                    ELSE lines[id]]
    /\ nextId' = nextId + 1
    /\ Goto(r, "load")
    /\ UNCHANGED <<cart, shippings, histories, request, copy, image, selected, task>>

\* getMany.
ListLines(r) ==
    /\ pc[r] = "listLines"
    /\ copy' = [copy EXCEPT ![r].lines = Restrict(lines, Attached(lines))]
    /\ IF request[r].op = "clearCart"
       THEN Goto(r, "deleteLines") /\ UNCHANGED task
       ELSE /\ task' = [task EXCEPT ![r] = [id \in Attached(lines) |-> "ship"]]
            /\ Goto(r, "ship")
    /\ UNCHANGED <<db, request, image, selected>>

\* Mutant: the database does not delete the shippings of a deleted line.
DeleteLinesOnly(r) ==
    /\ pc[r] = "deleteLines"
    /\ lines' = Restrict(lines, DOMAIN lines \ DOMAIN copy[r].lines)
    /\ Goto(r, "load")
    /\ UNCHANGED <<cart, nextId, shippings, histories, request, copy, image, selected, task>>

\* hardDelete and bulkHardDelete; the foreign key deletes the lines' shippings with them.
DeleteLines(r) ==
    /\ pc[r] = "deleteLines"
    /\ lines' = Restrict(lines, DOMAIN lines \ DOMAIN copy[r].lines)
    /\ shippings' = {s \in shippings : s.line \in DOMAIN lines'}
    /\ Goto(r, "load")
    /\ UNCHANGED <<cart, nextId, histories, request, copy, image, selected, task>>

-----------------------------------------------------------------------------
(* createOrderShipping, one callback per line.  When one of them rejects,  *)
(* Promise.all rejects at once, and the others go on by themselves.        *)

TaskAt(r, id, where) == id \in DOMAIN task[r] /\ task[r][id] = where
TaskTo(r, id, where) == task' = [task EXCEPT ![r][id] = where]

ShipLine(r, id) ==
    /\ TaskAt(r, id, "ship")
    /\ id \in DOMAIN lines
    /\ shippings' = shippings \cup {[line |-> id, by |-> r]}
    /\ TaskTo(r, id, "get")
    /\ UNCHANGED <<cart, lines, nextId, histories, pc, request, copy, image, selected>>

\* orderDetailService.update: read the line again and save the whole of it.
GetShipped(r, id) ==
    /\ TaskAt(r, id, "get")
    /\ id \in DOMAIN lines
    /\ copy' = [copy EXCEPT ![r].lines[id] = lines[id]]
    /\ TaskTo(r, id, "select")
    /\ UNCHANGED <<db, pc, request, image, selected>>

SelectShipped(r, id) ==
    /\ TaskAt(r, id, "select")
    /\ image' = [image EXCEPT ![r].lines =
                    [k \in (DOMAIN @ \ {id}) \cup ({id} \cap DOMAIN lines) |->
                        IF k = id THEN lines[id] ELSE @[k]]]
    /\ TaskTo(r, id, "save")
    /\ UNCHANGED <<db, pc, request, copy, selected>>

SaveShipped(r, id) ==
    LET mine == Restrict(copy[r].lines, {id})
    IN  /\ TaskAt(r, id, "save")
        /\ ~Clash(mine, image[r].lines, lines)
        /\ lines' = SavedLines(mine, image[r].lines, lines)
        /\ TaskTo(r, id, "done")
        /\ UNCHANGED <<cart, nextId, shippings, histories, pc, request, copy, image, selected>>

\* The line is gone (foreign key, or 'Không tìm thấy đối tượng'), or a statement rejects.
FailTask(r, id) ==
    /\ id \in DOMAIN task[r]
    /\ task[r][id] \notin {"done", "failed"}
    /\ TaskTo(r, id, "failed")
    /\ Goto(r, "failed")
    /\ UNCHANGED <<db, request, copy, image, selected>>

\* Mutant: checkoutCart does not wait for the callbacks.
AllStarted(r) == /\ pc[r] = "ship"
                 /\ copy' = [copy EXCEPT ![r].cart.status = "PENDING", ![r].cart.code = "order"]
                 /\ Goto(r, "place")
                 /\ UNCHANGED <<db, request, image, selected, task>>

\* Mutant: checkoutCart forgets to give the order a code.
AllShippedKeepCode(r) == /\ pc[r] = "ship"
                         /\ \A id \in DOMAIN task[r] : task[r][id] = "done"
                         /\ copy' = [copy EXCEPT ![r].cart.status = "PENDING"]
                         /\ Goto(r, "place")
                         /\ UNCHANGED <<db, request, image, selected, task>>

AllShipped(r) == /\ pc[r] = "ship"
                 /\ \A id \in DOMAIN task[r] : task[r][id] = "done"
                 /\ copy' = [copy EXCEPT ![r].cart.status = "PENDING", ![r].cart.code = "order"]
                 /\ Goto(r, "place")
                 /\ UNCHANGED <<db, request, image, selected, task>>

\* changeStatus(PENDING, skipValidation) reads the order again.
GetPlaced(r) == /\ pc[r] = "getPlaced"
                /\ copy' = [copy EXCEPT ![r].cart = [cart EXCEPT !.status = "PENDING"]]
                /\ Goto(r, "changeStatus")
                /\ UNCHANGED <<db, request, image, selected, task>>

\* afterStatusChange.
Record(r) == /\ pc[r] = "record"
             /\ histories' = histories \cup {r}
             /\ Goto(r, "load")
             /\ UNCHANGED <<cart, lines, nextId, shippings, request, copy, image, selected, task>>

-----------------------------------------------------------------------------
(* refreshOrder, and the updateOrder of updateCart: the order by its id,   *)
(* whatever its status, with its lines.                                    *)

\* Mutant: addToCart adds the price to the total it finds, instead of summing up.
LoadAndAdd(r) ==
    /\ pc[r] = "load"
    /\ copy' = [copy EXCEPT ![r] =
                   [cart  |-> [cart EXCEPT !.total = IF request[r].op = "addToCart"
                                                     THEN @ + Price[request[r].item]
                                                              * request[r].quantity
                                                     ELSE Total(lines),
                                           !.status = IF request[r].op = "updateCart"
                                                      THEN request[r].status ELSE @],
                    lines |-> Restrict(lines, Attached(lines))]]
    /\ Goto(r, "refresh")
    /\ UNCHANGED <<db, request, image, selected, task>>

\* Mutant: refreshOrder saves only the lines its request has touched.
LoadTouched(r) ==
    /\ pc[r] = "load"
    /\ copy' = [copy EXCEPT ![r].cart = [cart EXCEPT !.total = Total(lines)]]
    /\ Goto(r, "refresh")
    /\ UNCHANGED <<db, request, image, selected, task>>

Load(r) ==
    /\ pc[r] = "load"
    /\ copy' = [copy EXCEPT ![r] =
                   [cart  |-> [cart EXCEPT !.total = Total(lines),
                                           !.status = IF request[r].op = "updateCart"
                                                      THEN request[r].status ELSE @],
                    lines |-> Restrict(lines, Attached(lines))]]
    /\ Goto(r, "refresh")
    /\ UNCHANGED <<db, request, image, selected, task>>

\* The saves.  First their SELECT ...
Select(r) == /\ pc[r] \in {"saveLine", "place", "changeStatus", "refresh"}
             /\ ~selected[r]
             /\ image' = [image EXCEPT ![r] = [cart |-> cart, lines |-> lines]]
             /\ selected' = [selected EXCEPT ![r] = TRUE]
             /\ UNCHANGED <<db, pc, request, copy, task>>

\* ... then what they write.
Saving(r, what, next) == /\ pc[r] = what
                         /\ selected[r]
                         /\ selected' = [selected EXCEPT ![r] = FALSE]
                         /\ image' = [image EXCEPT ![r] = Blank]
                         /\ copy' = IF next = "done" THEN [copy EXCEPT ![r] = Blank] ELSE copy
                         /\ Goto(r, next)
                         /\ UNCHANGED <<nextId, shippings, histories, request, task>>

SaveLine(r) == /\ Saving(r, "saveLine", "load")
               /\ ~Clash(copy[r].lines, image[r].lines, lines)
               /\ lines' = SavedLines(copy[r].lines, image[r].lines, lines)
               /\ UNCHANGED cart

SaveCart(r) == /\ \/ Saving(r, "place", "getPlaced")
                  \/ Saving(r, "changeStatus", "record")
               /\ cart' = SavedCart(copy[r].cart, image[r].cart, cart)
               /\ UNCHANGED lines

Refresh(r) == /\ Saving(r, "refresh", "done")
              /\ ~Clash(copy[r].lines, image[r].lines, lines)
              /\ cart' = SavedCart(copy[r].cart, image[r].cart, cart)
              /\ lines' = Orphaned(copy[r].lines, image[r].lines,
                                   SavedLines(copy[r].lines, image[r].lines, lines))

\* A statement rejects or the process stops; what was written stays written, and callbacks go on.
Abort(r) ==
    /\ pc[r] \notin {"idle", "done", "failed"}
    /\ Goto(r, "failed")
    /\ IF \A id \in DOMAIN task[r] : task[r][id] = "done"
       THEN /\ copy' = [copy EXCEPT ![r] = Blank]
            /\ image' = [image EXCEPT ![r] = Blank]
            /\ selected' = [selected EXCEPT ![r] = FALSE]
       ELSE UNCHANGED <<copy, image, selected>>
    /\ UNCHANGED <<db, request, task>>

Step(r) ==
    \/ Start(r) \/ GetCart(r) \/ NoCart(r) \/ GetLine(r) \/ NoLine(r) \/ InsertLine(r)
    \/ ListLines(r) \/ DeleteLines(r) \/ AllShipped(r) \/ GetPlaced(r) \/ Record(r)
    \/ Load(r) \/ Select(r) \/ SaveLine(r) \/ SaveCart(r) \/ Refresh(r) \/ Abort(r)
    \/ \E id \in DOMAIN task[r] :
         ShipLine(r, id) \/ GetShipped(r, id) \/ SelectShipped(r, id) \/ SaveShipped(r, id)
         \/ FailTask(r, id)

Next == /\ \E r \in Requests : \/ Step(r) /\ UNCHANGED misread
                               \/ /\ MisreadNothing(r)
                                  /\ misread' = IF pc'[r] \in {"done", "failed"} THEN misread
                                                 ELSE misread \cup {r}
        /\ totals' = totals \cup {Total(lines')}

Spec == Init /\ [][Next]_vars

-----------------------------------------------------------------------------
(* Properties.                                                             *)

Line == [item : Items, quantity : Nat \ {0}, attached : BOOLEAN]
IsLines(ls) == \A id \in DOMAIN ls : id \in 1..(nextId - 1) /\ ls[id] \in Line
IsHeld(h) == /\ h.cart \in [status : {"CART", "PENDING"}, code : {"cart", "order"}, total : Nat]
             /\ IsLines(h.lines)

TypeOK ==
    /\ IsHeld([cart |-> cart, lines |-> lines])
    /\ \A s \in shippings : s.line \in DOMAIN lines /\ s.by \in Requests
    /\ histories \subseteq Requests
    /\ \A r \in Requests : IsHeld(copy[r]) /\ IsHeld(image[r])
    /\ selected \in [Requests -> BOOLEAN]
    /\ misread \subseteq Requests

\* Requests read and write the cart out of step, and saves are stale; yet every total that is
\* ever stored was, at one moment, the sum of the cart's lines: nobody stores a sum of lines
\* from different moments.
TotalWasTrue == cart.total \in totals

\* However requests interleave, the cart gets the code of an order only from a checkout that has
\* registered the shipping of every line it listed.
PlacedByFullCheckout ==
    cart.code = "order" =>
        \E r \in Requests : /\ request[r].op = "checkoutCart"
                            /\ pc[r] \notin {"getCart", "listLines", "ship"}
                            /\ \A id \in DOMAIN task[r] : task[r][id] = "done"

\* The remaining properties are those of requests that come one at a time; any of them may have
\* been cut off half way.

\* createOrderDetail's look-up before the insert keeps one line per item in the cart; only an
\* addToCart whose look-up was rejected, and taken for "not found", inserts a second one.
OneLinePerItem ==
    \A a, b \in Attached(lines) :
        lines[a].item = lines[b].item =>
            \/ a = b
            \/ \E r \in misread : request[r].op = "addToCart" /\ request[r].item = lines[a].item

\* The cascading save of refreshOrder cuts no line off from its cart.
NoOrphans == DOMAIN lines = Attached(lines)

\* Whatever an earlier request left unfinished, a refresh that ends makes the total the sum of
\* the lines.
RefreshRepairs ==
    [][\A r \in Requests :
         pc[r] = "refresh" /\ pc'[r] = "done" => cart'.total = Total(lines')]_vars

\* Once a checkout has answered, and whatever requests follow, the cart is an order with a code
\* of its own, its PENDING history, the right total and this checkout's shipping for each line
\* (for none, if the list of lines was rejected and taken for an empty one).
CheckoutIsComplete ==
    \A r \in Requests :
        request[r].op = "checkoutCart" /\ pc[r] = "done" =>
            /\ cart = [status |-> "PENDING", code |-> "order", total |-> Total(lines)]
            /\ r \in histories
            /\ r \notin misread =>
                 \A id \in Attached(lines) : [line |-> id, by |-> r] \in shippings

\* A line is shipped twice only when a checkout that failed is tried again: the shippings it had
\* registered are not rolled back.
OnlyRetriesShipTwice ==
    \A s, t \in shippings :
        s.line = t.line /\ s.by # t.by => pc[s.by] = "failed" \/ pc[t.by] = "failed"

\* What a customer sees of the lines.
Basket(ls) == [id \in Attached(ls) |-> [item |-> ls[id].item, quantity |-> ls[id].quantity]]

Misled(op) == {r \in misread : request[r].op = op}

Contract == INSTANCE CartContract WITH
    Baskets   <- {Basket(c) : c \in InitialCarts},
    basket    <- Basket(lines),
    total     <- cart.total, status <- cart.status, code <- cart.code,
    announced <- {s.line : s \in shippings},
    unseen    <- {request[r].item : r \in Misled("addToCart")},
    unlisted  <- Misled("checkoutCart") # {}

\* When requests come one at a time, the handlers implement the contract, wherever they are cut
\* off: one line is put in, changed or removed at a time, or all at once; the total follows only
\* at the end of a request; an order is placed once, with all its lines shipped, and keeps them.
ImplementsContract == Contract!Spec

\* What checkoutCart's error message says: a checkout of a cart without products is refused
\* ('Không tìm thấy sản phẩm trong giỏ hàng').
CheckoutNeedsProducts ==
    \A r \in Requests :
        request[r].op = "checkoutCart" /\ pc[r] = "done" => DOMAIN task[r] # {}

=============================================================================
