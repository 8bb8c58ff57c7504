------------------------------ MODULE CartProofs ------------------------------
(***************************************************************************)
(* Theorems about Cart for any requests, any items, prices and quantities  *)
(* and any carts to start from, however the requests interleave.           *)
(***************************************************************************)
EXTENDS CartTotals

-----------------------------------------------------------------------------
(* Shapes.  What most proofs need of the types: which records and          *)
(* functions there are.                                                    *)

CartShape(c) == DOMAIN c = {"status", "code", "total"}

Held(h) == DOMAIN h = {"cart", "lines"} /\ CartShape(h.cart)

Places == {"idle", "getCart", "getLine", "listLines", "insertLine", "deleteLines", "ship", "saveLine",
           "place", "getPlaced", "changeStatus", "record", "load", "refresh", "done", "failed"}

Maps ==
    /\ pc \in [Requests -> Places]
    /\ DOMAIN request = Requests
    /\ DOMAIN task = Requests
    /\ DOMAIN copy = Requests

\* Which handler is where.
Whereabouts == \A r \in Requests :
    /\ pc[r] \in Places \ {"idle", "done", "failed"} =>
         request[r].op \in {"addToCart", "removeFromCart", "clearCart", "checkoutCart", "updateCart"}
    /\ pc[r] = "listLines" => request[r].op \in {"clearCart", "checkoutCart"}
    /\ pc[r] \in {"ship", "place", "getPlaced", "changeStatus", "record"} =>
         request[r].op = "checkoutCart"

Shape == Maps /\ Whereabouts /\ CartShape(cart) /\ \A r \in Requests : Held(copy[r])

\* Places at which a request holds a cart that it has read.
Holding == Places \ {"idle", "getCart", "done", "failed"}

LEMMA OpsOfMutations ==
  \A m \in Mutations :
    m.op \in {"addToCart", "removeFromCart", "clearCart", "checkoutCart", "updateCart"}
  BY DEF Mutations, Requested

\* Where a handler goes on.
LEMMA Goings ==
  ASSUME NEW op \in {"addToCart", "removeFromCart", "clearCart", "checkoutCart", "updateCart"}
  PROVE  /\ AfterGetCart(op) \in {"getLine", "listLines", "load"}
         /\ AfterGetCart(op) = "listLines" => op \in {"clearCart", "checkoutCart"}
         /\ AfterNothing(op, "getCart") \in {"done", "failed"}
         /\ AfterNothing(op, "getLine") \in {"insertLine", "failed"}
         /\ AfterNothing(op, "listLines") \in {"deleteLines", "ship"}
         /\ AfterNothing(op, "listLines") = "ship" => op # "clearCart"
  BY DEF AfterGetCart, AfterNothing

\* The steps of one request, those of its callbacks included.
Acts(r) == Step(r) \/ MisreadNothing(r)

LEMMA NextActs == [Next]_vars => UNCHANGED vars \/ \E r \in Requests : Acts(r)
  BY DEF Next, Acts

\* What a step leaves alone: the other requests.
LEMMA OthersStay ==
  ASSUME Shape, NEW r \in Requests, Acts(r)
  PROVE  \A q \in Requests : q # r =>
           pc'[q] = pc[q] /\ request'[q] = request[q] /\ task'[q] = task[q] /\ copy'[q] = copy[q]
  BY DEF Acts, Step, Shape, Maps, Goto, TaskTo, Start, GetCart, NoCart, GetLine, NoLine, InsertLine, ListLines,
         DeleteLines, AllShipped, GetPlaced, Record, Load, Select, SaveLine, SaveCart, Refresh,
         Saving, Abort, ShipLine, GetShipped, SelectShipped, SaveShipped, FailTask, MisreadNothing,
         db

\* The cart that a copy holds after each step of its request.
LEMMA CopiesOfSteps ==
  ASSUME Shape, NEW r \in Requests, Acts(r)
  PROVE  /\ Held(copy'[r])
         /\ \/ copy'[r].cart = copy[r].cart /\ pc'[r] = "failed"
            \/ copy'[r].cart = copy[r].cart /\ (pc'[r] \in Holding => pc[r] \in Holding)
            \/ copy'[r] = Blank /\ pc'[r] \in {"done", "failed"}
            \/ AllShipped(r) /\ copy'[r].cart.total = copy[r].cart.total
            \/ lines' = lines
               /\ copy'[r].cart.code = cart.code
               /\ copy'[r].cart.total \in {cart.total, Total(lines)}
  <1>0. r \in DOMAIN copy /\ Held(copy[r]) /\ CartShape(cart) /\ pc \in [Requests -> Places]
    BY DEF Shape, Maps
  <1>1. CASE Start(r) \/ NoCart(r) \/ NoLine(r) \/ InsertLine(r) \/ DeleteLines(r) \/ Record(r)
             \/ Select(r) \/ MisreadNothing(r)
    BY <1>0, <1>1
    DEF Holding, Goto, Start, NoCart, NoLine, InsertLine, DeleteLines, Record, Select,
        MisreadNothing, AfterNothing, db
  <1>2. CASE GetCart(r)
    BY <1>0, <1>2 DEF Held, CartShape, GetCart, db
  <1>3. CASE GetPlaced(r)
    <2>1. copy'[r] = [copy[r] EXCEPT !.cart = [cart EXCEPT !.status = "PENDING"]] /\ lines' = lines
      BY <1>0, <1>3 DEF GetPlaced, db
    <2>2. QED
      BY <1>0, <2>1 DEF Held, CartShape
  <1>4. CASE Load(r)
    <2>1. PICK s, ls, t :
            /\ copy'[r] = [cart |-> [cart EXCEPT !.total = t, !.status = s], lines |-> ls]
            /\ t = Total(lines) /\ lines' = lines
      BY <1>0, <1>4 DEF Load, db
    <2>2. PICK c : c = [cart EXCEPT !.total = t, !.status = s]
      OBVIOUS
    <2>3. CartShape(c) /\ c.total = t /\ c.code = cart.code
      BY <1>0, <2>2 DEF CartShape
    <2>4. copy'[r] = [cart |-> c, lines |-> ls]
      BY <2>1, <2>2
    <2>5. copy'[r].cart = c /\ DOMAIN copy'[r] = {"cart", "lines"}
      BY <2>4
    <2>6. QED
      BY <2>1, <2>3, <2>5 DEF Held
  <1>5. CASE AllShipped(r)
    BY <1>0, <1>5 DEF Held, CartShape, AllShipped
  <1>6. CASE GetLine(r) \/ ListLines(r)
    <2>1. \E ls : copy' = [copy EXCEPT ![r].lines = ls]
      BY <1>6 DEF GetLine, ListLines
    <2>2. copy'[r].cart = copy[r].cart /\ DOMAIN copy'[r] = {"cart", "lines"}
      BY <1>0, <2>1 DEF Held
    <2>3. pc[r] \in Holding
      BY <1>6 DEF Holding, Places, GetLine, ListLines
    <2>4. QED
      BY <1>0, <2>2, <2>3 DEF Held
  <1>7. CASE SaveLine(r) \/ SaveCart(r) \/ Refresh(r) \/ Abort(r)
    BY <1>0, <1>7 DEF Held, CartShape, Holding, Places, Goto, SaveLine, SaveCart, Refresh, Saving, Abort, Blank
  <1>8. ASSUME NEW id \in DOMAIN task[r],
               ShipLine(r, id) \/ GetShipped(r, id) \/ SelectShipped(r, id) \/ SaveShipped(r, id)
               \/ FailTask(r, id)
        PROVE  /\ Held(copy'[r])
               /\ copy'[r].cart = copy[r].cart
               /\ pc'[r] = "failed" \/ pc'[r] = pc[r]
    BY <1>0, <1>8 DEF Held, Goto, ShipLine, GetShipped, SelectShipped, SaveShipped, FailTask
  <1>9. QED
    BY <1>1, <1>2, <1>3, <1>4, <1>5, <1>6, <1>7, <1>8 DEF Acts, Step

\* The cart after a step: a column keeps its value or takes that of a copy that is held.
LEMMA CartOfSteps ==
  ASSUME Shape, NEW r \in Requests, Acts(r)
  PROVE  /\ CartShape(cart')
         /\ \/ cart' = cart
            \/ /\ pc[r] \in {"place", "changeStatus", "refresh"}
               /\ cart'.total \in {cart.total, copy[r].cart.total}
               /\ cart'.code \in {cart.code, copy[r].cart.code}
  <1>1. CASE SaveCart(r) \/ Refresh(r)
    <2>1. cart' = SavedCart(copy[r].cart, image[r].cart, cart) /\ pc[r] \in {"place", "changeStatus", "refresh"}
      BY <1>1 DEF SaveCart, Refresh, Saving
    <2>2. QED
      BY <2>1 DEF SavedCart, Column, CartShape
  <1>2. CASE cart' = cart
    BY <1>2 DEF Shape
  <1>3. QED
    BY <1>1, <1>2
    DEF Acts, Step, Start, GetCart, NoCart, GetLine, NoLine, InsertLine, ListLines, DeleteLines, AllShipped,
        GetPlaced, Record, Load, Select, SaveLine, Abort, ShipLine, GetShipped, SelectShipped, SaveShipped,
        FailTask, MisreadNothing, db

\* Where a request and its callbacks are after a step.
LEMMA ControlOfSteps ==
  ASSUME Shape, NEW r \in Requests, Acts(r)
  PROVE  Maps' /\ Whereabouts'
  <1>0. Maps /\ Whereabouts
    BY DEF Shape
  <1>1. ASSUME UNCHANGED request, DOMAIN task' = Requests, DOMAIN copy' = Requests,
               NEW where \in Places, pc' = [pc EXCEPT ![r] = where],
               where \in {"done", "failed"}
               \/ /\ pc[r] \in Places \ {"idle", "done", "failed"}
                  /\ where # "idle"
                  /\ where = "listLines" => request[r].op \in {"clearCart", "checkoutCart"}
                  /\ where \in {"ship", "place", "getPlaced", "changeStatus", "record"} =>
                       request[r].op = "checkoutCart"
        PROVE  Maps' /\ Whereabouts'
    BY <1>0, <1>1 DEF Maps, Whereabouts, Places
  <1>2. CASE Start(r)
    <2>1. pc' = [pc EXCEPT ![r] = "getCart"] /\ UNCHANGED <<task, copy>>
      BY <1>2 DEF Start, Goto
    <2>2. PICK m \in Mutations : request' = [request EXCEPT ![r] = m]
      BY <1>2 DEF Start
    <2>3. m.op \in {"addToCart", "removeFromCart", "clearCart", "checkoutCart", "updateCart"}
      BY OpsOfMutations
    <2>4. QED
      BY <1>0, <2>1, <2>2, <2>3 DEF Maps, Whereabouts, Places
  <1>3. CASE GetCart(r) \/ NoCart(r) \/ NoLine(r) \/ MisreadNothing(r)
    <2>1. request[r].op \in {"addToCart", "removeFromCart", "clearCart", "checkoutCart", "updateCart"}
      BY <1>0, <1>3 DEF Whereabouts, Places, GetCart, NoCart, NoLine, MisreadNothing
    <2>2. UNCHANGED request /\ DOMAIN task' = Requests /\ DOMAIN copy' = Requests
      BY <1>0, <1>3 DEF Maps, GetCart, NoCart, NoLine, MisreadNothing
    <2>3. \/ pc[r] = "getCart" /\ pc' = [pc EXCEPT ![r] = AfterGetCart(request[r].op)]
          \/ /\ pc[r] \in {"getCart", "getLine", "listLines"}
             /\ pc' = [pc EXCEPT ![r] = AfterNothing(request[r].op, pc[r])]
      BY <1>3 DEF GetCart, NoCart, NoLine, MisreadNothing, Goto
    <2>4. pc[r] = "listLines" => request[r].op \in {"clearCart", "checkoutCart"}
      BY <1>0 DEF Whereabouts
    <2>5. PICK op : op = request[r].op
      OBVIOUS
    <2>6. PICK where : /\ pc' = [pc EXCEPT ![r] = where]
                       /\ \/ pc[r] = "getCart" /\ where = AfterGetCart(op)
                          \/ pc[r] = "getCart" /\ where = AfterNothing(op, "getCart")
                          \/ pc[r] = "getLine" /\ where = AfterNothing(op, "getLine")
                          \/ pc[r] = "listLines" /\ where = AfterNothing(op, "listLines")
      BY <2>3, <2>5
    <2>7. /\ where \in {"done", "failed", "getLine", "listLines", "load", "insertLine", "deleteLines", "ship"}
          /\ where = "listLines" => op \in {"clearCart", "checkoutCart"}
          /\ where = "ship" => op = "checkoutCart"
      BY <2>1, <2>4, <2>5, <2>6, Goings
    <2>8. where \in Places /\ pc[r] \in Places \ {"idle", "done", "failed"}
      BY <2>6, <2>7 DEF Places
    <2>9. QED
      BY <1>1, <2>2, <2>5, <2>6, <2>7, <2>8
  <1>4. CASE GetLine(r) \/ InsertLine(r) \/ DeleteLines(r) \/ Load(r)
    <2>1. \E where \in {"saveLine", "deleteLines", "load", "refresh"} : pc' = [pc EXCEPT ![r] = where]
      BY <1>4 DEF GetLine, InsertLine, DeleteLines, Load, Goto
    <2>2. UNCHANGED request /\ DOMAIN task' = Requests /\ DOMAIN copy' = Requests
      BY <1>0, <1>4 DEF Maps, GetLine, InsertLine, DeleteLines, Load
    <2>3. pc[r] \in Places \ {"idle", "done", "failed"}
      BY <1>4 DEF Places, GetLine, InsertLine, DeleteLines, Load
    <2>4. QED
      BY <1>1, <2>1, <2>2, <2>3 DEF Places
  <1>5. CASE ListLines(r)
    <2>1. /\ pc[r] = "listLines"
          /\ \/ pc' = [pc EXCEPT ![r] = "deleteLines"]
             \/ request[r].op # "clearCart" /\ pc' = [pc EXCEPT ![r] = "ship"]
      BY <1>5 DEF ListLines, Goto
    <2>2. UNCHANGED request /\ DOMAIN task' = Requests /\ DOMAIN copy' = Requests
      BY <1>0, <1>5 DEF Maps, ListLines
    <2>3. request[r].op \in {"clearCart", "checkoutCart"}
      BY <1>0, <2>1 DEF Whereabouts
    <2>4. QED
      BY <1>1, <2>1, <2>2, <2>3 DEF Places
  <1>6. CASE AllShipped(r) \/ GetPlaced(r) \/ Record(r) \/ SaveLine(r) \/ SaveCart(r) \/ Refresh(r)
    <2>1. \/ pc[r] \in {"ship", "place", "getPlaced", "changeStatus", "record"}
             /\ \E where \in {"place", "getPlaced", "changeStatus", "record", "load"} :
                  pc' = [pc EXCEPT ![r] = where]
          \/ pc[r] = "saveLine" /\ pc' = [pc EXCEPT ![r] = "load"]
          \/ pc[r] = "refresh" /\ pc' = [pc EXCEPT ![r] = "done"]
      BY <1>6 DEF AllShipped, GetPlaced, Record, SaveLine, SaveCart, Refresh, Saving, Goto
    <2>2. UNCHANGED request /\ DOMAIN task' = Requests /\ DOMAIN copy' = Requests
      BY <1>0, <1>6 DEF Maps, AllShipped, GetPlaced, Record, SaveLine, SaveCart, Refresh, Saving
    <2>3. pc[r] \in {"ship", "place", "getPlaced", "changeStatus", "record"} =>
            request[r].op = "checkoutCart"
      BY <1>0 DEF Whereabouts
    <2>4. QED
      BY <1>1, <2>1, <2>2, <2>3 DEF Places
  <1>7. CASE Abort(r)
    <2>1. UNCHANGED request /\ DOMAIN task' = Requests /\ DOMAIN copy' = Requests
      BY <1>0, <1>7 DEF Maps, Abort
    <2>2. QED
      BY <1>1, <1>7, <2>1 DEF Abort, Goto, Places
  <1>8. CASE Select(r)
    BY <1>0, <1>8 DEF Maps, Whereabouts, Select
  <1>9. ASSUME NEW id \in DOMAIN task[r],
               ShipLine(r, id) \/ GetShipped(r, id) \/ SelectShipped(r, id) \/ SaveShipped(r, id)
               \/ FailTask(r, id)
        PROVE  Maps' /\ Whereabouts'
    <2>1. /\ UNCHANGED request /\ DOMAIN task' = Requests /\ DOMAIN copy' = Requests
          /\ pc' = pc \/ pc' = [pc EXCEPT ![r] = "failed"]
      BY <1>0, <1>9
      DEF Maps, ShipLine, GetShipped, SelectShipped, SaveShipped, FailTask, Goto, TaskTo
    <2>2. QED
      BY <1>0, <1>1, <2>1 DEF Maps, Whereabouts, Places
  <1>10. QED
    BY <1>2, <1>3, <1>4, <1>5, <1>6, <1>7, <1>8, <1>9 DEF Acts, Step

LEMMA ShapeStep == Shape /\ [Next]_vars => Shape'
  <1> SUFFICES ASSUME Shape, [Next]_vars PROVE Shape'
    OBVIOUS
  <1>1. ASSUME NEW r \in Requests, Acts(r) PROVE Shape'
    <2>1. Maps' /\ Whereabouts'
      BY <1>1, ControlOfSteps
    <2>2. CartShape(cart)'
      BY <1>1, CartOfSteps DEF CartShape
    <2>3. \A q \in Requests : Held(copy[q])'
      BY <1>1, CopiesOfSteps, OthersStay DEF Shape, Held, CartShape
    <2>4. QED
      BY <2>1, <2>2, <2>3 DEF Shape
  <1>2. CASE UNCHANGED vars
    BY <1>2 DEF Shape, Maps, Whereabouts, CartShape, Held, vars, db
  <1>3. QED
    BY <1>1, <1>2, NextActs

LEMMA ShapeAlways == Spec => []Shape
  <1>1. Init => Shape
    BY DEF Init, Shape, Maps, Whereabouts, Places, CartShape, Held, Blank
  <1>2. QED
    BY <1>1, ShapeStep, PTL DEF Spec

-----------------------------------------------------------------------------
(* Every stored total was true.                                            *)

CopiesWereTrue == \A r \in Requests : pc[r] \in Holding => copy[r].cart.total \in totals

LEMMA TotalsStep ==
  Shape /\ TotalWasTrue /\ CopiesWereTrue /\ [Next]_vars => TotalWasTrue' /\ CopiesWereTrue'
  <1> SUFFICES ASSUME Shape, TotalWasTrue, CopiesWereTrue, [Next]_vars
               PROVE  TotalWasTrue' /\ CopiesWereTrue'
    OBVIOUS
  <1>1. CASE UNCHANGED vars
    BY <1>1 DEF TotalWasTrue, CopiesWereTrue, vars, db
  <1>2. ASSUME NEW r \in Requests, Acts(r), totals' = totals \cup {Total(lines')}
        PROVE  TotalWasTrue' /\ CopiesWereTrue'
    <2>1. cart'.total \in totals
      <3>1. pc[r] \in {"place", "changeStatus", "refresh"} => copy[r].cart.total \in totals
        BY DEF CopiesWereTrue, Holding, Places
      <3>2. QED
        BY <1>2, <3>1, CartOfSteps DEF TotalWasTrue
    <2>2. pc'[r] \in Holding => copy'[r].cart.total \in totals'
      <3>1. AllShipped(r) => pc[r] \in Holding
        BY DEF AllShipped, Holding, Places
      <3>2. "failed" \notin Holding /\ "done" \notin Holding
        BY DEF Holding
      <3>3. QED
        BY <1>2, <3>1, <3>2, CopiesOfSteps DEF TotalWasTrue, CopiesWereTrue
    <2>3. \A q \in Requests : q # r => (pc'[q] \in Holding => copy'[q].cart.total \in totals')
      BY <1>2, OthersStay DEF CopiesWereTrue
    <2>4. QED
      BY <1>2, <2>1, <2>2, <2>3 DEF TotalWasTrue, CopiesWereTrue
  <1>3. QED
    BY <1>1, <1>2 DEF Next, Acts

\* However requests interleave, every total that is ever stored was, at one moment, the sum of the
\* cart's lines.
THEOREM TotalsAreOfOneMoment == Spec => []TotalWasTrue
  <1>1. Init => TotalWasTrue /\ CopiesWereTrue
    BY DEF Init, TotalWasTrue, CopiesWereTrue, Holding
  <1>2. QED
    BY <1>1, TotalsStep, ShapeAlways, PTL DEF Spec

-----------------------------------------------------------------------------
(* Only a full checkout places the cart.  The code of an order is written  *)
(* first by a checkout whose callbacks are done; all others copy it from a *)
(* cart that has it.                                                       *)

Through(r) ==
    /\ request[r].op = "checkoutCart"
    /\ pc[r] \in {"place", "getPlaced", "changeStatus", "record", "load", "refresh", "done", "failed"}
    /\ \A id \in DOMAIN task[r] : task[r][id] = "done"

Placed == \E r \in Requests : Through(r)

PlacedInv ==
    /\ cart.code = "order" => Placed
    /\ \A r \in Requests : pc[r] \in Holding /\ copy[r].cart.code = "order" => Placed

\* A checkout that is through stays so: its callbacks have all answered.
LEMMA ThroughStays ==
  ASSUME Shape, NEW r \in Requests, Acts(r), NEW q \in Requests, Through(q)
  PROVE  Through(q)'
  <1>0. Maps
    BY DEF Shape
  <1>1. CASE q # r
    BY <1>1, OthersStay DEF Through
  <1>2. CASE q = r
    <2>1. UNCHANGED <<request, task>>
      BY <1>2
      DEF Through, Acts, Step, Start, GetCart, NoCart, GetLine, NoLine, InsertLine, ListLines, DeleteLines,
          AllShipped, GetPlaced, Record, Load, Select, SaveLine, SaveCart, Refresh, Saving, Abort, TaskAt,
          ShipLine, GetShipped, SelectShipped, SaveShipped, FailTask, MisreadNothing
    <2>2. pc'[q] \in {"place", "getPlaced", "changeStatus", "record", "load", "refresh", "done", "failed"}
      BY <1>0, <1>2
      DEF Maps, Through, Acts, Step, Start, GetCart, NoCart, GetLine, NoLine, InsertLine, ListLines,
          DeleteLines, AllShipped, GetPlaced, Record, Load, Select, SaveLine, SaveCart, Refresh, Saving, Abort,
          TaskAt, ShipLine, GetShipped, SelectShipped, SaveShipped, FailTask, MisreadNothing, Goto
    <2>3. QED
      BY <2>1, <2>2 DEF Through
  <1>3. QED
    BY <1>1, <1>2

LEMMA PlacedStep == Shape /\ PlacedInv /\ [Next]_vars => PlacedInv'
  <1> SUFFICES ASSUME Shape, PlacedInv, [Next]_vars PROVE PlacedInv'
    OBVIOUS
  <1>1. CASE UNCHANGED vars
    BY <1>1 DEF PlacedInv, Placed, Through, vars, db
  <1>2. ASSUME NEW r \in Requests, Acts(r) PROVE PlacedInv'
    <2>1. Placed => Placed'
      BY <1>2, ThroughStays DEF Placed
    <2>2. cart'.code = "order" => Placed
      <3>1. pc[r] \in {"place", "changeStatus", "refresh"} /\ copy[r].cart.code = "order" => Placed
        BY DEF PlacedInv, Holding, Places
      <3>2. QED
        BY <1>2, <3>1, CartOfSteps DEF PlacedInv
    <2>3. AllShipped(r) => Through(r)'
      <3>1. ASSUME AllShipped(r) PROVE Through(r)'
        <4>1. pc[r] = "ship" /\ pc' = [pc EXCEPT ![r] = "place"] /\ UNCHANGED <<request, task>>
          BY <3>1 DEF AllShipped, Goto
        <4>2. request[r].op = "checkoutCart" /\ r \in DOMAIN pc
          BY <4>1 DEF Shape, Maps, Whereabouts
        <4>3. QED
          BY <3>1, <4>1, <4>2 DEF AllShipped, Through
      <3>2. QED
        BY <3>1
    <2>4. pc'[r] \in Holding /\ copy'[r].cart.code = "order" => Placed'
      <3>1. "failed" \notin Holding /\ "done" \notin Holding
        BY DEF Holding
      <3>2. QED
        BY <1>2, <2>1, <2>3, <3>1, CopiesOfSteps DEF PlacedInv, Placed
    <2>5. \A q \in Requests : q # r => (pc'[q] \in Holding /\ copy'[q].cart.code = "order" => Placed)
      BY <1>2, OthersStay DEF PlacedInv
    <2>6. QED
      BY <2>1, <2>2, <2>4, <2>5 DEF PlacedInv
  <1>3. QED
    BY <1>1, <1>2, NextActs

\* However requests interleave, the cart gets the code of an order only from a checkout that has
\* registered the shipping of every line it listed.
THEOREM PlacedByCheckout == Spec => []PlacedByFullCheckout
  <1>1. Init => PlacedInv
    BY DEF Init, PlacedInv, Holding
  <1>2. PlacedInv => PlacedByFullCheckout
    BY DEF PlacedInv, Placed, Through, PlacedByFullCheckout
  <1>3. QED
    BY <1>1, <1>2, PlacedStep, ShapeAlways, PTL DEF Spec

-----------------------------------------------------------------------------
(* One request at a time.  A checkout whose callbacks still run counts as  *)
(* in flight, and it waits in Promise.all or has failed.                   *)

Saves == {"saveLine", "place", "changeStatus", "refresh"}

Answers == {"ship", "get", "select", "save", "done", "failed"}

Tables == /\ selected \in [Requests -> BOOLEAN]
          /\ DOMAIN image = Requests
          /\ \A r \in Requests : DOMAIN image[r] = {"cart", "lines"}

Callbacks == \A r \in Requests :
    /\ \A id \in DOMAIN task[r] : task[r][id] \in Answers
    /\ DOMAIN task[r] # {} => /\ request[r].op = "checkoutCart"
                              /\ pc[r] \notin {"idle", "getCart", "listLines"}
    /\ (\E id \in DOMAIN task[r] : task[r][id] # "done") => pc[r] \in {"ship", "failed"}
    /\ selected[r] => pc[r] \in Saves
    /\ pc[r] = "idle" => r \notin misread

MisreadRequests == misread \subseteq Requests

OneAtATime == \A r, q \in Requests : InFlight(r) /\ InFlight(q) => r = q

Control == Tables /\ Callbacks /\ MisreadRequests /\ (Serialized => OneAtATime)

\* The steps of a request as Next has them, what they do to misread included.
Runs(r) ==
    \/ Step(r) /\ UNCHANGED misread
    \/ /\ MisreadNothing(r)
       /\ misread' = IF pc'[r] \in {"done", "failed"} THEN misread ELSE misread \cup {r}

LEMMA NextRuns == [Next]_vars => UNCHANGED vars \/ \E r \in Requests : Runs(r) /\ Acts(r)
  BY DEF Next, Runs, Acts

LEMMA OthersKeepTheirs ==
  ASSUME Shape, Tables, NEW r \in Requests, Acts(r)
  PROVE  /\ Tables'
         /\ \A q \in Requests : q # r => image'[q] = image[q] /\ selected'[q] = selected[q]
  <1>1. CASE UNCHANGED <<image, selected>>
    BY <1>1 DEF Tables
  <1>2. CASE Select(r) \/ SaveLine(r) \/ SaveCart(r) \/ Refresh(r) \/ Abort(r)
    <2>1. UNCHANGED <<image, selected>>
          \/ /\ \E c, ls : image' = [image EXCEPT ![r] = [cart |-> c, lines |-> ls]]
             /\ \E s \in BOOLEAN : selected' = [selected EXCEPT ![r] = s]
      BY <1>2 DEF Select, SaveLine, SaveCart, Refresh, Saving, Abort, Blank
    <2>2. QED
      BY <1>1, <2>1 DEF Tables
  <1>3. ASSUME NEW id \in DOMAIN task[r], SelectShipped(r, id)
        PROVE  /\ Tables'
               /\ \A q \in Requests : q # r => image'[q] = image[q] /\ selected'[q] = selected[q]
    <2>1. UNCHANGED selected /\ \E ls : image' = [image EXCEPT ![r].lines = ls]
      BY <1>3 DEF SelectShipped
    <2>2. QED
      BY <2>1 DEF Tables
  <1>4. QED
    BY <1>1, <1>2, <1>3
    DEF Acts, Step, Start, GetCart, NoCart, GetLine, NoLine, InsertLine, ListLines, DeleteLines, AllShipped,
        GetPlaced, Record, Load, ShipLine, GetShipped, SaveShipped, FailTask, MisreadNothing

\* Whoever acts is in flight or starts; the others are as they were.
LEMMA ActorIsInFlight ==
  ASSUME Shape, Callbacks, NEW r \in Requests, Acts(r)
  PROVE  /\ Start(r) \/ InFlight(r)
         /\ \A q \in Requests : q # r => (InFlight(q)' <=> InFlight(q))
  <1>1. Start(r) \/ InFlight(r)
    BY DEF Acts, Step, InFlight, GetCart, NoCart, GetLine, NoLine, InsertLine, ListLines, DeleteLines,
           AllShipped, GetPlaced, Record, Load, Select, SaveLine, SaveCart, Refresh, Saving, Abort, TaskAt,
           ShipLine, GetShipped, SelectShipped, SaveShipped, FailTask, MisreadNothing
  <1>2. QED
    BY <1>1, OthersStay DEF InFlight

LEMMA CallbacksOfSteps ==
  ASSUME Shape, Tables, Callbacks, NEW r \in Requests, Runs(r), Acts(r)
  PROVE  Callbacks'
  <1>0. Maps /\ Whereabouts /\ selected \in [Requests -> BOOLEAN] /\ Maps'
    BY ControlOfSteps DEF Shape, Tables
  <1>1. \A q \in Requests : q # r => (q \in misread' <=> q \in misread)
    BY DEF Runs
  <1>2. SUFFICES
        /\ \A id \in DOMAIN task'[r] : task'[r][id] \in Answers
        /\ DOMAIN task'[r] # {} => /\ request'[r].op = "checkoutCart"
                                   /\ pc'[r] \notin {"idle", "getCart", "listLines"}
        /\ (\E id \in DOMAIN task'[r] : task'[r][id] # "done") => pc'[r] \in {"ship", "failed"}
        /\ selected'[r] => pc'[r] \in Saves
        /\ pc'[r] # "idle"
    BY <1>1, OthersStay, OthersKeepTheirs DEF Callbacks
  <1>3. CASE Start(r)
    <2>1. pc[r] = "idle" /\ pc'[r] = "getCart" /\ UNCHANGED <<task, selected>>
      BY <1>0, <1>3 DEF Maps, Start, Goto
    <2>2. QED
      BY <2>1 DEF Callbacks, Saves
  <1>4. CASE GetCart(r) \/ NoCart(r) \/ GetLine(r) \/ NoLine(r) \/ InsertLine(r) \/ DeleteLines(r)
             \/ MisreadNothing(r)
    <2>1. /\ pc[r] \in {"getCart", "getLine", "listLines", "insertLine", "deleteLines"}
          /\ UNCHANGED <<request, task, selected>>
          /\ pc'[r] # "idle" /\ (pc'[r] = "listLines" => pc[r] = "getCart")
          /\ pc'[r] # "getCart"
      <3>1. PICK op : op = request[r].op
        OBVIOUS
      <3>2. op \in {"addToCart", "removeFromCart", "clearCart", "checkoutCart", "updateCart"}
        BY <1>0, <1>4, <3>1
        DEF Whereabouts, Places, GetCart, NoCart, GetLine, NoLine, InsertLine, DeleteLines, MisreadNothing
      <3>3. \/ pc[r] = "getCart" /\ pc'[r] \in {AfterGetCart(op), AfterNothing(op, "getCart")}
            \/ pc[r] = "getLine" /\ pc'[r] \in {"saveLine", "deleteLines", AfterNothing(op, "getLine")}
            \/ pc[r] = "listLines" /\ pc'[r] = AfterNothing(op, "listLines")
            \/ pc[r] \in {"insertLine", "deleteLines"} /\ pc'[r] = "load"
        BY <1>0, <1>4, <3>1
        DEF Maps, GetCart, NoCart, GetLine, NoLine, InsertLine, DeleteLines, MisreadNothing, Goto
      <3>4. UNCHANGED <<request, task, selected>>
        BY <1>4 DEF GetCart, NoCart, GetLine, NoLine, InsertLine, DeleteLines, MisreadNothing
      <3>5. QED
        BY <3>2, <3>3, <3>4, Goings
    <2>2. QED
      BY <2>1 DEF Callbacks, Saves
  <1>5. CASE ListLines(r)
    <2>1. /\ pc[r] = "listLines" /\ UNCHANGED <<request, selected>>
          /\ \/ pc'[r] = "deleteLines" /\ task'[r] = task[r]
             \/ /\ request[r].op # "clearCart" /\ pc'[r] = "ship"
                /\ task'[r] = [id \in Attached(lines) |-> "ship"]
      BY <1>0, <1>5 DEF Maps, ListLines, Goto
    <2>2. request[r].op \in {"clearCart", "checkoutCart"}
      BY <1>0, <2>1 DEF Whereabouts
    <2>3. QED
      BY <2>1, <2>2 DEF Callbacks, Saves, Answers
  <1>6. CASE AllShipped(r) \/ GetPlaced(r) \/ Record(r) \/ Load(r) \/ SaveLine(r) \/ SaveCart(r) \/ Refresh(r)
    <2>1. UNCHANGED <<request, task>>
      BY <1>6 DEF AllShipped, GetPlaced, Record, Load, SaveLine, SaveCart, Refresh, Saving
    <2>2. /\ pc[r] \in {"ship", "getPlaced", "record", "load"} \cup Saves
          /\ pc'[r] \in {"place", "changeStatus", "load", "refresh", "getPlaced", "record", "done"}
          /\ selected'[r] => pc'[r] \in Saves
          /\ \A id \in DOMAIN task[r] : task[r][id] = "done"
      BY <1>0, <1>6
      DEF Maps, Callbacks, Saves, AllShipped, GetPlaced, Record, Load, SaveLine, SaveCart, Refresh, Saving, Goto
    <2>3. QED
      BY <2>1, <2>2 DEF Callbacks
  <1>7. CASE Select(r)
    BY <1>0, <1>7 DEF Maps, Callbacks, Saves, Select
  <1>8. CASE Abort(r)
    BY <1>0, <1>8 DEF Maps, Callbacks, Saves, Abort, Goto
  <1>9. ASSUME NEW id \in DOMAIN task[r],
               ShipLine(r, id) \/ GetShipped(r, id) \/ SelectShipped(r, id) \/ SaveShipped(r, id)
               \/ FailTask(r, id)
        PROVE  /\ \A k \in DOMAIN task'[r] : task'[r][k] \in Answers
               /\ DOMAIN task'[r] # {} => /\ request'[r].op = "checkoutCart"
                                          /\ pc'[r] \notin {"idle", "getCart", "listLines"}
               /\ (\E k \in DOMAIN task'[r] : task'[r][k] # "done") => pc'[r] \in {"ship", "failed"}
               /\ selected'[r] => pc'[r] \in Saves
               /\ pc'[r] # "idle"
    <2>1. \E w \in Answers : task' = [task EXCEPT ![r][id] = w]
      BY <1>9 DEF Answers, ShipLine, GetShipped, SelectShipped, SaveShipped, FailTask, TaskTo
    <2>2. DOMAIN task'[r] = DOMAIN task[r] /\ \A k \in DOMAIN task[r] : task'[r][k] \in Answers
      BY <1>0, <2>1 DEF Maps, Callbacks
    <2>3. /\ task[r][id] # "done" /\ UNCHANGED <<request, selected>>
          /\ pc'[r] = pc[r] \/ pc'[r] = "failed"
      BY <1>0, <1>9
      DEF Maps, ShipLine, GetShipped, SelectShipped, SaveShipped, FailTask, TaskAt, Goto
    <2>4. pc[r] \in {"ship", "failed"} /\ request[r].op = "checkoutCart" /\ ~selected[r]
      BY <2>3 DEF Callbacks, Saves
    <2>5. QED
      BY <2>2, <2>3, <2>4
  <1>10. QED
    BY <1>3, <1>4, <1>5, <1>6, <1>7, <1>8, <1>9 DEF Acts, Step

LEMMA ControlStep == Shape /\ Control /\ [Next]_vars => Control'
  <1> SUFFICES ASSUME Shape, Control, [Next]_vars PROVE Control'
    OBVIOUS
  <1>1. CASE UNCHANGED vars
    BY <1>1 DEF Control, Tables, Callbacks, MisreadRequests, OneAtATime, InFlight, vars
  <1>2. ASSUME NEW r \in Requests, Runs(r), Acts(r) PROVE Control'
    <2>1. Tables' /\ Callbacks'
      BY <1>2, OthersKeepTheirs, CallbacksOfSteps DEF Control
    <2>2. ASSUME Serialized PROVE OneAtATime'
      <3>1. \A q \in Requests : q # r => ~InFlight(q)
        <4>1. Start(r) => \A q \in Requests : ~InFlight(q)
          BY <2>2 DEF Start
        <4>2. QED
          BY <1>2, <2>2, <4>1, ActorIsInFlight DEF Control, OneAtATime
      <3>2. QED
        BY <1>2, <3>1, ActorIsInFlight DEF OneAtATime, Control
    <2>3. MisreadRequests'
      BY <1>2 DEF Control, MisreadRequests, Runs
    <2>4. QED
      BY <2>1, <2>2, <2>3 DEF Control
  <1>3. QED
    BY <1>1, <1>2, NextRuns

LEMMA ControlAlways == Spec => []Control
  <1>1. Init => Control
    BY DEF Init, Control, Tables, Callbacks, MisreadRequests, OneAtATime, InFlight, NoLines, Blank
  <1>2. QED
    BY <1>1, ControlStep, ShapeAlways, PTL DEF Spec

-----------------------------------------------------------------------------
(* The lines, one request at a time.  Then what a save read is what is     *)
(* there, so it writes the copy, and the cascading save of refreshOrder,   *)
(* whose copy lists all lines of the cart, leaves them as they are.        *)

\* What the saves do to lines that nobody else touches.
LEMMA UndisturbedLines ==
  ASSUME NEW ls, ls \in [DOMAIN ls -> Kept]
  PROVE  /\ Attached(ls) = DOMAIN ls
         /\ Restrict(ls, DOMAIN ls) = ls
         /\ SavedLines(ls, ls, ls) = ls
         /\ Orphaned(ls, ls, ls) = ls
  <1>1. Attached(ls) = DOMAIN ls
    BY DEF Attached, Kept
  <1>2. Restrict(ls, DOMAIN ls) = ls
    BY DEF Restrict
  <1>3. SavedLines(ls, ls, ls) = ls
    BY DEF SavedLines, Column, Kept
  <1>4. Orphaned(ls, ls, ls) = ls
    <2>1. \A id \in DOMAIN ls :
            [ls[id] EXCEPT !.attached = @ /\ ~(id \in Attached(ls) \ DOMAIN ls)] = ls[id]
      BY <1>1 DEF Kept
    <2>2. QED
      BY <2>1 DEF Orphaned
  <1>5. QED
    BY <1>1, <1>2, <1>3, <1>4

LEMMA SaveOfOneLine ==
  ASSUME NEW ls, ls \in [DOMAIN ls -> Kept], NEW id \in DOMAIN ls, NEW mine, NEW read,
         DOMAIN mine = {id}, mine[id] \in Kept, mine[id].item = ls[id].item,
         id \in DOMAIN read, read[id] = ls[id]
  PROVE  SavedLines(mine, read, ls) = [ls EXCEPT ![id] = mine[id]]
  <1>1. DOMAIN ls \cup (DOMAIN mine \ DOMAIN read) = DOMAIN ls
    OBVIOUS
  <1>2. [item     |-> ls[id].item,
         quantity |-> Column(mine[id].quantity, read[id].quantity, ls[id].quantity),
         attached |-> Column(mine[id].attached, read[id].attached, ls[id].attached)] = mine[id]
    BY DEF Column, Kept
  <1>3. QED
    BY <1>1, <1>2 DEF SavedLines

\* What a request in flight knows of the lines.
FormKnown(r) == request[r].op = "addToCart" => request[r].item \in Items /\ request[r].quantity \in Nat \ {0}

LinesKnown(r) ==
    /\ pc[r] = "insertLine" => /\ request[r].op = "addToCart"
                               /\ LinesOf(request[r].item) = {} \/ r \in misread
    /\ pc[r] = "saveLine" => \E id \in DOMAIN lines :
                               /\ DOMAIN copy[r].lines = {id}
                               /\ copy[r].lines[id] \in Kept
                               /\ copy[r].lines[id].item = lines[id].item
    /\ pc[r] = "refresh" => copy[r].lines = lines
    /\ selected[r] => image[r].lines = lines

CallbacksKnow(r) == \A id \in DOMAIN task[r] :
    /\ task[r][id] \notin {"done", "failed"} => id \in DOMAIN copy[r].lines
    /\ task[r][id] \in {"select", "save"} => id \in DOMAIN lines /\ copy[r].lines[id] = lines[id]
    /\ task[r][id] = "save" => id \in DOMAIN image[r].lines /\ image[r].lines[id] = lines[id]

LinesHeld == \A r \in Requests : FormKnown(r) /\ LinesKnown(r) /\ CallbacksKnow(r)

LinesInv == lines \in [DOMAIN lines -> Kept] /\ OneLinePerItem /\ LinesHeld

LEMMA AddsOfMutations ==
  \A m \in Mutations : m.op = "addToCart" => m.item \in Items /\ m.quantity \in Nat \ {0}
  BY CartAssumption DEF Mutations, Requested

\* What becomes of the lines.
LEMMA LinesOfSteps ==
  ASSUME Shape, Control, LinesInv, NEW r \in Requests, Acts(r)
  PROVE  \/ lines' = lines
         \/ InsertLine(r)
         \/ DeleteLines(r)
         \/ SaveLine(r) /\ \E id \in DOMAIN lines, x \in Kept :
                             x.item = lines[id].item /\ lines' = [lines EXCEPT ![id] = x]
  <1>0. lines \in [DOMAIN lines -> Kept] /\ Maps
    BY DEF LinesInv, Shape
  <1>1. CASE SaveLine(r)
    <2>1. /\ pc[r] = "saveLine" /\ image[r].lines = lines
          /\ lines' = SavedLines(copy[r].lines, image[r].lines, lines)
      BY <1>1 DEF SaveLine, Saving, LinesInv, LinesHeld, LinesKnown
    <2>2. PICK id \in DOMAIN lines : /\ DOMAIN copy[r].lines = {id}
                                     /\ copy[r].lines[id] \in Kept
                                     /\ copy[r].lines[id].item = lines[id].item
      BY <2>1 DEF LinesInv, LinesHeld, LinesKnown
    <2>3. lines' = [lines EXCEPT ![id] = copy[r].lines[id]]
      BY <1>0, <2>1, <2>2, SaveOfOneLine
    <2>4. QED
      BY <1>1, <2>2, <2>3
  <1>2. CASE Refresh(r)
    <2>1. /\ copy[r].lines = lines /\ image[r].lines = lines
          /\ lines' = Orphaned(copy[r].lines, image[r].lines,
                               SavedLines(copy[r].lines, image[r].lines, lines))
      BY <1>2 DEF Refresh, Saving, LinesInv, LinesHeld, LinesKnown
    <2>2. lines' = lines
      BY <1>0, <2>1, UndisturbedLines
    <2>3. QED
      BY <2>2
  <1>3. ASSUME NEW id \in DOMAIN task[r], SaveShipped(r, id) PROVE lines' = lines
    <2>1. PICK mine : mine = Restrict(copy[r].lines, {id})
      OBVIOUS
    <2>2. /\ id \in DOMAIN lines /\ copy[r].lines[id] = lines[id]
          /\ id \in DOMAIN image[r].lines /\ image[r].lines[id] = lines[id]
          /\ lines' = SavedLines(mine, image[r].lines, lines)
      BY <1>3, <2>1 DEF SaveShipped, TaskAt, LinesInv, LinesHeld, CallbacksKnow
    <2>3. DOMAIN mine = {id} /\ mine[id] = lines[id]
      BY <2>1, <2>2 DEF Restrict
    <2>4. lines' = [lines EXCEPT ![id] = mine[id]]
      BY <1>0, <2>2, <2>3, SaveOfOneLine
    <2>5. QED
      BY <1>0, <2>3, <2>4
  <1>4. QED
    BY <1>1, <1>2, <1>3
    DEF Acts, Step, Start, GetCart, NoCart, GetLine, NoLine, ListLines, AllShipped, GetPlaced, Record, Load,
        Select, SaveCart, Abort, ShipLine, GetShipped, SelectShipped, FailTask, MisreadNothing, db

LEMMA LineTypesStep ==
  ASSUME Shape, Control, LinesInv, NEW r \in Requests, Runs(r), Acts(r)
  PROVE  (lines \in [DOMAIN lines -> Kept])' /\ OneLinePerItem'
  <1>0. /\ lines \in [DOMAIN lines -> Kept]
        /\ \A a, b \in DOMAIN lines : lines[a].item = lines[b].item =>
             a = b \/ \E q \in misread : request[q].op = "addToCart" /\ request[q].item = lines[a].item
    BY DEF LinesInv, OneLinePerItem, Attached, Kept
  <1>1. SUFFICES /\ lines' \in [DOMAIN lines' -> Kept]
                 /\ \A a, b \in DOMAIN lines' : lines'[a].item = lines'[b].item =>
                      a = b \/ \E q \in misread' : /\ request'[q].op = "addToCart"
                                                   /\ request'[q].item = lines'[a].item
    BY DEF OneLinePerItem, Attached
  <1>2. \A q \in misread : q \in misread' /\ request'[q] = request[q]
    <2>1. misread \subseteq misread' /\ misread \subseteq Requests
      BY DEF Runs, Control, MisreadRequests
    <2>2. r \in misread => request'[r] = request[r]
      BY DEF Control, Callbacks, Acts, Step, Start, GetCart, NoCart, GetLine, NoLine, InsertLine, ListLines,
             DeleteLines, AllShipped, GetPlaced, Record, Load, Select, SaveLine, SaveCart, Refresh, Saving, Abort,
             ShipLine, GetShipped, SelectShipped, SaveShipped, FailTask, MisreadNothing
    <2>3. QED
      BY <2>1, <2>2, OthersStay
  <1>3. CASE lines' = lines
    BY <1>0, <1>2, <1>3
  <1>4. CASE InsertLine(r)
    <2>1. PICK x : x = [item |-> request[r].item, quantity |-> request[r].quantity, attached |-> TRUE]
      OBVIOUS
    <2>2. /\ lines' = [id \in DOMAIN lines \cup {nextId} |-> IF id = nextId THEN x ELSE lines[id]]
          /\ pc[r] = "insertLine" /\ request' = request /\ misread \subseteq misread'
      BY <1>2, <1>4, <2>1 DEF InsertLine
    <2>3. /\ request[r].op = "addToCart"
          /\ request[r].item \in Items /\ request[r].quantity \in Nat \ {0}
          /\ LinesOf(request[r].item) = {} \/ r \in misread
      BY <2>2 DEF LinesInv, LinesHeld, LinesKnown, FormKnown
    <2>4. x \in Kept /\ x.item = request[r].item
      BY <2>1, <2>3 DEF Kept
    <2>5. lines' \in [DOMAIN lines' -> Kept]
      BY <1>0, <2>2, <2>4
    <2>6. (\A id \in DOMAIN lines : lines[id].item # x.item) \/ r \in misread'
      BY <1>0, <2>2, <2>3, <2>4 DEF LinesOf, Attached, Kept
    <2>7. QED
      BY <1>0, <1>2, <2>2, <2>3, <2>4, <2>5, <2>6
  <1>5. CASE DeleteLines(r)
    <2>1. PICK S : S = DOMAIN lines \ DOMAIN copy[r].lines
      OBVIOUS
    <2>2. lines' = [id \in S |-> lines[id]] /\ S \subseteq DOMAIN lines
      BY <1>5, <2>1 DEF DeleteLines, Restrict
    <2>3. QED
      BY <1>0, <1>2, <2>2
  <1>6. ASSUME NEW id \in DOMAIN lines, NEW x \in Kept,
               x.item = lines[id].item, lines' = [lines EXCEPT ![id] = x]
        PROVE  /\ lines' \in [DOMAIN lines' -> Kept]
               /\ \A a, b \in DOMAIN lines' : lines'[a].item = lines'[b].item =>
                    a = b \/ \E q \in misread' : /\ request'[q].op = "addToCart"
                                                 /\ request'[q].item = lines'[a].item
    <2>1. /\ DOMAIN lines' = DOMAIN lines /\ lines' \in [DOMAIN lines -> Kept]
          /\ \A a \in DOMAIN lines : lines'[a].item = lines[a].item
      BY <1>0, <1>6
    <2>2. QED
      BY <1>0, <1>2, <2>1
  <1>7. QED
    BY <1>3, <1>4, <1>5, <1>6, LinesOfSteps

LEMMA LinesHeldStep ==
  ASSUME Serialized, Shape, Control, LinesInv, NEW r \in Requests, Runs(r), Acts(r)
  PROVE  LinesHeld'
  <1>0. /\ Maps /\ Callbacks /\ Tables /\ \A q \in Requests : Held(copy[q])
        /\ lines \in [DOMAIN lines -> Kept]
        /\ Attached(lines) = DOMAIN lines
        /\ \A q \in Requests : q # r => ~InFlight(q)
    <2>1. lines \in [DOMAIN lines -> Kept]
      BY DEF LinesInv
    <2>2. Start(r) => \A q \in Requests : ~InFlight(q)
      BY DEF Start
    <2>3. \A q \in Requests : q # r => ~InFlight(q)
      BY <2>2, ActorIsInFlight DEF Control, OneAtATime
    <2>4. QED
      BY <2>1, <2>3, UndisturbedLines DEF Shape, Control
  <1>1. ASSUME NEW q \in Requests, q # r
        PROVE  FormKnown(q)' /\ LinesKnown(q)' /\ CallbacksKnow(q)'
    <2>1. /\ pc[q] \in {"idle", "done", "failed"}
          /\ \A id \in DOMAIN task[q] : task[q][id] \in {"done", "failed"}
          /\ ~selected[q]
      BY <1>0, <1>1 DEF InFlight, Callbacks, Saves
    <2>2. /\ pc'[q] = pc[q] /\ request'[q] = request[q] /\ task'[q] = task[q]
          /\ selected'[q] = selected[q]
      BY <1>0, <1>1, OthersStay, OthersKeepTheirs
    <2>3. FormKnown(q)
      BY DEF LinesInv, LinesHeld
    <2>4. QED
      BY <2>1, <2>2, <2>3 DEF FormKnown, LinesKnown, CallbacksKnow
  <1>2. FormKnown(r)'
    <2>1. CASE Start(r)
      BY <1>0, <2>1, AddsOfMutations DEF FormKnown, Start, Maps
    <2>2. CASE UNCHANGED request
      BY <2>2 DEF FormKnown, LinesInv, LinesHeld
    <2>3. QED
      BY <2>1, <2>2
      DEF Acts, Step, GetCart, NoCart, GetLine, NoLine, InsertLine, ListLines, DeleteLines, AllShipped, GetPlaced,
          Record, Load, Select, SaveLine, SaveCart, Refresh, Saving, Abort, ShipLine, GetShipped, SelectShipped,
          SaveShipped, FailTask, MisreadNothing
  <1>3. LinesKnown(r)'
    <2>1. CASE pc'[r] \notin {"insertLine", "saveLine", "refresh"} /\ ~selected'[r]
      BY <2>1 DEF LinesKnown
    <2>2. CASE Start(r) \/ GetCart(r) \/ NoCart(r) \/ InsertLine(r) \/ ListLines(r) \/ DeleteLines(r)
               \/ AllShipped(r) \/ GetPlaced(r) \/ Record(r)
      <3>1. pc[r] \notin Saves /\ selected' = selected
        BY <2>2
        DEF Saves, Start, GetCart, NoCart, InsertLine, ListLines, DeleteLines, AllShipped, GetPlaced, Record
      <3>2. ~selected'[r]
        BY <1>0, <3>1 DEF Callbacks
      <3>3. GetCart(r) \/ NoCart(r) => pc'[r] \in {"getLine", "listLines", "load", "done", "failed"}
        <4>1. PICK op : op = request[r].op
          OBVIOUS
        <4>2. GetCart(r) \/ NoCart(r) =>
                op \in {"addToCart", "removeFromCart", "clearCart", "checkoutCart", "updateCart"}
          BY <4>1 DEF Shape, Whereabouts, Places, GetCart, NoCart
        <4>3. GetCart(r) \/ NoCart(r) => pc'[r] \in {AfterGetCart(op), AfterNothing(op, "getCart")}
          BY <1>0, <4>1 DEF Maps, GetCart, NoCart, Goto
        <4>4. QED
          BY <4>2, <4>3, Goings
      <3>4. pc'[r] \notin {"insertLine", "saveLine", "refresh"}
        BY <1>0, <2>2, <3>3
        DEF Maps, Start, InsertLine, ListLines, DeleteLines, AllShipped, GetPlaced, Record, Goto
      <3>5. QED
        BY <2>1, <3>2, <3>4
    <2>3. CASE SaveLine(r) \/ SaveCart(r) \/ Refresh(r) \/ Abort(r)
      <3>1. pc'[r] \in {"load", "getPlaced", "record", "done", "failed"}
        BY <1>0, <2>3 DEF Maps, SaveLine, SaveCart, Refresh, Saving, Abort, Goto
      <3>2. ~selected'[r]
        BY <1>0, <2>3 DEF Tables, Callbacks, Saves, SaveLine, SaveCart, Refresh, Saving, Abort
      <3>3. QED
        BY <2>1, <3>1, <3>2
    <2>4. ASSUME NEW id \in DOMAIN task[r],
                 ShipLine(r, id) \/ GetShipped(r, id) \/ SelectShipped(r, id) \/ SaveShipped(r, id)
                 \/ FailTask(r, id)
          PROVE  LinesKnown(r)'
      <3>1. task[r][id] # "done" /\ selected' = selected /\ pc'[r] \in {pc[r], "failed"}
        BY <1>0, <2>4
        DEF Maps, ShipLine, GetShipped, SelectShipped, SaveShipped, FailTask, TaskAt, Goto
      <3>2. pc[r] \in {"ship", "failed"} /\ ~selected[r]
        BY <1>0, <3>1 DEF Callbacks, Saves
      <3>3. QED
        BY <2>1, <3>1, <3>2
    <2>5. CASE NoLine(r) \/ MisreadNothing(r)
      <3>1. PICK op : op = request[r].op
        OBVIOUS
      <3>2. /\ pc[r] \in {"getCart", "getLine", "listLines"}
            /\ pc'[r] = AfterNothing(op, pc[r])
            /\ UNCHANGED <<lines, request, selected>>
            /\ pc[r] = "getLine" => LinesOf(request[r].item) = {} \/ MisreadNothing(r)
        BY <1>0, <2>5, <3>1 DEF Maps, NoLine, MisreadNothing, Goto, db
      <3>3. op \in {"addToCart", "removeFromCart", "clearCart", "checkoutCart", "updateCart"}
        BY <3>1, <3>2 DEF Shape, Whereabouts, Places
      <3>4. /\ pc'[r] \in {"done", "failed", "insertLine", "deleteLines", "ship"}
            /\ pc'[r] = "insertLine" => pc[r] = "getLine" /\ op = "addToCart"
        BY <3>2, <3>3 DEF AfterNothing
      <3>5. ~selected'[r]
        BY <1>0, <3>2 DEF Callbacks, Saves
      <3>6. pc'[r] = "insertLine" => LinesOf(request[r].item) = {} \/ r \in misread'
        <4>1. ASSUME Step(r), pc[r] = "getLine", pc'[r] = "insertLine"
              PROVE  LinesOf(request[r].item) = {}
          <5>1. \A id \in DOMAIN task[r] : task[r][id] = "done"
            BY <1>0, <4>1 DEF Callbacks
          <5>2. GetLine(r) \/ NoLine(r) \/ Abort(r)
            BY <4>1, <5>1
            DEF Step, Start, GetCart, NoCart, InsertLine, ListLines, DeleteLines, AllShipped, GetPlaced, Record,
                Load, Select, SaveLine, SaveCart, Refresh, Saving, ShipLine, GetShipped, SelectShipped,
                SaveShipped, FailTask, TaskAt
          <5>3. ~GetLine(r) /\ ~Abort(r)
            BY <1>0, <4>1 DEF Maps, GetLine, Abort, Goto
          <5>4. QED
            BY <5>2, <5>3 DEF NoLine
        <4>2. QED
          BY <3>2, <3>4, <4>1 DEF Runs
      <3>7. LinesOf(request[r].item)' = LinesOf(request[r].item)
        BY <3>2 DEF LinesOf, Attached
      <3>8. QED
        BY <3>1, <3>2, <3>4, <3>5, <3>6, <3>7 DEF LinesKnown
    <2>6. CASE GetLine(r)
      <3>1. PICK id \in LinesOf(request[r].item) :
              \/ /\ request[r].op = "addToCart"
                 /\ copy' = [copy EXCEPT ![r].lines =
                               [k \in {id} |-> [lines[id] EXCEPT !.quantity = request[r].quantity]]]
                 /\ Goto(r, "saveLine")
              \/ Goto(r, "deleteLines")
        BY <2>6 DEF GetLine
      <3>2. ~selected'[r] /\ UNCHANGED <<lines, request>> /\ id \in DOMAIN lines
        BY <1>0, <2>6 DEF GetLine, Callbacks, Saves, db, LinesOf
      <3>3. pc'[r] = "saveLine" =>
              /\ request[r].op = "addToCart"
              /\ copy'[r].lines = [k \in {id} |-> [lines[id] EXCEPT !.quantity = request[r].quantity]]
        BY <1>0, <3>1 DEF Maps, Held, Goto
      <3>4. request[r].op = "addToCart" => request[r].quantity \in Nat \ {0}
        BY DEF LinesInv, LinesHeld, FormKnown
      <3>5. PICK x : x = [lines[id] EXCEPT !.quantity = request[r].quantity]
        OBVIOUS
      <3>6. request[r].op = "addToCart" => x \in Kept /\ x.item = lines[id].item
        BY <1>0, <3>2, <3>4, <3>5 DEF Kept
      <3>7. pc'[r] \in {"saveLine", "deleteLines"}
        BY <1>0, <3>1 DEF Maps, Goto
      <3>8. pc'[r] = "saveLine" => copy'[r].lines = [k \in {id} |-> x] /\ x \in Kept /\ x.item = lines[id].item
        BY <3>3, <3>5, <3>6
      <3>9. pc'[r] = "saveLine" => /\ DOMAIN copy'[r].lines = {id}
                                   /\ copy'[r].lines[id] \in Kept
                                   /\ copy'[r].lines[id].item = lines[id].item
        BY <3>8
      <3>10. QED
        BY <3>2, <3>7, <3>9 DEF LinesKnown
    <2>7. CASE Load(r)
      <3>1. copy'[r].lines = Restrict(lines, Attached(lines)) /\ lines' = lines /\ pc'[r] = "refresh"
        BY <1>0, <2>7 DEF Maps, Load, Goto, db
      <3>2. ~selected'[r]
        BY <1>0, <2>7 DEF Load, Callbacks, Saves
      <3>3. copy'[r].lines = lines
        BY <1>0, <3>1, UndisturbedLines
      <3>4. QED
        BY <3>1, <3>2, <3>3 DEF LinesKnown
    <2>8. CASE Select(r)
      <3>1. /\ image'[r].lines = lines /\ UNCHANGED <<lines, pc, request, copy>>
            /\ pc[r] \in Saves
        BY <1>0, <2>8 DEF Tables, Select, Saves, db
      <3>2. LinesKnown(r)
        BY DEF LinesInv, LinesHeld
      <3>3. QED
        BY <3>1, <3>2 DEF LinesKnown, Saves
    <2>9. QED
      BY <2>2, <2>3, <2>4, <2>5, <2>6, <2>7, <2>8 DEF Acts, Step
  <1>4. CallbacksKnow(r)'
    <2>1. ASSUME \A id \in DOMAIN task[r] : task[r][id] \in {"done", "failed"}, task'[r] = task[r]
          PROVE  CallbacksKnow(r)'
      BY <2>1 DEF CallbacksKnow
    <2>2. ASSUME pc[r] \notin {"ship", "failed"}, task' = task PROVE CallbacksKnow(r)'
      BY <1>0, <2>1, <2>2 DEF Callbacks
    <2>3. CASE Start(r) \/ GetCart(r) \/ NoCart(r) \/ GetLine(r) \/ NoLine(r) \/ InsertLine(r) \/ DeleteLines(r)
               \/ GetPlaced(r) \/ Record(r) \/ Load(r) \/ Select(r) \/ SaveLine(r) \/ SaveCart(r) \/ Refresh(r)
               \/ MisreadNothing(r)
      BY <2>2, <2>3
      DEF Start, GetCart, NoCart, GetLine, NoLine, InsertLine, DeleteLines, GetPlaced, Record, Load, Select,
          SaveLine, SaveCart, Refresh, Saving, MisreadNothing, Saves
    <2>4. CASE AllShipped(r)
      BY <2>1, <2>4 DEF AllShipped
    <2>5. CASE ListLines(r)
      <3>1. /\ pc[r] = "listLines"
            /\ copy'[r].lines = Restrict(lines, Attached(lines))
            /\ task' = task \/ task'[r] = [id \in Attached(lines) |-> "ship"]
        BY <1>0, <2>5 DEF Maps, Held, ListLines
      <3>2. DOMAIN copy'[r].lines = Attached(lines)
        BY <3>1 DEF Restrict
      <3>3. QED
        BY <2>2, <3>1, <3>2 DEF CallbacksKnow
    <2>6. CASE Abort(r)
      <3>1. /\ task' = task
            /\ \/ UNCHANGED <<copy, image, lines>>
               \/ \A id \in DOMAIN task[r] : task[r][id] = "done"
        BY <2>6 DEF Abort, db
      <3>2. CallbacksKnow(r)
        BY DEF LinesInv, LinesHeld
      <3>3. QED
        BY <2>1, <3>1, <3>2 DEF CallbacksKnow
    <2>7. ASSUME NEW id \in DOMAIN task[r],
                 ShipLine(r, id) \/ GetShipped(r, id) \/ SelectShipped(r, id) \/ SaveShipped(r, id)
                 \/ FailTask(r, id)
          PROVE  CallbacksKnow(r)'
      <3>1. CallbacksKnow(r)
        BY DEF LinesInv, LinesHeld
      <3>2. lines' = lines
        <4>1. task[r][id] # "done"
          BY <2>7 DEF ShipLine, GetShipped, SelectShipped, SaveShipped, FailTask, TaskAt
        <4>2. pc[r] \in {"ship", "failed"}
          BY <1>0, <4>1 DEF Callbacks
        <4>3. ~InsertLine(r) /\ ~DeleteLines(r) /\ ~SaveLine(r)
          BY <4>2 DEF InsertLine, DeleteLines, SaveLine, Saving
        <4>4. QED
          BY <4>3, LinesOfSteps
      <3>3. \E w \in Answers : task' = [task EXCEPT ![r][id] = w]
        BY <2>7 DEF Answers, ShipLine, GetShipped, SelectShipped, SaveShipped, FailTask, TaskTo
      <3>4. /\ DOMAIN task'[r] = DOMAIN task[r]
            /\ \A k \in DOMAIN task[r] : k # id => task'[r][k] = task[r][k]
        BY <1>0, <3>3 DEF Maps
      <3>5. CASE ShipLine(r, id)
        <4>1. /\ task[r][id] = "ship" /\ task'[r][id] = "get"
              /\ UNCHANGED <<copy, image>>
          BY <1>0, <3>5 DEF Maps, ShipLine, TaskAt, TaskTo
        <4>2. QED
          BY <3>1, <3>2, <3>4, <4>1 DEF CallbacksKnow
      <3>6. CASE GetShipped(r, id)
        <4>1. /\ task[r][id] = "get" /\ task'[r][id] = "select" /\ id \in DOMAIN lines
              /\ UNCHANGED image /\ copy' = [copy EXCEPT ![r].lines[id] = lines[id]]
          BY <1>0, <3>6 DEF Maps, GetShipped, TaskAt, TaskTo
        <4>2. id \in DOMAIN copy[r].lines
          BY <3>1, <4>1 DEF CallbacksKnow
        <4>3. copy'[r].lines = [copy[r].lines EXCEPT ![id] = lines[id]]
          BY <1>0, <4>1 DEF Maps, Held
        <4>4. /\ DOMAIN copy'[r].lines = DOMAIN copy[r].lines
              /\ copy'[r].lines[id] = lines[id]
              /\ \A k \in DOMAIN copy[r].lines : k # id => copy'[r].lines[k] = copy[r].lines[k]
          BY <4>2, <4>3
        <4>5. QED
          BY <3>1, <3>2, <3>4, <4>1, <4>4 DEF CallbacksKnow
      <3>7. CASE SelectShipped(r, id)
        <4>1. /\ task[r][id] = "select" /\ task'[r][id] = "save"
              /\ UNCHANGED copy
              /\ image'[r].lines = [k \in (DOMAIN image[r].lines \ {id}) \cup ({id} \cap DOMAIN lines) |->
                                      IF k = id THEN lines[id] ELSE image[r].lines[k]]
          BY <1>0, <3>7 DEF Maps, Tables, SelectShipped, TaskAt, TaskTo
        <4>2. id \in DOMAIN lines
          BY <3>1, <4>1 DEF CallbacksKnow
        <4>3. /\ id \in DOMAIN image'[r].lines /\ image'[r].lines[id] = lines[id]
              /\ \A k \in DOMAIN image[r].lines : k # id =>
                   k \in DOMAIN image'[r].lines /\ image'[r].lines[k] = image[r].lines[k]
          BY <4>1, <4>2
        <4>4. QED
          BY <3>1, <3>2, <3>4, <4>1, <4>3 DEF CallbacksKnow
      <3>8. CASE SaveShipped(r, id) \/ FailTask(r, id)
        <4>1. task'[r][id] \in {"done", "failed"} /\ UNCHANGED <<copy, image>>
          BY <1>0, <3>8 DEF Maps, SaveShipped, FailTask, TaskTo
        <4>2. QED
          BY <3>1, <3>2, <3>4, <4>1 DEF CallbacksKnow
      <3>9. QED
        BY <2>7, <3>5, <3>6, <3>7, <3>8
    <2>8. QED
      BY <2>3, <2>4, <2>5, <2>6, <2>7 DEF Acts, Step
  <1>5. QED
    BY <1>1, <1>2, <1>3, <1>4 DEF LinesHeld

LEMMA LinesInvStep ==
  ASSUME Serialized
  PROVE  Shape /\ Control /\ LinesInv /\ [Next]_vars => LinesInv'
  <1> SUFFICES ASSUME Shape, Control, LinesInv, [Next]_vars PROVE LinesInv'
    OBVIOUS
  <1>1. CASE UNCHANGED vars
    BY <1>1 DEF LinesInv, OneLinePerItem, Attached, LinesHeld, FormKnown, LinesKnown, CallbacksKnow, LinesOf,
                vars, db
  <1>2. ASSUME NEW r \in Requests, Runs(r), Acts(r) PROVE LinesInv'
    BY <1>2, LineTypesStep, LinesHeldStep DEF LinesInv
  <1>3. QED
    BY <1>1, <1>2, NextRuns

LEMMA LinesInvAlways ==
  ASSUME Serialized
  PROVE  Spec => []LinesInv
  <1>1. ASSUME Init PROVE LinesInv
    <2>1. PICK c \in InitialCarts : lines = c
      BY <1>1 DEF Init
    <2>2. lines \in [DOMAIN lines -> Kept] /\ OneLinePerItem
      BY <2>1, CartAssumption DEF OneLinePerItem, Attached
    <2>3. LinesHeld
      BY <1>1 DEF Init, LinesHeld, FormKnown, LinesKnown, CallbacksKnow, NoLines, Requested
    <2>4. QED
      BY <2>2, <2>3 DEF LinesInv
  <1>2. QED
    BY <1>1, LinesInvStep, ShapeAlways, ControlAlways, PTL DEF Spec

\* When requests come one at a time, the cart has one line per item, unless the look-up of an
\* addToCart was rejected and taken for "not found".
THEOREM SerialCartHasOneLinePerItem ==
  ASSUME Serialized
  PROVE  Spec => []OneLinePerItem
  <1>1. LinesInv => OneLinePerItem
    BY DEF LinesInv
  <1>2. QED
    BY <1>1, LinesInvAlways, PTL

\* When requests come one at a time, the cascading save of refreshOrder cuts no line off from its
\* cart.
THEOREM SerialCartHasNoOrphans ==
  ASSUME Serialized
  PROVE  Spec => []NoOrphans
  <1>1. LinesInv => NoOrphans
    BY UndisturbedLines DEF LinesInv, NoOrphans
  <1>2. QED
    BY <1>1, LinesInvAlways, PTL

-----------------------------------------------------------------------------
(* The checkout, one request at a time.  A checkout that has answered      *)
(* freezes the cart: its code is no longer that of a cart, so nobody gets  *)
(* past getCart.  Hence only one checkout ever gets past it without        *)
(* failing, and what it has registered stays.                              *)

\* A checkout that has found its cart and has not failed.
Past(r) == request[r].op = "checkoutCart" /\ pc[r] \notin {"idle", "getCart", "failed"}

Answered(r) == request[r].op = "checkoutCart" /\ pc[r] = "done"

Shipped(r, id) == [line |-> id, by |-> r] \in shippings

\* What a request in flight knows of the cart.
CartKnown(r) ==
    /\ selected[r] => image[r].cart = cart
    /\ pc[r] = "refresh" => /\ copy[r].cart.total = Total(lines)
                            /\ copy[r].cart.code = cart.code
                            /\ request[r].op = "checkoutCart" => copy[r].cart.status = cart.status
    /\ pc[r] = "place" => copy[r].cart.status = "PENDING" /\ copy[r].cart.code = "order"
    /\ pc[r] = "changeStatus" => copy[r].cart.status = "PENDING" /\ copy[r].cart.code = cart.code

\* What a checkout has done by now.
CheckoutSoFar(r) ==
    request[r].op = "checkoutCart" =>
      /\ pc[r] \notin {"getLine", "insertLine", "saveLine", "deleteLines"}
      /\ pc[r] \in {"getPlaced", "changeStatus", "record", "load", "refresh"} =>
           cart.code = "order" /\ cart.status = "PENDING"
      /\ pc[r] \in {"load", "refresh"} => r \in histories
      /\ pc[r] \in {"ship", "place", "getPlaced", "changeStatus", "record", "load", "refresh"}
         /\ r \notin misread => DOMAIN lines \subseteq DOMAIN task[r]
      /\ pc[r] # "failed" => \A id \in DOMAIN task[r] :
           task[r][id] \in {"get", "select", "save", "done"} /\ id \in DOMAIN lines => Shipped(r, id)

OnePast == \A r, q \in Requests : Past(r) /\ Past(q) => r = q

AnsweredFreezes == \A r, q \in Requests : Answered(r) /\ InFlight(q) => pc[q] = "getCart"

ShippersKnown == \A s \in shippings :
    s.by \in Requests /\ request[s.by].op = "checkoutCart" /\ pc[s.by] \notin {"idle", "getCart"}

CheckoutInv ==
    /\ \A r \in Requests : CartKnown(r) /\ CheckoutSoFar(r)
    /\ OnePast
    /\ CheckoutIsComplete
    /\ AnsweredFreezes
    /\ ShippersKnown

\* Once a checkout has answered, requests come and go without touching anything.
LEMMA AnsweredIsLast ==
  ASSUME Shape, Control, CheckoutInv, NEW r \in Requests, Acts(r),
         NEW a \in Requests, Answered(a)
  PROVE  /\ r # a
         /\ UNCHANGED db
         /\ \/ pc[r] = "idle" /\ pc'[r] = "getCart"
            \/ /\ pc[r] = "getCart" /\ pc'[r] \in {"done", "failed"} /\ request'[r] = request[r]
               /\ pc'[r] = "done" => request[r].op # "checkoutCart"
               /\ ~InFlight(r)'
  <1>0. Maps /\ Callbacks
    BY DEF Shape, Control
  <1>1. CASE Start(r)
    BY <1>0, <1>1 DEF Maps, Start, Goto, Answered
  <1>2. CASE ~Start(r)
    <2>1. pc[r] = "getCart"
      BY <1>0, <1>2, ActorIsInFlight DEF CheckoutInv, AnsweredFreezes
    <2>2. cart.code = "order"
      BY DEF CheckoutInv, CheckoutIsComplete, Answered
    <2>3. \A id \in DOMAIN task[r] : task[r][id] = "done"
      BY <1>0, <2>1 DEF Callbacks
    <2>4. NoCart(r) \/ MisreadNothing(r) \/ Abort(r)
      BY <1>2, <2>1, <2>2, <2>3
      DEF Acts, Step, GetCart, IsCart, GetLine, NoLine, InsertLine, ListLines, DeleteLines, AllShipped, GetPlaced,
          Record, Load, Select, SaveLine, SaveCart, Refresh, Saving, ShipLine, GetShipped, SelectShipped,
          SaveShipped, FailTask, TaskAt
    <2>5. UNCHANGED <<cart, lines, nextId, shippings, histories, request, task>>
      BY <2>4 DEF NoCart, MisreadNothing, Abort, db
    <2>6. pc'[r] = "failed" \/ pc'[r] = AfterNothing(request[r].op, "getCart")
      BY <1>0, <2>1, <2>4 DEF Maps, NoCart, MisreadNothing, Abort, Goto
    <2>7. request[r].op \in {"addToCart", "removeFromCart", "clearCart", "checkoutCart", "updateCart"}
      BY <2>1 DEF Shape, Whereabouts, Places
    <2>8. pc'[r] \in {"done", "failed"} /\ (pc'[r] = "done" => request[r].op # "checkoutCart")
      BY <2>6, <2>7 DEF AfterNothing
    <2>9. ~InFlight(r)'
      BY <2>3, <2>5, <2>8 DEF InFlight
    <2>10. QED
      BY <2>1, <2>5, <2>8, <2>9 DEF Answered, db
  <1>3. QED
    BY <1>1, <1>2

\* A save that finds the cart as it was read writes the copy.
LEMMA UndisturbedCart ==
  ASSUME Shape, CheckoutInv, NEW r \in Requests, SaveCart(r) \/ Refresh(r)
  PROVE  cart' = [status |-> copy[r].cart.status, code |-> copy[r].cart.code, total |-> copy[r].cart.total]
  <1>1. image[r].cart = cart /\ cart' = SavedCart(copy[r].cart, image[r].cart, cart)
    BY DEF SaveCart, Refresh, Saving, CheckoutInv, CartKnown
  <1>2. QED
    BY <1>1 DEF SavedCart, Column

LEMMA CartKnownStep ==
  ASSUME Shape, Control, CheckoutInv, NEW r \in Requests, Acts(r)
  PROVE  CartKnown(r)'
  <1>0. /\ Maps /\ Callbacks /\ Tables /\ Whereabouts
        /\ Held(copy[r]) /\ CartShape(copy[r].cart) /\ CartShape(cart)
    BY DEF Shape, Control, Held
  <1>1. CASE pc'[r] \notin {"refresh", "place", "changeStatus"} /\ ~selected'[r]
    BY <1>1 DEF CartKnown
  <1>2. CASE Start(r) \/ GetCart(r) \/ NoCart(r) \/ GetLine(r) \/ NoLine(r) \/ InsertLine(r) \/ ListLines(r)
             \/ DeleteLines(r) \/ Record(r) \/ MisreadNothing(r)
    <2>1. pc[r] \notin Saves /\ selected' = selected
      BY <1>2
      DEF Saves, Start, GetCart, NoCart, GetLine, NoLine, InsertLine, ListLines, DeleteLines, Record, MisreadNothing
    <2>2. ~selected'[r]
      BY <1>0, <2>1 DEF Callbacks
    <2>3. PICK op : op = request[r].op
      OBVIOUS
    <2>4. \/ pc'[r] \in {"getCart", "saveLine", "deleteLines", "ship", "load"}
          \/ /\ pc[r] \in {"getCart", "getLine", "listLines"}
             /\ pc'[r] \in {AfterGetCart(op), AfterNothing(op, pc[r])}
             /\ pc'[r] = AfterGetCart(op) => pc[r] = "getCart" \/ pc'[r] = AfterNothing(op, pc[r])
      BY <1>0, <1>2, <2>3
      DEF Maps, Start, GetCart, NoCart, GetLine, NoLine, InsertLine, ListLines, DeleteLines, Record,
          MisreadNothing, Goto
    <2>5. pc[r] \in {"getCart", "getLine", "listLines"} =>
            op \in {"addToCart", "removeFromCart", "clearCart", "checkoutCart", "updateCart"}
      BY <1>0, <2>3 DEF Whereabouts, Places
    <2>6. pc'[r] \notin {"refresh", "place", "changeStatus"}
      BY <2>4, <2>5, Goings
    <2>7. QED
      BY <1>1, <2>2, <2>6
  <1>3. CASE SaveLine(r) \/ SaveCart(r) \/ Refresh(r) \/ Abort(r)
    <2>1. pc'[r] \in {"load", "getPlaced", "record", "done", "failed"}
      BY <1>0, <1>3 DEF Maps, SaveLine, SaveCart, Refresh, Saving, Abort, Goto
    <2>2. ~selected'[r]
      BY <1>0, <1>3 DEF Tables, Callbacks, Saves, SaveLine, SaveCart, Refresh, Saving, Abort
    <2>3. QED
      BY <1>1, <2>1, <2>2
  <1>4. ASSUME NEW id \in DOMAIN task[r],
               ShipLine(r, id) \/ GetShipped(r, id) \/ SelectShipped(r, id) \/ SaveShipped(r, id)
               \/ FailTask(r, id)
        PROVE  CartKnown(r)'
    <2>1. task[r][id] # "done" /\ selected' = selected /\ pc'[r] \in {pc[r], "failed"}
      BY <1>0, <1>4
      DEF Maps, ShipLine, GetShipped, SelectShipped, SaveShipped, FailTask, TaskAt, Goto
    <2>2. pc[r] \in {"ship", "failed"} /\ ~selected[r]
      BY <1>0, <2>1 DEF Callbacks, Saves
    <2>3. QED
      BY <1>1, <2>1, <2>2
  <1>5. CASE AllShipped(r)
    <2>1. /\ pc'[r] = "place" /\ ~selected'[r]
          /\ copy' = [copy EXCEPT ![r].cart.status = "PENDING", ![r].cart.code = "order"]
      BY <1>0, <1>5 DEF Maps, Callbacks, Saves, AllShipped, Goto
    <2>2. copy'[r].cart.status = "PENDING" /\ copy'[r].cart.code = "order"
      BY <1>0, <2>1 DEF Maps, Held, CartShape
    <2>3. QED
      BY <2>1, <2>2 DEF CartKnown
  <1>6. CASE GetPlaced(r)
    <2>1. /\ pc'[r] = "changeStatus" /\ ~selected'[r] /\ cart' = cart
          /\ copy'[r] = [copy[r] EXCEPT !.cart = [cart EXCEPT !.status = "PENDING"]]
      BY <1>0, <1>6 DEF Maps, Callbacks, Saves, GetPlaced, Goto, db
    <2>2. copy'[r].cart.status = "PENDING" /\ copy'[r].cart.code = cart.code
      BY <1>0, <2>1 DEF Held, CartShape
    <2>3. QED
      BY <2>1, <2>2 DEF CartKnown
  <1>7. CASE Load(r)
    <2>1. PICK s, ls, t :
            /\ copy'[r] = [cart |-> [cart EXCEPT !.total = t, !.status = s], lines |-> ls]
            /\ t = Total(lines) /\ lines' = lines /\ cart' = cart /\ request' = request
            /\ request[r].op # "updateCart" => s = cart.status
      BY <1>0, <1>7 DEF Maps, Load, db
    <2>2. PICK c : c = [cart EXCEPT !.total = t, !.status = s]
      OBVIOUS
    <2>3. c.total = t /\ c.code = cart.code /\ c.status = s
      BY <1>0, <2>2 DEF CartShape
    <2>4. copy'[r].cart = c
      BY <2>1, <2>2
    <2>5. pc'[r] = "refresh" /\ ~selected'[r]
      BY <1>0, <1>7 DEF Maps, Load, Goto, Callbacks, Saves
    <2>6. Total(lines)' = Total(lines)
      BY <2>1
    <2>7. QED
      BY <2>1, <2>3, <2>4, <2>5, <2>6 DEF CartKnown
  <1>8. CASE Select(r)
    <2>1. image'[r].cart = cart /\ UNCHANGED <<cart, lines, pc, copy, request>>
      BY <1>0, <1>8 DEF Tables, Select, db
    <2>2. CartKnown(r)
      BY DEF CheckoutInv
    <2>3. Total(lines)' = Total(lines)
      BY <2>1
    <2>4. QED
      BY <2>1, <2>2, <2>3 DEF CartKnown
  <1>9. QED
    BY <1>2, <1>3, <1>4, <1>5, <1>6, <1>7, <1>8 DEF Acts, Step

\* Only Start changes what a request asks for and leads to getCart.
LEMMA OnlyStartAsks ==
  ASSUME Shape, Control, NEW r \in Requests, Acts(r), ~Start(r)
  PROVE  /\ request' = request
         /\ pc[r] # "idle"
         /\ pc'[r] \notin {"idle", "getCart"}
  <1>0. Maps /\ Callbacks /\ Whereabouts
    BY DEF Shape, Control
  <1>1. ASSUME NEW id \in DOMAIN task[r],
               ShipLine(r, id) \/ GetShipped(r, id) \/ SelectShipped(r, id) \/ SaveShipped(r, id)
               \/ FailTask(r, id)
        PROVE  /\ request' = request
               /\ pc[r] # "idle"
               /\ pc'[r] \notin {"idle", "getCart"}
    BY <1>0, <1>1 DEF Maps, Callbacks, ShipLine, GetShipped, SelectShipped, SaveShipped, FailTask, Goto
  <1>2. CASE GetCart(r) \/ NoCart(r) \/ NoLine(r) \/ MisreadNothing(r)
    <2>1. PICK op : op = request[r].op
      OBVIOUS
    <2>2. /\ request' = request
          /\ pc[r] \in {"getCart", "getLine", "listLines"}
          /\ \/ pc'[r] = AfterNothing(op, pc[r])
             \/ (pc[r] = "getCart" /\ pc'[r] = AfterGetCart(op))
      BY <1>0, <1>2, <2>1 DEF Maps, GetCart, NoCart, NoLine, MisreadNothing, Goto
    <2>3. op \in {"addToCart", "removeFromCart", "clearCart", "checkoutCart", "updateCart"}
      BY <1>0, <2>1, <2>2 DEF Whereabouts, Places
    <2>4. \/ pc'[r] = AfterGetCart(op)
          \/ pc'[r] = AfterNothing(op, "getCart")
          \/ pc'[r] = AfterNothing(op, "getLine")
          \/ pc'[r] = AfterNothing(op, "listLines")
      BY <2>2
    <2>5. pc'[r] \notin {"idle", "getCart"}
      BY <2>3, <2>4, Goings
    <2>6. QED
      BY <2>2, <2>5
  <1>3. CASE GetLine(r) \/ InsertLine(r) \/ ListLines(r) \/ DeleteLines(r) \/ AllShipped(r) \/ GetPlaced(r)
             \/ Record(r) \/ Load(r) \/ Select(r) \/ SaveLine(r) \/ SaveCart(r) \/ Refresh(r) \/ Abort(r)
    BY <1>0, <1>3
    DEF Maps, GetLine, InsertLine, ListLines, DeleteLines, AllShipped, GetPlaced, Record, Load, Select,
        SaveLine, SaveCart, Refresh, Saving, Abort, Goto
  <1>4. QED
    BY <1>1, <1>2, <1>3 DEF Acts, Step

\* A request at one of the places of a checkout, or at its end, leaves the lines alone.
LEMMA QuietPlaces ==
  ASSUME Shape, Control, LinesInv, NEW r \in Requests, Acts(r),
         pc[r] \notin {"insertLine", "deleteLines", "saveLine"}
  PROVE  lines' = lines
  BY LinesOfSteps DEF InsertLine, DeleteLines, SaveLine, Saving

LEMMA CheckoutSoFarStep ==
  ASSUME Shape, Control, LinesInv, CheckoutInv, NEW r \in Requests, Runs(r), Acts(r)
  PROVE  CheckoutSoFar(r)'
  <1>0. Maps /\ Callbacks /\ Whereabouts
    BY DEF Shape, Control
  <1> SUFFICES ASSUME request'[r].op = "checkoutCart" PROVE CheckoutSoFar(r)'
    BY DEF CheckoutSoFar
  <1>1. CASE Start(r)
    <2>1. pc[r] = "idle" /\ pc'[r] = "getCart" /\ task' = task
      BY <1>0, <1>1 DEF Maps, Start, Goto
    <2>2. DOMAIN task[r] = {}
      BY <1>0, <2>1 DEF Callbacks
    <2>3. QED
      BY <2>1, <2>2 DEF CheckoutSoFar
  <1>2. ASSUME ~Start(r) PROVE CheckoutSoFar(r)'
    <2>1. request[r].op = "checkoutCart" /\ CheckoutSoFar(r)
      BY <1>2, OnlyStartAsks DEF CheckoutInv
    <2>2. pc[r] \notin {"getLine", "insertLine", "saveLine", "deleteLines"}
      BY <2>1 DEF CheckoutSoFar
    <2>3. lines' = lines
      BY <2>2, QuietPlaces
    <2>4. misread \subseteq misread'
      BY DEF Runs
    <2>5. CASE MisreadNothing(r) /\ misread' = IF pc'[r] \in {"done", "failed"} THEN misread
                                               ELSE misread \cup {r}
      <3>1. /\ pc[r] \in {"getCart", "listLines"} /\ task' = task
            /\ pc'[r] = AfterNothing("checkoutCart", pc[r])
        BY <1>0, <2>1, <2>2, <2>5 DEF Maps, MisreadNothing, Goto
      <3>2. pc'[r] = "failed" \/ (pc'[r] = "ship" /\ r \in misread')
        BY <2>5, <3>1 DEF AfterNothing
      <3>3. DOMAIN task[r] = {}
        BY <1>0, <3>1 DEF Callbacks
      <3>4. QED
        BY <3>1, <3>2, <3>3 DEF CheckoutSoFar
    <2>6. CASE GetCart(r) \/ NoCart(r)
      <3>1. /\ pc[r] = "getCart" /\ task' = task
            /\ pc'[r] \in {AfterGetCart("checkoutCart"), AfterNothing("checkoutCart", "getCart")}
        BY <1>0, <2>1, <2>6 DEF Maps, GetCart, NoCart, Goto
      <3>2. pc'[r] \in {"listLines", "failed"}
        BY <3>1 DEF AfterGetCart, AfterNothing
      <3>3. DOMAIN task[r] = {}
        BY <1>0, <3>1 DEF Callbacks
      <3>4. QED
        BY <3>1, <3>2, <3>3 DEF CheckoutSoFar
    <2>7. CASE GetLine(r) \/ NoLine(r) \/ InsertLine(r) \/ DeleteLines(r) \/ SaveLine(r)
      BY <2>2, <2>7 DEF GetLine, NoLine, InsertLine, DeleteLines, SaveLine, Saving
    <2>8. CASE ListLines(r)
      <3>1. pc'[r] = "ship" /\ task'[r] = [id \in Attached(lines) |-> "ship"]
        BY <1>0, <2>1, <2>8 DEF Maps, ListLines, Goto
      <3>2. Attached(lines) = DOMAIN lines
        BY UndisturbedLines DEF LinesInv
      <3>3. QED
        BY <2>3, <3>1, <3>2 DEF CheckoutSoFar
    <2>9. CASE AllShipped(r) \/ GetPlaced(r) \/ Load(r) \/ Select(r)
      <3>1. /\ UNCHANGED <<task, cart, histories, shippings>>
            /\ \/ pc[r] = "ship" /\ pc'[r] = "place"
               \/ pc[r] = "getPlaced" /\ pc'[r] = "changeStatus"
               \/ pc[r] = "load" /\ pc'[r] = "refresh"
               \/ pc'[r] = pc[r]
        BY <1>0, <2>9 DEF Maps, AllShipped, GetPlaced, Load, Select, Goto, db
      <3>2. QED
        BY <2>1, <2>3, <2>4, <3>1 DEF CheckoutSoFar, Shipped
    <2>10. CASE Record(r)
      <3>1. /\ UNCHANGED <<task, cart, shippings>>
            /\ pc[r] = "record" /\ pc'[r] = "load" /\ r \in histories'
        BY <1>0, <2>10 DEF Maps, Record, Goto
      <3>2. QED
        BY <2>1, <2>3, <2>4, <3>1 DEF CheckoutSoFar, Shipped
    <2>11. CASE SaveCart(r)
      <3>1. /\ UNCHANGED <<task, shippings>>
            /\ \/ pc[r] = "place" /\ pc'[r] = "getPlaced"
               \/ pc[r] = "changeStatus" /\ pc'[r] = "record"
        BY <1>0, <2>11 DEF Maps, SaveCart, Saving, Goto
      <3>2. copy[r].cart.status = "PENDING" /\ copy[r].cart.code = "order"
        BY <2>1, <3>1 DEF CheckoutInv, CartKnown, CheckoutSoFar
      <3>3. cart'.status = "PENDING" /\ cart'.code = "order"
        BY <2>11, <3>2, UndisturbedCart
      <3>4. QED
        BY <2>1, <2>3, <2>4, <3>1, <3>3 DEF CheckoutSoFar, Shipped
    <2>12. CASE Refresh(r)
      <3>1. UNCHANGED <<task, shippings>> /\ pc[r] = "refresh" /\ pc'[r] = "done"
        BY <1>0, <2>12 DEF Maps, Refresh, Saving, Goto
      <3>2. QED
        BY <2>1, <2>3, <3>1 DEF CheckoutSoFar, Shipped
    <2>13. ASSUME pc'[r] = "failed" PROVE CheckoutSoFar(r)'
      BY <2>13 DEF CheckoutSoFar
    <2>14. CASE Abort(r)
      BY <1>0, <2>13, <2>14 DEF Maps, Abort, Goto
    <2>15. ASSUME NEW id \in DOMAIN task[r],
                  ShipLine(r, id) \/ GetShipped(r, id) \/ SelectShipped(r, id) \/ SaveShipped(r, id)
           PROVE  CheckoutSoFar(r)'
      <3>1. /\ pc' = pc /\ cart' = cart /\ histories' = histories /\ shippings \subseteq shippings'
            /\ task[r][id] = "ship" => Shipped(r, id)'
            /\ \E w : task' = [task EXCEPT ![r][id] = w]
        BY <2>15 DEF ShipLine, GetShipped, SelectShipped, SaveShipped, TaskAt, TaskTo, Shipped, db
      <3>2. task[r][id] \in {"ship", "get", "select", "save"}
        BY <2>15 DEF ShipLine, GetShipped, SelectShipped, SaveShipped, TaskAt
      <3>3. /\ DOMAIN task'[r] = DOMAIN task[r]
            /\ \A k \in DOMAIN task[r] : k # id => task'[r][k] = task[r][k]
        BY <1>0, <3>1 DEF Maps
      <3>4. \A k : Shipped(r, k) => Shipped(r, k)'
        BY <3>1 DEF Shipped
      <3>5. QED
        BY <2>1, <2>3, <2>4, <3>1, <3>2, <3>3, <3>4 DEF CheckoutSoFar
    <2>16. ASSUME NEW id \in DOMAIN task[r], FailTask(r, id) PROVE CheckoutSoFar(r)'
      BY <1>0, <2>13, <2>16 DEF Maps, FailTask, Goto
    <2>17. QED
      BY <1>2, <2>5, <2>6, <2>7, <2>8, <2>9, <2>10, <2>11, <2>12, <2>14, <2>15, <2>16 DEF Runs, Step
  <1>3. QED
    BY <1>1, <1>2

\* An answer of a checkout finds everything done.
LEMMA AnswerIsComplete ==
  ASSUME Shape, Control, LinesInv, CheckoutInv, NEW r \in Requests, Runs(r), Acts(r),
         ~Answered(r), Answered(r)'
  PROVE  /\ cart' = [status |-> "PENDING", code |-> "order", total |-> Total(lines')]
         /\ r \in histories'
         /\ r \notin misread' => \A id \in Attached(lines') : Shipped(r, id)'
  <1>0. Maps /\ Callbacks /\ Whereabouts
    BY DEF Shape, Control
  <1>1. Refresh(r)
    <2>1. ~Start(r)
      BY <1>0 DEF Maps, Start, Goto, Answered
    <2>2. request[r].op = "checkoutCart" /\ pc[r] # "done" /\ pc'[r] = "done"
      BY <2>1, OnlyStartAsks DEF Answered
    <2>3. ~GetCart(r) /\ ~NoCart(r) /\ ~NoLine(r) /\ ~MisreadNothing(r)
      <3>1. GetCart(r) \/ NoCart(r) \/ NoLine(r) \/ MisreadNothing(r) =>
              \/ pc'[r] = AfterGetCart("checkoutCart")
              \/ pc'[r] = AfterNothing("checkoutCart", "getCart")
              \/ pc'[r] = AfterNothing("checkoutCart", "getLine")
              \/ pc'[r] = AfterNothing("checkoutCart", "listLines")
        BY <1>0, <2>2 DEF Maps, GetCart, NoCart, NoLine, MisreadNothing, Goto
      <3>2. QED
        BY <2>2, <3>1 DEF AfterGetCart, AfterNothing
    <2>4. ~GetLine(r) /\ ~InsertLine(r) /\ ~ListLines(r) /\ ~DeleteLines(r) /\ ~AllShipped(r) /\ ~GetPlaced(r)
          /\ ~Record(r) /\ ~Load(r) /\ ~Select(r) /\ ~SaveLine(r) /\ ~SaveCart(r) /\ ~Abort(r)
      BY <1>0, <2>2
      DEF Maps, GetLine, InsertLine, ListLines, DeleteLines, AllShipped, GetPlaced, Record, Load, Select,
          SaveLine, SaveCart, Saving, Abort, Goto
    <2>5. \A id \in DOMAIN task[r] : ~ShipLine(r, id) /\ ~GetShipped(r, id) /\ ~SelectShipped(r, id)
                                     /\ ~SaveShipped(r, id) /\ ~FailTask(r, id)
      BY <1>0, <2>2 DEF Maps, ShipLine, GetShipped, SelectShipped, SaveShipped, FailTask, Goto
    <2>6. QED
      BY <2>1, <2>3, <2>4, <2>5 DEF Acts, Step
  <1>2. /\ pc[r] = "refresh" /\ request[r].op = "checkoutCart"
        /\ UNCHANGED <<shippings, histories, task>> /\ misread \subseteq misread'
    BY <1>1 DEF Refresh, Saving, Answered, Runs
  <1>3. /\ copy[r].cart.total = Total(lines) /\ copy[r].cart.code = "order" /\ copy[r].cart.status = "PENDING"
        /\ r \in histories
        /\ r \notin misread => DOMAIN lines \subseteq DOMAIN task[r]
        /\ \A id \in DOMAIN task[r] :
             task[r][id] \in {"get", "select", "save", "done"} /\ id \in DOMAIN lines => Shipped(r, id)
    BY <1>2 DEF CheckoutInv, CartKnown, CheckoutSoFar
  <1>4. lines' = lines
    BY <1>2, QuietPlaces
  <1>5. Total(lines') = Total(lines)
    BY <1>4
  <1>6. cart' = [status |-> "PENDING", code |-> "order", total |-> Total(lines')]
    BY <1>1, <1>3, <1>5, UndisturbedCart
  <1>7. Attached(lines') = DOMAIN lines
    BY <1>4, UndisturbedLines DEF LinesInv
  <1>8. \A id \in DOMAIN task[r] : task[r][id] = "done"
    BY <1>0, <1>2 DEF Callbacks
  <1>9. QED
    BY <1>2, <1>3, <1>6, <1>7, <1>8 DEF Shipped

LEMMA CheckoutInvStep ==
  ASSUME Serialized
  PROVE  Shape /\ Control /\ LinesInv /\ CheckoutInv /\ [Next]_vars => CheckoutInv'
  <1> SUFFICES ASSUME Shape, Control, LinesInv, CheckoutInv, [Next]_vars PROVE CheckoutInv'
    OBVIOUS
  <1>1. CASE UNCHANGED vars
    <2>1. Total(lines)' = Total(lines)
      BY <1>1 DEF vars, db
    <2>2. QED
      BY <1>1, <2>1
      DEF CheckoutInv, CartKnown, CheckoutSoFar, Shipped, OnePast, Past, CheckoutIsComplete, Attached,
          AnsweredFreezes, Answered, InFlight, ShippersKnown, vars, db
  <1>2. ASSUME NEW r \in Requests, Runs(r), Acts(r) PROVE CheckoutInv'
    <2>0. /\ Maps /\ Callbacks /\ misread \subseteq misread'
          /\ (\A q \in Requests : q # r =>
               /\ pc'[q] = pc[q] /\ request'[q] = request[q] /\ task'[q] = task[q]
               /\ selected'[q] = selected[q] /\ (q \in misread' <=> q \in misread))
      BY <1>2, OthersStay, OthersKeepTheirs DEF Shape, Control, Runs
    <2>1. \A q \in Requests : q # r =>
            /\ ~InFlight(q) /\ ~InFlight(q)' /\ ~selected[q]
            /\ pc[q] \in {"idle", "done", "failed"}
      <3>1. Start(r) => \A q \in Requests : ~InFlight(q)
        BY DEF Start
      <3>2. \A q \in Requests : q # r => ~InFlight(q) /\ ~InFlight(q)'
        BY <1>2, <3>1, ActorIsInFlight DEF Control, OneAtATime
      <3>3. QED
        BY <2>0, <3>2 DEF InFlight, Callbacks, Saves
    <2>2. ASSUME NEW a \in Requests, Answered(a)
          PROVE  /\ r # a
                 /\ UNCHANGED db
                 /\ \/ pc[r] = "idle" /\ pc'[r] = "getCart"
                    \/ /\ pc[r] = "getCart" /\ pc'[r] \in {"done", "failed"} /\ request'[r] = request[r]
                       /\ pc'[r] = "done" => request[r].op # "checkoutCart"
                       /\ ~InFlight(r)'
      BY <1>2, <2>2, AnsweredIsLast
    <2>3. \A q \in Requests : CartKnown(q)' /\ CheckoutSoFar(q)'
      <3>1. CartKnown(r)' /\ CheckoutSoFar(r)'
        BY <1>2, CartKnownStep, CheckoutSoFarStep
      <3>2. ASSUME NEW q \in Requests, q # r PROVE CartKnown(q)'
        BY <2>0, <2>1, <3>2 DEF CartKnown
      <3>3. ASSUME NEW q \in Requests, q # r PROVE CheckoutSoFar(q)'
        <4>1. CheckoutSoFar(q)
          BY DEF CheckoutInv
        <4>2. CASE pc[q] = "failed"
          BY <2>0, <3>3, <4>2 DEF CheckoutSoFar
        <4>3. CASE pc[q] = "idle"
          BY <2>0, <3>3, <4>3 DEF CheckoutSoFar, Callbacks
        <4>4. CASE pc[q] = "done" /\ request[q].op = "checkoutCart"
          <5>1. UNCHANGED db
            BY <2>2, <4>4 DEF Answered
          <5>2. QED
            BY <2>0, <3>3, <4>1, <4>4, <5>1 DEF CheckoutSoFar, Shipped, db
        <4>5. CASE request[q].op # "checkoutCart"
          BY <2>0, <3>3, <4>5 DEF CheckoutSoFar
        <4>6. QED
          BY <2>1, <3>3, <4>2, <4>3, <4>4, <4>5
      <3>4. QED
        BY <3>1, <3>2, <3>3
    <2>4. OnePast'
      <3>1. \A q \in Requests : q # r /\ Past(q)' => Answered(q) /\ Past(q)
        BY <2>0, <2>1 DEF Past, Answered
      <3>2. \A q \in Requests : Answered(q) => ~Past(r)'
        BY <2>2 DEF Past
      <3>3. ASSUME NEW a \in Requests, NEW b \in Requests, Past(a)', Past(b)' PROVE a = b
        BY <3>1, <3>2, <3>3 DEF CheckoutInv, OnePast
      <3>4. QED
        BY <3>3 DEF OnePast, Past
    <2>5. CheckoutIsComplete'
      <3>1. ASSUME NEW a \in Requests, Answered(a)'
            PROVE  /\ cart' = [status |-> "PENDING", code |-> "order", total |-> Total(lines')]
                   /\ a \in histories'
                   /\ a \notin misread' => \A id \in Attached(lines') : Shipped(a, id)'
        <4>1. CASE Answered(a)
          <5>1. UNCHANGED db /\ r # a
            BY <2>2, <4>1
          <5>2. Total(lines') = Total(lines) /\ Attached(lines') = Attached(lines)
            BY <5>1 DEF db
          <5>3. a \notin misread' => a \notin misread
            BY <2>0
          <5>4. QED
            BY <4>1, <5>1, <5>2, <5>3 DEF CheckoutInv, CheckoutIsComplete, Answered, Shipped, db
        <4>2. CASE ~Answered(a)
          <5>1. a = r
            BY <2>0, <3>1, <4>2 DEF Answered
          <5>2. QED
            BY <1>2, <3>1, <4>2, <5>1, AnswerIsComplete
        <4>3. QED
          BY <4>1, <4>2
      <3>2. QED
        BY <3>1 DEF CheckoutIsComplete, Answered, Shipped
    <2>6. AnsweredFreezes'
      <3>1. ASSUME NEW a \in Requests, NEW q \in Requests, Answered(a)', InFlight(q)' PROVE pc'[q] = "getCart"
        <4>1. q = r
          BY <2>1, <3>1
        <4>2. CASE Answered(a)
          BY <2>2, <3>1, <4>1, <4>2
        <4>3. CASE ~Answered(a)
          <5>1. a = r /\ pc'[r] = "done"
            BY <2>0, <3>1, <4>3 DEF Answered
          <5>2. \A id \in DOMAIN task'[r] : task'[r][id] = "done"
            BY <1>2, <5>1, CallbacksOfSteps DEF Callbacks, Control
          <5>3. QED
            BY <3>1, <4>1, <5>1, <5>2 DEF InFlight
        <4>4. QED
          BY <4>2, <4>3
      <3>2. QED
        BY <3>1 DEF AnsweredFreezes, Answered
    <2>7. ShippersKnown'
      <3>1. ASSUME NEW q \in Requests, request[q].op = "checkoutCart", pc[q] \notin {"idle", "getCart"}
            PROVE  request'[q].op = "checkoutCart" /\ pc'[q] \notin {"idle", "getCart"}
        <4>1. q = r => ~Start(r)
          BY <3>1 DEF Start
        <4>2. QED
          BY <1>2, <2>0, <3>1, <4>1, OnlyStartAsks
      <3>2. shippings' \subseteq shippings
            \/ \E id \in DOMAIN task[r] : shippings' = shippings \cup {[line |-> id, by |-> r]}
        BY <1>2
        DEF Acts, Step, Start, GetCart, NoCart, GetLine, NoLine, InsertLine, ListLines, DeleteLines, AllShipped,
            GetPlaced, Record, Load, Select, SaveLine, SaveCart, Refresh, Saving, Abort, ShipLine, GetShipped,
            SelectShipped, SaveShipped, FailTask, MisreadNothing, db
      <3>3. DOMAIN task[r] # {} => request[r].op = "checkoutCart" /\ pc[r] \notin {"idle", "getCart"}
        BY <2>0 DEF Callbacks
      <3>4. ASSUME NEW s \in shippings'
            PROVE  s.by \in Requests /\ request[s.by].op = "checkoutCart" /\ pc[s.by] \notin {"idle", "getCart"}
        BY <3>2, <3>3, <3>4 DEF CheckoutInv, ShippersKnown
      <3>5. QED
        BY <3>1, <3>4 DEF ShippersKnown
    <2>8. QED
      BY <2>3, <2>4, <2>5, <2>6, <2>7 DEF CheckoutInv
  <1>3. QED
    BY <1>1, <1>2, NextRuns

LEMMA CheckoutInvAlways ==
  ASSUME Serialized
  PROVE  Spec => []CheckoutInv
  <1>1. Init => CheckoutInv
    BY DEF Init, Requested, CheckoutInv, CartKnown, CheckoutSoFar, OnePast, Past, CheckoutIsComplete, AnsweredFreezes,
           Answered, ShippersKnown
  <1>2. QED
    BY <1>1, CheckoutInvStep, ShapeAlways, ControlAlways, LinesInvAlways, PTL DEF Spec

\* When requests come one at a time, then once a checkout has answered, and whatever requests
\* follow, the cart is an order with a code of its own, its PENDING history, the right total and
\* this checkout's shipping for each line.
THEOREM SerialCheckoutIsComplete ==
  ASSUME Serialized
  PROVE  Spec => []CheckoutIsComplete
  <1>1. CheckoutInv => CheckoutIsComplete
    BY DEF CheckoutInv
  <1>2. QED
    BY <1>1, CheckoutInvAlways, PTL

\* When requests come one at a time, a line is shipped twice only when a checkout that failed is
\* tried again.
THEOREM SerialOnlyRetriesShipTwice ==
  ASSUME Serialized
  PROVE  Spec => []OnlyRetriesShipTwice
  <1>1. CheckoutInv => OnlyRetriesShipTwice
    BY DEF CheckoutInv, ShippersKnown, OnePast, Past, OnlyRetriesShipTwice
  <1>2. QED
    BY <1>1, CheckoutInvAlways, PTL

\* When requests come one at a time, a refresh that ends makes the total the sum of the lines,
\* whatever an earlier request left unfinished.
THEOREM SerialRefreshRepairs ==
  ASSUME Serialized
  PROVE  Spec => RefreshRepairs
  <1> DEFINE Repairs == \A r \in Requests :
                          pc[r] = "refresh" /\ pc'[r] = "done" => cart'.total = Total(lines')
  <1>1. Shape /\ Control /\ LinesInv /\ CheckoutInv /\ [Next]_vars => [Repairs]_vars
    <2> SUFFICES ASSUME Shape, Control, LinesInv, CheckoutInv, [Next]_vars, ~UNCHANGED vars,
                        NEW r \in Requests, pc[r] = "refresh", pc'[r] = "done"
                 PROVE  cart'.total = Total(lines')
      OBVIOUS
    <2>0. Maps /\ Callbacks
      BY DEF Shape, Control
    <2>1. Acts(r)
      <3>1. PICK q \in Requests : Acts(q)
        BY NextActs
      <3>2. QED
        BY <3>1, OthersStay
    <2>2. Refresh(r)
      <3>1. \A id \in DOMAIN task[r] : task[r][id] = "done"
        BY <2>0 DEF Callbacks
      <3>2. Refresh(r) \/ Select(r) \/ Abort(r)
        BY <2>1, <3>1
        DEF Acts, Step, Start, GetCart, NoCart, GetLine, NoLine, InsertLine, ListLines, DeleteLines, AllShipped,
            GetPlaced, Record, Load, SaveLine, SaveCart, Saving, ShipLine, GetShipped, SelectShipped, SaveShipped,
            FailTask, MisreadNothing, TaskAt
      <3>3. QED
        BY <2>0, <3>2 DEF Maps, Select, Abort, Goto
    <2>3. lines' = lines
      BY <2>1, QuietPlaces
    <2>4. copy[r].cart.total = Total(lines)
      BY DEF CheckoutInv, CartKnown
    <2>5. Total(lines') = Total(lines)
      BY <2>3
    <2>6. QED
      BY <2>2, <2>4, <2>5, UndisturbedCart
  <1>2. QED
    BY <1>1, ShapeAlways, ControlAlways, LinesInvAlways, CheckoutInvAlways, PTL DEF Spec, RefreshRepairs

-----------------------------------------------------------------------------
(* Types, however requests interleave.  The total of a cart is a sum of    *)
(* natural amounts, a copy and an image hold rows that the table had, and  *)
(* only the deletion of lines takes ids away from it, with their shippings.*)

Carts == [status : {"CART", "PENDING"}, code : {"cart", "order"}, total : Nat]

\* Lines whose ids the sequence has given out before n.
Given(ls, n) == \A id \in DOMAIN ls : id \in 1..(n - 1) /\ ls[id] \in Line

\* What a request asks for.
Asked(r) == /\ FormKnown(r)
            /\ request[r].status \in {"CART", "PENDING"}
            /\ pc[r] = "insertLine" => request[r].op = "addToCart"

ShippingsKnown == \A s \in shippings : s.line \in DOMAIN lines /\ s.by \in Requests

Memory(r) == /\ copy[r].cart \in Carts /\ Given(copy[r].lines, nextId)
             /\ image[r].cart \in Carts /\ Given(image[r].lines, nextId)
             /\ \A id \in DOMAIN task[r] :
                  task[r][id] \notin {"done", "failed"} => id \in DOMAIN copy[r].lines

TypeInv == /\ nextId \in Nat \ {0}
           /\ cart \in Carts /\ Given(lines, nextId)
           /\ ShippingsKnown
           /\ histories \subseteq Requests
           /\ \A r \in Requests : Asked(r) /\ Memory(r)

LEMMA GivenIsFinite ==
  ASSUME NEW ls, NEW n \in Nat, Given(ls, n)
  PROVE  IsFiniteSet(Attached(ls))
  <1>1. Attached(ls) \subseteq 1..(n - 1)
    BY DEF Attached, Given
  <1>2. IsFiniteSet(1..(n - 1))
    BY FS_Interval
  <1>3. QED
    BY <1>1, <1>2, FS_Subset

LEMMA TotalOfGiven ==
  ASSUME NEW ls, NEW n \in Nat, Given(ls, n)
  PROVE  Total(ls) \in Nat
  <1>1. IsFiniteSet(Attached(ls))
    BY GivenIsFinite
  <1>2. ASSUME NEW id \in Attached(ls) PROVE Amount(ls, id) \in Nat
    <2>1. ls[id] \in Line
      BY DEF Attached, Given
    <2>2. PICK p, q : p = Price[ls[id].item] /\ q = ls[id].quantity
      OBVIOUS
    <2>3. p \in Nat /\ q \in Nat
      BY <2>1, <2>2, CartAssumption DEF Line
    <2>4. p * q \in Nat
      BY <2>3
    <2>5. QED
      BY <2>2, <2>4 DEF Amount
  <1>3. QED
    BY <1>1, <1>2, TotalIsNat DEF Costs

LEMMA GivenLater ==
  ASSUME NEW ls, NEW n \in Nat, NEW m \in Nat, n <= m, Given(ls, n)
  PROVE  Given(ls, m)
  BY DEF Given

\* What the saves write are lines, if a copy and the table hold lines.
LEMMA SavedLinesGiven ==
  ASSUME NEW mine, NEW read, NEW now, NEW n, Given(mine, n), Given(now, n)
  PROVE  /\ Given(SavedLines(mine, read, now), n)
         /\ DOMAIN now \subseteq DOMAIN SavedLines(mine, read, now)
  <1> DEFINE D == DOMAIN now \cup (DOMAIN mine \ DOMAIN read)
             Row(id) == IF id \notin DOMAIN now THEN mine[id]
                        ELSE IF id \notin DOMAIN mine THEN now[id]
                        ELSE [item     |-> now[id].item,
                              quantity |-> Column(mine[id].quantity, read[id].quantity, now[id].quantity),
                              attached |-> Column(mine[id].attached, read[id].attached, now[id].attached)]
  <1>1. SavedLines(mine, read, now) = [id \in D |-> Row(id)]
    BY DEF SavedLines
  <1>2. ASSUME NEW id \in D PROVE id \in 1..(n - 1) /\ Row(id) \in Line
    BY DEF Given, Column, Line
  <1> HIDE DEF Row
  <1>3. QED
    BY <1>1, <1>2 DEF Given

LEMMA OrphanedGiven ==
  ASSUME NEW mine, NEW read, NEW now, NEW n, Given(now, n)
  PROVE  /\ Given(Orphaned(mine, read, now), n)
         /\ DOMAIN Orphaned(mine, read, now) = DOMAIN now
  <1>1. ASSUME NEW id \in DOMAIN now
        PROVE  [now[id] EXCEPT !.attached = @ /\ ~(id \in Attached(read) \ DOMAIN mine)] \in Line
    <2>1. PICK b : b = (now[id].attached /\ ~(id \in Attached(read) \ DOMAIN mine))
      OBVIOUS
    <2>2. b \in BOOLEAN
      BY Zenon, <2>1
    <2>3. now[id] \in Line
      BY DEF Given
    <2>4. [now[id] EXCEPT !.attached = b] \in Line
      BY <2>2, <2>3 DEF Line
    <2>5. QED
      BY Zenon, <2>1, <2>4
  <1>2. PICK f : f = [id \in DOMAIN now |->
                        [now[id] EXCEPT !.attached = @ /\ ~(id \in Attached(read) \ DOMAIN mine)]]
    OBVIOUS
  <1>3. DOMAIN f = DOMAIN now /\ \A id \in DOMAIN now : f[id] \in Line
    BY Zenon, <1>1, <1>2
  <1>4. Orphaned(mine, read, now) = f
    BY <1>2 DEF Orphaned
  <1>5. QED
    BY <1>3, <1>4 DEF Given

LEMMA RestrictGiven ==
  ASSUME NEW ls, NEW n, NEW S, Given(ls, n), S \subseteq DOMAIN ls
  PROVE  Given(Restrict(ls, S), n) /\ DOMAIN Restrict(ls, S) = S
  BY DEF Given, Restrict

\* The table after a step.
LEMMA LinesTyped ==
  ASSUME Shape, TypeInv, NEW r \in Requests, Acts(r)
  PROVE  /\ nextId' \in Nat \ {0} /\ nextId <= nextId'
         /\ Given(lines', nextId')
         /\ ShippingsKnown'
  <1>0. nextId \in Nat \ {0} /\ Given(lines, nextId) /\ ShippingsKnown /\ Asked(r) /\ Memory(r)
    BY DEF TypeInv
  <1>1. CASE UNCHANGED <<nextId, lines, shippings>>
    BY <1>0, <1>1 DEF ShippingsKnown
  <1>2. CASE InsertLine(r)
    <2>1. PICK x : x = [item |-> request[r].item, quantity |-> request[r].quantity, attached |-> TRUE]
      OBVIOUS
    <2>2. x \in Line
      BY <1>0, <1>2, <2>1 DEF InsertLine, Asked, FormKnown, Line
    <2>3. /\ nextId' = nextId + 1
          /\ lines' = [id \in DOMAIN lines \cup {nextId} |-> IF id = nextId THEN x ELSE lines[id]]
          /\ shippings' = shippings
      BY <1>2, <2>1 DEF InsertLine
    <2>4. QED
      BY <1>0, <2>2, <2>3 DEF Given, ShippingsKnown
  <1>3. CASE DeleteLines(r)
    <2>1. PICK S : S = DOMAIN lines \ DOMAIN copy[r].lines
      OBVIOUS
    <2>2. /\ nextId' = nextId /\ lines' = Restrict(lines, S) /\ S \subseteq DOMAIN lines
          /\ shippings' = {s \in shippings : s.line \in DOMAIN lines'}
      BY <1>3, <2>1 DEF DeleteLines
    <2>3. Given(lines', nextId)
      BY <1>0, <2>2, RestrictGiven
    <2>4. QED
      BY <1>0, <2>2, <2>3 DEF ShippingsKnown
  <1>4. CASE SaveLine(r) \/ Refresh(r)
    <2>1. PICK saved : saved = SavedLines(copy[r].lines, image[r].lines, lines)
      OBVIOUS
    <2>2. /\ nextId' = nextId /\ shippings' = shippings
          /\ lines' = saved \/ lines' = Orphaned(copy[r].lines, image[r].lines, saved)
      BY <1>4, <2>1 DEF SaveLine, Refresh, Saving
    <2>3. Given(saved, nextId) /\ DOMAIN lines \subseteq DOMAIN saved
      BY <1>0, <2>1, SavedLinesGiven DEF Memory
    <2>4. Given(lines', nextId) /\ DOMAIN lines \subseteq DOMAIN lines'
      BY <2>2, <2>3, OrphanedGiven
    <2>5. QED
      BY <1>0, <2>2, <2>4 DEF ShippingsKnown
  <1>5. ASSUME NEW id \in DOMAIN task[r], SaveShipped(r, id)
        PROVE  /\ nextId' \in Nat \ {0} /\ nextId <= nextId'
               /\ Given(lines', nextId')
               /\ ShippingsKnown'
    <2>1. PICK mine : mine = Restrict(copy[r].lines, {id})
      OBVIOUS
    <2>2. /\ nextId' = nextId /\ shippings' = shippings
          /\ lines' = SavedLines(mine, image[r].lines, lines)
      BY <1>5, <2>1 DEF SaveShipped
    <2>3. id \in DOMAIN copy[r].lines
      BY <1>0, <1>5 DEF Memory, SaveShipped, TaskAt
    <2>4. Given(mine, nextId)
      BY <1>0, <2>1, <2>3, RestrictGiven DEF Memory
    <2>5. QED
      BY <1>0, <2>2, <2>4, SavedLinesGiven DEF ShippingsKnown
  <1>6. ASSUME NEW id \in DOMAIN task[r], ShipLine(r, id)
        PROVE  /\ nextId' \in Nat \ {0} /\ nextId <= nextId'
               /\ Given(lines', nextId')
               /\ ShippingsKnown'
    <2>1. /\ shippings' = shippings \cup {[line |-> id, by |-> r]} /\ id \in DOMAIN lines
          /\ UNCHANGED <<nextId, lines>>
      BY <1>6 DEF ShipLine
    <2>2. QED
      BY <1>0, <2>1 DEF ShippingsKnown
  <1>7. QED
    BY <1>1, <1>2, <1>3, <1>4, <1>5, <1>6
    DEF Acts, Step, Start, GetCart, NoCart, GetLine, NoLine, ListLines, AllShipped, GetPlaced, Record, Load,
        Select, SaveCart, Saving, Abort, GetShipped, SelectShipped, FailTask, MisreadNothing, db

\* The carts that are stored and held.
LEMMA CartsTyped ==
  ASSUME Shape, Tables, TypeInv, NEW r \in Requests, Acts(r)
  PROVE  cart' \in Carts /\ copy'[r].cart \in Carts /\ image'[r].cart \in Carts
  <1>0. /\ r \in DOMAIN copy /\ Held(copy[r]) /\ r \in DOMAIN image /\ DOMAIN image[r] = {"cart", "lines"}
        /\ cart \in Carts /\ copy[r].cart \in Carts /\ image[r].cart \in Carts
        /\ request[r].status \in {"CART", "PENDING"}
        /\ Blank.cart \in Carts
        /\ Total(lines) \in Nat
    <2>1. Blank.cart \in Carts
      BY DEF Blank, Carts
    <2>2. Total(lines) \in Nat
      BY TotalOfGiven DEF TypeInv
    <2>3. QED
      BY <2>1, <2>2 DEF Shape, Maps, Tables, TypeInv, Memory, Asked
  <1>1. cart' \in Carts
    <2>1. CASE SaveCart(r) \/ Refresh(r)
      <3>1. cart' = SavedCart(copy[r].cart, image[r].cart, cart)
        BY <2>1 DEF SaveCart, Refresh
      <3>2. QED
        BY <1>0, <3>1 DEF SavedCart, Column, Carts
    <2>2. QED
      BY <1>0, <2>1
      DEF Acts, Step, Start, GetCart, NoCart, GetLine, NoLine, InsertLine, ListLines, DeleteLines, AllShipped,
          GetPlaced, Record, Load, Select, SaveLine, Abort, ShipLine, GetShipped, SelectShipped, SaveShipped,
          FailTask, MisreadNothing, db
  <1>2. copy'[r].cart \in Carts
    <2>1. CASE GetCart(r)
      BY <1>0, <2>1 DEF Held, GetCart
    <2>2. CASE AllShipped(r)
      <3>1. copy'[r].cart = [copy[r].cart EXCEPT !.status = "PENDING", !.code = "order"]
        BY <1>0, <2>2 DEF Held, AllShipped
      <3>2. QED
        BY <1>0, <3>1 DEF Carts
    <2>3. CASE GetPlaced(r)
      <3>1. copy'[r].cart = [cart EXCEPT !.status = "PENDING"]
        BY <1>0, <2>3 DEF Held, GetPlaced
      <3>2. QED
        BY <1>0, <3>1 DEF Carts
    <2>4. CASE Load(r)
      <3>1. PICK s, t : /\ s = IF request[r].op = "updateCart" THEN request[r].status ELSE cart.status
                        /\ t = Total(lines)
        OBVIOUS
      <3>2. PICK c : c = [cart EXCEPT !.total = t, !.status = s]
        OBVIOUS
      <3>3. copy' = [copy EXCEPT ![r] = [cart |-> c, lines |-> Restrict(lines, Attached(lines))]]
        BY <2>4, <3>1, <3>2 DEF Load
      <3>4. c \in Carts
        BY <1>0, <3>1, <3>2 DEF Carts
      <3>5. QED
        BY <1>0, <3>3, <3>4
    <2>5. CASE UNCHANGED copy
      BY <1>0, <2>5
    <2>6. CASE copy' = [copy EXCEPT ![r] = Blank]
      BY <1>0, <2>6
    <2>7. CASE \E ls : copy' = [copy EXCEPT ![r].lines = ls]
      BY <1>0, <2>7 DEF Held
    <2>8. CASE \E id, x : copy' = [copy EXCEPT ![r].lines[id] = x]
      BY <1>0, <2>8 DEF Held
    <2>9. QED
      BY <2>1, <2>2, <2>3, <2>4, <2>5, <2>6, <2>7, <2>8
      DEF Acts, Step, Start, NoCart, GetLine, NoLine, InsertLine, ListLines, DeleteLines,
          Record, Select, SaveLine, SaveCart, Refresh, Saving, Abort, ShipLine, GetShipped, SelectShipped,
          SaveShipped, FailTask, MisreadNothing
  <1>3. image'[r].cart \in Carts
    <2>1. CASE Select(r)
      BY <1>0, <2>1 DEF Select
    <2>2. CASE UNCHANGED image
      BY <1>0, <2>2
    <2>3. CASE image' = [image EXCEPT ![r] = Blank]
      BY <1>0, <2>3
    <2>4. CASE \E ls : image' = [image EXCEPT ![r].lines = ls]
      BY <1>0, <2>4
    <2>5. QED
      BY <2>1, <2>2, <2>3, <2>4
      DEF Acts, Step, Start, GetCart, NoCart, GetLine, NoLine, InsertLine, ListLines, DeleteLines, AllShipped,
          GetPlaced, Record, Load, SaveLine, SaveCart, Refresh, Saving, Abort, ShipLine, GetShipped, SelectShipped,
          SaveShipped, FailTask, MisreadNothing
  <1>4. QED
    BY <1>1, <1>2, <1>3

\* The lines that are held.
LEMMA CopiesTyped ==
  ASSUME Shape, Tables, Callbacks, TypeInv, NEW r \in Requests, Acts(r)
  PROVE  /\ Given(copy'[r].lines, nextId)
         /\ \A id \in DOMAIN task'[r] :
              task'[r][id] \notin {"done", "failed"} => id \in DOMAIN copy'[r].lines
  <1>0. /\ r \in DOMAIN copy /\ Held(copy[r]) /\ r \in DOMAIN task
        /\ Given(lines, nextId) /\ Given(copy[r].lines, nextId)
        /\ \A id \in DOMAIN task[r] : task[r][id] \notin {"done", "failed"} => id \in DOMAIN copy[r].lines
        /\ (\E id \in DOMAIN task[r] : task[r][id] # "done") => pc[r] \in {"ship", "failed"}
        /\ Attached(lines) \subseteq DOMAIN lines
    BY DEF Shape, Maps, TypeInv, Memory, Callbacks, Attached
  <1>1. CASE UNCHANGED copy /\ \/ task'[r] = task[r]
                               \/ \E id \in DOMAIN task[r] : \E w :
                                    /\ task[r][id] \notin {"done", "failed"}
                                    /\ task' = [task EXCEPT ![r][id] = w]
    BY <1>0, <1>1
  <1>2. CASE GetLine(r)
    <2>1. PICK id \in DOMAIN lines :
            \/ copy' = [copy EXCEPT ![r].lines =
                           [k \in {id} |-> [lines[id] EXCEPT !.quantity = request[r].quantity]]]
               /\ request[r].op = "addToCart"
            \/ copy' = [copy EXCEPT ![r].lines = Restrict(lines, {id})]
      BY <1>2 DEF GetLine, LinesOf, Attached
    <2>2. PICK x : x = [lines[id] EXCEPT !.quantity = request[r].quantity]
      OBVIOUS
    <2>3. request[r].op = "addToCart" => x \in Line
      BY <1>0, <2>1, <2>2 DEF TypeInv, Asked, FormKnown, Given, Line
    <2>4. \/ copy'[r].lines = [k \in {id} |-> x] /\ x \in Line
          \/ copy'[r].lines = Restrict(lines, {id})
      BY <1>0, <2>1, <2>2, <2>3 DEF Held
    <2>5. id \in 1..(nextId - 1) /\ lines[id] \in Line
      BY <1>0 DEF Given
    <2>6. Given(copy'[r].lines, nextId)
      BY <2>4, <2>5 DEF Given, Restrict
    <2>7. task'[r] = task[r] /\ \A k \in DOMAIN task[r] : task[r][k] = "done"
      BY <1>0, <1>2 DEF GetLine
    <2>8. QED
      BY <2>6, <2>7
  <1>3. CASE ListLines(r)
    <2>1. /\ copy' = [copy EXCEPT ![r].lines = Restrict(lines, Attached(lines))]
          /\ task'[r] = [id \in Attached(lines) |-> "ship"] \/ task'[r] = task[r]
          /\ \A id \in DOMAIN task[r] : task[r][id] = "done"
      BY <1>0, <1>3 DEF ListLines
    <2>2. copy'[r].lines = Restrict(lines, Attached(lines))
      BY <1>0, <2>1 DEF Held
    <2>3. Given(copy'[r].lines, nextId) /\ DOMAIN copy'[r].lines = Attached(lines)
      BY <1>0, <2>2, RestrictGiven
    <2>4. QED
      BY <2>1, <2>3
  <1>4. CASE Load(r)
    <2>1. /\ \E c : copy' = [copy EXCEPT ![r] = [cart |-> c, lines |-> Restrict(lines, Attached(lines))]]
          /\ task'[r] = task[r]
          /\ \A id \in DOMAIN task[r] : task[r][id] = "done"
      BY <1>0, <1>4 DEF Load
    <2>2. copy'[r].lines = Restrict(lines, Attached(lines))
      BY <1>0, <2>1
    <2>3. QED
      BY <1>0, <2>1, <2>2, RestrictGiven
  <1>5. CASE GetCart(r) \/ AllShipped(r) \/ GetPlaced(r)
    <2>1. copy'[r].lines = copy[r].lines /\ task'[r] = task[r]
      BY <1>0, <1>5 DEF Held, GetCart, AllShipped, GetPlaced
    <2>2. QED
      BY <1>0, <2>1
  <1>6. CASE \/ copy' = [copy EXCEPT ![r] = Blank]
                /\ task'[r] = task[r] /\ \A id \in DOMAIN task[r] : task[r][id] = "done"
    <2>1. Given(Blank.lines, nextId)
      BY DEF Blank, NoLines, Given
    <2>2. QED
      BY <1>0, <1>6, <2>1
  <1>7. ASSUME NEW id \in DOMAIN task[r], GetShipped(r, id)
        PROVE  /\ Given(copy'[r].lines, nextId)
               /\ \A k \in DOMAIN task'[r] :
                    task'[r][k] \notin {"done", "failed"} => k \in DOMAIN copy'[r].lines
    <2>1. /\ copy' = [copy EXCEPT ![r].lines[id] = lines[id]]
          /\ id \in DOMAIN lines /\ task[r][id] = "get"
          /\ task' = [task EXCEPT ![r][id] = "select"]
      BY <1>7 DEF GetShipped, TaskTo, TaskAt
    <2>2. copy'[r].lines = [copy[r].lines EXCEPT ![id] = lines[id]]
      BY <1>0, <2>1 DEF Held
    <2>3. Given(copy'[r].lines, nextId) /\ DOMAIN copy'[r].lines = DOMAIN copy[r].lines
      BY <1>0, <2>1, <2>2 DEF Given
    <2>4. QED
      BY <1>0, <2>1, <2>3
  <1>8. CASE NoCart(r) \/ NoLine(r) \/ MisreadNothing(r) \/ Start(r) \/ InsertLine(r) \/ DeleteLines(r)
             \/ Record(r) \/ Select(r)
    BY <1>1, <1>8 DEF NoCart, NoLine, MisreadNothing, Start, InsertLine, DeleteLines, Record, Select
  <1>9. CASE SaveLine(r) \/ SaveCart(r) \/ Refresh(r) \/ Abort(r)
    <2>1. /\ task'[r] = task[r]
          /\ \/ UNCHANGED copy
             \/ /\ copy' = [copy EXCEPT ![r] = Blank]
                /\ \A id \in DOMAIN task[r] : task[r][id] = "done"
      BY <1>0, <1>9 DEF SaveLine, SaveCart, Refresh, Saving, Abort
    <2>2. QED
      BY <1>1, <1>6, <2>1
  <1>10. ASSUME NEW id \in DOMAIN task[r],
                ShipLine(r, id) \/ SelectShipped(r, id) \/ SaveShipped(r, id) \/ FailTask(r, id)
         PROVE  /\ Given(copy'[r].lines, nextId)
                /\ \A k \in DOMAIN task'[r] :
                     task'[r][k] \notin {"done", "failed"} => k \in DOMAIN copy'[r].lines
    <2>1. UNCHANGED copy
      BY <1>10 DEF ShipLine, SelectShipped, SaveShipped, FailTask
    <2>2. task[r][id] \notin {"done", "failed"}
      BY <1>10 DEF ShipLine, SelectShipped, SaveShipped, FailTask, TaskAt
    <2>3. \E w : task' = [task EXCEPT ![r][id] = w]
      BY <1>10 DEF ShipLine, SelectShipped, SaveShipped, FailTask, TaskTo
    <2>4. QED
      BY <1>1, <2>1, <2>2, <2>3
  <1>11. QED
    BY <1>2, <1>3, <1>4, <1>5, <1>7, <1>8, <1>9, <1>10 DEF Acts, Step

LEMMA ImagesTyped ==
  ASSUME Tables, TypeInv, NEW r \in Requests, Acts(r)
  PROVE  Given(image'[r].lines, nextId)
  <1>0. /\ r \in DOMAIN image /\ DOMAIN image[r] = {"cart", "lines"}
        /\ Given(lines, nextId) /\ Given(image[r].lines, nextId)
    BY DEF Tables, TypeInv, Memory
  <1>1. CASE UNCHANGED image
    BY <1>0, <1>1
  <1>2. CASE image' = [image EXCEPT ![r] = Blank]
    <2>1. Given(Blank.lines, nextId)
      BY DEF Blank, NoLines, Given
    <2>2. QED
      BY <1>0, <1>2, <2>1
  <1>3. CASE Select(r)
    BY <1>0, <1>3 DEF Select
  <1>4. ASSUME NEW id \in DOMAIN task[r], SelectShipped(r, id) PROVE Given(image'[r].lines, nextId)
    <2>1. PICK seen : seen = image[r].lines
      OBVIOUS
    <2>2. image'[r].lines = [k \in (DOMAIN seen \ {id}) \cup ({id} \cap DOMAIN lines) |->
                               IF k = id THEN lines[id] ELSE seen[k]]
      BY <1>0, <1>4, <2>1 DEF SelectShipped
    <2>3. QED
      BY <1>0, <2>1, <2>2 DEF Given
  <1>5. QED
    BY <1>1, <1>2, <1>3, <1>4
    DEF Acts, Step, Start, GetCart, NoCart, GetLine, NoLine, InsertLine, ListLines, DeleteLines, AllShipped,
        GetPlaced, Record, Load, SaveLine, SaveCart, Refresh, Saving, Abort, ShipLine, GetShipped,
        SaveShipped, FailTask, MisreadNothing

\* What is asked for stays typed, and only addToCart gets to insert a line.
LEMMA AskedStep ==
  ASSUME Shape, TypeInv, NEW r \in Requests, Acts(r)
  PROVE  Asked(r)'
  <1>0. Maps /\ Whereabouts /\ Asked(r)
    BY DEF Shape, TypeInv
  <1>1. CASE Start(r)
    <2>1. PICK m \in Mutations : request' = [request EXCEPT ![r] = m]
      BY <1>1 DEF Start
    <2>2. m.status \in {"CART", "PENDING"}
      BY CartAssumption DEF Mutations, Requested
    <2>3. m.op = "addToCart" => m.item \in Items /\ m.quantity \in Nat \ {0}
      BY AddsOfMutations
    <2>4. request'[r] = m /\ pc'[r] = "getCart"
      BY <1>0, <1>1, <2>1 DEF Maps, Start, Goto
    <2>5. QED
      BY <2>2, <2>3, <2>4 DEF Asked, FormKnown
  <1>2. CASE NoLine(r) \/ MisreadNothing(r) \/ NoCart(r) \/ GetCart(r)
    <2>1. PICK op : op = request[r].op
      OBVIOUS
    <2>2. op \in {"addToCart", "removeFromCart", "clearCart", "checkoutCart", "updateCart"}
      BY <1>0, <1>2, <2>1 DEF Whereabouts, Places, NoLine, MisreadNothing, NoCart, GetCart
    <2>3. pc'[r] \in {AfterGetCart(op), AfterNothing(op, "getCart"), AfterNothing(op, "getLine"),
                      AfterNothing(op, "listLines")}
      BY <1>0, <1>2, <2>1 DEF Maps, NoLine, MisreadNothing, NoCart, GetCart, Goto
    <2>4. pc'[r] = "insertLine" => op = "addToCart"
      BY <2>2, <2>3 DEF AfterGetCart, AfterNothing
    <2>5. request' = request
      BY <1>2 DEF NoLine, MisreadNothing, NoCart, GetCart
    <2>6. QED
      BY <1>0, <2>1, <2>4, <2>5 DEF Asked, FormKnown
  <1>3. CASE request' = request /\ (pc'[r] = pc[r] \/ pc'[r] # "insertLine")
    BY <1>0, <1>3 DEF Asked, FormKnown
  <1>4. CASE GetLine(r) \/ InsertLine(r) \/ ListLines(r) \/ DeleteLines(r) \/ AllShipped(r) \/ GetPlaced(r)
             \/ Record(r) \/ Load(r) \/ Select(r) \/ SaveLine(r) \/ SaveCart(r) \/ Refresh(r) \/ Abort(r)
    <2>1. request' = request /\ (pc'[r] = pc[r] \/ pc'[r] # "insertLine")
      BY <1>0, <1>4
      DEF Maps, GetLine, InsertLine, ListLines, DeleteLines, AllShipped, GetPlaced, Record, Load, Select,
          SaveLine, SaveCart, Refresh, Saving, Abort, Goto
    <2>2. QED
      BY <1>3, <2>1
  <1>5. ASSUME NEW id \in DOMAIN task[r],
               ShipLine(r, id) \/ GetShipped(r, id) \/ SelectShipped(r, id) \/ SaveShipped(r, id)
               \/ FailTask(r, id)
        PROVE  Asked(r)'
    <2>1. request' = request /\ (pc'[r] = pc[r] \/ pc'[r] # "insertLine")
      BY <1>0, <1>5 DEF Maps, ShipLine, GetShipped, SelectShipped, SaveShipped, FailTask, Goto
    <2>2. QED
      BY <1>3, <2>1
  <1>6. QED
    BY <1>1, <1>2, <1>4, <1>5 DEF Acts, Step

LEMMA TypeStep == Shape /\ Control /\ TypeInv /\ [Next]_vars => TypeInv'
  <1> SUFFICES ASSUME Shape, Control, TypeInv, [Next]_vars PROVE TypeInv'
    OBVIOUS
  <1>1. CASE UNCHANGED vars
    BY <1>1 DEF TypeInv, ShippingsKnown, Asked, FormKnown, Memory, Given, Carts, vars, db
  <1>2. ASSUME NEW r \in Requests, Acts(r) PROVE TypeInv'
    <2>0. Tables /\ Callbacks
      BY DEF Control
    <2>1. /\ nextId' \in Nat \ {0} /\ nextId <= nextId' /\ nextId \in Nat
          /\ Given(lines', nextId') /\ ShippingsKnown'
      BY <1>2, LinesTyped DEF TypeInv
    <2>2. cart' \in Carts
      BY <1>2, <2>0, CartsTyped
    <2>3. Memory(r)'
      <3>1. /\ copy'[r].cart \in Carts /\ image'[r].cart \in Carts
            /\ Given(copy'[r].lines, nextId) /\ Given(image'[r].lines, nextId)
            /\ \A id \in DOMAIN task'[r] :
                 task'[r][id] \notin {"done", "failed"} => id \in DOMAIN copy'[r].lines
        BY <1>2, <2>0, CartsTyped, CopiesTyped, ImagesTyped
      <3>2. Given(copy'[r].lines, nextId') /\ Given(image'[r].lines, nextId')
        BY <2>1, <3>1, GivenLater
      <3>3. QED
        BY <3>1, <3>2 DEF Memory, Given, Carts
    <2>4. ASSUME NEW q \in Requests, q # r PROVE Asked(q)' /\ Memory(q)'
      <3>1. /\ pc'[q] = pc[q] /\ request'[q] = request[q] /\ task'[q] = task[q]
            /\ copy'[q] = copy[q] /\ image'[q] = image[q]
            /\ Asked(q) /\ Memory(q)
        BY <1>2, <2>0, <2>4, OthersStay, OthersKeepTheirs DEF TypeInv
      <3>2. Given(copy[q].lines, nextId') /\ Given(image[q].lines, nextId')
        BY <2>1, <3>1, GivenLater DEF Memory
      <3>3. QED
        BY <3>1, <3>2 DEF Asked, FormKnown, Memory, Given, Carts
    <2>5. histories' \subseteq Requests
      BY <1>2 DEF TypeInv, Acts, Step, Start, GetCart, NoCart, GetLine, NoLine, InsertLine, ListLines, DeleteLines,
             AllShipped, GetPlaced, Record, Load, Select, SaveLine, SaveCart, Refresh, Saving, Abort, ShipLine,
             GetShipped, SelectShipped, SaveShipped, FailTask, MisreadNothing, db
    <2>6. Asked(r)'
      BY <1>2, AskedStep
    <2>7. QED
      BY <2>1, <2>2, <2>3, <2>4, <2>5, <2>6 DEF TypeInv, Given, Carts
  <1>3. QED
    BY <1>1, <1>2, NextActs

LEMMA TypeInit == Init => TypeInv
  <1> SUFFICES ASSUME Init PROVE TypeInv
    OBVIOUS
  <1>1. PICK c \in InitialCarts : /\ lines = c
                                  /\ cart = [status |-> "CART", code |-> "cart", total |-> Total(c)]
                                  /\ nextId = Cardinality(DOMAIN c) + 1
    BY DEF Init
  <1>2. /\ IsFiniteSet(DOMAIN c) /\ DOMAIN c = 1..Cardinality(DOMAIN c)
        /\ c \in [DOMAIN c -> Kept]
    BY CartAssumption
  <1>3. nextId \in Nat \ {0}
    BY <1>1, <1>2, FS_CardinalityType
  <1>4. Given(c, nextId)
    <2>1. PICK n : n = Cardinality(DOMAIN c)
      OBVIOUS
    <2>2. n \in Nat /\ nextId = n + 1 /\ DOMAIN c = 1..n
      BY <1>1, <1>2, <2>1, FS_CardinalityType
    <2>3. ASSUME NEW id \in DOMAIN c PROVE id \in 1..(nextId - 1) /\ c[id] \in Line
      <3>1. c[id] \in Kept
        BY <1>2
      <3>2. \A x \in Kept : x \in Line
        BY DEF Kept, Line
      <3>3. id \in 1..(nextId - 1)
        BY <2>2
      <3>4. QED
        BY <3>1, <3>2, <3>3
    <2>4. QED
      BY <2>3 DEF Given
  <1>5. cart \in Carts
    BY <1>1, <1>3, <1>4, TotalOfGiven DEF Carts
  <1>6. ASSUME NEW r \in Requests PROVE Asked(r) /\ Memory(r)
    <2>1. /\ copy[r] = Blank /\ image[r] = Blank /\ task[r] = NoLines /\ pc[r] = "idle"
          /\ request[r] = Requested("none", NoItem, 0, "CART")
      BY DEF Init
    <2>2. Blank.cart \in Carts /\ Given(Blank.lines, nextId)
      BY DEF Blank, Carts, NoLines, Given
    <2>3. QED
      BY <2>1, <2>2 DEF Asked, FormKnown, Requested, Memory, NoLines
  <1>7. QED
    BY <1>1, <1>3, <1>4, <1>5, <1>6 DEF Init, TypeInv, ShippingsKnown

LEMMA TypeInvAlways == Spec => []TypeInv
  BY TypeInit, TypeStep, ShapeAlways, ControlAlways, PTL DEF Spec

\* Whatever requests do at once, what is stored and what is held are carts and lines with natural
\* amounts, every line has an id from the sequence, and a shipping is that of a line that exists.
THEOREM CartIsTyped == Spec => []TypeOK
  <1>1. TypeInv /\ Control => TypeOK
    <2> SUFFICES ASSUME TypeInv, Control PROVE TypeOK
      OBVIOUS
    <2>1. \A ls : Given(ls, nextId) <=> IsLines(ls)
      BY DEF Given, IsLines
    <2>2. IsHeld([cart |-> cart, lines |-> lines]) /\ \A r \in Requests : IsHeld(copy[r]) /\ IsHeld(image[r])
      BY <2>1 DEF TypeInv, Memory, IsHeld, Carts
    <2>3. QED
      BY <2>2 DEF TypeInv, ShippingsKnown, Control, Tables, MisreadRequests, TypeOK
  <1>2. QED
    BY <1>1, TypeInvAlways, ControlAlways, PTL

-----------------------------------------------------------------------------
(* The contract, one request at a time.  Nobody changes lines, ships or    *)
(* places the order of a cart that is none any more; what a request writes *)
(* is what was asked for, and what it has read is still there.             *)

Busy(r) == \E id \in DOMAIN task[r] : task[r][id] \notin {"done", "failed"}

\* Where a request relies on the cart that getCart has found.
Relies(r) ==
    \/ pc[r] \in {"getLine", "listLines", "insertLine", "deleteLines", "saveLine", "ship", "place"}
    \/ pc[r] = "load" /\ request[r].op # "checkoutCart"
    \/ Busy(r)

Opened(r) == Relies(r) => IsCart(cart)

Meant(r) == /\ request[r].op = "addToCart" => request[r].quantity \in Quantities
            /\ request[r].op = "updateCart" => request[r].status \in FormStatuses

\* The lines a request has chosen to change or to delete.
Chosen(r) ==
    /\ pc[r] \in {"idle", "getCart", "getLine", "listLines"} => DOMAIN copy[r].lines = {}
    /\ pc[r] = "deleteLines" => \/ DOMAIN copy[r].lines \in {{}, DOMAIN lines}
                                \/ \E id \in DOMAIN lines : DOMAIN copy[r].lines = {id}
    /\ pc[r] = "saveLine" => \A id \in DOMAIN copy[r].lines : copy[r].lines[id].quantity \in Quantities

\* The cart that a request has read is the one that is there.
Current(r) ==
    /\ pc[r] \in {"listLines", "ship", "place", "changeStatus"} => copy[r].cart.total = cart.total
    /\ pc[r] = "refresh" => \/ copy[r].cart.status = cart.status
                            \/ IsCart(cart) /\ copy[r].cart.status \in FormStatuses

ContractInv == \A r \in Requests : Opened(r) /\ Meant(r) /\ Chosen(r) /\ Current(r)

LEMMA MeantOfMutations ==
  \A m \in Mutations : /\ m.op = "addToCart" => m.quantity \in Quantities
                       /\ m.op = "updateCart" => m.status \in FormStatuses
  BY DEF Mutations, Requested

\* What a step does to the request itself: the cart it relies on was found by it.
LEMMA OpenedStep ==
  ASSUME Shape, Control, NEW r \in Requests, Acts(r), Opened(r)
  PROVE  Opened(r)'
  <1>0. Maps /\ Callbacks /\ Whereabouts
    BY DEF Shape, Control
  <1>1. CASE Start(r) \/ NoCart(r)
    <2>1. DOMAIN task[r] = {} /\ task' = task
      BY <1>0, <1>1 DEF Callbacks, Start, NoCart
    <2>2. pc'[r] \in {"getCart", AfterNothing(request[r].op, "getCart")}
      BY <1>0, <1>1 DEF Maps, Start, NoCart, Goto
    <2>3. NoCart(r) => request[r].op \in {"addToCart", "removeFromCart", "clearCart", "checkoutCart", "updateCart"}
      BY <1>0 DEF Whereabouts, Places, NoCart
    <2>4. Start(r) => pc'[r] = "getCart"
      BY <1>0 DEF Maps, Start, Goto
    <2>5. pc'[r] \in {"getCart", "done", "failed"}
      BY <1>1, <2>2, <2>3, <2>4, Goings
    <2>6. QED
      BY <2>1, <2>5 DEF Opened, Relies, Busy
  <1>2. CASE SaveCart(r) \/ Refresh(r)
    <2>1. /\ pc[r] \in Saves /\ pc'[r] \in {"getPlaced", "record", "done"}
          /\ task' = task
      BY <1>0, <1>2 DEF Maps, SaveCart, Refresh, Saving, Goto, Saves
    <2>2. \A id \in DOMAIN task[r] : task[r][id] = "done"
      BY <1>0, <2>1 DEF Callbacks, Saves
    <2>3. QED
      BY <2>1, <2>2 DEF Opened, Relies, Busy
  <1>3. CASE GetCart(r)
    BY <1>3 DEF GetCart, IsCart, Opened, db
  <1>4. SUFFICES ASSUME ~Start(r), ~NoCart(r), ~SaveCart(r), ~Refresh(r), ~GetCart(r)
                 PROVE  Opened(r)'
    BY <1>1, <1>2, <1>3
  <1>5. IsCart(cart)' <=> IsCart(cart)
    <2>1. cart' = cart
      BY <1>4 DEF Acts, Step, GetLine, NoLine, InsertLine, ListLines, DeleteLines, AllShipped, GetPlaced, Record,
             Load, Select, SaveLine, Abort, ShipLine, GetShipped, SelectShipped, SaveShipped, FailTask,
             MisreadNothing, db
    <2>2. QED
      BY <2>1 DEF IsCart
  <1>6. CASE GetLine(r) \/ NoLine(r) \/ InsertLine(r) \/ DeleteLines(r) \/ AllShipped(r) \/ SaveLine(r)
             \/ ListLines(r)
    <2>1. pc[r] \in {"getLine", "listLines", "insertLine", "deleteLines", "ship", "saveLine"}
      BY <1>6 DEF GetLine, NoLine, InsertLine, DeleteLines, AllShipped, SaveLine, Saving, ListLines
    <2>2. QED
      BY <1>5, <2>1 DEF Opened, Relies
  <1>7. CASE MisreadNothing(r)
    <2>1. CASE pc[r] \in {"getLine", "listLines"}
      BY <1>5, <2>1 DEF Opened, Relies
    <2>2. CASE pc[r] = "getCart"
      <3>1. DOMAIN task[r] = {} /\ task' = task
        BY <1>0, <1>7, <2>2 DEF Callbacks, MisreadNothing
      <3>2. pc'[r] = AfterNothing(request[r].op, "getCart")
        BY <1>0, <1>7, <2>2 DEF Maps, MisreadNothing, Goto
      <3>3. pc'[r] \in {"done", "failed"}
        BY <1>0, <2>2, <3>2, Goings DEF Whereabouts, Places
      <3>4. QED
        BY <3>1, <3>3 DEF Opened, Relies, Busy
    <2>3. QED
      BY <1>7, <2>1, <2>2 DEF MisreadNothing
  <1>8. CASE GetPlaced(r) \/ Record(r) \/ Load(r)
    <2>1. /\ pc[r] \notin {"ship", "failed"} /\ task' = task
          /\ \/ pc'[r] \in {"changeStatus", "refresh"}
             \/ pc'[r] = "load" /\ request'[r].op = "checkoutCart"
      BY <1>0, <1>8 DEF Maps, Whereabouts, GetPlaced, Record, Load, Goto
    <2>2. \A id \in DOMAIN task[r] : task[r][id] = "done"
      BY <1>0, <2>1 DEF Callbacks
    <2>3. QED
      BY <2>1, <2>2 DEF Opened, Relies, Busy
  <1>9. CASE Select(r)
    BY <1>5, <1>9 DEF Select, Opened, Relies, Busy
  <1>10. CASE Abort(r)
    <2>1. pc'[r] = "failed" /\ task' = task
      BY <1>0, <1>10 DEF Maps, Abort, Goto
    <2>2. QED
      BY <1>5, <2>1 DEF Opened, Relies, Busy
  <1>11. ASSUME NEW id \in DOMAIN task[r],
                ShipLine(r, id) \/ GetShipped(r, id) \/ SelectShipped(r, id) \/ SaveShipped(r, id)
                \/ FailTask(r, id)
         PROVE  Opened(r)'
    <2>1. Busy(r)
      BY <1>11 DEF Busy, ShipLine, GetShipped, SelectShipped, SaveShipped, FailTask, TaskAt
    <2>2. QED
      BY <1>5, <2>1 DEF Opened, Relies
  <1>12. QED
    BY <1>4, <1>6, <1>7, <1>8, <1>9, <1>10, <1>11 DEF Acts, Step

LEMMA MeantStep ==
  ASSUME Shape, Control, NEW r \in Requests, Acts(r), Meant(r)
  PROVE  Meant(r)'
  <1>1. CASE Start(r)
    BY <1>1, MeantOfMutations DEF Shape, Maps, Start, Meant
  <1>2. CASE ~Start(r)
    BY <1>2, OnlyStartAsks DEF Meant
  <1>3. QED
    BY <1>1, <1>2

\* What it writes to the lines was chosen by it, and is still there.
LEMMA ChosenStep ==
  ASSUME Shape, Control, LinesInv, NEW r \in Requests, Acts(r), Meant(r), Chosen(r)
  PROVE  Chosen(r)'
  <1>0. /\ Maps /\ Callbacks /\ Whereabouts /\ Held(copy[r])
        /\ lines \in [DOMAIN lines -> Kept] /\ Attached(lines) = DOMAIN lines
    BY UndisturbedLines DEF Shape, Control, LinesInv
  <1>1. CASE pc'[r] \notin {"idle", "getCart", "getLine", "listLines", "deleteLines", "saveLine"}
    BY <1>1 DEF Chosen
  <1>2. CASE Start(r) \/ Select(r)
    <2>1. UNCHANGED <<copy, lines>> /\ (pc' = pc \/ (pc[r] = "idle" /\ pc'[r] = "getCart"))
      BY <1>0, <1>2 DEF Maps, Start, Select, Goto, db
    <2>2. QED
      BY <2>1 DEF Chosen
  <1>3. CASE GetCart(r) \/ NoCart(r) \/ NoLine(r) \/ MisreadNothing(r)
    <2>1. PICK op : op = request[r].op
      OBVIOUS
    <2>2. op \in {"addToCart", "removeFromCart", "clearCart", "checkoutCart", "updateCart"}
      BY <1>0, <1>3, <2>1 DEF Whereabouts, Places, GetCart, NoCart, NoLine, MisreadNothing
    <2>3. /\ pc[r] \in {"getCart", "getLine", "listLines"}
          /\ pc'[r] \in {AfterGetCart(op), AfterNothing(op, "getCart"), AfterNothing(op, "getLine"),
                         AfterNothing(op, "listLines")}
      BY <1>0, <1>3, <2>1 DEF Maps, GetCart, NoCart, NoLine, MisreadNothing, Goto
    <2>4. pc'[r] \notin {"idle", "getCart", "saveLine"}
      BY <2>2, <2>3, Goings
    <2>5. copy'[r].lines = copy[r].lines
      BY <1>0, <1>3 DEF Maps, Held, GetCart, NoCart, NoLine, MisreadNothing
    <2>6. DOMAIN copy'[r].lines = {}
      BY <2>3, <2>5 DEF Chosen
    <2>7. QED
      BY <2>4, <2>6 DEF Chosen
  <1>4. CASE GetLine(r)
    <2>1. PICK id \in LinesOf(request[r].item) :
            \/ /\ request[r].op = "addToCart"
               /\ copy' = [copy EXCEPT ![r].lines =
                             [k \in {id} |-> [lines[id] EXCEPT !.quantity = request[r].quantity]]]
               /\ Goto(r, "saveLine")
            \/ /\ copy' = [copy EXCEPT ![r].lines = Restrict(lines, {id})]
               /\ Goto(r, "deleteLines")
      BY <1>4 DEF GetLine
    <2>2. id \in DOMAIN lines /\ lines[id] \in Kept /\ lines' = lines
      BY <1>0, <1>4 DEF LinesOf, GetLine, db
    <2>3. CASE /\ request[r].op = "addToCart"
               /\ copy' = [copy EXCEPT ![r].lines =
                             [k \in {id} |-> [lines[id] EXCEPT !.quantity = request[r].quantity]]]
               /\ Goto(r, "saveLine")
      <3>1. PICK x : x = [lines[id] EXCEPT !.quantity = request[r].quantity]
        OBVIOUS
      <3>2. x.quantity \in Quantities
        BY <2>2, <2>3, <3>1 DEF Kept, Meant
      <3>3. copy' = [copy EXCEPT ![r].lines = [k \in {id} |-> x]]
        BY <2>3, <3>1
      <3>4. DOMAIN copy'[r].lines = {id} /\ copy'[r].lines[id] = x /\ pc'[r] = "saveLine"
        BY <1>0, <2>3, <3>3 DEF Maps, Held, Goto
      <3>5. QED
        BY <3>2, <3>4 DEF Chosen
    <2>4. CASE /\ copy' = [copy EXCEPT ![r].lines = Restrict(lines, {id})]
               /\ Goto(r, "deleteLines")
      <3>1. DOMAIN copy'[r].lines = {id} /\ pc'[r] = "deleteLines"
        BY <1>0, <2>4 DEF Maps, Held, Goto, Restrict
      <3>2. QED
        BY <2>2, <3>1 DEF Chosen
    <2>5. QED
      BY <2>1, <2>3, <2>4
  <1>5. CASE ListLines(r)
    <2>1. pc'[r] \in {"deleteLines", "ship"} /\ lines' = lines
      BY <1>0, <1>5 DEF Maps, ListLines, Goto, db
    <2>2. copy'[r].lines = Restrict(lines, Attached(lines))
      BY <1>0, <1>5 DEF Maps, Held, ListLines
    <2>3. DOMAIN copy'[r].lines = DOMAIN lines
      BY <1>0, <2>2 DEF Restrict
    <2>4. QED
      BY <2>1, <2>3 DEF Chosen
  <1>6. CASE InsertLine(r) \/ DeleteLines(r) \/ AllShipped(r) \/ GetPlaced(r) \/ Record(r) \/ Load(r)
             \/ SaveLine(r) \/ SaveCart(r) \/ Refresh(r) \/ Abort(r)
    <2>1. pc'[r] \in {"load", "place", "changeStatus", "refresh", "getPlaced", "record", "done", "failed"}
      BY <1>0, <1>6
      DEF Maps, InsertLine, DeleteLines, AllShipped, GetPlaced, Record, Load, SaveLine, SaveCart, Refresh,
          Saving, Abort, Goto
    <2>2. QED
      BY <1>1, <2>1
  <1>7. ASSUME NEW id \in DOMAIN task[r],
               ShipLine(r, id) \/ GetShipped(r, id) \/ SelectShipped(r, id) \/ SaveShipped(r, id)
               \/ FailTask(r, id)
        PROVE  Chosen(r)'
    <2>1. task[r][id] # "done" /\ pc'[r] \in {pc[r], "failed"}
      BY <1>0, <1>7 DEF Maps, ShipLine, GetShipped, SelectShipped, SaveShipped, FailTask, TaskAt, Goto
    <2>2. pc[r] \in {"ship", "failed"}
      BY <1>0, <2>1 DEF Callbacks
    <2>3. QED
      BY <1>1, <2>1, <2>2
  <1>8. QED
    BY <1>2, <1>3, <1>4, <1>5, <1>6, <1>7 DEF Acts, Step

\* The cart it has read is still the one that is there.
LEMMA CurrentStep ==
  ASSUME Shape, Control, CheckoutInv, NEW r \in Requests, Acts(r), Opened(r), Meant(r), Current(r)
  PROVE  Current(r)'
  <1>0. /\ Maps /\ Callbacks /\ Whereabouts
        /\ Held(copy[r]) /\ CartShape(copy[r].cart) /\ CartShape(cart)
    BY DEF Shape, Control, Held
  <1>1. CASE pc'[r] \notin {"listLines", "ship", "place", "changeStatus", "refresh"}
    BY <1>1 DEF Current
  <1>2. CASE Start(r) \/ InsertLine(r) \/ GetLine(r) \/ DeleteLines(r) \/ Record(r) \/ SaveLine(r) \/ SaveCart(r)
             \/ Refresh(r) \/ Abort(r)
    <2>1. pc'[r] \in {"getCart", "saveLine", "deleteLines", "load", "getPlaced", "record", "done", "failed"}
      BY <1>0, <1>2
      DEF Maps, Start, InsertLine, GetLine, DeleteLines, Record, SaveLine, SaveCart, Refresh, Saving, Abort, Goto
    <2>2. QED
      BY <1>1, <2>1
  <1>3. CASE GetCart(r)
    <2>1. copy'[r].cart = cart /\ cart' = cart
      BY <1>0, <1>3 DEF Maps, Held, GetCart, db
    <2>2. QED
      BY <2>1 DEF Current
  <1>4. CASE NoCart(r) \/ NoLine(r) \/ MisreadNothing(r)
    <2>1. PICK op : op = request[r].op
      OBVIOUS
    <2>2. op \in {"addToCart", "removeFromCart", "clearCart", "checkoutCart", "updateCart"}
      BY <1>0, <1>4, <2>1 DEF Whereabouts, Places, NoCart, NoLine, MisreadNothing
    <2>3. /\ pc[r] \in {"getCart", "getLine", "listLines"}
          /\ pc'[r] = AfterNothing(op, pc[r])
          /\ UNCHANGED <<copy, cart>>
      BY <1>0, <1>4, <2>1 DEF Maps, NoCart, NoLine, MisreadNothing, Goto, db
    <2>4. CASE pc[r] = "listLines"
      BY <2>2, <2>3, <2>4, Goings DEF Current
    <2>5. CASE pc[r] \in {"getCart", "getLine"}
      <3>1. pc'[r] \in {"done", "failed", "insertLine"}
        BY <2>2, <2>3, <2>5, Goings
      <3>2. QED
        BY <1>1, <3>1
    <2>6. QED
      BY <2>3, <2>4, <2>5
  <1>5. CASE ListLines(r)
    <2>1. pc[r] = "listLines" /\ pc'[r] # "refresh" /\ cart' = cart /\ copy'[r].cart = copy[r].cart
      BY <1>0, <1>5 DEF Maps, Held, ListLines, Goto, db
    <2>2. QED
      BY <2>1 DEF Current
  <1>6. CASE AllShipped(r)
    <2>1. /\ pc[r] = "ship" /\ pc'[r] = "place" /\ cart' = cart
          /\ copy' = [copy EXCEPT ![r].cart.status = "PENDING", ![r].cart.code = "order"]
      BY <1>0, <1>6 DEF Maps, AllShipped, Goto, db
    <2>2. copy'[r].cart.total = copy[r].cart.total
      BY <1>0, <2>1 DEF Maps, Held, CartShape
    <2>3. QED
      BY <2>1, <2>2 DEF Current
  <1>7. CASE GetPlaced(r)
    <2>1. /\ pc'[r] = "changeStatus" /\ cart' = cart
          /\ copy'[r] = [copy[r] EXCEPT !.cart = [cart EXCEPT !.status = "PENDING"]]
      BY <1>0, <1>7 DEF Maps, GetPlaced, Goto, db
    <2>2. copy'[r].cart.total = cart.total
      BY <1>0, <2>1 DEF Held, CartShape
    <2>3. QED
      BY <2>1, <2>2 DEF Current
  <1>8. CASE Load(r)
    <2>1. PICK s : s = IF request[r].op = "updateCart" THEN request[r].status ELSE cart.status
      OBVIOUS
    <2>2. PICK c : c = [cart EXCEPT !.total = Total(lines), !.status = s]
      OBVIOUS
    <2>3. c.status = s
      BY <1>0, <2>2 DEF CartShape
    <2>4. copy'[r].cart = c
      <3>1. copy' = [copy EXCEPT ![r] = [cart |-> c, lines |-> Restrict(lines, Attached(lines))]]
        BY Zenon, <1>8, <2>1, <2>2 DEF Load
      <3>2. QED
        BY <1>0, <3>1 DEF Maps
    <2>5. pc[r] = "load" /\ pc'[r] = "refresh" /\ cart' = cart
      BY <1>0, <1>8 DEF Maps, Load, Goto, db
    <2>6. request[r].op = "updateCart" => IsCart(cart) /\ s \in FormStatuses
      BY <2>1, <2>5 DEF Opened, Relies, Meant
    <2>7. IsCart(cart)' <=> IsCart(cart)
      BY <2>5 DEF IsCart
    <2>8. QED
      BY <2>1, <2>3, <2>4, <2>5, <2>6, <2>7 DEF Current
  <1>9. CASE Select(r)
    <2>1. UNCHANGED <<cart, pc, copy>>
      BY <1>9 DEF Select, db
    <2>2. IsCart(cart)' <=> IsCart(cart)
      BY <2>1 DEF IsCart
    <2>3. QED
      BY <2>1, <2>2 DEF Current
  <1>10. ASSUME NEW id \in DOMAIN task[r],
                ShipLine(r, id) \/ GetShipped(r, id) \/ SelectShipped(r, id) \/ SaveShipped(r, id)
                \/ FailTask(r, id)
         PROVE  Current(r)'
    <2>1. /\ task[r][id] # "done" /\ pc'[r] \in {pc[r], "failed"} /\ cart' = cart
          /\ copy' = copy \/ \E ls : copy' = [copy EXCEPT ![r].lines = ls]
      <3>1. GetShipped(r, id) => \E ls : copy' = [copy EXCEPT ![r].lines = ls]
        <4>1. PICK ls : ls = [copy[r].lines EXCEPT ![id] = lines[id]]
          OBVIOUS
        <4>2. GetShipped(r, id) => copy' = [copy EXCEPT ![r].lines = ls]
          BY <4>1 DEF GetShipped
        <4>3. QED
          BY <4>2
      <3>2. QED
        BY <1>0, <1>10, <3>1
        DEF Maps, ShipLine, GetShipped, SelectShipped, SaveShipped, FailTask, TaskAt, Goto, db
    <2>2. pc[r] \in {"ship", "failed"} /\ copy'[r].cart = copy[r].cart
      BY <1>0, <2>1 DEF Callbacks, Maps, Held
    <2>3. QED
      BY <2>1, <2>2 DEF Current
  <1>11. QED
    BY <1>2, <1>3, <1>4, <1>5, <1>6, <1>7, <1>8, <1>9, <1>10 DEF Acts, Step

LEMMA ContractInvStep ==
  ASSUME Serialized
  PROVE  Shape /\ Control /\ LinesInv /\ CheckoutInv /\ ContractInv /\ [Next]_vars => ContractInv'
  <1> SUFFICES ASSUME Shape, Control, LinesInv, CheckoutInv, ContractInv, [Next]_vars PROVE ContractInv'
    OBVIOUS
  <1>1. CASE UNCHANGED vars
    BY <1>1 DEF ContractInv, Opened, Relies, Busy, IsCart, Meant, Chosen, Current, vars, db
  <1>2. ASSUME NEW r \in Requests, Acts(r) PROVE ContractInv'
    <2>1. Opened(r)' /\ Meant(r)' /\ Chosen(r)' /\ Current(r)'
      BY <1>2, OpenedStep, MeantStep, ChosenStep, CurrentStep DEF ContractInv
    <2>2. ASSUME NEW q \in Requests, q # r PROVE Opened(q)' /\ Meant(q)' /\ Chosen(q)' /\ Current(q)'
      <3>1. ~InFlight(q)
        <4>1. Start(r) => ~InFlight(q)
          BY DEF Start
        <4>2. QED
          BY <1>2, <2>2, <4>1, ActorIsInFlight DEF Control, OneAtATime
      <3>2. pc[q] \in {"idle", "done", "failed"} /\ ~Busy(q)
        BY <3>1 DEF InFlight, Busy
      <3>3. pc'[q] = pc[q] /\ request'[q] = request[q] /\ task'[q] = task[q] /\ copy'[q] = copy[q]
        BY <1>2, <2>2, OthersStay
      <3>4. Meant(q) /\ Chosen(q)
        BY DEF ContractInv
      <3>5. QED
        BY <3>2, <3>3, <3>4 DEF Opened, Relies, Busy, Meant, Chosen, Current
    <2>3. QED
      BY <2>1, <2>2 DEF ContractInv
  <1>3. QED
    BY <1>1, <1>2, NextActs

LEMMA ContractInvAlways ==
  ASSUME Serialized
  PROVE  Spec => []ContractInv
  <1>1. Init => ContractInv
    BY DEF Init, ContractInv, Opened, Relies, Busy, Meant, Chosen, Current, Requested, Blank, NoLines
  <1>2. QED
    BY <1>1, ContractInvStep, ShapeAlways, ControlAlways, LinesInvAlways, CheckoutInvAlways, PTL DEF Spec

-----------------------------------------------------------------------------
(* The refinement.                                                         *)

LEMMA CostIsTotal ==
  ASSUME NEW ls, IsFiniteSet(Attached(ls))
  PROVE  Contract!Cost(Basket(ls)) = Total(ls)
  <1> DEFINE B == Basket(ls)
             Sums(g) == g = [s \in SUBSET DOMAIN B |->
                               IF s = {} THEN 0
                               ELSE Price[B[CHOOSE id \in s : TRUE].item] * B[CHOOSE id \in s : TRUE].quantity
                                    + g[s \ {CHOOSE id \in s : TRUE}]]
  <1>1. Contract!Cost(B) = (CHOOSE g : Sums(g))[DOMAIN B]
    BY Zenon DEF Contract!Cost, Contract!MapThenSumSet, Contract!MapThenFoldSet
  <1>2. DOMAIN B = Attached(ls)
    BY DEF Basket
  <1>3. \A id \in Attached(ls) : B[id].item = ls[id].item /\ B[id].quantity = ls[id].quantity
    BY DEF Basket
  <1> HIDE DEF B
  <1>4. \A g : Sums(g) <=> IsSum(ls, g, Attached(ls))
    <2>1. ASSUME NEW g, NEW s \in SUBSET Attached(ls)
          PROVE  (IF s = {} THEN 0
                  ELSE Price[B[CHOOSE id \in s : TRUE].item] * B[CHOOSE id \in s : TRUE].quantity
                       + g[s \ {CHOOSE id \in s : TRUE}])
                 = SumAt(ls, g, s)
      <3>1. CASE s = {}
        BY <3>1 DEF SumAt
      <3>2. CASE s # {}
        <4>1. PICK t : t = Taken(s)
          OBVIOUS
        <4>2. t \in Attached(ls)
          BY <3>2, <4>1, TakenIs
        <4>3. Price[B[t].item] * B[t].quantity = Amount(ls, t)
          BY <1>3, <4>2 DEF Amount
        <4>4. SumAt(ls, g, s) = Amount(ls, t) + g[s \ {t}]
          BY Zenon, <3>2, <4>1 DEF SumAt
        <4>5. t = CHOOSE id \in s : TRUE
          BY Zenon, <4>1 DEF Taken
        <4>6. QED
          BY Zenon, <3>2, <4>3, <4>4, <4>5
      <3>3. QED
        BY <3>1, <3>2
    <2>2. QED
      BY Zenon, <1>2, <2>1 DEF IsSum
  <1> HIDE DEF Sums
  <1>5. \E g : Sums(g)
    <2>1. \E g : IsSum(ls, g, Attached(ls))
      BY SumsExist
    <2>2. QED
      BY <1>4, <2>1
  <1>6. Sums(CHOOSE g : Sums(g))
    BY <1>5
  <1>7. PICK h : IsSum(ls, h, Attached(ls)) /\ Total(ls) = h[Attached(ls)]
    BY TotalIs
  <1>8. (CHOOSE g : Sums(g))[Attached(ls)] = h[Attached(ls)]
    BY <1>4, <1>6, <1>7, SumsAgree
  <1>9. QED
    BY <1>1, <1>2, <1>7, <1>8 DEF B

Announced == {s.line : s \in shippings}
Unseen == {request[r].item : r \in Misled("addToCart")}
Unlisted == Misled("checkoutCart") # {}

LEMMA BasketOfCart ==
  ASSUME NEW ls, ls \in [DOMAIN ls -> Kept]
  PROVE  Basket(ls) = [id \in DOMAIN ls |-> [item |-> ls[id].item, quantity |-> ls[id].quantity]]
  BY UndisturbedLines DEF Basket

\* A step that leaves alone what the contract speaks of.
LEMMA Stutters ==
  ASSUME Basket(lines') = Basket(lines), cart' = cart, Announced' = Announced, Unseen' = Unseen,
         Unlisted' = Unlisted
  PROVE  UNCHANGED Contract!contract
  BY DEF Contract!contract, Announced, Unseen, Unlisted

\* Who is misled, and by what, stays so.
LEMMA MisledOfSteps ==
  ASSUME Shape, Control, NEW r \in Requests, Acts(r)
  PROVE  /\ misread' = misread => Unseen' = Unseen /\ Unlisted' = Unlisted
         /\ misread' = misread \cup {r} /\ request' = request =>
              /\ Unseen' = Unseen \cup {request[q].item : q \in {p \in {r} : request[p].op = "addToCart"}}
              /\ Unlisted' <=> Unlisted \/ request[r].op = "checkoutCart"
  <1>1. \A q \in misread : request'[q] = request[q]
    <2>1. misread \subseteq Requests
      BY DEF Control, MisreadRequests
    <2>2. r \in misread => request' = request
      <3>1. Start(r) => r \notin misread
        BY DEF Control, Callbacks, Start
      <3>2. QED
        BY <3>1, OnlyStartAsks
    <2>3. QED
      BY <2>1, <2>2, OthersStay
  <1>2. ASSUME misread' = misread PROVE \A op : Misled(op)' = Misled(op)
    BY <1>1, <1>2 DEF Misled
  <1>3. ASSUME misread' = misread PROVE Unseen' = Unseen /\ Unlisted' = Unlisted
    <2>1. Misled("addToCart")' = Misled("addToCart") /\ Misled("checkoutCart")' = Misled("checkoutCart")
      BY <1>2, <1>3
    <2>2. \A q \in Misled("addToCart") : request'[q] = request[q]
      BY <1>1 DEF Misled
    <2>3. QED
      BY <2>1, <2>2 DEF Unseen, Unlisted
  <1>4. ASSUME misread' = misread \cup {r}, request' = request
        PROVE  /\ Unseen' = Unseen \cup {request[q].item : q \in {p \in {r} : request[p].op = "addToCart"}}
               /\ Unlisted' <=> Unlisted \/ request[r].op = "checkoutCart"
    BY <1>4 DEF Unseen, Unlisted, Misled
  <1>5. QED
    BY <1>3, <1>4

LEMMA OpenCartShops ==
  ASSUME IsCart(cart), Contract!Shop
  PROVE  Contract!Next
  BY DEF IsCart, Contract!Open, Contract!Next

\* What the steps do to the cart, as the contract has it.
LEMMA OverlookedStep ==
  ASSUME Shape, Control, LinesInv, ContractInv, NEW r \in Requests, Acts(r),
         MisreadNothing(r), misread' = IF pc'[r] \in {"done", "failed"} THEN misread ELSE misread \cup {r}
  PROVE  UNCHANGED Contract!contract \/ Contract!Next
  <1>0. Maps /\ Whereabouts
    BY DEF Shape
  <1>1. UNCHANGED <<cart, lines, shippings, request>>
    BY DEF MisreadNothing, db
  <1>2. Basket(lines') = Basket(lines) /\ Announced' = Announced
    BY <1>1 DEF Announced
  <1>3. CASE misread' = misread
    BY <1>1, <1>2, <1>3, MisledOfSteps, Stutters
  <1>4. CASE pc'[r] \notin {"done", "failed"}
    <2>1. PICK op : op = request[r].op
      OBVIOUS
    <2>2. /\ pc[r] \in {"getCart", "getLine", "listLines"} /\ pc'[r] = AfterNothing(op, pc[r])
          /\ op \in {"addToCart", "removeFromCart", "clearCart", "checkoutCart", "updateCart"}
          /\ pc[r] = "listLines" => op \in {"clearCart", "checkoutCart"}
      BY <1>0, <2>1 DEF Maps, Whereabouts, Places, MisreadNothing, Goto
    <2>3. \/ pc[r] = "getLine" /\ op = "addToCart"
          \/ pc[r] = "listLines" /\ op \in {"clearCart", "checkoutCart"}
      BY <1>4, <2>2 DEF AfterNothing
    <2>4. IsCart(cart)
      BY <2>3 DEF ContractInv, Opened, Relies
    <2>5. /\ Unseen' = Unseen \cup {request[q].item : q \in {p \in {r} : request[p].op = "addToCart"}}
          /\ Unlisted' <=> Unlisted \/ op = "checkoutCart"
      BY <1>1, <1>4, <2>1, MisledOfSteps
    <2>6. Unlisted' \in BOOLEAN /\ Unlisted \in BOOLEAN
      BY DEF Unlisted
    <2>7. CASE op = "addToCart"
      <3>1. Unseen' = Unseen \cup {request[r].item} /\ Unlisted' = Unlisted
        BY <2>1, <2>5, <2>6, <2>7
      <3>2. PICK item \in Items : item = request[r].item
        BY <2>1, <2>7 DEF LinesInv, LinesHeld, FormKnown
      <3>3. Contract!Overlook(item)
        BY <1>1, <1>2, <3>1, <3>2 DEF Contract!Overlook, Announced, Unseen, Unlisted
      <3>4. Contract!Shop
        BY <3>3 DEF Contract!Shop
      <3>5. QED
        BY <2>4, <3>4, OpenCartShops
    <2>8. CASE op = "checkoutCart"
      <3>1. Unseen' = Unseen /\ Unlisted' = TRUE
        BY <2>1, <2>5, <2>6, <2>8
      <3>2. Contract!OverlookAll
        BY <1>1, <1>2, <3>1 DEF Contract!OverlookAll, Announced, Unseen, Unlisted
      <3>3. QED
        <4>1. Contract!Shop
          BY Zenon, <3>2 DEF Contract!Shop
        <4>2. QED
          BY <2>4, <4>1, OpenCartShops
    <2>9. CASE op = "clearCart"
      <3>1. Unseen' = Unseen /\ Unlisted' = Unlisted
        BY <2>1, <2>5, <2>6, <2>9
      <3>2. QED
        BY <1>1, <1>2, <3>1, Stutters
    <2>10. QED
      BY <2>3, <2>7, <2>8, <2>9
  <1>5. QED
    BY <1>3, <1>4

LEMMA InsertPuts ==
  ASSUME Shape, Control, LinesInv, TypeInv, ContractInv, NEW r \in Requests, Acts(r),
         InsertLine(r), misread' = misread
  PROVE  Contract!Next
  <1>0. /\ lines \in [DOMAIN lines -> Kept] /\ pc[r] = "insertLine"
        /\ UNCHANGED <<cart, shippings>>
    BY DEF LinesInv, InsertLine
  <1>1. PICK item \in Items, quantity \in Quantities :
          item = request[r].item /\ quantity = request[r].quantity
    BY <1>0 DEF LinesInv, LinesHeld, LinesKnown, FormKnown, ContractInv, Meant
  <1>2. IsCart(cart)
    BY <1>0 DEF ContractInv, Opened, Relies
  <1>3. PICK id : id = nextId
    OBVIOUS
  <1>4. id \notin DOMAIN lines
    BY <1>3 DEF TypeInv, Given
  <1>5. PICK x : x = [item |-> item, quantity |-> quantity, attached |-> TRUE]
    OBVIOUS
  <1>6. x \in Kept /\ x.item = item /\ x.quantity = quantity
    BY <1>5, CartAssumption DEF Kept
  <1>7. lines' = [k \in DOMAIN lines \cup {id} |-> IF k = id THEN x ELSE lines[k]]
    BY <1>1, <1>3, <1>5 DEF InsertLine
  <1>8. lines' \in [DOMAIN lines' -> Kept]
    BY <1>0, <1>6, <1>7
  <1>9. PICK b : b = Basket(lines)
    OBVIOUS
  <1>10. b = [k \in DOMAIN lines |-> [item |-> lines[k].item, quantity |-> lines[k].quantity]]
    BY <1>0, <1>9, BasketOfCart
  <1>11. Basket(lines') = [k \in DOMAIN b \cup {id} |->
                             IF k = id THEN [item |-> item, quantity |-> quantity] ELSE b[k]]
    <2>1. Basket(lines') = [k \in DOMAIN lines' |-> [item |-> lines'[k].item, quantity |-> lines'[k].quantity]]
      BY <1>8, BasketOfCart
    <2>2. QED
      BY <1>4, <1>6, <1>7, <1>10, <2>1
  <1>12. (\E k \in DOMAIN b : b[k].item = item) => item \in Unseen
    <2>1. request[r].op = "addToCart" /\ (LinesOf(item) = {} \/ r \in misread)
      BY <1>0, <1>1 DEF LinesInv, LinesHeld, LinesKnown
    <2>2. CASE LinesOf(item) = {}
      <3>1. Attached(lines) = DOMAIN lines
        BY <1>0, UndisturbedLines
      <3>2. QED
        BY <1>10, <2>2, <3>1 DEF LinesOf
    <2>3. CASE r \in misread
      BY <1>1, <2>1, <2>3 DEF Unseen, Misled
    <2>4. QED
      BY <2>1, <2>2, <2>3
  <1>13. Unseen' = Unseen /\ Unlisted' = Unlisted /\ Announced' = Announced
    BY <1>0, MisledOfSteps DEF Announced
  <1>14. Contract!Put(id, item, quantity)
    BY <1>0, <1>4, <1>9, <1>10, <1>11, <1>12, <1>13 DEF Contract!Put, Announced, Unseen, Unlisted
  <1>15. id \in DOMAIN Basket(lines')
    BY <1>11
  <1>16. Contract!Shop
    BY <1>14, <1>15 DEF Contract!Shop
  <1>17. QED
    BY <1>2, <1>16, OpenCartShops

LEMMA SaveChanges ==
  ASSUME Shape, Control, LinesInv, TypeInv, ContractInv, NEW r \in Requests, Acts(r),
         SaveLine(r), misread' = misread
  PROVE  Contract!Next
  <1>0. /\ lines \in [DOMAIN lines -> Kept] /\ pc[r] = "saveLine" /\ image[r].lines = lines
        /\ lines' = SavedLines(copy[r].lines, image[r].lines, lines)
        /\ UNCHANGED <<cart, shippings>>
    BY DEF LinesInv, LinesHeld, LinesKnown, SaveLine, Saving
  <1>1. IsCart(cart)
    BY <1>0 DEF ContractInv, Opened, Relies
  <1>2. PICK id \in DOMAIN lines : /\ DOMAIN copy[r].lines = {id}
                                   /\ copy[r].lines[id] \in Kept
                                   /\ copy[r].lines[id].item = lines[id].item
    BY <1>0 DEF LinesInv, LinesHeld, LinesKnown
  <1>3. PICK x \in Kept : /\ lines' = [lines EXCEPT ![id] = x] /\ x.item = lines[id].item
                          /\ x = copy[r].lines[id]
    <2>1. PICK mine, read : mine = copy[r].lines /\ read = image[r].lines
      OBVIOUS
    <2>2. /\ DOMAIN mine = {id} /\ mine[id] \in Kept /\ mine[id].item = lines[id].item
          /\ id \in DOMAIN read /\ read[id] = lines[id]
          /\ lines' = SavedLines(mine, read, lines)
      BY <1>0, <1>2, <2>1
    <2>3. lines' = [lines EXCEPT ![id] = mine[id]]
      BY <1>0, <2>2, SaveOfOneLine
    <2>4. QED
      BY <2>1, <2>2, <2>3
  <1>4. lines' = [lines EXCEPT ![id] = x] /\ x \in Kept /\ x.item = lines[id].item
    BY <1>3
  <1>5. PICK quantity \in Quantities : quantity = x.quantity
    BY <1>0, <1>2, <1>3 DEF ContractInv, Chosen
  <1>6. lines' \in [DOMAIN lines' -> Kept]
    BY <1>0, <1>4
  <1>7. PICK b : b = Basket(lines)
    OBVIOUS
  <1>8. b = [k \in DOMAIN lines |-> [item |-> lines[k].item, quantity |-> lines[k].quantity]]
    BY <1>0, <1>7, BasketOfCart
  <1>9. Basket(lines') = [b EXCEPT ![id].quantity = quantity]
    <2>1. Basket(lines') = [k \in DOMAIN lines' |-> [item |-> lines'[k].item, quantity |-> lines'[k].quantity]]
      BY <1>6, BasketOfCart
    <2>2. [b[id] EXCEPT !.quantity = quantity] = [item |-> x.item, quantity |-> x.quantity]
      BY <1>4, <1>5, <1>8
    <2>3. QED
      BY <1>4, <1>8, <2>1, <2>2
  <1>10. Unseen' = Unseen /\ Unlisted' = Unlisted /\ Announced' = Announced
    BY <1>0, MisledOfSteps DEF Announced
  <1>11. Contract!Change(id, quantity)
    BY <1>0, <1>7, <1>8, <1>9, <1>10 DEF Contract!Change, Announced, Unseen, Unlisted
  <1>12. id \in DOMAIN Basket(lines)
    BY <1>7, <1>8
  <1>13. Contract!Shop
    BY <1>11, <1>12 DEF Contract!Shop
  <1>14. QED
    BY <1>1, <1>13, OpenCartShops

LEMMA DeletionTakesOut ==
  ASSUME Shape, Control, LinesInv, TypeInv, ContractInv, NEW r \in Requests, Acts(r),
         DeleteLines(r), misread' = misread
  PROVE  UNCHANGED Contract!contract \/ Contract!Next
  <1>0. /\ lines \in [DOMAIN lines -> Kept] /\ pc[r] = "deleteLines"
        /\ lines' = Restrict(lines, DOMAIN lines \ DOMAIN copy[r].lines)
        /\ shippings' = {s \in shippings : s.line \in DOMAIN lines'}
        /\ cart' = cart
    BY DEF LinesInv, DeleteLines
  <1>1. IsCart(cart)
    BY <1>0 DEF ContractInv, Opened, Relies
  <1>2. PICK ids : ids = DOMAIN copy[r].lines
    OBVIOUS
  <1>3. ids \in {{}, DOMAIN lines} \/ \E id \in DOMAIN lines : ids = {id}
    BY <1>0, <1>2 DEF ContractInv, Chosen
  <1>4. lines' = [k \in DOMAIN lines \ ids |-> lines[k]]
    BY <1>0, <1>2 DEF Restrict
  <1>5. lines' \in [DOMAIN lines' -> Kept]
    BY <1>0, <1>4
  <1>6. PICK b : b = Basket(lines)
    OBVIOUS
  <1>7. b = [k \in DOMAIN lines |-> [item |-> lines[k].item, quantity |-> lines[k].quantity]]
    BY <1>0, <1>6, BasketOfCart
  <1>8. Basket(lines') = [k \in DOMAIN b \ ids |-> b[k]]
    <2>1. Basket(lines') = [k \in DOMAIN lines' |-> [item |-> lines'[k].item, quantity |-> lines'[k].quantity]]
      BY <1>5, BasketOfCart
    <2>2. QED
      BY <1>4, <1>7, <2>1
  <1>9. Announced' = Announced \ ids
    <2>1. \A s \in shippings : s \in shippings' <=> s.line \notin ids
      BY <1>0, <1>4 DEF TypeInv, ShippingsKnown
    <2>2. QED
      BY <1>0, <2>1 DEF Announced
  <1>10. Unseen' = Unseen /\ Unlisted' = Unlisted
    BY MisledOfSteps
  <1>11. CASE ids = {}
    <2>1. Basket(lines') = Basket(lines)
      BY <1>6, <1>7, <1>8, <1>11
    <2>2. Announced' = Announced
      BY <1>9, <1>11
    <2>3. QED
      BY <1>0, <1>10, <2>1, <2>2, Stutters
  <1>12. CASE ids # {}
    <2>1. DOMAIN Basket(lines) = DOMAIN lines
      BY <1>6, <1>7
    <2>2. ASSUME ids = DOMAIN Basket(lines) PROVE Contract!Shop
      <3>1. Contract!TakeOut(DOMAIN Basket(lines))
        BY <1>0, <1>6, <1>8, <1>9, <1>10, <2>2 DEF Contract!TakeOut, Announced, Unseen, Unlisted
      <3>2. QED
        BY <3>1 DEF Contract!Shop
    <2>3. ASSUME NEW id \in DOMAIN Basket(lines), ids = {id} PROVE Contract!Shop
      <3>1. Contract!TakeOut({id})
        BY <1>0, <1>6, <1>8, <1>9, <1>10, <2>3 DEF Contract!TakeOut, Announced, Unseen, Unlisted
      <3>2. QED
        BY <3>1 DEF Contract!Shop
    <2>4. Contract!Shop
      BY <1>3, <1>12, <2>1, <2>2, <2>3
    <2>5. QED
      BY <1>1, <2>4, OpenCartShops
  <1>13. QED
    BY <1>11, <1>12

LEMMA ShippingAnnounces ==
  ASSUME Shape, Control, LinesInv, ContractInv, NEW r \in Requests, Acts(r),
         NEW id \in DOMAIN task[r], ShipLine(r, id), misread' = misread
  PROVE  Contract!Next
  <1>0. /\ id \in DOMAIN lines
        /\ shippings' = shippings \cup {[line |-> id, by |-> r]}
        /\ UNCHANGED <<cart, lines>>
    BY DEF ShipLine
  <1>1. IsCart(cart)
    <2>1. Busy(r)
      BY DEF Busy, ShipLine, TaskAt
    <2>2. QED
      BY <2>1 DEF ContractInv, Opened, Relies
  <1>2. DOMAIN Basket(lines) = DOMAIN lines
    BY BasketOfCart DEF LinesInv
  <1>3. Basket(lines') = Basket(lines)
    BY <1>0
  <1>4. Announced' = Announced \cup {id}
    <2>1. PICK x : x = [line |-> id, by |-> r]
      OBVIOUS
    <2>2. x.line = id /\ shippings' = shippings \cup {x}
      BY <1>0, <2>1
    <2>3. QED
      BY Zenon, <2>2 DEF Announced
  <1>5. Unseen' = Unseen /\ Unlisted' = Unlisted
    BY MisledOfSteps
  <1>6. Contract!Announce(id)
    BY <1>0, <1>2, <1>3, <1>4, <1>5 DEF Contract!Announce, Announced, Unseen, Unlisted
  <1>7. Contract!Shop
    BY <1>0, <1>2, <1>6 DEF Contract!Shop
  <1>8. QED
    BY <1>1, <1>7, OpenCartShops

LEMMA SavingPlaces ==
  ASSUME Shape, Control, LinesInv, CheckoutInv, TypeInv, ContractInv, NEW r \in Requests, Acts(r),
         SaveCart(r), misread' = misread
  PROVE  UNCHANGED Contract!contract \/ Contract!Next
  <1>0. /\ pc[r] \in {"place", "changeStatus"} /\ request[r].op = "checkoutCart"
        /\ UNCHANGED <<lines, shippings>>
    BY DEF Shape, Whereabouts, SaveCart, Saving
  <1>1. /\ cart' = [status |-> copy[r].cart.status, code |-> copy[r].cart.code, total |-> copy[r].cart.total]
        /\ copy[r].cart.total = cart.total
    BY <1>0, UndisturbedCart DEF ContractInv, Current
  <1>2. /\ Basket(lines') = Basket(lines) /\ Announced' = Announced
        /\ Unseen' = Unseen /\ Unlisted' = Unlisted
    BY <1>0, MisledOfSteps DEF Announced
  <1>3. CASE pc[r] = "changeStatus"
    <2>1. /\ copy[r].cart.status = "PENDING" /\ copy[r].cart.code = "order"
          /\ cart.code = "order" /\ cart.status = "PENDING"
      BY <1>0, <1>3 DEF CheckoutInv, CartKnown, CheckoutSoFar
    <2>2. cart' = cart
      BY <1>1, <2>1 DEF TypeInv, Carts
    <2>3. QED
      BY <1>2, <2>2, Stutters
  <1>4. CASE pc[r] = "place"
    <2>1. /\ cart'.status = "PENDING" /\ cart'.code = "order" /\ cart'.total = cart.total
      BY <1>1, <1>4 DEF CheckoutInv, CartKnown
    <2>2. IsCart(cart)
      BY <1>4 DEF ContractInv, Opened, Relies
    <2>3. DOMAIN Basket(lines) = DOMAIN lines
      BY BasketOfCart DEF LinesInv
    <2>4. Announced = DOMAIN lines \/ Unlisted
      <3>1. CASE r \in misread
        BY <1>0, <3>1 DEF Unlisted, Misled
      <3>2. CASE r \notin misread
        <4>1. /\ DOMAIN lines \subseteq DOMAIN task[r]
              /\ \A id \in DOMAIN task[r] : task[r][id] = "done" /\ id \in DOMAIN lines => Shipped(r, id)
          BY <1>0, <1>4, <3>2 DEF CheckoutInv, CheckoutSoFar
        <4>2. \A id \in DOMAIN task[r] : task[r][id] = "done"
          BY <1>4 DEF Control, Callbacks
        <4>3. DOMAIN lines \subseteq Announced
          <5>1. ASSUME NEW id \in DOMAIN lines PROVE id \in Announced
            <6>1. PICK x : x = [line |-> id, by |-> r]
              OBVIOUS
            <6>2. x \in shippings /\ x.line = id
              BY <4>1, <4>2, <6>1 DEF Shipped
            <6>3. QED
              BY <6>2 DEF Announced
          <5>2. QED
            BY <5>1
        <4>4. Announced \subseteq DOMAIN lines
          BY DEF TypeInv, ShippingsKnown, Announced
        <4>5. QED
          BY <4>3, <4>4
      <3>3. QED
        BY <3>1, <3>2
    <2>5. Contract!Place
      BY <1>2, <2>1, <2>3, <2>4 DEF Contract!Place, Announced, Unseen, Unlisted
    <2>6. Contract!Shop
      BY <2>5 DEF Contract!Shop
    <2>7. QED
      BY <2>2, <2>6, OpenCartShops
  <1>5. QED
    BY <1>0, <1>3, <1>4

LEMMA RefreshSettles ==
  ASSUME Shape, Control, LinesInv, CheckoutInv, TypeInv, ContractInv, NEW r \in Requests, Acts(r),
         Refresh(r), misread' = misread
  PROVE  Contract!Next
  <1>0. pc[r] = "refresh" /\ shippings' = shippings
    BY DEF Refresh, Saving
  <1>1. lines' = lines
    BY <1>0, QuietPlaces
  <1>2. cart' = [status |-> copy[r].cart.status, code |-> copy[r].cart.code, total |-> copy[r].cart.total]
    BY UndisturbedCart
  <1>3. copy[r].cart.total = Total(lines) /\ copy[r].cart.code = cart.code
    BY <1>0 DEF CheckoutInv, CartKnown
  <1>4. copy[r].cart.status = cart.status \/ (IsCart(cart) /\ copy[r].cart.status \in FormStatuses)
    BY <1>0 DEF ContractInv, Current
  <1>5. Total(lines) = Contract!Cost(Basket(lines))
    <2>1. IsFiniteSet(Attached(lines))
      BY GivenIsFinite DEF TypeInv
    <2>2. QED
      BY <2>1, CostIsTotal
  <1>6. /\ Basket(lines') = Basket(lines) /\ Announced' = Announced
        /\ Unseen' = Unseen /\ Unlisted' = Unlisted
    BY <1>0, <1>1, MisledOfSteps DEF Announced
  <1>7. cart'.total = Contract!Cost(Basket(lines)) /\ cart'.code = cart.code /\ cart'.status = copy[r].cart.status
    BY <1>2, <1>3, <1>5
  <1>8. Contract!Settle
    BY <1>4, <1>6, <1>7 DEF IsCart, Contract!Settle, Contract!Open, Announced, Unseen, Unlisted
  <1>9. QED
    BY <1>8 DEF Contract!Next

LEMMA StepKeepsContract ==
  ASSUME Shape, Control, LinesInv, CheckoutInv, TypeInv, ContractInv, [Next]_vars
  PROVE  [Contract!Next]_(Contract!contract)
  <1>1. CASE UNCHANGED vars
    BY <1>1 DEF vars, db, Contract!contract, Basket, Attached, Misled
  <1>2. ASSUME NEW r \in Requests, Runs(r), Acts(r)
        PROVE  UNCHANGED Contract!contract \/ Contract!Next
    <2>1. CASE MisreadNothing(r) /\ misread' = IF pc'[r] \in {"done", "failed"} THEN misread
                                               ELSE misread \cup {r}
      BY <1>2, <2>1, OverlookedStep
    <2>2. ASSUME Step(r), misread' = misread
          PROVE  UNCHANGED Contract!contract \/ Contract!Next
      <3>1. CASE InsertLine(r)
        BY <1>2, <2>2, <3>1, InsertPuts
      <3>2. CASE SaveLine(r)
        BY <1>2, <2>2, <3>2, SaveChanges
      <3>3. CASE DeleteLines(r)
        BY <1>2, <2>2, <3>3, DeletionTakesOut
      <3>4. ASSUME NEW id \in DOMAIN task[r], ShipLine(r, id)
            PROVE  Contract!Next
        BY <1>2, <2>2, <3>4, ShippingAnnounces
      <3>5. CASE SaveCart(r)
        BY <1>2, <2>2, <3>5, SavingPlaces
      <3>6. CASE Refresh(r)
        BY <1>2, <2>2, <3>6, RefreshSettles
      <3>7. ASSUME UNCHANGED <<cart, lines, shippings>>
            PROVE  UNCHANGED Contract!contract
        <4>1. /\ Basket(lines') = Basket(lines) /\ Announced' = Announced
              /\ Unseen' = Unseen /\ Unlisted' = Unlisted
          BY <1>2, <2>2, <3>7, MisledOfSteps DEF Announced
        <4>2. QED
          BY <3>7, <4>1, Stutters
      <3>8. ASSUME NEW id \in DOMAIN task[r], SaveShipped(r, id)
            PROVE  UNCHANGED Contract!contract
        <4>1. pc[r] \notin {"insertLine", "deleteLines", "saveLine"}
          BY <3>8 DEF SaveShipped, TaskAt, Control, Callbacks
        <4>2. lines' = lines
          BY <1>2, <4>1, QuietPlaces
        <4>3. QED
          BY <3>7, <3>8, <4>2 DEF SaveShipped
      <3>9. CASE UNCHANGED <<cart, lines, shippings>>
        BY <3>7, <3>9
      <3>10. QED
        BY <2>2, <3>1, <3>2, <3>3, <3>4, <3>5, <3>6, <3>8, <3>9
        DEF Step, Start, GetCart, NoCart, GetLine, NoLine, ListLines, AllShipped, GetPlaced, Record, Load,
            Select, Abort, GetShipped, SelectShipped, FailTask, db
    <2>3. QED
      BY <1>2, <2>1, <2>2 DEF Runs
  <1>3. QED
    BY <1>1, <1>2, NextRuns

\* When requests come one at a time, the handlers implement the contract of a cart, wherever they
\* are cut off: the lines change one by one or go all at once, the total follows only at the end
\* of a request, an order is placed once, with all its lines shipped, and keeps them.
THEOREM SerialCartImplementsContract ==
  ASSUME Serialized
  PROVE  Spec => ImplementsContract
  <1>1. Init => Contract!Init
    <2> SUFFICES ASSUME Init PROVE Contract!Init
      OBVIOUS
    <2>1. PICK c \in InitialCarts : /\ lines = c
                                    /\ cart = [status |-> "CART", code |-> "cart", total |-> Total(c)]
      BY DEF Init
    <2>2. IsFiniteSet(Attached(c))
      BY <2>1, TypeInit, GivenIsFinite DEF TypeInv
    <2>3. cart.total = Contract!Cost(Basket(lines))
      BY <2>1, <2>2, CostIsTotal
    <2>4. QED
      BY <2>1, <2>3 DEF Init, Contract!Init, Misled
  <1>2. QED
    BY <1>1, StepKeepsContract, ShapeAlways, ControlAlways, LinesInvAlways, CheckoutInvAlways,
       TypeInvAlways, ContractInvAlways, PTL
    DEF Spec, ImplementsContract, Contract!Spec

\* When requests come one at a time, an order that is placed is final, even if its checkout is cut
\* off before it answers: its lines, their shippings, its code and its status stay as they are.
THEOREM SerialOrderIsFinal ==
  ASSUME Serialized
  PROVE  Spec => [][cart.code = "order" =>
                      /\ Basket(lines') = Basket(lines)
                      /\ {s.line : s \in shippings'} = {s.line : s \in shippings}
                      /\ cart'.code = "order" /\ cart'.status = cart.status]_vars
  <1> DEFINE Final == cart.code = "order" =>
                        /\ Basket(lines') = Basket(lines)
                        /\ {s.line : s \in shippings'} = {s.line : s \in shippings}
                        /\ cart'.code = "order" /\ cart'.status = cart.status
  <1>1. Shape /\ Control /\ LinesInv /\ CheckoutInv /\ TypeInv /\ ContractInv /\ [Next]_vars => [Final]_vars
    <2> SUFFICES ASSUME Shape, Control, LinesInv, CheckoutInv, TypeInv, ContractInv, [Next]_vars,
                        cart.code = "order"
                 PROVE  /\ Basket(lines') = Basket(lines)
                        /\ {s.line : s \in shippings'} = {s.line : s \in shippings}
                        /\ cart'.code = "order" /\ cart'.status = cart.status
      OBVIOUS
    <2>1. [Contract!Next]_(Contract!contract)
      BY StepKeepsContract
    <2>2. CASE UNCHANGED Contract!contract
      BY <2>2 DEF Contract!contract
    <2>3. CASE Contract!Next
      <3>1. Contract!Settle
        BY <2>3 DEF Contract!Next, Contract!Open
      <3>2. QED
        BY <3>1 DEF Contract!Settle, Contract!Open
    <2>4. QED
      BY <2>1, <2>2, <2>3
  <1>2. QED
    BY <1>1, ShapeAlways, ControlAlways, LinesInvAlways, CheckoutInvAlways, TypeInvAlways,
       ContractInvAlways, PTL
    DEF Spec

=============================================================================
