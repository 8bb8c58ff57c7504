# Verification of the ShopCore server

TLA+ models of the ShopCore server (NestJS, TypeORM on PostgreSQL, RabbitMQ, Redis), of the parts
whose correctness depends on the order in which concurrent requests, failures and database
statements happen. TLC checks the models on small instances; the TLA+ proof system proves the
central results for every value of the constants. `PROJECT.json` maps each definition to the lines
it models, and lists the runs, the mutants that show what each property detects, the hazards and
the theorems. Paths below are relative to the repository's `src/` directory.

## 1. Inventory

The server is one Node process (or several, under PM2) that answers GraphQL requests. Within a
process, handlers are asynchronous functions: between two `await`s a handler runs alone, at every
`await` any other handler may run. State lives in PostgreSQL; entities in memory are copies.

| Component | State | Operations | Hard behaviour | Modules |
|---|---|---|---|---|
| Orders (`modules/orders`) on the status machine (`common/abstracts/status-service.abstract.ts`) | `orders.status`, `shipping_status`, `deleted_at`; `order_histories` | `createOrder`, `updateOrder`, `deleteOrder`, eight status mutations | check on a copy, save of the whole copy later; no lock, version or transaction; history written after the save | `OrderLifecycle` |
| Carts (`modules/carts`) with order details, shippings, histories | an `orders` row with status `CART`, its `order_details`, their `order_shippings` | `createCart`, `updateCart`, `addToCart`, `removeFromCart`, `clearCart`, `checkoutCart` | several statements each, transactions that cover none of them, cascading saves, parallel callbacks, retries after a partial failure | `Cart` |
| Connections (`common/configs/typeorm.config.ts`, `executeInTransaction`) | pg-pool: clients and a queue of callers | connect, query, begin, commit, roll back | a transaction keeps one connection and asks for more; the lines of a form do so in parallel; no timeout | `ConnectionPool` |
| Broker client (`common/rabbitmq`) | connection, channel, ready promise, reply queues | publish, request, consume, consumeRPC | reconnecting, timeouts, redelivery, acknowledgements | `Broker` |
| Sessions and users (`modules/auth`, `modules/users`, refresh middleware) | `users` rows with the refresh token, two cookies per browser | sign up, in, out, refresh, create, update, delete | whole-row saves against token rotation, expiry, checks awaited before the signature, uniqueness by look-up | `Session` |
| Catalogue (products, variants, conversion units, categories) | their tables, a join table and an array of ids for the same categories | nested creates and updates, edits of single units | two saves per mutation, cascades, a choice among rows that others edit | `Catalogue` |
| CRUD base classes (`common/abstracts`), plain CRUD modules, roles, permissions, bookings, appointments, blogs, reviews, addresses, uploads | a table each, with columns that hold ids of other rows | `create` ... `bulkHardDelete`; reads that answer "nothing" when the query fails; status mutations | copies, look-ups, revived rows, dangling ids | `Schema`, `Records` |
| Data loaders (`common/dataloader`) | one batch per field | by id, by related column | two reads, rows change between them | `Records` |
| Entities and migrations (`database/migrations`) | the tables | - | they disagree | `Schema` |
| Response cache (`common/redis`) | keys | invalidate (nothing fills it) | - | - |
| Health, metrics, request plumbing, configuration, logging | none | - | - | - |

Resolvers call services; services call repositories, other services and, after a save, the broker
and the cache; carts inherit from orders; carts and orders share the pool of connections; every
request passes the refresh middleware.

What makes each part correct:

- orders: statuses move along two tables; what is shipped was released first; the history tells the
  truth, misses nothing and is in order;
- carts: one line per product, a total that is the sum of the lines, every line of an order has
  its shipping, a failed operation leaves nothing that a later one cannot repair;
- connections: no connection has two users, nobody waits while one is free, nobody waits for ever;
- broker: every call ends, data means that work was done, requests are not lost, reply queues go
  away, a lost connection comes back;
- sessions: a replaced refresh token is worthless, a signed-out user stays out, a good session
  lasts, no sign-up takes a number that it has been shown;
- catalogue: the base unit is the cheapest unit, the two lists of categories agree;
- records: a query shows what was there, deletions last, statuses follow their table.

## 2. Modules

| Module | Models |
|---|---|
| `OrderStatuses` | the enums and both transition tables |
| `OrderContract` | abstract specification: what the endpoints promise about an order's row |
| `OrderLifecycle` | the handlers on one order, one action per database statement |
| `Cart` | `CartService` on one cart with everything its handlers call |
| `CartContract` | abstract specification: what a cart promises a customer whose requests come one at a time |
| `ConnectionPool` | the pool behind `executeInTransaction` |
| `Broker` | the RabbitMQ client of several processes, their calls and consumers, and the broker |
| `Session` | users, cookies, the middleware, the guards and `UserService` |
| `Schema` | per module: its table, its form, its resolver's operations and fields; the migrated tables |
| `Records` | the CRUD base classes and the data loader on any two tables of `Schema` |
| `Catalogue` | `ProductService` on one product, with the mutations of conversion units |
| `CartTotals` | what the proofs need to know of `Total`, the sum over a cart's lines |
| `...Proofs` | the theorems about `OrderLifecycle`, `Cart`, `ConnectionPool`, `Broker`, `Session`, `Records`, `Catalogue` |
| `MC...` | constants of the instances TLC checks |

A definition whose comment begins with "Mutant:" is the definition below it with a plausible bug;
it is not part of the specification.

### OrderLifecycle

Each request carries one mutation of `OrderResolver` through its statements:

| Action | Code |
|---|---|
| `Start` | a resolver calls the service |
| `Read`, `Refuse` | `getOne`, the transition check and the assignment to `options.model`: no `await` lies between the answer and the assignment, so they are one step |
| `SaveSelect`, `SaveUpdate` | TypeORM's `save`: a SELECT by id, then an UPDATE of the columns in which the copy differs from what was just read |
| `ShipOn`, `ShipRefused` | `shippedOrder` goes on to `changeShippingStatus` with the same copy |
| `Record` | `createOrderHistory` |
| `Abort` | a statement rejects or the process stops |

`row` is the database row, `model` the copies, `image` what the SELECT inside `save` returned.
`versions` is a history variable: every value the row has had. With `Serialized = TRUE` a request
starts only when none is in flight; that separates what the handlers do wrong by themselves (nothing)
from what they do wrong to each other. The `@ValidateStatusTransition` decorators have no effect in
the model because nothing reads the metadata they attach.

### Cart

`cart` is the `orders` row, `lines` the `order_details` rows, `shippings` and `histories` the rows
that a checkout adds. A handler goes `getCart` -> its own statements -> `load` -> `refresh`; the last
two are `refreshOrder`: read the cart with its lines, sum, save everything. The cascade of that save
is in `SavedLines` (columns of lines, re-insertion of lines that are gone) and `Orphaned` (lines the
copy does not list lose their `order_id`). `checkoutCart` has one callback per line (`ShipLine`,
`GetShipped`, `SelectShipped`, `SaveShipped`); when one fails, the handler fails at once and the other
callbacks go on (`FailTask`). `executeInTransaction` is no action here: its callback ignores the
transaction's EntityManager, so each statement commits by itself. `MisreadNothing` is the habit of
`AbstractService.getOne` and `getMany` of answering `null` or `[]` when the query was rejected.

Abstractions: an item is a product with its variant and unit; prices do not change; codes are "cart"
(the customer's) or "order" (generated); the columns that no property speaks of are left out, and so
are edit forms that carry lines of their own. `save` writes its rows in one commit (TypeORM wraps
them in a transaction). A statement of the serialized run may still fail anywhere.

`CartContract` is the customer's view: a basket of lines, the total shown, what has been announced to
the shippers, and two marks for failures that the code takes for answers (a look-up that overlooked an
item, a list that passed for an empty basket). `Contract` in `Cart` maps the rows to it: the basket is
the attached lines with their item and quantity, announced are the lines with a shipping, the marks
are the misread requests. `InsertLine` is `Put`, `SaveLine` is `Change`, `DeleteLines` is `TakeOut`, the three
saves of a checkout are `Place` and twice a stutter, `Refresh` is `Settle`, and everything else stutters.
The contract allows what the code allows at the edges: an empty basket may be placed, an overlooked
item may get a second line, and a line may be announced twice.

### ConnectionPool

A request is a main strand, the handler, and a strand for each line of its form: `createOrder`
(which `createCart` calls within its own transaction) maps every line to `createOrderDetail`, each with
its own `executeInTransaction`, and `checkoutCart` maps every line to a parcel, all of them in a
`Promise.all`. `Launch` starts the lines; `Join` is the `Promise.all` that resolves when every line has
been handled, `JoinFails` the one that rejects at the first line that throws, while the other lines go on
and keep their connections.

Programs are sequences of "begin", "query" and "commit", and for handlers "launch" and "join", taken
from the cart handlers. `Connect`/`Wait` ask pg-pool for a connection, `Begin` keeps it for the transaction,
`Query` returns it, `Commit` (or, after `Fail`, the roll-back) releases the innermost one; `PassOn`
hands a released connection to whoever has waited longest. Which free connection is handed out does not
matter.

Nothing limits the number of lines of a form (`create-order.input.ts`, lines 82-85), so there is no
pool that is large enough for every form: `Lines` says how many those of each request have at most, and
`EnoughConnections` depends on it. With as many lines as free connections a single `createCart` locks
the pool up by itself.

### Broker

Each process opens one connection with one channel (`Connect`), on which the explorer registers its
consumers (`Register`). `Close` is the loss of a connection: handlers go on running, but the broker
takes back what they have not acknowledged and deletes the exclusive reply queues; `Crash` also ends
the handlers, and PM2 restarts the process. `Retry` is the `close` handler, which opens nothing.

A call is `Call` (the reply queue), `Refuse` or `Subscribe` (the check of `consumerCount`), `Publish`
(in the callback of consume-ok, whether or not the caller still waits), `Answer` or `Timeout`,
`Teardown`. A consumer's message is `Deliver`ed or `Reject`ed (no JSON), its handler ends (`Handle`),
its acknowledgement arrives (`Ack`): for events as soon as the handler has started, for requests when
it has ended. Handlers succeed or fail freely. `published`, `succeeded`, `ended`, `runs` and
`requeued` are history.

Abstractions: an event is a message that another program publishes, because what this program
publishes (`publish.<entity>.created` ...) has routing keys that no consumer binds; messages are not
persistent, but the broker does not restart; nobody under `src/` calls `request` yet, so a call
stands for one of `AbstractEvents.requestRabbitMQRPC`'s future users.

### Session

The clock ticks; a token is the user and the second in which it was signed. A request takes the
cookies of its browser (`Send`; a browser may keep one for a moment after its expiry) and passes the
middleware: `Pass`, or `Falls` into its `catch`, where the refresh token is checked (`Grant`) and, after
that `await`, an access token signed (`Renew`); `Unauthorized` and `Unread` clear the cookies. Then come the
guards (`SignIn`, `SignOut`, `RefreshGuarded` with the signature of `RefreshToken` after it, `Administer`,
`AdministerNew`) and, if the request changes a row, `LookUp`/`CreateUser`, and `Load`, `Select`, `Update`:
read the row, assign to the copy, select it inside `save`, write the columns that differ. A sign-in signs its
refresh token first (`Mint`) and its access token when the former is stored (`Enter`). `LookUpUnread` is
the look-up of `signUp` that the database rejects: `getOne` answers `null`, and the sign-up goes on as if
the number were free. `Given` is the same for the roles of an edit. `Fail` is any other statement that
the database rejects. Responses set cookies at the end of the request (`End`).

`asked` and `seen` (of a row: the number it was created with, and whom its sign-up was shown with which
numbers), `lastIn` and `buried` are history. `lastIn` is when the user was last `SignedIn`: his row held a
refresh token, or a request had passed its check and not yet signed (`Admitted`). `buried` has, for each
column, the values that are overwritten and in nobody's copy any more.

Abstractions: the profile columns are left out; a role either has the permissions to edit users or not;
passwords are compared as values (bcrypt is a function here); verifying a token and reading its user are one
step, and so are the last step of a handler and the arrival of its response.

### Schema and Records

`Schema` is the static half: for every module the columns that hold ids of other rows, those that its
form can write, the operations of its resolver (guarded or open), the fields that a loader resolves and
how the resolver reads the loader's answer (`each` row, the `first`, `all` or an error, `none`: two
resolvers index a Map), and the tables of the migrations with their NOT NULL columns and foreign keys.
`SchemaAssumption` (in `Records`) compares the four descriptions, and TLC evaluates it: every field has
its column and its loader, no form writes a column that is not there, and the migrations lack
`is_active` everywhere and further columns in `blogs` and `product_reviews`. A database that only ran
the migrations, as README.md and .env.example tell, therefore fails every query; `Records` assumes
`is_active` to be added by hand (`AddedByHand`), and in shapes that lack more nothing `works`.

`Records` is the dynamic half. A behaviour is about one resolved field: its rows are `Parents`, what
it shows are `Children`, either side holds the column. Of a module only the `Shape` of the field
matters; the 20 modules have 53 different ones, and `Init` chooses any. A query is two reads
(`ReadParents`, `ReadChildren`, the batch of all the parents' keys); a mutation is `Load` or `Create`,
`LookUp` (roles, permissions, categories), `Select`, `Write`. `moments` is history: the tables since
the query's first read. Modules whose rows are written by carts, orders and products (`ByOthers`) get
unguarded CRUD, which is more than their writers do.

### Catalogue

`createProduct` and `updateProduct` save the entity with all its lists, choose base units among what was
saved and save the same copy again (`Select`, `Write`, `ChooseBase`); each save is one commit that
writes only what differs from its own SELECT. `CascadedUnit`, `Relation` and `Inserted` are TypeORM's
cascade over units, variants and categories. `CreateUnit`, `UpdateUnit`, `DeleteUnit` are the mutations of
`ConversionUnitResolver` on the same rows. `Sortable` is where the handler throws between its saves.
`settled`, `alone` and `had` are history.

Abstractions: a form lists a unit in one place; attributes and values are kept like categories, so only
the latter are modelled; deleting products or categories is in `Records`; null lists are left
out; ids are fresh. Under `DB_SYNCHRONIZE`, where the tables come from the entities,
`base_unit_id` and `thumbnail_id` are NOT NULL and `createProduct`'s first save always fails;
the model has the migrated tables.

## 3. Runs

| Run | Instance | Shows |
|---|---|---|
| `order_race` | three requests, interleaved; eight initial rows | no status or shipping status is skipped (`StatusJustified`, `ShippingJustified`), the parcel never runs ahead of the order (`ParcelFollowsOrder`), the history never lies (`HistoryIsTrue`) and misses only what a cut-off request saved (`ChangesAreRecorded`) |
| `order_serial` | three requests in sequence; all 80 initial rows | the handlers implement `OrderContract`; the history is in order (`HistoryInOrder`) |
| `order_stale` (violation) | two requests, interleaved | the status leaves the table: see the findings |
| `cart_race` | two requests, interleaved; three initial carts, two items | the stored total was the sum of the lines at some moment (`TotalWasTrue`); only a checkout that registered every line it listed makes an order (`PlacedByFullCheckout`) |
| `cart_serial` | three requests in sequence; two initial carts | one line per item unless a look-up failed (`OneLinePerItem`), no line is cut off (`NoOrphans`), an answered checkout is complete (`CheckoutIsComplete`), double shippings only after a failed checkout (`OnlyRetriesShipTwice`), every refresh repairs the total (`RefreshRepairs`), the handlers implement `CartContract` (`ImplementsContract`) |
| `cart_empty` (violation) | two requests in sequence | an empty cart checks out: see the findings |
| `pool` | a form with up to two lines, handled in parallel, beside one without lines; pools of 1 to 5 | one owner per connection (`OneOwner`), no lost wake-up (`NoIdleConnection`), and for the pool that is large enough no deadlock (`NoDeadlock`) and an end for every request (`EveryRequestEnds`) |
| `broker` | two processes, one call, two events of which one is no JSON, prefetch 1, one fault | data means that a handler did the work (`DataWasComputed`), only a refused call leaves its reply queue (`OnlyRefusedLeak`), no request is lost (`NothingLost`) or repeated without a lost connection (`RepeatedOnlyAfterLoss`), every call ends (`EveryRequestEnds`), the queues drain (`MessagesAreServed`) |
| `broker_lost` (violation) | one process, one call, one fault | a lost connection is never replaced: see the findings |
| `session` | an administrator and two users to come, two browsers, two requests, two numbers, tokens that live 1 and 2 ticks, two ticks | two users share a number only if neither was shown to the other's sign-up (`SamePhoneOnlyUnseen`); what was overwritten comes back only from an overlapping request's copy (`OnlyOverlapsUndo`); access ends `AccessTTL` after the last sign-out and the last renewal admitted before it (`AccessEndsAfterSignOut`); why a browser may lose a good session (`KeepsSession`) |
| `records` | the 53 shapes; two parents, two children, two requests, one row still to be created | a query shows what was there while it ran and leaves out nothing that was there all along (`ShownWasThere`); deletions and statuses are undone only by stale copies and by one form (`OnlyStaleUndo`) |
| `catalogue` | one product, one variant, two units, two rates, an old and a new category, two requests | where base units and categories come from, and what an answered mutation has put right (`BaseIsCheapest`, `ListsAgree`) |

Why the bounds are enough. Every anomaly of the order handlers needs one stale copy and one
request that overtakes it; a third request shows what comes after. Two lines and two prices let totals
differ in every way the code tells apart, and a checkout with two lines has one callback that fails
while the other goes on. The pool of four is one
connection short of the five that `EnoughConnections` asks for (two handlers and two lines with a
transaction each), and TLC reaches `Stuck` in it, so the bound is met from both sides; handlers and lines that nest
deeper than their one transaction inside another's are left to the proof. One fault loses a connection at every point of a
call or a delivery while the other process consumes; a poisoned and a good event meet in one queue with
prefetch 1. In `session` two ticks let an access token expire before, during and after a
request while the refresh token is good, and a tick falls between every check and its signature; one browser is signed
in and the other is not, and both requests may come from either; two numbers let a sign-up meet a user
with its number, another sign-up, or an edit that gives the number away. Its requests are symmetric. In `records` two rows on each side distinguish a batch from its first key; in `catalogue` a
failure and the mutation that repairs it fit into two requests, and so do two overlapping updates. All
counters are bounded by the number of requests, each of which carries out one operation, or by
`MaxFaults` and `MaxTime`.

`CHECK_DEADLOCK FALSE`: in all models but the pool's every behaviour ends when its requests have
ended; in the pool model a pool that is too small really stops, which is what `NoDeadlock` is about.

Fairness. `ConnectionPool`: `WF_vars(Proceed(s))`, for each strand, says that the event loop runs a callback that is
ready and that the database answers a query; nothing is assumed of arrivals or failures, and a
strand in the queue makes progress only when somebody passes it a connection. `Broker`: a process
that starts connects, registers its consumers and runs its `close` handler; a call takes its next step
(one of them is its timer, so nothing is assumed of answers); the broker delivers to a consumer that
has room, and handlers end. Nothing is assumed of calls, faults or restarts. The other models have
no fairness and no liveness property: a request there ends or is cut off at any statement.

### Findings

- `order_stale`: a transition is checked against a copy and saved later. A confirmation that has read
  PENDING overtaken by a cancellation moves the order from CANCELLED to CONFIRMED
  (`common/abstracts/status-service.abstract.ts`, lines 38-50). The same two requests one after the
  other would end in the error of line 66.
- `cart_empty`: the guard of `checkoutCart` for a cart without products (`cart.service.ts`, line 207)
  is `!Array.isArray(orderDetails)`, which an empty list passes, as does the list that `getMany`
  answers when its query fails.
- `broker_lost`: the `close` handler logs "Reconnecting..." and retries
  `!this.connection && this.initialize()` (`common/rabbitmq/rabbitmq.service.ts`, line 45). Nothing
  clears `this.connection`, so the function returns false at once, which `retry` takes for success.

What the unserialized cart does wrong besides (two lines for one item, lines that lose their cart),
which rows revive and which numbers double is no finding of a run: the repository promises nothing
about it. The properties say exactly when it can happen.

## 4. Proofs

All theorems hold for any values of the constants that satisfy the module's assumption
(`LifecycleAssumption`, `CartAssumption`, `PoolAssumption`, `BrokerAssumption`, `SessionAssumption`,
`RecordsAssumption`, `CatalogueAssumption`); TLC evaluates the assumptions in the runs.

`OrderLifecycleProofs`, for any set of requests, any initial rows and any form values:

- `TypeCorrect`: the type invariant. It is strengthened by what a request's place says about its mutation.
- `NoStatusSkipped`, `NoShippingSkipped`: a version of the row alone does not show where its statuses
  come from, because a save writes a copy made earlier. `Provenance` therefore says the same of
  every copy about to be saved (`CopiesKnown`), relative to the versions so far; since versions are only
  appended, what was known stays known (`KnownStaysKnown`).
- `HistoryDoesNotLie`, `ParcelNeverFirst`: a save writes only the columns in which the copy differs from
  what its own SELECT saw, so a save need not write the value it is about. `CopiesInv` says that the copy
  carries that value and that the SELECT saw a version of the row; hence (`SaveReaches`) the value has been
  in the row when the save is through. With that, what a request is about to write into the history is
  true (`OwedIsTrue`), and a request that goes on to the parcel has released the order (`ParcelInv`).
- `SerialRequestsImplementContract`: if requests are serialized, the row cannot change between a
  request's read and its save, so `SerialInv` can say that the copy is exactly one step of the contract
  ahead of the row; then each `SaveUpdate` is a step of `OrderContract` and every other action a stutter.
- `HistoryMissesNothing`: every value that a version has is accounted for (`AllAccounted`): it is in the
  history, is one that nobody records, or is that of a request about to record it or cut off. This
  carries over to a save because each column of a copy comes from a version, from the copy's own request or
  is an edit or a release (`Origins`), and a status handler changes one column (`OneColumn`).
- `SerialHistoryIsInOrder`: with serialized requests, a status handler always changes the row (`Moves`: no
  status follows itself in a table), so a request about to record has appended the newest version, and
  all earlier entries sit below it (`OwedIsNewest`).
- `EveryStatusWasLedTo`: `StatusJustified` lets a version repeat an older one. By induction over the versions a repeated
  value inherits the origin of the one it repeats, so every status is the first one, an editor's, or has a
  predecessor in the table before it, however requests interleave.
- `SerialStatusesFollowTable`, `SerialDeletedOrderIsFinal`: consequences of the refinement. The first is the property
  that `order_stale` refutes for overlapping requests; it shows that the overlap is the only reason.

`CartProofs`, for any requests, items, prices and initial carts. The first two hold however requests
interleave, the others if they come one at a time (`Serialized`), any of them cut off anywhere:

- `TotalsAreOfOneMoment`: a copy's total is a sum just computed or the cart's total, so every copy past
  `getCart` holds an element of `totals` (`CopiesWereTrue`), and a save writes a copy's total or keeps the row's.
- `PlacedByCheckout`: a copy with the code of an order comes from `AllShipped` or from a row that already
  had it; a checkout that is through its callbacks stays through (`Through`).
- `SerialCartHasOneLinePerItem`, `SerialCartHasNoOrphans`: a checkout with running callbacks counts as in
  flight (`Control`), so nobody else writes between a read and its save. Then what a save's SELECT
  returns is what was read (`LinesInv`), the cascade of `refreshOrder` writes nothing (`UndisturbedLines`) and the other
  saves change one line (`SaveOfOneLine`).
- `SerialCheckoutIsComplete`, `SerialOnlyRetriesShipTwice`: `CheckoutSoFar` says what a checkout has done at each
  place. Its answer leaves a cart that `getCart` finds no more, so later requests come and go without
  touching anything (`AnsweredIsLast`); hence at most one checkout gets past `getCart` and does not fail (`OnePast`).
- `SerialRefreshRepairs`, about steps: at `refresh` the copy's total is the sum of the lines (`CartKnown`), and
  the save writes the copy.
- `CartIsTyped`, however requests interleave: the type invariant, among it that totals are naturals.
  `CartTotals` proves that a sum exists, is unique and is a natural number, by induction on finite sets in a form
  without an operator as parameter: the collection of the subsets that have such a sum contains the empty
  set and, with a set, the set and one more line. Its theorem `TotalIsTheSum` is the recursion that results.
- `SerialCartImplementsContract`: each statement is a step of `CartContract` or a stutter. `ContractInv` says what this needs
  of a request: where it relies on the cart that `getCart` found, it is still a cart (`Opened`), its item
  and status are a customer's (`Meant`), it has chosen one line or all (`Chosen`), and the cart it will save is the
  one there but for what it means to change (`Current`).
- `SerialOrderIsFinal`: in the contract only `Settle` happens to an order, and it writes nothing but the total;
  with the refinement, lines, shippings, code and status of an order stay.

`ConnectionPoolProofs`, for any finite set of requests, any finite forms, any pools, and any programs of handlers
within `MaxDepth` and of lines within `LineDepth`, where a handler launches its lines once:

- `TypeCorrect`, `NoSharedConnection`, `NoLostWakeUp`: the inductive invariant `IInv` adds to the type
  invariant that a strand has a connection only while it asks for one (`Asking`), that it holds as many
  connections as its program has opened transactions (`Nested`), that lines start when they are launched
  (`Unlaunched`) and that the queue has no duplicates and only askers (`InLine`).
- `LargePoolsDoNotDeadlock`: if all were stuck, waiting in the queue or for lines that do, each connection
  would be held by an open transaction; these fit into the slots `Handlers \X 1..MaxDepth` and
  `LineStrands \X 1..LineDepth`, so by the pigeonhole principle the pool is no larger than that.
- `StepsLeadToTheEnd`, `LargePoolsGoOn`: what is left of a strand (`Left`) counts the steps of its program four times, less its
  place in asking, waiting and having; it is a number (`LeftCounts`), no step raises it for anybody who has started, and each
  step but an arrival, of which a request has one, lowers it for one (`NearerTheEnd`). In a large enough pool
  somebody under way can take its next step, since a handler waits only for lines that are under way (`SomebodyIsReady`).
  These are the facts from which `EveryRequestEnds` follows under fairness; that last inference is TLC's.

`BrokerProofs`, for any number of processes, calls, events and faults:

- `NoDataWithoutWork`: replies that report success exist only for messages whose work is done.
- `ReplyQueuesGo`: a call is torn down or refused when it ends, and a teardown deletes the queue even on
  a dead connection because the broker has done so.
- `RequestsSurvive`: a published request is ready, unacknowledged or ended; a request's delivery is
  unacknowledged as long as its handler runs, so neither an acknowledgement nor a lost connection can take the last copy.
- `NoNeedlessRuns`: a message ready in its queue has been run no more often than connections were lost with it.
- `NoCallIsSetBack`, `CallsHaveAProcess`: what is left of a call counts its places twice, plus one for a subscription that
  the broker has not confirmed. No step of anybody raises it, each step of the call lowers it (`CallsAdvance`), and a call under way is in a
  process that is up (`CallsAreInLiveProcesses`), where the guard of one of its steps holds. As for the pool,
  the inference from there to `EveryRequestEnds` under fairness is TLC's.

`SessionProofs`, for any users, browsers, requests, edits, lifetimes of tokens and any initial table:

- `SignOutEndsAccess`: every access token in a jar, in a request or in a response under way is `Good`, and
  `lastIn` is at the present for a user whose row has a refresh token (`InNow`) and for one of whom a request
  has passed the check (`Tokens`): the clock takes both along. A token is signed only by such a request.
- `EditsStay`: a copy between `Load` and `Update` holds no buried value in a column that it does not mean
  to write (`Copied`): what was buried before is not in the row it reads, and what is buried
  meanwhile is by definition in no copy. A save writes columns of the copy, or leaves those of the row.
- `SamePhoneNeedsUnseen`: among those that a sign-up about to create its user was shown, nobody has the
  number it asks for (`Placed`), which the new row inherits (`Born`). No save changes the history of a row
  because copy and image carry that of the row itself (`Placed`).
- `SessionsLast`, about steps: cookies change only at the end of a request (`EndTakes`), and each end keeps
  the refresh token, replaces it by the one just saved, or is one of the four exceptions.

`RecordsProofs`, for any tables and any of the shapes:

- `QueriesShowWhatWasThere`: the tables of the query's first and of its second read are among its
  `moments`, and what it has copied is what the first of them had.
- `OnlyStaleCopiesUndo`, about steps: the copy of a mutation is the row it loaded with its form assigned
  (`Carries`), and a save writes a column only if the copy differs from its SELECT.

`CatalogueProofs`, for any units, rates, categories and requests and any finite set of variants:

- `TypeCorrect`, however requests interleave: rows never go away, so what a copy names is still there when
  it is saved (`KnownStaysKnown`); the cascade puts a unit into one list and so gives it at most one variant (`Cascade`).
- `BasesAreCheapest`, `ListsKeepAgreeing`: that a base unit or an id in `category_ids` was once a unit or
  a category of its owner needs the same of every copy (`BaseKnown`, `IdsKnown`). For mutations that
  nobody overlaps, `AloneKnown` says that the SELECT saw the present tables and that a copy whose
  form left the categories out holds those that are joined and says nothing of the ids, after the first save too. Then a save gives each
  owner exactly the units of its list (`CascadeAlone`), among which the copy's bases are the cheapest.

Only model-checked, because it is out of the prover's reach: liveness under fairness (`EveryRequestEnds` of
the pool and of the broker, `MessagesAreServed`). Every other property that a passing run checks is stated by
a theorem.

## 5. Not modelled, and the plan

Not modelled, with the reason:

- `createOrder` and `createCart` are the initial states of `OrderLifecycle` and `Cart`. While
  `createOrder` runs, nobody else knows the order; the race of two first visits of one customer is
  described under the hazards.
- Prices and quantities as numbers: the arithmetic is in doubles, the columns have 32 bits, and no
  document gives a range from which a bound would follow.
- Other columns of edit forms (addresses, notes, names, texts) and
  formatting: no property depends on them.
- The response cache: `CacheInterceptor` is attached to no handler, so nothing is ever cached
  (and `RedisService` injects a token that `RedisModule` does not provide). Invalidation alone has no state.
- The events that services publish after a save: their routing keys reach no queue.
- `restore`, `bulkCreate`, `bulkUpdate`, `bulkRestore`, `createProductVariant`, `updateProductVariant`,
  `createConversionUnit`, `updateConversionUnit` and the `updateCategory` of the service are called by nobody.
- `hardDelete` and join tables outside of `Catalogue`; signed URLs and the object store.
- Restarts of the broker and of the database; several servers share nothing but these two.
- Health, metrics, logging, configuration, stateless checks of a request. The loader's per-request
  cache never answers, since its keys are arrays made for each call.

What could come next: an abstract specification of the message broker's client, the creation of carts, and price
arithmetic with its widths.
