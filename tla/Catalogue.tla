------------------------------ MODULE Catalogue ------------------------------
(***************************************************************************)
(* ProductService on one product: its variants, its conversion units and   *)
(* its categories, and ConversionUnitResolver, which edits the same units. *)
(*                                                                         *)
(* createProduct and updateProduct save the product with all that its form *)
(* lists, then choose the base units among what was saved, then save the   *)
(* same copy once more.  executeInTransaction covers neither save (see     *)
(* ConnectionPool); each is a commit of its own.  The tables are those of  *)
(* the migrations, where base_unit_id may be null.                         *)
(***************************************************************************)
EXTENDS Naturals, FiniteSets

CONSTANTS Product, Variants, Units,
          Rates,                    \* conversion rates
          Categories,
          NewCategories,            \* those of them that a form creates: it gives them no id
          Requests,
          None,                     \* null
          Keep                      \* undefined: the form leaves it out

Owners == {Product} \cup Variants   \* what has conversion units and a base unit

\* product_id and variant_id are two columns of a unit.
Unit == [owners : {s \in SUBSET Owners : Cardinality(s \cap Variants) <= 1}, rate : Rates, live : BOOLEAN]

\* Among others: null and undefined are none of the values.
ASSUME CatalogueAssumption ==
    /\ Rates \subseteq Nat
    /\ Product \notin Variants /\ IsFiniteSet(Variants)
    /\ NewCategories \subseteq Categories
    /\ \A row \in Unit : row # None
    /\ Keep \notin Rates /\ Keep \notin Units
    /\ \A vs \in SUBSET Variants : vs # Keep
    /\ \A cs \in SUBSET Categories : cs # Keep

VARIABLES
    tables,     \* the rows
    at,         \* where each request is
    copy,       \* the entity it saves
    image,      \* the tables as its save() selected them
    alone,      \* history: no other request was in flight with it
    settled,    \* history: what the last mutation that wrote it had to itself
    had         \* history: units that owners and categories that the product have had

vars == <<tables, at, copy, image, alone, settled, had>>

-----------------------------------------------------------------------------
(* Rows and copies.                                                        *)

Tables == [owners : SUBSET Owners,                      \* products and product_variants
           attached : SUBSET Variants,                  \* product_variants.product_id
           base : [Owners -> Units \cup {None}],        \* base_unit_id
           unit : [Units -> Unit \cup {None}],          \* conversion_units
           category_ids : SUBSET Categories,
           joined : SUBSET Categories,                  \* product_category_relations
           categories : SUBSET Categories]              \* categories

\* A list of units with their rates, as a form gives it.
Lists == UNION {[s -> Rates] : s \in SUBSET Units}

\* What a product form lists: a unit in one place only.
Forms ==
    {f \in [units : [Owners -> Lists \cup {Keep}],
            variants : {Keep} \cup SUBSET Variants,
            categories : {Keep} \cup SUBSET Categories] :
       /\ \A v \in Variants : (f.variants = Keep \/ v \notin f.variants) => f.units[v] = Keep
       /\ \A o, p \in Owners : o # p /\ f.units[o] # Keep /\ f.units[p] # Keep
                                 => DOMAIN f.units[o] \cap DOMAIN f.units[p] = {}}

\* The product is in the tables.
Created(t) == Product \in t.owners

-----------------------------------------------------------------------------

\* No product yet, or one that createProduct left with one unit and no variants.
Init ==
    /\ \E u \in Units, rate \in Rates, cs \in SUBSET (Categories \ NewCategories), created \in BOOLEAN :
         /\ tables = [owners |-> IF created THEN {Product} ELSE {},
                      attached |-> {},
                      base |-> [o \in Owners |-> IF created /\ o = Product THEN u ELSE None],
                      unit |-> [w \in Units |->
                                  IF created /\ w = u THEN [owners |-> {Product}, rate |-> rate, live |-> TRUE]
                                  ELSE None],
                      category_ids |-> IF created THEN cs ELSE {},
                      joined |-> IF created THEN cs ELSE {},
                      categories |-> Categories \ NewCategories]
         /\ had = IF created THEN ({Product} \X {u}) \cup ({Product} \X cs) ELSE {}
    /\ at = [r \in Requests |-> "idle"]
    /\ copy = [r \in Requests |-> None]
    /\ image = [r \in Requests |-> None]
    /\ alone = [r \in Requests |-> FALSE]
    /\ settled = {"units", "categories"}

InFlight == {r \in Requests : at[r] \in {"select", "write"}}

\* A request arrives, and is not alone if another one is under way.
Start(r, c, place) ==
    /\ copy' = [copy EXCEPT ![r] = c]
    /\ at' = [at EXCEPT ![r] = place]
    /\ alone' = [q \in Requests |-> IF q = r THEN InFlight = {} ELSE alone[q] /\ q \notin InFlight]
    /\ UNCHANGED <<tables, settled, had>>

-----------------------------------------------------------------------------
(* createProduct and updateProduct.                                        *)

\* Mutant: the ids are not taken from the form.
IdsNone(form) == Keep

\* categories?.filter((c) => c?.id).map((c) => c.id)
Ids(form) == IF form.categories = Keep THEN Keep ELSE form.categories \cap tables.categories

NewCopy(form) ==
    [kind |-> "product", base |-> [o \in Owners |-> Keep], units |-> form.units, variants |-> form.variants,
     categories |-> form.categories, category_ids |-> Ids(form),
     relists |-> TRUE, last |-> FALSE]

CreateProduct(r) ==
    /\ at[r] = "idle" /\ ~Created(tables)
    /\ \E form \in Forms : Start(r, NewCopy(form), "write")
    /\ image' = [image EXCEPT ![r] = tables]

\* The product is loaded with its categories and variants but not with any units; then
\* Object.assign(model, form).
LoadedCopy(form) ==
    LET Or(given, loaded) == IF given = Keep THEN loaded ELSE given
    IN  [kind |-> "product",
         base |-> [o \in Owners |-> IF o = Product \/ (form.variants = Keep /\ o \in tables.attached)
                                    THEN tables.base[o] ELSE Keep],
         units |-> form.units,
         variants |-> Or(form.variants, tables.attached),
         categories |-> Or(form.categories, tables.joined),
         category_ids |-> Ids(form),
         relists |-> form.categories # Keep,
         last |-> FALSE]

UpdateProduct(r) ==
    /\ at[r] = "idle" /\ Created(tables)
    /\ \E form \in Forms : Start(r, LoadedCopy(form), "select")
    /\ UNCHANGED image

-----------------------------------------------------------------------------
(* ConversionUnitResolver: create, update and delete of the base service.  *)

UnitCopy(u, row) == [kind |-> "unit", unit |-> u, row |-> row, last |-> TRUE]

CreateUnit(r) ==
    /\ at[r] = "idle"
    /\ \E u \in Units, row \in Unit :
         /\ tables.unit[u] = None /\ row.live /\ row.owners \subseteq tables.owners
         /\ Start(r, UnitCopy(u, row), "write")
    /\ image' = [image EXCEPT ![r] = tables]

UpdateUnit(r) ==
    /\ at[r] = "idle"
    /\ \E u \in Units, row \in Unit :
         /\ tables.unit[u] # None /\ tables.unit[u].live
         /\ row.live /\ row.owners \subseteq tables.owners
         /\ Start(r, UnitCopy(u, row), "select")
    /\ UNCHANGED image

DeleteUnit(r) ==
    /\ at[r] = "idle"
    /\ \E u \in Units :
         /\ tables.unit[u] # None /\ tables.unit[u].live
         /\ Start(r, UnitCopy(u, [tables.unit[u] EXCEPT !.live = FALSE]), "select")
    /\ UNCHANGED image

-----------------------------------------------------------------------------
(* save(): a SELECT of all that the copy names, deleted or not, then one   *)
(* commit of what differs.                                                 *)

Select(r) ==
    /\ at[r] = "select"
    /\ image' = [image EXCEPT ![r] = tables]
    /\ at' = [at EXCEPT ![r] = "write"]
    /\ UNCHANGED <<tables, copy, alone, settled, had>>

Column(value, read, now) == IF value \in {Keep, read} THEN now ELSE value

\* The rows that a list of the copy adds and takes away, against those the SELECT saw.
Relation(list, read, now) == IF list = Keep THEN now ELSE (now \ (read \ list)) \cup (list \ read)

OwnedBy(t, o) == {u \in Units : t.unit[u] # None /\ o \in t.unit[u].owners}

\* A unit saved in a list: its rate is cascaded, its owner is whose list it is in.
CascadedUnit(c, read, now, u) ==
    LET places == {o \in Owners : c.units[o] # Keep /\ u \in DOMAIN c.units[o]}
        gained == {o \in places : u \notin OwnedBy(read, o)}
        lost == {o \in Owners \ places : c.units[o] # Keep /\ u \in OwnedBy(read, o)}
                  \cup (IF gained \cap Variants = {} THEN {} ELSE Variants)
        rate == c.units[CHOOSE o \in places : TRUE][u]
    IN  CASE now.unit[u] # None ->
               [now.unit[u] EXCEPT !.owners = (@ \ lost) \cup gained,
                                   !.rate = IF places = {} THEN @ ELSE Column(rate, read.unit[u].rate, @)]
          [] now.unit[u] = None /\ places # {} -> [owners |-> gained, rate |-> rate, live |-> TRUE]
          [] OTHER -> None

\* Mutant: a relation that does not cascade.
ProductOnly(c, now) == now.owners \cup {Product}

\* Rows of products and variants after the save.
Inserted(c, now) == now.owners \cup {Product} \cup (IF c.variants = Keep THEN {} ELSE c.variants)

SavedProduct(c, read, now) ==
    [owners |-> Inserted(c, now),
     attached |-> Relation(c.variants, read.attached, now.attached),
     base |-> [o \in Owners |-> Column(c.base[o], read.base[o], now.base[o])],
     unit |-> [u \in Units |-> CascadedUnit(c, read, now, u)],
     category_ids |-> Column(c.category_ids, read.category_ids, now.category_ids),
     joined |-> Relation(c.categories, read.joined, now.joined),
     categories |-> now.categories \cup (IF c.categories = Keep THEN {} ELSE c.categories)]

\* A unit saved by itself, with its two owner columns.
SavedUnit(c, read, now) ==
    LET Owner(part) == Column(c.row.owners \cap part, read.unit[c.unit].owners \cap part,
                              now.unit[c.unit].owners \cap part)
        row == IF read.unit[c.unit] = None THEN c.row
               ELSE [owners |-> Owner({Product}) \cup Owner(Variants),
                     rate |-> Column(c.row.rate, read.unit[c.unit].rate, now.unit[c.unit].rate),
                     live |-> Column(c.row.live, read.unit[c.unit].live, now.unit[c.unit].live)]
    IN  [now EXCEPT !.unit[c.unit] = row]

Saved(c, read, now) == IF c.kind = "unit" THEN SavedUnit(c, read, now) ELSE SavedProduct(c, read, now)

NewUnits(c, read) ==
    {u \in Units : read.unit[u] = None
                     /\ IF c.kind = "unit" THEN u = c.unit
                        ELSE \E o \in Owners : c.units[o] # Keep /\ u \in DOMAIN c.units[o]}

\* What a save inserts is still absent: fresh ids have it so for rows, and pairs of the join table
\* have a primary key.
Insertable(c, read, now) ==
    /\ \A u \in NewUnits(c, read) : now.unit[u] = None
    /\ c.kind = "product" =>
         /\ Created(now) => Created(read)
         /\ c.variants # Keep => c.variants \cap now.owners \subseteq read.owners
         /\ c.categories # Keep => /\ c.categories \cap now.joined \subseteq read.joined
                                   /\ c.categories \cap now.categories \subseteq read.categories

-----------------------------------------------------------------------------
(* What the handler does with what it saved.                               *)

\* Mutant: the last of the sorted units.
Dearest(list) == {u \in DOMAIN list : \A w \in DOMAIN list : list[u] >= list[w]}

\* sort((a, b) => a.conversion_rate - b.conversion_rate)[0]
Cheapest(list) == {u \in DOMAIN list : \A w \in DOMAIN list : list[u] <= list[w]}

\* undefined.sort(), [][0].id and a loop over undefined throw.
Sortable(c) ==
    /\ c.variants # Keep
    /\ \A o \in {Product} \cup c.variants : c.units[o] # Keep /\ DOMAIN c.units[o] # {}

\* The same copy with its base units, for the second save.
Based(c) ==
    {[c EXCEPT !.base = base, !.last = TRUE] :
       base \in {b \in [Owners -> Units \cup {None, Keep}] :
                   \A o \in Owners : IF o = Product \/ o \in c.variants
                                     THEN b[o] \in Cheapest(c.units[o]) ELSE b[o] = c.base[o]}}

\* The second save answers; what cannot be sorted throws.
Ends(c) == c.last \/ ~Sortable(c)

End(r) == /\ at' = [at EXCEPT ![r] = "ended"]
          /\ copy' = [copy EXCEPT ![r] = None]

ChooseBase(r) == /\ at' = [at EXCEPT ![r] = "select"]
                 /\ \E c \in Based(copy[r]) : copy' = [copy EXCEPT ![r] = c]

\* History: what r had to itself, and what it left alone.
ListsLive(c, now) == \A o \in Owners : c.units[o] # Keep => \A u \in DOMAIN c.units[o] : now.unit[u].live

Settled(r, now) ==
    LET c == copy[r]
        units == c.kind = "product" /\ c.last /\ alone[r] /\ ListsLive(c, now)
        categories == IF c.kind = "unit" THEN "categories" \in settled
                      ELSE alone[r] /\ (c.relists \/ "categories" \in settled)
    IN  {k \in {"units", "categories"} : IF k = "units" THEN units ELSE categories}

Write(r) ==
    /\ at[r] = "write"
    /\ Insertable(copy[r], image[r], tables)
    /\ tables' = Saved(copy[r], image[r], tables)
    /\ IF Ends(copy[r]) THEN End(r) ELSE ChooseBase(r)
    /\ image' = [image EXCEPT ![r] = None]
    /\ had' = had \cup (UNION {{o} \X OwnedBy(tables', o) : o \in Owners}) \cup ({Product} \X tables'.joined)
    /\ settled' = Settled(r, tables')
    /\ UNCHANGED alone

\* A statement fails, or the process stops.
Fail(r) ==
    /\ at[r] \in {"select", "write"}
    /\ End(r)
    /\ image' = [image EXCEPT ![r] = None]
    /\ UNCHANGED <<tables, alone, settled, had>>

Next == \E r \in Requests :
            \/ CreateProduct(r) \/ UpdateProduct(r)
            \/ CreateUnit(r) \/ UpdateUnit(r) \/ DeleteUnit(r)
            \/ Select(r) \/ Write(r) \/ Fail(r)

Spec == Init /\ [][Next]_vars

-----------------------------------------------------------------------------
(* Properties.                                                             *)

\* Every column has its type; a unit has one variant at most, and what refers to a product, a
\* variant or a category refers to a row.
TypeOK ==
    /\ tables \in Tables
    /\ at \in [Requests -> {"idle", "select", "write", "ended"}]
    /\ alone \in [Requests -> BOOLEAN]
    /\ settled \subseteq {"units", "categories"}
    /\ \A u \in Units : tables.unit[u] # None => tables.unit[u].owners \subseteq tables.owners
    /\ tables.attached \subseteq tables.owners
    /\ tables.joined \cup tables.category_ids \subseteq tables.categories

\* A base unit is or was a unit of its owner, however requests interleave.  When the last mutation
\* that touched units was an answered createProduct or updateProduct that nobody overlapped, whatever
\* failed before, then the product and each of its variants has one, live and with the lowest rate
\* of all its units (a form that lists a deleted unit excepted).
BaseIsCheapest ==
    /\ \A o \in Owners : tables.base[o] # None => <<o, tables.base[o]>> \in had
    /\ Created(tables) /\ "units" \in settled =>
         \A o \in {Product} \cup tables.attached :
           LET units == {u \in OwnedBy(tables, o) : tables.unit[u].live}
           IN  /\ tables.base[o] \in units
               /\ \A u \in units : tables.unit[tables.base[o]].rate <= tables.unit[u].rate

\* category_ids, which the resolvers read, names only categories the product is or was joined to.
\* Unless the last requests overlapped, it names exactly these, but for those the forms created,
\* even if a request failed half way.
ListsAgree ==
    /\ {Product} \X tables.category_ids \subseteq had
    /\ "categories" \in settled => /\ tables.category_ids \subseteq tables.joined
                                   /\ tables.joined \ tables.category_ids \subseteq NewCategories

=============================================================================
