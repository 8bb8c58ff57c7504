--------------------------- MODULE CatalogueProofs ---------------------------
(***************************************************************************)
(* Theorems about Catalogue for any units, rates, categories and requests  *)
(* and any finite set of variants, however the requests interleave.        *)
(***************************************************************************)
EXTENDS Catalogue, FiniteSetTheorems, TLAPS

-----------------------------------------------------------------------------
(* Rows.                                                                   *)

OneVariant(s) == \A v, w \in s \cap Variants : v = w

Row == [owners : SUBSET Owners, rate : Rates, live : BOOLEAN]

LEMMA OneVariantIs ==
  ASSUME NEW s
  PROVE  Cardinality(s \cap Variants) <= 1 <=> OneVariant(s)
  <1> DEFINE vs == s \cap Variants
  <1>1. IsFiniteSet(vs)
    <2>1. IsFiniteSet(Variants) /\ vs \in SUBSET Variants
      BY CatalogueAssumption
    <2>2. QED
      BY <2>1, FS_Subset
  <1>2. ASSUME Cardinality(vs) <= 1, NEW v \in vs, NEW w \in vs PROVE v = w
    <2>1. IsFiniteSet(vs \ {v}) /\ Cardinality(vs \ {v}) = Cardinality(vs) - 1
      BY <1>1, <1>2, FS_RemoveElement
    <2>2. Cardinality(vs \ {v}) \in Nat /\ Cardinality(vs) \in Nat
      BY <1>1, <2>1, FS_CardinalityType
    <2>3. Cardinality(vs \ {v}) = 0
      BY <1>2, <2>1, <2>2
    <2>4. vs \ {v} = {}
      BY <2>1, <2>3, FS_EmptySet
    <2>5. QED
      BY <1>2, <2>4
  <1>3. ASSUME \A v, w \in vs : v = w PROVE Cardinality(vs) <= 1
    <2>1. CASE vs = {}
      BY <2>1, FS_EmptySet
    <2>2. CASE vs # {}
      <3>1. PICK v \in vs : vs = {v}
        BY <1>3, <2>2
      <3>2. Cardinality(vs) = 1
        BY <3>1, FS_Singleton
      <3>3. QED
        BY <3>2
    <2>3. QED
      BY <2>1, <2>2
  <1>4. QED
    BY <1>2, <1>3 DEF OneVariant

LEMMA UnitIs == \A x : x \in Unit <=> x \in Row /\ OneVariant(x.owners)
  BY OneVariantIs DEF Unit, Row

-----------------------------------------------------------------------------
(* Copies.                                                                 *)

ProductCopies == [kind : {"product"},
                  base : [Owners -> Units \cup {None, Keep}],
                  units : [Owners -> Lists \cup {Keep}],
                  variants : {Keep} \cup SUBSET Variants,
                  categories : {Keep} \cup SUBSET Categories,
                  category_ids : {Keep} \cup SUBSET Categories,
                  relists : BOOLEAN, last : BOOLEAN]

UnitCopies == [kind : {"unit"}, unit : Units, row : Unit, last : {TRUE}]

\* The lists of a form: those of variants that it lists, and a unit in one list only.
Listed(c) ==
    /\ \A v \in Variants : (c.variants = Keep \/ v \notin c.variants) => c.units[v] = Keep
    /\ \A o, p \in Owners : \A u : c.units[o] # Keep /\ c.units[p] # Keep
                                   /\ u \in DOMAIN c.units[o] /\ u \in DOMAIN c.units[p] => o = p

InList(c, o, u) == c.units[o] # Keep /\ u \in DOMAIN c.units[o]

\* The tables refer to rows.
Sound(t) ==
    /\ t \in Tables
    /\ \A u \in Units : t.unit[u] # None => t.unit[u].owners \subseteq t.owners
    /\ t.attached \subseteq t.owners
    /\ t.joined \cup t.category_ids \subseteq t.categories

\* What the cascade makes of a unit.
LEMMA Cascade ==
  ASSUME NEW c \in ProductCopies, Listed(c), NEW read \in Tables, NEW now \in Tables, NEW u \in Units,
         now.unit[u] # None => now.unit[u].owners \subseteq now.owners
  PROVE  LET row == CascadedUnit(c, read, now, u) IN
         /\ row # None => row \in Unit /\ row.owners \subseteq Inserted(c, now)
         /\ row # None <=> now.unit[u] # None \/ \E o \in Owners : InList(c, o, u)
         /\ \A o \in Owners : InList(c, o, u) => o \in row.owners \/ u \in OwnedBy(read, o)
  <1> DEFINE places == {o \in Owners : InList(c, o, u)}
             gained == {o \in places : u \notin OwnedBy(read, o)}
             lost == {o \in Owners \ places : c.units[o] # Keep /\ u \in OwnedBy(read, o)}
                       \cup (IF gained \cap Variants = {} THEN {} ELSE Variants)
             rate == c.units[CHOOSE o \in places : TRUE][u]
             row == CascadedUnit(c, read, now, u)
  <1>1. /\ now.unit[u] # None =>
             row = [now.unit[u] EXCEPT !.owners = (@ \ lost) \cup gained,
                                       !.rate = IF places = {} THEN @ ELSE Column(rate, read.unit[u].rate, @)]
        /\ now.unit[u] = None /\ places # {} => row = [owners |-> gained, rate |-> rate, live |-> TRUE]
        /\ now.unit[u] = None /\ places = {} => row = None
    BY DEF CascadedUnit, InList
  <1>2. \A o, p \in places : o = p
    BY DEF Listed, InList
  <1>3. places # {} => rate \in Rates
    <2>1. \A o \in places : c.units[o] \in Lists /\ u \in DOMAIN c.units[o]
      BY DEF ProductCopies, InList
    <2>2. \A o \in places : c.units[o][u] \in Rates
      BY <2>1 DEF Lists
    <2>3. places # {} => (CHOOSE o \in places : TRUE) \in places
      OBVIOUS
    <2>4. QED
      BY <2>2, <2>3
  <1>4. places \subseteq Inserted(c, now)
    BY CatalogueAssumption DEF Listed, InList, Inserted, Owners
  <1>5. CASE now.unit[u] # None
    <2>1. PICK old : old = now.unit[u]
      OBVIOUS
    <2>2. PICK q : q = (IF places = {} THEN old.rate ELSE Column(rate, read.unit[u].rate, old.rate))
      OBVIOUS
    <2>3. old \in Row /\ OneVariant(old.owners) /\ old.owners \subseteq now.owners
      BY <1>5, <2>1, UnitIs DEF Tables
    <2>4. q \in Rates
      BY <1>3, <2>2, <2>3 DEF Column, Row
    <2>5. PICK os : os = (old.owners \ lost) \cup gained
      OBVIOUS
    <2>51. row = [old EXCEPT !.owners = os, !.rate = q] /\ os \subseteq Owners
      BY <1>1, <1>5, <2>1, <2>2, <2>3, <2>5 DEF Row
    <2>52. [old EXCEPT !.owners = os, !.rate = q] \in Row /\ [old EXCEPT !.owners = os, !.rate = q].owners = os
      BY <2>3, <2>4, <2>51 DEF Row
    <2>6. row \in Row /\ row.owners = (old.owners \ lost) \cup gained
      BY <2>5, <2>51, <2>52
    <2>7. OneVariant(row.owners)
      BY <1>2, <2>3, <2>6 DEF OneVariant
    <2>8. row \in Unit /\ row # None
      BY <2>6, <2>7, UnitIs, CatalogueAssumption
    <2>9. row.owners \subseteq Inserted(c, now)
      BY <1>4, <2>3, <2>6 DEF Inserted
    <2>10. QED
      BY <1>5, <2>6, <2>8, <2>9 DEF InList
  <1>6. CASE now.unit[u] = None /\ places # {}
    <2>1. row = [owners |-> gained, rate |-> rate, live |-> TRUE]
      BY <1>1, <1>6
    <2>2. row \in Row /\ row.owners = gained
      BY <1>3, <1>6, <2>1 DEF Row
    <2>3. OneVariant(row.owners)
      BY <1>2, <2>2 DEF OneVariant
    <2>4. row \in Unit /\ row # None
      BY <2>2, <2>3, UnitIs, CatalogueAssumption
    <2>5. QED
      BY <1>4, <1>6, <2>2, <2>4
  <1>7. CASE now.unit[u] = None /\ places = {}
    BY <1>1, <1>7
  <1>8. QED
    BY <1>5, <1>6, <1>7

\* A save that nobody has overtaken leaves each listed owner with the units of its list.
LEMMA CascadeAlone ==
  ASSUME NEW c \in ProductCopies, Listed(c), NEW now \in Tables, NEW u \in Units,
         now.unit[u] # None => now.unit[u].owners \subseteq now.owners,
         NEW o \in Owners, c.units[o] # Keep
  PROVE  LET row == CascadedUnit(c, now, now, u) IN
         /\ row # None /\ o \in row.owners <=> u \in DOMAIN c.units[o]
         /\ u \in DOMAIN c.units[o] => row.rate = c.units[o][u]
  <1> DEFINE places == {p \in Owners : InList(c, p, u)}
             gained == {p \in places : u \notin OwnedBy(now, p)}
             lost == {p \in Owners \ places : c.units[p] # Keep /\ u \in OwnedBy(now, p)}
                       \cup (IF gained \cap Variants = {} THEN {} ELSE Variants)
             rate == c.units[CHOOSE p \in places : TRUE][u]
             row == CascadedUnit(c, now, now, u)
  <1>1. /\ now.unit[u] # None =>
             row = [now.unit[u] EXCEPT !.owners = (@ \ lost) \cup gained,
                                       !.rate = IF places = {} THEN @ ELSE Column(rate, now.unit[u].rate, @)]
        /\ now.unit[u] = None /\ places # {} => row = [owners |-> gained, rate |-> rate, live |-> TRUE]
        /\ now.unit[u] = None /\ places = {} => row = None
    BY DEF CascadedUnit, InList
  <1>2. o \in places <=> u \in DOMAIN c.units[o]
    BY DEF InList
  <1>3. o \in places => places = {o}
    BY DEF Listed, InList
  <1>4. o \in places => rate = c.units[o][u] /\ rate # Keep
    <2>1. o \in places => rate = c.units[o][u]
      BY <1>3
    <2>2. o \in places => c.units[o] \in Lists
      BY DEF ProductCopies, InList
    <2>3. o \in places => c.units[o][u] \in Rates
      BY <1>2, <2>2 DEF Lists
    <2>4. QED
      BY <2>1, <2>3, CatalogueAssumption
  <1>5. CASE now.unit[u] # None
    <2>1. PICK old : old = now.unit[u]
      OBVIOUS
    <2>2. PICK q : q = (IF places = {} THEN old.rate ELSE Column(rate, old.rate, old.rate))
      OBVIOUS
    <2>3. old \in Unit /\ old \in Row /\ OneVariant(old.owners)
      BY <1>5, <2>1, UnitIs DEF Tables
    <2>4. row = [old EXCEPT !.owners = (old.owners \ lost) \cup gained, !.rate = q]
      BY <1>1, <1>5, <2>1, <2>2
    <2>5. row.owners = (old.owners \ lost) \cup gained /\ row.rate = q
      BY <2>3, <2>4 DEF Row
    <2>6. row # None
      BY <1>5, Cascade
    <2>7. u \in OwnedBy(now, o) <=> o \in old.owners
      BY <1>5, <2>1 DEF OwnedBy
    <2>8. o \in row.owners <=> o \in places
      BY <1>3, <2>5, <2>7
    <2>9. o \in places => row.rate = c.units[o][u]
      BY <1>4, <2>2, <2>5 DEF Column
    <2>10. QED
      BY <1>2, <2>6, <2>8, <2>9
  <1>6. CASE now.unit[u] = None /\ places # {}
    <2>1. row = [owners |-> gained, rate |-> rate, live |-> TRUE]
      BY <1>1, <1>6
    <2>2. u \notin OwnedBy(now, o)
      BY <1>6 DEF OwnedBy
    <2>3. row.owners = gained /\ row.rate = rate
      BY <2>1
    <2>4. o \in row.owners <=> o \in places
      BY <2>2, <2>3
    <2>5. o \in places => row # None
      BY Cascade
    <2>6. QED
      BY <1>2, <1>4, <2>3, <2>4, <2>5
  <1>7. CASE now.unit[u] = None /\ places = {}
    BY <1>1, <1>2, <1>7
  <1>8. QED
    BY <1>5, <1>6, <1>7

-----------------------------------------------------------------------------
(* What a save leaves behind.                                              *)

\* Rows stay, and so do categories.
Grows(t, now) ==
    /\ now.owners \subseteq t.owners /\ now.categories \subseteq t.categories
    /\ \A u \in Units : now.unit[u] # None => t.unit[u] # None

LEMMA SavedProductIs ==
  ASSUME NEW c \in ProductCopies, NEW read, NEW now
  PROVE  LET t == SavedProduct(c, read, now) IN
         /\ t.owners = Inserted(c, now)
         /\ t.attached = Relation(c.variants, read.attached, now.attached)
         /\ t.base = [o \in Owners |-> Column(c.base[o], read.base[o], now.base[o])]
         /\ t.unit = [u \in Units |-> CascadedUnit(c, read, now, u)]
         /\ t.category_ids = Column(c.category_ids, read.category_ids, now.category_ids)
         /\ t.joined = Relation(c.categories, read.joined, now.joined)
         /\ t.categories = now.categories \cup (IF c.categories = Keep THEN {} ELSE c.categories)
  BY DEF SavedProduct

LEMMA SavedProductSound ==
  ASSUME NEW c \in ProductCopies, Listed(c), NEW read \in Tables, NEW now, Sound(now),
         c.category_ids # Keep => c.category_ids \subseteq now.categories
  PROVE  Sound(SavedProduct(c, read, now)) /\ Grows(SavedProduct(c, read, now), now)
  <1> PICK t : t = SavedProduct(c, read, now)
    OBVIOUS
  <1>a. /\ t.owners = Inserted(c, now)
        /\ t.attached = Relation(c.variants, read.attached, now.attached)
        /\ t.base = [o \in Owners |-> Column(c.base[o], read.base[o], now.base[o])]
        /\ t.unit = [u \in Units |-> CascadedUnit(c, read, now, u)]
        /\ t.category_ids = Column(c.category_ids, read.category_ids, now.category_ids)
        /\ t.joined = Relation(c.categories, read.joined, now.joined)
        /\ t.categories = now.categories \cup (IF c.categories = Keep THEN {} ELSE c.categories)
    BY SavedProductIs
  <1>0. /\ c.variants = Keep \/ c.variants \subseteq Variants
        /\ c.categories = Keep \/ c.categories \subseteq Categories
        /\ c.category_ids = Keep \/ c.category_ids \subseteq Categories
        /\ \A o \in Owners : c.base[o] \in Units \cup {None, Keep}
    BY DEF ProductCopies
  <1>1. /\ now \in Tables
        /\ now.owners \subseteq Owners /\ now.attached \subseteq Variants
        /\ \A o \in Owners : now.base[o] \in Units \cup {None}
        /\ now.category_ids \subseteq Categories /\ now.joined \subseteq Categories
        /\ now.categories \subseteq Categories
        /\ now.attached \subseteq now.owners
        /\ now.joined \cup now.category_ids \subseteq now.categories
    BY DEF Sound, Tables
  <1>2. t.owners = Inserted(c, now) /\ t.owners \subseteq Owners /\ now.owners \subseteq t.owners
    BY <1>0, <1>1, <1>a DEF Inserted, Owners
  <1>3. t.attached \subseteq Variants /\ t.attached \subseteq t.owners
    BY <1>0, <1>1, <1>2, <1>a DEF Relation, Inserted
  <1>4. t.base \in [Owners -> Units \cup {None}]
    <2>1. \A o \in Owners : Column(c.base[o], read.base[o], now.base[o]) \in Units \cup {None}
      BY <1>0, <1>1 DEF Column
    <2>2. QED
      BY <2>1, <1>a
  <1>5. /\ t.unit \in [Units -> Unit \cup {None}]
        /\ \A u \in Units : t.unit[u] # None => t.unit[u].owners \subseteq t.owners
        /\ \A u \in Units : now.unit[u] # None => t.unit[u] # None
    <2>1. \A u \in Units :
            /\ CascadedUnit(c, read, now, u) # None =>
                 /\ CascadedUnit(c, read, now, u) \in Unit
                 /\ CascadedUnit(c, read, now, u).owners \subseteq Inserted(c, now)
            /\ now.unit[u] # None => CascadedUnit(c, read, now, u) # None
      BY <1>1, Cascade DEF Sound
    <2>2. t.unit = [u \in Units |-> CascadedUnit(c, read, now, u)]
      BY <1>a
    <2>3. QED
      BY <1>2, <2>1, <2>2
  <1>6. /\ t.joined \subseteq Categories /\ t.category_ids \subseteq Categories /\ t.categories \subseteq Categories
        /\ t.joined \cup t.category_ids \subseteq t.categories /\ now.categories \subseteq t.categories
    BY <1>0, <1>1, <1>a DEF Relation, Column
  <1>7. t \in Tables
    <2>1. t = [owners |-> t.owners, attached |-> t.attached, base |-> t.base, unit |-> t.unit,
               category_ids |-> t.category_ids, joined |-> t.joined, categories |-> t.categories]
      BY DEF SavedProduct
    <2>2. QED
      BY <1>2, <1>3, <1>4, <1>5, <1>6, <2>1 DEF Tables
  <1>8. QED
    BY <1>2, <1>3, <1>5, <1>6, <1>7 DEF Sound, Grows

LEMMA SavedUnitIs ==
  ASSUME NEW c \in UnitCopies, NEW read \in Tables, NEW now, Sound(now),
         c.row.owners \subseteq now.owners,
         read.unit[c.unit] # None => now.unit[c.unit] # None
  PROVE  \E row \in Unit :
            /\ SavedUnit(c, read, now) = [now EXCEPT !.unit[c.unit] = row]
            /\ row.owners \subseteq now.owners
  <1> DEFINE part(ps) == Column(c.row.owners \cap ps, read.unit[c.unit].owners \cap ps,
                                now.unit[c.unit].owners \cap ps)
             rate == Column(c.row.rate, read.unit[c.unit].rate, now.unit[c.unit].rate)
             live == Column(c.row.live, read.unit[c.unit].live, now.unit[c.unit].live)
  <1>1. c.row \in Unit /\ c.row \in Row /\ OneVariant(c.row.owners) /\ c.unit \in Units
    BY UnitIs DEF UnitCopies
  <1>2. CASE read.unit[c.unit] = None
    BY <1>1, <1>2 DEF SavedUnit
  <1>3. CASE read.unit[c.unit] # None
    <2>1. PICK old : old = now.unit[c.unit]
      OBVIOUS
    <2>2. old \in Row /\ OneVariant(old.owners) /\ old.owners \subseteq now.owners
      BY <1>1, <1>3, <2>1, UnitIs DEF Sound, Tables
    <2>3. PICK P, V : P = part({Product}) /\ V = part(Variants)
      OBVIOUS
    <2>4. /\ P \subseteq {Product} /\ P \subseteq now.owners
          /\ V \subseteq Variants /\ V \subseteq now.owners
          /\ OneVariant(V)
      BY <2>1, <2>2, <2>3, <1>1 DEF Column, OneVariant
    <2>5. PICK q, l : q = rate /\ l = live
      OBVIOUS
    <2>6. q \in Rates /\ l \in BOOLEAN
      BY <1>1, <2>1, <2>2, <2>5 DEF Column, Row
    <2>7. PICK row : row = [owners |-> P \cup V, rate |-> q, live |-> l]
      OBVIOUS
    <2>8. SavedUnit(c, read, now) = [now EXCEPT !.unit[c.unit] = row]
      BY <1>3, <2>3, <2>5, <2>7 DEF SavedUnit
    <2>9. row \in Row /\ row.owners = P \cup V
      BY <2>4, <2>6, <2>7 DEF Row, Owners
    <2>10. OneVariant(row.owners)
      BY <2>4, <2>9, CatalogueAssumption DEF OneVariant
    <2>11. QED
      BY <2>4, <2>8, <2>9, <2>10, UnitIs
  <1>4. QED
    BY <1>2, <1>3

LEMMA SavedUnitSound ==
  ASSUME NEW c \in UnitCopies, NEW read \in Tables, NEW now, Sound(now),
         c.row.owners \subseteq now.owners,
         read.unit[c.unit] # None => now.unit[c.unit] # None
  PROVE  LET t == SavedUnit(c, read, now) IN
         /\ Sound(t) /\ Grows(t, now)
         /\ t.owners = now.owners /\ t.base = now.base
         /\ t.joined = now.joined /\ t.category_ids = now.category_ids /\ t.categories = now.categories
  <1>1. PICK row \in Unit : /\ SavedUnit(c, read, now) = [now EXCEPT !.unit[c.unit] = row]
                            /\ row.owners \subseteq now.owners
    BY SavedUnitIs
  <1>2. c.unit \in Units /\ row # None /\ now \in Tables
    BY CatalogueAssumption DEF UnitCopies, Sound
  <1>3. PICK t : t = [now EXCEPT !.unit[c.unit] = row]
    OBVIOUS
  <1>4. /\ t.owners = now.owners /\ t.base = now.base /\ t.attached = now.attached
        /\ t.joined = now.joined /\ t.category_ids = now.category_ids /\ t.categories = now.categories
        /\ t.unit = [now.unit EXCEPT ![c.unit] = row]
        /\ t \in Tables
    BY <1>2, <1>3 DEF Tables
  <1>5. /\ t.unit[c.unit] = row
        /\ \A u \in Units : u # c.unit => t.unit[u] = now.unit[u]
    BY <1>2, <1>4 DEF Tables
  <1>6. Sound(t) /\ Grows(t, now)
    BY <1>1, <1>2, <1>4, <1>5 DEF Sound, Grows
  <1>7. QED
    BY <1>1, <1>3, <1>4, <1>6

-----------------------------------------------------------------------------
(* However requests interleave: types, references, and where base units    *)
(* and categories come from.                                               *)

Controls ==
    /\ at \in [Requests -> {"idle", "select", "write", "ended"}]
    /\ alone \in [Requests -> BOOLEAN]
    /\ settled \subseteq {"units", "categories"}
    /\ DOMAIN copy = Requests /\ DOMAIN image = Requests

\* had holds what the tables show.
Seen(t) ==
    /\ \A x \in t.joined : <<Product, x>> \in had
    /\ \A o \in Owners : \A u \in OwnedBy(t, o) : <<o, u>> \in had

\* A column of the tables names what had holds.
Justified ==
    /\ \A x \in tables.category_ids : <<Product, x>> \in had
    /\ \A o \in Owners : tables.base[o] # None => <<o, tables.base[o]>> \in had

\* The categories of which a form knows the ids were there from the start.
OldCategories == Categories \ NewCategories \subseteq tables.categories

\* Before the product there are no lists.
Empty == ~Created(tables) => tables.joined = {} /\ tables.category_ids = {}

\* A copy's ids come from rows or are in the list that is saved with them.
IdsKnown(c) ==
    c.category_ids # Keep =>
        /\ c.category_ids \subseteq tables.categories
        /\ \A x \in c.category_ids : <<Product, x>> \in had \/ (c.categories # Keep /\ x \in c.categories)

BaseKnown(c) == \A o \in Owners : c.base[o] \notin {None, Keep} => <<o, c.base[o]>> \in had

\* The ids in a copy whose form lists categories are those of the list, but for new ones.
Relisted(c) ==
    c.relists => \/ c.categories = Keep /\ c.category_ids = Keep
                 \/ /\ c.categories # Keep /\ c.category_ids # Keep
                    /\ c.category_ids \subseteq c.categories
                    /\ c.categories \ c.category_ids \subseteq NewCategories

\* The copy of the second save has its base units.
BasesChosen(c) ==
    c.last => Sortable(c) /\ \A o \in {Product} \cup c.variants : c.base[o] \in Cheapest(c.units[o])

ProductKnown(c) == /\ c \in ProductCopies /\ Listed(c)
                   /\ IdsKnown(c) /\ BaseKnown(c) /\ Relisted(c) /\ BasesChosen(c)

UnitKnown(c) == c \in UnitCopies /\ c.row.owners \subseteq tables.owners

CopyKnown(r) == at[r] \in {"select", "write"} => ProductKnown(copy[r]) \/ UnitKnown(copy[r])

ImageKnown(r) == at[r] = "write" =>
    /\ image[r] \in Tables
    /\ Seen(image[r])
    /\ \A u \in Units : image[r].unit[u] # None => tables.unit[u] # None

Rows == Sound(tables) /\ Seen(tables) /\ Justified /\ OldCategories /\ Empty

IInv == Controls /\ Rows /\ \A r \in Requests : CopyKnown(r) /\ ImageKnown(r)

LEMMA KindsDiffer == \A c \in ProductCopies : c.kind = "product" /\ c \notin UnitCopies
  BY DEF ProductCopies, UnitCopies

LEMMA UnitKind == \A c \in UnitCopies : c.kind = "unit"
  BY DEF UnitCopies

\* What is known stays known when the tables and had grow.
LEMMA KnownStaysKnown ==
  ASSUME Controls, Grows(tables', tables), had \subseteq had', NEW r \in Requests, CopyKnown(r), ImageKnown(r),
         at'[r] = at[r], copy'[r] = copy[r], image'[r] = image[r]
  PROVE  CopyKnown(r)' /\ ImageKnown(r)'
  <1>1. ASSUME NEW c, ProductKnown(c) PROVE ProductKnown(c)'
    BY <1>1 DEF ProductKnown, IdsKnown, BaseKnown, Relisted, BasesChosen, Listed, Grows
  <1>2. ASSUME NEW c, UnitKnown(c) PROVE UnitKnown(c)'
    BY <1>2 DEF UnitKnown, Grows
  <1>3. CopyKnown(r)'
    <2>1. PICK c : c = copy[r]
      OBVIOUS
    <2>2. CASE at[r] \notin {"select", "write"}
      BY <2>2 DEF CopyKnown
    <2>3. CASE ProductKnown(c)
      BY <1>1, <2>1, <2>3 DEF CopyKnown, ProductKnown, IdsKnown, BaseKnown
    <2>4. CASE UnitKnown(c)
      BY <1>2, <2>1, <2>4 DEF CopyKnown, UnitKnown
    <2>5. QED
      BY <2>1, <2>2, <2>3, <2>4 DEF CopyKnown
  <1>4. ImageKnown(r)'
    BY DEF ImageKnown, Seen, Grows
  <1>5. QED
    BY <1>3, <1>4

\* The copies that createProduct and updateProduct start with.
LEMMA FormIs ==
  ASSUME NEW form \in Forms
  PROVE  /\ form.units \in [Owners -> Lists \cup {Keep}]
         /\ form.variants = Keep \/ form.variants \in SUBSET Variants
         /\ form.categories = Keep \/ form.categories \in SUBSET Categories
         /\ \A v \in Variants : (form.variants = Keep \/ v \notin form.variants) => form.units[v] = Keep
         /\ \A o, p \in Owners : \A u : form.units[o] # Keep /\ form.units[p] # Keep
                                        /\ u \in DOMAIN form.units[o] /\ u \in DOMAIN form.units[p] => o = p
  <1>1. /\ form \in [units : [Owners -> Lists \cup {Keep}],
                     variants : {Keep} \cup SUBSET Variants,
                     categories : {Keep} \cup SUBSET Categories]
        /\ \A v \in Variants : (form.variants = Keep \/ v \notin form.variants) => form.units[v] = Keep
        /\ \A o, p \in Owners : o # p /\ form.units[o] # Keep /\ form.units[p] # Keep
                                  => DOMAIN form.units[o] \cap DOMAIN form.units[p] = {}
    BY DEF Forms
  <1>2. QED
    BY <1>1

LEMMA IdsIs ==
  ASSUME NEW form \in Forms, OldCategories
  PROVE  /\ form.categories = Keep => Ids(form) = Keep
         /\ form.categories # Keep =>
              /\ Ids(form) \in SUBSET Categories /\ Ids(form) # Keep
              /\ Ids(form) \subseteq form.categories /\ Ids(form) \subseteq tables.categories
              /\ form.categories \ Ids(form) \subseteq NewCategories
  BY FormIs, CatalogueAssumption DEF Ids, OldCategories

LEMMA NewCopyKnown ==
  ASSUME NEW form \in Forms, OldCategories
  PROVE  /\ ProductKnown(NewCopy(form)) /\ NewCopy(form).relists /\ NewCopy(form).kind = "product"
  <1>1. PICK c : c = NewCopy(form)
    OBVIOUS
  <1>2. PICK ids : ids = Ids(form)
    OBVIOUS
  <1>3. c = [kind |-> "product", base |-> [o \in Owners |-> Keep], units |-> form.units, variants |-> form.variants,
             categories |-> form.categories, category_ids |-> ids, relists |-> TRUE, last |-> FALSE]
    BY <1>1, <1>2 DEF NewCopy
  <1>4. c \in ProductCopies
    BY <1>2, <1>3, FormIs, IdsIs DEF ProductCopies
  <1>5. Listed(c)
    BY <1>3, FormIs DEF Listed
  <1>6. IdsKnown(c) /\ Relisted(c)
    BY <1>2, <1>3, IdsIs DEF IdsKnown, Relisted
  <1>7. BaseKnown(c) /\ BasesChosen(c)
    BY <1>3 DEF BaseKnown, BasesChosen
  <1>8. QED
    BY <1>1, <1>3, <1>4, <1>5, <1>6, <1>7 DEF ProductKnown

LEMMA LoadedCopyKnown ==
  ASSUME NEW form \in Forms, Rows
  PROVE  LET c == LoadedCopy(form) IN
         /\ ProductKnown(c) /\ c.kind = "product"
         /\ c.relists => c.categories # Keep
         /\ ~c.relists => c.categories = tables.joined /\ c.category_ids = Keep
  <1>0. /\ tables \in Tables /\ Sound(tables) /\ Seen(tables) /\ Justified /\ OldCategories
        /\ tables.attached \in SUBSET Variants /\ tables.joined \in SUBSET Categories
        /\ tables.category_ids \in SUBSET Categories
        /\ \A o \in Owners : tables.base[o] \in Units \cup {None}
    BY DEF Rows, Sound, Tables
  <1>1. PICK c : c = LoadedCopy(form)
    OBVIOUS
  <1>2. PICK ids : ids = Ids(form)
    OBVIOUS
  <1>3. PICK vs, cs, base :
          /\ vs = IF form.variants = Keep THEN tables.attached ELSE form.variants
          /\ cs = IF form.categories = Keep THEN tables.joined ELSE form.categories
          /\ base = [o \in Owners |-> IF o = Product \/ (form.variants = Keep /\ o \in tables.attached)
                                      THEN tables.base[o] ELSE Keep]
    OBVIOUS
  <1>4. c = [kind |-> "product", base |-> base, units |-> form.units, variants |-> vs,
             categories |-> cs, category_ids |-> ids, relists |-> form.categories # Keep, last |-> FALSE]
    BY <1>1, <1>2, <1>3 DEF LoadedCopy
  <1>5. vs \in SUBSET Variants /\ cs \in SUBSET Categories /\ ids \in {Keep} \cup SUBSET Categories
    BY <1>0, <1>2, <1>3, FormIs, IdsIs
  <1>6. base \in [Owners -> Units \cup {None, Keep}]
    BY <1>0, <1>3
  <1>7. c \in ProductCopies
    BY <1>4, <1>5, <1>6, FormIs DEF ProductCopies
  <1>8. Listed(c)
    <2>1. \A v \in Variants : v \notin vs => form.units[v] = Keep
      BY <1>3, FormIs
    <2>2. c.units = form.units /\ c.variants = vs
      BY <1>4
    <2>3. vs # Keep
      BY <1>5, CatalogueAssumption
    <2>4. \A o, p \in Owners : \A u : form.units[o] # Keep /\ form.units[p] # Keep
                                      /\ u \in DOMAIN form.units[o] /\ u \in DOMAIN form.units[p] => o = p
      BY FormIs
    <2>5. QED
      BY <2>1, <2>2, <2>3, <2>4 DEF Listed
  <1>9. IdsKnown(c)
    <2>1. ids # Keep => ids \subseteq tables.categories
      BY <1>0, <1>2, <1>3, IdsIs DEF Sound
    <2>2. cs # Keep
      BY <1>5, CatalogueAssumption
    <2>3. ids # Keep => \A x \in ids : <<Product, x>> \in had \/ x \in cs
      BY <1>0, <1>2, <1>3, IdsIs DEF Justified
    <2>4. QED
      BY <1>4, <2>1, <2>2, <2>3 DEF IdsKnown
  <1>10. Relisted(c)
    BY <1>0, <1>2, <1>3, <1>4, IdsIs DEF Relisted
  <1>11. BaseKnown(c) /\ BasesChosen(c)
    <2>1. \A o \in Owners : base[o] \in {tables.base[o], Keep}
      BY <1>3
    <2>2. QED
      BY <1>0, <1>4, <2>1 DEF BaseKnown, BasesChosen, Justified
  <1>12. ~c.relists => c.categories = tables.joined /\ c.category_ids = Keep
    BY <1>0, <1>2, <1>3, <1>4, IdsIs
  <1>13. c.kind = "product" /\ (c.relists => c.categories # Keep)
    BY <1>3, <1>4
  <1>14. ProductKnown(c)
    BY <1>7, <1>8, <1>9, <1>10, <1>11 DEF ProductKnown
  <1>15. QED
    BY <1>1, <1>12, <1>13, <1>14

\* What is in flight is one or the other.
LEMMA Saves ==
  ASSUME IInv, NEW r \in Requests, Write(r)
  PROVE  /\ \/ ProductKnown(copy[r]) /\ tables' = SavedProduct(copy[r], image[r], tables)
            \/ UnitKnown(copy[r]) /\ tables' = SavedUnit(copy[r], image[r], tables)
         /\ Sound(tables)' /\ Grows(tables', tables)
  <1>1. at[r] = "write" /\ tables' = Saved(copy[r], image[r], tables)
    BY DEF Write
  <1>2. /\ image[r] \in Tables
        /\ \A u \in Units : image[r].unit[u] # None => tables.unit[u] # None
        /\ ProductKnown(copy[r]) \/ UnitKnown(copy[r])
        /\ Sound(tables)
    BY <1>1 DEF IInv, CopyKnown, ImageKnown, Rows
  <1>3. CASE ProductKnown(copy[r])
    <2>1. copy[r] \in ProductCopies /\ Listed(copy[r])
          /\ (copy[r].category_ids # Keep => copy[r].category_ids \subseteq tables.categories)
      BY <1>3 DEF ProductKnown, IdsKnown
    <2>2. tables' = SavedProduct(copy[r], image[r], tables)
      BY <1>1, <2>1, KindsDiffer DEF Saved
    <2>3. Sound(SavedProduct(copy[r], image[r], tables)) /\ Grows(SavedProduct(copy[r], image[r], tables), tables)
      BY <1>2, <2>1, SavedProductSound
    <2>4. QED
      BY <1>3, <2>2, <2>3 DEF Sound
  <1>4. CASE UnitKnown(copy[r])
    <2>1. copy[r] \in UnitCopies /\ copy[r].unit \in Units /\ copy[r].row.owners \subseteq tables.owners
      BY <1>4 DEF UnitKnown, UnitCopies
    <2>2. tables' = SavedUnit(copy[r], image[r], tables)
      BY <1>1, <2>1, UnitKind DEF Saved
    <2>3. Sound(SavedUnit(copy[r], image[r], tables)) /\ Grows(SavedUnit(copy[r], image[r], tables), tables)
      BY <1>2, <2>1, SavedUnitSound
    <2>4. QED
      BY <1>4, <2>2, <2>3 DEF Sound
  <1>5. QED
    BY <1>2, <1>3, <1>4

LEMMA HadGrows ==
  ASSUME NEW r \in Requests, Write(r)
  PROVE  had \subseteq had' /\ Seen(tables)'
  <1>1. had' = had \cup (UNION {{o} \X OwnedBy(tables', o) : o \in Owners}) \cup ({Product} \X tables'.joined)
    BY DEF Write
  <1>2. ASSUME NEW o \in Owners, NEW u \in OwnedBy(tables', o) PROVE <<o, u>> \in had'
    <2>1. <<o, u>> \in {o} \X OwnedBy(tables', o)
      OBVIOUS
    <2>2. <<o, u>> \in UNION {{p} \X OwnedBy(tables', p) : p \in Owners}
      BY <2>1
    <2>3. QED
      BY <1>1, <2>2
  <1>3. QED
    BY <1>1, <1>2 DEF Seen, OwnedBy

LEMMA WriteRows ==
  ASSUME IInv, NEW r \in Requests, Write(r)
  PROVE  Rows'
  <1>0. /\ Sound(tables)' /\ Grows(tables', tables) /\ Seen(tables)' /\ had \subseteq had'
        /\ Rows /\ at[r] = "write"
    BY Saves, HadGrows DEF IInv, Write
  <1>1. Seen(image[r]) /\ image[r] \in Tables
    BY <1>0 DEF IInv, ImageKnown
  <1>2. OldCategories'
    BY <1>0 DEF Rows, OldCategories, Grows
  <1>3. CASE ProductKnown(copy[r]) /\ tables' = SavedProduct(copy[r], image[r], tables)
    <2>1. PICK c : c = copy[r]
      OBVIOUS
    <2>2. c \in ProductCopies
      BY <1>3, <2>1 DEF ProductKnown
    <2>3. /\ tables'.owners = Inserted(c, tables)
          /\ tables'.base = [o \in Owners |-> Column(c.base[o], image[r].base[o], tables.base[o])]
          /\ tables'.category_ids = Column(c.category_ids, image[r].category_ids, tables.category_ids)
          /\ tables'.joined = Relation(c.categories, image[r].joined, tables.joined)
      BY <1>3, <2>1 DEF SavedProduct
    <2>4. \A x \in tables'.category_ids : <<Product, x>> \in had'
      <3>1. CASE tables'.category_ids = tables.category_ids
        BY <1>0, <3>1 DEF Rows, Justified
      <3>2. CASE tables'.category_ids = c.category_ids /\ c.category_ids # Keep
        <4>1. \A x \in c.category_ids : <<Product, x>> \in had \/ (c.categories # Keep /\ x \in c.categories)
          BY <1>3, <2>1, <3>2 DEF ProductKnown, IdsKnown
        <4>2. c.categories # Keep => \A x \in c.categories : x \in image[r].joined \/ x \in tables'.joined
          BY <2>3 DEF Relation
        <4>3. QED
          BY <1>0, <1>1, <3>2, <4>1, <4>2 DEF Seen
      <3>3. QED
        BY <2>3, <3>1, <3>2 DEF Column
    <2>5. \A o \in Owners : tables'.base[o] # None => <<o, tables'.base[o]>> \in had'
      <3> TAKE o \in Owners
      <3>1. tables'.base[o] = tables.base[o] \/ (tables'.base[o] = c.base[o] /\ c.base[o] # Keep)
        BY <2>3 DEF Column
      <3>2. QED
        BY <1>0, <1>3, <2>1, <3>1 DEF ProductKnown, BaseKnown, Rows, Justified
    <2>6. Created(tables)'
      BY <2>3 DEF Created, Inserted
    <2>7. QED
      BY <1>0, <1>2, <2>4, <2>5, <2>6 DEF Rows, Justified, Empty
  <1>4. CASE UnitKnown(copy[r]) /\ tables' = SavedUnit(copy[r], image[r], tables)
    <2>1. /\ copy[r] \in UnitCopies /\ copy[r].unit \in Units /\ copy[r].row.owners \subseteq tables.owners
          /\ image[r].unit[copy[r].unit] # None => tables.unit[copy[r].unit] # None
          /\ Sound(tables)
      BY <1>0, <1>4 DEF UnitKnown, UnitCopies, IInv, ImageKnown, Rows
    <2>2. /\ tables'.owners = tables.owners /\ tables'.base = tables.base
          /\ tables'.joined = tables.joined /\ tables'.category_ids = tables.category_ids
      BY <1>1, <1>4, <2>1, SavedUnitSound
    <2>3. QED
      BY <1>0, <1>2, <2>2 DEF Rows, Justified, Empty, Created
  <1>5. QED
    BY <1>3, <1>4, Saves

\* The second copy of a save.
LEMMA BasedKnown ==
  ASSUME IInv, NEW r \in Requests, Write(r), ~Ends(copy[r]), NEW b \in Based(copy[r])
  PROVE  /\ ProductKnown(copy[r]) /\ ProductKnown(b)'
         /\ b.kind = "product" /\ b.last
         /\ b.categories = copy[r].categories /\ b.category_ids = copy[r].category_ids
         /\ b.relists = copy[r].relists
  <1>1. PICK c : c = copy[r]
    OBVIOUS
  <1>2. ProductKnown(c) /\ tables' = SavedProduct(c, image[r], tables) /\ ~c.last /\ Sortable(c)
    BY <1>1, Saves DEF Ends, UnitKnown, UnitCopies
  <1>3. /\ c \in ProductCopies /\ Listed(c) /\ Sound(tables) /\ image[r] \in Tables /\ Seen(image[r])
        /\ at[r] = "write"
    BY <1>2 DEF ProductKnown, IInv, ImageKnown, Rows, Write
  <1>35. b \in Based(c)
    BY <1>1
  <1>4. PICK base \in [Owners -> Units \cup {None, Keep}] :
          /\ b = [c EXCEPT !.base = base, !.last = TRUE]
          /\ \A o \in Owners : IF o = Product \/ o \in c.variants
                               THEN base[o] \in Cheapest(c.units[o]) ELSE base[o] = c.base[o]
    BY <1>35, Zenon DEF Based
  <1>5. /\ b \in ProductCopies /\ b.base = base /\ b.last = TRUE
        /\ b.units = c.units /\ b.variants = c.variants /\ b.kind = "product"
        /\ b.categories = c.categories /\ b.category_ids = c.category_ids /\ b.relists = c.relists
    BY <1>3, <1>4 DEF ProductCopies
  <1>6. c.variants # Keep /\ c.variants \subseteq Variants
    BY <1>2, <1>3 DEF Sortable, ProductCopies
  <1>7. \A o \in {Product} \cup c.variants : base[o] \in Cheapest(c.units[o])
    BY <1>4, <1>6 DEF Owners
  <1>8. Listed(b) /\ BasesChosen(b)
    BY <1>2, <1>3, <1>5, <1>7 DEF Listed, BasesChosen, Sortable
  <1>9. had \subseteq had' /\ Seen(tables)' /\ Grows(tables', tables)
    BY HadGrows, Saves
  <1>10. IdsKnown(b)' /\ Relisted(b)
    BY <1>2, <1>5, <1>9 DEF ProductKnown, IdsKnown, Relisted, Grows
  <1>11. BaseKnown(b)'
    <2>1. SUFFICES ASSUME NEW o \in Owners, base[o] \notin {None, Keep} PROVE <<o, base[o]>> \in had'
      BY <1>5 DEF BaseKnown
    <2>2. CASE o = Product \/ o \in c.variants
      <3>1. c.units[o] # Keep /\ base[o] \in DOMAIN c.units[o]
        BY <1>2, <1>7, <2>2 DEF Sortable, Cheapest
      <3>2. InList(c, o, base[o]) /\ base[o] \in Units
        BY <1>4, <2>1, <3>1 DEF InList
      <3>3. PICK u \in Units : u = base[o]
        BY <3>2
      <3>4. tables'.unit = [w \in Units |-> CascadedUnit(c, image[r], tables, w)]
        BY <1>2 DEF SavedProduct
      <3>5. tables'.unit[u] # None /\ (o \in tables'.unit[u].owners \/ u \in OwnedBy(image[r], o))
        BY <1>3, <3>2, <3>3, <3>4, Cascade DEF Sound
      <3>6. u \in OwnedBy(tables', o) \/ u \in OwnedBy(image[r], o)
        BY <3>5 DEF OwnedBy
      <3>7. QED
        BY <1>3, <1>9, <3>3, <3>6 DEF Seen
    <2>3. CASE ~(o = Product \/ o \in c.variants)
      BY <1>2, <1>4, <1>9, <2>1, <2>3 DEF ProductKnown, BaseKnown
    <2>4. QED
      BY <2>2, <2>3
  <1>12. QED
    BY <1>1, <1>2, <1>5, <1>8, <1>10, <1>11 DEF ProductKnown

Acts(r) == \/ CreateProduct(r) \/ UpdateProduct(r)
           \/ CreateUnit(r) \/ UpdateUnit(r) \/ DeleteUnit(r)
           \/ Select(r) \/ Write(r) \/ Fail(r)

LEMMA NextActs == [Next]_vars => UNCHANGED vars \/ \E r \in Requests : Acts(r)
  BY DEF Next, Acts

\* How a request starts.
LEMMA Starts ==
  ASSUME Controls, Rows, NEW r \in Requests,
         CreateProduct(r) \/ UpdateProduct(r) \/ CreateUnit(r) \/ UpdateUnit(r) \/ DeleteUnit(r)
  PROVE  \E c, place :
           /\ Start(r, c, place) /\ at[r] = "idle"
           /\ (ProductKnown(c) /\ c.kind = "product") \/ (UnitKnown(c) /\ c.kind = "unit")
           /\ c.kind = "product" =>
                IF c.relists THEN c.categories = Keep => tables.joined = {} /\ tables.category_ids = {}
                ELSE c.categories = tables.joined /\ c.category_ids = Keep
           /\ \/ place = "write" /\ image' = [image EXCEPT ![r] = tables]
              \/ place = "select" /\ image' = image
  <1>0. OldCategories /\ Empty /\ tables \in Tables
    BY DEF Rows, Sound
  <1>1. CASE CreateProduct(r)
    <2>1. PICK form \in Forms : Start(r, NewCopy(form), "write")
      BY <1>1 DEF CreateProduct
    <2>2. PICK c : c = NewCopy(form)
      OBVIOUS
    <2>3. ProductKnown(c) /\ c.relists /\ c.kind = "product"
      BY <1>0, <2>2, NewCopyKnown
    <2>4. tables.joined = {} /\ tables.category_ids = {} /\ at[r] = "idle" /\ image' = [image EXCEPT ![r] = tables]
      BY <1>0, <1>1 DEF CreateProduct, Empty
    <2>5. QED
      BY <2>1, <2>2, <2>3, <2>4
  <1>2. CASE UpdateProduct(r)
    <2>1. PICK form \in Forms : Start(r, LoadedCopy(form), "select")
      BY <1>2 DEF UpdateProduct
    <2>2. PICK c : c = LoadedCopy(form)
      OBVIOUS
    <2>3. /\ ProductKnown(c) /\ c.kind = "product"
          /\ c.relists => c.categories # Keep
          /\ ~c.relists => c.categories = tables.joined /\ c.category_ids = Keep
      BY <2>2, LoadedCopyKnown
    <2>4. at[r] = "idle" /\ image' = image
      BY <1>2 DEF UpdateProduct
    <2>5. QED
      BY <2>1, <2>2, <2>3, <2>4
  <1>3. ASSUME NEW u \in Units, NEW row \in Unit, row.owners \subseteq tables.owners
        PROVE  UnitKnown(UnitCopy(u, row)) /\ UnitCopy(u, row).kind = "unit"
    BY <1>3 DEF UnitCopy, UnitKnown, UnitCopies
  <1>4. CASE CreateUnit(r)
    <2>1. PICK u \in Units, row \in Unit : row.owners \subseteq tables.owners /\ Start(r, UnitCopy(u, row), "write")
      BY <1>4 DEF CreateUnit
    <2>2. at[r] = "idle" /\ image' = [image EXCEPT ![r] = tables]
      BY <1>4 DEF CreateUnit
    <2>3. PICK c : c = UnitCopy(u, row)
      OBVIOUS
    <2>4. UnitKnown(c) /\ c.kind = "unit"
      BY <1>3, <2>1, <2>3
    <2>5. QED
      BY <2>1, <2>2, <2>3, <2>4
  <1>5. CASE UpdateUnit(r) \/ DeleteUnit(r)
    <2>1. PICK u \in Units, row \in Unit : row.owners \subseteq tables.owners /\ Start(r, UnitCopy(u, row), "select")
      <3>1. CASE UpdateUnit(r)
        BY <3>1 DEF UpdateUnit
      <3>2. CASE DeleteUnit(r)
        <4>1. PICK u \in Units : /\ tables.unit[u] # None
                                 /\ Start(r, UnitCopy(u, [tables.unit[u] EXCEPT !.live = FALSE]), "select")
          BY <3>2 DEF DeleteUnit
        <4>2. PICK old : old = tables.unit[u]
          OBVIOUS
        <4>3. old \in Row /\ OneVariant(old.owners) /\ old.owners \subseteq tables.owners
          BY <4>1, <4>2, UnitIs DEF Rows, Sound, Tables
        <4>4. PICK row : row = [old EXCEPT !.live = FALSE]
          OBVIOUS
        <4>5. row \in Row /\ row.owners = old.owners
          BY <4>3, <4>4 DEF Row
        <4>6. row \in Unit /\ row.owners \subseteq tables.owners
          BY <4>3, <4>5, UnitIs
        <4>7. QED
          BY <4>1, <4>2, <4>4, <4>6
      <3>3. QED
        BY <1>5, <3>1, <3>2
    <2>2. at[r] = "idle" /\ image' = image
      BY <1>5 DEF UpdateUnit, DeleteUnit
    <2>3. PICK c : c = UnitCopy(u, row)
      OBVIOUS
    <2>4. UnitKnown(c) /\ c.kind = "unit"
      BY <1>3, <2>1, <2>3
    <2>5. QED
      BY <2>1, <2>2, <2>3, <2>4
  <1>6. QED
    BY <1>1, <1>2, <1>4, <1>5

\* Request r has v now, and the others have what they had.
SetAt(f, r, v) == DOMAIN f' = Requests /\ f'[r] = v /\ \A q \in Requests \ {r} : f'[q] = f[q]

LEMMA IInvStep == IInv /\ [Next]_vars => IInv'
  <1> SUFFICES ASSUME IInv, [Next]_vars PROVE IInv'
    OBVIOUS
  <1>0. Controls /\ Rows /\ \A q \in Requests : CopyKnown(q) /\ ImageKnown(q)
    BY DEF IInv
  <1>1. CASE UNCHANGED vars
    BY <1>1
    DEF IInv, Controls, Rows, Sound, Seen, OwnedBy, Justified, OldCategories, Empty, Created, CopyKnown, ImageKnown,
        ProductKnown, UnitKnown, IdsKnown, BaseKnown, vars
  <1>2. Grows(tables, tables)
    BY DEF Grows
  <1>3. ASSUME NEW r \in Requests, UNCHANGED <<tables, settled, had>>,
               NEW a \in {"select", "write", "ended"}, NEW c, NEW i,
               at' = [at EXCEPT ![r] = a], SetAt(copy, r, c), SetAt(image, r, i),
               alone' \in [Requests -> BOOLEAN],
               a # "ended" => ProductKnown(c) \/ UnitKnown(c),
               a = "write" => i = tables
        PROVE  IInv'
    <2>1. Controls'
      BY <1>0, <1>3 DEF Controls, SetAt
    <2>2. Rows'
      BY <1>0, <1>3 DEF Rows, Sound, Seen, OwnedBy, Justified, OldCategories, Empty, Created
    <2>3. \A q \in Requests : q # r => CopyKnown(q)' /\ ImageKnown(q)'
      <3> SUFFICES ASSUME NEW q \in Requests, q # r PROVE CopyKnown(q)' /\ ImageKnown(q)'
        OBVIOUS
      <3>1. at'[q] = at[q] /\ copy'[q] = copy[q] /\ image'[q] = image[q]
        BY <1>0, <1>3 DEF Controls, SetAt
      <3>2. Grows(tables', tables) /\ had \subseteq had'
        BY <1>2, <1>3
      <3>3. QED
        BY <1>0, <3>1, <3>2, KnownStaysKnown
    <2>4. CopyKnown(r)'
      <3>1. at'[r] = a /\ copy'[r] = c
        BY <1>0, <1>3 DEF Controls, SetAt
      <3>2. QED
        BY <1>3, <3>1 DEF CopyKnown, ProductKnown, UnitKnown, IdsKnown, BaseKnown
    <2>5. ImageKnown(r)'
      <3>1. at'[r] = a /\ image'[r] = i
        BY <1>0, <1>3 DEF Controls, SetAt
      <3>2. QED
        BY <1>0, <1>3, <3>1 DEF ImageKnown, Rows, Sound, Seen
    <2>6. QED
      BY <2>1, <2>2, <2>3, <2>4, <2>5 DEF IInv
  <1>4. ASSUME NEW r \in Requests,
               CreateProduct(r) \/ UpdateProduct(r) \/ CreateUnit(r) \/ UpdateUnit(r) \/ DeleteUnit(r)
        PROVE  IInv'
    <2>1. PICK c, place :
            /\ Start(r, c, place)
            /\ ProductKnown(c) \/ UnitKnown(c)
            /\ \/ place = "write" /\ image' = [image EXCEPT ![r] = tables]
               \/ place = "select" /\ image' = image
      BY <1>0, <1>4, Starts
    <2>2. PICK i : SetAt(image, r, i) /\ (place = "write" => i = tables)
      <3>1. CASE place = "write"
        BY <1>0, <2>1, <3>1 DEF Controls, SetAt
      <3>2. CASE place = "select"
        <4>1. SetAt(image, r, image[r])
          BY <1>0, <2>1, <3>2 DEF Controls, SetAt
        <4>2. QED
          BY <3>2, <4>1
      <3>3. QED
        BY <2>1, <3>1, <3>2
    <2>3. /\ at' = [at EXCEPT ![r] = place] /\ SetAt(copy, r, c)
          /\ UNCHANGED <<tables, settled, had>> /\ place \in {"select", "write", "ended"} /\ place # "ended"
          /\ alone' \in [Requests -> BOOLEAN]
      BY <1>0, <2>1 DEF Start, Controls, SetAt
    <2>4. QED
      BY <1>3, <2>1, <2>2, <2>3
  <1>5. ASSUME NEW r \in Requests, Select(r) PROVE IInv'
    <2>1. /\ at' = [at EXCEPT ![r] = "write"] /\ SetAt(copy, r, copy[r])
          /\ SetAt(image, r, tables)
          /\ UNCHANGED <<tables, settled, had>> /\ alone' \in [Requests -> BOOLEAN]
      BY <1>0, <1>5 DEF Select, Controls, SetAt
    <2>2. ProductKnown(copy[r]) \/ UnitKnown(copy[r])
      BY <1>0, <1>5 DEF Select, CopyKnown
    <2>3. QED
      BY <1>3, <2>1, <2>2
  <1>6. ASSUME NEW r \in Requests, Fail(r) PROVE IInv'
    <2>1. /\ at' = [at EXCEPT ![r] = "ended"] /\ SetAt(copy, r, None) /\ SetAt(image, r, None)
          /\ UNCHANGED <<tables, settled, had>> /\ alone' \in [Requests -> BOOLEAN]
      BY <1>0, <1>6 DEF Fail, End, Controls, SetAt
    <2>2. QED
      BY <1>3, <2>1
  <1>7. ASSUME NEW r \in Requests, Write(r) PROVE IInv'
    <2>1. Rows'
      BY <1>7, WriteRows
    <2>2. /\ Grows(tables', tables) /\ had \subseteq had'
      BY <1>7, Saves, HadGrows
    <2>3. /\ image' = [image EXCEPT ![r] = None] /\ alone' = alone /\ settled' \subseteq {"units", "categories"}
          /\ \/ at' = [at EXCEPT ![r] = "ended"] /\ copy' = [copy EXCEPT ![r] = None]
             \/ /\ ~Ends(copy[r]) /\ at' = [at EXCEPT ![r] = "select"]
                /\ \E b \in Based(copy[r]) : copy' = [copy EXCEPT ![r] = b]
      BY <1>7 DEF Write, End, ChooseBase, Settled
    <2>4. Controls'
      BY <1>0, <2>3 DEF Controls
    <2>5. \A q \in Requests : q # r => CopyKnown(q)' /\ ImageKnown(q)'
      <3> SUFFICES ASSUME NEW q \in Requests, q # r PROVE CopyKnown(q)' /\ ImageKnown(q)'
        OBVIOUS
      <3>1. at'[q] = at[q] /\ copy'[q] = copy[q] /\ image'[q] = image[q]
        BY <1>0, <2>3 DEF Controls
      <3>2. QED
        BY <1>0, <2>2, <3>1, KnownStaysKnown
    <2>6. CopyKnown(r)' /\ ImageKnown(r)'
      <3>1. at'[r] # "write"
        BY <1>0, <2>3 DEF Controls
      <3>2. CASE at'[r] = "ended"
        BY <3>1, <3>2 DEF CopyKnown, ImageKnown
      <3>3. CASE at'[r] # "ended"
        <4>1. PICK b \in Based(copy[r]) : copy' = [copy EXCEPT ![r] = b] /\ ~Ends(copy[r])
          BY <1>0, <2>3, <3>3 DEF Controls
        <4>2. ProductKnown(b)'
          BY <1>7, <4>1, BasedKnown
        <4>3. copy'[r] = b
          BY <1>0, <4>1 DEF Controls
        <4>4. QED
          BY <3>1, <4>2, <4>3 DEF CopyKnown, ImageKnown, ProductKnown, IdsKnown, BaseKnown
      <3>4. QED
        BY <3>2, <3>3
    <2>7. QED
      BY <2>1, <2>4, <2>5, <2>6 DEF IInv
  <1>8. QED
    BY <1>1, <1>4, <1>5, <1>6, <1>7, NextActs DEF Acts

LEMMA IInvInit == Init => IInv
  <1> SUFFICES ASSUME Init PROVE IInv
    OBVIOUS
  <1>1. PICK u \in Units, rate \in Rates, cs \in SUBSET (Categories \ NewCategories), created \in BOOLEAN :
          /\ tables = [owners |-> IF created THEN {Product} ELSE {},
                       attached |-> {},
                       base |-> [o \in Owners |-> IF created /\ o = Product THEN u ELSE None],
                       unit |-> [w \in Units |->
                                   IF created /\ w = u THEN [owners |-> {Product}, rate |-> rate, live |-> TRUE]
                                   ELSE None],
                       category_ids |-> IF created THEN cs ELSE {},
                       joined |-> IF created THEN cs ELSE {},
                       categories |-> Categories \ NewCategories]
          /\ had = IF created THEN ({Product} \X {u}) \cup ({Product} \X cs) ELSE {}
    BY DEF Init
  <1>2. PICK row : row = [owners |-> {Product}, rate |-> rate, live |-> TRUE]
    OBVIOUS
  <1>3. row \in Unit /\ row # None /\ row.owners = {Product}
    <2>1. row \in Row /\ row.owners = {Product} /\ OneVariant(row.owners)
      BY <1>2, CatalogueAssumption DEF Row, OneVariant, Owners
    <2>2. QED
      BY <2>1, UnitIs, CatalogueAssumption
  <1>4. PICK base, unit :
          /\ base = [o \in Owners |-> IF created /\ o = Product THEN u ELSE None]
          /\ unit = [w \in Units |-> IF created /\ w = u THEN row ELSE None]
    OBVIOUS
  <1>5. /\ tables.owners = (IF created THEN {Product} ELSE {})
        /\ tables.attached = {} /\ tables.base = base /\ tables.unit = unit
        /\ tables.category_ids = (IF created THEN cs ELSE {}) /\ tables.joined = (IF created THEN cs ELSE {})
        /\ tables.categories = Categories \ NewCategories
        /\ tables = [owners |-> tables.owners, attached |-> {}, base |-> base, unit |-> unit,
                     category_ids |-> tables.category_ids, joined |-> tables.joined, categories |-> tables.categories]
    BY <1>1, <1>2, <1>4
  <1>6. base \in [Owners -> Units \cup {None}] /\ unit \in [Units -> Unit \cup {None}]
    BY <1>3, <1>4
  <1>7. tables \in Tables
    BY <1>5, <1>6 DEF Tables, Owners
  <1>8. Sound(tables)
    BY <1>3, <1>4, <1>5, <1>7 DEF Sound
  <1>9. Seen(tables) /\ Justified
    <2>1. \A x \in tables.joined \cup tables.category_ids : created /\ x \in cs
      BY <1>5
    <2>2. \A o \in Owners : \A w \in OwnedBy(tables, o) : created /\ w = u /\ o = Product
      BY <1>3, <1>4, <1>5 DEF OwnedBy
    <2>3. \A o \in Owners : tables.base[o] # None => created /\ o = Product /\ tables.base[o] = u
      BY <1>4, <1>5
    <2>4. created => <<Product, u>> \in had /\ \A x \in cs : <<Product, x>> \in had
      BY <1>1
    <2>5. QED
      BY <2>1, <2>2, <2>3, <2>4 DEF Seen, Justified
  <1>10. OldCategories /\ Empty
    BY <1>5 DEF OldCategories, Empty, Created
  <1>11. Controls /\ \A r \in Requests : CopyKnown(r) /\ ImageKnown(r)
    BY DEF Init, Controls, CopyKnown, ImageKnown
  <1>12. QED
    BY <1>8, <1>9, <1>10, <1>11 DEF IInv, Rows

LEMMA IInvAlways == Spec => []IInv
  BY IInvInit, IInvStep, PTL DEF Spec

\* Every column has its type; a unit has one variant at most, and what refers to a product, a
\* variant or a category refers to a row.
THEOREM TypeCorrect == Spec => []TypeOK
  <1>1. IInv => TypeOK
    BY DEF IInv, Controls, Rows, Sound, TypeOK
  <1>2. QED
    BY <1>1, IInvAlways, PTL

-----------------------------------------------------------------------------
(* A mutation that nobody overlaps: its bases are the cheapest units, and  *)
(* its ids are the categories it is joined to.                             *)

CheapestOf(t, o) ==
    /\ t.base[o] \in OwnedBy(t, o) /\ t.unit[t.base[o]].live
    /\ \A u \in OwnedBy(t, o) : t.unit[t.base[o]].rate <= t.unit[u].rate

Agree(t) == t.category_ids \subseteq t.joined /\ t.joined \ t.category_ids \subseteq NewCategories

SettledKnown ==
    /\ Created(tables) /\ "units" \in settled => \A o \in {Product} \cup tables.attached : CheapestOf(tables, o)
    /\ "categories" \in settled => Agree(tables)

\* A copy that lists no categories was loaded from the columns as they are.
Undisturbed(c) ==
    IF c.relists THEN c.categories = Keep => tables.joined = {} /\ tables.category_ids = {}
    ELSE c.categories = tables.joined /\ c.category_ids = Keep

AloneKnown(r) ==
    alone[r] /\ r \in InFlight =>
        /\ InFlight = {r}
        /\ at[r] = "write" => image[r] = tables
        /\ copy[r].kind = "product" => Undisturbed(copy[r])

LoneInv == SettledKnown /\ \A r \in Requests : AloneKnown(r)

\* The second save of a mutation that had the tables to itself.
LEMMA LoneUnits ==
  ASSUME NEW c, ProductKnown(c), c.last, Sound(tables), tables' = SavedProduct(c, tables, tables),
         ListsLive(c, tables'), NEW o \in {Product} \cup tables'.attached
  PROVE  CheapestOf(tables', o)
  <1>1. c \in ProductCopies /\ Listed(c) /\ Sortable(c) /\ tables \in Tables
    BY DEF ProductKnown, BasesChosen, Sound
  <1>2. /\ tables'.attached = Relation(c.variants, tables.attached, tables.attached)
        /\ tables'.base = [p \in Owners |-> Column(c.base[p], tables.base[p], tables.base[p])]
        /\ tables'.unit = [u \in Units |-> CascadedUnit(c, tables, tables, u)]
    BY DEF SavedProduct
  <1>3. o \in {Product} \cup c.variants /\ o \in Owners /\ c.units[o] # Keep
    BY <1>1, <1>2 DEF Relation, Sortable, ProductCopies, Owners
  <1>4. /\ c.units[o] \in Lists
        /\ c.base[o] \in DOMAIN c.units[o]
        /\ \A u \in DOMAIN c.units[o] : c.units[o][c.base[o]] <= c.units[o][u]
    BY <1>1, <1>3 DEF ProductKnown, BasesChosen, ProductCopies, Cheapest
  <1>5. DOMAIN c.units[o] \subseteq Units
    BY <1>4 DEF Lists
  <1>6. tables'.base[o] = c.base[o]
    BY <1>2, <1>3, <1>4, <1>5, CatalogueAssumption DEF Column
  <1>7. \A u \in Units : /\ tables'.unit[u] # None /\ o \in tables'.unit[u].owners <=> u \in DOMAIN c.units[o]
                         /\ u \in DOMAIN c.units[o] => tables'.unit[u].rate = c.units[o][u]
    <2> TAKE u \in Units
    <2>1. tables'.unit[u] = CascadedUnit(c, tables, tables, u)
      BY <1>2
    <2>2. QED
      BY <1>1, <1>3, <2>1, CascadeAlone DEF Sound
  <1>8. \A u : u \in OwnedBy(tables', o) <=> u \in DOMAIN c.units[o]
    BY <1>5, <1>7 DEF OwnedBy
  <1>9. tables'.unit[c.base[o]].live
    BY <1>3, <1>4 DEF ListsLive
  <1>10. QED
    BY <1>4, <1>5, <1>6, <1>7, <1>8, <1>9 DEF CheapestOf

\* What a save that had the tables to itself leaves of the categories.
LEMMA LoneCategories ==
  ASSUME NEW c, ProductKnown(c), Undisturbed(c), tables' = SavedProduct(c, tables, tables)
  PROVE  /\ c.relists => Agree(tables')
         /\ ~c.relists => tables'.joined = tables.joined /\ tables'.category_ids = tables.category_ids
         /\ Undisturbed(c)'
  <1>1. /\ tables'.category_ids = Column(c.category_ids, tables.category_ids, tables.category_ids)
        /\ tables'.joined = Relation(c.categories, tables.joined, tables.joined)
    BY DEF SavedProduct
  <1>2. CASE ~c.relists
    BY <1>1, <1>2 DEF Undisturbed, Relation, Column
  <1>3. CASE c.relists /\ c.categories = Keep
    BY <1>1, <1>3 DEF ProductKnown, Relisted, Undisturbed, Relation, Column, Agree
  <1>4. CASE c.relists /\ c.categories # Keep
    <2>1. tables'.joined = c.categories
      BY <1>1, <1>4 DEF Relation
    <2>2. tables'.category_ids = c.category_ids
      BY <1>1, <1>4 DEF ProductKnown, Relisted, Column
    <2>3. QED
      BY <1>4, <2>1, <2>2 DEF ProductKnown, Relisted, Undisturbed, Agree
  <1>5. QED
    BY <1>2, <1>3, <1>4

LEMMA LoneInit == Init => LoneInv
  <1> SUFFICES ASSUME Init PROVE LoneInv
    OBVIOUS
  <1>1. PICK u \in Units, rate \in Rates, cs \in SUBSET (Categories \ NewCategories), created \in BOOLEAN :
          tables = [owners |-> IF created THEN {Product} ELSE {},
                    attached |-> {},
                    base |-> [o \in Owners |-> IF created /\ o = Product THEN u ELSE None],
                    unit |-> [w \in Units |->
                                IF created /\ w = u THEN [owners |-> {Product}, rate |-> rate, live |-> TRUE]
                                ELSE None],
                    category_ids |-> IF created THEN cs ELSE {},
                    joined |-> IF created THEN cs ELSE {},
                    categories |-> Categories \ NewCategories]
    BY DEF Init
  <1>2. Agree(tables)
    BY <1>1 DEF Agree
  <1>3. ASSUME Created(tables) PROVE \A o \in {Product} \cup tables.attached : CheapestOf(tables, o)
    <2>1. PICK row : row = [owners |-> {Product}, rate |-> rate, live |-> TRUE]
      OBVIOUS
    <2>2. PICK unit : unit = [w \in Units |-> IF created /\ w = u THEN row ELSE None]
      OBVIOUS
    <2>3. created /\ tables.attached = {} /\ tables.unit = unit /\ tables.base[Product] = u
      BY <1>1, <1>3, <2>1, <2>2 DEF Created, Owners
    <2>4. /\ \A w \in Units : tables.unit[w] = IF w = u THEN row ELSE None
          /\ row.owners = {Product} /\ row.rate = rate /\ row.live
      BY <2>1, <2>2, <2>3
    <2>5. row # None
      <3>1. row \in Row /\ OneVariant(row.owners)
        BY <2>1, CatalogueAssumption DEF Row, OneVariant, Owners
      <3>2. QED
        BY <3>1, UnitIs, CatalogueAssumption
    <2>6. OwnedBy(tables, Product) = {u}
      BY <2>4, <2>5 DEF OwnedBy
    <2>7. rate <= rate
      BY CatalogueAssumption
    <2>8. QED
      BY <2>3, <2>4, <2>6, <2>7 DEF CheapestOf
  <1>4. \A r \in Requests : AloneKnown(r)
    BY DEF Init, AloneKnown, InFlight
  <1>5. QED
    BY <1>2, <1>3, <1>4 DEF LoneInv, SettledKnown

\* What a write leaves of lone requests.
LEMMA LoneWrite ==
  ASSUME IInv, LoneInv, NEW r \in Requests, Write(r)
  PROVE  LoneInv'
  <1>0. Controls /\ at[r] = "write" /\ Sound(tables) /\ r \in InFlight /\ alone' = alone /\ AloneKnown(r)
        /\ settled' = Settled(r, tables')
    BY DEF IInv, Rows, Write, InFlight, LoneInv
  <1>1. PICK c, lone : c = copy[r] /\ lone = alone[r]
    OBVIOUS
  <1>2. lone => InFlight = {r} /\ image[r] = tables /\ (c.kind = "product" => Undisturbed(c))
    BY <1>0, <1>1 DEF AloneKnown
  <1>3. /\ "units" \in settled' => c.kind = "product" /\ c.last /\ lone /\ ListsLive(c, tables')
        /\ "categories" \in settled' => IF c.kind = "unit" THEN "categories" \in settled
                                        ELSE lone /\ (c.relists \/ "categories" \in settled)
    BY <1>0, <1>1 DEF Settled
  <1>4. SettledKnown'
    <2>1. CASE ProductKnown(c) /\ tables' = SavedProduct(c, image[r], tables)
      <3>1. c.kind = "product"
        BY <2>1, KindsDiffer DEF ProductKnown
      <3>2. ASSUME "units" \in settled' PROVE \A o \in {Product} \cup tables'.attached : CheapestOf(tables', o)
        BY <1>0, <1>2, <1>3, <2>1, <3>2, LoneUnits
      <3>3. ASSUME "categories" \in settled' PROVE Agree(tables')
        <4>1. lone /\ Undisturbed(c) /\ tables' = SavedProduct(c, tables, tables)
              /\ (c.relists \/ "categories" \in settled)
          BY <1>2, <1>3, <2>1, <3>1, <3>3
        <4>2. /\ c.relists => Agree(tables')
              /\ ~c.relists => tables'.joined = tables.joined /\ tables'.category_ids = tables.category_ids
          BY <2>1, <4>1, LoneCategories
        <4>3. QED
          BY <4>1, <4>2 DEF LoneInv, SettledKnown, Agree
      <3>4. QED
        BY <3>2, <3>3 DEF SettledKnown, CheapestOf, OwnedBy, Agree
    <2>2. CASE UnitKnown(c) /\ tables' = SavedUnit(c, image[r], tables)
      <3>1. /\ c \in UnitCopies /\ c.kind = "unit" /\ c.unit \in Units /\ c.row.owners \subseteq tables.owners
            /\ image[r] \in Tables
            /\ image[r].unit[c.unit] # None => tables.unit[c.unit] # None
        BY <1>0, <2>2 DEF UnitKnown, UnitCopies, IInv, ImageKnown
      <3>2. tables'.joined = tables.joined /\ tables'.category_ids = tables.category_ids
        BY <1>0, <2>2, <3>1, SavedUnitSound
      <3>3. "units" \notin settled' /\ ("categories" \in settled' => "categories" \in settled)
        BY <1>3, <3>1
      <3>4. QED
        BY <3>2, <3>3 DEF LoneInv, SettledKnown, Agree
    <2>3. QED
      BY <1>1, <2>1, <2>2, Saves
  <1>5. ASSUME NEW q \in Requests, alone[q], q \in InFlight' PROVE q = r /\ InFlight' = {r} /\ AloneKnown(r)'
    <2>1. q \in InFlight /\ \A p \in InFlight' : p \in InFlight
      BY <1>0, <1>5 DEF Write, End, ChooseBase, InFlight, Controls
    <2>2. q = r /\ lone /\ InFlight' = {r}
      BY <1>0, <1>1, <1>5, <2>1 DEF LoneInv, AloneKnown
    <2>3. /\ at'[r] = "select" /\ ~Ends(c)
          /\ \E b \in Based(c) : copy' = [copy EXCEPT ![r] = b]
      BY <1>0, <1>1, <2>2 DEF Write, End, ChooseBase, InFlight, Controls
    <2>4. PICK b : b \in Based(c) /\ copy'[r] = b
      BY <1>0, <2>3 DEF Controls
    <2>5. /\ ProductKnown(c) /\ b.categories = c.categories /\ b.category_ids = c.category_ids
          /\ b.relists = c.relists
      BY <1>1, <2>3, <2>4, BasedKnown
    <2>6. c.kind = "product" /\ c \notin UnitCopies
      BY <2>5, KindsDiffer DEF ProductKnown
    <2>7. Undisturbed(c) /\ tables' = SavedProduct(c, tables, tables)
      BY <1>1, <1>2, <2>2, <2>6, Saves DEF UnitKnown
    <2>8. Undisturbed(c)'
      BY <2>5, <2>7, LoneCategories
    <2>9. Undisturbed(copy[r])'
      BY <2>4, <2>5, <2>8 DEF Undisturbed
    <2>10. QED
      BY <2>2, <2>3, <2>9 DEF AloneKnown
  <1>6. \A q \in Requests : AloneKnown(q)'
    <2> SUFFICES ASSUME NEW q \in Requests PROVE AloneKnown(q)'
      OBVIOUS
    <2>1. CASE alone[q] /\ q \in InFlight'
      BY <1>5, <2>1
    <2>2. CASE ~(alone[q] /\ q \in InFlight')
      BY <1>0, <2>2 DEF AloneKnown
    <2>3. QED
      BY <2>1, <2>2
  <1>7. QED
    BY <1>4, <1>6 DEF LoneInv

LEMMA LoneStep == IInv /\ LoneInv /\ [Next]_vars => LoneInv'
  <1> SUFFICES ASSUME IInv, LoneInv, [Next]_vars PROVE LoneInv'
    OBVIOUS
  <1>0. Controls /\ Rows
    BY DEF IInv
  <1>1. CASE UNCHANGED vars
    BY <1>1 DEF LoneInv, SettledKnown, CheapestOf, OwnedBy, Agree, Created, AloneKnown, InFlight, Undisturbed, vars
  <1>2. ASSUME UNCHANGED <<tables, settled>> PROVE SettledKnown'
    BY <1>2 DEF LoneInv, SettledKnown, CheapestOf, OwnedBy, Agree, Created
  <1>3. ASSUME NEW r \in Requests,
               CreateProduct(r) \/ UpdateProduct(r) \/ CreateUnit(r) \/ UpdateUnit(r) \/ DeleteUnit(r)
        PROVE  LoneInv'
    <2>1. PICK c, place :
            /\ Start(r, c, place) /\ at[r] = "idle"
            /\ (ProductKnown(c) /\ c.kind = "product") \/ (UnitKnown(c) /\ c.kind = "unit")
            /\ c.kind = "product" =>
                 IF c.relists THEN c.categories = Keep => tables.joined = {} /\ tables.category_ids = {}
                 ELSE c.categories = tables.joined /\ c.category_ids = Keep
            /\ \/ place = "write" /\ image' = [image EXCEPT ![r] = tables]
               \/ place = "select" /\ image' = image
      BY <1>0, <1>3, Starts
    <2>2. /\ at'[r] = place /\ copy'[r] = c /\ (place = "write" => image'[r] = tables)
          /\ \A q \in Requests \ {r} : at'[q] = at[q]
          /\ alone' = [q \in Requests |-> IF q = r THEN InFlight = {} ELSE alone[q] /\ q \notin InFlight]
          /\ UNCHANGED <<tables, settled>> /\ place \in {"select", "write"}
      BY <1>0, <2>1 DEF Start, Controls
    <2>3. InFlight' = InFlight \cup {r}
      BY <2>2 DEF InFlight
    <2>4. \A q \in Requests \ {r} : AloneKnown(q)'
      BY <2>2, <2>3 DEF AloneKnown
    <2>5. AloneKnown(r)'
      <3>1. c.kind = "product" => Undisturbed(c)
        BY <2>1 DEF Undisturbed
      <3>2. alone'[r] <=> InFlight = {}
        BY <2>2
      <3>3. (copy[r].kind = "product" => Undisturbed(copy[r]))'
        BY <2>2, <3>1 DEF Undisturbed
      <3>4. QED
        BY <2>2, <2>3, <3>2, <3>3 DEF AloneKnown
    <2>6. QED
      BY <1>2, <2>2, <2>4, <2>5 DEF LoneInv
  <1>4. ASSUME NEW r \in Requests, Select(r) PROVE LoneInv'
    <2>1. /\ at[r] = "select" /\ at'[r] = "write" /\ image'[r] = tables
          /\ \A q \in Requests \ {r} : at'[q] = at[q] /\ image'[q] = image[q]
          /\ UNCHANGED <<tables, copy, alone, settled>>
      BY <1>0, <1>4 DEF Select, Controls
    <2>2. InFlight' = InFlight
      BY <2>1 DEF InFlight
    <2>3. \A q \in Requests : AloneKnown(q)'
      BY <2>1, <2>2 DEF LoneInv, AloneKnown, Undisturbed
    <2>4. QED
      BY <1>2, <2>1, <2>3 DEF LoneInv
  <1>5. ASSUME NEW r \in Requests, Fail(r) PROVE LoneInv'
    <2>1. /\ r \in InFlight /\ at'[r] = "ended"
          /\ \A q \in Requests \ {r} : at'[q] = at[q]
          /\ UNCHANGED <<tables, alone, settled>>
      BY <1>0, <1>5 DEF Fail, End, Controls, InFlight
    <2>2. InFlight' = InFlight \ {r}
      BY <2>1 DEF InFlight
    <2>3. ASSUME NEW q \in Requests, q \in InFlight' PROVE ~alone[q]
      BY <2>1, <2>2, <2>3 DEF LoneInv, AloneKnown
    <2>4. \A q \in Requests : AloneKnown(q)'
      BY <2>1, <2>3 DEF AloneKnown
    <2>5. QED
      BY <1>2, <2>1, <2>4 DEF LoneInv
  <1>6. QED
    BY <1>1, <1>3, <1>4, <1>5, LoneWrite, NextActs DEF Acts

LEMMA LoneAlways == Spec => [](IInv /\ LoneInv)
  <1>1. Init => IInv /\ LoneInv
    BY IInvInit, LoneInit
  <1>2. IInv /\ LoneInv /\ [Next]_vars => (IInv /\ LoneInv)'
    BY IInvStep, LoneStep
  <1>3. QED
    BY <1>1, <1>2, PTL DEF Spec

\* A base unit is or was a unit of its owner, however requests interleave.  After an answered
\* createProduct or updateProduct that nobody overlapped, whatever failed before, the product and each
\* of its variants has one, live and with the lowest rate of all its units.
THEOREM BasesAreCheapest == Spec => []BaseIsCheapest
  <1>1. ASSUME IInv, LoneInv PROVE BaseIsCheapest
    <2>1. \A o \in Owners : tables.base[o] # None => <<o, tables.base[o]>> \in had
      BY <1>1 DEF IInv, Rows, Justified
    <2>2. ASSUME Created(tables), "units" \in settled, NEW o \in {Product} \cup tables.attached
          PROVE  LET units == {u \in OwnedBy(tables, o) : tables.unit[u].live}
                 IN  /\ tables.base[o] \in units
                     /\ \A u \in units : tables.unit[tables.base[o]].rate <= tables.unit[u].rate
      BY <1>1, <2>2 DEF LoneInv, SettledKnown, CheapestOf
    <2>3. QED
      BY <2>1, <2>2 DEF BaseIsCheapest
  <1>2. QED
    BY <1>1, LoneAlways, PTL

\* category_ids names only categories the product is or was joined to, and, unless the last requests
\* overlapped, exactly these, but for those the forms created, even if a request failed half way.
THEOREM ListsKeepAgreeing == Spec => []ListsAgree
  <1>1. ASSUME IInv, LoneInv PROVE ListsAgree
    <2>1. {Product} \X tables.category_ids \subseteq had
      BY <1>1 DEF IInv, Rows, Justified
    <2>2. QED
      BY <1>1, <2>1 DEF ListsAgree, LoneInv, SettledKnown, Agree
  <1>2. QED
    BY <1>1, LoneAlways, PTL

=============================================================================
