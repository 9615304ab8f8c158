------------------------------ MODULE Catalog ------------------------------
(***************************************************************************)
(* Products, their variants and categories, as several administrators edit *)
(* them (internal/products, internal/variants, internal/categories and the *)
(* product and category handlers).                                         *)
(*                                                                         *)
(* One statement is one step.  An update replaces the whole row if its     *)
(* version is still the one the client names; the repository learns why it *)
(* missed with a second statement.  A variant is created in two: the       *)
(* product is read, then the variant inserted.                             *)
(*                                                                         *)
(* Abstractions.  Of the columns an update replaces, the price, the status *)
(* and the category stand for all.  A client sends the version that came   *)
(* with the product it read last, as the API asks it to.  A request that   *)
(* fails before it changes anything leaves no trace; foreign keys and      *)
(* unique indexes are among the guards.  Stock is in OrderStock.           *)
(***************************************************************************)
EXTENDS Naturals

CONSTANTS
  Products, Variants, Categories, \* identifiers of rows
  Names,      \* names of categories
  Admins,     \* administrators, with one request each at a time
  Forms,      \* what an administrator may fill in: [price, status, category]
  MaxVersion, \* bound on the version of a product
  None,       \* the absent value
  Gone        \* what is left of a deleted product

ASSUME NoneIsNoName == None \notin Names \cup Categories
ASSUME FormFields ==
  Forms \subseteq [price : Nat, status : STRING, category : Categories \cup {None}]
ASSUME VersionBound == MaxVersion \in Nat

VARIABLES
  life,       \* products: none, live or deleted
  text,       \* products: the price and the status
  category,   \* products.category_id
  version,    \* products.version
  called,     \* the name of each category, None if there is no such row
  variant,    \* product_variants
  at,         \* what the request of an administrator does next
  held,       \* the product each administrator's client read last
  loaded,     \* the product and price CreateVariant has read
  answer      \* how the last update of an administrator was refused

vars == <<life, text, category, version, called, variant, at, held, loaded,
          answer>>
shelf == <<life, text, category, version>>

Statuses == {"draft", "active", "archived"}
Prices   == {f.price : f \in Forms}
Texts    == [price : Prices, status : Statuses]
Sheets   == [product : Products, text : Texts, version : Nat]
Loads    == [product : Products, price : Prices]
Rows     == [product : Products, inherited : BOOLEAN, price : Prices]

ASSUME NoneIsNoRow == None \notin Texts \cup Sheets \cup Loads \cup Rows

Live(p) == life[p] = "live"

\* WHERE deleted_at IS NULL AND status = 'active': what the public reads see.
Published(p) == Live(p) /\ text[p].status = "active"

\* The foreign key of products.category_id.
Exists(c) == c \in {None} \cup {d \in Categories : called[d] # None}

(***************************************************************************)
(* Forms                                                                   *)
(***************************************************************************)

validProductStatus(s) == s \in Statuses \cup {""}

\* normalizeProduct: an update without a status publishes, as a creation does.
normalizeProduct(f) ==
  [price |-> f.price, status |-> IF f.status = "" THEN "active" ELSE f.status]

ValidCreation(f) == f.price > 0 /\ validProductStatus(f.status)
ValidUpdate(f)   == validProductStatus(f.status)

Sheet(p, t, n) == [product |-> p, text |-> t, version |-> n]

Init ==
  /\ life = [p \in Products |-> "none"]
  /\ text = [p \in Products |-> None]
  /\ category = [p \in Products |-> None]
  /\ version = [p \in Products |-> 0]
  /\ called = [c \in Categories |-> None]
  /\ variant = [v \in Variants |-> None]
  /\ at = [a \in Admins |-> "idle"]
  /\ held = [a \in Admins |-> None]
  /\ loaded = [a \in Admins |-> None]
  /\ answer = [a \in Admins |-> "none"]

\* The request of a has read or written p, and its answer shows the row.
Answered(a, p, t, n) ==
  /\ held' = [held EXCEPT ![a] = Sheet(p, t, n)]
  /\ answer' = [answer EXCEPT ![a] = "none"]

(***************************************************************************)
(* Products                                                                *)
(***************************************************************************)

\* Create: the version column starts at 1.
Insert(p, f) ==
  /\ life[p] = "none"
  /\ Exists(f.category)
  /\ life' = [life EXCEPT ![p] = "live"]
  /\ text' = [text EXCEPT ![p] = normalizeProduct(f)]
  /\ category' = [category EXCEPT ![p] = f.category]
  /\ version' = [version EXCEPT ![p] = 1]

CreateProduct(a, p, f) ==
  /\ at[a] = "idle"
  /\ ValidCreation(f)
  /\ Insert(p, f)
  /\ Answered(a, p, normalizeProduct(f), 1)
  /\ UNCHANGED <<called, variant, at, loaded>>

\* GetProduct reads the product and its version in the first of its four
\* statements; only published products can be read.
GetProduct(a, p) ==
  /\ at[a] = "idle" /\ Published(p)
  /\ Answered(a, p, text[p], version[p])
  /\ UNCHANGED <<shelf, called, variant, at, loaded>>

\* The lists show whole rows too.
ListProducts(a, p) == GetProduct(a, p)

\* Whoever comes last wins: a faulty variant of the next definition.
MatchesAny(a) == Live(held[a].product)

\* WHERE id = .. AND deleted_at IS NULL AND version = ..
Matches(a) ==
  Live(held[a].product) /\ version[held[a].product] = held[a].version

\* Update: every column is replaced and the version goes up; variants are rows
\* of another table, which it leaves alone.
Replace(p, f) ==
  /\ Exists(f.category)
  /\ version[p] < MaxVersion
  /\ text' = [text EXCEPT ![p] = normalizeProduct(f)]
  /\ category' = [category EXCEPT ![p] = f.category]
  /\ version' = [version EXCEPT ![p] = @ + 1]

\* UpdateProduct with a version that matches.
UpdateProduct(a, p, f) ==
  /\ at[a] = "idle" /\ held[a] # None /\ held[a].product = p
  /\ ValidUpdate(f)
  /\ Matches(a)
  /\ Replace(p, f)
  /\ Answered(a, p, normalizeProduct(f), version[p] + 1)
  /\ UNCHANGED <<life, called, variant, at, loaded>>

\* The update matches no row; existsLive is next.
UpdateMisses(a) ==
  /\ at[a] = "idle" /\ held[a] # None
  /\ ~Matches(a)
  /\ at' = [at EXCEPT ![a] = "probe"]
  /\ answer' = [answer EXCEPT ![a] = "none"]
  /\ UNCHANGED <<shelf, called, variant, held, loaded>>

\* The probe sees deleted rows too: a faulty variant of the next definition.
ExistsAtAll(p) == life[p] # "none"

existsLive(p) == Live(p)

\* 409 or 404.
Probe(a) ==
  /\ at[a] = "probe"
  /\ at' = [at EXCEPT ![a] = "idle"]
  /\ answer' = [answer EXCEPT ![a] = IF existsLive(held[a].product)
                                       THEN "conflict" ELSE "not found"]
  /\ UNCHANGED <<shelf, called, variant, held, loaded>>

ProbeFails(a) ==
  /\ at[a] = "probe"
  /\ at' = [at EXCEPT ![a] = "idle"]
  /\ UNCHANGED <<shelf, called, variant, held, loaded, answer>>

\* Delete marks the row and leaves its version alone.
SoftDelete(p) ==
  /\ Live(p)
  /\ life' = [life EXCEPT ![p] = "deleted"]
  /\ UNCHANGED <<text, category, version>>

DeleteProduct(p) ==
  /\ SoftDelete(p)
  /\ UNCHANGED <<called, variant, at, held, loaded,
                 answer>>

(***************************************************************************)
(* Variants                                                                *)
(***************************************************************************)

\* CreateVariant, up to loadProductForAdmin: drafts can be read here.
LoadForVariant(a, p) ==
  /\ at[a] = "idle" /\ Live(p)
  /\ at' = [at EXCEPT ![a] = "variant"]
  /\ loaded' = [loaded EXCEPT ![a] = [product |-> p, price |-> text[p].price]]
  /\ answer' = [answer EXCEPT ![a] = "none"]
  /\ UNCHANGED <<shelf, called, variant, held>>

\* An omitted price is a copy of the product's, marked as inherited.
buildVariantModel(l, price) ==
  [product |-> l.product, inherited |-> price = None,
   price |-> IF price = None THEN l.price ELSE price]

\* The request for a variant ends.
EndOfVariant(a) ==
  /\ at[a] = "variant"
  /\ at' = [at EXCEPT ![a] = "idle"]
  /\ loaded' = [loaded EXCEPT ![a] = None]
  /\ UNCHANGED <<shelf, called, held, answer>>

InsertVariant(v, row) ==
  /\ variant[v] = None
  /\ variant' = [variant EXCEPT ![v] = row]

\* The insertion, whatever has become of the product meanwhile.
CreateVariant(a, v, price) ==
  /\ EndOfVariant(a)
  /\ InsertVariant(v, buildVariantModel(loaded[a], price))

\* A bad form, or an sku that is taken.
CreateVariantFails(a) == EndOfVariant(a) /\ UNCHANGED variant

(***************************************************************************)
(* Categories                                                              *)
(***************************************************************************)

NameFree(n) == \A c \in Categories : called[c] # n

\* INSERT and UPDATE of the categories table.
SetName(c, n) ==
  /\ NameFree(n)
  /\ called' = [called EXCEPT ![c] = n]

CreateCategory(c, n) ==
  /\ called[c] = None
  /\ SetName(c, n)
  /\ UNCHANGED <<shelf, variant, at, held, loaded, answer>>

UpdateCategory(c, n) ==
  /\ called[c] # None
  /\ SetName(c, n)
  /\ UNCHANGED <<shelf, variant, at, held, loaded, answer>>

\* Products keep pointing at it: a faulty variant of the next definition.
DropOnly(c) ==
  /\ called[c] # None
  /\ called' = [called EXCEPT ![c] = None]
  /\ UNCHANGED category

\* ON DELETE SET NULL; the products keep their versions.
Drop(c) ==
  /\ called[c] # None
  /\ called' = [called EXCEPT ![c] = None]
  /\ category' = [p \in Products |-> IF category[p] = c THEN None ELSE category[p]]

DeleteCategory(c) ==
  /\ Drop(c)
  /\ UNCHANGED <<life, text, version, variant, at, held, loaded, answer>>

Next ==
  \/ \E a \in Admins :
       \/ \E p \in Products :
            \/ GetProduct(a, p) \/ ListProducts(a, p) \/ LoadForVariant(a, p)
            \/ \E f \in Forms : CreateProduct(a, p, f) \/ UpdateProduct(a, p, f)
       \/ UpdateMisses(a) \/ Probe(a) \/ ProbeFails(a)
       \/ CreateVariantFails(a)
       \/ \E v \in Variants, n \in Prices \cup {None} :
            CreateVariant(a, v, n)
  \/ \E p \in Products : DeleteProduct(p)
  \/ \E c \in Categories :
       \/ DeleteCategory(c)
       \/ \E n \in Names : CreateCategory(c, n) \/ UpdateCategory(c, n)

Spec == Init /\ [][Next]_vars

(***************************************************************************)
(* Properties that hold                                                    *)
(***************************************************************************)

\* Types, and the foreign key: a product's category is one that exists, also
\* when it was deleted while the product was being edited.
TypeOK ==
  /\ life \in [Products -> {"none", "live", "deleted"}]
  /\ text \in [Products -> Texts \cup {None}]
  /\ \A p \in Products : life[p] = "none" <=> text[p] = None
  /\ category \in [Products -> Categories \cup {None}]
  /\ version \in [Products -> Nat]
  /\ called \in [Categories -> Names \cup {None}]
  /\ variant \in [Variants -> Rows \cup {None}]
  /\ at \in [Admins -> {"idle", "probe", "variant"}]
  /\ held \in [Admins -> Sheets \cup {None}]
  /\ loaded \in [Admins -> Loads \cup {None}]
  /\ answer \in [Admins -> {"none", "conflict", "not found"}]
  /\ \A p \in Products : Exists(category[p])
  /\ \A a \in Admins : at[a] = "probe" => held[a] # None
  /\ \A a \in Admins : at[a] = "variant" <=> loaded[a] # None

\* What a 409 or a 404 says is still true when it is said, two statements after
\* the update missed: the client's copy is out of date, or the product is gone.
RefusalIsTrue ==
  \A a \in Admins :
    /\ answer[a] = "conflict" =>
         /\ held[a] # None
         /\ held[a].version < version[held[a].product]
    /\ answer[a] = "not found" => held[a] # None /\ ~Live(held[a].product)

PageTexts == [p \in Products |-> IF life[p] = "deleted" THEN Gone ELSE text[p]]
SheetOf(h) == IF h = None THEN None ELSE [page |-> h.product, text |-> h.text]
HeldTexts == [a \in Admins |-> SheetOf(held[a])]

Editorial ==
  INSTANCE SerialEdits WITH
    Pages <- Products, Editors <- Admins,
    Unwritten <- None, Removed <- Gone, Nothing <- None,
    text <- PageTexts, held <- HeldTexts

\* No edit replaces what its author has not read, deleted products stay
\* deleted, and everybody holds what a product once said.
EditsAreSerial == Editorial!Spec

(***************************************************************************)
(* What a comment says and the code does not do                            *)
(***************************************************************************)

\* A price marked as inherited follows its product's: once no request is
\* running, a live product and its inheriting variants ask the same
\* (product_variant_handler.go:222, DEVDOCS/PRD-catalog-v2.md:110).
InheritedPriceFollows ==
  (\A a \in Admins : at[a] = "idle") =>
    \A v \in Variants :
      variant[v] # None /\ variant[v].inherited /\ Live(variant[v].product)
        => variant[v].price = text[variant[v].product].price
=============================================================================
