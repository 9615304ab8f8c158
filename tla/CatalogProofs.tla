--------------------------- MODULE CatalogProofs ---------------------------
(***************************************************************************)
(* Proofs about the catalog: type correctness, that no edit is lost        *)
(* (Catalog implements SerialEdits) and that a refusal is true.            *)
(*                                                                         *)
(* Nothing compares texts: an edit is admitted by its version alone.  What *)
(* makes that enough is CopiesTrue, by which a copy with the current       *)
(* version holds the current text; it is inductive because every change of *)
(* the text raises the version and nothing lowers it.                      *)
(***************************************************************************)
EXTENDS Catalog, TLAPS

\* What a client holds is a version the product had, and at the current
\* version it is the current text.
CopyTrue(a) ==
  held[a] # None =>
    /\ life[held[a].product] # "none"
    /\ held[a].version <= version[held[a].product]
    /\ held[a].version = version[held[a].product]
         => held[a].text = text[held[a].product]

CopiesTrue == \A a \in Admins : CopyTrue(a)

\* An update that missed would miss again.
MissesLast == \A a \in Admins : at[a] = "probe" => ~Matches(a)

-----------------------------------------------------------------------------
(***************************************************************************)
(* Types                                                                   *)
(***************************************************************************)

\* A form that is accepted fills in a text.
LEMMA FormText ==
  ASSUME NEW f \in Forms, validProductStatus(f.status)
  PROVE  /\ normalizeProduct(f) \in Texts
         /\ normalizeProduct(f).price = f.price
         /\ f.category \in Categories \cup {None}
  BY FormFields
     DEF Texts, Prices, Statuses, normalizeProduct, validProductStatus

\* A price of a form or the product's own makes a row.
LEMMA RowMade ==
  ASSUME NEW l \in Loads, NEW price \in Prices \cup {None}
  PROVE  buildVariantModel(l, price) \in Rows
  BY DEF Loads, Rows, buildVariantModel

\* The part of TypeOK that arithmetic needs, and what somebody holds.
LEMMA Counted == TypeOK => version \in [Products -> Nat]
  BY DEF TypeOK

LEMMA CountedToo == TypeOK' => version' \in [Products -> Nat]
  BY DEF TypeOK

LEMMA Holding ==
  ASSUME TypeOK, NEW a \in Admins, held[a] # None
  PROVE  /\ held[a] \in Sheets
         /\ held[a].product \in Products
         /\ held[a].version \in Nat
  <1>1. held[a] \in Sheets
    BY DEF TypeOK
  <1> QED
    BY <1>1 DEF Sheets

LEMMA TypeInit == Init => TypeOK
  BY DEF Init, TypeOK, Exists

LEMMA TypeCreateProduct ==
  ASSUME TypeOK, NEW a \in Admins, NEW p \in Products, NEW f \in Forms,
         CreateProduct(a, p, f)
  PROVE  TypeOK'
  <1>1. normalizeProduct(f) \in Texts /\ f.category \in Categories \cup {None}
    BY FormText DEF CreateProduct, ValidCreation
  <1>2. normalizeProduct(f) # None
    BY <1>1, NoneIsNoRow
  <1>3. Sheet(p, normalizeProduct(f), 1) \in Sheets
    BY <1>1 DEF Sheet, Sheets
  <1> QED
    BY <1>1, <1>2, <1>3, NoneIsNoRow
       DEF TypeOK, CreateProduct, Insert, Answered, Exists

LEMMA TypeGetProduct ==
  ASSUME TypeOK, NEW a \in Admins, NEW p \in Products, GetProduct(a, p)
  PROVE  TypeOK'
  <1>1. text[p] \in Texts
    BY DEF TypeOK, GetProduct, Published, Live
  <1>2. Sheet(p, text[p], version[p]) \in Sheets
    BY <1>1 DEF TypeOK, Sheet, Sheets
  <1> QED
    BY <1>2, NoneIsNoRow DEF TypeOK, GetProduct, Answered, Exists, shelf

LEMMA TypeUpdateProduct ==
  ASSUME TypeOK, NEW a \in Admins, NEW p \in Products, NEW f \in Forms,
         UpdateProduct(a, p, f)
  PROVE  TypeOK'
  <1>1. normalizeProduct(f) \in Texts /\ f.category \in Categories \cup {None}
    BY FormText DEF UpdateProduct, ValidUpdate
  <1>2. normalizeProduct(f) # None
    BY <1>1, NoneIsNoRow
  <1>3. version[p] + 1 \in Nat
    BY Counted
  <1>4. Sheet(p, normalizeProduct(f), version[p] + 1) \in Sheets
    BY <1>1, <1>3 DEF Sheet, Sheets
  <1>5. Live(p)
    BY DEF UpdateProduct, Matches
  <1>6. /\ text' \in [Products -> Texts \cup {None}]
        /\ \A q \in Products : life'[q] = "none" <=> text'[q] = None
    BY <1>1, <1>2, <1>5 DEF TypeOK, UpdateProduct, Replace, Live
  <1>7. /\ category' \in [Products -> Categories \cup {None}]
        /\ \A q \in Products : Exists(category[q])'
    BY <1>1 DEF TypeOK, UpdateProduct, Replace, Exists
  <1>8. /\ held' \in [Admins -> Sheets \cup {None}]
        /\ \A b \in Admins : at'[b] = "probe" => held'[b] # None
    BY <1>4, NoneIsNoRow DEF TypeOK, UpdateProduct, Answered
  <1>9. version' \in [Products -> Nat]
    BY <1>3 DEF TypeOK, UpdateProduct, Replace
  <1> QED
    BY <1>6, <1>7, <1>8, <1>9 DEF TypeOK, UpdateProduct, Answered

LEMMA TypeLoadForVariant ==
  ASSUME TypeOK, NEW a \in Admins, NEW p \in Products, LoadForVariant(a, p)
  PROVE  TypeOK'
  <1>1. text[p] \in Texts
    BY DEF TypeOK, LoadForVariant, Live
  <1>2. [product |-> p, price |-> text[p].price] \in Loads
    BY <1>1 DEF Texts, Loads
  <1> QED
    BY <1>2, NoneIsNoRow DEF TypeOK, LoadForVariant, Exists, shelf

LEMMA TypeCreateVariant ==
  ASSUME TypeOK, NEW a \in Admins, NEW v \in Variants,
         NEW price \in Prices \cup {None}, CreateVariant(a, v, price)
  PROVE  TypeOK'
  <1>1. loaded[a] \in Loads
    BY DEF TypeOK, CreateVariant, EndOfVariant
  <1>2. buildVariantModel(loaded[a], price) \in Rows
    BY <1>1, RowMade
  <1> QED
    BY <1>2 DEF TypeOK, CreateVariant, InsertVariant, EndOfVariant, Exists, shelf

LEMMA TypeDeleteCategory ==
  ASSUME TypeOK, NEW c \in Categories, DeleteCategory(c)
  PROVE  TypeOK'
  BY DEF TypeOK, DeleteCategory, Drop, Exists

LEMMA TypeNext == TypeOK /\ [Next]_vars => TypeOK'
  <1> SUFFICES ASSUME TypeOK, [Next]_vars PROVE TypeOK'
    OBVIOUS
  <1>1. ASSUME NEW a \in Admins, NEW p \in Products,
               GetProduct(a, p) \/ ListProducts(a, p)
        PROVE  TypeOK'
    BY <1>1, TypeGetProduct DEF ListProducts
  <1>2. ASSUME NEW a \in Admins, UpdateMisses(a) PROVE TypeOK'
    BY <1>2 DEF TypeOK, UpdateMisses, Exists, shelf
  <1>3. ASSUME NEW a \in Admins, Probe(a) \/ ProbeFails(a) PROVE TypeOK'
    BY <1>3 DEF TypeOK, Probe, ProbeFails, Exists, shelf
  <1>4. ASSUME NEW p \in Products, DeleteProduct(p) PROVE TypeOK'
    BY <1>4 DEF TypeOK, DeleteProduct, SoftDelete, Live, Exists
  <1>5. ASSUME NEW a \in Admins, CreateVariantFails(a) PROVE TypeOK'
    BY <1>5 DEF TypeOK, CreateVariantFails, EndOfVariant, Exists, shelf
  <1>6. ASSUME NEW c \in Categories, NEW n \in Names,
               CreateCategory(c, n) \/ UpdateCategory(c, n)
        PROVE  TypeOK'
    <2>1. /\ called' = [called EXCEPT ![c] = n]
          /\ UNCHANGED <<life, text, category, version, variant, at, held,
                         loaded, answer>>
      BY <1>6 DEF CreateCategory, UpdateCategory, SetName, shelf
    <2>2. \A d \in Categories : called[d] # None => called'[d] # None
      BY <2>1, NoneIsNoName DEF TypeOK
    <2>3. \A q \in Products : Exists(category[q])'
      BY <2>1, <2>2 DEF TypeOK, Exists
    <2>4. called' \in [Categories -> Names \cup {None}]
      BY <2>1 DEF TypeOK
    <2> QED
      BY <2>1, <2>3, <2>4 DEF TypeOK
  <1>7. CASE UNCHANGED vars
    BY <1>7 DEF TypeOK, vars, Exists
  <1> QED
    BY <1>1, <1>2, <1>3, <1>4, <1>5, <1>6, <1>7, TypeCreateProduct,
       TypeUpdateProduct, TypeLoadForVariant, TypeCreateVariant,
       TypeDeleteCategory
       DEF Next

\* Every variable has its values and products point at categories that exist.
THEOREM TypeCorrect == Spec => []TypeOK
  <1>1. Init => TypeOK
    BY TypeInit
  <1>2. TypeOK /\ [Next]_vars => TypeOK'
    BY TypeNext
  <1> QED
    BY <1>1, <1>2, PTL DEF Spec

-----------------------------------------------------------------------------
(***************************************************************************)
(* The inductive invariant                                                 *)
(***************************************************************************)

IInv == TypeOK /\ CopiesTrue /\ MissesLast /\ RefusalIsTrue

LEMMA IInit == Init => IInv
  BY TypeInit
     DEF Init, IInv, CopiesTrue, CopyTrue, MissesLast, RefusalIsTrue

\* A version only goes up, the text changes only with it, and a product that
\* was created or deleted stays so.
Onwards ==
  \A p \in Products :
    /\ life[p] # "none" => life'[p] # "none" /\ version[p] <= version'[p]
    /\ life[p] # "none" /\ ~Live(p) => ~Live(p)'
    /\ life[p] # "none" /\ version'[p] = version[p] => text'[p] = text[p]

LEMMA StepOnwards == TypeOK /\ [Next]_vars => Onwards
  <1> SUFFICES ASSUME TypeOK, [Next]_vars PROVE Onwards
    OBVIOUS
  <1> USE Counted DEF Onwards, Live
  <1>1. life \in [Products -> {"none", "live", "deleted"}]
        /\ text \in [Products -> Texts \cup {None}]
    BY DEF TypeOK
  <1>2. ASSUME NEW a \in Admins, NEW p \in Products, NEW f \in Forms,
               CreateProduct(a, p, f)
        PROVE  Onwards
    BY <1>1, <1>2 DEF CreateProduct, Insert
  <1>3. ASSUME NEW a \in Admins, NEW p \in Products, NEW f \in Forms,
               UpdateProduct(a, p, f)
        PROVE  Onwards
    BY <1>1, <1>3 DEF UpdateProduct, Replace
  <1>4. ASSUME NEW p \in Products, DeleteProduct(p) PROVE Onwards
    BY <1>1, <1>4 DEF DeleteProduct, SoftDelete
  <1>5. CASE UNCHANGED <<life, text, version>>
    BY <1>1, <1>5
  <1> QED
    BY <1>2, <1>3, <1>4, <1>5
       DEF Next, vars, shelf, GetProduct, ListProducts, LoadForVariant,
           UpdateMisses, Probe, ProbeFails, CreateVariantFails, CreateVariant,
           EndOfVariant, DeleteCategory, Drop, CreateCategory, UpdateCategory

\* A copy that is true stays true while its client reads nothing else.
LEMMA CopyKept ==
  ASSUME TypeOK, TypeOK', Onwards, NEW a \in Admins, CopyTrue(a),
         held'[a] = held[a]
  PROVE  CopyTrue(a)'
  <1> SUFFICES ASSUME (held[a] # None)'
               PROVE  (/\ life[held[a].product] # "none"
                       /\ held[a].version <= version[held[a].product]
                       /\ held[a].version = version[held[a].product]
                            => held[a].text = text[held[a].product])'
    BY Zenon DEF CopyTrue
  <1>1. held[a] # None
    OBVIOUS
  <1> DEFINE p == held[a].product
             n == held[a].version
  <1>2. p \in Products /\ n \in Nat
    BY <1>1, Holding
  <1>3. version[p] \in Nat /\ version'[p] \in Nat
    BY <1>2, Counted, CountedToo
  <1>4. /\ life[p] # "none"
        /\ n <= version[p]
        /\ n = version[p] => held[a].text = text[p]
    BY <1>1 DEF CopyTrue
  <1>5. /\ life'[p] # "none"
        /\ version[p] <= version'[p]
        /\ version'[p] = version[p] => text'[p] = text[p]
    BY <1>2, <1>4 DEF Onwards
  <1> HIDE DEF p, n
  <1>6. n <= version'[p] /\ (n = version'[p] => version[p] = version'[p])
    BY <1>2, <1>3, <1>4, <1>5
  <1> QED
    BY <1>4, <1>5, <1>6 DEF p, n

\* Whoever reads or writes a product holds what it says now; nobody else's
\* copy changes.
LEMMA CopiesNext ==
  ASSUME TypeOK, TypeOK', CopiesTrue, [Next]_vars
  PROVE  CopiesTrue'
  <1>0. /\ held \in [Admins -> Sheets \cup {None}]
        /\ life \in [Products -> {"none", "live", "deleted"}]
        /\ text \in [Products -> Texts \cup {None}]
    BY DEF TypeOK
  <1>1. \A a \in Admins : held'[a] = held[a] => CopyTrue(a)'
    BY StepOnwards, CopyKept DEF CopiesTrue
  <1>2. ASSUME NEW a \in Admins, NEW p \in Products, NEW t, NEW n \in Nat,
               Answered(a, p, t, n), life'[p] # "none", version'[p] = n,
               text'[p] = t
        PROVE  CopiesTrue'
    <2>1. held'[a] = Sheet(p, t, n)
      BY <1>0, <1>2 DEF Answered
    <2>2. \A b \in Admins : b # a => held'[b] = held[b]
      BY <1>0, <1>2 DEF Answered
    <2>3. CopyTrue(a)'
      BY <1>2, <2>1 DEF CopyTrue, Sheet
    <2> QED
      BY <1>1, <2>2, <2>3 DEF CopiesTrue
  <1>3. ASSUME NEW a \in Admins, NEW p \in Products, NEW f \in Forms,
               CreateProduct(a, p, f)
        PROVE  CopiesTrue'
    <2>1. /\ life'[p] # "none" /\ version'[p] = 1
          /\ text'[p] = normalizeProduct(f)
      BY <1>0, <1>3, Counted DEF CreateProduct, Insert
    <2>2. Answered(a, p, normalizeProduct(f), 1)
      BY <1>3 DEF CreateProduct
    <2> QED
      BY <1>2, <2>1, <2>2
  <1>4. ASSUME NEW a \in Admins, NEW p \in Products, GetProduct(a, p)
        PROVE  CopiesTrue'
    <2>1. /\ life'[p] # "none" /\ version'[p] = version[p] /\ text'[p] = text[p]
          /\ version[p] \in Nat
      BY <1>4, Counted DEF GetProduct, Published, Live, shelf
    <2>2. Answered(a, p, text[p], version[p])
      BY <1>4 DEF GetProduct
    <2> QED
      BY <1>2, <2>1, <2>2
  <1>5. ASSUME NEW a \in Admins, NEW p \in Products, NEW f \in Forms,
               UpdateProduct(a, p, f)
        PROVE  CopiesTrue'
    <2>1. version[p] + 1 \in Nat
      BY Counted
    <2>2. /\ life'[p] # "none" /\ version'[p] = version[p] + 1
          /\ text'[p] = normalizeProduct(f)
      BY <1>0, <1>5, Counted DEF UpdateProduct, Matches, Live, Replace
    <2>3. Answered(a, p, normalizeProduct(f), version[p] + 1)
      BY <1>5 DEF UpdateProduct
    <2> QED
      BY <1>2, <2>1, <2>2, <2>3
  <1>6. CASE UNCHANGED held
    BY <1>1, <1>6 DEF CopiesTrue
  <1> QED
    BY <1>3, <1>4, <1>5, <1>6
       DEF Next, vars, ListProducts, LoadForVariant, UpdateMisses, Probe,
           ProbeFails, CreateVariantFails, CreateVariant, EndOfVariant,
           DeleteProduct, DeleteCategory, CreateCategory, UpdateCategory

\* What a step is to one administrator: it leaves what they hold and were told
\* alone, answers them with a product, or is a step of their update.
LEMMA Turn ==
  ASSUME TypeOK, [Next]_vars, NEW a \in Admins
  PROVE  \/ /\ held'[a] = held[a] /\ answer'[a] = answer[a]
            /\ at'[a] = "probe" => at[a] = "probe"
         \/ answer'[a] = "none" /\ at'[a] # "probe"
         \/ UpdateMisses(a)
         \/ Probe(a)
  <1> DEFINE Kept   == /\ held'[a] = held[a] /\ answer'[a] = answer[a]
                       /\ at'[a] = "probe" => at[a] = "probe"
             Spoken == answer'[a] = "none" /\ at'[a] # "probe"
             Goal   == Kept \/ Spoken \/ UpdateMisses(a) \/ Probe(a)
  <1>0. /\ at \in [Admins -> {"idle", "probe", "variant"}]
        /\ held \in [Admins -> Sheets \cup {None}]
        /\ answer \in [Admins -> {"none", "conflict", "not found"}]
    BY DEF TypeOK
  <1>1. ASSUME NEW b \in Admins, NEW p \in Products, NEW t, NEW n,
               Answered(b, p, t, n), at[b] = "idle", UNCHANGED at
        PROVE  Goal
    BY <1>0, <1>1 DEF Answered
  <1>2. ASSUME NEW b \in Admins, NEW p \in Products, NEW f \in Forms,
               CreateProduct(b, p, f) \/ UpdateProduct(b, p, f)
        PROVE  Goal
    BY <1>1, <1>2 DEF CreateProduct, UpdateProduct
  <1>3. ASSUME NEW b \in Admins, NEW p \in Products, GetProduct(b, p)
        PROVE  Goal
    BY <1>1, <1>3 DEF GetProduct
  <1>4. ASSUME NEW b \in Admins, NEW p \in Products, LoadForVariant(b, p)
        PROVE  Goal
    BY <1>0, <1>4 DEF LoadForVariant
  <1>5. ASSUME NEW b \in Admins, UpdateMisses(b) PROVE Goal
    <2>1. b # a => Kept
      BY <1>0, <1>5 DEF UpdateMisses
    <2> QED
      BY <1>5, <2>1
  <1>6. ASSUME NEW b \in Admins, Probe(b) PROVE Goal
    <2>1. b # a => Kept
      BY <1>0, <1>6 DEF Probe
    <2> QED
      BY <1>6, <2>1
  <1>7. ASSUME NEW b \in Admins, at' = [at EXCEPT ![b] = "idle"],
               UNCHANGED <<held, answer>>
        PROVE  Goal
    BY <1>0, <1>7
  <1>8. CASE UNCHANGED <<at, held, answer>>
    BY <1>8
  <1>9. ASSUME NEW b \in Admins,
               \/ ProbeFails(b) \/ CreateVariantFails(b)
               \/ \E v \in Variants, n \in Prices \cup {None} : CreateVariant(b, v, n)
        PROVE  Goal
    BY <1>7, <1>9 DEF ProbeFails, CreateVariantFails, CreateVariant, EndOfVariant
  <1>10. Goal
    BY <1>2, <1>3, <1>4, <1>5, <1>6, <1>8, <1>9
       DEF Next, vars, ListProducts, DeleteProduct, DeleteCategory,
           CreateCategory, UpdateCategory
  <1> QED
    BY <1>10

LEMMA MissesNext ==
  ASSUME TypeOK, CopiesTrue, MissesLast, [Next]_vars
  PROVE  MissesLast'
  <1> SUFFICES ASSUME NEW a \in Admins, at'[a] = "probe"
               PROVE  ~Matches(a)'
    BY DEF MissesLast
  <1>1. CASE UpdateMisses(a)
    BY <1>1 DEF UpdateMisses, Matches, Live, shelf
  <1>2. CASE held'[a] = held[a] /\ at[a] = "probe"
    <2>1. held[a] # None /\ ~Matches(a) /\ CopyTrue(a)
      BY <1>2 DEF TypeOK, MissesLast, CopiesTrue
    <2> DEFINE p == held[a].product
               n == held[a].version
    <2>2. p \in Products /\ n \in Nat /\ version[p] \in Nat
      BY <2>1, Holding, Counted
    <2>3. Onwards
      BY StepOnwards
    <2>4. CASE ~Live(p)
      <3>1. ~Live(p)'
        BY <1>2, <2>1, <2>2, <2>3, <2>4 DEF CopyTrue, Onwards, Live
      <3> QED
        BY <1>2, <3>1 DEF Matches, Live
    <2>5. CASE Live(p)
      <3>1. version[p] # n /\ n <= version[p] /\ version[p] <= version'[p]
        BY <2>1, <2>2, <2>3, <2>5 DEF CopyTrue, Onwards, Matches, Live
      <3>2. CASE version'[p] = n
        BY <2>2, <3>1, <3>2
      <3>3. CASE version'[p] # n
        BY <1>2, <3>3 DEF Matches
      <3> QED
        BY <3>2, <3>3
    <2> QED
      BY <2>4, <2>5
  <1>3. CASE Probe(a)
    BY <1>3 DEF Probe, TypeOK
  <1> QED
    BY <1>1, <1>2, <1>3, Turn

\* What was true of a refusal stays true: versions only go up, and a deleted
\* product stays deleted.
LEMMA RefusalNext ==
  ASSUME TypeOK, TypeOK', CopiesTrue, MissesLast, RefusalIsTrue, [Next]_vars
  PROVE  RefusalIsTrue'
  <1> SUFFICES ASSUME NEW a \in Admins, answer'[a] # "none"
               PROVE  /\ answer'[a] = "conflict" =>
                           /\ held'[a] # None
                           /\ held'[a].version < version'[held'[a].product]
                      /\ answer'[a] = "not found" =>
                           held'[a] # None /\ life'[held'[a].product] # "live"
    BY DEF RefusalIsTrue, Live
  <1>0. Onwards /\ answer'[a] \in {"conflict", "not found"}
    BY StepOnwards DEF TypeOK
  <1>5. answer \in [Admins -> {"none", "conflict", "not found"}]
    BY DEF TypeOK
  <1>1. ASSUME NEW p, NEW n, held[a] # None, p = held[a].product,
               n = held[a].version, held'[a] = held[a]
        PROVE  /\ n < version[p] => n < version'[p]
               /\ life[p] # "live" => life'[p] # "live"
    <2>1. p \in Products /\ n \in Nat /\ version[p] \in Nat
      BY <1>1, Holding, Counted
    <2>2. version'[p] \in Nat
      BY <2>1, CountedToo
    <2>3. life[p] # "none"
      BY <1>1 DEF CopiesTrue, CopyTrue
    <2>4. version[p] <= version'[p]
      BY <1>0, <2>1, <2>3 DEF Onwards
    <2>5. life[p] # "live" => life'[p] # "live"
      BY <1>0, <2>1, <2>3 DEF Onwards, Live
    <2> QED
      BY <2>1, <2>2, <2>4, <2>5
  <1>2. CASE held'[a] = held[a] /\ answer'[a] = answer[a]
    <2>1. /\ held[a] # None
          /\ answer[a] = "conflict" => held[a].version < version[held[a].product]
          /\ answer[a] = "not found" => life[held[a].product] # "live"
      BY <1>0, <1>2 DEF RefusalIsTrue, Live
    <2> QED
      BY <1>1, <1>2, <2>1
  <1>3. CASE Probe(a)
    <2>1. at[a] = "probe" /\ held'[a] = held[a]
      BY <1>3 DEF Probe
    <2>2. held[a] # None /\ ~Matches(a) /\ CopyTrue(a)
      BY <2>1 DEF TypeOK, MissesLast, CopiesTrue
    <2>3. PICK p, n : p = held[a].product /\ n = held[a].version
      OBVIOUS
    <2>4. p \in Products /\ n \in Nat /\ version[p] \in Nat
      BY <2>2, <2>3, Holding, Counted
    <2>5. answer'[a] = IF life[p] = "live" THEN "conflict" ELSE "not found"
      BY <1>5, <1>3, <2>3 DEF Probe, existsLive, Live
    <2>6. life[p] = "live" => n # version[p]
      BY <2>2, <2>3 DEF Matches, Live
    <2>7. n <= version[p]
      BY <2>2, <2>3 DEF CopyTrue
    <2>8. life[p] = "live" => n < version[p]
      BY <2>4, <2>6, <2>7
    <2> QED
      BY <1>1, <2>1, <2>2, <2>3, <2>5, <2>8
  <1>4. CASE UpdateMisses(a)
    BY <1>5, <1>4 DEF UpdateMisses
  <1> QED
    BY <1>2, <1>3, <1>4, Turn

LEMMA INext == IInv /\ [Next]_vars => IInv'
  BY TypeNext, CopiesNext, MissesNext, RefusalNext DEF IInv

LEMMA Invariance == Spec => []IInv
  <1> QED
    BY IInit, INext, PTL DEF Spec

\* A 409 or a 404 is true when it is said, although a second statement decides
\* which of them it is.
THEOREM RefusalTrue == Spec => []RefusalIsTrue
  <1>1. IInv => RefusalIsTrue
    BY DEF IInv
  <1> QED
    BY <1>1, Invariance, PTL

-----------------------------------------------------------------------------
(***************************************************************************)
(* Catalog implements SerialEdits                                          *)
(***************************************************************************)

\* The two maps of the refinement, from below.
LEMMA Maps ==
  TypeOK => /\ life \in [Products -> {"none", "live", "deleted"}]
            /\ text \in [Products -> Texts \cup {None}]
            /\ held \in [Admins -> Sheets \cup {None}]
            /\ \A p \in Products : life[p] = "none" => text[p] = None
            /\ \A p \in Products : Live(p) => text[p] \in Texts
  BY DEF TypeOK, Live

\* Who is answered with a product holds its text in the abstract too.
LEMMA HoldsAnswer ==
  ASSUME TypeOK, NEW a \in Admins, NEW p \in Products, NEW t \in Texts,
         NEW n \in Nat, Answered(a, p, t, n)
  PROVE  HeldTexts' = [HeldTexts EXCEPT ![a] = Editorial!Sheet(p, t)]
  <1>1. Sheet(p, t, n) # None
    BY NoneIsNoRow DEF Sheet, Sheets
  <1>2. held' = [held EXCEPT ![a] = Sheet(p, t, n)] /\ held \in [Admins -> Sheets \cup {None}]
    BY Maps DEF Answered
  <1>3. SheetOf(Sheet(p, t, n)) = Editorial!Sheet(p, t)
    BY <1>1 DEF SheetOf, Sheet, Editorial!Sheet
  <1> QED
    BY <1>2, <1>3 DEF HeldTexts

LEMMA PageWritten ==
  ASSUME TypeOK, NEW p \in Products, NEW t, text' = [text EXCEPT ![p] = t],
         life' = [life EXCEPT ![p] = "live"]
  PROVE  PageTexts' = [PageTexts EXCEPT ![p] = t]
  BY Maps DEF PageTexts

LEMMA EditsInit == Init => Editorial!Init
  BY DEF Init, Editorial!Init, PageTexts, HeldTexts, SheetOf

LEMMA EditsStep ==
  ASSUME IInv, [Next]_vars
  PROVE  [Editorial!Next]_<<PageTexts, HeldTexts>>
  <1> USE DEF IInv
  <1>1. ASSUME NEW a \in Admins, NEW p \in Products, NEW f \in Forms,
               CreateProduct(a, p, f)
        PROVE  Editorial!Publish(a, p, normalizeProduct(f))
               /\ normalizeProduct(f) \in Texts
    <2>1. normalizeProduct(f) \in Texts
      BY <1>1, FormText DEF CreateProduct, ValidCreation
    <2>2. HeldTexts' = [HeldTexts EXCEPT ![a] = Editorial!Sheet(p, normalizeProduct(f))]
      BY <1>1, <2>1, HoldsAnswer DEF CreateProduct
    <2>3. PageTexts' = [PageTexts EXCEPT ![p] = normalizeProduct(f)]
      BY <1>1, PageWritten DEF CreateProduct, Insert
    <2>4. PageTexts[p] = None
      BY <1>1, Maps DEF CreateProduct, Insert, PageTexts
    <2> QED
      BY <2>1, <2>2, <2>3, <2>4 DEF Editorial!Publish, Editorial!Write
  <1>2. ASSUME NEW a \in Admins, NEW p \in Products, GetProduct(a, p)
        PROVE  Editorial!Read(a, p)
    <2>1. Live(p) /\ text[p] \in Texts /\ version[p] \in Nat
      BY <1>2, Maps, Counted DEF GetProduct, Published
    <2>2. PageTexts[p] = text[p] /\ PageTexts' = PageTexts
      BY <1>2, <2>1 DEF GetProduct, shelf, PageTexts, Live
    <2>3. HeldTexts' = [HeldTexts EXCEPT ![a] = Editorial!Sheet(p, text[p])]
      BY <1>2, <2>1, HoldsAnswer DEF GetProduct
    <2> QED
      BY <2>1, <2>2, <2>3 DEF Editorial!Read
  <1>3. ASSUME NEW a \in Admins, NEW p \in Products, NEW f \in Forms,
               UpdateProduct(a, p, f)
        PROVE  Editorial!Edit(a, p, normalizeProduct(f))
               /\ normalizeProduct(f) \in Texts
    <2>1. normalizeProduct(f) \in Texts
      BY <1>3, FormText DEF UpdateProduct, ValidUpdate
    <2>2. version[p] + 1 \in Nat
      BY Counted
    <2>3. HeldTexts' = [HeldTexts EXCEPT ![a] = Editorial!Sheet(p, normalizeProduct(f))]
      BY <1>3, <2>1, <2>2, HoldsAnswer DEF UpdateProduct
    <2>4. Live(p) /\ held[a] # None /\ held[a].product = p
          /\ held[a].version = version[p]
      BY <1>3 DEF UpdateProduct, Matches
    <2>5. life' = [life EXCEPT ![p] = "live"]
      BY <1>3, <2>4, Maps DEF UpdateProduct, Live
    <2>6. PageTexts' = [PageTexts EXCEPT ![p] = normalizeProduct(f)]
      BY <1>3, <2>5, PageWritten DEF UpdateProduct, Replace
    <2>7. held[a].text = text[p]
      BY <2>4 DEF CopiesTrue, CopyTrue
    <2>8. HeldTexts[a] = Editorial!Sheet(p, PageTexts[p])
      BY <2>4, <2>7 DEF HeldTexts, SheetOf, Editorial!Sheet, PageTexts, Live
    <2> QED
      BY <2>1, <2>3, <2>6, <2>8 DEF Editorial!Edit, Editorial!Write
  <1>4. ASSUME NEW p \in Products, DeleteProduct(p)
        PROVE  Editorial!TakeDown(p)
    <2>1. text[p] \in Texts /\ PageTexts[p] = text[p]
      BY <1>4, Maps DEF DeleteProduct, SoftDelete, PageTexts, Live
    <2>2. PageTexts' = [PageTexts EXCEPT ![p] = Gone]
      BY <1>4, Maps DEF DeleteProduct, SoftDelete, PageTexts
    <2>3. HeldTexts' = HeldTexts
      BY <1>4 DEF DeleteProduct, HeldTexts
    <2> QED
      BY <2>1, <2>2, <2>3 DEF Editorial!TakeDown
  <1>5. UNCHANGED <<life, text, held>> => UNCHANGED <<PageTexts, HeldTexts>>
    BY DEF PageTexts, HeldTexts
  <1>6. \/ \E a \in Admins, p \in Products, f \in Forms :
             CreateProduct(a, p, f) \/ UpdateProduct(a, p, f)
        \/ \E a \in Admins, p \in Products : GetProduct(a, p)
        \/ \E p \in Products : DeleteProduct(p)
        \/ UNCHANGED <<life, text, held>>
    BY DEF Next, vars, shelf, ListProducts, LoadForVariant, UpdateMisses, Probe,
           ProbeFails, CreateVariantFails, CreateVariant, EndOfVariant,
           DeleteCategory, Drop, CreateCategory, UpdateCategory
  <1>7. \/ Editorial!Next
        \/ UNCHANGED <<PageTexts, HeldTexts>>
    BY <1>1, <1>2, <1>3, <1>4, <1>5, <1>6 DEF Editorial!Next
  <1> QED
    BY <1>7

\* No update is lost: whoever replaces a product has read what they replace.
THEOREM EditsSerial == Spec => EditsAreSerial
  <1>1. IInv /\ [Next]_vars => [Editorial!Next]_<<PageTexts, HeldTexts>>
    BY EditsStep
  <1> QED
    BY <1>1, EditsInit, Invariance, PTL DEF Spec, EditsAreSerial, Editorial!Spec
=============================================================================
