------------------------------ MODULE Catalogue -------------------------------
(***************************************************************************)
(* One listing of a vendor, a product or a service: its row, the images it *)
(* refers to in the object storage, its stock with and without a variant,  *)
(* the packages of a service, and the review of a customer                 *)
(* (products.model.js, services.model.js, service-packages.model.js,       *)
(* s3bucket.js).                                                           *)
(*                                                                         *)
(* A vendor and its staff edit at the same time.  An edit is a transaction *)
(* that uploads images while it holds the lock of the row, and deletes     *)
(* objects after the end of the transaction.                               *)
(***************************************************************************)
EXTENDS Reviews, FiniteSets

CONSTANTS
  Editors,      \* requests of the vendor or its staff in progress
  Requests,     \* the changes they ask for
  MaxObjects,   \* keys of objects handed out
  MaxStock,
  PackageLimit  \* packagesPerService of the plan

Objects == 1..MaxObjects
Slots == {"thumbnail", "image", "variant"}
Stock == 0..MaxStock

\* A validated body: per place of an image what becomes of it, the desired
\* variants (kept, none, or the one) and quantities, None where absent.
Request == [media : [Slots -> {"keep", "clear", "new"}],
            variants : {"keep", "none", "one"},
            stock : Stock \cup {None}, variant_stock : Stock \cup {None}]

VARIABLES
  kind,        \* "product" or "service"
  row,         \* the row, its images and its variant; None before it exists
  packages,    \* number of service_packages of the service
  held,        \* units that unreleased orders hold of the product, the variant
  storage,     \* objects in the bucket
  handed,      \* number of keys handed out
  edits,
  orphans,     \* history: objects left over by a failure, or kept on purpose
  deprived     \* history: objects deleted although a COMMIT had succeeded

media == <<storage, handed, orphans, deprived>>
vars == <<listed, reviews, kind, row, packages, held, edits, media>>

Row == [media : [Slots -> Objects \cup {None}], has_variants : BOOLEAN, stock : Stock,
        variant : [status : {"none", "active", "archived"}, stock : Stock]]

\* open until the end of the transaction; files are the objects to delete then.
Edit == [op : {"create", "update", "package"}, request : Requests \cup {None},
         new : [Slots -> Objects \cup {None}], uploaded : SUBSET Objects,
         open : BOOLEAN, files : SUBSET Objects]

ASSUME CatalogueConstants ==
  /\ MaxObjects \in Nat /\ MaxStock \in Nat /\ PackageLimit \in Nat
  /\ None \notin Objects \cup Stock \cup Row \cup Edit
  /\ Requests \subseteq Request
  /\ \A q \in Requests :
       /\ q.variants = "one" <=> q.variant_stock # None
       /\ q.variants # "one" => q.media["variant"] = "keep"

TypeOK ==
  /\ ReviewsTypeOK
  /\ kind \in {"product", "service"}
  /\ row \in Row \cup {None} /\ packages \in Nat
  /\ held \in [{"product", "variant"} -> Nat]
  /\ storage \subseteq Objects /\ handed \in 0..MaxObjects
  /\ edits \in [Editors -> Edit \cup {None}]
  /\ orphans \subseteq Objects /\ deprived \subseteq Objects

Init ==
  /\ listed = FALSE /\ ReviewsInit
  /\ kind \in {"product", "service"}
  /\ row = None /\ packages = 0
  /\ held = [p \in {"product", "variant"} |-> 0]
  /\ storage = {} /\ handed = 0
  /\ edits = [e \in Editors |-> None]
  /\ orphans = {} /\ deprived = {}

NoMedia == [s \in Slots |-> None]
ObjectsOf(r) == IF r = None THEN {} ELSE {r.media[s] : s \in Slots} \ {None}

-----------------------------------------------------------------------------
(* Edits                                                                   *)

Open(e) == edits[e] # None /\ edits[e].open

NeverLocked == FALSE                                             \* a mutant
\* FOR UPDATE of the row and, for a service, the lock of the provider.
Locked == \E e \in Editors : Open(e)

Begin(e, op, q) ==
  edits' = [edits EXCEPT ![e] =
    [op |-> op, request |-> q, new |-> NoMedia, uploaded |-> {},
     open |-> TRUE, files |-> {}]]

\* Only a product has variants and stock.
Suits(q) == kind = "service" => q.variants = "keep" /\ q.stock = None

\* The model has one listing: no second one is made.
Create(e, q) ==
  /\ edits[e] = None /\ row = None /\ ~Locked
  /\ Suits(q)
  /\ kind = "product" /\ q.variants # "one" => q.stock # None
  /\ Begin(e, "create", q)
  /\ UNCHANGED <<listed, reviews, kind, row, packages, held, media>>

\* A product with variants has no stock of its own to edit.
StockEditable(q) ==
  q.variants = "keep" /\ q.stock # None => ~row.has_variants

Update(e, q) ==
  /\ edits[e] = None /\ listed /\ ~Locked
  /\ Suits(q) /\ StockEditable(q)
  /\ Begin(e, "update", q)
  /\ UNCHANGED <<listed, reviews, kind, row, packages, held, media>>

\* The packages are counted at the beginning and the row is inserted at the end.
CreatePackage(e) ==
  /\ kind = "service"
  /\ edits[e] = None /\ listed /\ ~Locked
  /\ packages < PackageLimit
  /\ Begin(e, "package", None)
  /\ UNCHANGED <<listed, reviews, kind, row, packages, held, media>>

\* The places that still wait for their upload, in the order of the code.
Wanted(e) ==
  IF edits[e].op = "package" THEN {}
  ELSE {s \in Slots : edits[e].request.media[s] = "new" /\ edits[e].new[s] = None}
NextSlot(e) ==
  IF "thumbnail" \in Wanted(e) THEN "thumbnail"
  ELSE IF "image" \in Wanted(e) THEN "image" ELSE "variant"

\* The end of a transaction without effect: uploaded objects are to be deleted.
Undone(e) == [edits EXCEPT ![e].open = FALSE, ![e].files = edits[e].uploaded]

\* A failed call may have stored the object; a refused file stores nothing.
S3upload(o) == storage' = storage \cup {o}
S3uploadFails(o) == storage' \in {storage, storage \cup {o}}
S3delete(o) == storage' = storage \ {o}

\* The key is noted before the call.
Upload(e) ==
  LET o == handed + 1
      noted == [edits EXCEPT ![e].uploaded = @ \cup {o}]
  IN /\ Open(e) /\ Wanted(e) # {} /\ handed < MaxObjects
     /\ handed' = o
     /\ \/ /\ S3upload(o)
           /\ edits' = [noted EXCEPT ![e].new[NextSlot(e)] = o]
        \/ /\ S3uploadFails(o)
           /\ edits' = [noted EXCEPT ![e].open = FALSE, ![e].files = noted[e].uploaded]
     /\ UNCHANGED <<listed, reviews, kind, row, packages, held, orphans, deprived>>

\* A later check or statement fails.
Fail(e) ==
  /\ Open(e)
  /\ edits' = Undone(e)
  /\ UNCHANGED <<listed, reviews, kind, row, packages, held, media>>

-----------------------------------------------------------------------------
(* What an edit writes                                                     *)

NewMedia(e, old) ==
  [s \in Slots |-> CASE edits[e].request.media[s] = "keep" -> old[s]
                     [] edits[e].request.media[s] = "clear" -> None
                     [] OTHER -> edits[e].new[s]]

\* saveVariants: omitted variants are archived, with their quantity.
NewVariant(q, old) ==
  CASE q.variants = "one" -> [status |-> "active", stock |-> q.variant_stock]
    [] q.variants = "none" /\ old.status = "active" -> [old EXCEPT !.status = "archived"]
    [] OTHER -> old

HasVariants(q, old) == IF q.variants = "keep" THEN old.has_variants ELSE q.variants = "one"

NewStockRevived(q, old) ==                                       \* a mutant
  IF HasVariants(q, old) \/ q.stock = None THEN old.stock ELSE q.stock
NewStock(q, old) ==
  CASE HasVariants(q, old) -> old.stock
    [] ~HasVariants(q, old) /\ q.stock # None -> q.stock
    [] old.has_variants /\ q.variants = "none" /\ q.stock = None -> 0
    [] OTHER -> old.stock

Before == IF row # None THEN row ELSE
  [media |-> NoMedia, has_variants |-> FALSE, stock |-> 0,
   variant |-> [status |-> "none", stock |-> 0]]

Written(e) ==
  LET q == edits[e].request
  IN [media |-> NewMedia(e, Before.media), has_variants |-> HasVariants(q, Before),
      stock |-> NewStock(q, Before), variant |-> NewVariant(q, Before.variant)]

Save(e) ==
  IF edits[e].op = "package"
    THEN packages' = packages + 1 /\ UNCHANGED <<listed, row>>
    ELSE /\ row' = Written(e)
         /\ listed' = TRUE
         /\ UNCHANGED packages

Replaced(e) ==
  IF edits[e].op = "package" THEN {}
    ELSE ObjectsOf(row) \ {Written(e).media[s] : s \in Slots}

\* A product deletes what it replaced; a service retains it.
Commit(e) ==
  /\ Open(e) /\ Wanted(e) = {}
  /\ Save(e)
  /\ LET obsolete == IF kind = "product" THEN Replaced(e) ELSE {}
     IN /\ edits' = [edits EXCEPT ![e].open = FALSE, ![e].files = obsolete]
        /\ orphans' = orphans \cup (Replaced(e) \ obsolete)
  /\ UNCHANGED <<reviews, kind, held, storage, handed, deprived>>

\* The answer to COMMIT is lost: the row is written and the code believes it is not.
CommitUnanswered(e) ==
  /\ Open(e) /\ Wanted(e) = {}
  /\ Save(e)
  /\ edits' = Undone(e)
  /\ orphans' = orphans \cup Replaced(e)
  /\ deprived' = deprived \cup edits[e].uploaded
  /\ UNCHANGED <<reviews, kind, held, storage, handed>>

\* Three attempts for a product, one for a service; a failure is logged.
Cleanup(e) ==
  /\ edits[e] # None /\ ~edits[e].open
  /\ \E o \in edits[e].files :
       /\ edits' = [edits EXCEPT ![e].files = @ \ {o}]
       /\ \/ S3delete(o) /\ UNCHANGED orphans
          \/ orphans' = orphans \cup {o} /\ UNCHANGED storage
  /\ UNCHANGED <<listed, reviews, kind, row, packages, held, handed, deprived>>

Answer(e) ==
  /\ edits[e] # None /\ ~edits[e].open /\ edits[e].files = {}
  /\ edits' = [edits EXCEPT ![e] = None]
  /\ UNCHANGED <<listed, reviews, kind, row, packages, held, media>>

\* The server stops: the transaction is rolled back and nothing is deleted.
Crash(e) ==
  /\ edits[e] # None
  /\ orphans' = orphans \cup edits[e].files
                  \cup (IF edits[e].open THEN edits[e].uploaded ELSE {})
  /\ edits' = [edits EXCEPT ![e] = None]
  /\ UNCHANGED <<listed, reviews, kind, row, packages, held, storage, handed, deprived>>

-----------------------------------------------------------------------------
(* Deletion and stock                                                      *)

DeleteListing ==
  /\ listed /\ ~Locked
  /\ listed' = FALSE
  /\ UNCHANGED <<reviews, kind, row, packages, held, edits, media>>

DeletePackage ==
  /\ packages > 0 /\ listed /\ ~Locked
  /\ packages' = packages - 1
  /\ UNCHANGED <<listed, reviews, kind, row, held, edits, media>>

\* What a cart can buy while the vendor keeps the product active; the status is
\* left out.  productStockSql computes the same for the lists.
Sellable ==
  IF ~listed \/ kind = "service" THEN 0
  ELSE IF ~row.has_variants THEN row.stock
  ELSE IF row.variant.status = "active" THEN row.variant.stock ELSE 0

\* quote locks the row of the product, so that a checkout waits for an edit.
Reserve ==
  /\ ~Locked /\ Sellable > 0
  /\ IF row.has_variants
       THEN /\ row' = [row EXCEPT !.variant.stock = @ - 1]
            /\ held' = [held EXCEPT !["variant"] = @ + 1]
       ELSE /\ row' = [row EXCEPT !.stock = @ - 1]
            /\ held' = [held EXCEPT !["product"] = @ + 1]
  /\ UNCHANGED <<listed, reviews, kind, packages, edits, media>>

\* releaseReservation gives units back where they came from.
ReleaseProduct ==
  /\ ~Locked /\ held["product"] > 0 /\ row.stock < MaxStock
  /\ row' = [row EXCEPT !.stock = @ + 1]
  /\ held' = [held EXCEPT !["product"] = @ - 1]
  /\ UNCHANGED <<listed, reviews, kind, packages, edits, media>>

ReleaseVariant ==
  /\ held["variant"] > 0 /\ row.variant.stock < MaxStock
  /\ row' = [row EXCEPT !.variant.stock = @ + 1]
  /\ held' = [held EXCEPT !["variant"] = @ - 1]
  /\ UNCHANGED <<listed, reviews, kind, packages, edits, media>>

\* A delivered order holds nothing.
Deliver(p) ==
  /\ held[p] > 0
  /\ held' = [held EXCEPT ![p] = @ - 1]
  /\ UNCHANGED <<listed, reviews, kind, row, packages, edits, media>>

-----------------------------------------------------------------------------

Next ==
  \/ ReviewsNext /\ UNCHANGED <<listed, kind, row, packages, held, edits, media>>
  \/ \E e \in Editors :
       \/ CreatePackage(e) \/ \E q \in Requests : Create(e, q) \/ Update(e, q)
       \/ Upload(e) \/ Fail(e) \/ Commit(e) \/ CommitUnanswered(e)
       \/ Cleanup(e) \/ Answer(e) \/ Crash(e)
  \/ DeleteListing \/ DeletePackage
  \/ Reserve \/ ReleaseProduct \/ ReleaseVariant
  \/ \E p \in {"product", "variant"} : Deliver(p)

Spec == Init /\ [][Next]_vars

-----------------------------------------------------------------------------
(* Properties                                                              *)

InProgress(e) ==
  IF edits[e] = None THEN {}
  ELSE edits[e].files \cup (IF edits[e].open THEN edits[e].uploaded ELSE {})

\* What a listing refers to is in the storage unless the answer to its COMMIT
\* was lost; what is in the storage is referred to, about to be used or deleted,
\* or accounted for by a failure or by the services' keeping of old objects.
\* The packages of a service stay within the plan.  Edits of several members
\* of the staff, their failures and crashes make no exception.
ListingConsistent ==
  /\ TypeOK
  /\ ObjectsOf(row) \subseteq storage \cup deprived
  /\ storage \subseteq ObjectsOf(row) \cup orphans \cup UNION {InProgress(e) : e \in Editors}
  /\ packages <= PackageLimit

Stated(q) == IF q.variants = "one" THEN q.variant_stock ELSE q.stock

\* More becomes sellable only by the release of a reservation or by a quantity
\* that the vendor states in that edit: no switch between variants and a simple
\* product, in any sequence with orders, revives an older quantity.
NothingRevived ==
  [][ Sellable' > Sellable =>
        \/ \E p \in {"product", "variant"} : held'[p] < held[p]
        \/ \E e \in Editors :
             Open(e) /\ edits'[e] # edits[e] /\ Sellable' = Stated(edits[e].request) ]_vars

=============================================================================
