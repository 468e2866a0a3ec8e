--------------------------- MODULE CatalogueProofs ----------------------------
(***************************************************************************)
(* Proofs about Catalogue and Reviews for every number of editors,         *)
(* moderators, reviews, revisions, objects and units.                      *)
(***************************************************************************)
EXTENDS Catalogue, TLAPS

USE ReviewConstants, CatalogueConstants

-----------------------------------------------------------------------------
(* Reviews                                                                 *)

\* A page never shows a later state than the row, and the same state only if
\* it shows the row itself; ids grow, so that no page is about a later row.
PagesBehind ==
  /\ review # None => review.id = written
  /\ \A m \in Moderators : pages[m] # None =>
       /\ pages[m].id <= written
       /\ review # None /\ pages[m].id = review.id =>
            /\ pages[m].revision <= review.revision
            /\ pages[m].revision = review.revision => pages[m] = review

ReviewsInv == ReviewsTypeOK /\ PagesBehind

\* Every action on the review keeps the pages behind it.
LEMMA ReviewsStep ==
  ASSUME ReviewsInv, ReviewsNext, UNCHANGED listed
  PROVE  ReviewsInv'
<1> USE DEF ReviewsInv, ReviewsTypeOK, PagesBehind, Review, Statuses
<1>1. CASE OrderChanges
  BY <1>1 DEF OrderChanges
<1>2. ASSUME NEW c \in Contents, CreateReview(c) PROVE ReviewsInv'
  BY <1>2 DEF CreateReview
<1>3. ASSUME NEW c \in Contents, UpdateReview(c) PROVE ReviewsInv'
  <2>1. review \in Review /\ review.revision + 1 \in 1..MaxRevision
    BY <1>3 DEF UpdateReview
  <2>2. /\ review' \in Review
        /\ review'.id = review.id /\ review'.revision = review.revision + 1
    BY <1>3, <2>1 DEF UpdateReview, Edited
  <2>3. UNCHANGED <<listed, purchased, written, pages>>
    BY <1>3 DEF UpdateReview
  <2>4. review # None
    BY <1>3 DEF UpdateReview
  <2> QED
    BY <2>1, <2>2, <2>3, <2>4
<1>4. CASE DeleteReview
  BY <1>4 DEF DeleteReview
<1>5. ASSUME NEW m \in Moderators, ViewReview(m) PROVE ReviewsInv'
  BY <1>5 DEF ViewReview
<1>6. ASSUME NEW m \in Moderators, NEW status \in Statuses, ModerateReview(m, status)
      PROVE  ReviewsInv'
  <2>1. review \in Review /\ review.revision + 1 \in 1..MaxRevision
    BY <1>6 DEF ModerateReview, Accepted
  <2>2. /\ review' \in Review
        /\ review'.id = review.id /\ review'.revision = review.revision + 1
    BY <1>6, <2>1 DEF ModerateReview
  <2>3. UNCHANGED <<listed, purchased, written, pages>>
    BY <1>6 DEF ModerateReview
  <2>4. review # None
    BY <1>6 DEF ModerateReview, Accepted
  <2> QED
    BY <2>1, <2>2, <2>3, <2>4
<1> QED
  BY <1>1, <1>2, <1>3, <1>4, <1>5, <1>6 DEF ReviewsNext

\* So does a step of the listing.
LEMMA ReviewsQuiet ==
  ASSUME ReviewsInv, UNCHANGED reviews, listed' \in BOOLEAN
  PROVE  ReviewsInv'
BY DEF ReviewsInv, ReviewsTypeOK, PagesBehind, Review, Statuses, reviews

\* What is behind the row with the row's revision is the row.
LEMMA ReviewsShown == ReviewsInv => DecidesOnWhatIsShown
BY DEF ReviewsInv, ReviewsTypeOK, PagesBehind, DecidesOnWhatIsShown, Accepted, Review

-----------------------------------------------------------------------------
(* The inductive invariant                                                 *)

\* The row lock: at most one transaction of an edit is open.
OneEditor == \A e, f \in Editors : Open(e) /\ Open(f) => e = f

\* What an open transaction relies on since it took the lock.
EditsSound ==
  \A e \in Editors : Open(e) =>
    /\ edits[e].files = {}
    /\ edits[e].op \in {"create", "update"} => edits[e].request \in Requests
    /\ edits[e].op = "create" =>
         /\ row = None
         /\ kind = "product" /\ edits[e].request.variants # "one" => edits[e].request.stock # None
    /\ edits[e].op # "create" => listed
    /\ edits[e].op = "package" => packages < PackageLimit

\* A row stays; orders hold units of an existing row only.
RowExists ==
  /\ listed => row # None
  /\ \A p \in {"product", "variant"} : held[p] > 0 => row # None

\* Keys are fresh: what is being uploaded is in the storage and nobody's else;
\* what is being deleted is not in use.
ObjectsSeparate ==
  /\ ObjectsOf(row) \subseteq 1..handed
  /\ \A e \in Editors : Open(e) =>
       /\ edits[e].uploaded \subseteq 1..handed
       /\ \A s \in Slots : edits[e].new[s] # None =>
            edits[e].new[s] \in edits[e].uploaded \cap storage
       /\ \A o \in edits[e].uploaded : \E s \in Slots :
            edits[e].new[s] = o /\ edits[e].op # "package" /\ edits[e].request.media[s] = "new"
       /\ edits[e].uploaded \cap ObjectsOf(row) = {}
  /\ \A e \in Editors : edits[e] # None /\ ~edits[e].open =>
       /\ edits[e].files \subseteq 1..handed
       /\ edits[e].files \cap ObjectsOf(row) \subseteq deprived
       /\ \A f \in Editors : Open(f) => edits[e].files \cap edits[f].uploaded = {}

CatalogueInv ==
  ReviewsInv /\ ListingConsistent /\ OneEditor /\ EditsSound /\ RowExists /\ ObjectsSeparate

-----------------------------------------------------------------------------
(* Beginning and end of an edit                                            *)

\* What every proof about an edit needs to know about it.
LEMMA EditTypes ==
  ASSUME TypeOK, NEW e \in Editors, edits[e] # None
  PROVE  /\ edits[e] \in Edit
         /\ edits[e].uploaded \subseteq Objects /\ edits[e].files \subseteq Objects
         /\ edits[e].new \in [Slots -> Objects \cup {None}]
BY DEF TypeOK, Edit

\* Nothing of the listing changes; one edit does.
LEMMA BeginStep ==
  ASSUME CatalogueInv, NEW e \in Editors, NEW op \in {"create", "update", "package"},
         NEW q \in Requests \cup {None},
         edits[e] = None, ~Locked, Begin(e, op, q),
         UNCHANGED <<listed, reviews, kind, row, packages, held, media>>,
         op # "package" => q \in Requests,
         op = "create" => row = None /\ (kind = "product" /\ q.variants # "one" => q.stock # None),
         op # "create" => listed,
         op = "package" => packages < PackageLimit
  PROVE  CatalogueInv'
<1> DEFINE new == [op |-> op, request |-> q, new |-> NoMedia, uploaded |-> {},
                   open |-> TRUE, files |-> {}]
<1>1. /\ edits' = [edits EXCEPT ![e] = new]
      /\ edits \in [Editors -> Edit \cup {None}]
  BY DEF Begin, CatalogueInv, ListingConsistent, TypeOK
<1>2. new \in Edit
  BY DEF Edit, NoMedia
<1>3. /\ edits'[e] = new
      /\ \A f \in Editors \ {e} : edits'[f] = edits[f]
  BY <1>1
<1>4. /\ new.open /\ new.files = {} /\ new.uploaded = {} /\ new.op = op /\ new.request = q
      /\ \A s \in Slots : new.new[s] = None
  BY DEF NoMedia
<1>5. UNCHANGED <<listed, kind, row, packages, held, storage, handed, orphans, deprived>>
  BY DEF media
<1>6. ReviewsInv'
  BY ReviewsQuiet, <1>5 DEF CatalogueInv, ListingConsistent, TypeOK, ReviewsTypeOK
<1> HIDE DEF new
<1>7. \A f \in Editors : ~Open(f)
  BY DEF Locked
<1>8. TypeOK'
  BY <1>1, <1>2, <1>5, <1>6 DEF CatalogueInv, ListingConsistent, TypeOK, ReviewsInv
<1>9. \A f \in Editors : Open(f)' => f = e
  BY <1>3, <1>7 DEF Open
<1>10. \A f \in Editors : InProgress(f)' = InProgress(f)
  BY <1>3, <1>4 DEF InProgress
<1>11. ListingConsistent'
  BY <1>5, <1>8, <1>10 DEF CatalogueInv, ListingConsistent, ObjectsOf
<1>12. OneEditor' /\ EditsSound' /\ RowExists'
  BY <1>3, <1>4, <1>5, <1>9 DEF CatalogueInv, OneEditor, EditsSound, RowExists
<1>13. ObjectsSeparate'
  BY <1>3, <1>4, <1>5, <1>9 DEF CatalogueInv, ObjectsSeparate, ObjectsOf
<1> QED
  BY <1>6, <1>11, <1>12, <1>13 DEF CatalogueInv

\* A transaction ends without effect: its uploads are to be deleted.
LEMMA FailStep ==
  ASSUME CatalogueInv, NEW e \in Editors, Open(e), edits' = Undone(e),
         UNCHANGED <<listed, reviews, kind, row, packages, held, media>>
  PROVE  CatalogueInv'
<1>1. /\ edits \in [Editors -> Edit \cup {None}]
      /\ edits[e] # None /\ edits[e] \in Edit
  BY EditTypes DEF CatalogueInv, ListingConsistent, TypeOK, Open
<1>2. /\ edits'[e] = [edits[e] EXCEPT !.open = FALSE, !.files = edits[e].uploaded]
      /\ \A f \in Editors \ {e} : edits'[f] = edits[f]
  BY <1>1 DEF Undone
<1>3. /\ edits'[e] \in Edit /\ ~edits'[e].open
      /\ edits'[e].files = edits[e].uploaded
  BY <1>1, <1>2 DEF Edit
<1>4. UNCHANGED <<listed, kind, row, packages, held, storage, handed, orphans, deprived>>
  BY DEF media
<1>5. ReviewsInv'
  BY ReviewsQuiet, <1>4 DEF CatalogueInv, ListingConsistent, TypeOK, ReviewsTypeOK
<1>6. edits' \in [Editors -> Edit \cup {None}]
  BY <1>1, <1>2, <1>3 DEF Undone
<1>7. TypeOK'
  BY <1>4, <1>5, <1>6 DEF CatalogueInv, ListingConsistent, TypeOK, ReviewsInv
<1>8. /\ \A f \in Editors : Open(f)' => f # e /\ Open(f)
      /\ \A f \in Editors : Open(f) => f = e
  BY <1>2, <1>3 DEF Open, CatalogueInv, OneEditor
<1>9. \A f \in Editors : InProgress(f) \subseteq InProgress(f)'
  BY <1>1, <1>2, <1>3 DEF InProgress, CatalogueInv, EditsSound, Open
<1>10. ListingConsistent'
  BY <1>4, <1>7, <1>9 DEF CatalogueInv, ListingConsistent, ObjectsOf
<1>11. OneEditor' /\ EditsSound' /\ RowExists'
  BY <1>4, <1>8 DEF CatalogueInv, OneEditor, EditsSound, RowExists
<1>12. ObjectsSeparate'
  <2>1. ObjectsOf(row)' = ObjectsOf(row)
    BY <1>4 DEF ObjectsOf
  <2>2. \A f \in Editors : ~Open(f)'
    BY <1>8
  <2>3. /\ edits'[e].files \subseteq 1..handed
        /\ edits'[e].files \cap ObjectsOf(row) = {}
    BY <1>3 DEF CatalogueInv, ObjectsSeparate
  <2>4. ASSUME NEW f \in Editors \ {e}, edits[f] # None, ~edits[f].open
        PROVE  /\ edits[f].files \subseteq 1..handed
               /\ edits[f].files \cap ObjectsOf(row) \subseteq deprived
    BY <2>4 DEF CatalogueInv, ObjectsSeparate
  <2>5. ObjectsOf(row) \subseteq 1..handed
    BY DEF CatalogueInv, ObjectsSeparate
  <2> QED
    BY <1>2, <1>4, <2>1, <2>2, <2>3, <2>4, <2>5 DEF ObjectsSeparate
<1> QED
  BY <1>5, <1>10, <1>11, <1>12 DEF CatalogueInv

\* An upload, whether it ends well or not, has a key of its own.
LEMMA UploadStep ==
  ASSUME CatalogueInv, NEW e \in Editors, Upload(e)
  PROVE  CatalogueInv'
<1> DEFINE o == handed + 1
<1>1. /\ Open(e) /\ edits[e] # None /\ edits[e] \in Edit
      /\ edits \in [Editors -> Edit \cup {None}]
      /\ handed \in Nat /\ o \in Objects /\ handed' = o /\ o \notin 1..handed
  BY EditTypes DEF CatalogueInv, ListingConsistent, TypeOK, Open, Upload, Objects
<1>2. NextSlot(e) \in Slots
  BY DEF NextSlot, Slots
<1>3. UNCHANGED <<listed, reviews, kind, row, packages, held, orphans, deprived>>
  BY DEF Upload
<1>4. /\ edits'[e] \in Edit
      /\ \A f \in Editors \ {e} : edits'[f] = edits[f]
      /\ edits'[e].op = edits[e].op /\ edits'[e].request = edits[e].request
      /\ edits'[e].uploaded = edits[e].uploaded \cup {o}
      /\ storage \subseteq storage' /\ storage' \subseteq storage \cup {o}
      /\ \/ /\ edits'[e].open /\ edits'[e].files = edits[e].files
            /\ o \in storage'
            /\ edits'[e].new = [edits[e].new EXCEPT ![NextSlot(e)] = o]
         \/ ~edits'[e].open /\ edits'[e].files = edits[e].uploaded \cup {o}
      /\ edits' \in [Editors -> Edit \cup {None}]
  <2> DEFINE noted == [edits EXCEPT ![e].uploaded = @ \cup {o}]
  <2>1. /\ noted[e] = [edits[e] EXCEPT !.uploaded = @ \cup {o}]
        /\ \A f \in Editors \ {e} : noted[f] = edits[f]
        /\ noted[e] \in Edit
        /\ noted \in [Editors -> Edit \cup {None}]
        /\ noted[e].uploaded = edits[e].uploaded \cup {o}
        /\ noted[e].op = edits[e].op /\ noted[e].request = edits[e].request
        /\ noted[e].new = edits[e].new /\ noted[e].open /\ noted[e].files = edits[e].files
    BY <1>1 DEF Edit, Open
  <2>2. CASE /\ storage' = storage \cup {o}
             /\ edits' = [noted EXCEPT ![e].new[NextSlot(e)] = o]
    <3> HIDE DEF noted
    <3>1. edits'[e] = [noted[e] EXCEPT !.new[NextSlot(e)] = o]
      BY <2>1, <2>2
    <3>2. noted[e].new \in [Slots -> Objects \cup {None}]
      BY <2>1 DEF Edit
    <3>3. edits'[e] \in Edit
      <4> DEFINE new == [noted[e].new EXCEPT ![NextSlot(e)] = o]
      <4>1. edits'[e] = [noted[e] EXCEPT !.new = new]
        BY <3>1
      <4>2. new \in [Slots -> Objects \cup {None}]
        BY <1>1, <3>2
      <4> HIDE DEF new
      <4> QED
        BY <2>1, <4>1, <4>2 DEF Edit
    <3> QED
      BY <1>1, <1>2, <2>1, <2>2, <3>1, <3>2, <3>3 DEF Edit
  <2>3. CASE /\ storage' \in {storage, storage \cup {o}}
             /\ edits' = [noted EXCEPT ![e].open = FALSE, ![e].files = noted[e].uploaded]
    <3> HIDE DEF noted
    <3>1. edits'[e] = [noted[e] EXCEPT !.open = FALSE, !.files = noted[e].uploaded]
      BY <2>1, <2>3
    <3>2. edits'[e] \in Edit
      BY <2>1, <3>1 DEF Edit
    <3> QED
      BY <2>1, <2>3, <3>1, <3>2 DEF Edit
  <2> QED
    BY <2>2, <2>3 DEF Upload, S3upload, S3uploadFails
<1>5. ReviewsInv'
  BY ReviewsQuiet, <1>3 DEF CatalogueInv, ListingConsistent, TypeOK, ReviewsTypeOK
<1>6. TypeOK'
  BY <1>1, <1>3, <1>4, <1>5 DEF CatalogueInv, ListingConsistent, TypeOK, ReviewsInv, Objects
<1>7. \A f \in Editors : /\ Open(f)' => f = e
                         /\ Open(f) <=> f = e
  BY <1>1, <1>4 DEF Open, CatalogueInv, OneEditor
<1>8. /\ \A f \in Editors : InProgress(f) \subseteq InProgress(f)'
      /\ o \in InProgress(e)'
  BY <1>1, <1>4, <1>7 DEF InProgress, CatalogueInv, EditsSound, Open
<1>9. ListingConsistent'
  BY <1>3, <1>4, <1>6, <1>8 DEF CatalogueInv, ListingConsistent, ObjectsOf
<1> HIDE DEF o
<1>10. OneEditor'
  <2> SUFFICES ASSUME NEW f \in Editors, NEW g \in Editors, Open(f)', Open(g)'
               PROVE  f = g
    BY Zenon DEF OneEditor
  <2> QED
    BY <1>7, Zenon
<1>13. RowExists'
  BY <1>3, Zenon DEF CatalogueInv, RowExists
<1>11. EditsSound'
  <2> SUFFICES ASSUME Open(e)'
               PROVE  /\ edits'[e].files = {}
                      /\ edits'[e].op \in {"create", "update"} => edits'[e].request \in Requests
                      /\ edits'[e].op = "create" =>
                           /\ row' = None
                           /\ kind' = "product" /\ edits'[e].request.variants # "one" => edits'[e].request.stock # None
                      /\ edits'[e].op # "create" => listed'
                      /\ edits'[e].op = "package" => packages' < PackageLimit
    BY <1>7 DEF EditsSound, Open
  <2>1. edits'[e].files = edits[e].files
    BY <1>4 DEF Open
  <2> QED
    BY <1>1, <1>3, <1>4, <2>1 DEF CatalogueInv, EditsSound
<1>12. ObjectsSeparate'
  <2>1. ObjectsOf(row)' = ObjectsOf(row)
    BY <1>3 DEF ObjectsOf
  <2>2. /\ ObjectsOf(row) \subseteq 1..handed /\ 1..handed \subseteq 1..handed'
        /\ edits[e].uploaded \subseteq 1..handed /\ o \in 1..handed'
        /\ edits[e].uploaded \cap ObjectsOf(row) = {}
        /\ \A s \in Slots : edits[e].new[s] # None =>
             edits[e].new[s] \in edits[e].uploaded \cap storage
    BY <1>1 DEF CatalogueInv, ObjectsSeparate, o
  <2>3. ASSUME Open(e)'
        PROVE  \A s \in Slots : edits'[e].new[s] # None =>
                 edits'[e].new[s] \in edits'[e].uploaded \cap storage'
    BY <1>1, <1>2, <1>4, <2>2, <2>3 DEF Open, Edit
  <2>8. ASSUME Open(e)', NEW x \in edits'[e].uploaded
        PROVE  \E s \in Slots : edits'[e].new[s] = x /\ edits'[e].op # "package"
                                /\ edits'[e].request.media[s] = "new"
    <3>1. /\ NextSlot(e) \in Wanted(e)
          /\ edits[e].op # "package" /\ edits[e].request.media[NextSlot(e)] = "new"
          /\ edits[e].new[NextSlot(e)] = None
      BY DEF Upload, Wanted, NextSlot, Slots
    <3>2. edits'[e].new = [edits[e].new EXCEPT ![NextSlot(e)] = o]
      BY <1>4, <2>8 DEF Open
    <3>3. edits[e].new \in [Slots -> Objects \cup {None}]
      BY <1>1 DEF Edit
    <3>4. CASE x = o
      BY <1>2, <1>4, <3>1, <3>2, <3>3, <3>4
    <3>5. CASE x \in edits[e].uploaded
      <4>1. PICK s \in Slots : edits[e].new[s] = x /\ edits[e].request.media[s] = "new"
        BY <1>1, <3>5 DEF CatalogueInv, ObjectsSeparate
      <4>2. x # None
        BY <1>1, <3>5 DEF Edit
      <4> QED
        BY <1>4, <3>1, <3>2, <3>3, <4>1, <4>2
    <3> QED
      BY <1>4, <2>8, <3>4, <3>5
  <2>4. ASSUME NEW f \in Editors \ {e}, edits[f] # None, ~edits[f].open
        PROVE  /\ edits[f].files \subseteq 1..handed'
               /\ edits[f].files \cap ObjectsOf(row) \subseteq deprived
               /\ edits[f].files \cap edits'[e].uploaded = {}
    BY <1>1, <1>4, <2>2, <2>4 DEF CatalogueInv, ObjectsSeparate
  <2>5. ASSUME ~edits'[e].open
        PROVE  /\ edits'[e].files \subseteq 1..handed'
               /\ edits'[e].files \cap ObjectsOf(row) \subseteq deprived
    BY <1>1, <1>4, <2>2, <2>5
  <2>6. ASSUME Open(e)'
        PROVE  /\ edits'[e].uploaded \subseteq 1..handed'
               /\ edits'[e].uploaded \cap ObjectsOf(row) = {}
    BY <1>1, <1>4, <2>2
  <2>7. ~edits'[e].open => ~Open(e)'
    BY DEF Open
  <2> QED
    BY <1>3, <1>4, <1>7, <2>1, <2>2, <2>3, <2>4, <2>5, <2>6, <2>7, <2>8 DEF ObjectsSeparate, Open
<1> QED
  BY <1>5, <1>9, <1>10, <1>11, <1>12, <1>13 DEF CatalogueInv

-----------------------------------------------------------------------------
(* Commits                                                                 *)

\* The row an edit writes: typed, with images of the old row and its own.
LEMMA WrittenRow ==
  ASSUME CatalogueInv, NEW e \in Editors, Open(e), edits[e].op # "package",
         Wanted(e) = {}
  PROVE  /\ Written(e) \in Row
         /\ {Written(e).media[s] : s \in Slots} \ {None}
              \subseteq ObjectsOf(row) \cup (edits[e].uploaded \cap storage)
<1> DEFINE q == edits[e].request
<1>1. /\ edits[e] \in Edit /\ edits[e].new \in [Slots -> Objects \cup {None}]
      /\ edits[e].op \in {"create", "update"} /\ q \in Requests
  BY EditTypes DEF CatalogueInv, ListingConsistent, Open, EditsSound, Edit
<1>2. /\ q \in Request
      /\ q.variants = "one" => q.variant_stock \in Stock
  BY <1>1 DEF Request
<1>3. Before \in Row
  BY DEF Before, Row, NoMedia, Stock, CatalogueInv, ListingConsistent, TypeOK
<1>4. NewMedia(e, Before.media) \in [Slots -> Objects \cup {None}]
  BY <1>1, <1>2, <1>3 DEF NewMedia, Row, Request
<1>5. \A s \in Slots : NewMedia(e, Before.media)[s] \in
        {None} \cup ObjectsOf(row) \cup (edits[e].uploaded \cap storage)
  <2> SUFFICES ASSUME NEW s \in Slots
               PROVE  NewMedia(e, Before.media)[s] \in
                        {None} \cup ObjectsOf(row) \cup (edits[e].uploaded \cap storage)
    OBVIOUS
  <2>1. CASE q.media[s] = "keep"
    <3>1. NewMedia(e, Before.media)[s] = Before.media[s]
      BY <2>1 DEF NewMedia
    <3>2. Before.media[s] \in {None} \cup ObjectsOf(row)
      BY DEF Before, NoMedia, ObjectsOf
    <3> QED
      BY <3>1, <3>2
  <2>2. CASE q.media[s] = "clear"
    BY <2>2 DEF NewMedia
  <2>3. CASE q.media[s] = "new"
    <3>1. NewMedia(e, Before.media)[s] = edits[e].new[s]
      BY <2>3 DEF NewMedia
    <3>2. edits[e].new[s] # None
      BY <2>3 DEF Wanted
    <3> QED
      BY <3>1, <3>2 DEF CatalogueInv, ObjectsSeparate
  <2>4. q.media[s] \in {"keep", "clear", "new"}
    BY <1>2 DEF Request
  <2> QED
    BY <2>1, <2>2, <2>3, <2>4
<1>6. NewVariant(q, Before.variant) \in [status : {"none", "active", "archived"}, stock : Stock]
  BY <1>2, <1>3 DEF NewVariant, Row
<1>7. HasVariants(q, Before) \in BOOLEAN
  BY <1>2, <1>3 DEF HasVariants, Row
<1>8. NewStock(q, Before) \in Stock
  BY <1>2, <1>3, <1>7 DEF NewStock, Row, Request, Stock
<1>9. /\ Written(e) = [media |-> NewMedia(e, Before.media), has_variants |-> HasVariants(q, Before),
                       stock |-> NewStock(q, Before), variant |-> NewVariant(q, Before.variant)]
      /\ Written(e).media = NewMedia(e, Before.media)
  BY DEF Written
<1>10. Written(e) \in Row
  BY <1>4, <1>6, <1>7, <1>8, <1>9 DEF Row
<1> QED
  BY <1>5, <1>9, <1>10

\* Both ends of a transaction that commits: the files to delete are its own
\* uploads, then counted as deprived, or what the new row no longer refers to.
LEMMA SaveStep ==
  ASSUME CatalogueInv, NEW e \in Editors, Open(e), Wanted(e) = {}, Save(e),
         NEW files \in SUBSET Objects,
         edits' = [edits EXCEPT ![e].open = FALSE, ![e].files = files],
         UNCHANGED <<reviews, kind, held, storage, handed>>,
         orphans \subseteq orphans', orphans' \subseteq Objects,
         deprived \subseteq deprived', deprived' \subseteq Objects,
         Replaced(e) \subseteq files \cup orphans',
         \/ files \subseteq Replaced(e)
         \/ files = edits[e].uploaded /\ files \subseteq deprived'
  PROVE  CatalogueInv'
<1>1. /\ edits \in [Editors -> Edit \cup {None}]
      /\ edits[e] # None /\ edits[e] \in Edit /\ edits[e].files = {}
  BY EditTypes DEF CatalogueInv, ListingConsistent, TypeOK, Open, EditsSound
<1>2. /\ edits'[e] = [edits[e] EXCEPT !.open = FALSE, !.files = files]
      /\ \A f \in Editors \ {e} : edits'[f] = edits[f]
  BY <1>1
<1>3. /\ edits'[e] \in Edit /\ edits'[e] # None /\ ~edits'[e].open
      /\ edits'[e].files = files
      /\ edits' \in [Editors -> Edit \cup {None}]
  BY <1>1, <1>2 DEF Edit
<1>4. /\ row' \in Row \cup {None} /\ row' # None /\ listed' = TRUE /\ packages' \in Nat
      /\ packages' <= PackageLimit
      /\ ObjectsOf(row') \subseteq ObjectsOf(row) \cup (edits[e].uploaded \cap storage)
      /\ edits[e].uploaded \subseteq ObjectsOf(row')
      /\ Replaced(e) = ObjectsOf(row) \ ObjectsOf(row')
  <2>1. CASE edits[e].op = "package"
    <3>1. /\ listed /\ listed' = listed /\ row' = row /\ packages' = packages + 1
          /\ packages < PackageLimit
      BY <2>1 DEF CatalogueInv, EditsSound, Save
    <3>2. edits[e].uploaded = {}
      BY <2>1 DEF CatalogueInv, ObjectsSeparate
    <3>3. ObjectsOf(row') = ObjectsOf(row)
      BY <3>1
    <3> QED
      BY <2>1, <3>1, <3>2, <3>3 DEF CatalogueInv, ListingConsistent, TypeOK, ReviewsTypeOK, RowExists, Replaced
  <2>2. CASE edits[e].op # "package"
    <3>1. row' = Written(e) /\ listed' = TRUE /\ packages' = packages
      BY <2>2 DEF Save
    <3>2. /\ row' \in Row /\ row' # None
          /\ ObjectsOf(row') = {Written(e).media[s] : s \in Slots} \ {None}
      BY <2>2, <3>1, WrittenRow DEF ObjectsOf
    <3>3. edits[e].uploaded \subseteq ObjectsOf(row')
      <4> SUFFICES ASSUME NEW x \in edits[e].uploaded
                   PROVE  x \in ObjectsOf(row')
        OBVIOUS
      <4>1. PICK s \in Slots : edits[e].new[s] = x /\ edits[e].request.media[s] = "new"
        BY DEF CatalogueInv, ObjectsSeparate
      <4>2. Written(e).media[s] = x
        BY <4>1 DEF Written, NewMedia
      <4>3. x # None
        BY <1>1 DEF Edit
      <4> QED
        BY <3>2, <4>2, <4>3
    <3>4. Replaced(e) = ObjectsOf(row) \ ObjectsOf(row')
      <4>1. None \notin ObjectsOf(row)
        BY DEF ObjectsOf
      <4> QED
        BY <2>2, <3>2, <4>1 DEF Replaced
    <3> QED
      BY <2>2, <3>1, <3>2, <3>3, <3>4, WrittenRow DEF CatalogueInv, ListingConsistent, TypeOK
  <2> QED
    BY <2>1, <2>2
<1>5. ReviewsInv'
  BY ReviewsQuiet, <1>4 DEF CatalogueInv
<1>6. TypeOK'
  BY <1>3, <1>4, <1>5 DEF CatalogueInv, ListingConsistent, TypeOK, ReviewsInv
<1>7. /\ \A f \in Editors : ~Open(f)'
      /\ \A f \in Editors : Open(f) => f = e
  BY <1>2, <1>3 DEF Open, CatalogueInv, OneEditor
<1>8. /\ \A f \in Editors \ {e} : InProgress(f)' = InProgress(f)
      /\ InProgress(e)' = files
      /\ InProgress(e) = edits[e].uploaded
  BY <1>1, <1>2, <1>3 DEF InProgress, Open
<1>9. ObjectsOf(row') \subseteq storage \cup deprived'
  BY <1>4 DEF CatalogueInv, ListingConsistent
<1>10. storage \subseteq ObjectsOf(row') \cup orphans' \cup UNION {InProgress(f)' : f \in Editors}
  <2> SUFFICES ASSUME NEW x \in storage, x \notin ObjectsOf(row'), x \notin orphans'
               PROVE  \E f \in Editors : x \in InProgress(f)'
    OBVIOUS
  <2>1. x \in ObjectsOf(row) \/ \E f \in Editors : x \in InProgress(f)
    BY DEF CatalogueInv, ListingConsistent
  <2> QED
    BY <1>4, <1>8, <2>1
<1>11. ListingConsistent'
  BY <1>4, <1>6, <1>9, <1>10 DEF ListingConsistent
<1>12. OneEditor' /\ EditsSound' /\ RowExists'
  BY <1>4, <1>7 DEF OneEditor, EditsSound, RowExists
<1>13. ObjectsSeparate'
  <2>1. ObjectsOf(row') \subseteq 1..handed /\ files \subseteq 1..handed
    BY <1>4 DEF CatalogueInv, ObjectsSeparate
  <2>2. files \cap ObjectsOf(row') \subseteq deprived'
    BY <1>4
  <2>3. ASSUME NEW f \in Editors \ {e}, edits[f] # None, ~edits[f].open
        PROVE  /\ edits[f].files \subseteq 1..handed
               /\ edits[f].files \cap ObjectsOf(row') \subseteq deprived'
    BY <1>4, <2>3 DEF CatalogueInv, ObjectsSeparate
  <2> QED
    BY <1>2, <1>3, <1>7, <2>1, <2>2, <2>3 DEF ObjectsSeparate
<1> QED
  BY <1>5, <1>11, <1>12, <1>13 DEF CatalogueInv

\* A commit, answered or not, is such a step.
LEMMA CommitStep ==
  ASSUME CatalogueInv, NEW e \in Editors, Commit(e) \/ CommitUnanswered(e)
  PROVE  CatalogueInv'
<1> USE DEF reviews
<1>1. /\ edits[e] # None /\ edits[e] \in Edit /\ Open(e) /\ Wanted(e) = {} /\ Save(e)
      /\ edits[e].uploaded \subseteq Objects
      /\ orphans \subseteq Objects /\ deprived \subseteq Objects
      /\ ObjectsOf(row) \subseteq Objects
  <2>1. /\ edits[e] # None /\ Open(e) /\ Wanted(e) = {} /\ Save(e)
    BY DEF Commit, CommitUnanswered, Open
  <2>2. ObjectsOf(row) \subseteq Objects
    BY DEF ObjectsOf, Row, CatalogueInv, ListingConsistent, TypeOK
  <2> QED
    BY <2>1, <2>2, EditTypes DEF CatalogueInv, ListingConsistent, TypeOK
<1>2. Replaced(e) \subseteq Objects
  BY <1>1 DEF Replaced
<1>3. CASE Commit(e)
  <2> DEFINE obsolete == IF kind = "product" THEN Replaced(e) ELSE {}
  <2>1. /\ edits' = [edits EXCEPT ![e].open = FALSE, ![e].files = obsolete]
        /\ orphans' = orphans \cup (Replaced(e) \ obsolete)
        /\ UNCHANGED <<reviews, kind, held, storage, handed, deprived>>
    BY <1>3 DEF Commit
  <2>2. obsolete \subseteq Replaced(e)
    OBVIOUS
  <2> HIDE DEF obsolete
  <2> QED
    BY SaveStep, <1>1, <1>2, <2>1, <2>2
<1>4. CASE CommitUnanswered(e)
  BY SaveStep, <1>1, <1>2, <1>4 DEF CommitUnanswered, Undone
<1> QED
  BY <1>3, <1>4

-----------------------------------------------------------------------------
(* After the end of a transaction                                          *)

\* A step that only takes objects out of the storage, and edits away, keeps
\* the invariant if what it loses track of is an orphan and what it deletes
\* was to be deleted.
LEMMA CleanupStep ==
  ASSUME CatalogueInv, NEW e \in Editors, Cleanup(e)
  PROVE  CatalogueInv'
<1>1. /\ edits \in [Editors -> Edit \cup {None}]
      /\ edits[e] # None /\ edits[e] \in Edit /\ ~edits[e].open
  BY EditTypes DEF CatalogueInv, ListingConsistent, TypeOK, Cleanup
<1>2. PICK o \in edits[e].files :
        /\ edits' = [edits EXCEPT ![e].files = @ \ {o}]
        /\ \/ storage' = storage \ {o} /\ UNCHANGED orphans
           \/ orphans' = orphans \cup {o} /\ UNCHANGED storage
  BY DEF Cleanup, S3delete
<1>3. /\ edits'[e] = [edits[e] EXCEPT !.files = @ \ {o}]
      /\ \A f \in Editors \ {e} : edits'[f] = edits[f]
  BY <1>1, <1>2
<1>4. /\ edits'[e] \in Edit /\ edits'[e] # None /\ ~edits'[e].open
      /\ edits'[e].files = edits[e].files \ {o}
      /\ edits' \in [Editors -> Edit \cup {None}]
      /\ o \in Objects
  BY <1>1, <1>2, <1>3 DEF Edit
<1>5. UNCHANGED <<listed, reviews, kind, row, packages, held, handed, deprived>>
  BY DEF Cleanup
<1>6. ReviewsInv'
  BY ReviewsQuiet, <1>5 DEF CatalogueInv, ListingConsistent, TypeOK, ReviewsTypeOK
<1>7. TypeOK'
  BY <1>2, <1>4, <1>5, <1>6 DEF CatalogueInv, ListingConsistent, TypeOK, ReviewsInv
<1>8. \A f \in Editors : /\ Open(f)' <=> Open(f)
                         /\ Open(f) => f # e
  BY <1>1, <1>3, <1>4 DEF Open
<1>9. /\ \A f \in Editors \ {e} : InProgress(f)' = InProgress(f)
      /\ InProgress(e)' = InProgress(e) \ {o}
  BY <1>1, <1>3, <1>4 DEF InProgress
<1>10. /\ ObjectsOf(row)' = ObjectsOf(row)
       /\ edits[e].files \cap ObjectsOf(row) \subseteq deprived
       /\ \A f \in Editors : Open(f) => edits[e].files \cap edits[f].uploaded = {}
  BY <1>1, <1>5 DEF CatalogueInv, ObjectsSeparate, ObjectsOf
<1>11. ListingConsistent'
  <2>1. ObjectsOf(row) \subseteq storage' \cup deprived
    BY <1>2, <1>10 DEF CatalogueInv, ListingConsistent
  <2>2. storage' \subseteq ObjectsOf(row) \cup orphans' \cup UNION {InProgress(f)' : f \in Editors}
    <3> SUFFICES ASSUME NEW x \in storage', x \notin ObjectsOf(row), x \notin orphans'
                 PROVE  \E f \in Editors : x \in InProgress(f)'
      OBVIOUS
    <3>1. x \in storage /\ x \notin orphans /\ x # o
      BY <1>2
    <3>2. PICK f \in Editors : x \in InProgress(f)
      BY <3>1 DEF CatalogueInv, ListingConsistent
    <3> QED
      BY <1>9, <3>1, <3>2
  <2> QED
    BY <1>5, <1>7, <1>10, <2>1, <2>2 DEF CatalogueInv, ListingConsistent
<1>12. OneEditor' /\ EditsSound' /\ RowExists'
  <2>1. OneEditor' /\ RowExists'
    BY <1>5, <1>8 DEF CatalogueInv, OneEditor, RowExists
  <2>2. EditsSound'
    BY <1>3, <1>5, <1>8 DEF CatalogueInv, EditsSound
  <2> QED
    BY <2>1, <2>2
<1>13. ObjectsSeparate'
  <2>1. ASSUME NEW f \in Editors, Open(f)
        PROVE  /\ edits'[f] = edits[f]
               /\ edits[f].uploaded \subseteq 1..handed
               /\ edits[f].uploaded \cap ObjectsOf(row) = {}
               /\ edits[e].files \cap edits[f].uploaded = {}
               /\ \A s \in Slots : edits[f].new[s] # None =>
                    edits[f].new[s] \in edits[f].uploaded \cap storage'
               /\ \A x \in edits[f].uploaded : \E s \in Slots :
                    edits[f].new[s] = x /\ edits[f].op # "package"
                    /\ edits[f].request.media[s] = "new"
    BY <1>2, <1>3, <1>8, <1>10, <2>1 DEF CatalogueInv, ObjectsSeparate
  <2>2. ASSUME NEW f \in Editors, edits'[f] # None, ~edits'[f].open
        PROVE  /\ edits[f] # None /\ ~edits[f].open
               /\ edits'[f].files \subseteq edits[f].files
               /\ edits[f].files \subseteq 1..handed
               /\ edits[f].files \cap ObjectsOf(row) \subseteq deprived
               /\ \A g \in Editors : Open(g) => edits[f].files \cap edits[g].uploaded = {}
    <3>1. edits[f] # None /\ ~edits[f].open /\ edits'[f].files \subseteq edits[f].files
      BY <1>1, <1>3, <1>4, <2>2
    <3> QED
      BY <3>1 DEF CatalogueInv, ObjectsSeparate
  <2>3. ObjectsOf(row) \subseteq 1..handed
    BY DEF CatalogueInv, ObjectsSeparate
  <2> QED
    BY <1>5, <1>8, <1>10, <2>1, <2>2, <2>3 DEF ObjectsSeparate
<1> QED
  BY <1>6, <1>11, <1>12, <1>13 DEF CatalogueInv

\* The request is over: what it leaves behind is accounted for.
LEMMA EndStep ==
  ASSUME CatalogueInv, NEW e \in Editors, edits[e] # None,
         edits' = [edits EXCEPT ![e] = None],
         UNCHANGED <<listed, reviews, kind, row, packages, held, storage, handed, deprived>>,
         orphans' = orphans \cup InProgress(e)
  PROVE  CatalogueInv'
<1>1. /\ edits \in [Editors -> Edit \cup {None}]
      /\ edits[e] \in Edit /\ InProgress(e) \subseteq Objects
  BY EditTypes DEF CatalogueInv, ListingConsistent, TypeOK, InProgress
<1>2. /\ edits'[e] = None
      /\ \A f \in Editors \ {e} : edits'[f] = edits[f]
      /\ edits' \in [Editors -> Edit \cup {None}]
  BY <1>1
<1>3. ReviewsInv'
  BY ReviewsQuiet DEF CatalogueInv, ListingConsistent, TypeOK, ReviewsTypeOK
<1>4. TypeOK'
  BY <1>1, <1>2, <1>3 DEF CatalogueInv, ListingConsistent, TypeOK, ReviewsInv
<1>5. \A f \in Editors : Open(f)' => f # e /\ Open(f)
  BY <1>2 DEF Open
<1>6. \A f \in Editors \ {e} : InProgress(f)' = InProgress(f)
  BY <1>2 DEF InProgress
<1>7. ObjectsOf(row)' = ObjectsOf(row)
  BY DEF ObjectsOf
<1>8. ListingConsistent'
  <2>1. storage \subseteq ObjectsOf(row) \cup orphans' \cup UNION {InProgress(f)' : f \in Editors}
    BY <1>6 DEF CatalogueInv, ListingConsistent
  <2> QED
    BY <1>4, <1>7, <2>1 DEF CatalogueInv, ListingConsistent
<1>9. OneEditor' /\ EditsSound' /\ RowExists'
  BY <1>2, <1>5 DEF CatalogueInv, OneEditor, EditsSound, RowExists
<1>10. ObjectsSeparate'
  BY <1>2, <1>5, <1>7 DEF CatalogueInv, ObjectsSeparate
<1> QED
  BY <1>3, <1>8, <1>9, <1>10 DEF CatalogueInv

-----------------------------------------------------------------------------
(* Deletion and stock                                                      *)

\* A step that leaves the images of an existing row and every edit as they are.
LEMMA QuietStep ==
  ASSUME CatalogueInv, UNCHANGED <<reviews, kind, edits, media>>,
         row # None, row' \in Row, row'.media = row.media,
         held' \in [{"product", "variant"} -> Nat],
         packages' \in 0..packages,
         listed' \in BOOLEAN, listed' => listed, listed => listed' \/ ~Locked
  PROVE  CatalogueInv'
<1>1. /\ UNCHANGED <<storage, handed, orphans, deprived, kind, edits>>
      /\ row' # None /\ listed' \in BOOLEAN /\ packages \in Nat
  BY DEF media, CatalogueInv, ListingConsistent, TypeOK, ReviewsTypeOK
<1>2. ReviewsInv'
  BY ReviewsQuiet, <1>1 DEF CatalogueInv
<1>3. TypeOK'
  BY <1>1, <1>2 DEF CatalogueInv, ListingConsistent, TypeOK, ReviewsInv
<1>4. ObjectsOf(row)' = ObjectsOf(row)
  BY <1>1 DEF ObjectsOf
<1>5. \A f \in Editors : /\ Open(f)' <=> Open(f)
                         /\ InProgress(f)' = InProgress(f)
  BY <1>1 DEF Open, InProgress
<1>6. ListingConsistent'
  BY <1>1, <1>3, <1>4, <1>5 DEF CatalogueInv, ListingConsistent
<1>7. OneEditor' /\ RowExists'
  BY <1>1, <1>5 DEF CatalogueInv, OneEditor, RowExists
<1>8. EditsSound'
  <2> SUFFICES ASSUME NEW f \in Editors, Open(f)
               PROVE  /\ edits[f].files = {}
                      /\ edits[f].op \in {"create", "update"} => edits[f].request \in Requests
                      /\ edits[f].op # "create"
                      /\ listed'
                      /\ edits[f].op = "package" => packages' < PackageLimit
    BY <1>1, <1>5 DEF EditsSound
  <2>1. edits[f].op # "create"
    BY DEF CatalogueInv, EditsSound
  <2> QED
    BY <1>1, <2>1 DEF CatalogueInv, EditsSound, Locked
<1>9. ObjectsSeparate'
  BY <1>1, <1>4, <1>5 DEF CatalogueInv, ObjectsSeparate
<1> QED
  BY <1>2, <1>6, <1>7, <1>8, <1>9 DEF CatalogueInv

-----------------------------------------------------------------------------
(* The invariant                                                           *)

\* There is nothing at first.
LEMMA InitInv == Init => CatalogueInv
<1> SUFFICES ASSUME Init PROVE CatalogueInv
  OBVIOUS
<1>1. ReviewsInv
  <2>1. /\ review = None /\ written = 0 /\ purchased = FALSE /\ listed = FALSE
        /\ pages = [m \in Moderators |-> None]
    BY DEF Init, ReviewsInit
  <2>2. ReviewsTypeOK
    <3>1. purchased \in BOOLEAN /\ listed \in BOOLEAN
      BY <2>1, Zenon
    <3>2. /\ review \in Review \cup {None} /\ written \in 0..MaxReviews
          /\ pages \in [Moderators -> Review \cup {None}]
      BY <2>1
    <3> QED
      BY <3>1, <3>2 DEF ReviewsTypeOK
  <2>3. PagesBehind
    BY <2>1 DEF PagesBehind
  <2> QED
    BY <2>2, <2>3 DEF ReviewsInv
<1>2. /\ row = None /\ listed = FALSE /\ storage = {} /\ packages = 0
      /\ \A p \in {"product", "variant"} : held[p] = 0
      /\ \A e \in Editors : edits[e] = None
  BY DEF Init
<1>3. TypeOK
  BY <1>1 DEF Init, TypeOK, ReviewsInv
<1>4. ListingConsistent
  BY <1>2, <1>3 DEF ListingConsistent, ObjectsOf
<1>5. OneEditor /\ EditsSound /\ RowExists /\ ObjectsSeparate
  BY <1>2 DEF OneEditor, EditsSound, RowExists, ObjectsSeparate, Open, ObjectsOf
<1> QED
  BY <1>1, <1>4, <1>5 DEF CatalogueInv

\* The first step of each of the three edits.
LEMMA BeginSteps ==
  ASSUME CatalogueInv, NEW e \in Editors,
         CreatePackage(e) \/ \E q \in Requests : Create(e, q) \/ Update(e, q)
  PROVE  CatalogueInv'
<1>1. CASE CreatePackage(e)
  BY <1>1, BeginStep DEF CreatePackage
<1>2. ASSUME NEW q \in Requests, Create(e, q) PROVE CatalogueInv'
  BY <1>2, BeginStep DEF Create
<1>3. ASSUME NEW q \in Requests, Update(e, q) PROVE CatalogueInv'
  BY <1>3, BeginStep DEF Update
<1> QED
  BY <1>1, <1>2, <1>3

\* What a row and its counters are when there is one.
LEMMA RowTypes ==
  ASSUME CatalogueInv
  PROVE  /\ listed \in BOOLEAN /\ packages \in Nat
         /\ held \in [{"product", "variant"} -> Nat]
         /\ listed \/ (\E p \in {"product", "variant"} : held[p] > 0) =>
              /\ row # None /\ row \in Row
              /\ row.stock \in Stock
              /\ row.variant \in [status : {"none", "active", "archived"}, stock : Stock]
              /\ row.variant.stock \in Stock
BY DEF CatalogueInv, ListingConsistent, TypeOK, ReviewsTypeOK, RowExists, Row

\* A reservation and its release keep the row in its type.
LEMMA StockSteps ==
  ASSUME CatalogueInv, Reserve \/ ReleaseProduct \/ ReleaseVariant
  PROVE  CatalogueInv'
<1> USE DEF Stock
<1>1. CASE Reserve
  <2>1. /\ listed /\ row # None /\ row \in Row
        /\ row.stock \in Stock /\ row.variant.stock \in Stock
        /\ row.variant \in [status : {"none", "active", "archived"}, stock : Stock]
    BY <1>1, RowTypes DEF Reserve, Sellable
  <2>2. CASE row.has_variants
    <3>1. row.variant.stock - 1 \in Stock
      BY <1>1, <2>1, <2>2 DEF Reserve, Sellable
    <3>2. row' = [row EXCEPT !.variant = [row.variant EXCEPT !.stock = row.variant.stock - 1]]
      BY <1>1, <2>1, <2>2 DEF Reserve, Row
    <3>3. row' \in Row /\ row'.media = row.media
      BY <2>1, <3>1, <3>2 DEF Row
    <3>4. held' \in [{"product", "variant"} -> Nat]
      BY <1>1, <2>2, RowTypes DEF Reserve
    <3> QED
      BY <1>1, <2>1, <3>3, <3>4, RowTypes, QuietStep DEF Reserve
  <2>3. CASE ~row.has_variants
    <3>1. row.stock - 1 \in Stock
      BY <1>1, <2>1, <2>3 DEF Reserve, Sellable
    <3>2. row' = [row EXCEPT !.stock = row.stock - 1]
      BY <1>1, <2>3 DEF Reserve
    <3>3. row' \in Row /\ row'.media = row.media
      BY <2>1, <3>1, <3>2 DEF Row
    <3>4. held' \in [{"product", "variant"} -> Nat]
      BY <1>1, <2>3, RowTypes DEF Reserve
    <3> QED
      BY <1>1, <2>1, <3>3, <3>4, RowTypes, QuietStep DEF Reserve
  <2> QED
    BY <2>2, <2>3
<1>2. CASE ReleaseProduct
  <2>1. row # None /\ row \in Row /\ row.stock + 1 \in Stock
    BY <1>2, RowTypes DEF ReleaseProduct
  <2>2. row' = [row EXCEPT !.stock = row.stock + 1]
    BY <1>2 DEF ReleaseProduct
  <2>3. row' \in Row /\ row'.media = row.media
    BY <2>1, <2>2 DEF Row
  <2>4. held' \in [{"product", "variant"} -> Nat]
    BY <1>2, RowTypes DEF ReleaseProduct
  <2> QED
    BY <1>2, <2>1, <2>3, <2>4, RowTypes, QuietStep DEF ReleaseProduct
<1>3. CASE ReleaseVariant
  <2>1. /\ row # None /\ row \in Row /\ row.variant.stock + 1 \in Stock
        /\ row.variant \in [status : {"none", "active", "archived"}, stock : Stock]
    BY <1>3, RowTypes DEF ReleaseVariant
  <2>2. row' = [row EXCEPT !.variant = [row.variant EXCEPT !.stock = row.variant.stock + 1]]
    BY <1>3, <2>1 DEF ReleaseVariant, Row
  <2>3. row' \in Row /\ row'.media = row.media
    BY <2>1, <2>2 DEF Row
  <2>4. held' \in [{"product", "variant"} -> Nat]
    BY <1>3, RowTypes DEF ReleaseVariant
  <2> QED
    BY <1>3, <2>1, <2>3, <2>4, RowTypes, QuietStep DEF ReleaseVariant
<1> QED
  BY <1>1, <1>2, <1>3

\* Every step keeps the invariant.
LEMMA NextInv == CatalogueInv /\ [Next]_vars => CatalogueInv'
<1> SUFFICES ASSUME CatalogueInv, [Next]_vars PROVE CatalogueInv'
  OBVIOUS
<1>1. CASE UNCHANGED vars
  <2>1. UNCHANGED <<listed, reviews, kind, row, packages, held, edits, media>>
    BY <1>1 DEF vars
  <2>2. ReviewsInv'
    BY <2>1, ReviewsQuiet, RowTypes DEF CatalogueInv
  <2>3. UNCHANGED <<storage, handed, orphans, deprived>>
    BY <2>1 DEF media
  <2>4. /\ \A f \in Editors : Open(f)' = Open(f) /\ InProgress(f)' = InProgress(f)
        /\ ObjectsOf(row)' = ObjectsOf(row)
    BY <2>1 DEF Open, InProgress, ObjectsOf
  <2>5. ListingConsistent'
    BY <2>1, <2>2, <2>3, <2>4
       DEF CatalogueInv, ListingConsistent, TypeOK, ReviewsInv
  <2> QED
    BY <2>1, <2>2, <2>3, <2>4, <2>5
       DEF CatalogueInv, OneEditor, EditsSound, RowExists, ObjectsSeparate
<1>2. CASE ReviewsNext /\ UNCHANGED <<listed, kind, row, packages, held, edits, media>>
  <2>1. ReviewsInv'
    BY <1>2, ReviewsStep DEF CatalogueInv
  <2>2. UNCHANGED <<storage, handed, orphans, deprived>>
    BY <1>2 DEF media
  <2>3. /\ \A f \in Editors : Open(f)' = Open(f) /\ InProgress(f)' = InProgress(f)
        /\ ObjectsOf(row)' = ObjectsOf(row)
    BY <1>2 DEF Open, InProgress, ObjectsOf
  <2>4. ListingConsistent'
    BY <1>2, <2>1, <2>2, <2>3
       DEF CatalogueInv, ListingConsistent, TypeOK, ReviewsInv
  <2> QED
    BY <1>2, <2>1, <2>2, <2>3, <2>4
       DEF CatalogueInv, OneEditor, EditsSound, RowExists, ObjectsSeparate
<1>3. ASSUME NEW e \in Editors,
             CreatePackage(e) \/ \E q \in Requests : Create(e, q) \/ Update(e, q)
      PROVE  CatalogueInv'
  BY <1>3, BeginSteps
<1>4. ASSUME NEW e \in Editors, Upload(e) PROVE CatalogueInv'
  BY <1>4, UploadStep
<1>5. ASSUME NEW e \in Editors, Fail(e) PROVE CatalogueInv'
  BY <1>5, FailStep DEF Fail
<1>6. ASSUME NEW e \in Editors, Commit(e) \/ CommitUnanswered(e) PROVE CatalogueInv'
  BY <1>6, CommitStep
<1>7. ASSUME NEW e \in Editors, Cleanup(e) PROVE CatalogueInv'
  BY <1>7, CleanupStep
<1>8. ASSUME NEW e \in Editors, Answer(e) PROVE CatalogueInv'
  BY <1>8, EndStep DEF Answer, InProgress, media
<1>9. ASSUME NEW e \in Editors, Crash(e) PROVE CatalogueInv'
  <2>1. edits[e].files \cup (IF edits[e].open THEN edits[e].uploaded ELSE {}) = InProgress(e)
    BY <1>9 DEF Crash, InProgress
  <2> QED
    BY <1>9, <2>1, EndStep DEF Crash
<1>10. CASE DeleteListing
  <2>1. /\ UNCHANGED <<reviews, kind, edits, media, row, held, packages>>
        /\ listed' = FALSE /\ ~Locked
    BY <1>10 DEF DeleteListing
  <2>2. row # None /\ row \in Row /\ packages \in Nat
    BY <1>10, RowTypes DEF DeleteListing
  <2>3. listed' \in BOOLEAN /\ (listed' => listed)
    BY <2>1
  <2> QED
    BY <2>1, <2>2, <2>3, RowTypes, QuietStep
<1>11. CASE DeletePackage
  BY <1>11, RowTypes, QuietStep DEF DeletePackage
<1>12. CASE Reserve \/ ReleaseProduct \/ ReleaseVariant
  BY <1>12, StockSteps
<1>13. ASSUME NEW p \in {"product", "variant"}, Deliver(p) PROVE CatalogueInv'
  BY <1>13, RowTypes, QuietStep DEF Deliver
<1> QED
  BY <1>1, <1>2, <1>3, <1>4, <1>5, <1>6, <1>7, <1>8, <1>9, <1>10, <1>11, <1>12, <1>13 DEF Next

\* The invariant holds of every reachable state (products.model.js,
\* services.model.js, review.model.js).
THEOREM Invariant == Spec => []CatalogueInv
<1>1. Init => CatalogueInv
  BY InitInv
<1>2. CatalogueInv /\ [Next]_vars => CatalogueInv'
  BY NextInv
<1> QED
  BY <1>1, <1>2, PTL DEF Spec

\* No decision of a moderator is about a text or a status other than the one on
\* its page, however many moderators, edits, deletions and new reviews there are
\* (ReviewModel.moderate compares id and revision).
THEOREM ModerationSafe == Spec => []DecidesOnWhatIsShown
<1>1. CatalogueInv => DecidesOnWhatIsShown
  BY ReviewsShown DEF CatalogueInv
<1> QED
  BY <1>1, Invariant, PTL

\* No edit, failure, crash or clean-up of any number of requests deletes an image
\* in use, loses track of an object or passes the plan's limit of packages, the
\* lost answer to a COMMIT excepted (products.model.js, services.model.js).
THEOREM StorageSafe == Spec => []ListingConsistent
<1>1. CatalogueInv => ListingConsistent
  BY DEF CatalogueInv
<1> QED
  BY <1>1, Invariant, PTL

-----------------------------------------------------------------------------
(* What becomes sellable                                                   *)

\* The action of NothingRevived.
Revived ==
  Sellable' > Sellable =>
    \/ \E p \in {"product", "variant"} : held'[p] < held[p]
    \/ \E e \in Editors :
         Open(e) /\ edits'[e] # edits[e] /\ Sellable' = Stated(edits[e].request)

\* What is sellable is a quantity.
LEMMA SellableType == CatalogueInv => Sellable \in Stock
BY RowTypes DEF Sellable, Stock

\* The quantity an edit makes sellable is what it found or what it states.
LEMMA WrittenQuantity ==
  ASSUME CatalogueInv, NEW e \in Editors, Open(e), edits[e].op # "package",
         Wanted(e) = {}, Save(e), UNCHANGED kind
  PROVE  Sellable' <= Sellable \/ Sellable' = Stated(edits[e].request)
<1> DEFINE q == edits[e].request
<1> DEFINE new == Written(e)
<1>1. /\ q \in Requests /\ q \in Request
      /\ q.variants \in {"keep", "none", "one"}
      /\ edits[e].op \in {"create", "update"}
      /\ edits[e].op = "create" =>
           row = None /\ (kind = "product" /\ q.variants # "one" => q.stock # None)
      /\ edits[e].op = "update" => listed /\ row # None /\ row.stock \in Stock
    <2>1. edits[e].op \in {"create", "update"}
      BY EditTypes DEF CatalogueInv, ListingConsistent, Open, Edit
    <2>2. q \in Requests /\ q \in Request
      BY <2>1 DEF CatalogueInv, EditsSound
    <2> QED
      BY <2>1, <2>2, RowTypes DEF CatalogueInv, EditsSound, Request
<1>2. /\ row' = new /\ listed' = TRUE
      /\ new.has_variants = HasVariants(q, Before)
      /\ new.stock = NewStock(q, Before)
      /\ new.variant = NewVariant(q, Before.variant)
  BY DEF Save, Written
<1>3. Sellable \in Stock /\ 0 \in Stock /\ Sellable >= 0
  BY SellableType DEF Stock
<1>4. CASE kind = "service"
  BY <1>3, <1>4 DEF Sellable
<1>5. ASSUME kind # "service", row' # None
      PROVE  Sellable' <= Sellable \/ Sellable' = Stated(q)
  <2> HIDE DEF new
  <2>1. Sellable' = IF ~new.has_variants THEN new.stock
                    ELSE IF new.variant.status = "active" THEN new.variant.stock ELSE 0
    BY <1>2, <1>5 DEF Sellable
  <2>2. CASE q.variants = "one"
    <3>1. new.has_variants
      BY <1>2, <2>2 DEF HasVariants
    <3>2. new.variant = [status |-> "active", stock |-> q.variant_stock]
      BY <1>2, <2>2 DEF NewVariant
    <3>3. Sellable' = q.variant_stock
      BY <2>1, <3>1, <3>2
    <3> QED
      BY <2>2, <3>3 DEF Stated
  <2>3. CASE q.variants = "none"
    <3>1. ~new.has_variants
      BY <1>2, <2>3 DEF HasVariants
    <3>2. CASE q.stock # None
      BY <1>2, <2>1, <2>3, <3>1, <3>2 DEF NewStock, HasVariants, Stated
    <3>3. CASE q.stock = None
      <4>1. listed /\ row # None /\ Before = row
        BY <1>1, <1>5, <2>3, <3>3 DEF Before, CatalogueInv, ListingConsistent, TypeOK
      <4>2. CASE row.has_variants
        <5>1. new.stock = 0
          BY <1>2, <2>3, <3>3, <4>1, <4>2 DEF NewStock, HasVariants
        <5> QED
          BY <1>3, <2>1, <3>1, <5>1
      <4>3. CASE ~row.has_variants
        <5>1. new.stock = row.stock
          BY <1>2, <2>3, <3>3, <4>1, <4>3 DEF NewStock, HasVariants
        <5>2. Sellable = row.stock
          BY <1>5, <4>1, <4>3 DEF Sellable
        <5> QED
          BY <1>3, <2>1, <3>1, <5>1, <5>2 DEF Stock
      <4> QED
        BY <4>2, <4>3
    <3> QED
      BY <3>2, <3>3
  <2>4. CASE q.variants = "keep"
    <3>1. new.has_variants = Before.has_variants /\ new.variant = Before.variant
      BY <1>2, <2>4 DEF HasVariants, NewVariant
    <3>2. CASE edits[e].op = "create"
      <4>1. ~Before.has_variants /\ q.stock # None
        BY <1>1, <1>5, <2>4, <3>2 DEF Before, CatalogueInv, ListingConsistent, TypeOK
      <4>2. new.stock = q.stock
        BY <1>2, <2>4, <4>1 DEF NewStock, HasVariants
      <4> QED
        BY <2>1, <2>4, <3>1, <4>1, <4>2 DEF Stated
    <3>3. CASE edits[e].op = "update"
      <4>1. listed /\ row # None /\ Before = row
        BY <1>1, <3>3 DEF Before
      <4>2. CASE row.has_variants
        <5>1. Sellable' = Sellable
          BY <1>5, <2>1, <3>1, <4>1, <4>2 DEF Sellable
        <5> QED
          BY <1>3, <5>1 DEF Stock
      <4>3. CASE ~row.has_variants
        <5>1. new.stock \in {row.stock, q.stock}
          BY <1>2, <2>4, <4>1, <4>3 DEF NewStock, HasVariants
        <5>2. Sellable = row.stock /\ Sellable' = new.stock
          BY <1>5, <2>1, <3>1, <4>1, <4>3 DEF Sellable
        <5> QED
          BY <1>3, <2>4, <5>1, <5>2 DEF Stated, Stock
      <4> QED
        BY <4>2, <4>3
    <3> QED
      BY <1>1, <3>2, <3>3
  <2> QED
    BY <1>1, <2>2, <2>3, <2>4
<1>6. row' # None
  BY <1>1, <1>2, WrittenRow
<1> QED
  BY <1>4, <1>5, <1>6

\* Only commits and releases make more sellable.
LEMMA StepRevivesNothing ==
  ASSUME CatalogueInv, [Next]_vars
  PROVE  Revived
<1>1. Sellable \in Nat /\ (Sellable' <= Sellable => Revived)
  <2>1. ASSUME Sellable' <= Sellable PROVE ~(Sellable' > Sellable)
    <3>1. CatalogueInv'
      BY NextInv
    <3>2. (CatalogueInv => Sellable \in Stock)'
      BY SellableType, PTL
    <3> QED
      BY <2>1, <3>1, <3>2, SellableType DEF Stock
  <2> QED
    BY <2>1, SellableType DEF Revived, Stock
<1>2. ASSUME UNCHANGED <<listed, kind, row>> PROVE Revived
  <2>1. Sellable' = Sellable
    BY <1>2 DEF Sellable
  <2> QED
    BY <1>1, <2>1
<1>3. CASE UNCHANGED vars
  BY <1>2, <1>3 DEF vars
<1>4. CASE ReviewsNext /\ UNCHANGED <<listed, kind, row, packages, held, edits, media>>
  BY <1>2, <1>4
<1>5. ASSUME NEW e \in Editors,
             \/ CreatePackage(e) \/ \E q \in Requests : Create(e, q) \/ Update(e, q)
             \/ Upload(e) \/ Fail(e) \/ Cleanup(e) \/ Answer(e) \/ Crash(e)
      PROVE  Revived
  BY <1>2, <1>5 DEF CreatePackage, Create, Update, Upload, Fail, Cleanup, Answer, Crash
<1>6. ASSUME NEW e \in Editors, Commit(e) \/ CommitUnanswered(e) PROVE Revived
  <2>1. /\ Open(e) /\ Wanted(e) = {} /\ Save(e) /\ UNCHANGED kind
        /\ edits'[e] # edits[e]
    <3>1. /\ edits \in [Editors -> Edit \cup {None}]
          /\ edits[e] # None /\ edits[e] \in Edit /\ edits[e].open
      BY <1>6, EditTypes
         DEF CatalogueInv, ListingConsistent, TypeOK, Commit, CommitUnanswered, Open
    <3>2. edits'[e].open = FALSE
      BY <1>6, <3>1 DEF Commit, CommitUnanswered, Undone, Edit
    <3> QED
      BY <1>6, <3>1, <3>2 DEF Commit, CommitUnanswered
  <2>2. CASE edits[e].op = "package"
    BY <1>2, <2>1, <2>2 DEF Save
  <2>3. CASE edits[e].op # "package"
    BY <1>1, <2>1, <2>3, WrittenQuantity DEF Revived
  <2> QED
    BY <2>2, <2>3
<1>7. CASE DeleteListing
  BY <1>1, <1>7 DEF DeleteListing, Sellable
<1>8. CASE DeletePackage
  BY <1>2, <1>8 DEF DeletePackage
<1>9. CASE Reserve
  <2>1. /\ listed /\ kind # "service" /\ row # None /\ row \in Row
        /\ row.stock \in Nat /\ row.variant.stock \in Nat
        /\ row.variant \in [status : {"none", "active", "archived"}, stock : Stock]
    BY <1>9, RowTypes DEF Reserve, Sellable, Stock
  <2>2. CASE row.has_variants
    <3>1. row' = [row EXCEPT !.variant = [row.variant EXCEPT !.stock = row.variant.stock - 1]]
      BY <1>9, <2>1, <2>2 DEF Reserve, Row
    <3>2. Sellable' <= Sellable
      BY <1>9, <2>1, <2>2, <3>1 DEF Reserve, Sellable, Row
    <3> QED
      BY <1>1, <3>2
  <2>3. CASE ~row.has_variants
    <3>1. row' = [row EXCEPT !.stock = row.stock - 1]
      BY <1>9, <2>3 DEF Reserve
    <3>2. Sellable' <= Sellable
      BY <1>9, <2>1, <2>3, <3>1 DEF Reserve, Sellable, Row
    <3> QED
      BY <1>1, <3>2
  <2> QED
    BY <2>2, <2>3
<1>10. CASE ReleaseProduct
  BY <1>10, RowTypes DEF ReleaseProduct, Revived
<1>11. CASE ReleaseVariant
  BY <1>11, RowTypes DEF ReleaseVariant, Revived
<1>12. ASSUME NEW p \in {"product", "variant"}, Deliver(p) PROVE Revived
  BY <1>2, <1>12 DEF Deliver
<1> QED
  BY <1>3, <1>4, <1>5, <1>6, <1>7, <1>8, <1>9, <1>10, <1>11, <1>12 DEF Next

\* No sequence of edits, orders, releases and switches between variants and a
\* simple product makes an older quantity sellable again, for any number of
\* editors and of requests (desiredVariants and updateProduct, products.model.js).
THEOREM StockSafe == Spec => NothingRevived
<1>1. CatalogueInv /\ [Next]_vars => Revived
  BY StepRevivesNothing
<1>2. CatalogueInv /\ [Next]_vars => [Revived]_vars
  BY <1>1
<1> QED
  BY <1>2, Invariant, PTL DEF Spec, NothingRevived, Revived

===============================================================================
