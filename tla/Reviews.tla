------------------------------- MODULE Reviews --------------------------------
(***************************************************************************)
(* The review that one customer writes about one listing, and the staff    *)
(* who moderate it from pages they loaded earlier (review.model.js).       *)
(* Every action is one transaction that locks the row of the review.       *)
(***************************************************************************)
EXTENDS Integers

CONSTANTS
  Contents,     \* what a review can say
  Moderators,
  None,
  MaxReviews,   \* reviews written, one after the other
  MaxRevision

ASSUME ReviewConstants ==
  MaxReviews \in Nat /\ MaxRevision \in Nat \ {0}

VARIABLES
  listed,      \* the listing exists: deleted_at IS NULL
  purchased,   \* a paid order of the customer with it is delivered
  review,      \* the row of reviews, or None
  written,     \* number of rows inserted so far: the id of the last one
  pages        \* what each moderator has on the screen

reviews == <<purchased, review, written, pages>>

Statuses == {"pending", "approved", "rejected"}
Review == [id : 1..MaxReviews, content : Contents, status : Statuses,
           revision : 1..MaxRevision]

ReviewsTypeOK ==
  /\ listed \in BOOLEAN /\ purchased \in BOOLEAN
  /\ review \in Review \cup {None}
  /\ written \in 0..MaxReviews
  /\ pages \in [Moderators -> Review \cup {None}]

ReviewsInit ==
  /\ purchased = FALSE
  /\ review = None /\ written = 0
  /\ pages = [m \in Moderators |-> None]

\* The order is delivered, or a return of it is requested.
OrderChanges ==
  /\ purchased' = ~purchased
  /\ UNCHANGED <<review, written, pages>>

-----------------------------------------------------------------------------
(* The author                                                              *)

Eligible == listed /\ purchased

\* A unique index admits one review of a listing by a customer.
CreateReview(c) ==
  /\ Eligible
  /\ review = None /\ written < MaxReviews
  /\ written' = written + 1
  /\ review' = [id |-> written + 1, content |-> c, status |-> "pending", revision |-> 1]
  /\ UNCHANGED <<purchased, pages>>

EditedQuietly(c) == [review EXCEPT !.content = c, !.status = "pending"]  \* a mutant
Edited(c) ==
  [review EXCEPT !.content = c, !.status = "pending", !.revision = @ + 1]

UpdateReview(c) ==
  /\ review # None
  /\ c # review.content
  /\ Eligible
  /\ review.revision < MaxRevision
  /\ review' = Edited(c)
  /\ UNCHANGED <<purchased, written, pages>>

\* By the author, also of a deleted listing, or by the staff.
DeleteReview ==
  /\ review # None
  /\ review' = None
  /\ UNCHANGED <<purchased, written, pages>>

-----------------------------------------------------------------------------
(* The staff                                                               *)

ViewReview(m) ==
  /\ review # None
  /\ pages' = [pages EXCEPT ![m] = review]
  /\ UNCHANGED <<purchased, review, written>>

\* moderate finds the row of the page, with the revision of the page.
Accepted(page) ==
  page # None /\ review # None /\ page.id = review.id /\ page.revision = review.revision

\* An unchanged status and note change nothing; a new note alone is a revision.
ModerateReview(m, status) ==
  /\ Accepted(pages[m])
  /\ listed
  /\ status = "approved" => purchased
  /\ review.revision < MaxRevision
  /\ review' = [review EXCEPT !.status = status, !.revision = @ + 1]
  /\ UNCHANGED <<purchased, written, pages>>

ReviewsNext ==
  \/ OrderChanges
  \/ \E c \in Contents : CreateReview(c) \/ UpdateReview(c)
  \/ DeleteReview
  \/ \E m \in Moderators :
       ViewReview(m) \/ \E status \in Statuses : ModerateReview(m, status)

-----------------------------------------------------------------------------

\* A page whose revision moderate would accept shows the review as it is: no
\* edit by the author, no decision of another moderator and no review written
\* anew after a deletion is decided on unseen.
DecidesOnWhatIsShown ==
  \A m \in Moderators : Accepted(pages[m]) => pages[m] = review

=============================================================================
