----------------------------- MODULE MCCatalogue ------------------------------
(* Bodies that a form sends: a new thumbnail and a quantity, a new gallery, *)
(* variants on with an image, variants off.                                *)
EXTENDS Catalogue, TLC

Body(thumbnail, image, variant, variants, stock, variant_stock) ==
  [media |-> [s \in Slots |-> CASE s = "thumbnail" -> thumbnail
                                [] s = "image" -> image [] OTHER -> variant],
   variants |-> variants, stock |-> stock, variant_stock |-> variant_stock]

MCRequests == {
  Body("new", "keep", "keep", "keep", 1, None),
  Body("new", "new", "keep", "keep", None, None),
  Body("keep", "clear", "new", "one", None, 1),
  Body("clear", "keep", "keep", "none", None, None)}

\* Reviews meet a listing with one image at most, no orders or packages and one
\* edit at a time; the rest goes on from there without them.
Bound ==
  \/ written = 0 /\ ~purchased
  \/ /\ handed <= 1 /\ packages = 0 /\ orphans = {}
     /\ \A p \in DOMAIN held : held[p] = 0
     /\ Cardinality({e \in Editors : edits[e] # None}) <= 1

Symmetry == Permutations(Editors) \cup Permutations(Moderators) \cup Permutations(Contents)
=============================================================================
