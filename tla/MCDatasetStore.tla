--------------------------- MODULE MCDatasetStore ---------------------------
(* Uploaded datasets with a few ids, requests, slots and currencies. *)
EXTENDS DatasetStore, TLC

\* Ids, requests, currencies and slots of one kind are interchangeable.
Symmetry ==
  Permutations(Datasets) \cup Permutations(Clients) \cup Permutations(Currencies)
    \cup Permutations(CostSlots)
=============================================================================
