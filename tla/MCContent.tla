----------------------------- MODULE MCContent -----------------------------
(* Content on two tenants with a shared supply of slugs and ids.             *)
EXTENDS Content, TLC

\* Sites, slugs, ids, documents and slots only matter up to renaming.
Symmetric == Permutations(Sites) \cup Permutations(PostIds) \cup Permutations(ProductIds)
             \cup Permutations(Slugs) \cup Permutations(Docs) \cup Permutations(Requests)
=============================================================================
