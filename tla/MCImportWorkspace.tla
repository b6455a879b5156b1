------------------------- MODULE MCImportWorkspace -------------------------
(***************************************************************************)
(* Two repositories, whose own names differ.                               *)
(***************************************************************************)
EXTENDS ImportWorkspace, TLC

CONSTANTS repo1, repo2, slug1, slug2

MCRepos == {repo1, repo2}
MCSlugs == {slug1, slug2}
MCOwnSlug == (repo1 :> slug1) @@ (repo2 :> slug2)

\* Exchanging both repositories and their slugs leaves OwnSlug as it is.
Exchange ==
  {(repo1 :> repo1) @@ (repo2 :> repo2) @@ (slug1 :> slug1) @@ (slug2 :> slug2),
   (repo1 :> repo2) @@ (repo2 :> repo1) @@ (slug1 :> slug2) @@ (slug2 :> slug1)}

Symmetry == {p @@ q @@ e : p \in Permutations(Requests),
                           q \in Permutations(Orgs), e \in Exchange}
=============================================================================
