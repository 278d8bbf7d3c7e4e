------------------------------ MODULE MCEvset ------------------------------
(***************************************************************************)
(* EvsetBuild on a handful of pages.                                       *)
(***************************************************************************)
EXTENDS EvsetBuild, TLC

CONSTANTS
  Congruent,   \* the pages in the target's set of the LLC
  Assoc        \* how many of them evict the target

MCEvicting == {S \in SUBSET Page : Cardinality(S \cap Congruent) >= Assoc}

AllPools == [0..MAX_POOL_SIZE - 1 -> Page]

\* Pools without a duplicate.
DistinctPools == {pool \in AllPools : Cardinality(Range(pool)) = MAX_POOL_SIZE}

\* Pools with at most one.
OneDuplicatePools == {pool \in AllPools : Cardinality(Range(pool)) >= MAX_POOL_SIZE - 1}

\* Pools in which the pages come for the first time in a fixed order, one of
\* every way to draw the same pages again, down to a pool of one page alone.
\* (A bound: symmetry would also exchange the pages between two trials, and
\* SYMMETRY is not sound for liveness.)
NamedPools ==
  LET order == CHOOSE f \in [1..Cardinality(Page) -> Page] : Range(f) = Page
      Before(pool, k) == {pool[j] : j \in 0..k - 1}
  IN  {pool \in AllPools :
         \A k \in DOMAIN pool :
           pool[k] \in Before(pool, k) \/ pool[k] = order[Cardinality(Before(pool, k)) + 1]}

\* Pools that hold every page, in any order, and then the first ones again.
RoundPools ==
  {pool \in AllPools :
     /\ Range(pool) = Page
     /\ \A k \in Cardinality(Page)..MAX_POOL_SIZE - 1 : pool[k] = pool[k - Cardinality(Page)]}

PageSymmetry == Permutations(Page)
CongruentSymmetry == Permutations(Congruent)
=============================================================================
