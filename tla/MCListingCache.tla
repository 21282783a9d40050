--------------------------- MODULE MCListingCache ---------------------------
EXTENDS ListingCache, TLC

\* One directory listed with and without its hidden names; with three views,
\* a second directory as well.
MCDirOf == [v \in Views |-> CHOOSE d \in Dirs : TRUE]

MCSymmetry == Permutations(Listers) \cup Permutations(Mutators)
=============================================================================
