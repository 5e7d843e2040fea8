---------------------------- MODULE MCShelfFusion ----------------------------
EXTENDS ShelfFusion, TLC

\* The books are alike: they differ in what happens to them only.
BookSymmetry == Permutations(Books)

\* They all belong on the upper layer, where the board is.
UpperHome == [b \in Books |-> 0]

=============================================================================
