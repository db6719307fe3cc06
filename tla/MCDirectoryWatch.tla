------------------------- MODULE MCDirectoryWatch -------------------------
EXTENDS DirectoryWatch

Symmetry == Permutations(Files) \union Permutations(DirNames)
=============================================================================
