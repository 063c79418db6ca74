------------------------------ MODULE MCFileIO ------------------------------
EXTENDS FileIO, TLC
Alike == Permutations(File)
=============================================================================
