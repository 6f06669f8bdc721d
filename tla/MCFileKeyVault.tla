--------------------------- MODULE MCFileKeyVault ---------------------------
(* Instance of FileKeyVault for TLC. Calls are interchangeable.                    *)
EXTENDS FileKeyVault, TLC

CallSymmetry == Permutations(Calls)
=============================================================================
