-------------------------------- MODULE MCTfs --------------------------------
(* Tfs on small instances: the constants are in the .cfg files.            *)
EXTENDS Tfs, TLC

(* Names and bytes are only ever compared for equality.                    *)
DataSymmetry == Permutations(Name) \cup Permutations(Byte)
==============================================================================
