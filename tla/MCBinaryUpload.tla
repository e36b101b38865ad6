---------------------------- MODULE MCBinaryUpload ----------------------------
(* BinaryUpload for TLC: uploads are interchangeable model values.         *)
EXTENDS BinaryUpload, TLC

Symmetry == Permutations(Uploads)
=============================================================================
