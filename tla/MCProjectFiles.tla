---------------------------- MODULE MCProjectFiles ----------------------------
(* The instance of ProjectFiles for TLC; its constants get their values in *)
(* ProjectFiles.cfg.  The texts are interchangeable.                       *)
EXTENDS ProjectFiles, TLC

TextSymmetry == Permutations(Texts)
=============================================================================
