------------------------------ MODULE MCProgress ------------------------------
(* The instance of Progress for TLC; its constants get their values in     *)
(* Progress.cfg.                                                           *)
EXTENDS Progress
=============================================================================
