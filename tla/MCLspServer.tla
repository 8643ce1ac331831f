----------------------------- MODULE MCLspServer -----------------------------
(* The instance of LspServer for TLC; its constants get their values in    *)
(* the .cfg files.                                                         *)
EXTENDS LspServer
=============================================================================
