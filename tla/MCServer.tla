------------------------------ MODULE MCServer ------------------------------
(* Instance of Server for TLC: see server.cfg.                             *)
EXTENDS Server
=============================================================================
