------------------------------ MODULE MCMediaPath ------------------------------
(* MediaPath on a small instance. *)
EXTENDS MediaPath
================================================================================
