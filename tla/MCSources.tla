------------------------------ MODULE MCSources ------------------------------
(* Two factories, so that one source may lag behind the other.             *)
EXTENDS Sources
=============================================================================
