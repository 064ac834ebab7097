--------------------------- MODULE MCBlockStream ---------------------------
(* A server and its clients, with short channels.                          *)
EXTENDS BlockStream
=============================================================================
