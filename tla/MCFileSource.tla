---------------------------- MODULE MCFileSource ----------------------------
(* A file source on a chain of few blocks, in files of two numbers.        *)
EXTENDS FileSource
=============================================================================
