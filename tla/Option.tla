-------------------------------- MODULE Option --------------------------------
(***************************************************************************)
(* The absent case of every `Option` in the server: no object under a key, *)
(* no value of a header, no answer yet.  One constant serves all of them,  *)
(* so that the modules below can be extended together.                     *)
(***************************************************************************)
CONSTANT None
=============================================================================
