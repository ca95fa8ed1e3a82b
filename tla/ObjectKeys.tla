----------------------------- MODULE ObjectKeys -----------------------------
(***************************************************************************)
(* From the key of a request to the key of the store: `sanitize_key`       *)
(* (put_object.rs) and `object_key` (store.rs).  A raw key is the sequence *)
(* of the texts between its slashes: "a//b" is <<"a", "", "b">> and "/a/"  *)
(* is <<"", "a", "">>.                                                     *)
(***************************************************************************)
EXTENDS Naturals, Sequences, Option

IsBlank(raw) == \A i \in DOMAIN raw : raw[i] = ""

TrimLeadingSlashes(raw) ==
  LET first == CHOOSE i \in DOMAIN raw : raw[i] # "" /\ \A j \in 1 .. i - 1 : raw[j] = ""
  IN  IF IsBlank(raw) THEN << >> ELSE SubSeq(raw, first, Len(raw))

(* Path::components drops empty and interior "." components, so only a     *)
(* leading "." and any ".." are components that are refused.               *)
SanitizeKey(raw) ==
  LET path == TrimLeadingSlashes(raw)
  IN  IF path = << >> \/ path[1] = "." \/ \E i \in DOMAIN path : path[i] = ".."
        THEN None
        ELSE path

ObjectKey(path) == SelectSeq(path, LAMBDA component : component \notin {"", "."})

(* The file system resolves a path that ends in "/" or "/." only if the    *)
(* rest names a directory.                                                 *)
NamesDirectory(path) == path[Len(path)] \in {"", "."}
=============================================================================
