----------------------------- MODULE MCVlpStream -----------------------------
(***************************************************************************)
(* Small instances of VlpStream.  Handlers are interchangeable and so are  *)
(* the files; the symmetry is used for invariants only.                    *)
(***************************************************************************)
EXTENDS VlpStream, TLC

Symmetry == Permutations(Subscribers) \cup Permutations(Paths)
=============================================================================
