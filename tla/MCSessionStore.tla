--------------------------- MODULE MCSessionStore ---------------------------
(* Small instances of SessionStore.                                        *)
EXTENDS SessionStore, TLC

CONSTANTS c1, c2, c3, i1, i2, p1, p2

OneFile == [i \in {i1} |-> p1]
(* The usual case: a file per session.                                     *)
FilePerId == i1 :> p1 @@ i2 :> p2
(* default_session_path_override names the file of another session.        *)
SharedFile == i1 :> p1 @@ i2 :> p1

Symmetry == Permutations(Calls)
=============================================================================
