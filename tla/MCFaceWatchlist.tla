--------------------------- MODULE MCFaceWatchlist ---------------------------
(* Two accounts, two faces and two calls in flight. *)
EXTENDS FaceWatchlist, TLC

\* A face is recognized, and is mistaken for no other.
Recognized == {<<f, f>> : f \in Faces}

\* Calls, accounts, faces and documents are interchangeable.
Symmetry == Permutations(Calls) \cup Permutations(Persons)
            \cup Permutations(Faces) \cup Permutations(Vectors)
=============================================================================
