----------------------------- MODULE MCSessions ------------------------------
(* Sessions with requests that may interleave freely: see the .cfg file.     *)
EXTENDS Sessions, TLC

\* Requests and ConnIDs are interchangeable: no action or property tells them
\* apart.
Symmetry == Permutations(Request) \cup Permutations(ConnID)
=============================================================================
