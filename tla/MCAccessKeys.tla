---- MODULE MCAccessKeys ----
(* Requests are interchangeable, and so are administrator keys.              *)
EXTENDS AccessKeys, TLC

MCSymmetry == Permutations(Requests) \cup Permutations(Administrators)

====
