--------------------------- MODULE MCComponents ---------------------------
(* Instances of Components for TLC: two component names, two sequences,  *)
(* one located and one unlocated cross-link file.                        *)
EXTENDS Components

CONSTANTS c1, c2, c3, s1, s2, f1, f2

MCComps == {c1, c2}
MCComps3 == {c1, c2, c3}
MCSeqs == {s1, s2}
MCFiles == {f1, f2}
====
