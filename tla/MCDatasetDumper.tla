------------------------- MODULE MCDatasetDumper ---------------------------
(* A small instance of DatasetDumper: two deduplicated dataset classes     *)
(* and one that opts out (EMDB volumes), two key values, two details.      *)
EXTENDS DatasetDumper

CONSTANTS CXMS, PDB, EMDB, a1, a2, d1, d2

MCKinds == {CXMS, PDB, EMDB}
MCDupKinds == {EMDB}
MCAttrs == {a1, a2}
MCDetails == {d1, d2}
=============================================================================
