------------------------- MODULE MCRepresentation -------------------------
(* Instances of Representation for TLC: two components, three input PDB  *)
(* files, one of each header class, and one-residue ranges that can be   *)
(* added in order, out of order or twice.                                 *)
EXTENDS Representation

CONSTANTS c1, c2, p1, p2, p3

MCComps == {c1, c2}
MCPdbs == {p1, p2, p3}

(* p1 is an official PDB entry, p2 a MODELLER model, p3 of unknown origin. *)
MCHeader == (p1 :> "HEADER") @@ (p2 :> "MODELLER") @@ (p3 :> "OTHER")

(* p2 lists two templates, given out of order in the file.                *)
MCTemplates == (p1 :> {}) @@ (p2 :> {<<2, 3>>, <<1, 2>>}) @@ (p3 :> {})

(* Two MODELLER models: p2 with its templates, p3 with no REMARK 6       *)
(* TEMPLATE line.                                                          *)
MCTwoModellerHeader == (p1 :> "HEADER") @@ (p2 :> "MODELLER") @@ (p3 :> "MODELLER")

MCLocated == {p2}
MCRanges == {<<1, 1>>, <<2, 2>>}
====
