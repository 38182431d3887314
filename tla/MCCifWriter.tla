--------------------------- MODULE MCCifWriter ---------------------------
(* Instances of CifWriter for TLC, with the real line widths (80 and 70)  *)
(* and values whose lengths sit on either side of each threshold.         *)
EXTENDS CifWriter

Str(n, space, sq, dq) == [type |-> "str", len |-> n, space |-> space, sq |-> sq, dq |-> dq]

(* Two plain words that fit on one line together (39 + 1 + 40 = 80) and  *)
(* two that do not (40 + 1 + 40), a quoted string, a float, and a string  *)
(* just past the text-field threshold.                                     *)
MCValues ==
  {Str(39, FALSE, FALSE, FALSE), Str(40, FALSE, FALSE, FALSE),
   Str(8, TRUE, TRUE, FALSE),
   [type |-> "float", len |-> 7, space |-> FALSE, sq |-> FALSE, dq |-> FALSE],
   Str(141, TRUE, FALSE, FALSE)}

(* An empty string, such as the version sliced from a short HEADER line, *)
(* which _repr passes through as no token at all; with a plain word       *)
(* beside it.                                                              *)
MCUnreadableValues ==
  {Str(0, FALSE, FALSE, FALSE), Str(4, FALSE, FALSE, FALSE)}
====
