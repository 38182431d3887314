----------------------------- MODULE DatasetMemo -----------------------------
(***************************************************************************)
(* The group memo of IMP.pmi.mmcif.DatasetDumper.get_all_group, apart from *)
(* the registry that owns it: a memo is a sequence of groups, each with    *)
(* its id, the number of registered datasets it was made at (count) and    *)
(* the key objects it copied (members). These operators name no constant, *)
(* so every module that keeps a registry, directly or through an           *)
(* INSTANCE, reasons about the same memo.                                  *)
(***************************************************************************)
EXTENDS Naturals, Sequences

(* A DatasetGroup over the dataset objects O.                             *)
GroupOf(O) == [id : Nat, count : Nat, members : Seq(O)]

(* The key objects of the OrderedDict, in order: self.datasets.keys().    *)
Keys(ds) == [j \in 1..Len(ds) |-> ds[j].obj]

(* The memo lookup of get_all_group: the groups made at the current size. *)
(* The new group snapshots the key list (DatasetGroup copies it).         *)
AllGroupIndex(ds, gs) ==
  CHOOSE j \in DOMAIN gs : gs[j].count = Len(ds)

AllGroupsAfter(ds, gs) ==
  IF \E j \in DOMAIN gs : gs[j].count = Len(ds)
    THEN gs
    ELSE Append(gs, [id |-> Len(gs) + 1, count |-> Len(ds), members |-> Keys(ds)])

====
