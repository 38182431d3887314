--------------------------- MODULE DatasetDumper ---------------------------
(***************************************************************************)
(* The dataset registry of IMP.pmi.mmcif: class DatasetDumper with the     *)
(* structural equality of Dataset and DatasetLocation that it keys on.     *)
(*                                                                         *)
(* A dataset is abstracted to its concrete class (kind), the value of its  *)
(* key attributes (attrs: the location's doi/content_filename or           *)
(* db_name/access_code/version, and the micrograph number), and a          *)
(* non-key attribute (details) that must not take part in equality.        *)
(* Every call that registers a dataset builds a fresh Python object; the   *)
(* objects are numbered 1..MaxObjs in creation order.                      *)
(*                                                                         *)
(* held and heldGroups are history variables: the dataset and group        *)
(* objects that callers (restraints, starting models, protocols) keep and  *)
(* later write the .id of.                                                 *)
(***************************************************************************)
EXTENDS Naturals, Sequences, FiniteSets, DatasetMemo

CONSTANTS
  Kinds,     \* the Dataset subclasses (CXMSDataset, PDBDataset, ...)
  DupKinds,  \* the kinds whose location sets _allow_duplicates (EMDBDataset)
  Attrs,     \* values of the key attributes
  Details,   \* values of a non-key attribute (DBDatasetLocation.details)
  MaxObjs    \* the number of dataset objects a behaviour may create

ASSUME KindsAssumption == DupKinds \subseteq Kinds
ASSUME MaxObjsAssumption == MaxObjs \in Nat

Objs == 1..MaxObjs

VARIABLES
  datasets,       \* the OrderedDict: one entry per distinct dataset, in order
  idOf,           \* the .id attribute of each object; 0 where never set
  dataset_groups, \* the memo of get_all_group, in creation (= id) order
  nObj,           \* dataset objects created so far
  held,           \* [kind, attrs, obj]: what a caller asked for, what it got
  heldGroups,     \* [grp, upto]: a group a caller got, and when
  listed          \* rows of _ihm_dataset_list: <<dataset id, group id>>

vars == <<datasets, idOf, dataset_groups, nObj, held, heldGroups, listed>>

(* An entry of the OrderedDict: the key object (obj) and the value object  *)
(* (val) it maps to; add stores the same object as both.                  *)
Entry == [kind : Kinds, attrs : Attrs, details : Details, obj : Objs, val : Objs]

Group == GroupOf(Objs)

TypeOK ==
  /\ datasets \in Seq(Entry)
  /\ idOf \in [Objs -> Nat]
  /\ dataset_groups \in Seq(Group)
  /\ nObj \in 0..MaxObjs
  /\ held \subseteq [kind : Kinds, attrs : Attrs, obj : Objs]
  /\ heldGroups \subseteq [grp : Nat, upto : Nat]
  /\ listed \subseteq Nat \X Nat

-----------------------------------------------------------------------------
(* Mutation: the non-key details take part in equality.                  *)
EqDatasetWithDetails(e, d) ==
  IF d.kind \in DupKinds \/ e.kind \in DupKinds
    THEN e.obj = d.obj
    ELSE e.kind = d.kind /\ e.attrs = d.attrs /\ e.details = d.details

(* Dataset.__eq__ of a registered entry e and a new dataset d:             *)
(* DatasetLocation._eq_vals is id(self) when duplicates are allowed, so    *)
(* such a dataset equals only itself; otherwise the class and the key      *)
(* attributes decide, and details are not compared.                       *)
EqDataset(e, d) ==
  IF d.kind \in DupKinds \/ e.kind \in DupKinds
    THEN e.obj = d.obj
    ELSE e.kind = d.kind /\ e.attrs = d.attrs

(* The object DatasetDumper.add returns for a fresh object of the given   *)
(* class and attributes: the registered equal dataset, or the new one.    *)
AddedObject(kind, attrs, details) ==
  LET d == [kind |-> kind, attrs |-> attrs, details |-> details,
            obj |-> nObj + 1, val |-> nObj + 1]
  IN IF \E i \in DOMAIN datasets : EqDataset(datasets[i], d)
       THEN datasets[CHOOSE i \in DOMAIN datasets : EqDataset(datasets[i], d)].val
       ELSE nObj + 1

(* Mutation: the membership test is dropped, so an equal dataset          *)
(* overwrites the value of its entry and gets id len(self.datasets).      *)
addUnguarded(kind, attrs, details) ==
  LET o == nObj + 1
      d == [kind |-> kind, attrs |-> attrs, details |-> details, obj |-> o, val |-> o]
  IN
  /\ nObj < MaxObjs
  /\ nObj' = o
  /\ IF \E i \in DOMAIN datasets : EqDataset(datasets[i], d)
       THEN LET i == CHOOSE i \in DOMAIN datasets : EqDataset(datasets[i], d)
            IN /\ datasets' = [datasets EXCEPT ![i].val = o]
               /\ idOf' = [idOf EXCEPT ![o] = Len(datasets)]
               /\ held' = held \cup {[kind |-> kind, attrs |-> attrs, obj |-> o]}
       ELSE /\ datasets' = Append(datasets, d)
            /\ idOf' = [idOf EXCEPT ![o] = Len(datasets) + 1]
            /\ held' = held \cup {[kind |-> kind, attrs |-> attrs, obj |-> o]}
  /\ UNCHANGED <<dataset_groups, heldGroups, listed>>

(* DatasetDumper.add(dataset) for a fresh object of the given class and   *)
(* attributes: an equal registered dataset is returned in its place,      *)
(* otherwise the new one is inserted with id len(self.datasets). The      *)
(* caller keeps the returned object, not its argument.                    *)
add(kind, attrs, details) ==
  LET o == nObj + 1
      d == [kind |-> kind, attrs |-> attrs, details |-> details, obj |-> o, val |-> o]
  IN
  /\ nObj < MaxObjs
  /\ nObj' = o
  /\ IF \E i \in DOMAIN datasets : EqDataset(datasets[i], d)
       THEN LET i == CHOOSE i \in DOMAIN datasets : EqDataset(datasets[i], d)
            IN /\ held' = held \cup {[kind |-> kind, attrs |-> attrs,
                                      obj |-> datasets[i].val]}
               /\ UNCHANGED <<datasets, idOf>>
       ELSE /\ datasets' = Append(datasets, d)
            /\ idOf' = [idOf EXCEPT ![o] = Len(datasets) + 1]
            /\ held' = held \cup {[kind |-> kind, attrs |-> attrs, obj |-> o]}
  /\ UNCHANGED <<dataset_groups, heldGroups, listed>>

(* Mutation: the memo is not keyed by the dataset count, so the first     *)
(* group made is returned however many datasets were added since.         *)
get_all_group_stale ==
  LET gs == IF Len(dataset_groups) > 0 THEN dataset_groups
            ELSE AllGroupsAfter(datasets, dataset_groups)
  IN
  /\ dataset_groups' = gs
  /\ heldGroups' = heldGroups \cup {[grp |-> 1, upto |-> Len(datasets)]}
  /\ UNCHANGED <<datasets, idOf, nObj, held, listed>>

(* ModelProtocolDumper.add calls get_all_group and keeps the group.       *)
get_all_group ==
  LET gs == AllGroupsAfter(datasets, dataset_groups) IN
  /\ dataset_groups' = gs
  /\ heldGroups' = heldGroups \cup
       {[grp |-> AllGroupIndex(datasets, gs), upto |-> Len(datasets)]}
  /\ UNCHANGED <<datasets, idOf, nObj, held, listed>>

(* Mutation: dump lists the groups made so far without first calling      *)
(* get_all_group.                                                         *)
dumpExistingGroups ==
  LET gs == dataset_groups IN
  /\ listed' = UNION { { <<idOf[gs[j].members[k]], gs[j].id>> :
                            k \in DOMAIN gs[j].members } : j \in DOMAIN gs }
  /\ UNCHANGED <<datasets, idOf, dataset_groups, nObj, held, heldGroups>>

(* DatasetDumper.dump: make sure the all-group exists, then one           *)
(* _ihm_dataset_list row per member of every group, in group id order.   *)
(* The category is rewritten on every flush.                              *)
dump ==
  LET gs == AllGroupsAfter(datasets, dataset_groups) IN
  /\ dataset_groups' = gs
  /\ listed' = UNION { { <<idOf[gs[j].members[k]], gs[j].id>> :
                            k \in DOMAIN gs[j].members } : j \in DOMAIN gs }
  /\ UNCHANGED <<datasets, idOf, nObj, held, heldGroups>>

Init ==
  /\ datasets = << >>
  /\ idOf = [o \in Objs |-> 0]
  /\ dataset_groups = << >>
  /\ nObj = 0
  /\ held = {}
  /\ heldGroups = {}
  /\ listed = {}

Next ==
  \/ \E k \in Kinds, a \in Attrs, d \in Details : add(k, a, d)
  \/ get_all_group
  \/ dump

Spec == Init /\ [][Next]_vars

-----------------------------------------------------------------------------
(* Deduplication: no two rows of the dataset list stand for datasets the  *)
(* spec calls equal (same class and key attributes, class not opted out); *)
(* a non-key attribute such as details must not split them.               *)
NoDuplicateDatasets ==
  \A i, j \in DOMAIN datasets :
    /\ i # j
    /\ datasets[i].kind = datasets[j].kind
    /\ datasets[i].kind \notin DupKinds
    => datasets[i].attrs # datasets[j].attrs

(* Identity: the .id a caller will write for the dataset object that      *)
(* DatasetDumper.add returned to it names the listed dataset with the     *)
(* caller's class and attributes (for an opted-out class, the very same   *)
(* object), and that listed object carries the same id.                   *)
HeldRefsResolve ==
  \A h \in held :
    LET i == idOf[h.obj] IN
    /\ i \in DOMAIN datasets
    /\ idOf[datasets[i].obj] = i
    /\ datasets[i].kind = h.kind
    /\ datasets[i].attrs = h.attrs
    /\ h.kind \in DupKinds => datasets[i].obj = h.obj

(* Snapshots: a group that get_all_group returned holds exactly the       *)
(* datasets registered when it was returned, however many were added      *)
(* since, and group ids are distinct.                                     *)
GroupsAreSnapshots ==
  /\ \A j \in DOMAIN dataset_groups : dataset_groups[j].id = j
  /\ \A g \in heldGroups :
       /\ g.grp \in DOMAIN dataset_groups
       /\ g.upto <= Len(datasets)
       /\ dataset_groups[g.grp].members = Keys(SubSeq(datasets, 1, g.upto))

(* Every flush lists every registered dataset, so that the dataset ids    *)
(* written by restraint, starting-model and protocol rows all resolve.    *)
DumpListsEveryDataset ==
  [][dump => \A h \in held : \E r \in listed' : r[1] = idOf[h.obj]]_vars

=============================================================================
