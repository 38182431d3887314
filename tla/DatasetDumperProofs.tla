------------------------- MODULE DatasetDumperProofs -------------------------
(***************************************************************************)
(* Proofs about the dataset registry, for every value of the constants:   *)
(* the type invariant, and that the registry deduplicates and that every   *)
(* dataset object handed to a caller carries the id of the listed dataset  *)
(* with the caller's class and key attributes.                             *)
(***************************************************************************)
EXTENDS DatasetDumper, DatasetMemoProofs

(* Every entry's key object is a dataset object.                         *)
LEMMA EntryObjs == \A e \in Entry : e.obj \in Objs
BY DEF Entry

-----------------------------------------------------------------------------
(* Type correctness.                                                      *)
LEMMA InitTypeOK == Init => TypeOK
BY MaxObjsAssumption, EmptySeq DEF Init, TypeOK, Objs

LEMMA NextTypeOK == TypeOK /\ [Next]_vars => TypeOK'
<1> SUFFICES ASSUME TypeOK, [Next]_vars PROVE TypeOK'
  OBVIOUS
<1>1. ASSUME NEW k \in Kinds, NEW a \in Attrs, NEW d \in Details, add(k, a, d)
      PROVE  TypeOK'
  <2> DEFINE o == nObj + 1
             e == [kind |-> k, attrs |-> a, details |-> d, obj |-> o, val |-> o]
  <2>1. o \in Objs /\ nObj' \in 0..MaxObjs
    BY <1>1, MaxObjsAssumption DEF add, TypeOK, Objs
  <2>2. e \in Entry
    BY <2>1 DEF Entry
  <2>3. CASE \E i \in DOMAIN datasets : EqDataset(datasets[i], e)
    <3> DEFINE i == CHOOSE i \in DOMAIN datasets : EqDataset(datasets[i], e)
    <3>1. i \in 1..Len(datasets)
      BY <2>3 DEF TypeOK
    <3>2. datasets[i].val \in Objs
      <4>1. datasets[i] \in Entry
        BY <3>1, ElementOfSeq DEF TypeOK
      <4>2. QED
        BY <4>1 DEF Entry
    <3>3. held' = held \cup {[kind |-> k, attrs |-> a, obj |-> datasets[i].val]}
          /\ UNCHANGED <<datasets, idOf, dataset_groups, heldGroups, listed>>
      BY <1>1, <2>3 DEF add
    <3>4. [kind |-> k, attrs |-> a, obj |-> datasets[i].val]
            \in [kind : Kinds, attrs : Attrs, obj : Objs]
      BY <3>2
    <3>5. QED
      BY <2>1, <3>3, <3>4 DEF TypeOK
  <2>4. CASE ~\E i \in DOMAIN datasets : EqDataset(datasets[i], e)
    <3>1. /\ datasets' = Append(datasets, e)
          /\ idOf' = [idOf EXCEPT ![o] = Len(datasets) + 1]
          /\ held' = held \cup {[kind |-> k, attrs |-> a, obj |-> o]}
          /\ UNCHANGED <<dataset_groups, heldGroups, listed>>
      BY <1>1, <2>4 DEF add
    <3>2. datasets' \in Seq(Entry)
      BY <3>1, <2>2, AppendProperties DEF TypeOK
    <3>3. QED
      BY <3>1, <3>2, <2>1 DEF TypeOK
  <2>5. QED
    BY <2>3, <2>4
<1>2. CASE get_all_group
  <2>1. dataset_groups' \in Seq(Group)
        /\ heldGroups' \subseteq [grp : Nat, upto : Nat]
    BY <1>2, AllGroupType, EntryObjs, LenProperties DEF get_all_group, TypeOK, Group
  <2>2. QED
    BY <1>2, <2>1 DEF get_all_group, TypeOK
<1>3. CASE dump
  <2> DEFINE gs == AllGroupsAfter(datasets, dataset_groups)
  <2>1. gs \in Seq(Group)
    BY AllGroupType, EntryObjs DEF TypeOK, Group, GroupOf
  <2>2. ASSUME NEW j \in DOMAIN gs, NEW m \in DOMAIN gs[j].members
        PROVE  <<idOf[gs[j].members[m]], gs[j].id>> \in Nat \X Nat
    <3>1. gs[j] \in Group
      BY <2>1, ElementOfSeq, LenProperties
    <3>2. gs[j].members[m] \in Objs
      BY <3>1, ElementOfSeq, LenProperties DEF Group, GroupOf
    <3>3. QED
      BY <3>1, <3>2 DEF TypeOK, Group, GroupOf
  <2>3. listed' \subseteq Nat \X Nat
    BY <1>3, <2>2 DEF dump
  <2>4. QED
    BY <1>3, <2>1, <2>3 DEF dump, TypeOK
<1>4. CASE UNCHANGED vars
  BY <1>4 DEF vars, TypeOK
<1>5. QED
  BY <1>1, <1>2, <1>3, <1>4 DEF Next

(* The registry's type invariant holds in every reachable state.          *)
THEOREM TypeCorrect == Spec => []TypeOK
BY InitTypeOK, NextTypeOK, PTL DEF Spec

-----------------------------------------------------------------------------
(* The inductive strengthening: every entry maps its key object to itself *)
(* and that object carries the entry's position as its id, and no entry   *)
(* or held reference names an object not yet created.                     *)
EntriesConsistent ==
  \A i \in DOMAIN datasets :
    /\ datasets[i].val = datasets[i].obj
    /\ idOf[datasets[i].obj] = i
    /\ datasets[i].obj <= nObj

HeldCreated == \A h \in held : h.obj <= nObj

IInv ==
  /\ TypeOK
  /\ EntriesConsistent
  /\ HeldCreated
  /\ NoDuplicateDatasets
  /\ HeldRefsResolve

LEMMA InitIInv == Init => IInv
BY InitTypeOK DEF Init, IInv, EntriesConsistent, HeldCreated,
                  NoDuplicateDatasets, HeldRefsResolve

(* add preserves the strengthening: a match can only be a registered      *)
(* dataset of a deduplicated class, since the new object is fresh; a new  *)
(* entry gets the next position as its id and leaves old ids alone.       *)
LEMMA AddIInv ==
  ASSUME IInv, NEW k \in Kinds, NEW a \in Attrs, NEW d \in Details, add(k, a, d)
  PROVE  IInv'
<1> DEFINE o == nObj + 1
           e == [kind |-> k, attrs |-> a, details |-> d, obj |-> o, val |-> o]
           L == Len(datasets)
<1>1. TypeOK'
  BY NextTypeOK DEF IInv, Next
<1>2. /\ nObj' = o
      /\ o \in Objs
      /\ datasets \in Seq(Entry)
      /\ L \in Nat
      /\ DOMAIN datasets = 1..L
  BY MaxObjsAssumption, LenProperties DEF add, IInv, TypeOK, Objs
<1>9. /\ nObj \in Nat
      /\ \A j \in 1..L : datasets[j] \in Entry /\ datasets[j].obj \in Objs
                        /\ datasets[j].obj # o
  <2>1. nObj \in Nat
    BY DEF IInv, TypeOK
  <2>2. \A j \in 1..L : datasets[j] \in Entry
    BY <1>2, ElementOfSeq
  <2>3. \A j \in 1..L : datasets[j].obj \in Objs /\ datasets[j].obj <= nObj
    BY <1>2, <2>2 DEF Entry, IInv, EntriesConsistent
  <2>4. QED
    BY <2>1, <2>2, <2>3 DEF Objs
<1>3. CASE \E i \in DOMAIN datasets : EqDataset(datasets[i], e)
  <2> DEFINE i == CHOOSE i \in DOMAIN datasets : EqDataset(datasets[i], e)
  <2>1. i \in DOMAIN datasets /\ EqDataset(datasets[i], e)
    BY <1>3
  <2>2. datasets[i].obj # o
    BY <1>2, <1>9, <2>1
  <2>3. /\ k \notin DupKinds
        /\ datasets[i].kind \notin DupKinds
        /\ datasets[i].kind = k
        /\ datasets[i].attrs = a
    BY <2>1, <2>2 DEF EqDataset
  <2>4. /\ held' = held \cup {[kind |-> k, attrs |-> a, obj |-> datasets[i].val]}
        /\ UNCHANGED <<datasets, idOf>>
    BY <1>3 DEF add
  <2>5. EntriesConsistent'
    <3>1. \A j \in DOMAIN datasets : datasets[j].obj <= nObj'
      BY <1>2, <1>9 DEF IInv, EntriesConsistent, Objs
    <3>2. QED
      BY <2>4, <3>1 DEF IInv, EntriesConsistent
  <2>8. HeldCreated'
    <3>1. \A h \in held : h.obj <= nObj'
      BY <1>2, <1>9 DEF IInv, HeldCreated, TypeOK, Objs
    <3>2. datasets[i].val <= nObj'
      BY <1>2, <1>9, <2>1 DEF IInv, EntriesConsistent, Objs
    <3>3. QED
      BY <2>4, <3>1, <3>2 DEF HeldCreated
  <2>9. NoDuplicateDatasets'
    BY <2>4 DEF IInv, NoDuplicateDatasets
  <2>6. HeldRefsResolve'
    <3> SUFFICES ASSUME NEW h \in held'
                 PROVE  LET j == idOf'[h.obj] IN
                          /\ j \in DOMAIN datasets'
                          /\ idOf'[datasets'[j].obj] = j
                          /\ datasets'[j].kind = h.kind
                          /\ datasets'[j].attrs = h.attrs
                          /\ h.kind \in DupKinds => datasets'[j].obj = h.obj
      BY DEF HeldRefsResolve
    <3>1. CASE h \in held
      BY <3>1, <2>4 DEF IInv, HeldRefsResolve
    <3>2. CASE h = [kind |-> k, attrs |-> a, obj |-> datasets[i].val]
      <4>1. datasets[i].val = datasets[i].obj /\ idOf[datasets[i].obj] = i
        BY <2>1 DEF IInv, EntriesConsistent
      <4>2. QED
        BY <3>2, <4>1, <2>1, <2>3, <2>4
    <3>3. QED
      BY <3>1, <3>2, <2>4
  <2>7. QED
    BY <1>1, <2>5, <2>6, <2>8, <2>9 DEF IInv
<1>4. CASE ~\E i \in DOMAIN datasets : EqDataset(datasets[i], e)
  <2>1. /\ datasets' = Append(datasets, e)
        /\ idOf' = [idOf EXCEPT ![o] = L + 1]
        /\ held' = held \cup {[kind |-> k, attrs |-> a, obj |-> o]}
    BY <1>4 DEF add
  <2>2. /\ Len(datasets') = L + 1
        /\ DOMAIN datasets' = 1..L + 1
        /\ \A j \in 1..L : datasets'[j] = datasets[j]
        /\ datasets'[L + 1] = e
    <3>1. e \in Entry
      BY <1>2 DEF Entry
    <3>2. /\ Append(datasets, e) \in Seq(Entry)
          /\ Len(Append(datasets, e)) = L + 1
          /\ \A j \in 1..L : Append(datasets, e)[j] = datasets[j]
          /\ Append(datasets, e)[L + 1] = e
      BY <1>2, <3>1, AppendProperties
    <3>3. QED
      BY <2>1, <3>2, LenProperties
  <2>3. \A j \in 1..L : datasets[j].obj # o /\ idOf'[datasets[j].obj] = idOf[datasets[j].obj]
    BY <1>9, <2>1 DEF IInv, TypeOK
  <2>4. idOf'[o] = L + 1
    BY <1>2, <2>1 DEF IInv, TypeOK
  <2>5. EntriesConsistent'
    <3>1. \A j \in 1..L : datasets[j].obj <= nObj'
      BY <1>2, <1>9 DEF IInv, EntriesConsistent, Objs
    <3>2. \A j \in 1..L : /\ datasets'[j].val = datasets'[j].obj
                          /\ idOf'[datasets'[j].obj] = j
                          /\ datasets'[j].obj <= nObj'
      <4>1. \A j \in 1..L : /\ datasets[j].val = datasets[j].obj
                            /\ idOf[datasets[j].obj] = j
        BY <1>2 DEF IInv, EntriesConsistent
      <4>2. QED
        BY <2>2, <2>3, <3>1, <4>1
    <3>3. /\ datasets'[L + 1].val = datasets'[L + 1].obj
          /\ idOf'[datasets'[L + 1].obj] = L + 1
          /\ datasets'[L + 1].obj <= nObj'
      BY <1>2, <2>2, <2>4
    <3>4. QED
      BY <2>2, <3>2, <3>3 DEF EntriesConsistent
  <2>6. HeldCreated'
    BY <1>2, <1>9, <2>1 DEF IInv, HeldCreated, TypeOK, Objs
  <2>7. NoDuplicateDatasets'
    <3> SUFFICES ASSUME NEW x \in DOMAIN datasets', NEW y \in DOMAIN datasets',
                        x # y, datasets'[x].kind = datasets'[y].kind,
                        datasets'[x].kind \notin DupKinds
                 PROVE  datasets'[x].attrs # datasets'[y].attrs
      BY DEF NoDuplicateDatasets
    <3>1. CASE x \in 1..L /\ y \in 1..L
      BY <3>1, <2>2 DEF IInv, NoDuplicateDatasets
    <3>2. CASE x = L + 1 /\ y \in 1..L
      BY <3>2, <2>2, <1>4 DEF EqDataset
    <3>3. CASE y = L + 1 /\ x \in 1..L
      BY <3>3, <2>2, <1>4 DEF EqDataset
    <3>4. QED
      BY <3>1, <3>2, <3>3, <2>2
  <2>8. HeldRefsResolve'
    <3> SUFFICES ASSUME NEW h \in held'
                 PROVE  LET i == idOf'[h.obj] IN
                          /\ i \in DOMAIN datasets'
                          /\ idOf'[datasets'[i].obj] = i
                          /\ datasets'[i].kind = h.kind
                          /\ datasets'[i].attrs = h.attrs
                          /\ h.kind \in DupKinds => datasets'[i].obj = h.obj
      BY DEF HeldRefsResolve
    <3>1. CASE h \in held
      <4>1. h.obj # o /\ idOf'[h.obj] = idOf[h.obj]
        BY <3>1, <1>2, <2>1 DEF IInv, HeldCreated, TypeOK
      <4>2. idOf[h.obj] \in 1..L
        BY <3>1, <1>2 DEF IInv, HeldRefsResolve
      <4>3. QED
        BY <3>1, <4>1, <4>2, <2>2, <2>3 DEF IInv, HeldRefsResolve
    <3>2. CASE h = [kind |-> k, attrs |-> a, obj |-> o]
      BY <3>2, <2>2, <2>4
    <3>3. QED
      BY <3>1, <3>2, <2>1
  <2>9. QED
    BY <1>1, <2>5, <2>6, <2>7, <2>8 DEF IInv
<1>5. QED
  BY <1>3, <1>4

LEMMA NextIInv == IInv /\ [Next]_vars => IInv'
<1> SUFFICES ASSUME IInv, [Next]_vars PROVE IInv'
  OBVIOUS
<1>1. TypeOK'
  BY NextTypeOK DEF IInv
<1>2. CASE \E k \in Kinds, a \in Attrs, d \in Details : add(k, a, d)
  BY <1>2, AddIInv
<1>3. CASE get_all_group \/ dump \/ UNCHANGED vars
  <2>1. UNCHANGED <<datasets, idOf, nObj, held>>
    BY <1>3 DEF get_all_group, dump, vars
  <2>2. QED
    BY <1>1, <2>1 DEF IInv, EntriesConsistent, HeldCreated,
                      NoDuplicateDatasets, HeldRefsResolve
<1>4. QED
  BY <1>2, <1>3 DEF Next

(* Every dataset the registry hands out resolves, under the id it carries, *)
(* to the one listed dataset of the caller's class and key attributes,    *)
(* and no two listed datasets are equal by the spec's equality.           *)
THEOREM RegistryIdentity == Spec => [](NoDuplicateDatasets /\ HeldRefsResolve)
<1>1. IInv => NoDuplicateDatasets /\ HeldRefsResolve
  BY DEF IInv
<1>2. QED
  BY InitIInv, NextIInv, <1>1, PTL DEF Spec

-----------------------------------------------------------------------------
GroupsConsistent == GroupsMatch(dataset_groups, datasets)

HeldGroupsConsistent ==
  \A g \in heldGroups :
    /\ g.grp \in DOMAIN dataset_groups
    /\ dataset_groups[g.grp].count = g.upto

GInv ==
  /\ TypeOK
  /\ GroupsConsistent
  /\ HeldGroupsConsistent

LEMMA InitGInv == Init => GInv
BY InitTypeOK DEF Init, GInv, GroupsConsistent, GroupsMatch, HeldGroupsConsistent

(* Bringing the memo up to date keeps every held group where it was.      *)
LEMMA MemoStepGInv ==
  ASSUME GInv, dataset_groups' = AllGroupsAfter(datasets, dataset_groups),
         UNCHANGED datasets
  PROVE  /\ GroupsConsistent'
         /\ \A g \in heldGroups : g.grp \in DOMAIN dataset_groups'
                                  /\ dataset_groups'[g.grp].count = g.upto
         /\ AllGroupIndex(datasets, dataset_groups') \in DOMAIN dataset_groups'
         /\ dataset_groups'[AllGroupIndex(datasets, dataset_groups')].count = Len(datasets)
<1>1. datasets \in Seq(Entry) /\ dataset_groups \in Seq(Group)
      /\ GroupsMatch(dataset_groups, datasets)
  BY DEF GInv, TypeOK, GroupsConsistent
<1>2. /\ GroupsMatch(dataset_groups', datasets)
      /\ dataset_groups'[AllGroupIndex(datasets, dataset_groups')].count = Len(datasets)
      /\ DOMAIN dataset_groups \subseteq DOMAIN dataset_groups'
      /\ \A j \in DOMAIN dataset_groups : dataset_groups'[j] = dataset_groups[j]
  BY <1>1, AllGroupsAfterMatch, EntryObjs DEF Group
<1>3. AllGroupIndex(datasets, dataset_groups') \in DOMAIN dataset_groups'
  BY <1>1, AllGroupType, EntryObjs DEF Group
<1>4. QED
  BY <1>2, <1>3 DEF GInv, HeldGroupsConsistent, GroupsConsistent

LEMMA NextGInv == GInv /\ [Next]_vars => GInv'
<1> SUFFICES ASSUME GInv, [Next]_vars PROVE GInv'
  OBVIOUS
<1>1. TypeOK'
  BY NextTypeOK DEF GInv
<1>2. ASSUME NEW k \in Kinds, NEW a \in Attrs, NEW d \in Details, add(k, a, d)
      PROVE  GInv'
  <2> DEFINE e == [kind |-> k, attrs |-> a, details |-> d, obj |-> nObj + 1, val |-> nObj + 1]
  <2>1. UNCHANGED <<dataset_groups, heldGroups>>
    BY <1>2 DEF add
  <2>2. datasets' = datasets \/ datasets' = Append(datasets, e)
    BY <1>2 DEF add
  <2>3. e \in Entry
    BY <1>2, MaxObjsAssumption DEF add, GInv, TypeOK, Entry, Objs
  <2>4. GroupsMatch(dataset_groups, datasets')
    <3>1. datasets \in Seq(Entry) /\ dataset_groups \in Seq(Group)
          /\ GroupsMatch(dataset_groups, datasets)
      BY DEF GInv, TypeOK, GroupsConsistent
    <3>2. QED
      BY <2>2, <2>3, <3>1, AppendKeepsMatch DEF Group
  <2>5. QED
    BY <1>1, <2>1, <2>4 DEF GInv, GroupsConsistent, HeldGroupsConsistent
<1>3. CASE get_all_group
  <2>1. /\ dataset_groups' = AllGroupsAfter(datasets, dataset_groups)
        /\ UNCHANGED datasets
        /\ heldGroups' = heldGroups \cup
             {[grp |-> AllGroupIndex(datasets, dataset_groups'), upto |-> Len(datasets)]}
    BY <1>3 DEF get_all_group
  <2>2. HeldGroupsConsistent'
    BY <2>1, MemoStepGInv DEF HeldGroupsConsistent
  <2>3. QED
    BY <1>1, <2>1, <2>2, MemoStepGInv DEF GInv
<1>4. CASE dump
  <2>1. /\ dataset_groups' = AllGroupsAfter(datasets, dataset_groups)
        /\ UNCHANGED <<datasets, heldGroups>>
    BY <1>4 DEF dump
  <2>2. QED
    BY <1>1, <2>1, MemoStepGInv DEF GInv, HeldGroupsConsistent
<1>5. CASE UNCHANGED vars
  BY <1>1, <1>5 DEF vars, GInv, GroupsConsistent, HeldGroupsConsistent
<1>6. QED
  BY <1>2, <1>3, <1>4, <1>5 DEF Next

(* A group that get_all_group handed to a caller (a protocol step) holds   *)
(* exactly the datasets registered when it was handed out, whatever add    *)
(* calls came later, and the memo numbers its groups by position.          *)
THEOREM GroupsSnapshot == Spec => []GroupsAreSnapshots
<1>1. GInv => GroupsAreSnapshots
  <2> SUFFICES ASSUME GInv PROVE GroupsAreSnapshots
    OBVIOUS
  <2>1. \A j \in DOMAIN dataset_groups : dataset_groups[j].id = j
    BY DEF GInv, GroupsConsistent, GroupsMatch
  <2>2. ASSUME NEW g \in heldGroups
        PROVE  /\ g.grp \in DOMAIN dataset_groups
               /\ g.upto <= Len(datasets)
               /\ dataset_groups[g.grp].members = Keys(SubSeq(datasets, 1, g.upto))
    <3>1. /\ g.grp \in DOMAIN dataset_groups
          /\ dataset_groups[g.grp].count = g.upto
      BY DEF GInv, HeldGroupsConsistent
    <3>2. /\ datasets \in Seq(Entry)
          /\ dataset_groups[g.grp] \in Group
      BY <3>1, ElementOfSeq DEF GInv, TypeOK
    <3>3. /\ g.upto \in 0..Len(datasets)
          /\ DOMAIN dataset_groups[g.grp].members = 1..g.upto
          /\ \A m \in 1..g.upto : dataset_groups[g.grp].members[m] = datasets[m].obj
      BY <3>1, <3>2 DEF GInv, GroupsConsistent, GroupsMatch, Group, GroupOf
    <3>4. dataset_groups[g.grp].members \in Seq(Objs)
      BY <3>2 DEF Group, GroupOf
    <3>5. QED
      BY <3>1, <3>2, <3>3, <3>4, PrefixKeys DEF Group
  <2>3. QED
    BY <2>1, <2>2 DEF GroupsAreSnapshots
<1>2. QED
  BY InitGInv, NextGInv, <1>1, PTL DEF Spec

(* The step property behind DumpListsEveryDataset: in a state of both    *)
(* invariants, dump lists the id every held dataset object carries.       *)
LEMMA DumpListsHeld ==
  ASSUME IInv, GInv, dump, NEW h \in held
  PROVE  \E r \in listed' : r[1] = idOf[h.obj]
<1> DEFINE gs == AllGroupsAfter(datasets, dataset_groups)
           jj == AllGroupIndex(datasets, gs)
           i == idOf[h.obj]
<1>1. i \in DOMAIN datasets /\ idOf[datasets[i].obj] = i
  BY DEF IInv, HeldRefsResolve
<1>2. /\ dataset_groups' = gs
      /\ UNCHANGED <<datasets, idOf>>
      /\ listed' = UNION { { <<idOf[gs[j].members[m]], gs[j].id>> :
                              m \in DOMAIN gs[j].members } : j \in DOMAIN gs }
  BY DEF dump
<1>3. /\ jj \in DOMAIN gs
      /\ gs[jj].count = Len(datasets)
      /\ GroupsMatch(gs, datasets)
  BY <1>2, MemoStepGInv DEF GroupsConsistent
<1>4. i \in DOMAIN gs[jj].members /\ gs[jj].members[i] = datasets[i].obj
  <2>1. DOMAIN datasets = 1..Len(datasets)
    BY LenProperties DEF IInv, TypeOK
  <2>2. QED
    BY <1>1, <1>3, <2>1 DEF GroupsMatch
<1>5. <<idOf[gs[jj].members[i]], gs[jj].id>> \in listed'
  BY <1>2, <1>3, <1>4
<1>6. QED
  BY <1>1, <1>4, <1>5

(* Every flush lists, in _ihm_dataset_list, the dataset id that every     *)
(* restraint, starting model or protocol holding a registered dataset     *)
(* will write, for every value of the constants.                          *)
THEOREM DumpComplete == Spec => DumpListsEveryDataset
<1>1. IInv /\ GInv /\ [Next]_vars
        => [dump => \A h \in held : \E r \in listed' : r[1] = idOf[h.obj]]_vars
  BY DumpListsHeld
<1>2. QED
  BY <1>1, InitIInv, NextIInv, InitGInv, NextGInv, PTL DEF Spec, DumpListsEveryDataset

(* Deduplication alone, as the dataset_registry run checks it.           *)
THEOREM Deduplicates == Spec => []NoDuplicateDatasets
BY RegistryIdentity, PTL

=============================================================================
