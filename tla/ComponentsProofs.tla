--------------------------- MODULE ComponentsProofs ---------------------------
(***************************************************************************)
(* Proofs about the component bookkeeping of ProtocolOutput, for every     *)
(* set of component names and sequences and every number of calls: the    *)
(* _EntityMapper gives one entity per distinct sequence, and every         *)
(* component with a sequence the entity of its current sequence.          *)
(***************************************************************************)
EXTENDS Components, DatasetMemoProofs

EntityRec == [sequence : Seqs, first_component : Comps]

(* The inductive invariant. _EntityMapper._sequence_dict (seqEntity) and  *)
(* the entity list are inverse: every entity is the one registered for    *)
(* its sequence and every registered sequence names its entity. Each       *)
(* component with a sequence maps to the entity of that sequence.         *)
EntityMapperConsistent ==
  /\ entities \in Seq(EntityRec)
  /\ sequence_dict \in [DOMAIN sequence_dict -> Seqs]
  /\ seqEntity \in [DOMAIN seqEntity -> Nat]
  /\ entityOf \in [DOMAIN entityOf -> Nat]
  /\ \A e \in DOMAIN entities :
       /\ entities[e].sequence \in DOMAIN seqEntity
       /\ seqEntity[entities[e].sequence] = e
  /\ \A s \in DOMAIN seqEntity :
       /\ seqEntity[s] \in DOMAIN entities
       /\ entities[seqEntity[s]].sequence = s
  /\ \A c \in DOMAIN entityOf :
       /\ c \in DOMAIN sequence_dict
       /\ sequence_dict[c] \in DOMAIN seqEntity
       /\ entityOf[c] = seqEntity[sequence_dict[c]]

-----------------------------------------------------------------------------
(* Before any call the mapper, the entity list and both dicts are empty. *)
LEMMA InitEntityMapper == Init => EntityMapperConsistent
<1> SUFFICES ASSUME Init PROVE EntityMapperConsistent
  OBVIOUS
<1>1. /\ entities \in Seq(EntityRec)
      /\ DOMAIN entities = {} /\ DOMAIN sequence_dict = {}
      /\ DOMAIN seqEntity = {} /\ DOMAIN entityOf = {}
  BY EmptySeq DEF Init
<1>2. QED
  BY <1>1 DEF Init, EntityMapperConsistent

(* add_component_sequence keeps the mapper consistent: a known sequence   *)
(* reuses its entity, a new one gets the next entity id, which no other    *)
(* sequence or component names.                                           *)
LEMMA AddSequenceEntityMapper ==
  ASSUME EntityMapperConsistent, NEW name \in Comps, NEW s \in Seqs,
         add_component_sequence(name, s)
  PROVE  EntityMapperConsistent'
<1> DEFINE L == Len(entities)
<1>1. /\ entities \in Seq(EntityRec) /\ L \in Nat /\ DOMAIN entities = 1..L
      /\ sequence_dict \in [DOMAIN sequence_dict -> Seqs]
      /\ seqEntity \in [DOMAIN seqEntity -> Nat]
      /\ entityOf \in [DOMAIN entityOf -> Nat]
  BY LenProperties DEF EntityMapperConsistent
<1>2. /\ sequence_dict' = DictSet(sequence_dict, name, s)
      /\ sequence_dict' \in [DOMAIN sequence_dict' -> Seqs]
      /\ DOMAIN sequence_dict' = DOMAIN sequence_dict \cup {name}
      /\ sequence_dict'[name] = s
      /\ \A c \in DOMAIN sequence_dict : c # name => sequence_dict'[c] = sequence_dict[c]
  <2>1. sequence_dict' = DictSet(sequence_dict, name, s)
    BY DEF add_component_sequence
  <2>2. QED
    BY <1>1, <2>1 DEF DictSet
<1>3. CASE s \in DOMAIN seqEntity
  <2>1. /\ entities' = entities /\ seqEntity' = seqEntity
        /\ entityOf' = DictSet(entityOf, name, seqEntity[s])
    BY <1>3 DEF add_component_sequence
  <2>2. /\ entityOf' \in [DOMAIN entityOf' -> Nat]
        /\ DOMAIN entityOf' = DOMAIN entityOf \cup {name}
        /\ entityOf'[name] = seqEntity[s]
        /\ \A c \in DOMAIN entityOf : c # name => entityOf'[c] = entityOf[c]
    BY <1>1, <1>3, <2>1 DEF DictSet
  <2>3. \A c \in DOMAIN entityOf' :
          /\ c \in DOMAIN sequence_dict'
          /\ sequence_dict'[c] \in DOMAIN seqEntity'
          /\ entityOf'[c] = seqEntity'[sequence_dict'[c]]
    BY <1>2, <1>3, <2>1, <2>2 DEF EntityMapperConsistent
  <2>4. QED
    BY <1>2, <2>1, <2>2, <2>3 DEF EntityMapperConsistent
<1>4. CASE s \notin DOMAIN seqEntity
  <2> DEFINE new == [sequence |-> s, first_component |-> name]
  <2>1. /\ entities' = Append(entities, new)
        /\ seqEntity' = DictSet(seqEntity, s, L + 1)
        /\ entityOf' = DictSet(entityOf, name, seqEntity'[s])
    <3>1. Len(Append(entities, new)) = L + 1
      BY <1>1, AppendProperties
    <3>2. QED
      BY <1>4, <3>1 DEF add_component_sequence
  <2>2. /\ entities' \in Seq(EntityRec)
        /\ DOMAIN entities' = 1..(L + 1)
        /\ \A e \in 1..L : entities'[e] = entities[e]
        /\ entities'[L + 1] = new
    <3>1. new \in EntityRec
      BY DEF EntityRec
    <3>2. QED
      BY <1>1, <2>1, <3>1, AppendProperties
  <2>3. /\ seqEntity' \in [DOMAIN seqEntity' -> Nat]
        /\ DOMAIN seqEntity' = DOMAIN seqEntity \cup {s}
        /\ seqEntity'[s] = L + 1
        /\ \A t \in DOMAIN seqEntity : seqEntity'[t] = seqEntity[t]
    BY <1>1, <1>4, <2>1 DEF DictSet
  <2>4. /\ entityOf' \in [DOMAIN entityOf' -> Nat]
        /\ DOMAIN entityOf' = DOMAIN entityOf \cup {name}
        /\ entityOf'[name] = L + 1
        /\ \A c \in DOMAIN entityOf : c # name => entityOf'[c] = entityOf[c]
    BY <1>1, <2>1, <2>3 DEF DictSet
  <2>5. \A e \in DOMAIN entities' :
          /\ entities'[e].sequence \in DOMAIN seqEntity'
          /\ seqEntity'[entities'[e].sequence] = e
    <3> SUFFICES ASSUME NEW e \in 1..(L + 1)
                 PROVE  /\ entities'[e].sequence \in DOMAIN seqEntity'
                        /\ seqEntity'[entities'[e].sequence] = e
      BY <2>2
    <3>1. CASE e \in 1..L
      BY <1>1, <2>2, <2>3, <3>1 DEF EntityMapperConsistent
    <3>2. CASE e = L + 1
      BY <2>2, <2>3, <3>2
    <3>3. QED
      BY <3>1, <3>2
  <2>6. \A t \in DOMAIN seqEntity' :
          /\ seqEntity'[t] \in DOMAIN entities'
          /\ entities'[seqEntity'[t]].sequence = t
    <3> SUFFICES ASSUME NEW t \in DOMAIN seqEntity'
                 PROVE  /\ seqEntity'[t] \in DOMAIN entities'
                        /\ entities'[seqEntity'[t]].sequence = t
      OBVIOUS
    <3>1. CASE t \in DOMAIN seqEntity
      <4>1. seqEntity[t] \in 1..L /\ entities[seqEntity[t]].sequence = t
        BY <1>1, <3>1 DEF EntityMapperConsistent
      <4>2. QED
        BY <2>2, <2>3, <3>1, <4>1
    <3>2. CASE t = s
      BY <2>2, <2>3, <3>2
    <3>3. QED
      BY <2>3, <3>1, <3>2
  <2>7. \A c \in DOMAIN entityOf' :
          /\ c \in DOMAIN sequence_dict'
          /\ sequence_dict'[c] \in DOMAIN seqEntity'
          /\ entityOf'[c] = seqEntity'[sequence_dict'[c]]
    <3> SUFFICES ASSUME NEW c \in DOMAIN entityOf'
                 PROVE  /\ c \in DOMAIN sequence_dict'
                        /\ sequence_dict'[c] \in DOMAIN seqEntity'
                        /\ entityOf'[c] = seqEntity'[sequence_dict'[c]]
      OBVIOUS
    <3>1. CASE c = name
      BY <1>2, <2>3, <2>4, <3>1
    <3>2. CASE c # name
      <4>1. /\ c \in DOMAIN entityOf /\ c \in DOMAIN sequence_dict
            /\ sequence_dict[c] \in DOMAIN seqEntity
            /\ entityOf[c] = seqEntity[sequence_dict[c]]
        BY <2>4, <3>2 DEF EntityMapperConsistent
      <4>2. QED
        BY <1>2, <2>3, <2>4, <3>2, <4>1
    <3>3. QED
      BY <3>1, <3>2
  <2>8. QED
    BY <1>2, <2>2, <2>3, <2>4, <2>5, <2>6, <2>7 DEF EntityMapperConsistent
<1>5. QED
  BY <1>3, <1>4

(* Every call keeps the mapper consistent; only add_component_sequence    *)
(* touches the entity bookkeeping.                                        *)
LEMMA NextEntityMapper == EntityMapperConsistent /\ [Next]_vars => EntityMapperConsistent'
<1> SUFFICES ASSUME EntityMapperConsistent, [Next]_vars PROVE EntityMapperConsistent'
  OBVIOUS
<1> DEFINE em == <<sequence_dict, seqEntity, entities, entityOf>>
<1>1. CASE \E c \in Comps, s \in Seqs : add_component_sequence(c, s)
  BY <1>1, AddSequenceEntityMapper
<1>2. CASE \E c \in Comps, m \in BOOLEAN : create_component(c, m)
  <2>1. UNCHANGED em
    BY <1>2 DEF create_component
  <2>2. QED
    BY <2>1 DEF EntityMapperConsistent
<1>3. CASE \/ \E f \in Files : get_cross_link_dataset(f)
           \/ \E c1, c2 \in Comps, h \in held : add_experimental_cross_link(c1, c2, h.obj)
           \/ add_replica_exchange \/ add_model \/ flush \/ UNCHANGED vars
  <2>1. UNCHANGED compVars
    BY <1>3 DEF get_cross_link_dataset, add_experimental_cross_link, add_replica_exchange,
                add_model, flush, vars
  <2>2. UNCHANGED em
    BY <2>1 DEF compVars
  <2>3. QED
    BY <2>2 DEF EntityMapperConsistent
<1>4. QED
  BY <1>1, <1>2, <1>3 DEF Next

(* Components and entities: whatever the order of create_component and    *)
(* add_component_sequence calls (a component may be given a new sequence), *)
(* every component with a sequence maps to an entity of its current       *)
(* sequence and no two entities share a sequence, so _entity, _struct_asym *)
(* and the assembly rows agree on which components are the same molecule.  *)
THEOREM EntitiesDeduplicated == Spec => []EntitiesBySequence
<1>1. EntityMapperConsistent => EntitiesBySequence
  <2> SUFFICES ASSUME EntityMapperConsistent PROVE EntitiesBySequence
    OBVIOUS
  <2>1. \A c \in DOMAIN entityOf :
          /\ entityOf[c] \in DOMAIN entities
          /\ entities[entityOf[c]].sequence = sequence_dict[c]
    BY DEF EntityMapperConsistent
  <2>2. \A e1, e2 \in DOMAIN entities :
          e1 # e2 => entities[e1].sequence # entities[e2].sequence
    BY DEF EntityMapperConsistent
  <2>3. QED
    BY <2>1, <2>2 DEF EntitiesBySequence
<1>2. QED
  BY InitEntityMapper, NextEntityMapper, <1>1, PTL DEF Spec

-----------------------------------------------------------------------------
(* The registry inside ProtocolOutput (it registers CXMSDatasets only).  *)
(* Every entry maps its key object to itself, every dataset object a      *)
(* caller holds is the key of an entry, and the group memo keeps prefix   *)
(* snapshots of the entries.                                              *)
RegistryShape ==
  /\ datasets \in Seq(DS!Entry)
  /\ dataset_groups \in Seq(GroupOf(DS!Objs))
  /\ nObj \in Nat

RegistryHeld ==
  /\ \A i \in DOMAIN datasets : datasets[i].val = datasets[i].obj
  /\ \A h \in held : \E i \in DOMAIN datasets : datasets[i].obj = h.obj
  /\ GroupsMatch(dataset_groups, datasets)

(* The records a later flush will name are already numbered: each model   *)
(* keeps an assembly, a protocol and a group that exist, each protocol a   *)
(* dataset group of the memo, and each experimental cross-link a dataset   *)
(* object that get_cross_link_dataset returned.                           *)
ComponentsShape ==
  /\ assemblies \in Seq(Seq(Comps))
  /\ modeled \in DOMAIN assemblies
  /\ protocols \in Seq(Nat)
  /\ models \in Seq([protocol : Nat, assembly : Nat, group : Nat])
  /\ exp_cross_links \in Seq([c1 : Comps, c2 : Comps, dataset : Nat])
  /\ model_groups \in Nat
  /\ default_model_group \in 0..model_groups

RecordsNumbered ==
  /\ \A m \in DOMAIN models :
       /\ models[m].assembly \in DOMAIN assemblies
       /\ models[m].protocol \in DOMAIN protocols
       /\ models[m].group \in 1..model_groups
  /\ \A p \in DOMAIN protocols : protocols[p] \in DOMAIN dataset_groups
  /\ \A x \in DOMAIN exp_cross_links : \E h \in held : h.obj = exp_cross_links[x].dataset

(* The inductive invariant behind RowsReferenceAssigned: the rows of the  *)
(* last flush keep naming numbered records because every numbering only   *)
(* grows, and the next flush writes rows from records already numbered.   *)
Numbered ==
  /\ ComponentsShape
  /\ RegistryShape
  /\ RegistryHeld
  /\ RecordsNumbered
  /\ RowsReferenceAssigned

RInv == EntityMapperConsistent /\ Numbered

-----------------------------------------------------------------------------
(* The registry's entries hold dataset objects.                           *)
LEMMA DSEntryObjs == \A e \in DS!Entry : e.obj \in DS!Objs
BY DEF DS!Entry

(* The instance's memo operators are the memo's own.                      *)
LEMMA DSMemo ==
  ASSUME NEW ds, NEW gs
  PROVE  /\ DS!AllGroupsAfter(ds, gs) = AllGroupsAfter(ds, gs)
         /\ DS!AllGroupIndex(ds, gs) = AllGroupIndex(ds, gs)
BY DEF DS!AllGroupsAfter, AllGroupsAfter, DS!AllGroupIndex, AllGroupIndex, DS!Keys, Keys

(* get_all_group and dump bring the memo up to date: the registry keeps   *)
(* its shape, every old group stays where it was, and the group of the    *)
(* current size is one of the memo's.                                     *)
LEMMA MemoStep ==
  ASSUME RegistryShape, RegistryHeld,
         dataset_groups' = AllGroupsAfter(datasets, dataset_groups),
         UNCHANGED <<datasets, held, nObj>>
  PROVE  /\ RegistryShape' /\ RegistryHeld'
         /\ AllGroupIndex(datasets, dataset_groups') \in DOMAIN dataset_groups'
         /\ dataset_groups'[AllGroupIndex(datasets, dataset_groups')].count = Len(datasets)
         /\ \A j \in DOMAIN dataset_groups :
              j \in DOMAIN dataset_groups' /\ dataset_groups'[j] = dataset_groups[j]
<1>1. /\ \A e \in DS!Entry : e.obj \in DS!Objs
      /\ datasets \in Seq(DS!Entry)
      /\ dataset_groups \in Seq(GroupOf(DS!Objs))
      /\ GroupsMatch(dataset_groups, datasets)
  BY DSEntryObjs DEF RegistryShape, RegistryHeld
<1>2. /\ AllGroupsAfter(datasets, dataset_groups) \in Seq(GroupOf(DS!Objs))
      /\ AllGroupIndex(datasets, AllGroupsAfter(datasets, dataset_groups))
           \in DOMAIN AllGroupsAfter(datasets, dataset_groups)
  BY <1>1, AllGroupType
<1>3. /\ GroupsMatch(AllGroupsAfter(datasets, dataset_groups), datasets)
      /\ AllGroupsAfter(datasets, dataset_groups)[AllGroupIndex(datasets,
           AllGroupsAfter(datasets, dataset_groups))].count = Len(datasets)
      /\ DOMAIN dataset_groups \subseteq DOMAIN AllGroupsAfter(datasets, dataset_groups)
      /\ \A j \in DOMAIN dataset_groups :
           AllGroupsAfter(datasets, dataset_groups)[j] = dataset_groups[j]
  BY <1>1, AllGroupsAfterMatch
<1>4. GroupsMatch(dataset_groups', datasets')
  BY <1>3
<1>5. QED
  BY <1>2, <1>3, <1>4 DEF RegistryShape, RegistryHeld

(* get_cross_link_dataset: DatasetDumper.add either hands back the key    *)
(* object of an equal entry or appends a fresh one; the memo and the      *)
(* dataset list are left alone.                                           *)
LEMMA AddStep ==
  ASSUME RegistryShape, RegistryHeld, NEW a \in Files \cup {"?"},
         DS!add("CXMSDataset", a, "?")
  PROVE  /\ RegistryShape' /\ RegistryHeld'
         /\ held \subseteq held'
         /\ UNCHANGED <<dataset_groups, listed>>
<1> DEFINE o == nObj + 1
           d == [kind |-> "CXMSDataset", attrs |-> a, details |-> "?", obj |-> o, val |-> o]
<1>1. /\ nObj < MaxCalls /\ nObj' = o
      /\ UNCHANGED <<dataset_groups, heldGroups, listed>>
  BY DEF DS!add
<1>2. CASE \E i \in DOMAIN datasets : DS!EqDataset(datasets[i], d)
  <2> DEFINE i == CHOOSE i \in DOMAIN datasets : DS!EqDataset(datasets[i], d)
  <2>1. i \in DOMAIN datasets
    BY <1>2
  <2>2. /\ held' = held \cup {[kind |-> "CXMSDataset", attrs |-> a, obj |-> datasets[i].val]}
        /\ UNCHANGED <<datasets, idOf>>
    BY <1>2 DEF DS!add
  <2>3. datasets[i].val = datasets[i].obj
    BY <2>1 DEF RegistryHeld
  <2>4. \A h \in held' : \E j \in DOMAIN datasets : datasets[j].obj = h.obj
    BY <2>1, <2>2, <2>3 DEF RegistryHeld
  <2>5. GroupsMatch(dataset_groups', datasets')
    BY <1>1, <2>2 DEF RegistryHeld
  <2>6. RegistryShape'
    BY <1>1, <2>2 DEF RegistryShape
  <2>7. \A j \in DOMAIN datasets' : datasets'[j].val = datasets'[j].obj
    BY <2>2 DEF RegistryHeld
  <2>8. QED
    BY <1>1, <2>2, <2>4, <2>5, <2>6, <2>7 DEF RegistryHeld
<1>3. CASE ~\E i \in DOMAIN datasets : DS!EqDataset(datasets[i], d)
  <2>1. /\ datasets' = Append(datasets, d)
        /\ held' = held \cup {[kind |-> "CXMSDataset", attrs |-> a, obj |-> o]}
    BY <1>3 DEF DS!add
  <2>2. d \in DS!Entry
    BY <1>1, MaxCallsAssumption DEF RegistryShape, DS!Entry, DS!Objs
  <2>3. /\ datasets' \in Seq(DS!Entry)
        /\ DOMAIN datasets' = 1..(Len(datasets) + 1)
        /\ \A j \in 1..Len(datasets) : datasets'[j] = datasets[j]
        /\ datasets'[Len(datasets) + 1] = d
        /\ DOMAIN datasets = 1..Len(datasets)
    BY <2>1, <2>2, AppendProperties, LenProperties DEF RegistryShape
  <2>4. GroupsMatch(dataset_groups, datasets')
    <3>1. /\ datasets \in Seq(DS!Entry)
          /\ dataset_groups \in Seq(GroupOf(DS!Objs))
          /\ GroupsMatch(dataset_groups, datasets)
      BY DEF RegistryShape, RegistryHeld
    <3>2. QED
      BY <2>1, <2>2, <3>1, AppendKeepsMatch
  <2>5. \A j \in DOMAIN datasets' : datasets'[j].val = datasets'[j].obj
    BY <2>3 DEF RegistryHeld
  <2>6. \A h \in held' : \E j \in DOMAIN datasets' : datasets'[j].obj = h.obj
    BY <2>1, <2>3 DEF RegistryHeld
  <2>7. GroupsMatch(dataset_groups', datasets')
    BY <1>1, <2>4
  <2>8. QED
    BY <1>1, <2>1, <2>3, <2>5, <2>6, <2>7 DEF RegistryShape, RegistryHeld
<1>4. QED
  BY <1>2, <1>3

(* A nonempty set of dump positions has a first one.                     *)
LEMMA FirstPosition ==
  ASSUME NEW B \in SUBSET (1..6), B # {}
  PROVE  \E i \in B : \A j \in B : i <= j
<1>1. CASE 1 \in B
  BY <1>1
<1>2. CASE 1 \notin B /\ 2 \in B
  BY <1>2
<1>3. CASE 1 \notin B /\ 2 \notin B /\ 3 \in B
  BY <1>3
<1>4. CASE 1 \notin B /\ 2 \notin B /\ 3 \notin B /\ 4 \in B
  BY <1>4
<1>5. CASE 1 \notin B /\ 2 \notin B /\ 3 \notin B /\ 4 \notin B /\ 5 \in B
  BY <1>5
<1>6. CASE 1 \notin B /\ 2 \notin B /\ 3 \notin B /\ 4 \notin B /\ 5 \notin B
  <2>1. \A j \in B : j = 6
    BY <1>6
  <2>2. 6 \in B
    BY <2>1
  <2>3. QED
    BY <2>1, <2>2
<1>7. QED
  BY <1>1, <1>2, <1>3, <1>4, <1>5, <1>6

(* Every dump before the first that raises finds what it looks up.        *)
LEMMA DumpsBeforeFailure ==
  /\ FailAt \in 1..7
  /\ \A i \in 1..6 : i < FailAt => DumpOk(Order[i])
<1> DEFINE bad == {i \in DOMAIN Order : ~DumpOk(Order[i])}
<1>1. DOMAIN Order = 1..6 /\ Len(Order) = 6
  BY DEF Order
<1>2. CASE bad = {}
  <2>1. FailAt = 7
    BY <1>1, <1>2 DEF FailAt
  <2>2. QED
    BY <1>1, <1>2, <2>1
<1>3. CASE bad # {}
  <2>1. \E i \in bad : \A j \in bad : i <= j
    BY <1>1, <1>3, FirstPosition
  <2>2. FailAt = CHOOSE i \in bad : \A j \in bad : i <= j
    BY <1>1, <1>3 DEF FailAt
  <2>3. FailAt \in bad /\ \A j \in bad : FailAt <= j
    BY <2>1, <2>2
  <2>4. QED
    BY <1>1, <2>3
<1>4. QED
  BY <1>2, <1>3

(* The position flush looks up for each category.                         *)
LEMMA Positions ==
  /\ (CHOOSE i \in DOMAIN Order : Order[i] = "entity") = 1
  /\ (CHOOSE i \in DOMAIN Order : Order[i] = "struct_asym") = 2
  /\ (CHOOSE i \in DOMAIN Order : Order[i] = "struct_assembly") = 3
  /\ (CHOOSE i \in DOMAIN Order : Order[i] = "cross_link_list") = 4
  /\ (CHOOSE i \in DOMAIN Order : Order[i] = "modeling_protocol") = 5
  /\ (CHOOSE i \in DOMAIN Order : Order[i] = "model_list") = 6
<1>1. /\ DOMAIN Order = 1..6
      /\ Order[1] = "entity" /\ Order[2] = "struct_asym" /\ Order[3] = "struct_assembly"
      /\ Order[4] = "cross_link_list" /\ Order[5] = "modeling_protocol"
      /\ Order[6] = "model_list"
  BY DEF Order
<1>2. QED
  BY <1>1

(* What each dump finds when it does not raise.                           *)
LEMMA DumpOkCases ==
  /\ DumpOk(Order[2]) = StructAsymOk
  /\ DumpOk(Order[3]) = AssemblyOk
  /\ DumpOk(Order[4]) = CrossLinkOk
BY DEF DumpOk, Order

(* A component's entity is one of the entities _EntityMapper lists.       *)
LEMMA EntityOfListed ==
  ASSUME EntityMapperConsistent, NEW c \in DOMAIN entityOf
  PROVE  entityOf[c] \in DOMAIN entities
BY DEF EntityMapperConsistent

(* DatasetDumper.dump lists, in _ihm_dataset_list, the id of every dataset *)
(* object a caller holds: the group of the current size has every key     *)
(* object as a member, and each held object is one of them.               *)
LEMMA DumpListsHeldObject ==
  ASSUME RegistryShape, RegistryHeld, DS!dump, NEW h \in held
  PROVE  \E l \in listed' : l[1] = idOf[h.obj]
<1> DEFINE gs == AllGroupsAfter(datasets, dataset_groups)
           jj == AllGroupIndex(datasets, dataset_groups')
<1>1. /\ dataset_groups' = gs
      /\ listed' = UNION { { <<idOf[gs[j].members[k]], gs[j].id>> :
                              k \in DOMAIN gs[j].members } : j \in DOMAIN gs }
      /\ UNCHANGED <<datasets, idOf, nObj, held>>
  BY DSMemo DEF DS!dump
<1>2. /\ RegistryHeld'
      /\ jj \in DOMAIN dataset_groups'
      /\ dataset_groups'[jj].count = Len(datasets)
  BY <1>1, MemoStep
<1>3. /\ DOMAIN gs[jj].members = 1..Len(datasets)
      /\ \A m \in 1..Len(datasets) : gs[jj].members[m] = datasets[m].obj
  <2>1. GroupsMatch(gs, datasets)
    BY <1>1, <1>2 DEF RegistryHeld
  <2>2. QED
    BY <1>1, <1>2, <2>1 DEF GroupsMatch
<1>4. PICK i \in DOMAIN datasets : datasets[i].obj = h.obj
  BY DEF RegistryHeld
<1>5. i \in 1..Len(datasets)
  BY LenProperties DEF RegistryShape
<1>6. <<idOf[gs[jj].members[i]], gs[jj].id>> \in listed'
  BY <1>1, <1>2, <1>3, <1>5
<1>7. QED
  BY <1>3, <1>4, <1>5, <1>6

(* Before any call, nothing is numbered and no row is written.             *)
LEMMA InitRInv == Init => RInv
<1> SUFFICES ASSUME Init PROVE RInv
  OBVIOUS
<1>1. ComponentsShape
  <2>1. << >> \in Seq(Comps) /\ << << >> >> \in Seq(Seq(Comps))
    BY EmptySeq, AppendProperties
  <2>2. QED
    BY <2>1, EmptySeq DEF Init, ComponentsShape
<1>2. EntityMapperConsistent
  BY InitEntityMapper
<1>3. RegistryShape /\ RegistryHeld
  BY EmptySeq DEF Init, DS!Init, RegistryShape, RegistryHeld, GroupsMatch
<1>4. RecordsNumbered /\ RowsReferenceAssigned
  BY DEF Init, RecordsNumbered, RowsReferenceAssigned, Categories
<1>5. QED
  BY <1>1, <1>2, <1>3, <1>4 DEF RInv, Numbered

(* The numberings only grow: a step that keeps the rows and the dataset   *)
(* list of the last flush, and loses no assembly, protocol, model group,  *)
(* entity or memo group, keeps every row naming a numbered record.        *)
LEMMA RowsKept ==
  ASSUME RowsReferenceAssigned, model_groups \in Nat, model_groups' \in Nat,
         model_groups <= model_groups',
         DOMAIN assemblies \subseteq DOMAIN assemblies',
         DOMAIN protocols \subseteq DOMAIN protocols',
         DOMAIN entities \subseteq DOMAIN entities',
         \A j \in DOMAIN dataset_groups :
           j \in DOMAIN dataset_groups' /\ dataset_groups'[j] = dataset_groups[j],
         UNCHANGED <<rows, listed>>
  PROVE  RowsReferenceAssigned'
<1>1. \A r \in rows'["model_list"] :
        /\ r.assembly \in DOMAIN assemblies'
        /\ r.protocol \in DOMAIN protocols'
        /\ r.group \in 1..model_groups'
  BY DEF RowsReferenceAssigned
<1>2. \A r \in rows'["modeling_protocol"] :
        /\ r.assembly \in DOMAIN assemblies'
        /\ \E j \in DOMAIN dataset_groups' : dataset_groups'[j].id = r.dataset_group
  BY DEF RowsReferenceAssigned
<1>3. \A r \in rows'["struct_asym"] \cup rows'["struct_assembly"] :
        r.entity \in DOMAIN entities'
  BY DEF RowsReferenceAssigned
<1>4. \A r \in rows'["cross_link_list"] :
        /\ {r.entity1, r.entity2} \subseteq DOMAIN entities'
        /\ \E l \in listed' : l[1] = r.dataset
  BY DEF RowsReferenceAssigned
<1>5. QED
  BY <1>1, <1>2, <1>3, <1>4 DEF RowsReferenceAssigned

(* The same for the records a later flush will name, when a step adds no  *)
(* model, protocol or cross-link.                                         *)
LEMMA RecordsKept ==
  ASSUME RecordsNumbered, model_groups \in Nat, model_groups' \in Nat,
         model_groups <= model_groups',
         DOMAIN assemblies \subseteq DOMAIN assemblies',
         \A j \in DOMAIN dataset_groups : j \in DOMAIN dataset_groups',
         held \subseteq held',
         UNCHANGED <<models, protocols, exp_cross_links>>
  PROVE  RecordsNumbered'
BY DEF RecordsNumbered

(* create_component: the complete assembly and, when it is tracked apart, *)
(* the modeled one grow by the component; the first non-modeled component  *)
(* splits the modeled assembly off as a new, numbered copy.               *)
LEMMA CreateNumbered ==
  ASSUME RInv, NEW name \in Comps, NEW isModeled \in BOOLEAN,
         create_component(name, isModeled)
  PROVE  Numbered'
<1> DEFINE split == ~isModeled /\ modeled = 1
           as1 == IF split THEN Append(assemblies, assemblies[1]) ELSE assemblies
           as2 == IF isModeled /\ modeled # 1
                    THEN [as1 EXCEPT ![modeled] = Append(@, name)] ELSE as1
<1>1. /\ assemblies \in Seq(Seq(Comps)) /\ modeled \in DOMAIN assemblies
      /\ DOMAIN assemblies = 1..Len(assemblies) /\ 1 \in DOMAIN assemblies
  BY LenProperties DEF RInv, Numbered, ComponentsShape
<1>2. /\ as1 \in Seq(Seq(Comps))
      /\ DOMAIN assemblies \subseteq DOMAIN as1
      /\ DOMAIN as1 = 1..Len(as1)
      /\ split => Len(as1) \in DOMAIN as1
  <2>1. assemblies[1] \in Seq(Comps)
    BY <1>1, ElementOfSeq
  <2>2. QED
    BY <1>1, <2>1, AppendProperties, LenProperties
<1>3. /\ as2 \in Seq(Seq(Comps))
      /\ DOMAIN as2 = DOMAIN as1
  <2>1. CASE isModeled /\ modeled # 1
    <3>1. modeled \in DOMAIN as1 /\ as1[modeled] \in Seq(Comps)
      BY <1>1, <1>2, ElementOfSeq
    <3>2. Append(as1[modeled], name) \in Seq(Comps)
      BY <3>1, AppendProperties
    <3>3. QED
      BY <1>2, <2>1, <3>1, <3>2
  <2>2. CASE ~(isModeled /\ modeled # 1)
    BY <1>2, <2>2
  <2>3. QED
    BY <2>1, <2>2
<1>4. /\ assemblies' \in Seq(Seq(Comps))
      /\ DOMAIN assemblies \subseteq DOMAIN assemblies'
      /\ modeled' \in DOMAIN assemblies'
  <2>1. assemblies' = [as2 EXCEPT ![1] = Append(@, name)]
        /\ modeled' = IF split THEN Len(as1) ELSE modeled
    BY DEF create_component
  <2>2. 1 \in DOMAIN as2 /\ as2[1] \in Seq(Comps)
    BY <1>1, <1>2, <1>3, ElementOfSeq
  <2>3. Append(as2[1], name) \in Seq(Comps)
    BY <2>2, AppendProperties
  <2>4. QED
    BY <1>1, <1>2, <1>3, <2>1, <2>2, <2>3
<1>5. UNCHANGED <<protocols, models, exp_cross_links, model_groups, default_model_group,
                  entities, rows, raised, dsVars>>
  BY DEF create_component
<1>6. ComponentsShape'
  BY <1>4, <1>5 DEF RInv, Numbered, ComponentsShape
<1>7. RegistryShape' /\ RegistryHeld'
  BY <1>5 DEF RInv, Numbered, RegistryShape, RegistryHeld, dsVars
<1>8. RecordsNumbered'
  <2>1. RecordsNumbered /\ model_groups \in Nat
    BY DEF RInv, Numbered, ComponentsShape
  <2>2. QED
    BY <1>4, <1>5, <2>1, RecordsKept DEF dsVars
<1>9. RowsReferenceAssigned'
  <2>1. RowsReferenceAssigned /\ model_groups \in Nat
    BY DEF RInv, Numbered, ComponentsShape
  <2>2. QED
    BY <1>4, <1>5, <2>1, RowsKept DEF dsVars
<1>10. QED
  BY <1>6, <1>7, <1>8, <1>9 DEF Numbered

(* add_component_sequence only adds entities.                             *)
LEMMA SequenceNumbered ==
  ASSUME RInv, NEW name \in Comps, NEW sq \in Seqs, add_component_sequence(name, sq)
  PROVE  Numbered'
<1>1. /\ entities \in Seq(EntityRec)
      /\ DOMAIN entities \subseteq DOMAIN entities'
  <2>1. entities \in Seq(EntityRec)
    BY DEF RInv, EntityMapperConsistent
  <2>2. CASE sq \in DOMAIN seqEntity
    BY <2>1, <2>2 DEF add_component_sequence
  <2>3. CASE sq \notin DOMAIN seqEntity
    <3>1. entities' = Append(entities, [sequence |-> sq, first_component |-> name])
      BY <2>3 DEF add_component_sequence
    <3>2. QED
      BY <2>1, <3>1, AppendProperties, LenProperties
  <2>4. QED
    BY <2>1, <2>2, <2>3
<1>2. UNCHANGED <<assemblies, modeled, protocols, models, exp_cross_links, model_groups,
                  default_model_group, rows, raised, dsVars>>
  BY DEF add_component_sequence
<1>3. /\ ComponentsShape /\ RegistryShape /\ RegistryHeld /\ RecordsNumbered
      /\ RowsReferenceAssigned /\ model_groups \in Nat
  BY DEF RInv, Numbered, ComponentsShape
<1>4. ComponentsShape' /\ RegistryShape' /\ RegistryHeld'
  BY <1>2, <1>3 DEF ComponentsShape, RegistryShape, RegistryHeld, dsVars
<1>5. RecordsNumbered'
  BY <1>2, <1>3, RecordsKept DEF dsVars
<1>6. RowsReferenceAssigned'
  BY <1>1, <1>2, <1>3, RowsKept DEF dsVars
<1>7. QED
  BY <1>4, <1>5, <1>6 DEF Numbered

(* get_cross_link_dataset registers a dataset: held objects only grow and *)
(* the memo and the listed rows are left alone.                           *)
LEMMA DatasetNumbered ==
  ASSUME RInv, NEW f \in Files, get_cross_link_dataset(f)
  PROVE  Numbered'
<1>1. /\ RegistryShape /\ RegistryHeld
      /\ (IF f \in Located THEN f ELSE "?") \in Files \cup {"?"}
  BY DEF RInv, Numbered
<1>2. DS!add("CXMSDataset", IF f \in Located THEN f ELSE "?", "?")
  BY DEF get_cross_link_dataset
<1>3. /\ RegistryShape' /\ RegistryHeld'
      /\ held \subseteq held'
      /\ UNCHANGED <<dataset_groups, listed>>
  BY <1>1, <1>2, AddStep
<1>4. UNCHANGED <<assemblies, modeled, entities, protocols, models, exp_cross_links,
                  model_groups, default_model_group, rows, raised>>
  BY DEF get_cross_link_dataset, compVars
<1>5. /\ ComponentsShape /\ RecordsNumbered /\ RowsReferenceAssigned
      /\ model_groups \in Nat
  BY DEF RInv, Numbered, ComponentsShape
<1>6. ComponentsShape'
  BY <1>4, <1>5 DEF ComponentsShape
<1>7. RecordsNumbered'
  BY <1>3, <1>4, <1>5, RecordsKept
<1>8. RowsReferenceAssigned'
  BY <1>3, <1>4, <1>5, RowsKept
<1>9. QED
  BY <1>3, <1>6, <1>7, <1>8 DEF Numbered

(* add_experimental_cross_link keeps a dataset object a caller holds.     *)
LEMMA CrossLinkNumbered ==
  ASSUME RInv, NEW c1 \in Comps, NEW c2 \in Comps, NEW h \in held,
         add_experimental_cross_link(c1, c2, h.obj)
  PROVE  Numbered'
<1>1. /\ ComponentsShape /\ RegistryShape /\ RegistryHeld /\ RecordsNumbered
      /\ RowsReferenceAssigned /\ model_groups \in Nat
  BY DEF RInv, Numbered, ComponentsShape
<1>2. UNCHANGED <<assemblies, modeled, entities, protocols, models, model_groups,
                  default_model_group, rows, raised, dsVars>>
  BY DEF add_experimental_cross_link, compVars
<1>3. h.obj \in Nat
  <2>1. PICK i \in DOMAIN datasets : datasets[i].obj = h.obj
    BY <1>1 DEF RegistryHeld
  <2>2. datasets[i] \in DS!Entry
    BY <1>1, ElementOfSeq, LenProperties DEF RegistryShape
  <2>3. QED
    BY <2>1, <2>2 DEF DS!Entry, DS!Objs
<1> DEFINE x == [c1 |-> c1, c2 |-> c2, dataset |-> h.obj]
<1>4. /\ exp_cross_links' \in Seq([c1 : Comps, c2 : Comps, dataset : Nat])
      /\ \A y \in DOMAIN exp_cross_links' :
           \E g \in held : g.obj = exp_cross_links'[y].dataset
  <2>1. CASE c1 \notin all_components \/ c2 \notin all_components
    BY <1>1, <2>1 DEF add_experimental_cross_link, ComponentsShape, RecordsNumbered
  <2>2. CASE ~(c1 \notin all_components \/ c2 \notin all_components)
    <3>1. exp_cross_links' = Append(exp_cross_links, x)
      BY <2>2 DEF add_experimental_cross_link
    <3>2. /\ exp_cross_links \in Seq([c1 : Comps, c2 : Comps, dataset : Nat])
          /\ x \in [c1 : Comps, c2 : Comps, dataset : Nat]
      BY <1>1, <1>3 DEF ComponentsShape
    <3>3. /\ exp_cross_links' \in Seq([c1 : Comps, c2 : Comps, dataset : Nat])
          /\ DOMAIN exp_cross_links' = 1..(Len(exp_cross_links) + 1)
          /\ \A y \in 1..Len(exp_cross_links) : exp_cross_links'[y] = exp_cross_links[y]
          /\ exp_cross_links'[Len(exp_cross_links) + 1] = x
          /\ DOMAIN exp_cross_links = 1..Len(exp_cross_links)
      BY <3>1, <3>2, AppendProperties, LenProperties
    <3>4. QED
      BY <1>1, <3>3 DEF RecordsNumbered
  <2>3. QED
    BY <2>1, <2>2
<1>5. ComponentsShape'
  BY <1>1, <1>2, <1>4 DEF ComponentsShape
<1>6. RegistryShape' /\ RegistryHeld'
  BY <1>1, <1>2 DEF RegistryShape, RegistryHeld, dsVars
<1>7. RecordsNumbered'
  BY <1>1, <1>2, <1>4 DEF RecordsNumbered, dsVars
<1>8. RowsReferenceAssigned'
  BY <1>1, <1>2, RowsKept DEF dsVars
<1>9. QED
  BY <1>5, <1>6, <1>7, <1>8 DEF Numbered

(* add_replica_exchange numbers the protocol with the group of the        *)
(* current size, which the memo now holds; old groups stay where they are. *)
LEMMA ProtocolNumbered ==
  ASSUME RInv, add_replica_exchange
  PROVE  Numbered'
<1> DEFINE jj == AllGroupIndex(datasets, dataset_groups')
<1>1. /\ ComponentsShape /\ RegistryShape /\ RegistryHeld /\ RecordsNumbered
      /\ RowsReferenceAssigned /\ model_groups \in Nat
  BY DEF RInv, Numbered, ComponentsShape
<1>2. /\ dataset_groups' = AllGroupsAfter(datasets, dataset_groups)
      /\ protocols' = Append(protocols, jj)
      /\ UNCHANGED <<datasets, idOf, nObj, held, listed>>
      /\ UNCHANGED <<assemblies, modeled, entities, exp_cross_links, models, model_groups,
                     default_model_group, rows, raised>>
  BY DSMemo DEF add_replica_exchange, DS!get_all_group, compVars
<1>3. /\ RegistryShape' /\ RegistryHeld'
      /\ jj \in DOMAIN dataset_groups'
      /\ \A j \in DOMAIN dataset_groups :
           j \in DOMAIN dataset_groups' /\ dataset_groups'[j] = dataset_groups[j]
  BY <1>1, <1>2, MemoStep
<1>4. jj \in Nat
  BY <1>3, LenProperties DEF RegistryShape
<1>5. /\ protocols' \in Seq(Nat)
      /\ DOMAIN protocols' = 1..(Len(protocols) + 1)
      /\ \A p \in 1..Len(protocols) : protocols'[p] = protocols[p]
      /\ protocols'[Len(protocols) + 1] = jj
      /\ DOMAIN protocols = 1..Len(protocols)
  <2>1. protocols \in Seq(Nat)
    BY <1>1 DEF ComponentsShape
  <2>2. /\ Append(protocols, jj) \in Seq(Nat)
        /\ Len(Append(protocols, jj)) = Len(protocols) + 1
        /\ \A p \in 1..Len(protocols) : Append(protocols, jj)[p] = protocols[p]
        /\ Append(protocols, jj)[Len(protocols) + 1] = jj
    BY <1>4, <2>1, AppendProperties
  <2>3. /\ DOMAIN Append(protocols, jj) = 1..(Len(protocols) + 1)
        /\ DOMAIN protocols = 1..Len(protocols)
    BY <2>1, <2>2, LenProperties
  <2>4. QED
    BY <1>2, <2>2, <2>3
<1>6. ComponentsShape'
  BY <1>1, <1>2, <1>5 DEF ComponentsShape
<1>7. RecordsNumbered'
  <2>1. \A m \in DOMAIN models' :
          /\ models'[m].assembly \in DOMAIN assemblies'
          /\ models'[m].protocol \in DOMAIN protocols'
          /\ models'[m].group \in 1..model_groups'
    BY <1>1, <1>2, <1>5 DEF RecordsNumbered
  <2>2. \A p \in DOMAIN protocols' : protocols'[p] \in DOMAIN dataset_groups'
    BY <1>1, <1>3, <1>5 DEF RecordsNumbered
  <2>3. \A x \in DOMAIN exp_cross_links' :
          \E h \in held' : h.obj = exp_cross_links'[x].dataset
    BY <1>1, <1>2 DEF RecordsNumbered
  <2>4. QED
    BY <2>1, <2>2, <2>3 DEF RecordsNumbered
<1>8. RowsReferenceAssigned'
  BY <1>1, <1>2, <1>3, <1>5, RowsKept
<1>9. QED
  BY <1>3, <1>6, <1>7, <1>8 DEF Numbered

(* add_model makes the default group on first use, and records a model    *)
(* only when there is a protocol, naming the last one.                    *)
LEMMA ModelNumbered ==
  ASSUME RInv, add_model
  PROVE  Numbered'
<1> DEFINE gid == IF default_model_group = 0 THEN model_groups + 1 ELSE default_model_group
           mrec == [protocol |-> Len(protocols), assembly |-> modeled, group |-> gid]
<1>1. /\ ComponentsShape /\ RegistryShape /\ RegistryHeld /\ RecordsNumbered
      /\ RowsReferenceAssigned /\ model_groups \in Nat
  BY DEF RInv, Numbered, ComponentsShape
<1>2. /\ model_groups' = IF default_model_group = 0 THEN model_groups + 1 ELSE model_groups
      /\ default_model_group' = gid
      /\ models' = IF protocols = << >> THEN models ELSE Append(models, mrec)
      /\ UNCHANGED <<assemblies, modeled, entities, exp_cross_links, protocols,
                     rows, raised, dsVars>>
  BY DEF add_model, compVars
<1>3. /\ model_groups' \in Nat /\ model_groups <= model_groups'
      /\ gid \in 1..model_groups'
      /\ default_model_group' \in 0..model_groups'
  BY <1>1, <1>2 DEF ComponentsShape
<1>4. /\ models' \in Seq([protocol : Nat, assembly : Nat, group : Nat])
      /\ \A m \in DOMAIN models' :
           /\ models'[m].assembly \in DOMAIN assemblies
           /\ models'[m].protocol \in DOMAIN protocols
           /\ models'[m].group \in 1..model_groups'
  <2>1. CASE protocols = << >>
    BY <1>1, <1>2, <1>3, <2>1 DEF ComponentsShape, RecordsNumbered
  <2>2. CASE protocols # << >>
    <3>1. /\ Len(protocols) \in DOMAIN protocols
          /\ modeled \in DOMAIN assemblies /\ modeled \in Nat
      BY <1>1, <2>2, LenProperties, EmptySeq DEF ComponentsShape
    <3>2. mrec \in [protocol : Nat, assembly : Nat, group : Nat]
      BY <1>3, <3>1
    <3>3. /\ models' \in Seq([protocol : Nat, assembly : Nat, group : Nat])
          /\ DOMAIN models' = 1..(Len(models) + 1)
          /\ \A m \in 1..Len(models) : models'[m] = models[m]
          /\ models'[Len(models) + 1] = mrec
          /\ DOMAIN models = 1..Len(models)
      BY <1>1, <1>2, <2>2, <3>2, AppendProperties, LenProperties DEF ComponentsShape
    <3>4. ASSUME NEW m \in 1..Len(models)
          PROVE  /\ models'[m].assembly \in DOMAIN assemblies
                 /\ models'[m].protocol \in DOMAIN protocols
                 /\ models'[m].group \in 1..model_groups'
      <4>1. m \in DOMAIN models /\ models'[m] = models[m]
        BY <3>3
      <4>2. /\ models[m].assembly \in DOMAIN assemblies
            /\ models[m].protocol \in DOMAIN protocols
            /\ models[m].group \in 1..model_groups
        BY <1>1, <4>1 DEF RecordsNumbered
      <4>3. QED
        BY <1>1, <1>3, <4>1, <4>2
    <3>5. /\ mrec.assembly \in DOMAIN assemblies
          /\ mrec.protocol \in DOMAIN protocols
          /\ mrec.group \in 1..model_groups'
      BY <1>3, <3>1
    <3>6. ASSUME NEW m \in DOMAIN models'
          PROVE  /\ models'[m].assembly \in DOMAIN assemblies
                 /\ models'[m].protocol \in DOMAIN protocols
                 /\ models'[m].group \in 1..model_groups'
      <4>1. CASE m \in 1..Len(models)
        BY <3>4, <4>1
      <4>2. CASE m = Len(models) + 1
        BY <3>3, <3>5, <4>2
      <4>3. QED
        BY <3>3, <4>1, <4>2
    <3>7. QED
      BY <3>3, <3>6
  <2>3. QED
    BY <2>1, <2>2
<1>5. ComponentsShape'
  BY <1>1, <1>2, <1>3, <1>4 DEF ComponentsShape
<1>6. RegistryShape' /\ RegistryHeld'
  <2>1. UNCHANGED <<datasets, dataset_groups, nObj, held>>
    BY <1>2 DEF dsVars
  <2>2. RegistryShape'
    BY <1>1, <2>1 DEF RegistryShape
  <2>3. GroupsMatch(dataset_groups', datasets')
    BY <1>1, <2>1 DEF RegistryHeld
  <2>4. RegistryHeld'
    BY <1>1, <2>1, <2>3 DEF RegistryHeld
  <2>5. QED
    BY <2>2, <2>4
<1>7. RecordsNumbered'
  BY <1>1, <1>2, <1>4 DEF RecordsNumbered, dsVars
<1>8. RowsReferenceAssigned'
  BY <1>1, <1>2, <1>3, RowsKept DEF dsVars
<1>9. QED
  BY <1>5, <1>6, <1>7, <1>8 DEF Numbered

(* flush writes rows only from numbered records: each dump before the     *)
(* first KeyError finds every component's entity, and a flush that reaches *)
(* the cross-link list has run DatasetDumper.dump first, which lists every *)
(* dataset object a caller holds.                                         *)
LEMMA FlushNumbered ==
  ASSUME RInv, flush
  PROVE  Numbered'
<1>1. /\ ComponentsShape /\ RegistryShape /\ RegistryHeld /\ RecordsNumbered
      /\ EntityMapperConsistent /\ model_groups \in Nat
  BY DEF RInv, Numbered, ComponentsShape
<1>2. /\ UNCHANGED <<assemblies, modeled, entities, entityOf, all_modeled_components,
                     exp_cross_links, protocols, model_groups, default_model_group, models>>
      /\ rows' = [c \in Categories |->
                   IF (CHOOSE i \in DOMAIN Order : Order[i] = c) < FailAt
                     THEN DumpRows(c) ELSE {}]
  BY DEF flush, compVars
<1>3. /\ RegistryShape' /\ RegistryHeld' /\ held' = held
      /\ \A j \in DOMAIN dataset_groups :
           j \in DOMAIN dataset_groups' /\ dataset_groups'[j] = dataset_groups[j]
      /\ FailAt > 3 => DS!dump
  <2>1. CASE FailAt > 3
    <3>1. DS!dump
      BY <2>1 DEF flush
    <3>2. dataset_groups' = AllGroupsAfter(datasets, dataset_groups)
          /\ UNCHANGED <<datasets, held, nObj>>
      BY <3>1, DSMemo DEF DS!dump
    <3>3. QED
      BY <1>1, <3>1, <3>2, MemoStep
  <2>2. CASE ~(FailAt > 3)
    <3>1. UNCHANGED dsVars
      BY <2>2 DEF flush
    <3>2. QED
      BY <1>1, <2>2, <3>1 DEF RegistryShape, RegistryHeld, dsVars
  <2>3. QED
    BY <2>1, <2>2
<1>4. /\ FailAt \in 1..7
      /\ \A i \in 1..6 : i < FailAt => DumpOk(Order[i])
  BY DumpsBeforeFailure
<1>5. ComponentsShape'
  BY <1>1, <1>2 DEF ComponentsShape
<1>6. RecordsNumbered'
  BY <1>1, <1>2, <1>3, RecordsKept
<1>7. \A r \in rows'["model_list"] :
        /\ r.assembly \in DOMAIN assemblies'
        /\ r.protocol \in DOMAIN protocols'
        /\ r.group \in 1..model_groups'
  <2>1. rows'["model_list"] \subseteq ModelListRows
    BY <1>2, Positions DEF Categories, DumpRows
  <2>2. SUFFICES ASSUME NEW r \in rows'["model_list"]
                 PROVE  /\ r.assembly \in DOMAIN assemblies
                        /\ r.protocol \in DOMAIN protocols
                        /\ r.group \in 1..model_groups
    BY <1>2
  <2>3. PICK m \in DOMAIN models :
          r = [model |-> m, group |-> models[m].group, assembly |-> models[m].assembly,
               protocol |-> models[m].protocol]
    BY <2>1 DEF ModelListRows
  <2>4. QED
    BY <1>1, <2>3 DEF RecordsNumbered
<1>8. \A r \in rows'["modeling_protocol"] :
        /\ r.assembly \in DOMAIN assemblies'
        /\ \E j \in DOMAIN dataset_groups' : dataset_groups'[j].id = r.dataset_group
  <2>1. rows'["modeling_protocol"] \subseteq ProtocolRows
    BY <1>2, Positions DEF Categories, DumpRows
  <2>2. ASSUME NEW p \in DOMAIN protocols
        PROVE  \E j \in DOMAIN dataset_groups' :
                 dataset_groups'[j].id = dataset_groups[protocols[p]].id
    <3>1. protocols[p] \in DOMAIN dataset_groups
      BY <1>1 DEF RecordsNumbered
    <3>2. QED
      BY <1>3, <3>1
  <2>3. SUFFICES ASSUME NEW r \in rows'["modeling_protocol"]
                 PROVE  /\ r.assembly \in DOMAIN assemblies
                        /\ \E j \in DOMAIN dataset_groups' :
                             dataset_groups'[j].id = r.dataset_group
    BY <1>2
  <2>4. PICK p \in DOMAIN protocols :
          r = [step |-> p, assembly |-> modeled,
               dataset_group |-> dataset_groups[protocols[p]].id]
    BY <2>1 DEF ProtocolRows
  <2>5. QED
    BY <1>1, <2>2, <2>4 DEF ComponentsShape
<1>9. \A r \in rows'["struct_asym"] : r.entity \in DOMAIN entities'
  <2>1. rows'["struct_asym"] = IF 2 < FailAt THEN StructAsymRows ELSE {}
    BY <1>2, Positions DEF Categories, DumpRows
  <2>2. CASE 2 < FailAt
    <3>1. StructAsymOk
      BY <1>4, <2>2, DumpOkCases
    <3>2. ASSUME NEW c \in ModeledComps PROVE entityOf[c] \in DOMAIN entities
      BY <1>1, <3>1, EntityOfListed DEF StructAsymOk, HasEntity
    <3>3. SUFFICES ASSUME NEW r \in StructAsymRows PROVE r.entity \in DOMAIN entities
      BY <1>2, <2>1, <2>2
    <3>4. PICK c \in ModeledComps : r = [asym |-> Chain(c), entity |-> entityOf[c]]
      BY DEF StructAsymRows
    <3>5. QED
      BY <3>2, <3>4
  <2>3. QED
    BY <2>1, <2>2
<1>10. \A r \in rows'["struct_assembly"] : r.entity \in DOMAIN entities'
  <2>1. rows'["struct_assembly"] = IF 3 < FailAt THEN AssemblyRows ELSE {}
    BY <1>2, Positions DEF Categories, DumpRows
  <2>2. CASE 3 < FailAt
    <3>1. AssemblyOk
      BY <1>4, <2>2, DumpOkCases
    <3>2. ASSUME NEW a \in DOMAIN assemblies, NEW c \in AsmComps(a)
          PROVE  entityOf[c] \in DOMAIN entities
      BY <1>1, <3>1, EntityOfListed DEF AssemblyOk, HasEntity
    <3>3. QED
      BY <1>2, <2>1, <2>2, <3>2 DEF AssemblyRows
  <2>3. QED
    BY <2>1, <2>2
<1>11. \A r \in rows'["cross_link_list"] :
         /\ {r.entity1, r.entity2} \subseteq DOMAIN entities'
         /\ \E l \in listed' : l[1] = r.dataset
  <2>1. rows'["cross_link_list"] = IF 4 < FailAt THEN CrossLinkRows ELSE {}
    BY <1>2, Positions DEF Categories, DumpRows
  <2>2. CASE 4 < FailAt
    <3>1. CrossLinkOk /\ DS!dump
      BY <1>3, <1>4, <2>2, DumpOkCases
    <3>2. ASSUME NEW x \in DOMAIN exp_cross_links
          PROVE  /\ entityOf[exp_cross_links[x].c1] \in DOMAIN entities
                 /\ entityOf[exp_cross_links[x].c2] \in DOMAIN entities
                 /\ \E l \in listed' : l[1] = idOf[exp_cross_links[x].dataset]
      <4>1. /\ exp_cross_links[x].c1 \in DOMAIN entityOf
            /\ exp_cross_links[x].c2 \in DOMAIN entityOf
        BY <3>1 DEF CrossLinkOk, HasEntity
      <4>2. PICK h \in held : h.obj = exp_cross_links[x].dataset
        BY <1>1 DEF RecordsNumbered
      <4>3. \E l \in listed' : l[1] = idOf[h.obj]
        BY <1>1, <3>1, DumpListsHeldObject
      <4>4. QED
        BY <1>1, <4>1, <4>2, <4>3, EntityOfListed
    <3>3. SUFFICES ASSUME NEW r \in CrossLinkRows
                   PROVE  /\ {r.entity1, r.entity2} \subseteq DOMAIN entities
                          /\ \E l \in listed' : l[1] = r.dataset
      BY <1>2, <2>1, <2>2
    <3>4. PICK x \in DOMAIN exp_cross_links :
            r = [id |-> x, entity1 |-> entityOf[exp_cross_links[x].c1],
                 entity2 |-> entityOf[exp_cross_links[x].c2],
                 dataset |-> idOf[exp_cross_links[x].dataset]]
      BY DEF CrossLinkRows
    <3>5. QED
      BY <3>2, <3>4
  <2>3. QED
    BY <2>1, <2>2
<1>12. RowsReferenceAssigned'
  BY <1>7, <1>8, <1>9, <1>10, <1>11 DEF RowsReferenceAssigned
<1>13. QED
  BY <1>3, <1>5, <1>6, <1>12 DEF Numbered

(* Every step of the dumpers keeps the invariant: one lemma per operation, *)
(* and a stutter changes nothing it mentions.                             *)
LEMMA NextRInv == RInv /\ [Next]_vars => RInv'
<1> SUFFICES ASSUME RInv, [Next]_vars PROVE RInv'
  OBVIOUS
<1>1. EntityMapperConsistent'
  BY NextEntityMapper DEF RInv
<1>2. Numbered'
  <2>1. CASE \E c \in Comps, m \in BOOLEAN : create_component(c, m)
    BY <2>1, CreateNumbered
  <2>2. CASE \E c \in Comps, s \in Seqs : add_component_sequence(c, s)
    BY <2>2, SequenceNumbered
  <2>3. CASE \E f \in Files : get_cross_link_dataset(f)
    BY <2>3, DatasetNumbered
  <2>4. CASE \E c1, c2 \in Comps, h \in held : add_experimental_cross_link(c1, c2, h.obj)
    BY <2>4, CrossLinkNumbered
  <2>5. CASE add_replica_exchange
    BY <2>5, ProtocolNumbered
  <2>6. CASE add_model
    BY <2>6, ModelNumbered
  <2>7. CASE flush
    BY <2>7, FlushNumbered
  <2>8. CASE UNCHANGED vars
    BY <2>8 DEF RInv, vars, compVars, dsVars, Numbered, ComponentsShape, RegistryShape,
              RegistryHeld, RecordsNumbered, RowsReferenceAssigned, GroupsMatch
  <2>9. QED
    BY <2>1, <2>2, <2>3, <2>4, <2>5, <2>6, <2>7, <2>8 DEF Next
<1>3. QED
  BY <1>1, <1>2 DEF RInv

(* Whatever order the dumpers are called in, every row a flush writes      *)
(* (model_list, modeling_protocol, struct_asym, struct_assembly,           *)
(* cross_link_list) names a model group, assembly, protocol, entity or     *)
(* dataset that is already numbered when the row is written.              *)
THEOREM RowsReferenced == Spec => []RowsReferenceAssigned
<1>1. RInv => RowsReferenceAssigned
  BY DEF RInv, Numbered
<1>2. QED
  BY <1>1, InitRInv, NextRInv, PTL DEF Spec

=============================================================================
