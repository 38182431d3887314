----------------------------- MODULE Components -----------------------------
(***************************************************************************)
(* The component bookkeeping of IMP.pmi.mmcif.ProtocolOutput and the      *)
(* dumpers that read it: create_component (chains, complete and modeled    *)
(* assemblies), add_component_sequence (_EntityMapper), the cross-link     *)
(* dataset and add_experimental_cross_link, add_replica_exchange           *)
(* (ModelProtocolDumper, with its dataset group), add_model (ModelDumper,  *)
(* default model group) and flush, which writes _entity, _struct_asym,     *)
(* _ihm_struct_assembly, _ihm_dataset_list, _ihm_cross_link_list,          *)
(* _ihm_modeling_protocol and _ihm_model_list in the order of _dumpers     *)
(* and stops at the first KeyError.                                        *)
(*                                                                         *)
(* Component names, sequences and cross-link files are model values; an   *)
(* Assembly (a Python list) is the index the AssemblyDumper gave it.       *)
(***************************************************************************)
EXTENDS Naturals, Sequences, FiniteSets

CONSTANTS
  Comps,     \* component names
  Seqs,      \* component sequences
  Files,     \* cross-link data files
  Located,   \* the files _get_location finds in a repository
  Recreate,  \* whether a caller may create a component name twice
  MaxCalls   \* the number of API calls in a behaviour

ASSUME RecreateAssumption == Recreate \in BOOLEAN
ASSUME MaxCallsAssumption == MaxCalls \in Nat

VARIABLES
  all_components,          \* ProtocolOutput._all_components
  all_modeled_components,  \* ProtocolOutput.all_modeled_components
  chains,                  \* ProtocolOutput.chains: name -> chain index
  assemblies,              \* AssemblyDumper.assemblies (1: complete_assembly)
  modeled,                 \* the index of modeled_assembly
  sequence_dict,           \* ProtocolOutput.sequence_dict
  seqEntity,               \* _EntityMapper._sequence_dict: sequence -> id
  entities,                \* _EntityMapper._entities
  entityOf,                \* _EntityMapper itself: name -> entity id
  exp_cross_links,         \* CrossLinkDumper.exp_cross_links
  protocols,               \* ModelProtocolDumper.protocols: dataset groups
  model_groups,            \* the number of ProtocolOutput.model_groups
  default_model_group,     \* its id, 0 while None
  models,                  \* ModelDumper.models
  rows,                    \* category -> rows written by the last flush
  raised,                  \* the category whose dump raised KeyError in the
                           \* last flush, or NoError
  nCalls,
  datasets, idOf, dataset_groups, nObj, held, heldGroups, listed

dsVars == <<datasets, idOf, dataset_groups, nObj, held, heldGroups, listed>>
compVars == <<all_components, all_modeled_components, chains, assemblies, modeled,
              sequence_dict, seqEntity, entities, entityOf>>
vars == <<compVars, exp_cross_links, protocols, model_groups, default_model_group,
          models, rows, raised, nCalls, dsVars>>

(* The dataset registry: this module registers cross-link datasets only.  *)
DS == INSTANCE DatasetDumper
        WITH Kinds <- {"CXMSDataset"}, DupKinds <- {}, Attrs <- Files \cup {"?"},
             Details <- {"?"}, MaxObjs <- MaxCalls

(* A flush that ran every dumper to the end.                             *)
NoError == "none"

Categories == {"entity", "struct_asym", "struct_assembly", "cross_link_list",
               "modeling_protocol", "model_list"}

TypeOK ==
  /\ all_components \subseteq Comps
  /\ all_modeled_components \in Seq(Comps)
  /\ assemblies \in Seq(Seq(Comps))
  /\ modeled \in DOMAIN assemblies
  /\ entities \in Seq([sequence : Seqs, first_component : Comps])
  /\ exp_cross_links \in Seq([c1 : Comps, c2 : Comps, dataset : Nat])
  /\ protocols \in Seq(Nat)
  /\ models \in Seq([protocol : Nat, assembly : Nat, group : Nat])
  /\ DOMAIN rows = Categories
  /\ raised \in Categories \cup {NoError}
  /\ nCalls \in 0..MaxCalls

Call == nCalls < MaxCalls /\ nCalls' = nCalls + 1

(* The Python dict assignment d[k] = v.                                   *)
DictSet(d, k, v) == [x \in DOMAIN d \cup {k} |-> IF x = k THEN v ELSE d[x]]

-----------------------------------------------------------------------------
(* Mutation: the new modeled assembly is never given to the               *)
(* AssemblyDumper, so it has no id.                                       *)
create_component_unregistered(name, isModeled) ==
  LET split == ~isModeled /\ modeled = 1
      as2 == IF isModeled /\ modeled # 1
               THEN [assemblies EXCEPT ![modeled] = Append(@, name)] ELSE assemblies
  IN
  /\ Call
  /\ Recreate \/ name \notin all_components
  /\ all_components' = all_components \cup {name}
  /\ all_modeled_components' =
       IF isModeled THEN Append(all_modeled_components, name) ELSE all_modeled_components
  /\ chains' = IF isModeled THEN DictSet(chains, name, Cardinality(DOMAIN chains)) ELSE chains
  /\ modeled' = IF split THEN Len(assemblies) + 1 ELSE modeled
  /\ assemblies' = [as2 EXCEPT ![1] = Append(@, name)]
  /\ UNCHANGED <<sequence_dict, seqEntity, entities, entityOf, exp_cross_links,
                 protocols, model_groups, default_model_group, models, rows, raised, dsVars>>

(* ProtocolOutput.create_component(name, modeled). A modeled component    *)
(* gets chain index len(chains) and joins the modeled assembly when that   *)
(* is tracked apart; the first non-modeled one splits the modeled assembly *)
(* off as a copy of the complete one, registered with the AssemblyDumper.  *)
(* Every component joins the complete assembly.                           *)
create_component(name, isModeled) ==
  LET split == ~isModeled /\ modeled = 1
      as1 == IF split THEN Append(assemblies, assemblies[1]) ELSE assemblies
      as2 == IF isModeled /\ modeled # 1
               THEN [as1 EXCEPT ![modeled] = Append(@, name)] ELSE as1
  IN
  /\ Call
  /\ Recreate \/ name \notin all_components
  /\ all_components' = all_components \cup {name}
  /\ all_modeled_components' =
       IF isModeled THEN Append(all_modeled_components, name) ELSE all_modeled_components
  /\ chains' = IF isModeled THEN DictSet(chains, name, Cardinality(DOMAIN chains)) ELSE chains
  /\ modeled' = IF split THEN Len(as1) ELSE modeled
  /\ assemblies' = [as2 EXCEPT ![1] = Append(@, name)]
  /\ UNCHANGED <<sequence_dict, seqEntity, entities, entityOf, exp_cross_links,
                 protocols, model_groups, default_model_group, models, rows, raised, dsVars>>

(* Mutation: _EntityMapper.add makes a new entity on every call.          *)
add_component_sequence_noDedup(name, s) ==
  /\ Call
  /\ sequence_dict' = DictSet(sequence_dict, name, s)
  /\ entities' = Append(entities, [sequence |-> s, first_component |-> name])
  /\ seqEntity' = DictSet(seqEntity, s, Len(entities) + 1)
  /\ entityOf' = DictSet(entityOf, name, Len(entities) + 1)
  /\ UNCHANGED <<all_components, all_modeled_components, chains, assemblies, modeled,
                 exp_cross_links, protocols, model_groups, default_model_group,
                 models, rows, raised, dsVars>>

(* ProtocolOutput.add_component_sequence and _EntityMapper.add: a new     *)
(* sequence gets a new entity, described by this component's name; the    *)
(* component maps to the entity of its sequence.                          *)
add_component_sequence(name, s) ==
  LET es == IF s \in DOMAIN seqEntity THEN entities
            ELSE Append(entities, [sequence |-> s, first_component |-> name])
      se == IF s \in DOMAIN seqEntity THEN seqEntity ELSE DictSet(seqEntity, s, Len(es))
  IN
  /\ Call
  /\ sequence_dict' = DictSet(sequence_dict, name, s)
  /\ entities' = es
  /\ seqEntity' = se
  /\ entityOf' = DictSet(entityOf, name, se[s])
  /\ UNCHANGED <<all_components, all_modeled_components, chains, assemblies, modeled,
                 exp_cross_links, protocols, model_groups, default_model_group,
                 models, rows, raised, dsVars>>

(* get_cross_link_dataset(fname): a CXMSDataset at the file's location.   *)
get_cross_link_dataset(f) ==
  /\ Call
  /\ DS!add("CXMSDataset", IF f \in Located THEN f ELSE "?", "?")
  /\ UNCHANGED <<compVars, exp_cross_links, protocols, model_groups,
                 default_model_group, models, rows, raised>>

(* add_experimental_cross_link: ignored (None) when either component was  *)
(* never created; otherwise numbered len(exp_cross_links). The dataset   *)
(* is one a caller got from get_cross_link_dataset.                       *)
add_experimental_cross_link(c1, c2, d) ==
  /\ Call
  /\ exp_cross_links' =
       IF c1 \notin all_components \/ c2 \notin all_components THEN exp_cross_links
       ELSE Append(exp_cross_links, [c1 |-> c1, c2 |-> c2, dataset |-> d])
  /\ UNCHANGED <<compVars, protocols, model_groups, default_model_group,
                 models, rows, raised, dsVars>>

(* add_replica_exchange: ModelProtocolDumper.add numbers the protocol and *)
(* gives it get_all_group().                                              *)
add_replica_exchange ==
  /\ Call
  /\ DS!get_all_group
  /\ protocols' = Append(protocols,
       DS!AllGroupIndex(datasets, DS!AllGroupsAfter(datasets, dataset_groups)))
  /\ UNCHANGED <<compVars, exp_cross_links, model_groups, default_model_group,
                 models, rows, raised, datasets, idOf, nObj, held, listed>>

(* add_model(): the default group "All models" is made on first use;     *)
(* get_last_protocol then raises IndexError when there is no protocol,    *)
(* after the group was made. Otherwise the model keeps the last protocol, *)
(* the modeled_assembly object of this moment and the group.              *)
add_model ==
  LET gid == IF default_model_group = 0 THEN model_groups + 1 ELSE default_model_group IN
  /\ Call
  /\ model_groups' = IF default_model_group = 0 THEN model_groups + 1 ELSE model_groups
  /\ default_model_group' = gid
  /\ models' = IF protocols = << >> THEN models
               ELSE Append(models, [protocol |-> Len(protocols), assembly |-> modeled,
                                    group |-> gid])
  /\ UNCHANGED <<compVars, exp_cross_links, protocols, rows, raised, dsVars>>

-----------------------------------------------------------------------------
(* The dumps of flush that read this state, in _dumpers order. Each is    *)
(* the set of rows it writes, and fails with KeyError when a component it *)
(* looks up in entities (or sequence_dict) has none.                      *)
HasEntity(c) == c \in DOMAIN entityOf
(* get_chain_for_component: output.chainids[chains[c]], here the index   *)
(* plus one, or 0 for CifWriter.omitted when the component has no chain. *)
Chain(c) == IF c \in DOMAIN chains THEN chains[c] + 1 ELSE 0

AsmComps(a) == {assemblies[a][k] : k \in DOMAIN assemblies[a]}

ModeledComps == {all_modeled_components[k] : k \in DOMAIN all_modeled_components}

(* The dumps in _dumpers order; the DatasetDumper dumps between           *)
(* _ihm_struct_assembly and _ihm_cross_link_list.                         *)
Order == <<"entity", "struct_asym", "struct_assembly", "cross_link_list",
           "modeling_protocol", "model_list">>

(* EntityDumper.dump: one _entity row per entity.                         *)
EntityRows == {[id |-> e, sequence |-> entities[e].sequence] : e \in DOMAIN entities}

(* StructAsymDumper.dump: one _struct_asym row per modeled component.     *)
StructAsymOk == \A c \in ModeledComps : HasEntity(c)
StructAsymRows == {[asym |-> Chain(c), entity |-> entityOf[c]] : c \in ModeledComps}

(* AssemblyDumper.dump: a row per component of every assembly, with its   *)
(* entity and the length of sequence_dict[comp].                          *)
AssemblyOk ==
  \A a \in DOMAIN assemblies : \A c \in AsmComps(a) : HasEntity(c) /\ c \in DOMAIN sequence_dict
AssemblyRows ==
  UNION {{[assembly |-> a, comp |-> c, entity |-> entityOf[c], asym |-> Chain(c)]
            : c \in AsmComps(a)} : a \in DOMAIN assemblies}

(* CrossLinkDumper.dump_list: a row per experimental cross-link, with the *)
(* entities of both components and the dataset's id.                     *)
CrossLinkOk ==
  \A x \in DOMAIN exp_cross_links :
    HasEntity(exp_cross_links[x].c1) /\ HasEntity(exp_cross_links[x].c2)
CrossLinkRows ==
  {[id |-> x, entity1 |-> entityOf[exp_cross_links[x].c1],
    entity2 |-> entityOf[exp_cross_links[x].c2],
    dataset |-> idOf[exp_cross_links[x].dataset]] : x \in DOMAIN exp_cross_links}

(* ModelProtocolDumper.dump: a row per protocol, naming the modeled       *)
(* assembly of flush time and the protocol's dataset group.               *)
ProtocolRows ==
  {[step |-> p, assembly |-> modeled, dataset_group |-> dataset_groups[protocols[p]].id]
     : p \in DOMAIN protocols}

(* ModelDumper.dump_model_list: a row per model.                         *)
ModelListRows ==
  {[model |-> m, group |-> models[m].group, assembly |-> models[m].assembly,
    protocol |-> models[m].protocol] : m \in DOMAIN models}

DumpOk(cat) ==
  CASE cat = "struct_asym" -> StructAsymOk
    [] cat = "struct_assembly" -> AssemblyOk
    [] cat = "cross_link_list" -> CrossLinkOk
    [] OTHER -> TRUE

DumpRows(cat) ==
  CASE cat = "entity" -> EntityRows
    [] cat = "struct_asym" -> StructAsymRows
    [] cat = "struct_assembly" -> AssemblyRows
    [] cat = "cross_link_list" -> CrossLinkRows
    [] cat = "modeling_protocol" -> ProtocolRows
    [] cat = "model_list" -> ModelListRows

(* The position in _dumpers of the first dump that raises.                *)
FailAt ==
  LET bad == {i \in DOMAIN Order : ~DumpOk(Order[i])}
  IN IF bad = {} THEN Len(Order) + 1 ELSE CHOOSE i \in bad : \A j \in bad : i <= j

(* ProtocolOutput.flush for these dumpers (their finalize is the no-op): *)
(* every dump before the first that raises writes its rows.               *)
flush ==
  /\ IF FailAt > 3 THEN DS!dump ELSE UNCHANGED dsVars
  /\ rows' = [c \in Categories |->
               LET i == CHOOSE i \in DOMAIN Order : Order[i] = c
               IN IF i < FailAt THEN DumpRows(c) ELSE {}]
  /\ raised' = IF FailAt <= Len(Order) THEN Order[FailAt] ELSE NoError
  /\ UNCHANGED <<compVars, exp_cross_links, protocols, model_groups, default_model_group,
                 models, nCalls>>

Init ==
  /\ all_components = {}
  /\ all_modeled_components = << >>
  /\ chains = << >>
  /\ assemblies = << << >> >>
  /\ modeled = 1
  /\ sequence_dict = << >>
  /\ seqEntity = << >>
  /\ entities = << >>
  /\ entityOf = << >>
  /\ exp_cross_links = << >>
  /\ protocols = << >>
  /\ model_groups = 0
  /\ default_model_group = 0
  /\ models = << >>
  /\ rows = [c \in Categories |-> {}]
  /\ raised = NoError
  /\ nCalls = 0
  /\ DS!Init

Next ==
  \/ \E c \in Comps, m \in BOOLEAN : create_component(c, m)
  \/ \E c \in Comps, s \in Seqs : add_component_sequence(c, s)
  \/ \E f \in Files : get_cross_link_dataset(f)
  \/ \E c1, c2 \in Comps, h \in held : add_experimental_cross_link(c1, c2, h.obj)
  \/ add_replica_exchange
  \/ add_model
  \/ flush

Spec == Init /\ [][Next]_vars

-----------------------------------------------------------------------------
(* Entities: every component with a sequence maps to an entity holding    *)
(* its current sequence, and no two entities hold the same sequence, so   *)
(* two components share an entity id exactly when their sequences are     *)
(* equal, whatever the order of create and add_component_sequence calls.  *)
EntitiesBySequence ==
  /\ \A c \in DOMAIN entityOf :
       /\ entityOf[c] \in DOMAIN entities
       /\ entities[entityOf[c]].sequence = sequence_dict[c]
  /\ \A e1, e2 \in DOMAIN entities :
       e1 # e2 => entities[e1].sequence # entities[e2].sequence

(* Every foreign id a flush writes belongs to a record already numbered:  *)
(* assembly ids of the model list and the modeling protocol, entity ids   *)
(* of the asym, assembly and cross-link rows, the protocol and model      *)
(* group of each model, the dataset of each cross-link (listed by the     *)
(* same flush) and the dataset group of each protocol.                    *)
RowsReferenceAssigned ==
  /\ \A r \in rows["model_list"] :
       /\ r.assembly \in DOMAIN assemblies
       /\ r.protocol \in DOMAIN protocols
       /\ r.group \in 1..model_groups
  /\ \A r \in rows["modeling_protocol"] :
       /\ r.assembly \in DOMAIN assemblies
       /\ \E j \in DOMAIN dataset_groups : dataset_groups[j].id = r.dataset_group
  /\ \A r \in rows["struct_asym"] \cup rows["struct_assembly"] : r.entity \in DOMAIN entities
  /\ \A r \in rows["cross_link_list"] :
       /\ {r.entity1, r.entity2} \subseteq DOMAIN entities
       /\ \E l \in listed : l[1] = r.dataset

(* The assembly a model names holds only modeled components: add_model   *)
(* passes self.modeled_assembly, "the assembly of all components modeled *)
(* by IMP".                                                               *)
ModelAssemblyIsModeled ==
  \A m \in DOMAIN models : AsmComps(models[m].assembly) \subseteq ModeledComps

(* _struct_asym is written: StructAsymDumper.dump never stops with a     *)
(* KeyError on the entity of a modeled component it looks up.            *)
StructAsymWritten == raised # "struct_asym"

====
