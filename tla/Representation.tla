--------------------------- MODULE Representation ---------------------------
(***************************************************************************)
(* The structural representation of IMP.pmi.mmcif: ProtocolOutput's        *)
(* add_pdb_element and add_bead_element, the fragment lists of             *)
(* ModelRepresentationDumper, the starting models of StartingModelDumper   *)
(* (whose get_sources classifies each input PDB file by its header and     *)
(* registers its dataset with the DatasetDumper), and the part of flush    *)
(* that finalizes the starting models and writes the                      *)
(* _ihm_model_representation, _ihm_dataset_list and                        *)
(* _ihm_starting_model_details rows.                                       *)
(*                                                                         *)
(* A PDB file is a model value; its header is given by the constant        *)
(* Header, the templates a MODELLER header lists by Templates, and whether *)
(* a repository location is known for it by Located. Residue ranges come   *)
(* from the small set Ranges. Fragment objects are numbered by creation.   *)
(***************************************************************************)
EXTENDS Naturals, Sequences, SequencesExt

CONSTANTS
  Comps,      \* component names
  Pdbs,       \* input PDB files
  Header,     \* [Pdbs -> {"HEADER", "MODELLER", "OTHER"}]: the first line
  Templates,  \* [Pdbs -> SUBSET (Nat \X Nat)]: REMARK 6 TEMPLATE ranges
  Located,    \* the files for which _get_location finds a repository
  Ranges,     \* residue ranges <<start, end>> an element may cover
  Offsets,    \* residue offsets of PDB elements
  Nums,       \* numbers of beads of a bead element
  MaxFrags    \* the number of elements a behaviour may add

ASSUME HeaderAssumption == Header \in [Pdbs -> {"HEADER", "MODELLER", "OTHER"}]
ASSUME TemplatesAssumption == Templates \in [Pdbs -> SUBSET (Nat \X Nat)]
ASSUME RangesAssumption == Ranges \subseteq (Nat \ {0}) \X (Nat \ {0})
ASSUME MaxFragsAssumption == MaxFrags \in Nat

VARIABLES
  fragments,       \* ModelRepresentationDumper.fragments: comp -> fragments
  models,          \* StartingModelDumper.models: comp -> starting models
  starting_model,  \* StartingModelDumper.starting_model: <<comp, pdb>> -> index
  modeller_used,   \* SoftwareDumper.modeller_used
  nFrag,           \* elements added so far
  log,             \* history: every element added, in order
  reprRows,        \* rows of _ihm_model_representation of the last flush
  detailRows,      \* rows of _ihm_starting_model_details of the last flush
  raised,          \* the last flush raised an exception
  datasets, idOf, dataset_groups, nObj, held, heldGroups, listed

dsVars == <<datasets, idOf, dataset_groups, nObj, held, heldGroups, listed>>
vars == <<fragments, models, starting_model, modeller_used, nFrag, log,
          reprRows, detailRows, raised, dsVars>>

(* The dataset registry shared with the rest of ProtocolOutput; the only   *)
(* datasets here are those get_sources registers.                          *)
DS == INSTANCE DatasetDumper
        WITH Kinds <- {"PDBDataset", "CompModelDataset"}, DupKinds <- {},
             Attrs <- Pdbs \cup {"?"}, Details <- {"?"}, MaxObjs <- MaxFrags

None == "None"

Frag == [kind : {"pdb", "beads"}, start : Nat, end : Nat, offset : Nat,
         num : Nat, pdb : Pdbs \cup {None}, fid : Nat]

Source == [type : {"PDBSource", "TemplateSource", "UnknownSource"},
           b : Nat, e : Nat]

(* sourcesNone: get_sources returned None rather than a list.           *)
StartingModel == [pdb : Pdbs, frags : Seq(Frag), sources : Seq(Source),
                  sourcesNone : BOOLEAN, dataset : Nat,
                  seq_id_begin : Nat, seq_id_end : Nat]

TypeOK ==
  /\ fragments \in [Comps -> Seq(Frag)]
  /\ models \in [Comps -> Seq(StartingModel)]
  /\ starting_model \in [Comps \X Pdbs -> Nat]
  /\ modeller_used \in BOOLEAN
  /\ nFrag \in 0..MaxFrags
  /\ log \in Seq([comp : Comps, frag : Frag])
  /\ raised \in BOOLEAN

-----------------------------------------------------------------------------
(* Mutation: the contiguity test of combine is dropped.                 *)
CombinesAnyRange(prev, f) ==
  /\ prev.kind = "beads"
  /\ f.kind = "beads"

(* _BeadsFragment.combine: a bead fragment absorbs the next one when that  *)
(* is of the same class and starts right after it; _PDBFragment.combine    *)
(* is a no-op that returns None, so PDB fragments never merge.             *)
Combines(prev, f) ==
  /\ prev.kind = "beads"
  /\ f.kind = "beads"
  /\ f.start = prev.end + 1

Combined(prev, f) == [prev EXCEPT !.end = f.end, !.num = prev.num + f.num]

(* ModelRepresentationDumper.add_fragment: merge into the last fragment   *)
(* of the component's list if it combines, else append.                   *)
AddFragment(fs, f) ==
  IF Len(fs) > 0 /\ Combines(Last(fs), f)
    THEN [fs EXCEPT ![Len(fs)] = Combined(Last(fs), f)]
    ELSE Append(fs, f)

(* _get_location: the repository file of a PDB file, or '?' attributes.   *)
Loc(p) == IF p \in Located THEN p ELSE "?"

(* Templates are sorted by starting residue, then ending residue.          *)
LexLess(x, y) == x[1] < y[1] \/ (x[1] = y[1] /\ x[2] < y[2])

TemplateSources(p) ==
  LET ts == SetToSortSeq(Templates[p], LexLess) IN
  [i \in DOMAIN ts |-> [type |-> "TemplateSource", b |-> ts[i][1], e |-> ts[i][2]]]

(* The dataset get_sources registers for a file: a PDBDataset keyed by    *)
(* the file's accession code for an official PDB, else a                  *)
(* CompModelDataset keyed by the file's repository location.              *)
SourceDatasetKind(p) == IF Header[p] = "HEADER" THEN "PDBDataset" ELSE "CompModelDataset"
SourceDatasetAttrs(p) == IF Header[p] = "HEADER" THEN p ELSE Loc(p)

(* get_sources: the sources of a new starting model read from file p.    *)
(* A MODELLER file with no template lines falls out of the elif without   *)
(* a return statement, so its sources are None (SourcesNone).             *)
Sources(p) ==
  CASE Header[p] = "HEADER" -> <<[type |-> "PDBSource", b |-> 0, e |-> 0]>>
    [] Header[p] = "MODELLER" -> TemplateSources(p)
    [] OTHER -> <<[type |-> "UnknownSource", b |-> 0, e |-> 0]>>

SourcesNone(p) == Header[p] = "MODELLER" /\ Templates[p] = {}

(* Mutation: the starting model keeps the dataset object it built, not   *)
(* the one DatasetDumper.add returned.                                    *)
add_pdb_fragment_ownDataset(c, f) ==
  LET ms == models[c]
      p  == f.pdb
  IN
  IF Len(ms) = 0 \/ Last(ms).pdb # p
    THEN /\ DS!add(SourceDatasetKind(p), SourceDatasetAttrs(p), "?")
         /\ models' = [models EXCEPT ![c] = Append(ms,
               [pdb |-> p, frags |-> <<f>>, sources |-> Sources(p),
                sourcesNone |-> SourcesNone(p), dataset |-> nObj + 1,
                seq_id_begin |-> 0, seq_id_end |-> 0])]
         /\ modeller_used' = (modeller_used \/ Header[p] = "MODELLER")
    ELSE /\ models' = [models EXCEPT ![c][Len(ms)].frags = Append(@, f)]
         /\ UNCHANGED <<modeller_used, dsVars>>

(* StartingModelDumper.add_pdb_fragment, with the get_sources call it     *)
(* makes for a new starting model: a fragment starts a new starting model *)
(* unless the component's last one was read from the same file.           *)
(* get_sources registers the dataset (and, for MODELLER, the software)    *)
(* and the model keeps the object DatasetDumper.add returns.              *)
add_pdb_fragment(c, f) ==
  LET ms == models[c]
      p  == f.pdb
  IN
  IF Len(ms) = 0 \/ Last(ms).pdb # p
    THEN /\ DS!add(SourceDatasetKind(p), SourceDatasetAttrs(p), "?")
         /\ models' = [models EXCEPT ![c] = Append(ms,
               [pdb |-> p, frags |-> <<f>>, sources |-> Sources(p), sourcesNone |-> SourcesNone(p),
                dataset |-> DS!AddedObject(SourceDatasetKind(p), SourceDatasetAttrs(p), "?"),
                seq_id_begin |-> 0, seq_id_end |-> 0])]
         /\ modeller_used' = (modeller_used \/ Header[p] = "MODELLER")
    ELSE /\ models' = [models EXCEPT ![c][Len(ms)].frags = Append(@, f)]
         /\ UNCHANGED <<modeller_used, dsVars>>

(* ProtocolOutput.add_pdb_element: the new _PDBFragment goes to both      *)
(* dumpers.                                                                *)
add_pdb_element(c, r, offset, p) ==
  LET f == [kind |-> "pdb", start |-> r[1], end |-> r[2], offset |-> offset,
            num |-> 0, pdb |-> p, fid |-> nFrag + 1]
  IN
  /\ nFrag < MaxFrags
  /\ nFrag' = nFrag + 1
  /\ fragments' = [fragments EXCEPT ![c] = AddFragment(@, f)]
  /\ add_pdb_fragment(c, f)
  /\ log' = Append(log, [comp |-> c, frag |-> f])
  /\ UNCHANGED <<starting_model, reprRows, detailRows, raised>>

(* ProtocolOutput.add_bead_element: only the representation changes.      *)
add_bead_element(c, r, num) ==
  LET f == [kind |-> "beads", start |-> r[1], end |-> r[2], offset |-> 0,
            num |-> num, pdb |-> None, fid |-> nFrag + 1]
  IN
  /\ nFrag < MaxFrags
  /\ nFrag' = nFrag + 1
  /\ fragments' = [fragments EXCEPT ![c] = AddFragment(@, f)]
  /\ log' = Append(log, [comp |-> c, frag |-> f])
  /\ UNCHANGED <<models, starting_model, modeller_used, reprRows, detailRows,
                 raised, dsVars>>

-----------------------------------------------------------------------------
(* StartingModelDumper.assign_model_details (its finalize): model i of    *)
(* component c is named c-m<i>; starting_model[c, pdb of its first        *)
(* fragment] is set to it in order, so a later model from the same file   *)
(* overwrites an earlier one; the sequence range spans its fragments,     *)
(* shifted by their offsets.                                               *)
SetMin(S) == CHOOSE x \in S : \A y \in S : x <= y
SetMax(S) == CHOOSE x \in S : \A y \in S : x >= y

FinalModels ==
  [c \in Comps |-> [i \in DOMAIN models[c] |->
     LET m == models[c][i]
         fs == {m.frags[j] : j \in DOMAIN m.frags}
     IN [m EXCEPT !.seq_id_begin = SetMin({f.start + f.offset : f \in fs}),
                  !.seq_id_end = SetMax({f.end + f.offset : f \in fs})]]]

FinalStartingModel ==
  [k \in Comps \X Pdbs |->
     LET c == k[1]
         ix == {i \in DOMAIN models[c] : models[c][i].frags[1].pdb = k[2]}
     IN IF ix = {} THEN starting_model[k] ELSE SetMax(ix)]

(* The seq_id range a source row reports: a template covers only its own *)
(* overlap with the starting model (TemplateSource.get_seq_id_range).     *)
SourceRange(m, s) ==
  IF s.type = "TemplateSource"
    THEN <<IF s.b > m.seq_id_begin THEN s.b ELSE m.seq_id_begin,
           IF s.e < m.seq_id_end THEN s.e ELSE m.seq_id_end>>
    ELSE <<m.seq_id_begin, m.seq_id_end>>

(* ModelRepresentationDumper.dump: one row per fragment; a PDB fragment   *)
(* names the starting model starting_model[comp, f.pdbname].              *)
ReprRows(sm) ==
  UNION {{[comp |-> c, frag |-> fragments[c][j],
           sm |-> IF fragments[c][j].kind = "pdb"
                    THEN <<c, sm[<<c, fragments[c][j].pdb>>]>> ELSE None]
          : j \in DOMAIN fragments[c]} : c \in Comps}

(* StartingModelDumper.dump_details: one row per source of every model,   *)
(* with the id of the model's dataset.                                     *)
DetailRows(ms) ==
  UNION {UNION {{[model |-> <<c, i>>, type |-> ms[c][i].sources[k].type,
                  range |-> SourceRange(ms[c][i], ms[c][i].sources[k]),
                  dataset |-> idOf[ms[c][i].dataset]]
                 : k \in DOMAIN ms[c][i].sources}
                : i \in {i \in DOMAIN ms[c] : ~ms[c][i].sourcesNone}}
         : c \in Comps}

(* ProtocolOutput.flush, for these dumpers: every finalize, then the      *)
(* dumps in their fixed order (model representation, datasets, starting   *)
(* models). Iterating over the None sources of a model raises TypeError.  *)
flush ==
  LET ms == FinalModels
      sm == FinalStartingModel
  IN
  /\ models' = ms
  /\ starting_model' = sm
  /\ reprRows' = ReprRows(sm)
  /\ DS!dump
  /\ raised' = \E c \in Comps : \E i \in DOMAIN ms[c] : ms[c][i].sourcesNone
  /\ detailRows' = IF raised' THEN {} ELSE DetailRows(ms)
  /\ UNCHANGED <<fragments, modeller_used, nFrag, log>>

Init ==
  /\ fragments = [c \in Comps |-> << >>]
  /\ models = [c \in Comps |-> << >>]
  /\ starting_model = [k \in Comps \X Pdbs |-> 0]
  /\ modeller_used = FALSE
  /\ nFrag = 0
  /\ log = << >>
  /\ reprRows = {}
  /\ detailRows = {}
  /\ raised = FALSE
  /\ DS!Init

Next ==
  \/ \E c \in Comps, r \in Ranges, o \in Offsets, p \in Pdbs : add_pdb_element(c, r, o, p)
  \/ \E c \in Comps, r \in Ranges, n \in Nums : add_bead_element(c, r, n)
  \/ flush

Spec == Init /\ [][Next]_vars

-----------------------------------------------------------------------------
(* The residues a fragment stands for, each with its variant and source. *)
Residues(f) == [i \in 1..(f.end + 1 - f.start) |-> <<f.kind, f.pdb, f.start + i - 1>>]

(* The elements added for component c, in order.                          *)
Added(c) == LET es == SelectSeq(log, LAMBDA e : e.comp = c)
            IN [j \in DOMAIN es |-> es[j].frag]

BeadCount(fs) == FoldFunction(LAMBDA f, acc : f.num + acc, 0, fs)

(* Merging is lossless: the _ihm_model_representation fragments of each   *)
(* component cover, residue by residue and in order, exactly the elements *)
(* add_pdb_element and add_bead_element were given, with the same source  *)
(* file for every residue and the same total number of beads.             *)
RepresentationFaithful ==
  \A c \in Comps :
    /\ FlattenSeq([j \in DOMAIN fragments[c] |-> Residues(fragments[c][j])])
         = FlattenSeq([j \in DOMAIN Added(c) |-> Residues(Added(c)[j])])
    /\ BeadCount(fragments[c]) = BeadCount(Added(c))

(* Every _ihm_starting_model_details row that a flush writes names, as     *)
(* dataset_list_id, a dataset the same flush lists in _ihm_dataset_list,   *)
(* and that dataset is of the class get_sources registered for the file   *)
(* the starting model was read from.                                      *)
DetailRowsResolve ==
  \A r \in detailRows :
    LET m == models[r.model[1]][r.model[2]] IN
    /\ \E l \in listed : l[1] = r.dataset
    /\ r.dataset \in DOMAIN datasets
    /\ datasets[r.dataset].kind = SourceDatasetKind(m.pdb)
    /\ datasets[r.dataset].attrs = SourceDatasetAttrs(m.pdb)

(* Each _ihm_model_representation row of a PDB fragment names, as         *)
(* starting_model_id, a starting model built from that very fragment.     *)
ReprRowsNameOwnModel ==
  \A r \in reprRows :
    r.frag.kind = "pdb" =>
      \E j \in DOMAIN models[r.sm[1]][r.sm[2]].frags :
        models[r.sm[1]][r.sm[2]].frags[j].fid = r.frag.fid

(* The starting-model details are written: no flush stops in            *)
(* dump_details, since a file whose header get_sources cannot classify   *)
(* degrades to an unknown source rather than to no source list.          *)
DetailsWritten == ~raised

(* Two same-variant elements with contiguous ranges, added one after the  *)
(* other to a component, end up as one fragment.                          *)
AdjacentSameVariantMerged ==
  \A c \in Comps : \A j \in 1..(Len(fragments[c]) - 1) :
    ~(/\ fragments[c][j].kind = fragments[c][j + 1].kind
      /\ fragments[c][j + 1].start = fragments[c][j].end + 1)

=============================================================================
