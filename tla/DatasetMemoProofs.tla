-------------------------- MODULE DatasetMemoProofs --------------------------
(***************************************************************************)
(* Lemmas about the group memo of get_all_group, for registries of any     *)
(* entries S whose key objects lie in O. The registry proofs and the       *)
(* proofs about ProtocolOutput, which keeps a registry as an INSTANCE,     *)
(* both rest on them.                                                      *)
(***************************************************************************)
EXTENDS DatasetMemo, SequenceTheorems, TLAPS

(* A memo whose groups are prefix snapshots of the registry ds: group j   *)
(* has id j, was made at a size no larger than the current one, and its    *)
(* members are the key objects of the first count entries.                *)
GroupsMatch(gs, ds) ==
  \A j \in DOMAIN gs :
    /\ gs[j].id = j
    /\ gs[j].count <= Len(ds)
    /\ DOMAIN gs[j].members = 1..gs[j].count
    /\ \A m \in 1..gs[j].count : gs[j].members[m] = ds[m].obj

(* The key list of a registry is a sequence of objects.                   *)
LEMMA KeysType ==
  ASSUME NEW S, NEW O, \A e \in S : e.obj \in O, NEW ds \in Seq(S)
  PROVE  Keys(ds) \in Seq(O)
<1>1. \A j \in 1..Len(ds) : ds[j].obj \in O
  <2> SUFFICES ASSUME NEW j \in 1..Len(ds) PROVE ds[j].obj \in O
    OBVIOUS
  <2>1. ds[j] \in S
    BY ElementOfSeq
  <2>2. QED
    BY <2>1
<1>2. QED
  BY <1>1 DEF Keys

(* After the memo is brought up to date, a group of the current size      *)
(* exists, so the index get_all_group returns is one of its groups.       *)
LEMMA AllGroupType ==
  ASSUME NEW S, NEW O, \A e \in S : e.obj \in O, NEW ds \in Seq(S),
         NEW gs \in Seq(GroupOf(O))
  PROVE  /\ AllGroupsAfter(ds, gs) \in Seq(GroupOf(O))
         /\ AllGroupIndex(ds, AllGroupsAfter(ds, gs)) \in DOMAIN AllGroupsAfter(ds, gs)
<1>1. Keys(ds) \in Seq(O)
  BY KeysType
<1>2. [id |-> Len(gs) + 1, count |-> Len(ds), members |-> Keys(ds)] \in GroupOf(O)
  BY <1>1 DEF GroupOf
<1>3. AllGroupsAfter(ds, gs) \in Seq(GroupOf(O))
  BY <1>2, AppendProperties DEF AllGroupsAfter
<1>4. \E j \in DOMAIN AllGroupsAfter(ds, gs) :
        AllGroupsAfter(ds, gs)[j].count = Len(ds)
  <2>1. CASE \E j \in DOMAIN gs : gs[j].count = Len(ds)
    BY <2>1 DEF AllGroupsAfter
  <2>2. CASE ~\E j \in DOMAIN gs : gs[j].count = Len(ds)
    <3>1. AllGroupsAfter(ds, gs)
            = Append(gs, [id |-> Len(gs) + 1, count |-> Len(ds), members |-> Keys(ds)])
      BY <2>2 DEF AllGroupsAfter
    <3>2. QED
      BY <3>1, <1>2, AppendProperties
  <2>3. QED
    BY <2>1, <2>2
<1>5. QED
  BY <1>3, <1>4 DEF AllGroupIndex

(* Appending an entry keeps every group a prefix snapshot.                *)
LEMMA AppendKeepsMatch ==
  ASSUME NEW S, NEW O, NEW ds \in Seq(S), NEW e \in S, NEW gs \in Seq(GroupOf(O)),
         GroupsMatch(gs, ds)
  PROVE  GroupsMatch(gs, Append(ds, e))
<1> SUFFICES ASSUME NEW j \in DOMAIN gs
             PROVE  /\ gs[j].id = j
                    /\ gs[j].count <= Len(Append(ds, e))
                    /\ DOMAIN gs[j].members = 1..gs[j].count
                    /\ \A m \in 1..gs[j].count : gs[j].members[m] = Append(ds, e)[m].obj
  BY DEF GroupsMatch
<1>1. /\ gs[j].id = j /\ gs[j].count <= Len(ds)
      /\ DOMAIN gs[j].members = 1..gs[j].count
      /\ \A m \in 1..gs[j].count : gs[j].members[m] = ds[m].obj
  BY DEF GroupsMatch
<1>2. gs[j] \in GroupOf(O)
  BY ElementOfSeq
<1>3. /\ Len(Append(ds, e)) = Len(ds) + 1
      /\ \A m \in 1..Len(ds) : Append(ds, e)[m] = ds[m]
  BY AppendProperties
<1>4. QED
  BY <1>1, <1>2, <1>3, LenProperties DEF GroupOf

(* Bringing the memo up to date keeps the old groups, keeps every group a *)
(* prefix snapshot, and makes the group get_all_group returns one of the  *)
(* registry's current size.                                               *)
LEMMA AllGroupsAfterMatch ==
  ASSUME NEW S, NEW O, \A e \in S : e.obj \in O, NEW ds \in Seq(S),
         NEW gs \in Seq(GroupOf(O)), GroupsMatch(gs, ds)
  PROVE  /\ GroupsMatch(AllGroupsAfter(ds, gs), ds)
         /\ AllGroupsAfter(ds, gs)[AllGroupIndex(ds, AllGroupsAfter(ds, gs))].count = Len(ds)
         /\ DOMAIN gs \subseteq DOMAIN AllGroupsAfter(ds, gs)
         /\ \A j \in DOMAIN gs : AllGroupsAfter(ds, gs)[j] = gs[j]
<1> DEFINE ngs == AllGroupsAfter(ds, gs)
<1>1. ASSUME \E j \in DOMAIN ngs : ngs[j].count = Len(ds)
      PROVE  ngs[AllGroupIndex(ds, ngs)].count = Len(ds)
  BY <1>1 DEF AllGroupIndex
<1>2. CASE \E j \in DOMAIN gs : gs[j].count = Len(ds)
  <2>1. ngs = gs
    BY <1>2 DEF AllGroupsAfter
  <2>2. QED
    BY <1>1, <1>2, <2>1
<1>3. CASE ~\E j \in DOMAIN gs : gs[j].count = Len(ds)
  <2> DEFINE g == [id |-> Len(gs) + 1, count |-> Len(ds), members |-> Keys(ds)]
  <2>1. ngs = Append(gs, g)
    BY <1>3 DEF AllGroupsAfter
  <2>2. g \in GroupOf(O)
    <3>1. Keys(ds) \in Seq(O)
      BY KeysType
    <3>2. QED
      BY <3>1 DEF GroupOf
  <2>3. /\ DOMAIN Append(gs, g) = 1..(Len(gs) + 1)
        /\ \A j \in 1..Len(gs) : Append(gs, g)[j] = gs[j]
        /\ Append(gs, g)[Len(gs) + 1] = g
    BY <2>2, AppendProperties
  <2>4. /\ DOMAIN g.members = 1..g.count
        /\ \A m \in 1..g.count : g.members[m] = ds[m].obj
    BY DEF Keys
  <2>5. GroupsMatch(Append(gs, g), ds)
    <3> SUFFICES ASSUME NEW j \in 1..(Len(gs) + 1)
                 PROVE  /\ Append(gs, g)[j].id = j
                        /\ Append(gs, g)[j].count <= Len(ds)
                        /\ DOMAIN Append(gs, g)[j].members = 1..Append(gs, g)[j].count
                        /\ \A m \in 1..Append(gs, g)[j].count :
                             Append(gs, g)[j].members[m] = ds[m].obj
      BY <2>3 DEF GroupsMatch
    <3>1. CASE j \in 1..Len(gs)
      BY <2>3, <3>1 DEF GroupsMatch
    <3>2. CASE j = Len(gs) + 1
      BY <2>3, <2>4, <3>2
    <3>3. QED
      BY <3>1, <3>2
  <2>6. ngs[AllGroupIndex(ds, ngs)].count = Len(ds)
    <3>1. Len(gs) + 1 \in DOMAIN ngs /\ ngs[Len(gs) + 1].count = Len(ds)
      BY <2>1, <2>3
    <3>2. QED
      BY <1>1, <3>1
  <2>7. DOMAIN gs \subseteq DOMAIN ngs /\ \A j \in DOMAIN gs : ngs[j] = gs[j]
    <3>1. DOMAIN gs = 1..Len(gs)
      BY LenProperties
    <3>2. QED
      BY <2>1, <2>3, <3>1
  <2>8. QED
    BY <2>1, <2>5, <2>6, <2>7
<1>4. QED
  BY <1>2, <1>3

(* A group memo in the shape GroupsMatch fixes is the key list of the     *)
(* prefix it counts, as GroupsAreSnapshots states it.                     *)
LEMMA PrefixKeys ==
  ASSUME NEW S, NEW O, NEW ds \in Seq(S), NEW n \in 0..Len(ds), NEW mem \in Seq(O),
         DOMAIN mem = 1..n, \A m \in 1..n : mem[m] = ds[m].obj
  PROVE  mem = Keys(SubSeq(ds, 1, n))
<1>1. /\ Len(SubSeq(ds, 1, n)) = n
      /\ \A m \in 1..n : SubSeq(ds, 1, n)[m] = ds[m]
  BY SubSeqProperties, ElementOfSeq
<1>2. Keys(SubSeq(ds, 1, n)) = [m \in 1..n |-> ds[m].obj]
  BY <1>1 DEF Keys
<1>3. mem = [m \in 1..n |-> mem[m]]
  BY IsASeq
<1>4. QED
  BY <1>2, <1>3

====
