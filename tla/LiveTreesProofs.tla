---------------------------- MODULE LiveTreesProofs ----------------------------
(***************************************************************************)
(* The live trees, from the executor to the canvas: of the bridge's thread *)
(* (BTRosBridge), that it compares with what the browser shows, that what  *)
(* is shown follows the executor, and that terminal states are held; of    *)
(* the page (BtPage), that the store is whole, that no live blackboard     *)
(* value is lost to a skeleton, a blueprint or another tree, that what is  *)
(* chosen is in the tree that is shown, and that the boxes and the wires of*)
(* the layout agree.                                                       *)
(*                                                                         *)
(* The thread's strengthening is Tracks: the last entry the record has of  *)
(* a node is its state, so that coalescing the record, which is a fold,    *)
(* ends with it.  The page's is the shape of its records, without which an *)
(* EXCEPT says nothing.  The two recursions, of the fold and of the        *)
(* layout, are shown to have a solution by induction on sets of naturals.  *)
(***************************************************************************)
EXTENDS BTRosBridge, BtPage, Integers, SequenceTheorems, FiniteSetTheorems,
        WellFoundedInduction, TLAPS

(* Entry i of the record is the last of its node.                          *)
LastOf(tr, i) == \A j \in (i + 1)..Len(tr) : tr[j].uid # tr[i].uid

(* In a session that records, and that nobody else has taken from, the     *)
(* last entry of a node is the state it is in.                             *)
Tracks ==
  (Polling \/ pc = "snapshot") /\ use_transitions /\ ~disturbed =>
    /\ recording
    /\ \A i \in 1..Len(buffer) : LastOf(buffer, i) => buffer[i].state = status[buffer[i].uid]

IInv == TypeOK /\ DiffBase /\ Tracks /\ FollowsExecutor
-----------------------------------------------------------------------------
(* Sets of natural numbers.                                                *)

LEMMA LeastElement ==
  ASSUME NEW S \in SUBSET Nat, S # {}
  PROVE  \E k \in S : \A m \in S : k <= m
<1>1. PICK R : R = OpToRel(<, Nat) OBVIOUS
<1>2. IsWellFoundedOn(R, Nat) BY <1>1, NatLessThanWellFounded
<1>3. \A x, y \in Nat : x < y => <<x, y>> \in R BY <1>1 DEF OpToRel
<1>4. PICK k \in S : \A m \in S : ~(<<m, k>> \in R) BY <1>2, WFMin
<1>5. \A m \in S : k <= m
  <2> TAKE m \in S
  <2>1. k \in Nat /\ m \in Nat OBVIOUS
  <2>2. ~(m < k) BY <1>3, <1>4, <2>1
  <2> QED BY <2>1, <2>2
<1> QED BY <1>5

LEMMA InductiveSet ==
  ASSUME NEW S, 0 \in S, \A n \in Nat : n \in S => n + 1 \in S
  PROVE  Nat \subseteq S
<1> SUFFICES ASSUME Nat \ S # {} PROVE FALSE OBVIOUS
<1>1. PICK k \in Nat \ S : \A m \in Nat \ S : k <= m BY LeastElement
<1>2. k # 0 /\ k - 1 \in Nat /\ k - 1 \in S BY <1>1
<1> QED BY <1>1, <1>2

LEMMA GreatestElement ==
  ASSUME NEW S \in SUBSET Nat, S # {}, NEW b \in Nat, \A k \in S : k <= b
  PROVE  \E k \in S : \A m \in S : m <= k
<1> DEFINE T == {d \in Nat : b - d \in S}
<1>1. T \in SUBSET Nat /\ T # {}
  <2>1. PICK k \in S : TRUE OBVIOUS
  <2>2. b - k \in Nat /\ b - (b - k) = k BY <2>1
  <2> QED BY <2>1, <2>2
<1>2. PICK d \in T : \A e \in T : d <= e
  <2> HIDE DEF T
  <2> QED BY <1>1, LeastElement
<1>3. ASSUME NEW m \in S PROVE m <= b - d
  <2>1. b - m \in T BY <1>3
  <2> QED BY <2>1, <1>2
<1> QED BY <1>2, <1>3
-----------------------------------------------------------------------------
(* Coalescing a batch.                                                     *)

Transitions == [uid : NodeIds, state : Status]

(* The fold's result on the entries at s, given the results g on less.     *)
Fold(g, tr, s) == IF s = {} THEN <<>> ELSE Merge(g[s \ {Max(s)}], tr[Max(s)])

LEMMA MaxIs ==
  ASSUME NEW S \in SUBSET Nat, S # {}, NEW b \in Nat, \A k \in S : k <= b
  PROVE  Max(S) \in S /\ \A m \in S : m <= Max(S)
<1>1. PICK k \in S : \A m \in S : m <= k BY GreatestElement
<1>2. \A m \in S : k >= m BY <1>1
<1>3. \E x \in S : \A m \in S : x >= m BY <1>2
<1>4. Max(S) \in S /\ \A m \in S : Max(S) >= m BY <1>3 DEF Max
<1> QED BY <1>4

(* The recursion of FoldLeft is well defined: what is left without the     *)
(* greatest index has smaller indices only.                                *)
LEMMA FoldExists ==
  ASSUME NEW tr, NEW n \in Nat, DOMAIN tr = 1..n
  PROVE  \E g : g = [s \in SUBSET DOMAIN tr |-> Fold(g, tr, s)]
<1> DEFINE Good(g, k) == \A s \in SUBSET DOMAIN tr : (\A i \in s : i <= k) => g[s] = Fold(g, tr, s)
           Unrolled(g) == [s \in SUBSET DOMAIN tr |-> Fold(g, tr, s)]
           S == {k \in Nat : \E g : Good(g, k)}
<1>1. ASSUME NEW g, NEW k \in Nat, Good(g, k),
             NEW s \in SUBSET DOMAIN tr, \A i \in s : i <= k + 1
      PROVE  Fold(Unrolled(g), tr, s) = Fold(g, tr, s)
  <2> DEFINE h == Unrolled(g)
             rest == s \ {Max(s)}
  <2>1. CASE s = {} BY <2>1 DEF Fold
  <2>2. CASE s # {}
    <3>1. s \in SUBSET Nat /\ k + 1 \in Nat OBVIOUS
    <3>2. Max(s) \in s /\ \A m \in s : m <= Max(s) BY <3>1, <2>2, <1>1, MaxIs
    <3>3. rest \in SUBSET DOMAIN tr OBVIOUS
    <3>4. \A i \in rest : i <= k BY <3>1, <3>2, <1>1
    <3>5. h[rest] = Fold(g, tr, rest) BY <3>3
    <3>6. g[rest] = Fold(g, tr, rest) BY <3>3, <3>4, <1>1
    <3> HIDE DEF h
    <3>7. Fold(h, tr, s) = Fold(g, tr, s) BY <2>2, <3>5, <3>6 DEF Fold
    <3> QED BY <3>7 DEF h
  <2> QED BY <2>1, <2>2
<1>2. 0 \in S
  <2> DEFINE g == [s \in SUBSET DOMAIN tr |-> <<>>]
  <2>1. ASSUME NEW s \in SUBSET DOMAIN tr, \A i \in s : i <= 0 PROVE g[s] = Fold(g, tr, s)
    <3>1. s = {} BY <2>1
    <3> QED BY <3>1 DEF Fold
  <2>2. Good(g, 0) BY <2>1
  <2> QED BY <2>2
<1>3. ASSUME NEW k \in Nat, k \in S PROVE k + 1 \in S
  <2>1. PICK g : Good(g, k) BY <1>3
  <2>2. Good(Unrolled(g), k + 1) BY <2>1, <1>1
  <2> HIDE DEF Unrolled, Good
  <2> QED BY <2>2
<1>4. n \in S
  <2> HIDE DEF S
  <2>1. Nat \subseteq S BY <1>2, <1>3, InductiveSet
  <2> QED BY <2>1
<1>5. PICK g : Good(g, n) BY <1>4
<1>6. ASSUME NEW s \in SUBSET DOMAIN tr PROVE Fold(Unrolled(g), tr, s) = Fold(g, tr, s)
  <2>1. \A i \in s : i <= n + 1 OBVIOUS
  <2> QED BY <2>1, <1>1, <1>5
<1>7. Unrolled(g) = [s \in SUBSET DOMAIN tr |-> Fold(Unrolled(g), tr, s)] BY <1>6
<1> QED BY <1>7

(* So coalescing goes through the batch from left to right.                *)
Steps(w, tr) ==
  /\ w[0] = <<>>
  /\ \A i \in 1..Len(tr) : w[i] = Merge(w[i - 1], tr[i])
  /\ Coalesce(tr) = w[Len(tr)]

LEMMA CoalesceSteps ==
  ASSUME NEW tr \in Seq(Transitions)
  PROVE  \E w : Steps(w, tr)
<1>1. Len(tr) \in Nat /\ DOMAIN tr = 1..Len(tr) BY LenProperties
<1> DEFINE D == SUBSET DOMAIN tr
           f == CHOOSE g : g = [s \in D |-> Fold(g, tr, s)]
           w == [i \in 0..Len(tr) |-> f[1..i]]
<1>2. Coalesce(tr) = f[DOMAIN tr] BY DEF Coalesce, FoldLeft, MapThenFoldSet, Fold
<1>3. f = [s \in D |-> Fold(f, tr, s)] BY <1>1, FoldExists
<1> HIDE DEF f
<1>4. ASSUME NEW s \in D PROVE f[s] = Fold(f, tr, s)
  <2> DEFINE h == [x \in D |-> Fold(f, tr, x)]
  <2>1. h[s] = Fold(f, tr, s) OBVIOUS
  <2> HIDE DEF h
  <2>2. f = h BY <1>3 DEF h
  <2> QED BY <2>1, <2>2
<1>5. w[0] = <<>>
  <2>1. 1..0 = {} /\ 1..0 \in D OBVIOUS
  <2>2. f[1..0] = <<>> BY <2>1, <1>4 DEF Fold
  <2> QED BY <2>2, <1>1
<1>6. ASSUME NEW i \in 1..Len(tr) PROVE w[i] = Merge(w[i - 1], tr[i])
  <2>0. i \in Nat /\ 1 <= i BY <1>1
  <2>1. i \in Nat /\ i \in 1..i /\ (1..i) \in SUBSET Nat /\ (1..i) # {} BY <2>0
  <2>2. \A k \in 1..i : k <= i BY <2>1
  <2>3. Max(1..i) = i
    <3>1. Max(1..i) \in 1..i /\ \A m \in 1..i : m <= Max(1..i) BY <2>1, <2>2, MaxIs
    <3> QED BY <3>1, <2>1
  <2>6. (1..i) \in D BY <1>1, <2>1
  <2>4. (1..i) \ {i} = 1..(i - 1) OBVIOUS
  <2>5. f[1..i] = Merge(f[1..(i - 1)], tr[i]) BY <1>4, <2>1, <2>6, <2>3, <2>4 DEF Fold
  <2> QED BY <2>5, <1>1
<1>7. Coalesce(tr) = w[Len(tr)] BY <1>1, <1>2
<1> HIDE DEF w
<1>8. Steps(w, tr) BY <1>5, <1>6, <1>7 DEF Steps
<1> QED BY <1>8

(* What the fold has after i entries: a state for each node among them,    *)
(* that of its last entry, or the terminal one the node was reset from.    *)
WinnersOf(w, tr, i) ==
  /\ DOMAIN w = {tr[j].uid : j \in 1..i}
  /\ \A n \in DOMAIN w : w[n] \in Status
  /\ \A j \in 1..i : (\A k \in (j + 1)..i : tr[k].uid # tr[j].uid) =>
       \/ w[tr[j].uid] = tr[j].state
       \/ tr[j].state = "IDLE" /\ w[tr[j].uid] \in Terminal

LEMMA MergeWins ==
  ASSUME NEW tr \in Seq(Transitions), NEW i \in 1..Len(tr), NEW w, WinnersOf(w, tr, i - 1)
  PROVE  WinnersOf(Merge(w, tr[i]), tr, i)
<1>1. /\ i \in Nat \ {0} /\ Len(tr) \in Nat
      /\ \A j \in 1..i : tr[j].uid \in NodeIds /\ tr[j].state \in Status
  <2>1. Len(tr) \in Nat BY LenProperties
  <2>2. i \in Nat \ {0} /\ \A j \in 1..i : j \in 1..Len(tr) BY <2>1
  <2>3. \A j \in 1..i : tr[j] \in Transitions BY <2>2, ElementOfSeq
  <2> QED BY <2>1, <2>2, <2>3 DEF Transitions
<1> DEFINE u == tr[i].uid
           v == tr[i].state
           m == Merge(w, tr[i])
<1>2. 1..i = 1..(i - 1) \cup {i} BY <1>1
<1>3. {tr[j].uid : j \in 1..i} = {tr[j].uid : j \in 1..(i - 1)} \cup {u} BY <1>2
<1>4. \A j \in 1..(i - 1) : /\ tr[j].uid \in DOMAIN w
                            /\ (\A k \in (j + 1)..i : tr[k].uid # tr[j].uid) =>
                                 /\ tr[j].uid # u
                                 /\ \A k \in (j + 1)..(i - 1) : tr[k].uid # tr[j].uid
  BY <1>1 DEF WinnersOf
<1>5. CASE u \in DOMAIN w /\ w[u] \in Terminal /\ v = "IDLE"
  <2>1. m = w BY <1>5 DEF Merge
  <2> HIDE DEF m
  <2>2. DOMAIN m = {tr[j].uid : j \in 1..i} BY <2>1, <1>3, <1>5 DEF WinnersOf
  <2>3. \A n \in DOMAIN m : m[n] \in Status BY <2>1 DEF WinnersOf
  <2>4. ASSUME NEW j \in 1..i, \A k \in (j + 1)..i : tr[k].uid # tr[j].uid
        PROVE  \/ m[tr[j].uid] = tr[j].state
               \/ tr[j].state = "IDLE" /\ m[tr[j].uid] \in Terminal
    <3>1. CASE j = i BY <3>1, <2>1, <1>5
    <3>2. CASE j \in 1..(i - 1) BY <3>2, <2>1, <2>4, <1>4 DEF WinnersOf
    <3> QED BY <3>1, <3>2, <1>2
  <2> QED BY <2>2, <2>3, <2>4 DEF WinnersOf, m
<1>6. CASE ~(u \in DOMAIN w /\ w[u] \in Terminal /\ v = "IDLE")
  <2>1. m = Updated(w, [n \in {u} |-> v]) BY <1>6 DEF Merge
  <2>2. /\ DOMAIN m = DOMAIN w \cup {u} /\ m[u] = v
        /\ \A n \in DOMAIN w : n # u => m[n] = w[n]
    BY <2>1 DEF Updated
  <2> HIDE DEF m
  <2>3. DOMAIN m = {tr[j].uid : j \in 1..i} BY <2>2, <1>3 DEF WinnersOf
  <2>4. \A n \in DOMAIN m : m[n] \in Status BY <2>2, <1>1 DEF WinnersOf
  <2>5. ASSUME NEW j \in 1..i, \A k \in (j + 1)..i : tr[k].uid # tr[j].uid
        PROVE  \/ m[tr[j].uid] = tr[j].state
               \/ tr[j].state = "IDLE" /\ m[tr[j].uid] \in Terminal
    <3>1. CASE j = i BY <3>1, <2>2
    <3>2. CASE j \in 1..(i - 1) BY <3>2, <2>2, <2>5, <1>4 DEF WinnersOf
    <3> QED BY <3>1, <3>2, <1>2
  <2> QED BY <2>3, <2>4, <2>5 DEF WinnersOf, m
<1> QED BY <1>5, <1>6

LEMMA CoalesceWins ==
  ASSUME NEW tr \in Seq(Transitions)
  PROVE  WinnersOf(Coalesce(tr), tr, Len(tr))
<1>0. PICK w : Steps(w, tr) BY CoalesceSteps
<1>1. /\ w[0] = <<>>
      /\ \A i \in 1..Len(tr) : w[i] = Merge(w[i - 1], tr[i])
      /\ Coalesce(tr) = w[Len(tr)]
  BY <1>0 DEF Steps
<1> DEFINE S == {i \in Nat : i <= Len(tr) => WinnersOf(w[i], tr, i)}
<1>2. Len(tr) \in Nat BY LenProperties
<1>3. 0 \in S
  <2>1. 1..0 = {} /\ DOMAIN <<>> = {} OBVIOUS
  <2>2. WinnersOf(<<>>, tr, 0) BY <2>1 DEF WinnersOf
  <2> QED BY <1>1, <2>2
<1>4. ASSUME NEW k \in Nat, k \in S PROVE k + 1 \in S
  <2> SUFFICES ASSUME k + 1 <= Len(tr) PROVE WinnersOf(w[k + 1], tr, k + 1) OBVIOUS
  <2>1. k + 1 \in 1..Len(tr) /\ (k + 1) - 1 = k /\ WinnersOf(w[k], tr, k) BY <1>2, <1>4
  <2>2. WinnersOf(Merge(w[k], tr[k + 1]), tr, k + 1) BY <2>1, MergeWins
  <2> QED BY <1>1, <2>1, <2>2
<1> HIDE DEF S
<1>5. Nat \subseteq S BY <1>3, <1>4, InductiveSet
<1>6. Len(tr) \in S BY <1>2, <1>5
<1> QED BY <1>1, <1>2, <1>6 DEF S
-----------------------------------------------------------------------------
(* The browser's tree.                                                     *)

LEMMA Loading ==
  ASSUME NEW t \in TreeState \cup {NoTree}
  PROVE  /\ loadBlueprint(t, 1) \in TreeState
         /\ t \in TreeState => loadBlueprint(t, 1) = t
BY StoreAssumption DEF loadBlueprint, TreeState, Status

LEMMA Delta ==
  ASSUME NEW t \in TreeState, NEW id \in NodeIds, NEW state \in Status
  PROVE  /\ applyDelta(t, id, state) \in TreeState
         /\ applyDelta(t, id, state).statusById[id] = state
         /\ \A n \in NodeIds : n # id =>
              applyDelta(t, id, state).statusById[n] = t.statusById[n]
<1>1. t # NoTree BY StoreAssumption
<1>2. applyDelta(t, id, state) = [t EXCEPT !.statusById = [t.statusById EXCEPT ![id] = state]]
  BY <1>1 DEF applyDelta
<1> QED BY <1>2 DEF TreeState

LEMMA Deltas ==
  ASSUME NEW t \in TreeState, NEW final, \A n \in DOMAIN final : final[n] \in Status
  PROVE  /\ applyDeltas(t, final) \in TreeState
         /\ \A n \in NodeIds : applyDeltas(t, final).statusById[n]
                               = IF n \in DOMAIN final THEN final[n] ELSE t.statusById[n]
<1> DEFINE shown == [n \in NodeIds |-> IF n \in DOMAIN final THEN final[n] ELSE t.statusById[n]]
<1>1. t # NoTree BY StoreAssumption
<1>2. applyDeltas(t, final) = [t EXCEPT !.statusById = shown] BY <1>1 DEF applyDeltas
<1>3. shown \in [NodeIds -> Status] BY DEF TreeState
<1>4. \A n \in NodeIds : shown[n] = IF n \in DOMAIN final THEN final[n] ELSE t.statusById[n] OBVIOUS
<1> HIDE DEF shown
<1> QED BY <1>2, <1>3, <1>4 DEF TreeState
(* A whole snapshot becomes what is shown.                                 *)
LEMMA Snapshots ==
  ASSUME NEW t \in TreeState, NEW final \in [NodeIds -> Status]
  PROVE  applyDeltas(t, final).statusById = final
<1>1. \A n \in DOMAIN final : final[n] \in Status OBVIOUS
<1>2. /\ applyDeltas(t, final).statusById \in [NodeIds -> Status]
      /\ \A n \in NodeIds : applyDeltas(t, final).statusById[n] = final[n]
  BY <1>1, Deltas DEF TreeState
<1> HIDE DEF Status
<1> QED BY <1>2

(* A session that shows statuses has a tree to show them in.               *)
LEMMA HasTree ==
  ASSUME TypeOK, pc \in {"record", "snapshot", "top", "blackboard", "poll", "resync", "unrecord"}
  PROVE  tree \in TreeState
BY DEF TypeOK
-----------------------------------------------------------------------------
(* What the three drains and snapshots send.                               *)

LEMMA Coalesced ==
  ASSUME TypeOK
  PROVE  /\ \A n \in DOMAIN Coalesce(buffer) : Coalesce(buffer)[n] \in Status
         /\ DOMAIN Coalesce(buffer) = {buffer[i].uid : i \in 1..Len(buffer)}
         /\ DOMAIN Coalesce(buffer) \subseteq NodeIds
<1>1. buffer \in Seq(Transitions) BY DEF TypeOK, Transitions
<1>2. \A i \in 1..Len(buffer) : buffer[i] \in Transitions BY <1>1, ElementOfSeq
<1>3. \A i \in 1..Len(buffer) : buffer[i].uid \in NodeIds BY <1>2 DEF Transitions
<1>4. WinnersOf(Coalesce(buffer), buffer, Len(buffer)) BY <1>1, CoalesceWins
<1>5. DOMAIN Coalesce(buffer) = {buffer[i].uid : i \in 1..Len(buffer)} BY <1>4 DEF WinnersOf
<1>6. \A n \in DOMAIN Coalesce(buffer) : Coalesce(buffer)[n] \in Status
  BY <1>4 DEF WinnersOf
<1> QED BY <1>3, <1>5, <1>6

LEMMA Differs ==
  ASSUME NEW states \in [NodeIds -> Status]
  PROVE  /\ \A n \in DOMAIN Differing(states) : Differing(states)[n] \in Status
         /\ \A n \in NodeIds : (IF n \in DOMAIN Differing(states)
                                  THEN Differing(states)[n] ELSE last_status[n]) = states[n]
BY DEF Differing

LEMMA Updates ==
  ASSUME NEW f \in [NodeIds -> Status], NEW with, DOMAIN with \subseteq NodeIds,
         \A n \in DOMAIN with : with[n] \in Status
  PROVE  /\ Updated(f, with) \in [NodeIds -> Status]
         /\ \A n \in NodeIds : Updated(f, with)[n]
                               = IF n \in DOMAIN with THEN with[n] ELSE f[n]
BY DEF Updated

(* Sending what the base is updated with keeps the two alike.              *)
LEMMA UpdatesAlike ==
  ASSUME NEW t \in TreeState, NEW f, f = t.statusById, NEW with, DOMAIN with \subseteq NodeIds,
         \A n \in DOMAIN with : with[n] \in Status
  PROVE  applyDeltas(t, with).statusById = Updated(f, with)
<1>1. f \in [NodeIds -> Status] BY DEF TreeState
<1>2. applyDeltas(t, with).statusById \in [NodeIds -> Status] BY Deltas DEF TreeState
<1>3. \A n \in NodeIds : applyDeltas(t, with).statusById[n] = Updated(f, with)[n]
  BY <1>1, Deltas, Updates
<1>4. Updated(f, with) \in [NodeIds -> Status] BY <1>1, Updates
<1> QED BY <1>2, <1>3, <1>4
-----------------------------------------------------------------------------
Types(t, l, b) ==
  /\ t \in TreeState \cup {NoTree}
  /\ l \in [NodeIds -> Status]
  /\ b \in Seq(Transitions)

(* TypeOK but for the variables with a structure.                          *)
Flags ==
  /\ up \in BOOLEAN /\ recording \in BOOLEAN /\ running \in BOOLEAN
  /\ protocol \in {"transitions", "odd", "old"}
  /\ pc \in {"down", "fulltree", "record", "snapshot", "top", "blackboard", "poll", "resync",
             "unrecord", "left", "done"}
  /\ sock \in {"closed", "ready", "record", "blackboard"}
  /\ (sock = "closed") <=> (pc \in {"down", "left", "done"})
  /\ use_transitions \in BOOLEAN
  /\ use_transitions => protocol # "old"
  /\ pc \in {"record", "snapshot", "top", "blackboard", "poll", "resync", "unrecord"}
       => tree # NoTree
  /\ disturbed \in BOOLEAN

LEMMA TypeParts == TypeOK <=> Flags /\ status \in [NodeIds -> Status]
                                    /\ Types(tree, last_status, buffer)
BY DEF TypeOK, Flags, Types, Transitions

LEMMA InitIInv == Init => IInv
<1> SUFFICES ASSUME Init PROVE IInv OBVIOUS
<1>1. buffer \in Seq(Transitions) BY EmptySeq DEF Init
<1>2. status \in [NodeIds -> Status] /\ last_status \in [NodeIds -> Status] BY DEF Init, Status
<1>3. Flags BY DEF Init, Flags
<1>4. tree \in TreeState \cup {NoTree} BY DEF Init
<1>5. TypeOK BY <1>1, <1>2, <1>3, <1>4, TypeParts DEF Types
<1>6. ~Polling /\ pc # "snapshot" BY DEF Init, Polling
<1> QED BY <1>5, <1>6 DEF IInv, DiffBase, Tracks, FollowsExecutor

LEMMA Stuttering ==
  ASSUME IInv, UNCHANGED vars
  PROVE  IInv'
BY DEF IInv, vars, executor, session, TypeOK, DiffBase, Tracks, FollowsExecutor, Polling, LastOf

(* The record, the colours and the base keep their types.                  *)
LEMMA NextTypes ==
  ASSUME TypeOK, Next
  PROVE  /\ Types(tree, last_status, buffer)' /\ status' \in [NodeIds -> Status]
         /\ tree # NoTree => tree' # NoTree
<1> DEFINE G == /\ Types(tree, last_status, buffer)' /\ status' \in [NodeIds -> Status]
                /\ tree # NoTree => tree' # NoTree
<1>0. /\ Types(tree, last_status, buffer) /\ status \in [NodeIds -> Status]
      /\ <<>> \in Seq(Transitions)
      /\ NoTree \notin TreeState
  BY TypeParts, EmptySeq, StoreAssumption
<1>1. CASE UNCHANGED <<tree, last_status, buffer, status>>
  BY <1>0, <1>1 DEF Types
<1>2. ASSUME NEW n \in NodeIds, NodeChanges(n) PROVE G
  <2>1. PICK s \in Status \ {status[n]} :
          /\ status' = [status EXCEPT ![n] = s]
          /\ buffer' = IF recording THEN Append(buffer, [uid |-> n, state |-> s]) ELSE buffer
    BY <1>2 DEF NodeChanges
  <2>2. [uid |-> n, state |-> s] \in Transitions BY DEF Transitions
  <2>3. buffer' \in Seq(Transitions) BY <1>0, <2>1, <2>2, AppendProperties DEF Types
  <2>4. status' \in [NodeIds -> Status] BY <1>0, <2>1
  <2> QED BY <1>0, <1>2, <2>3, <2>4 DEF Types, NodeChanges, session
<1>3. CASE ExecutorStarts
  <2>1. status' \in [NodeIds -> Status] BY <1>3 DEF ExecutorStarts, Status
  <2> QED BY <1>0, <1>3, <2>1 DEF ExecutorStarts, Types, session
<1>4. CASE Groot2Drains BY <1>0, <1>4 DEF Groot2Drains, Types, session
<1>5. CASE FetchTree BY <1>0, <1>5, Loading DEF FetchTree, Answered, Types
<1>6. CASE StartRecording BY <1>0, <1>6 DEF StartRecording, Answered, Types
<1>7. CASE Snapshot
  <2>1. tree \in TreeState BY <1>7, HasTree DEF Snapshot
  <2>2. applyDeltas(tree, status) \in TreeState BY <1>0, <2>1, Deltas
  <2> QED BY <1>0, <1>7, <2>2 DEF Snapshot, Answered, Types
<1>8. CASE Top BY <1>0, <1>8, Loading DEF Top, Types, executor
<1>9. CASE DrainTransitions
  <2>1. tree \in TreeState BY <1>9, HasTree DEF DrainTransitions
  <2>2. applyDeltas(tree, Coalesce(buffer)) \in TreeState BY <2>1, Coalesced, Deltas
  <2>4. Updated(last_status, Coalesce(buffer)) \in [NodeIds -> Status]
    BY <1>0, Coalesced, Updates DEF Types
  <2> QED BY <1>0, <1>9, <2>2, <2>4 DEF DrainTransitions, Answered, Types
<1>10. CASE FallBack BY <1>0, <1>10 DEF FallBack, Answered, Types
<1>11. CASE PollStatus
  <2>1. tree \in TreeState BY <1>11, HasTree DEF PollStatus
  <2>2. applyDeltas(tree, Differing(status)) \in TreeState BY <1>0, <2>1, Differs, Deltas
  <2> QED BY <1>0, <1>11, <2>2 DEF PollStatus, Answered, Types
<1>12. CASE Resync
  <2> DEFINE resync == [n \in {m \in NodeIds : status[m] # "IDLE" /\ last_status[m] # status[m]}
                          |-> status[n]]
  <2>1. tree \in TreeState BY <1>12, HasTree DEF Resync
  <2>2. DOMAIN resync \subseteq NodeIds /\ \A n \in DOMAIN resync : resync[n] \in Status BY <1>0
  <2>3. tree' = applyDeltas(tree, resync) /\ last_status' = Updated(last_status, resync)
    BY <1>12 DEF Resync
  <2> HIDE DEF resync
  <2>4. applyDeltas(tree, resync) \in TreeState BY <2>1, <2>2, Deltas
  <2>5. Updated(last_status, resync) \in [NodeIds -> Status] BY <1>0, <2>2, Updates DEF Types
  <2> QED BY <1>0, <1>12, <2>3, <2>4, <2>5 DEF Resync, Answered, Types
<1>13. CASE SessionFails \/ RequestSkipped
  BY <1>0, <1>13 DEF SessionFails, RequestSkipped, Unanswered, Refused, Types
<1>14. CASE \/ NextSession \/ ThreadEnds \/ PollBlackboard \/ NotDue \/ StopRecording \/ Stop
            \/ ExecutorStops
  BY <1>1, <1>14 DEF NextSession, ThreadEnds, PollBlackboard, NotDue, StopRecording, Stop,
                     ExecutorStops, Answered, executor, session
<1> QED
  BY <1>2, <1>3, <1>4, <1>5, <1>6, <1>7, <1>8, <1>9, <1>10, <1>11, <1>12, <1>13, <1>14
  DEF Next, ThreadNext

LEMMA NextFlags ==
  ASSUME TypeOK, Next
  PROVE  Flags'
<1>0. Flags BY TypeParts
<1>1. tree # NoTree => tree' # NoTree BY NextTypes
<1>2. FetchTree => tree' # NoTree BY StoreAssumption, Loading DEF FetchTree, TypeOK
<1> USE <1>0
    DEF Next, ThreadNext, NextSession, ThreadEnds, FetchTree, StartRecording, Snapshot, Top,
        PollBlackboard, DrainTransitions, FallBack, PollStatus, NotDue, Resync, StopRecording,
        SessionFails, RequestSkipped, Stop, NodeChanges, ExecutorStops, ExecutorStarts,
        Groot2Drains, Answered, executor, session, Flags
<1>3. /\ up' \in BOOLEAN
      /\ protocol' \in {"transitions", "odd", "old"}
  OBVIOUS
<1>4. running' \in BOOLEAN OBVIOUS
<1>5. recording' \in BOOLEAN BY DEF Unanswered, Refused
<1>6. disturbed' \in BOOLEAN OBVIOUS
<1>7. use_transitions' \in BOOLEAN OBVIOUS
<1>8. use_transitions' => protocol' # "old" OBVIOUS
<1>9. /\ pc' \in {"down", "fulltree", "record", "snapshot", "top", "blackboard", "poll",
                   "resync", "unrecord", "left", "done"}
      /\ sock' \in {"closed", "ready", "record", "blackboard"}
      /\ (sock' = "closed") <=> (pc' \in {"down", "left", "done"})
      /\ pc' \in {"record", "snapshot", "top", "blackboard", "poll", "resync", "unrecord"}
           => tree' # NoTree
  BY <1>1, <1>2
<1> QED BY <1>3, <1>4, <1>5, <1>6, <1>7, <1>8, <1>9

LEMMA NextTypeOK ==
  ASSUME TypeOK, Next
  PROVE  TypeOK'
<1>1. TypeOK' <=> Flags' /\ status' \in [NodeIds -> Status] /\ Types(tree, last_status, buffer)'
  BY DEF TypeOK, Flags, Types, Transitions
<1> QED BY <1>1, NextTypes, NextFlags
LEMMA NextDiffBase ==
  ASSUME TypeOK, DiffBase, Next
  PROVE  DiffBase'
<1>0. /\ Polling \/ pc = "snapshot" => tree \in TreeState
      /\ status \in [NodeIds -> Status] /\ last_status \in [NodeIds -> Status]
      /\ Polling => last_status = tree.statusById
  BY HasTree DEF TypeOK, Polling, DiffBase
<1> DEFINE G == Polling' => last_status' = tree'.statusById
<1>1. CASE Snapshot
  BY <1>0, <1>1, Snapshots DEF Snapshot, DiffBase
<1>2. CASE Top
  BY <1>0, <1>2, Loading DEF Top, DiffBase, Polling
<1>3. CASE DrainTransitions
  <2>1. tree \in TreeState /\ last_status = tree.statusById
    BY <1>0, <1>3 DEF DrainTransitions, Polling
  <2>2. applyDeltas(tree, Coalesce(buffer)).statusById = Updated(last_status, Coalesce(buffer))
    BY <2>1, Coalesced, UpdatesAlike
  <2> QED BY <1>3, <2>2 DEF DrainTransitions, DiffBase
<1>4. CASE PollStatus
  <2>1. tree \in TreeState /\ last_status = tree.statusById
    BY <1>0, <1>4 DEF PollStatus, Polling
  <2>2. \A n \in DOMAIN Differing(status) : Differing(status)[n] \in Status
    BY <1>0, Differs
  <2>3. applyDeltas(tree, Differing(status)).statusById \in [NodeIds -> Status]
    BY <2>1, <2>2, Deltas DEF TreeState
  <2>4. \A n \in NodeIds : applyDeltas(tree, Differing(status)).statusById[n] = status[n]
    BY <1>0, <2>1, <2>2, Deltas, Differs
  <2>5. applyDeltas(tree, Differing(status)).statusById = status BY <1>0, <2>3, <2>4
  <2> QED BY <1>4, <2>5 DEF PollStatus, DiffBase
<1>5. CASE Resync
  <2> DEFINE resync == [n \in {m \in NodeIds : status[m] # "IDLE" /\ last_status[m] # status[m]}
                          |-> status[n]]
  <2>1. tree \in TreeState /\ last_status = tree.statusById
    BY <1>0, <1>5 DEF Resync, Polling
  <2>2. DOMAIN resync \subseteq NodeIds /\ \A n \in DOMAIN resync : resync[n] \in Status BY <1>0
  <2>3. tree' = applyDeltas(tree, resync) /\ last_status' = Updated(last_status, resync)
    BY <1>5 DEF Resync
  <2> HIDE DEF resync
  <2>4. applyDeltas(tree, resync).statusById = Updated(last_status, resync)
    BY <2>1, <2>2, UpdatesAlike
  <2> QED BY <2>3, <2>4 DEF DiffBase
<1>6. CASE Polling /\ UNCHANGED <<tree, last_status>>
  BY <1>0, <1>6 DEF DiffBase
<1>7. CASE ~Polling'
  BY <1>7 DEF DiffBase
<1>8. \/ Snapshot \/ Top \/ DrainTransitions \/ PollStatus \/ Resync
      \/ Polling /\ UNCHANGED <<tree, last_status>>
      \/ ~Polling'
  BY DEF Next, ThreadNext, NextSession, ThreadEnds, FetchTree, StartRecording,
         PollBlackboard, FallBack, NotDue, StopRecording, SessionFails, RequestSkipped, Stop,
         NodeChanges, ExecutorStops, ExecutorStarts, Groot2Drains, Answered, executor, session,
         Polling
<1> QED BY <1>1, <1>2, <1>3, <1>4, <1>5, <1>6, <1>7, <1>8

LEMMA NextTracks ==
  ASSUME TypeOK, Tracks, Next
  PROVE  Tracks'
<1>0. /\ buffer \in Seq(Transitions) /\ status \in [NodeIds -> Status]
      /\ Len(buffer) \in Nat
  BY TypeParts, LenProperties DEF Types
<1>1. CASE \E n \in NodeIds : NodeChanges(n)
  <2>1. PICK n \in NodeIds : NodeChanges(n) BY <1>1
  <2>2. PICK s \in Status \ {status[n]} :
          /\ status' = [status EXCEPT ![n] = s]
          /\ buffer' = IF recording THEN Append(buffer, [uid |-> n, state |-> s]) ELSE buffer
    BY <2>1 DEF NodeChanges
  <2> SUFFICES ASSUME (Polling \/ pc = "snapshot")' /\ use_transitions' /\ ~disturbed'
               PROVE  /\ recording'
                      /\ \A i \in 1..Len(buffer') :
                           LastOf(buffer', i) => buffer'[i].state = status'[buffer'[i].uid]
    BY DEF Tracks
  <2>3. recording /\ \A i \in 1..Len(buffer) :
                       LastOf(buffer, i) => buffer[i].state = status[buffer[i].uid]
    BY <2>1 DEF NodeChanges, session, Tracks, Polling
  <2>4. recording' BY <2>1, <2>3 DEF NodeChanges
  <2> DEFINE e == [uid |-> n, state |-> s]
             b == buffer'
  <2>5. b = Append(buffer, e) BY <2>2, <2>3
  <2>6. e \in Transitions /\ e.uid = n /\ e.state = s BY DEF Transitions
  <2> HIDE DEF b, e
  <2>7. /\ Len(b) = Len(buffer) + 1
        /\ \A i \in 1..Len(buffer) : b[i] = buffer[i]
        /\ b[Len(buffer) + 1] = e
    BY <1>0, <2>5, <2>6, AppendProperties
  <2>8. ASSUME NEW i \in 1..Len(b), LastOf(b, i) PROVE b[i].state = status'[b[i].uid]
    <3>1. CASE i = Len(buffer) + 1
      <4>1. b[i].uid = n /\ b[i].state = s BY <3>1, <2>6, <2>7
      <4>2. status'[n] = s BY <1>0, <2>2
      <4> QED BY <4>1, <4>2
    <3>2. CASE i # Len(buffer) + 1
      <4>1. i \in 1..Len(buffer) BY <1>0, <2>7, <3>2
      <4>2. b[i].uid # n BY <1>0, <2>8, <4>1, <2>6, <2>7 DEF LastOf
      <4>3. LastOf(buffer, i) BY <1>0, <2>8, <4>1, <2>7 DEF LastOf
      <4>4. buffer[i].state = status[buffer[i].uid] BY <2>3, <4>1, <4>3
      <4>5. b[i] = buffer[i] BY <2>7, <4>1
      <4>6. buffer[i] \in Transitions BY <1>0, <4>1, ElementOfSeq
      <4>7. status'[buffer[i].uid] = status[buffer[i].uid]
        BY <1>0, <2>2, <4>2, <4>5, <4>6 DEF Transitions
      <4> QED BY <4>4, <4>5, <4>7
    <3> QED BY <3>1, <3>2
  <2> QED BY <2>4, <2>8 DEF b
<1>2. CASE StartRecording
  <2>1. use_transitions' => recording' /\ buffer' = <<>> BY <1>2 DEF StartRecording
  <2>2. Len(<<>>) = 0 BY EmptySeq
  <2> QED BY <2>1, <2>2 DEF Tracks
<1>3. CASE DrainTransitions
  <2>1. Len(<<>>) = 0 BY EmptySeq
  <2> QED BY <1>3, <2>1 DEF Tracks, DrainTransitions, Answered, Polling
<1>4. CASE /\ Polling \/ pc = "snapshot"
           /\ UNCHANGED <<recording, buffer, status, use_transitions, disturbed>>
  BY <1>4 DEF Tracks, LastOf
<1>5. CASE ~(Polling \/ pc = "snapshot")' \/ ~use_transitions' \/ disturbed'
  BY <1>5 DEF Tracks
<1>6. \/ \E n \in NodeIds : NodeChanges(n)
      \/ StartRecording \/ DrainTransitions
      \/ /\ Polling \/ pc = "snapshot"
         /\ UNCHANGED <<recording, buffer, status, use_transitions, disturbed>>
      \/ ~(Polling \/ pc = "snapshot")' \/ ~use_transitions' \/ disturbed'
  BY DEF Next, ThreadNext, NextSession, ThreadEnds, FetchTree, Snapshot, Top, PollBlackboard,
         FallBack, PollStatus, NotDue, Resync, StopRecording, SessionFails, RequestSkipped,
         Unanswered, Refused, Stop, ExecutorStops, ExecutorStarts, Groot2Drains, Answered,
         executor, session, Polling
<1> QED BY <1>1, <1>2, <1>3, <1>4, <1>5, <1>6
LEMMA NextFollows ==
  ASSUME TypeOK, Tracks, FollowsExecutor, Next
  PROVE  FollowsExecutor'
<1>0. /\ buffer \in Seq(Transitions) /\ status \in [NodeIds -> Status]
      /\ Len(buffer) \in Nat
      /\ Polling \/ pc = "snapshot" => tree \in TreeState
  BY TypeParts, LenProperties, HasTree DEF Types, Polling
<1> DEFINE Follows(n) == \/ tree.statusById[n] = status[n]
                         \/ status[n] = "IDLE" /\ tree.statusById[n] \in Terminal
           Unrecorded(n) == \A i \in 1..Len(buffer) : buffer[i].uid # n
           SameTree == Polling => tree' = tree
           Calm == Polling /\ use_transitions /\ ~disturbed
<1>1. CASE \E n \in NodeIds : NodeChanges(n)
  <2>1. PICK n \in NodeIds : NodeChanges(n) BY <1>1
  <2>2. PICK s \in Status \ {status[n]} :
          /\ status' = [status EXCEPT ![n] = s]
          /\ buffer' = IF recording THEN Append(buffer, [uid |-> n, state |-> s]) ELSE buffer
    BY <2>1 DEF NodeChanges
  <2> SUFFICES ASSUME Calm', NEW m \in NodeIds, Unrecorded(m)'
               PROVE  Follows(m)'
    BY DEF FollowsExecutor
  <2>3. Calm /\ tree' = tree BY <2>1 DEF NodeChanges, session, Polling
  <2>4. recording BY <2>3 DEF Tracks
  <2> DEFINE e == [uid |-> n, state |-> s]
             b == buffer'
  <2>5. b = Append(buffer, e) /\ e \in Transitions /\ e.uid = n BY <2>2, <2>4 DEF Transitions
  <2>6. \A i \in 1..Len(b) : b[i].uid # m OBVIOUS
  <2> HIDE DEF b, e
  <2>7. /\ Len(b) = Len(buffer) + 1
        /\ \A i \in 1..Len(buffer) : b[i] = buffer[i]
        /\ b[Len(buffer) + 1] = e
    BY <1>0, <2>5, AppendProperties
  <2>8. m # n BY <1>0, <2>5, <2>6, <2>7
  <2>9. \A i \in 1..Len(buffer) : buffer[i].uid # m BY <1>0, <2>6, <2>7
  <2>10. Follows(m) BY <2>3, <2>9 DEF FollowsExecutor
  <2>11. status'[m] = status[m] BY <1>0, <2>2, <2>8
  <2> QED BY <2>3, <2>10, <2>11
<1>2. CASE Snapshot
  <2>1. tree'.statusById = status /\ status' = status
    BY <1>0, <1>2, Snapshots DEF Snapshot, Answered
  <2> QED BY <2>1 DEF FollowsExecutor
<1>3. CASE DrainTransitions
  <2> SUFFICES ASSUME Calm, NEW n \in NodeIds PROVE Follows(n)'
    BY <1>3 DEF FollowsExecutor, DrainTransitions, Polling
  <2> DEFINE final == Coalesce(buffer)
  <2>1. tree \in TreeState /\ status' = status /\ tree' = applyDeltas(tree, final)
    BY <1>0, <1>3 DEF DrainTransitions, Answered
  <2>2. tree'.statusById[n] = IF n \in DOMAIN final THEN final[n] ELSE tree.statusById[n]
    BY <2>1, Coalesced, Deltas
  <2>3. CASE Unrecorded(n)
    <3>1. n \notin DOMAIN final BY <2>3, Coalesced
    <3>2. Follows(n) BY <2>3 DEF FollowsExecutor
    <3> QED BY <2>1, <2>2, <3>1, <3>2
  <2>4. CASE ~Unrecorded(n)
    <3> DEFINE S == {i \in 1..Len(buffer) : buffer[i].uid = n}
    <3>1. S \in SUBSET Nat /\ S # {} /\ \A k \in S : k <= Len(buffer) BY <1>0, <2>4
    <3>2. PICK i \in S : \A m \in S : m <= i
      <4> HIDE DEF S
      <4> QED BY <1>0, <3>1, GreatestElement
    <3>3. /\ i \in 1..Len(buffer) /\ buffer[i].uid = n
          /\ \A k \in (i + 1)..Len(buffer) : buffer[k].uid # buffer[i].uid
      BY <1>0, <3>2
    <3>4. buffer[i].state = status[n] BY <3>3 DEF Tracks, LastOf
    <3>5. WinnersOf(final, buffer, Len(buffer)) BY <1>0, CoalesceWins
    <3>6. \/ final[n] = status[n]
          \/ status[n] = "IDLE" /\ final[n] \in Terminal
      BY <3>3, <3>4, <3>5 DEF WinnersOf
    <3>7. n \in DOMAIN final BY <3>3, Coalesced
    <3> QED BY <2>1, <2>2, <3>6, <3>7
  <2> QED BY <2>3, <2>4
<1>4. CASE Resync
  <2> SUFFICES ASSUME Calm, NEW n \in NodeIds, Unrecorded(n) PROVE Follows(n)'
    BY <1>4 DEF FollowsExecutor, Resync, Answered, Polling
  <2> DEFINE resync == [m \in {m \in NodeIds : status[m] # "IDLE" /\ last_status[m] # status[m]}
                          |-> status[m]]
  <2>1. /\ tree \in TreeState /\ status' = status
        /\ tree' = applyDeltas(tree, resync)
        /\ \A m \in DOMAIN resync : resync[m] \in Status
    BY <1>0, <1>4 DEF Resync, Answered
  <2>2. n \in DOMAIN resync => resync[n] = status[n] OBVIOUS
  <2> HIDE DEF resync
  <2>3. tree'.statusById[n] = IF n \in DOMAIN resync THEN resync[n] ELSE tree.statusById[n]
    BY <2>1, Deltas
  <2>4. Follows(n) BY DEF FollowsExecutor
  <2> QED BY <2>1, <2>2, <2>3, <2>4
<1>5. CASE Top
  <2>1. tree' = tree BY <1>0, <1>5, Loading DEF Top, Polling
  <2> QED BY <1>5, <2>1 DEF FollowsExecutor, Top, Polling, executor
<1>6. CASE Polling /\ UNCHANGED <<tree, buffer, status, use_transitions, disturbed>>
  BY <1>6 DEF FollowsExecutor
<1>7. CASE ~Polling' \/ ~use_transitions' \/ disturbed'
  BY <1>7 DEF FollowsExecutor
<1>8. \/ \E n \in NodeIds : NodeChanges(n)
      \/ Snapshot \/ DrainTransitions \/ Resync \/ Top
      \/ Polling /\ UNCHANGED <<tree, buffer, status, use_transitions, disturbed>>
      \/ ~Polling' \/ ~use_transitions' \/ disturbed'
  BY DEF Next, ThreadNext, NextSession, ThreadEnds, FetchTree, StartRecording, PollBlackboard,
         FallBack, PollStatus, NotDue, StopRecording, SessionFails, RequestSkipped,
         Unanswered, Refused, Stop, ExecutorStops, ExecutorStarts, Groot2Drains, Answered,
         executor, session, Polling
<1> QED BY <1>1, <1>2, <1>3, <1>4, <1>5, <1>6, <1>7, <1>8

LEMMA NextIInv == IInv /\ [Next]_vars => IInv'
BY NextTypeOK, NextDiffBase, NextTracks, NextFollows, Stuttering DEF IInv

LEMMA Invariant == Spec => []IInv
BY InitIInv, NextIInv, PTL DEF Spec

LEMMA Holding ==
  ASSUME IInv, [Next]_vars, use_transitions, Polling, NEW n \in NodeIds
  PROVE  \/ tree.statusById[n] \notin Terminal
         \/ tree'.statusById[n] = tree.statusById[n]
         \/ \E i \in 1..Len(buffer) : buffer[i].uid = n
         \/ tree'.statusById[n] = status[n] /\ status[n] # "IDLE"
<1>0. /\ tree \in TreeState /\ status \in [NodeIds -> Status] /\ TypeOK
      /\ pc # "snapshot" /\ pc # "fulltree"
  BY HasTree DEF IInv, TypeOK, Polling
<1>1. CASE DrainTransitions
  <2>1. tree'.statusById[n] = IF n \in DOMAIN Coalesce(buffer) THEN Coalesce(buffer)[n]
                                                             ELSE tree.statusById[n]
    BY <1>0, <1>1, Coalesced, Deltas DEF DrainTransitions
  <2>2. n \in DOMAIN Coalesce(buffer) => \E i \in 1..Len(buffer) : buffer[i].uid = n
    BY <1>0, Coalesced
  <2> QED BY <2>1, <2>2
<1>2. CASE Resync
  <2> DEFINE resync == [m \in {m \in NodeIds : status[m] # "IDLE" /\ last_status[m] # status[m]}
                          |-> status[m]]
  <2>1. /\ tree' = applyDeltas(tree, resync)
        /\ \A m \in DOMAIN resync : resync[m] \in Status
    BY <1>0, <1>2 DEF Resync
  <2>2. n \in DOMAIN resync => resync[n] = status[n] /\ status[n] # "IDLE" OBVIOUS
  <2> HIDE DEF resync
  <2>3. tree'.statusById[n] = IF n \in DOMAIN resync THEN resync[n] ELSE tree.statusById[n]
    BY <1>0, <2>1, Deltas
  <2> QED BY <2>2, <2>3
<1>3. CASE Top BY <1>0, <1>3, Loading DEF Top
<1>4. CASE UNCHANGED tree BY <1>4
<1>5. DrainTransitions \/ Resync \/ Top \/ UNCHANGED tree
  BY <1>0
  DEF Next, ThreadNext, NextSession, ThreadEnds, FetchTree, StartRecording, Snapshot,
      PollBlackboard, FallBack, PollStatus, NotDue, StopRecording, SessionFails, RequestSkipped,
      Stop, NodeChanges, ExecutorStops, ExecutorStarts, Groot2Drains, vars, session
<1> QED BY <1>1, <1>2, <1>3, <1>4, <1>5
-----------------------------------------------------------------------------
(* Every variable keeps its type, a session that polls has a tree to       *)
(* colour, and there is a socket exactly during a session                  *)
(* (btros_bridge.py:457-481, 511-664).                                     *)
THEOREM TypeCorrect == Spec => []TypeOK
BY Invariant, PTL DEF IInv

(* The statuses the thread compares with are those the browser shows,      *)
(* after every snapshot, drain, comparison and resync                      *)
(* (btros_bridge.py:562-566, 625-654).                                     *)
THEOREM BaseIsShown == Spec => []DiffBase
BY Invariant, PTL DEF IInv

(* While the executor's record is the thread's alone, a node the record    *)
(* says nothing of is shown as it is, or at the terminal state it was      *)
(* reset from (btros_bridge.py:178-192, 562-643).                          *)
THEOREM ShownFollows == Spec => []FollowsExecutor
BY Invariant, PTL DEF IInv

(* What a session that records shows as SUCCESS or FAILURE changes only by *)
(* a transition of the node, or because the node is active again           *)
(* (btros_bridge.py:178-192, 625-643).                                     *)
THEOREM TerminalsAreHeld == Spec => HeldTerminals
<1>1. IInv /\ [Next]_vars =>
        [use_transitions /\ Polling =>
           \A n \in NodeIds :
             \/ tree.statusById[n] \notin Terminal
             \/ tree'.statusById[n] = tree.statusById[n]
             \/ \E i \in 1..Len(buffer) : buffer[i].uid = n
             \/ tree'.statusById[n] = status[n] /\ status[n] # "IDLE"]_vars
  BY Holding
<1> QED BY <1>1, Invariant, PTL DEF Spec, HeldTerminals
-----------------------------------------------------------------------------
(* The page.                                                               *)

TreesShape == /\ trees = [t \in Trees |-> trees[t]]
         /\ runs = [t \in Trees |-> runs[t]]
         /\ \A t \in Trees : Loaded(t) =>
              trees[t] = [bp |-> trees[t].bp, status |-> trees[t].status,
                          blackboard |-> trees[t].blackboard]

StoreInv == TreesShape /\ StoreOK

(* What is on the blackboard of x stays there, live.                       *)
Kept(x) == \A k \in DOMAIN trees[x].blackboard :
             trees[x].blackboard[k] # None =>
               /\ k \in DOMAIN trees'[x].blackboard
               /\ trees'[x].blackboard[k] # None

(* A loaded tree keeps its blueprint: every version is 1.                  *)
SameTrees == \A x \in Trees : Loaded(x) => trees'[x].bp = trees[x].bp
-----------------------------------------------------------------------------
LEMMA FreshTree ==
  ASSUME NEW b, NEW bb
  PROVE  LET r == [bp |-> b, status |-> Idle(b), blackboard |-> bb]
         IN  r.bp = b /\ r.status = Idle(b) /\ r.blackboard = bb /\ DOMAIN r.status = Ids(b)
BY DEF Idle

LEMMA InitStore == BtInit => StoreInv
<1> SUFFICES ASSUME BtInit PROVE StoreInv OBVIOUS
<1>1. \A t \in Trees : ~Loaded(t) BY DEF BtInit, Loaded, Unloaded
<1>2. ~Shown BY DEF BtInit, Shown
<1>3. TreesShape BY <1>1 DEF BtInit, TreesShape
<1>4. StoreOK BY <1>1, <1>2 DEF BtInit, StoreOK
<1> QED BY <1>3, <1>4 DEF StoreInv

(* What a step leaves alone.                                               *)
LEMMA StoreStuttering ==
  ASSUME StoreInv, UNCHANGED <<runs, trees>>,
         activeTreeId' \in {activeTreeId} \cup {t \in Trees : Loaded(t)}
  PROVE  StoreInv' /\ SameTrees
<1>1. \A t \in Trees : Loaded(t)' = Loaded(t) BY DEF Loaded
<1>2. TreesShape' BY <1>1 DEF StoreInv, TreesShape
<1>3. StoreOK' BY <1>1 DEF StoreInv, StoreOK, Shown
<1> QED BY <1>2, <1>3 DEF StoreInv, SameTrees

(* A blueprint.                                                            *)
LEMMA LoadKeeps ==
  ASSUME StoreInv, NEW t \in Trees, LoadBlueprint(t, runs[t]), UNCHANGED runs
  PROVE  /\ StoreInv' /\ SameTrees
         /\ \A x \in Trees : Loaded(x) => Kept(x)
<1> DEFINE b == runs[t]
           bb == IF Loaded(t) THEN trees[t].blackboard ELSE <<>>
           r == [bp |-> b, status |-> Idle(b), blackboard |-> bb]
<1>1. CASE Loaded(t) /\ trees[t].bp.version = b.version
  <2>1. UNCHANGED <<trees, activeTreeId>> BY <1>1 DEF LoadBlueprint
  <2> QED BY <2>1, StoreStuttering DEF Kept
<1>2. CASE ~(Loaded(t) /\ trees[t].bp.version = b.version)
  <2>1. /\ trees' = [trees EXCEPT ![t] = r]
        /\ activeTreeId' = IF activeTreeId = None THEN t ELSE activeTreeId
    BY <1>2 DEF LoadBlueprint
  <2>2. b \in Blueprints[t] /\ b # None BY BtPageAssumption DEF StoreInv, StoreOK
  <2>3. /\ trees' = [x \in Trees |-> trees'[x]] /\ trees'[t] = r
        /\ \A x \in Trees \ {t} : trees'[x] = trees[x]
    BY <2>1 DEF StoreInv, TreesShape
  <2>4. r.bp = b /\ r.status = Idle(b) /\ r.blackboard = bb /\ DOMAIN r.status = Ids(b)
    BY FreshTree
  <2>5. r = [bp |-> r.bp, status |-> r.status, blackboard |-> r.blackboard] BY <2>4
  <2> HIDE DEF r
  <2>6. Loaded(t)' /\ \A x \in Trees \ {t} : Loaded(x)' = Loaded(x)
    BY <2>2, <2>3, <2>4 DEF Loaded
  <2>7. TreesShape' BY <2>3, <2>5, <2>6 DEF StoreInv, TreesShape
  <2>8. DOMAIN bb \subseteq Keys[t] BY DEF StoreInv, StoreOK
  <2>9. StoreOK'
    <3>1. ASSUME NEW x \in Trees
          PROVE  /\ runs'[x] \in Blueprints[x]
                 /\ Loaded(x)' => /\ trees'[x].bp \in Blueprints[x]
                                  /\ Ids(trees'[x].bp) \subseteq DOMAIN trees'[x].status
                                  /\ DOMAIN trees'[x].blackboard \subseteq Keys[x]
      <4>1. CASE x = t BY <4>1, <2>2, <2>3, <2>4, <2>8 DEF StoreInv, StoreOK
      <4>2. CASE x # t BY <4>2, <2>3, <2>6 DEF StoreInv, StoreOK
      <4> QED BY <4>1, <4>2
    <3>2. activeTreeId' # None => activeTreeId' \in Trees /\ trees'[activeTreeId'].bp # None
      <4>1. CASE activeTreeId = None
        BY <4>1, <2>1, <2>2, <2>3, <2>4
      <4>2. CASE activeTreeId # None
        <5>1. activeTreeId \in Trees /\ trees[activeTreeId].bp # None
          BY <4>2 DEF StoreInv, StoreOK, Shown, Loaded
        <5> QED BY <4>2, <5>1, <2>1, <2>2, <2>3, <2>4
      <4> QED BY <4>1, <4>2
    <3> QED BY <3>1, <3>2 DEF StoreOK, Shown, Ids, Nodes, Loaded
  <2>10. ASSUME NEW x \in Trees, Loaded(x) PROVE Kept(x)
    <3>1. CASE x = t BY <3>1, <2>3, <2>4, <2>10 DEF Kept
    <3>2. CASE x # t BY <3>2, <2>3 DEF Kept
    <3> QED BY <3>1, <3>2
  <2>11. ~Loaded(t)
    <3>1. ASSUME Loaded(t) PROVE FALSE
      <4>1. trees[t].bp \in Blueprints[t] BY <3>1 DEF StoreInv, StoreOK
      <4>2. trees[t].bp.version = 1 /\ b.version = 1
        BY <2>2, <4>1, BtPageAssumption DEF BlueprintOK
      <4> QED BY <1>2, <3>1, <4>2
    <3> QED BY <3>1
  <2>12. SameTrees BY <2>3, <2>11 DEF SameTrees
  <2> QED BY <2>7, <2>9, <2>10, <2>12 DEF StoreInv
<1> QED BY <1>1, <1>2

(* A step that leaves a tree's blueprint and takes nothing from the others.*)
LEMMA TreeStep ==
  ASSUME StoreInv, NEW t \in Trees, Loaded(t), UNCHANGED <<runs, activeTreeId>>,
         NEW st, NEW bb,
         trees' = [trees EXCEPT ![t] = [bp |-> trees[t].bp, status |-> st, blackboard |-> bb]],
         DOMAIN trees[t].status \subseteq DOMAIN st, DOMAIN bb \subseteq Keys[t]
  PROVE  StoreInv' /\ SameTrees
<1> DEFINE r == [bp |-> trees[t].bp, status |-> st, blackboard |-> bb]
<1>1. /\ trees' = [x \in Trees |-> trees'[x]] /\ trees'[t] = r
      /\ \A x \in Trees \ {t} : trees'[x] = trees[x]
  BY DEF StoreInv, TreesShape
<1>2. r.bp = trees[t].bp /\ r.status = st /\ r.blackboard = bb OBVIOUS
<1>3. r = [bp |-> r.bp, status |-> r.status, blackboard |-> r.blackboard] BY <1>2
<1> HIDE DEF r
<1>4. \A x \in Trees : Loaded(x)' = Loaded(x) BY <1>1, <1>2 DEF Loaded
<1>5. TreesShape' BY <1>1, <1>3, <1>4 DEF StoreInv, TreesShape
<1>6. ASSUME NEW x \in Trees, Loaded(x)
      PROVE  /\ trees'[x].bp \in Blueprints[x]
             /\ Ids(trees'[x].bp) \subseteq DOMAIN trees'[x].status
             /\ DOMAIN trees'[x].blackboard \subseteq Keys[x]
  <2>1. CASE x = t BY <2>1, <1>1, <1>2, <1>6 DEF StoreInv, StoreOK
  <2>2. CASE x # t BY <2>2, <1>1, <1>6 DEF StoreInv, StoreOK
  <2> QED BY <2>1, <2>2
<1>7. StoreOK' BY <1>4, <1>6 DEF StoreInv, StoreOK, Shown, Ids, Nodes
<1>8. SameTrees BY <1>1, <1>2 DEF SameTrees
<1> QED BY <1>5, <1>7, <1>8 DEF StoreInv

LEMMA DeltaKeeps ==
  ASSUME StoreInv, NEW t \in Trees, DeltaFrame(t)
  PROVE  StoreInv' /\ SameTrees /\ \A x \in Trees : Loaded(x) => Kept(x)
<1>1. PICK id, state : ApplyDelta(t, id, state) BY DEF DeltaFrame
<1>2. UNCHANGED <<runs, activeTreeId>> BY DEF DeltaFrame, bridge
<1>3. CASE ~Loaded(t)
  <2>1. UNCHANGED trees BY <1>1, <1>3 DEF ApplyDelta
  <2> QED BY <1>2, <2>1, StoreStuttering DEF Kept
<1>4. CASE Loaded(t)
  <2> DEFINE st == Bound(trees[t].status, id, state)
  <2>1. trees' = [trees EXCEPT ![t] = [bp |-> trees[t].bp, status |-> st,
                                       blackboard |-> trees[t].blackboard]]
    <3>1. trees' = [trees EXCEPT ![t] = [trees[t] EXCEPT !.status = st]]
      BY <1>1, <1>4 DEF ApplyDelta
    <3>2. trees[t] = [bp |-> trees[t].bp, status |-> trees[t].status,
                      blackboard |-> trees[t].blackboard]
      BY <1>4 DEF StoreInv, TreesShape
    <3> HIDE DEF st
    <3>3. [trees[t] EXCEPT !.status = st]
             = [bp |-> trees[t].bp, status |-> st, blackboard |-> trees[t].blackboard]
      BY <3>2
    <3> QED BY <3>1, <3>3
  <2>2. DOMAIN trees[t].status \subseteq DOMAIN st BY DEF Bound
  <2>3. DOMAIN trees[t].blackboard \subseteq Keys[t] BY <1>4 DEF StoreInv, StoreOK
  <2> HIDE DEF st
  <2>4. StoreInv' /\ SameTrees BY <1>2, <1>4, <2>1, <2>2, <2>3, TreeStep
  <2>5. \A x \in Trees : trees'[x].blackboard = trees[x].blackboard
    BY <2>1 DEF StoreInv, TreesShape
  <2> QED BY <2>4, <2>5 DEF Kept
<1> QED BY <1>3, <1>4

(* A blackboard's value, whoever sends it.                                 *)
LEMMA BoardStep ==
  ASSUME StoreInv, NEW t \in Trees, Loaded(t), NEW k \in Keys[t], NEW v,
         trees' = [trees EXCEPT ![t].blackboard = Bound(@, k, v)],
         UNCHANGED <<runs, activeTreeId>>
  PROVE  /\ StoreInv' /\ SameTrees
         /\ v # None \/ k \notin DOMAIN trees[t].blackboard =>
              \A x \in Trees : Loaded(x) => Kept(x)
<1> DEFINE bb == Bound(trees[t].blackboard, k, v)
<1>1. trees' = [trees EXCEPT ![t] = [bp |-> trees[t].bp, status |-> trees[t].status,
                                     blackboard |-> bb]]
  <2>1. trees' = [trees EXCEPT ![t] = [trees[t] EXCEPT !.blackboard = bb]] OBVIOUS
  <2>2. trees[t] = [bp |-> trees[t].bp, status |-> trees[t].status,
                    blackboard |-> trees[t].blackboard]
    BY DEF StoreInv, TreesShape
  <2> HIDE DEF bb
  <2>3. [trees[t] EXCEPT !.blackboard = bb]
           = [bp |-> trees[t].bp, status |-> trees[t].status, blackboard |-> bb]
    BY <2>2
  <2> QED BY <2>1, <2>3
<1>2. DOMAIN bb = DOMAIN trees[t].blackboard \cup {k} /\ bb[k] = v
      /\ \A x \in DOMAIN trees[t].blackboard \ {k} : bb[x] = trees[t].blackboard[x]
  BY DEF Bound
<1>3. DOMAIN bb \subseteq Keys[t] BY <1>2 DEF StoreInv, StoreOK
<1> HIDE DEF bb
<1>4. StoreInv' /\ SameTrees BY <1>1, <1>3, TreeStep
<1>5. trees'[t].blackboard = bb /\ \A x \in Trees \ {t} : trees'[x] = trees[x]
  BY <1>1 DEF StoreInv, TreesShape
<1>6. ASSUME v # None \/ k \notin DOMAIN trees[t].blackboard, NEW x \in Trees PROVE Kept(x)
  <2>1. CASE x = t BY <2>1, <1>2, <1>5, <1>6 DEF Kept
  <2>2. CASE x # t BY <2>2, <1>5 DEF Kept
  <2> QED BY <2>1, <2>2
<1> QED BY <1>4, <1>6

LEMMA SkeletonKeeps ==
  ASSUME StoreInv, BlackboardFrame
  PROVE  StoreInv' /\ SameTrees /\ \A x \in Trees : Loaded(x) => Kept(x)
<1>1. PICK t \in Trees : \E k \in Keys[t], v \in Values \cup {None}, name \in {t, Nameless} :
                         SetBlackboard(name, k, v)
  BY DEF BlackboardFrame
<1>2. PICK k \in Keys[t], v \in Values \cup {None}, name \in {t, Nameless} :
        SetBlackboard(name, k, v)
  BY <1>1
<1>3. UNCHANGED <<runs, activeTreeId>> BY DEF BlackboardFrame, bridge
<1>4. CASE \/ name \notin Trees \/ ~Loaded(name)
           \/ v = None /\ k \in DOMAIN trees[name].blackboard
  <2>1. UNCHANGED trees BY <1>2, <1>4 DEF SetBlackboard
  <2> QED BY <1>3, <2>1, StoreStuttering DEF Kept
<1>5. CASE ~(\/ name \notin Trees \/ ~Loaded(name)
             \/ v = None /\ k \in DOMAIN trees[name].blackboard)
  <2>1. name = t BY <1>5, BtPageAssumption
  <2>2. trees' = [trees EXCEPT ![t].blackboard = Bound(@, k, v)]
    BY <1>2, <1>5, <2>1 DEF SetBlackboard
  <2>3. Loaded(t) /\ (v # None \/ k \notin DOMAIN trees[t].blackboard) BY <1>5, <2>1
  <2>4. \A x \in Trees : Loaded(x) => Kept(x)
    BY <1>3, <2>2, <2>3, BoardStep
  <2>5. StoreInv' /\ SameTrees BY <1>3, <2>2, <2>3, BoardStep
  <2> QED BY <2>4, <2>5
<1> QED BY <1>4, <1>5

LEMMA RealKeeps ==
  ASSUME StoreInv, RealBlackboardFrame, announced \subseteq Trees
  PROVE  StoreInv' /\ SameTrees
<1>1. PICK t \in announced : \E k \in Keys[t], v \in Values \cup {None} : ReplaceBlackboard(t, k, v)
  BY DEF RealBlackboardFrame
<1>2. PICK k \in Keys[t], v \in Values \cup {None} : ReplaceBlackboard(t, k, v) BY <1>1
<1>3. UNCHANGED <<runs, activeTreeId>> BY DEF RealBlackboardFrame, bridge
<1>4. CASE ~Loaded(t)
  <2>1. UNCHANGED trees BY <1>2, <1>4 DEF ReplaceBlackboard
  <2> QED BY <1>3, <2>1, StoreStuttering
<1>5. CASE Loaded(t)
  <2>1. trees' = [trees EXCEPT ![t].blackboard = Bound(@, k, v)]
    BY <1>2, <1>5 DEF ReplaceBlackboard
  <2> QED BY <1>3, <1>5, <2>1, BoardStep
<1> QED BY <1>4, <1>5
-----------------------------------------------------------------------------
(* Every step but those four leaves the trees, and what they choose as the *)
(* active tree is loaded.                                                  *)
LEMMA NextStore ==
  ASSUME StoreInv, announced \subseteq Trees, [BtNext]_btVars
  PROVE  /\ StoreInv' /\ SameTrees /\ announced' \subseteq Trees
         /\ RealBlackboardFrame \/ \A x \in Trees : Loaded(x) => Kept(x)
<1> DEFINE Goal == /\ StoreInv' /\ SameTrees /\ announced' \subseteq Trees
                   /\ RealBlackboardFrame \/ \A x \in Trees : Loaded(x) => Kept(x)
<1>1. ASSUME NEW t \in Trees, Restart(t) PROVE Goal
  <2>1. UNCHANGED <<trees, activeTreeId>> /\ announced' \subseteq Trees BY <1>1 DEF Restart
  <2>2. PICK b \in Blueprints[t] : runs' = [runs EXCEPT ![t] = b] BY <1>1 DEF Restart
  <2>3. /\ runs' = [x \in Trees |-> runs'[x]]
        /\ \A x \in Trees : runs'[x] \in Blueprints[x]
    BY <2>2 DEF StoreInv, TreesShape, StoreOK
  <2>4. \A x \in Trees : Loaded(x)' = Loaded(x) BY <2>1 DEF Loaded
  <2>5. TreesShape' BY <2>1, <2>3, <2>4 DEF StoreInv, TreesShape
  <2>6. StoreOK' BY <2>1, <2>3, <2>4 DEF StoreInv, StoreOK, Shown
  <2> QED BY <2>1, <2>5, <2>6 DEF StoreInv, SameTrees, Kept
<1>2. ASSUME NEW t \in Trees, BlueprintFrame(t) PROVE Goal
  <2>1. UNCHANGED runs /\ announced' \subseteq Trees BY <1>2 DEF BlueprintFrame
  <2>2. CASE mounted
    <3>1. LoadBlueprint(t, runs[t]) BY <1>2, <2>2 DEF BlueprintFrame
    <3> QED BY <2>1, <3>1, LoadKeeps
  <2>3. CASE ~mounted
    <3>1. UNCHANGED <<trees, activeTreeId>> BY <1>2, <2>3 DEF BlueprintFrame
    <3> QED BY <2>1, <3>1, StoreStuttering DEF Kept
  <2> QED BY <2>2, <2>3
<1>3. ASSUME NEW t \in Trees, DeltaFrame(t) PROVE Goal
  <2>1. UNCHANGED announced BY <1>3 DEF DeltaFrame, bridge
  <2> QED BY <1>3, <2>1, DeltaKeeps
<1>4. CASE BlackboardFrame
  <2>1. UNCHANGED announced BY <1>4 DEF BlackboardFrame, bridge
  <2> QED BY <1>4, <2>1, SkeletonKeeps
<1>5. CASE RealBlackboardFrame
  <2>1. UNCHANGED announced BY <1>5 DEF RealBlackboardFrame, bridge
  <2> QED BY <1>5, <2>1, RealKeeps
<1>6. ASSUME UNCHANGED <<bridge, trees>>,
             activeTreeId' \in {activeTreeId} \cup {t \in Trees : Loaded(t)}
      PROVE  Goal
  <2>1. UNCHANGED <<runs, announced, trees>> BY <1>6 DEF bridge
  <2> QED BY <1>6, <2>1, StoreStuttering DEF Kept
<1>7. ASSUME NEW t \in Trees, SetActiveTree(t) PROVE Goal
  BY <1>6, <1>7 DEF SetActiveTree, CanClick
<1>8. CASE EnterPage \/ LeavePage \/ PauseView \/ OpenMenu \/ CloseMenu
  BY <1>6, <1>8 DEF EnterPage, LeavePage, PauseView, OpenMenu, CloseMenu
<1>9. CASE ClickNode \/ Deselect \/ ToggleCollapse \/ DoubleClick
           \/ ToggleCollapseAll \/ CollapseSubtrees
  BY <1>6, <1>9 DEF ClickNode, Deselect, ToggleCollapse, DoubleClick, ToggleCollapseAll,
                    CollapseSubtrees, CanClick, Select, CollapseTo
<1>10. CASE MenuSelect \/ MenuToggle \/ MenuCollapseAll \/ MenuExpandAll
  BY <1>6, <1>10 DEF MenuSelect, MenuToggle, MenuCollapseAll, MenuExpandAll,
                     MenuOfNode, MenuOfCanvas, MenuItem, Select, CollapseTo
<1>11. CASE UNCHANGED btVars
  BY <1>6, <1>11 DEF btVars
<1> QED BY <1>1, <1>2, <1>3, <1>4, <1>5, <1>7, <1>8, <1>9, <1>10, <1>11 DEF BtNext

LEMMA StoreInvariant == BtSpec => [](StoreInv /\ announced \subseteq Trees)
<1>1. BtInit => StoreInv /\ announced \subseteq Trees BY InitStore DEF BtInit
<1>2. (StoreInv /\ announced \subseteq Trees) /\ [BtNext]_btVars
        => (StoreInv /\ announced \subseteq Trees)'
  BY NextStore
<1> QED BY <1>1, <1>2, PTL DEF BtSpec

(* The store holds blueprints of the right tree, a status for every node   *)
(* and decorator of each, and an active tree that is loaded, however often *)
(* the executors restart with other trees (btStore.ts:41-80).              *)
THEOREM StoreHolds == BtSpec => []StoreOK
<1>1. StoreInv => StoreOK BY DEF StoreInv
<1> QED BY <1>1, StoreInvariant, PTL

(* Only a real blackboard replaces a live value by null                    *)
(* (btStore.ts:54-55, 77-80).                                              *)
THEOREM LiveValues == BtSpec => LiveValuesKept
<1>1. (StoreInv /\ announced \subseteq Trees) /\ [BtNext]_btVars =>
        [RealBlackboardFrame \/ \A x \in Trees : Loaded(x) => Kept(x)]_btVars
  BY NextStore
<1>2. [RealBlackboardFrame \/ \A x \in Trees : Loaded(x) => Kept(x)]_btVars =>
        [RealBlackboardFrame \/
         \A t \in Trees : Loaded(t) =>
           \A k \in DOMAIN trees[t].blackboard :
             trees[t].blackboard[k] # None =>
               /\ k \in DOMAIN trees'[t].blackboard
               /\ trees'[t].blackboard[k] # None]_btVars
  BY DEF Kept
<1> QED BY <1>1, <1>2, StoreInvariant, PTL DEF BtSpec, LiveValuesKept
-----------------------------------------------------------------------------
(* The layout.                                                             *)

(* The boxes below and at n, given those of its children.                  *)
Below(g, b, closed, n) ==
  {n} \cup IF n \in closed THEN {} ELSE UNION {g[c] : c \in b.children[n]}

(* A measure that says why the layout's recursion ends.                    *)
Measured(depth, bound, b) ==
  /\ bound \in Nat /\ depth \in [Nodes(b) -> 0..bound]
  /\ \A n \in Nodes(b) : b.children[n] \subseteq Nodes(b)
  /\ \A n \in Nodes(b) : \A c \in b.children[n] : depth[c] > depth[n]

LEMMA MeasureExists ==
  ASSUME NEW b, BlueprintOK(b)
  PROVE  \E depth, bound : Measured(depth, bound, b)
<1> DEFINE bound == Cardinality(Nodes(b))
<1>1. bound \in Nat BY FS_CardinalityType DEF BlueprintOK, Nodes
<1>2. PICK depth \in [Nodes(b) -> 0..bound] :
        \A n \in Nodes(b) : \A c \in b.children[n] : depth[c] > depth[n]
  BY DEF BlueprintOK, Nodes
<1> HIDE DEF bound
<1>3. Measured(depth, bound, b) BY <1>1, <1>2 DEF Measured, BlueprintOK, Nodes
<1> QED BY <1>3

(* What holds of the nodes deeper than k levels above the bound, for all k,*)
(* holds of all.                                                           *)
LEMMA FromBelow ==
  ASSUME NEW b, NEW depth, NEW bound, Measured(depth, bound, b), NEW S,
         \A n \in Nodes(b) : b.children[n] \subseteq S => n \in S
  PROVE  Nodes(b) \subseteq S
<1> DEFINE L == {k \in Nat : \A n \in Nodes(b) : depth[n] >= bound - k => n \in S}
<1>1. bound \in Nat /\ \A n \in Nodes(b) : depth[n] \in 0..bound BY DEF Measured
<1>2. 0 \in L
  <2>1. ASSUME NEW n \in Nodes(b), depth[n] >= bound PROVE n \in S
    <3>1. \A c \in b.children[n] : c \in Nodes(b) /\ depth[c] > depth[n] BY DEF Measured
    <3>2. b.children[n] = {} BY <1>1, <2>1, <3>1
    <3> QED BY <3>2
  <2> QED BY <1>1, <2>1
<1>3. ASSUME NEW k \in Nat, k \in L PROVE k + 1 \in L
  <2>1. ASSUME NEW n \in Nodes(b), depth[n] >= bound - (k + 1) PROVE n \in S
    <3>1. \A c \in b.children[n] : c \in Nodes(b) /\ depth[c] > depth[n] BY DEF Measured
    <3>2. \A c \in b.children[n] : depth[c] >= bound - k BY <1>1, <2>1, <3>1
    <3> QED BY <1>3, <3>1, <3>2
  <2> QED BY <2>1
<1>4. bound \in L
  <2> HIDE DEF L
  <2>1. Nat \subseteq L BY <1>2, <1>3, InductiveSet
  <2> QED BY <1>1, <2>1
<1>5. \A n \in Nodes(b) : depth[n] >= bound - bound BY <1>1
<1> QED BY <1>4, <1>5

LEMMA LayoutExists ==
  ASSUME NEW b, NEW closed, BlueprintOK(b)
  PROVE  \E g : g = [n \in Nodes(b) |-> Below(g, b, closed, n)]
<1>1. PICK depth, bound : Measured(depth, bound, b) BY MeasureExists
<1>2. bound \in Nat /\ \A n \in Nodes(b) : depth[n] \in 0..bound BY <1>1 DEF Measured
<1> DEFINE Good(g, k) == \A n \in Nodes(b) : depth[n] >= bound - k => g[n] = Below(g, b, closed, n)
           Unrolled(g) == [n \in Nodes(b) |-> Below(g, b, closed, n)]
           L == {k \in Nat : \E g : Good(g, k)}
<1>3. 0 \in L
  <2> DEFINE g == [n \in Nodes(b) |-> {n}]
  <2>1. ASSUME NEW n \in Nodes(b), depth[n] >= bound - 0 PROVE g[n] = Below(g, b, closed, n)
    <3>1. \A c \in b.children[n] : c \in Nodes(b) /\ depth[c] > depth[n] BY <1>1 DEF Measured
    <3>2. b.children[n] = {} BY <1>2, <2>1, <3>1
    <3> QED BY <3>2 DEF Below
  <2> QED BY <2>1
<1>4. ASSUME NEW g, NEW k \in Nat, Good(g, k),
             NEW n \in Nodes(b), depth[n] >= bound - (k + 1)
      PROVE  Below(Unrolled(g), b, closed, n) = Below(g, b, closed, n)
  <2>1. \A c \in b.children[n] : c \in Nodes(b) /\ depth[c] > depth[n] BY <1>1 DEF Measured
  <2>2. \A c \in b.children[n] : depth[c] >= bound - k BY <1>2, <1>4, <2>1
  <2>3. \A c \in b.children[n] : Unrolled(g)[c] = g[c] BY <1>4, <2>1, <2>2
  <2> DEFINE h == Unrolled(g)
  <2>4. \A c \in b.children[n] : h[c] = g[c] BY <2>3
  <2> HIDE DEF h
  <2>5. Below(h, b, closed, n) = Below(g, b, closed, n) BY <2>4 DEF Below
  <2> QED BY <2>5 DEF h
<1>5. ASSUME NEW k \in Nat, k \in L PROVE k + 1 \in L
  <2>1. PICK g : Good(g, k) BY <1>5
  <2>2. Good(Unrolled(g), k + 1) BY <2>1, <1>4
  <2> HIDE DEF Unrolled, Good
  <2> QED BY <2>2
<1>6. bound \in L
  <2> HIDE DEF L
  <2>1. Nat \subseteq L BY <1>3, <1>5, InductiveSet
  <2> QED BY <1>2, <2>1
<1>7. PICK g : Good(g, bound) BY <1>6
<1>8. ASSUME NEW n \in Nodes(b) PROVE Below(Unrolled(g), b, closed, n) = Below(g, b, closed, n)
  <2>1. depth[n] >= bound - (bound + 1) BY <1>2
  <2> QED BY <2>1, <1>2, <1>4, <1>7
<1>9. Unrolled(g) = [n \in Nodes(b) |-> Below(Unrolled(g), b, closed, n)] BY <1>8
<1> QED BY <1>9

(* What is placed below n hangs on a node that is placed there too, and is *)
(* not collapsed.                                                          *)
Hangs(g, b, closed, n) ==
  /\ n \in g[n] /\ g[n] \subseteq Nodes(b)
  /\ \A c \in g[n] \ {n} : \E p \in g[n] \ closed : c \in b.children[p]

LEMMA BoxesHang ==
  ASSUME NEW b, NEW closed, BlueprintOK(b)
  PROVE  /\ Boxes(b, closed) \subseteq Nodes(b)
         /\ \A c \in Boxes(b, closed) \ {b.root} :
              \E p \in Boxes(b, closed) \ closed : c \in b.children[p]
<1> DEFINE assign == CHOOSE g : g = [n \in Nodes(b) |-> Below(g, b, closed, n)]
           S == {n \in Nodes(b) : Hangs(assign, b, closed, n)}
<1>1. Boxes(b, closed) = assign[b.root] BY DEF Boxes, Below
<1>2. assign = [n \in Nodes(b) |-> Below(assign, b, closed, n)] BY LayoutExists
<1> HIDE DEF assign
<1>3. ASSUME NEW n \in Nodes(b) PROVE assign[n] = Below(assign, b, closed, n)
  <2> DEFINE h == [m \in Nodes(b) |-> Below(assign, b, closed, m)]
  <2>1. h[n] = Below(assign, b, closed, n) OBVIOUS
  <2> HIDE DEF h
  <2>2. assign = h BY <1>2 DEF h
  <2> QED BY <2>1, <2>2
<1>4. ASSUME NEW n \in Nodes(b), b.children[n] \subseteq S PROVE n \in S
  <2>1. /\ n \in assign[n]
        /\ \A c \in assign[n] \ {n} : n \notin closed /\ \E m \in b.children[n] : c \in assign[m]
        /\ n \notin closed => \A m \in b.children[n] : assign[m] \subseteq assign[n]
    BY <1>3 DEF Below
  <2>2. ASSUME NEW c \in assign[n] \ {n}
        PROVE  c \in Nodes(b) /\ \E p \in assign[n] \ closed : c \in b.children[p]
    <3>1. PICK m \in b.children[n] : c \in assign[m] BY <2>1
    <3>2. n \notin closed /\ assign[m] \subseteq assign[n] BY <2>1
    <3>3. Hangs(assign, b, closed, m) BY <1>4
    <3>4. CASE c = m BY <2>1, <3>2, <3>3, <3>4 DEF Hangs
    <3>5. CASE c # m BY <3>1, <3>2, <3>3, <3>5 DEF Hangs
    <3> QED BY <3>4, <3>5
  <2>3. Hangs(assign, b, closed, n) BY <2>1, <2>2 DEF Hangs
  <2> QED BY <2>3
<1>5. PICK depth, bound : Measured(depth, bound, b) BY MeasureExists
<1>6. Nodes(b) \subseteq S
  <2> HIDE DEF S
  <2> QED BY <1>4, <1>5, FromBelow
<1>7. b.root \in Nodes(b) BY DEF BlueprintOK, Nodes
<1> QED BY <1>1, <1>6, <1>7 DEF Hangs

(* A wire to a box is known by the entry it starts from, which uses that   *)
(* box; there are as many of those as entries of the box.                  *)
LEMMA BoxHangs ==
  ASSUME NEW b, NEW closed, BlueprintOK(b), NEW c \in Boxes(b, closed)
  PROVE  LET hung == Cardinality({w \in Wires(b, closed) : w[2] = c})
         IN  IF c = b.root THEN hung = 0 ELSE hung \in 1..Cardinality(Entries(b, c))
<1> DEFINE W == {w \in Wires(b, closed) : w[2] = c}
           B == Boxes(b, closed)
           I == {i \in DOMAIN b.nodes : b.nodes[i] \in B \ closed /\ c \in b.children[b.nodes[i]]}
<1>1. B \subseteq Nodes(b) /\ \A x \in B \ {b.root} : \E p \in B \ closed : x \in b.children[p]
  BY BoxesHang
<1>2. W = {<<i, c>> : i \in I}
  <2>1. \A w : w \in W <=> \E i \in I : w = <<i, c>> BY DEF Wires
  <2> HIDE DEF W, I
  <2> QED BY <2>1
<1>3. /\ IsFiniteSet(Uses(b, c)) /\ Cardinality(Uses(b, c)) \in Nat
      /\ I \subseteq Uses(b, c)
  <2>1. b.nodes \in Seq(Nodes(b)) BY DEF BlueprintOK
  <2>2. Len(b.nodes) \in Nat /\ DOMAIN b.nodes = 1..Len(b.nodes) BY <2>1, LenProperties
  <2>3. IsFiniteSet(DOMAIN b.nodes) BY <2>2, FS_Interval
  <2>4. Uses(b, c) \in SUBSET DOMAIN b.nodes BY DEF Uses
  <2>5. IsFiniteSet(Uses(b, c)) BY <2>3, <2>4, FS_Subset
  <2>6. I \subseteq Uses(b, c) BY DEF Uses
  <2> QED BY <2>5, <2>6, FS_CardinalityType
<1>4. /\ IsFiniteSet(W) /\ Cardinality(W) \in Nat
      /\ Cardinality(W) <= Cardinality(Uses(b, c))
  <2>1. IsFiniteSet(I) /\ Cardinality(I) <= Cardinality(Uses(b, c)) /\ Cardinality(I) \in Nat
    <3>1. I \in SUBSET Uses(b, c) BY <1>3
    <3> HIDE DEF I
    <3> QED BY <1>3, <3>1, FS_Subset, FS_CardinalityType
  <2> HIDE DEF I, W
  <2> DEFINE f == [i \in I |-> <<i, c>>]
  <2>2. f \in Surjection(I, W) BY <1>2 DEF Surjection
  <2>3. IsFiniteSet(W) /\ Cardinality(W) <= Cardinality(I) BY <2>1, <2>2, FS_Surjection
  <2>4. Cardinality(W) \in Nat BY <2>3, FS_CardinalityType
  <2> QED BY <1>3, <2>1, <2>3, <2>4
<1>5. Cardinality(Uses(b, c)) = IF c = b.root THEN 0 ELSE Cardinality(Entries(b, c))
  BY <1>1 DEF BlueprintOK
<1>6. CASE c = b.root
  <2>1. Cardinality(W) = 0 BY <1>3, <1>4, <1>5, <1>6
  <2> QED BY <1>6, <2>1
<1>7. CASE c # b.root
  <2>1. PICK p \in B \ closed : c \in b.children[p] BY <1>1, <1>7
  <2>2. PICK i \in Entries(b, p) : TRUE BY <1>1, <2>1 DEF BlueprintOK
  <2>3. <<i, c>> \in W BY <1>2, <2>1, <2>2 DEF Entries
  <2>4. Cardinality(W) # 0
    <3> HIDE DEF W
    <3> QED BY <1>4, <2>3, FS_EmptySet
  <2>5. Cardinality(W) \in 1..Cardinality(Entries(b, c)) BY <1>3, <1>4, <1>5, <1>7, <2>4
  <2> QED BY <1>7, <2>5
<1> QED BY <1>6, <1>7

(* Whatever is collapsed, and in whichever tree it was, every box of the   *)
(* canvas but the root's hangs on a wire, on no more than its node has     *)
(* entries, and the root's on none (layout.ts:67-143).  Subtrees may be    *)
(* used as often as the parser lists them (btros_bridge.py:297-317).       *)
THEOREM LayoutAgrees == BtSpec => []EveryBoxHangs
<1>1. StoreInv => EveryBoxHangs
  <2> SUFFICES ASSUME StoreInv, Shown PROVE BlueprintOK(Active)
    BY BoxHangs DEF EveryBoxHangs, Placed
  <2>1. activeTreeId \in Trees /\ Active \in Blueprints[activeTreeId]
    BY DEF StoreInv, StoreOK, Active
  <2> QED BY <2>1, BtPageAssumption
<1> QED BY <1>1, StoreInvariant, PTL
-----------------------------------------------------------------------------
(* The choices.                                                            *)

Fits(node, closed, item, b) ==
  /\ node \in Nodes(b) \cup {None}
  /\ closed \subseteq Parents(b) \cup b.subtrees
  /\ item \in Nodes(b) \cup {Canvas, None}

LEMMA ActiveOK ==
  ASSUME StoreInv, Shown
  PROVE  /\ activeTreeId \in Trees /\ Loaded(activeTreeId)
         /\ BlueprintOK(Active)
         /\ Placed \subseteq Nodes(Active) /\ Parents(Active) \subseteq Nodes(Active)
<1>1. activeTreeId \in Trees /\ Loaded(activeTreeId) /\ Active \in Blueprints[activeTreeId]
  BY DEF StoreInv, StoreOK, Active
<1>2. BlueprintOK(Active) BY <1>1, BtPageAssumption
<1>3. Placed \subseteq Nodes(Active) BY <1>2, BoxesHang DEF Placed
<1> QED BY <1>1, <1>2, <1>3 DEF Parents

LEMMA ChoicesSay ==
  ChoicesFit <=> IF Shown THEN Fits(selectedNodeId, collapsed, menu, Active)
                 ELSE selectedNodeId = None /\ collapsed = {} /\ menu \in {Canvas, None}
BY DEF ChoicesFit, Fits

(* It is enough to look at what a step chooses in the tree that is shown.  *)
LEMMA SameCanvas ==
  ASSUME StoreInv, SameTrees, UNCHANGED activeTreeId
  PROVE  Shown' = Shown /\ (Shown => Active' = Active)
<1>1. Shown => activeTreeId \in Trees /\ Loaded(activeTreeId) BY ActiveOK
<1> QED BY <1>1 DEF SameTrees, Shown, Active

LEMMA ChoicesStep ==
  ASSUME StoreInv, ChoicesFit, SameTrees, UNCHANGED activeTreeId,
         Shown => Fits(selectedNodeId', collapsed', menu', Active),
         ~Shown => selectedNodeId' = None /\ collapsed' = {} /\ menu' \in {Canvas, None}
  PROVE  ChoicesFit'
<1>1. Shown' = Shown /\ (Shown => Active' = Active) BY SameCanvas
<1> QED BY <1>1 DEF ChoicesFit, Fits, Nodes, Parents

(* What frames and executors do changes no choice; the first blueprint is  *)
(* shown before there is any.                                              *)
LEMMA FramesFit ==
  ASSUME StoreInv, ChoicesFit, SameTrees, UNCHANGED <<selection, menu>>,
         UNCHANGED activeTreeId \/ activeTreeId = None
  PROVE  ChoicesFit'
<1>1. UNCHANGED <<selectedNodeId, collapsed>> BY DEF selection
<1>2. CASE UNCHANGED activeTreeId
  BY <1>1, <1>2, ChoicesSay, ChoicesStep
<1>3. CASE activeTreeId = None
  BY <1>1, <1>3 DEF ChoicesFit, Shown
<1> QED BY <1>2, <1>3

(* A click on what is shown.                                               *)
LEMMA ClicksFit ==
  ASSUME StoreInv, ChoicesFit, SameTrees, menu = None, UNCHANGED menu,
         \/ ClickNode \/ Deselect \/ ToggleCollapse \/ DoubleClick
         \/ ToggleCollapseAll \/ CollapseSubtrees
  PROVE  ChoicesFit'
<1>1. Shown => /\ Fits(selectedNodeId, collapsed, menu, Active)
               /\ Parents(Active) \subseteq Nodes(Active)
  BY ChoicesSay, ActiveOK
<1>2. ~Shown => selectedNodeId = None /\ collapsed = {} BY ChoicesSay
<1>3. CASE ClickNode
  <2>1. Shown /\ UNCHANGED <<activeTreeId, collapsed>> /\ selectedNodeId' \in Nodes(Active)
    BY <1>3 DEF ClickNode, Select
  <2> QED BY <1>1, <2>1, ChoicesStep DEF Fits
<1>4. CASE Deselect
  <2>1. UNCHANGED <<activeTreeId, collapsed>> /\ selectedNodeId' = None
    BY <1>4 DEF Deselect, Select
  <2> QED BY <1>1, <1>2, <2>1, ChoicesStep DEF Fits
<1>5. CASE ToggleCollapse \/ DoubleClick
  <2>1. PICK n \in Parents(Active) : ToggleNode(n) BY <1>5 DEF ToggleCollapse, DoubleClick
  <2>2. Shown /\ UNCHANGED activeTreeId
        /\ selectedNodeId' \in {selectedNodeId} \cup Parents(Active)
    BY <1>5 DEF ToggleCollapse, DoubleClick
  <2>3. collapsed' \subseteq collapsed \cup {n} BY <2>1 DEF ToggleNode
  <2> QED BY <1>1, <2>1, <2>2, <2>3, ChoicesStep DEF Fits
<1>6. CASE ToggleCollapseAll \/ CollapseSubtrees
  <2>1. Shown /\ UNCHANGED <<activeTreeId, selectedNodeId>>
    BY <1>6 DEF ToggleCollapseAll, CollapseSubtrees, CollapseTo
  <2>2. collapsed' \subseteq collapsed \cup Parents(Active) \cup Active.subtrees
    BY <1>6 DEF ToggleCollapseAll, CollapseSubtrees, CollapseTo, Collapsible
  <2> QED BY <1>1, <2>1, <2>2, ChoicesStep DEF Fits
<1> QED BY <1>3, <1>4, <1>5, <1>6

(* The menu opens on what is placed, and its items act on the tree it was  *)
(* opened on.                                                              *)
LEMMA MenuFits ==
  ASSUME StoreInv, ChoicesFit, SameTrees,
         \/ OpenMenu \/ CloseMenu \/ MenuSelect \/ MenuToggle
         \/ MenuCollapseAll \/ MenuExpandAll
  PROVE  ChoicesFit'
<1>1. Shown => /\ Fits(selectedNodeId, collapsed, menu, Active)
               /\ Placed \subseteq Nodes(Active) /\ Parents(Active) \subseteq Nodes(Active)
  BY ChoicesSay, ActiveOK
<1>2. ~Shown => selectedNodeId = None /\ collapsed = {} BY ChoicesSay
<1>3. CASE OpenMenu
  <2>1. UNCHANGED <<activeTreeId, selectedNodeId, collapsed>>
        /\ menu' \in {Canvas} \cup IF Shown THEN Placed ELSE {}
    BY <1>3 DEF OpenMenu, selection
  <2> QED BY <1>1, <1>2, <2>1, ChoicesStep DEF Fits
<1>4. CASE CloseMenu
  <2>1. UNCHANGED <<activeTreeId, selectedNodeId, collapsed>> /\ menu' = None
    BY <1>4 DEF CloseMenu, selection
  <2> QED BY <1>1, <1>2, <2>1, ChoicesStep DEF Fits
<1>5. CASE MenuSelect
  <2>1. Shown /\ UNCHANGED <<activeTreeId, collapsed>> /\ menu' = None
        /\ selectedNodeId' \in Nodes(Active)
    BY <1>5 DEF MenuSelect, MenuOfNode, MenuItem, Select
  <2> QED BY <1>1, <2>1, ChoicesStep DEF Fits
<1>6. CASE MenuToggle
  <2>1. Shown /\ UNCHANGED <<activeTreeId, selectedNodeId>> /\ menu' = None
        /\ collapsed' \subseteq collapsed \cup Parents(Active)
    BY <1>6 DEF MenuToggle, MenuOfNode, MenuItem, ToggleNode
  <2> QED BY <1>1, <2>1, ChoicesStep DEF Fits
<1>7. CASE MenuCollapseAll \/ MenuExpandAll
  <2>1. UNCHANGED <<activeTreeId, selectedNodeId>> /\ menu' = None
        /\ collapsed' \subseteq collapsed \cup IF Shown THEN Parents(Active) ELSE {}
    BY <1>7 DEF MenuCollapseAll, MenuExpandAll, MenuOfCanvas, MenuItem, CollapseTo, Collapsible
  <2> QED BY <1>1, <1>2, <2>1, ChoicesStep DEF Fits
<1> QED BY <1>3, <1>4, <1>5, <1>6, <1>7

LEMMA NextChoices ==
  ASSUME StoreInv, announced \subseteq Trees, ChoicesFit, [BtNext]_btVars
  PROVE  ChoicesFit'
<1>1. SameTrees BY NextStore
<1>2. ASSUME NEW t \in Trees, Restart(t) \/ BlueprintFrame(t) \/ DeltaFrame(t)
      PROVE  ChoicesFit'
  <2>1. UNCHANGED <<selection, menu>>
    BY <1>2 DEF Restart, BlueprintFrame, DeltaFrame, page
  <2>2. UNCHANGED activeTreeId \/ activeTreeId = None
    BY <1>2 DEF Restart, BlueprintFrame, DeltaFrame, LoadBlueprint
  <2> QED BY <1>1, <2>1, <2>2, FramesFit
<1>3. CASE BlackboardFrame \/ RealBlackboardFrame
  BY <1>1, <1>3, FramesFit DEF BlackboardFrame, RealBlackboardFrame, page
<1>4. CASE EnterPage \/ LeavePage \/ PauseView
  BY <1>1, <1>4, FramesFit DEF EnterPage, LeavePage, PauseView
<1>5. ASSUME NEW t \in Trees, SetActiveTree(t) PROVE ChoicesFit'
  BY <1>5 DEF SetActiveTree, CanClick, page, ChoicesFit
<1>6. CASE \/ ClickNode \/ Deselect \/ ToggleCollapse \/ DoubleClick
           \/ ToggleCollapseAll \/ CollapseSubtrees
  <2>1. menu = None /\ UNCHANGED menu
    BY <1>6 DEF ClickNode, Deselect, ToggleCollapse, DoubleClick, ToggleCollapseAll,
                CollapseSubtrees, CanClick, page
  <2> QED BY <1>1, <1>6, <2>1, ClicksFit
<1>7. CASE \/ OpenMenu \/ CloseMenu \/ MenuSelect \/ MenuToggle
           \/ MenuCollapseAll \/ MenuExpandAll
  BY <1>1, <1>7, MenuFits
<1>8. CASE UNCHANGED btVars
  BY <1>1, <1>8, FramesFit DEF btVars, page
<1> QED BY <1>2, <1>3, <1>4, <1>5, <1>6, <1>7, <1>8 DEF BtNext

(* What is selected, collapsed or has its menu open is a node of the tree  *)
(* on the canvas: a loaded tree never changes, because all versions are 1, *)
(* and the choices end with the tree they were made in (btStore.ts:44,     *)
(* 111).                                                                   *)
THEOREM ChoicesAreCurrent == BtSpec => []ChoicesFit
<1>1. BtInit => ChoicesFit BY DEF BtInit, ChoicesFit, Shown
<1>2. StoreInv /\ announced \subseteq Trees /\ ChoicesFit /\ [BtNext]_btVars => ChoicesFit'
  BY NextChoices
<1> QED BY <1>1, <1>2, StoreInvariant, PTL DEF BtSpec
=============================================================================
