----------------------------- MODULE BTReplayProofs -----------------------------
(***************************************************************************)
(* The replay, for every log, every position that may be asked for and any *)
(* number of calls: the canvas shows the states before the thread's        *)
(* position, a seek lands where it should, and a pause holds.              *)
(*                                                                         *)
(* The binary search is a recursive function.  That it is one at all, and  *)
(* what it finds, is proved by induction on the length of the interval,    *)
(* stated with sets of numbers: InductiveSet.                              *)
(***************************************************************************)
EXTENDS BTReplay, Integers, SequenceTheorems, WellFoundedInduction, TLAPS

(* After a pause at most the transition that was on its way goes out.      *)
Quiet == /\ late <= 1
         /\ playing => late = 0
         /\ pc = "emit" => late = 0

(* Only a browser that watches can have had every event.                   *)
Watched == synced => watching

(* A seek that was applied has a target.                                   *)
SoughtKnown == pending_seek => sought \in Positions

IInv == TypeOK /\ Quiet /\ Watched /\ SoughtKnown /\ SeekLands /\ CanvasAgrees
-----------------------------------------------------------------------------
(* Sets of natural numbers.                                                *)

LEMMA LeastElement ==
  ASSUME NEW S \in SUBSET Nat, S # {}
  PROVE  \E k \in S : \A m \in S : k <= m
<1>1. PICK R : R = OpToRel(<, Nat) OBVIOUS
<1>2. IsWellFoundedOn(R, Nat) BY <1>1, NatLessThanWellFounded
<1>3. \A x, y \in Nat : x < y => <<x, y>> \in R BY <1>1 DEF OpToRel
<1>4. PICK k \in S : \A m \in S : ~(<<m, k>> \in R) BY <1>2, WFMin
<1>5. \A m \in S : k <= m
  <2> TAKE m \in S
  <2>1. k \in Nat /\ m \in Nat OBVIOUS
  <2>2. ~(m < k) BY <1>3, <1>4, <2>1
  <2> QED BY <2>1, <2>2
<1> QED BY <1>5

LEMMA InductiveSet ==
  ASSUME NEW S, 0 \in S, \A n \in Nat : n \in S => n + 1 \in S
  PROVE  Nat \subseteq S
<1> SUFFICES ASSUME Nat \ S # {} PROVE FALSE OBVIOUS
<1>1. PICK k \in Nat \ S : \A m \in Nat \ S : k <= m BY LeastElement
<1>2. k # 0 /\ k - 1 \in Nat /\ k - 1 \in S BY <1>1
<1> QED BY <1>1, <1>2

LEMMA GreatestElement ==
  ASSUME NEW S \in SUBSET Nat, S # {}, NEW b \in Nat, \A k \in S : k <= b
  PROVE  \E k \in S : \A m \in S : m <= k
<1> DEFINE T == {d \in Nat : b - d \in S}
<1>1. T \in SUBSET Nat /\ T # {}
  <2>1. PICK k \in S : TRUE OBVIOUS
  <2>2. b - k \in Nat /\ b - (b - k) = k BY <2>1
  <2> QED BY <2>1, <2>2
<1>2. PICK d \in T : \A e \in T : d <= e
  <2> HIDE DEF T
  <2> QED BY <1>1, LeastElement
<1>3. ASSUME NEW m \in S PROVE m <= b - d
  <2>1. b - m \in T BY <1>3
  <2> QED BY <2>1, <1>2
<1> QED BY <1>2, <1>3
-----------------------------------------------------------------------------
(* The binary search.                                                      *)

LEMMA LogTyped ==
  /\ Len(Log) \in Nat \ {0}
  /\ \A i \in 1..Len(Log) : Log[i].t \in Nat /\ Log[i].uid \in NodeIds /\ Log[i].state \in Status
<1>1. Log \in Seq([t : Nat, uid : NodeIds, state : Status]) /\ Log # <<>> BY LogAssumption
<1>2. Len(Log) \in Nat BY <1>1, LenProperties
<1>3. Len(Log) # 0 BY <1>1, EmptySeq
<1>4. \A i \in 1..Len(Log) : Log[i] \in [t : Nat, uid : NodeIds, state : Status]
  BY <1>1, ElementOfSeq
<1> QED BY <1>2, <1>3, <1>4

(* One turn of its loop, given the results g from smaller intervals.       *)
Turn(g, target, r) ==
  LET mid == (r[1] + r[2]) \div 2
  IN  IF r[1] >= r[2] THEN r[1]
      ELSE IF Log[mid].t < target THEN g[<<mid + 1, r[2]>>] ELSE g[<<r[1], mid>>]

LEMMA Halves ==
  ASSUME NEW r \in Intervals, r[1] < r[2]
  PROVE  LET mid == (r[1] + r[2]) \div 2
         IN  /\ r[1] <= mid /\ mid < r[2] /\ mid \in 1..Len(Log)
             /\ <<mid + 1, r[2]>> \in Intervals /\ <<r[1], mid>> \in Intervals
BY LogTyped DEF Intervals

(* The recursion is well defined: an interval is longer than its halves.   *)
LEMMA SearchExists ==
  ASSUME NEW target
  PROVE  \E g : g = [r \in Intervals |-> Turn(g, target, r)]
<1> DEFINE Good(g, d) == \A r \in Intervals : r[2] - r[1] <= d => g[r] = Turn(g, target, r)
           Unrolled(g) == [r \in Intervals |-> Turn(g, target, r)]
           S == {d \in Nat : \E g : Good(g, d)}
<1>1. ASSUME NEW g, NEW d \in Nat, Good(g, d), NEW r \in Intervals, r[2] - r[1] <= d + 1
      PROVE  Turn(Unrolled(g), target, r) = Turn(g, target, r)
  <2> DEFINE mid == (r[1] + r[2]) \div 2
             h == Unrolled(g)
  <2>1. CASE r[1] >= r[2] BY <2>1 DEF Turn
  <2>2. CASE r[1] < r[2]
    <3>1. /\ r[1] <= mid /\ mid < r[2] /\ mid \in Int /\ r[1] \in Int /\ r[2] \in Int
          /\ <<mid + 1, r[2]>> \in Intervals /\ <<r[1], mid>> \in Intervals
      BY <2>2, Halves DEF Intervals
    <3> HIDE DEF mid
    <3>2. h[<<mid + 1, r[2]>>] = g[<<mid + 1, r[2]>>] BY <1>1, <3>1
    <3>3. h[<<r[1], mid>>] = g[<<r[1], mid>>] BY <1>1, <3>1
    <3> HIDE DEF h
    <3>4. ~(r[1] >= r[2]) BY <2>2, <3>1
    <3>5. /\ Turn(h, target, r)
               = IF Log[mid].t < target THEN h[<<mid + 1, r[2]>>] ELSE h[<<r[1], mid>>]
          /\ Turn(g, target, r)
               = IF Log[mid].t < target THEN g[<<mid + 1, r[2]>>] ELSE g[<<r[1], mid>>]
      BY <3>4 DEF Turn, mid
    <3>6. Turn(h, target, r) = Turn(g, target, r) BY <3>2, <3>3, <3>5
    <3> QED BY <3>6 DEF h
  <2> QED BY <2>1, <2>2 DEF Intervals
<1>2. 0 \in S
  <2> DEFINE g == [r \in Intervals |-> r[1]]
  <2>1. Good(g, 0) BY DEF Turn, Intervals
  <2> QED BY <2>1
<1>3. ASSUME NEW d \in Nat, d \in S PROVE d + 1 \in S
  <2>1. PICK g : Good(g, d) BY <1>3
  <2>2. Good(Unrolled(g), d + 1) BY <2>1, <1>1
  <2> HIDE DEF Unrolled, Good
  <2> QED BY <2>2
<1>4. Len(Log) \in S
  <2> HIDE DEF S
  <2>1. Nat \subseteq S BY <1>2, <1>3, InductiveSet
  <2> QED BY <2>1, LogTyped
<1>5. PICK g : Good(g, Len(Log)) BY <1>4
<1>6. ASSUME NEW r \in Intervals PROVE Turn(Unrolled(g), target, r) = Turn(g, target, r)
  <2>1. r[2] - r[1] <= Len(Log) + 1 BY LogTyped DEF Intervals
  <2> QED BY <2>1, <1>1, <1>5, LogTyped
<1>7. Unrolled(g) = [r \in Intervals |-> Turn(Unrolled(g), target, r)] BY <1>6
<1> QED BY <1>7

LEMMA SearchTurns ==
  ASSUME NEW target
  PROVE  \A r \in Intervals : BinarySearch(target)[r] = Turn(BinarySearch(target), target, r)
<1> DEFINE f == BinarySearch(target)
<1>1. f = CHOOSE g : g = [r \in Intervals |-> Turn(g, target, r)] BY DEF BinarySearch, Turn
<1> HIDE DEF f
<1>2. f = [r \in Intervals |-> Turn(f, target, r)] BY <1>1, SearchExists
<1>3. ASSUME NEW r \in Intervals PROVE f[r] = Turn(f, target, r)
  <2> DEFINE h == [x \in Intervals |-> Turn(f, target, x)]
  <2>1. h[r] = Turn(f, target, r) OBVIOUS
  <2> HIDE DEF h
  <2>2. f = h BY <1>2 DEF h
  <2> QED BY <2>1, <2>2
<1> QED BY <1>3 DEF f

(* From r the search ends in r; what r has before its result is before the *)
(* target, and the result is not, unless r ends there.                     *)
Finds(target, r) ==
  LET k == BinarySearch(target)[r]
  IN  /\ k \in r[1]..r[2]
      /\ \A i \in r[1]..(k - 1) : Log[i].t < target
      /\ Log[k].t >= target \/ k = r[2]

LEMMA SearchFinds ==
  ASSUME NEW target \in Nat, NEW r \in Intervals, r[1] <= r[2]
  PROVE  Finds(target, r)
<1> DEFINE S == {d \in Nat : \A x \in Intervals :
                               x[1] <= x[2] /\ x[2] - x[1] <= d => Finds(target, x)}
<1>1. ASSUME NEW x \in Intervals, x[1] = x[2] PROVE Finds(target, x)
  <2>1. x[1] >= x[2] /\ x[1] \in 1..Len(Log) /\ x[2] \in 1..Len(Log) BY <1>1 DEF Intervals
  <2>2. BinarySearch(target)[x] = Turn(BinarySearch(target), target, x) BY SearchTurns
  <2>3. BinarySearch(target)[x] = x[1] BY <2>1, <2>2 DEF Turn
  <2> QED BY <2>1, <2>3, <1>1 DEF Finds
<1>2. 0 \in S BY <1>1 DEF Intervals
<1>3. ASSUME NEW d \in Nat, d \in S PROVE d + 1 \in S
  <2> SUFFICES ASSUME NEW x \in Intervals, x[1] < x[2], x[2] - x[1] <= d + 1
               PROVE  Finds(target, x)
    BY <1>1 DEF Intervals
  <2> DEFINE mid == (x[1] + x[2]) \div 2
             up == <<mid + 1, x[2]>>
             down == <<x[1], mid>>
             k == BinarySearch(target)[x]
  <2>1. /\ x[1] <= mid /\ mid < x[2] /\ mid \in 1..Len(Log)
        /\ x[1] \in 1..Len(Log) /\ x[2] \in 1..Len(Log)
        /\ up \in Intervals /\ down \in Intervals
    BY Halves DEF Intervals
  <2>2. k = IF Log[mid].t < target THEN BinarySearch(target)[up] ELSE BinarySearch(target)[down]
    <3>1. k = Turn(BinarySearch(target), target, x) BY SearchTurns
    <3>2. ~(x[1] >= x[2]) BY <2>1
    <3> QED BY <3>1, <3>2 DEF Turn
  <2>3. up[1] = mid + 1 /\ up[2] = x[2] /\ down[1] = x[1] /\ down[2] = mid OBVIOUS
  <2> HIDE DEF mid, up, down, k
  <2>4. CASE Log[mid].t < target
    <3>1. Finds(target, up) BY <1>3, <2>1, <2>3
    <3>2. k = BinarySearch(target)[up] BY <2>2, <2>4
    <3>3. /\ k \in (mid + 1)..x[2]
          /\ \A i \in (mid + 1)..(k - 1) : Log[i].t < target
          /\ Log[k].t >= target \/ k = x[2]
      BY <3>1, <3>2, <2>3 DEF Finds
    <3>4. ASSUME NEW i \in x[1]..mid PROVE Log[i].t < target
      <4>1. i \in 1..Len(Log) /\ (i < mid \/ i = mid) BY <2>1
      <4>2. Log[i].t <= Log[mid].t BY <4>1, <2>1, LogTyped, LogAssumption
      <4> QED BY <4>1, <4>2, <2>1, <2>4, LogTyped
    <3>5. k \in x[1]..x[2] BY <3>3, <2>1
    <3>6. \A i \in x[1]..(k - 1) : i \in x[1]..mid \/ i \in (mid + 1)..(k - 1) BY <3>3, <2>1
    <3> QED BY <3>3, <3>4, <3>5, <3>6 DEF Finds, k
  <2>5. CASE ~(Log[mid].t < target)
    <3>1. Finds(target, down) BY <1>3, <2>1, <2>3
    <3>2. k = BinarySearch(target)[down] BY <2>2, <2>5
    <3>3. /\ k \in x[1]..mid
          /\ \A i \in x[1]..(k - 1) : Log[i].t < target
          /\ Log[k].t >= target \/ k = mid
      BY <3>1, <3>2, <2>3 DEF Finds
    <3>4. Log[mid].t >= target BY <2>1, <2>5, LogTyped
    <3>5. k \in x[1]..x[2] BY <3>3, <2>1
    <3> QED BY <3>3, <3>4, <3>5 DEF Finds, k
  <2> QED BY <2>4, <2>5
<1>4. r[2] - r[1] \in S
  <2>1. r[2] - r[1] \in Nat BY DEF Intervals
  <2> HIDE DEF S
  <2>2. Nat \subseteq S BY <1>2, <1>3, InductiveSet
  <2> QED BY <2>1, <2>2
<1> QED BY <1>4 DEF Intervals

(* A seek lands on the first transition at or after the position asked     *)
(* for, or on the last one (_seek_index, bt_replay.py:155-165).            *)
LEMMA SeekFinds ==
  ASSUME NEW p \in Nat
  PROVE  /\ SeekIndex(p) \in 1..Len(Log)
         /\ \A k \in 1..(SeekIndex(p) - 1) : Log[k].t < Log[1].t + p
         /\ Log[SeekIndex(p)].t >= Log[1].t + p \/ SeekIndex(p) = Len(Log)
<1> DEFINE r == <<1, Len(Log)>>
<1>1. Log[1].t + p \in Nat /\ r \in Intervals /\ r[1] = 1 /\ r[2] = Len(Log) /\ r[1] <= r[2]
  BY LogTyped DEF Intervals
<1>2. SeekIndex(p) = BinarySearch(Log[1].t + p)[r] BY DEF SeekIndex
<1> HIDE DEF r
<1>3. Finds(Log[1].t + p, r) BY <1>1, SearchFinds
<1> QED BY <1>1, <1>2, <1>3 DEF Finds
-----------------------------------------------------------------------------
(* The last transition of a node before a position.                        *)

LEMMA LatestIs ==
  ASSUME NEW n, NEW i \in Nat, Earlier(n, i) # {}
  PROVE  Latest(n, i) \in Earlier(n, i) /\ \A m \in Earlier(n, i) : m <= Latest(n, i)
<1>1. Earlier(n, i) \in SUBSET Nat /\ \A k \in Earlier(n, i) : k <= i BY DEF Earlier
<1>2. \E k \in Earlier(n, i) : \A m \in Earlier(n, i) : m <= k BY <1>1, GreatestElement
<1> QED BY <1>2 DEF Latest

LEMMA LatestOfNext ==
  ASSUME NEW i \in 1..Len(Log)
  PROVE  /\ Earlier(Log[i].uid, i + 1) # {} /\ Latest(Log[i].uid, i + 1) = i
         /\ \A n : n # Log[i].uid => Earlier(n, i + 1) = Earlier(n, i)
<1> DEFINE n == Log[i].uid
<1>1. i \in Nat BY LogTyped
<1>2. i \in Earlier(n, i + 1) /\ \A m \in Earlier(n, i + 1) : m <= i BY <1>1 DEF Earlier
<1>3. Latest(n, i + 1) \in Earlier(n, i + 1) /\ Latest(n, i + 1) >= i
  BY <1>1, <1>2, LatestIs
<1>4. Latest(n, i + 1) = i BY <1>1, <1>2, <1>3 DEF Earlier
<1>5. \A x : x # n => Earlier(x, i + 1) = Earlier(x, i) BY <1>1 DEF Earlier
<1> QED BY <1>2, <1>4, <1>5

LEMMA SnapshotTyped ==
  ASSUME NEW i \in 1..(Len(Log) + 1)
  PROVE  /\ DOMAIN Snapshot(i) = {n \in CoreNodes : Earlier(n, i) # {}}
         /\ \A n \in DOMAIN Snapshot(i) : /\ Snapshot(i)[n] = Log[Latest(n, i)].state
                                         /\ Snapshot(i)[n] \in Status
<1>1. i \in Nat BY LogTyped
<1>2. ASSUME NEW n \in CoreNodes, Earlier(n, i) # {}
      PROVE  Log[Latest(n, i)].state \in Status
  <2>1. Latest(n, i) \in 1..(i - 1) BY <1>1, <1>2, LatestIs DEF Earlier
  <2> QED BY <2>1, <1>1, LogTyped
<1> QED BY <1>2 DEF Snapshot
-----------------------------------------------------------------------------
(* The browser's tree.                                                     *)

LEMMA Loading ==
  ASSUME NEW t \in TreeState \cup {NoTree}
  PROVE  /\ loadBlueprint(t, 1) \in TreeState
         /\ t \in TreeState => loadBlueprint(t, 1) = t
BY StoreAssumption DEF loadBlueprint, TreeState, Status

LEMMA Delta ==
  ASSUME NEW t \in TreeState, NEW id \in NodeIds, NEW state \in Status
  PROVE  /\ applyDelta(t, id, state) \in TreeState
         /\ applyDelta(t, id, state).statusById[id] = state
         /\ \A n \in NodeIds : n # id =>
              applyDelta(t, id, state).statusById[n] = t.statusById[n]
<1>1. t # NoTree BY StoreAssumption
<1>2. applyDelta(t, id, state) = [t EXCEPT !.statusById = [t.statusById EXCEPT ![id] = state]]
  BY <1>1 DEF applyDelta
<1> QED BY <1>2 DEF TreeState

LEMMA Deltas ==
  ASSUME NEW t \in TreeState, NEW final, \A n \in DOMAIN final : final[n] \in Status
  PROVE  /\ applyDeltas(t, final) \in TreeState
         /\ \A n \in NodeIds : applyDeltas(t, final).statusById[n]
                               = IF n \in DOMAIN final THEN final[n] ELSE t.statusById[n]
<1> DEFINE shown == [n \in NodeIds |-> IF n \in DOMAIN final THEN final[n] ELSE t.statusById[n]]
<1>1. t # NoTree BY StoreAssumption
<1>2. applyDeltas(t, final) = [t EXCEPT !.statusById = shown] BY <1>1 DEF applyDeltas
<1>3. shown \in [NodeIds -> Status] BY DEF TreeState
<1>4. \A n \in NodeIds : shown[n] = IF n \in DOMAIN final THEN final[n] ELSE t.statusById[n] OBVIOUS
<1> HIDE DEF shown
<1> QED BY <1>2, <1>3, <1>4 DEF TreeState
-----------------------------------------------------------------------------
LEMMA InitIInv == Init => IInv
<1> SUFFICES ASSUME Init PROVE IInv OBVIOUS
<1>0. running \in BOOLEAN /\ playing \in BOOLEAN /\ wakeup \in BOOLEAN /\ pending_seek \in BOOLEAN
      /\ watching \in BOOLEAN /\ synced \in BOOLEAN
  BY DEF Init
<1>1. TypeOK BY <1>0, LogTyped, ControlAssumption DEF Init, TypeOK
<1>2. Quiet BY DEF Init, Quiet
<1>3. ~pending_seek /\ ~synced BY DEF Init
<1> QED BY <1>1, <1>2, <1>3 DEF IInv, Watched, SoughtKnown, SeekLands, CanvasAgrees

(* A step that leaves the position, and the canvas of a browser that has   *)
(* had everything.                                                         *)
Elsewhere == /\ UNCHANGED <<idx, pending_seek, sought, watching, synced>>
             /\ synced => tree' = tree

LEMMA CanvasStays ==
  ASSUME IInv, Elsewhere
  PROVE  Watched' /\ SoughtKnown' /\ SeekLands' /\ CanvasAgrees'
<1>1. \A n, i : Earlier(n, i)' = Earlier(n, i) /\ Latest(n, i)' = Latest(n, i)
  BY DEF Earlier, Latest
<1> QED BY <1>1 DEF IInv, Elsewhere, Watched, SoughtKnown, SeekLands, CanvasAgrees

(* The control API.                                                        *)
LEMMA ControlSafe ==
  ASSUME IInv, ControlNext
  PROVE  IInv'
<1> USE DEF IInv, Elsewhere, TypeOK, Quiet, fields, thread, browser
<1>1. Elsewhere
  BY DEF ControlNext, Play, Pause, Seek, SetSpeed, Stop, SetWakeup, Call
<1>2. TypeOK' /\ Quiet'
  <2>1. CASE Play BY <2>1, ControlAssumption DEF Play, Call
  <2>2. CASE Pause
    <3>0. playing' \in BOOLEAN BY <2>2 DEF Pause
    <3>1. TypeOK' BY <3>0, <2>2, ControlAssumption DEF Pause, Call
    <3>2. Quiet' BY <2>2 DEF Pause, Call
    <3> QED BY <3>1, <3>2
  <2>3. CASE Seek BY <2>3, ControlAssumption DEF Seek, Call
  <2>4. CASE SetSpeed BY <2>4, ControlAssumption DEF SetSpeed, Call
  <2>5. CASE Stop
    <3>0. running' \in BOOLEAN BY <2>5 DEF Stop
    <3>1. TypeOK' BY <3>0, <2>5 DEF Stop
    <3>2. Quiet' BY <2>5 DEF Stop
    <3> QED BY <3>1, <3>2
  <2>6. CASE SetWakeup BY <2>6 DEF SetWakeup
  <2> QED BY <2>1, <2>2, <2>3, <2>4, <2>5, <2>6 DEF ControlNext
<1> QED BY <1>1, <1>2, CanvasStays

(* A blueprint that is sent again changes the canvas of nobody who has had *)
(* everything.                                                             *)
LEMMA Rebroadcast ==
  ASSUME TypeOK, CanvasAgrees, Sees(loadBlueprint(tree, 1)), UNCHANGED <<watching, synced>>
  PROVE  tree' \in TreeState \cup {NoTree} /\ (synced => tree' = tree)
<1>1. tree \in TreeState \cup {NoTree} BY DEF TypeOK
<1>2. synced => tree \in TreeState BY <1>1 DEF CanvasAgrees
<1> QED BY <1>1, <1>2, Loading DEF Sees

(* The thread, but for the three steps that move it.                       *)
LEMMA ThreadElsewhere ==
  ASSUME IInv,
         \/ LeaveOuter \/ TestInner \/ ReadSeek \/ Body \/ Slept \/ Woken \/ ClearWakeup
         \/ After \/ Complete \/ KeepAlive \/ TestResume \/ Resume
  PROVE  IInv'
<1>1. TypeOK /\ Quiet /\ CanvasAgrees BY DEF IInv
<1>2. UNCHANGED <<idx, pending_seek, sought, watching, synced>>
  BY DEF LeaveOuter, TestInner, ReadSeek, Body, Slept, Woken, ClearWakeup, After, Complete,
         KeepAlive, TestResume, Resume, browser
<1>3. UNCHANGED tree \/ Sees(loadBlueprint(tree, 1))
  BY DEF LeaveOuter, TestInner, ReadSeek, Body, Slept, Woken, ClearWakeup, After, Complete,
         KeepAlive, TestResume, Resume, browser
<1>4. tree' \in TreeState \cup {NoTree} /\ (synced => tree' = tree)
  BY <1>1, <1>2, <1>3, Rebroadcast DEF TypeOK
<1>5. wakeup' \in BOOLEAN /\ playing' \in BOOLEAN
  BY <1>1 DEF LeaveOuter, TestInner, ReadSeek, Body, Slept, Woken, ClearWakeup, After, Complete,
              KeepAlive, TestResume, Resume, fields, TypeOK
<1> DEFINE Goal == TypeOK' /\ Quiet'
<1> USE DEF TypeOK, Quiet, fields, Goto
<1>6. ASSUME LeaveOuter PROVE Goal BY <1>1, <1>2, <1>4, <1>5, <1>6 DEF LeaveOuter
<1>7. ASSUME TestInner PROVE Goal BY <1>1, <1>2, <1>4, <1>5, <1>7 DEF TestInner
<1>8. ASSUME ReadSeek PROVE Goal BY <1>1, <1>2, <1>4, <1>5, <1>8 DEF ReadSeek
<1>9. ASSUME Body PROVE Goal BY <1>1, <1>2, <1>4, <1>5, <1>9 DEF Body
<1>10. ASSUME Slept PROVE Goal BY <1>1, <1>2, <1>4, <1>5, <1>10 DEF Slept
<1>11. ASSUME Woken PROVE Goal BY <1>1, <1>2, <1>4, <1>5, <1>11 DEF Woken
<1>12. ASSUME ClearWakeup PROVE Goal BY <1>1, <1>2, <1>4, <1>5, <1>12 DEF ClearWakeup
<1>13. ASSUME After PROVE Goal BY <1>1, <1>2, <1>4, <1>5, <1>13 DEF After
<1>14. ASSUME Complete PROVE Goal BY <1>1, <1>2, <1>4, <1>5, <1>14 DEF Complete
<1>15. ASSUME KeepAlive PROVE Goal BY <1>1, <1>2, <1>4, <1>5, <1>15 DEF KeepAlive
<1>16. ASSUME TestResume PROVE Goal BY <1>1, <1>2, <1>4, <1>5, <1>16 DEF TestResume
<1>17. ASSUME Resume PROVE Goal BY <1>1, <1>2, <1>4, <1>5, <1>17 DEF Resume
<1> HIDE DEF TypeOK, Quiet
<1>18. TypeOK' /\ Quiet'
  BY <1>6, <1>7, <1>8, <1>9, <1>10, <1>11, <1>12, <1>13, <1>14, <1>15, <1>16, <1>17
<1>19. Elsewhere BY <1>2, <1>4 DEF Elsewhere
<1> QED BY <1>18, <1>19, CanvasStays DEF IInv

(* Playback starts over.                                                   *)
LEMMA StartOverSafe == ASSUME IInv, StartOver PROVE IInv'
<1> USE DEF IInv, StartOver, fields
<1>1. tree' \in TreeState \cup {NoTree} /\ (synced' => tree' # NoTree)
  BY Loading, StoreAssumption DEF Sees, TypeOK
<1>2. pending_seek' = FALSE /\ pending_seek' \in BOOLEAN OBVIOUS
<1>3. TypeOK' BY <1>1, <1>2, LogTyped DEF TypeOK
<1>4. Quiet' /\ Watched' BY DEF Quiet, Watched
<1>5. SoughtKnown' /\ SeekLands' BY <1>2 DEF SoughtKnown, SeekLands
<1>6. \A n : Earlier(n, idx)' = {} BY DEF Earlier
<1>7. CanvasAgrees' BY <1>1, <1>6 DEF CanvasAgrees
<1> QED BY <1>3, <1>4, <1>5, <1>7

(* A seek is applied.                                                      *)
LEMMA FoldSeekSafe == ASSUME IInv, FoldSeek PROVE IInv'
<1> USE DEF IInv, fields
<1>1. seek_target \in Positions /\ seek_target \in Nat
  BY ControlAssumption DEF TypeOK, FoldSeek, Goto
<1>2. idx' = SeekIndex(seek_target) /\ idx' \in 1..Len(Log)
  BY <1>1, SeekFinds DEF FoldSeek
<1> DEFINE t == loadBlueprint(tree, 1)
<1>3. t \in TreeState BY Loading DEF TypeOK
<1>4. \A n \in DOMAIN Snapshot(idx') : Snapshot(idx')[n] \in Status
  <2> DEFINE i == idx'
  <2>1. i \in 1..(Len(Log) + 1) BY <1>2, LogTyped
  <2> HIDE DEF i
  <2>2. \A n \in DOMAIN Snapshot(i) : Snapshot(i)[n] \in Status BY <2>1, SnapshotTyped
  <2> QED BY <2>2 DEF i
<1> HIDE DEF t
<1>5. /\ applyDeltas(t, Snapshot(idx')) \in TreeState
      /\ \A n \in NodeIds : applyDeltas(t, Snapshot(idx')).statusById[n]
           = IF n \in DOMAIN Snapshot(idx') THEN Snapshot(idx')[n] ELSE t.statusById[n]
  BY <1>3, <1>4, Deltas
<1>6. tree' = IF watching THEN applyDeltas(t, Snapshot(idx')) ELSE tree
  BY DEF FoldSeek, Sees, t
<1>7. TypeOK'
  <2>1. pending_seek' \in BOOLEAN BY DEF FoldSeek
  <2> QED BY <1>1, <1>2, <1>5, <1>6, <2>1, LogTyped DEF TypeOK, FoldSeek, Goto
<1>8. Quiet' /\ Watched' BY DEF Quiet, Watched, FoldSeek, Goto
<1>9. SoughtKnown' /\ SeekLands'
  BY <1>1, <1>2, SeekFinds DEF SoughtKnown, SeekLands, FoldSeek
<1>10. CanvasAgrees'
  <2> SUFFICES ASSUME synced', NEW n \in CoreNodes, Earlier(n, idx') # {}
               PROVE  tree' # NoTree /\ tree'.statusById[n] = Log[Latest(n, idx')].state
    <3>1. CASE synced'
      <4>1. tree' # NoTree BY <3>1, <1>5, <1>6, StoreAssumption DEF FoldSeek
      <4> QED BY <3>1, <4>1 DEF CanvasAgrees, Earlier, Latest
    <3> QED BY <3>1 DEF CanvasAgrees
  <2>1. tree' = applyDeltas(t, Snapshot(idx')) BY <1>6 DEF FoldSeek
  <2>2. n \in DOMAIN Snapshot(idx') /\ Snapshot(idx')[n] = Log[Latest(n, idx')].state
    <3> DEFINE i == idx'
    <3>1. i \in 1..(Len(Log) + 1) /\ n \in CoreNodes /\ Earlier(n, i) # {} BY <1>2, LogTyped
    <3> HIDE DEF i
    <3>2. n \in DOMAIN Snapshot(i) /\ Snapshot(i)[n] = Log[Latest(n, i)].state
      BY <3>1, SnapshotTyped
    <3> QED BY <3>2 DEF i
  <2> QED BY <2>1, <2>2, <1>5, StoreAssumption DEF NodeIds
<1> QED BY <1>7, <1>8, <1>9, <1>10

(* A transition goes out.                                                  *)
LEMMA EmitSafe == ASSUME IInv, Emit PROVE IInv'
<1> USE DEF IInv, fields
<1>1. idx \in 1..Len(Log) /\ idx' = idx + 1 BY LogTyped DEF Emit, TypeOK
<1> DEFINE u == Log[idx].uid
           v == Log[idx].state
           t == applyDelta(tree, u, v)
<1>2. u \in NodeIds /\ v \in Status BY <1>1, LogTyped
<1> HIDE DEF u, v
<1>3. tree' = IF watching THEN t ELSE tree BY DEF Emit, Sees, u, v
<1>4. tree = NoTree => t = NoTree BY DEF applyDelta
<1>5. tree \in TreeState => /\ t \in TreeState /\ t.statusById[u] = v
                            /\ \A n \in NodeIds : n # u => t.statusById[n] = tree.statusById[n]
  BY <1>2, Delta
<1> HIDE DEF t
<1>6. tree' \in TreeState \cup {NoTree} BY <1>3, <1>4, <1>5 DEF TypeOK
<1>7. TypeOK'
  <2>1. pending_seek' \in BOOLEAN BY DEF Emit
  <2> QED BY <1>1, <1>6, <2>1, LogTyped DEF TypeOK, Emit
<1>8. Quiet' /\ Watched' BY DEF Quiet, Watched, Emit, TypeOK
<1>9. SoughtKnown' /\ SeekLands' BY DEF SoughtKnown, SeekLands, Emit
<1>10. CanvasAgrees'
  <2> SUFFICES ASSUME synced' PROVE CanvasAgrees' BY DEF CanvasAgrees
  <2>1. synced /\ watching BY DEF Emit, Watched
  <2>2. tree \in TreeState BY <2>1 DEF TypeOK, CanvasAgrees
  <2>3. tree' = t /\ tree' # NoTree BY <1>3, <1>5, <2>1, <2>2, StoreAssumption
  <2>4. ASSUME NEW n \in CoreNodes, Earlier(n, idx') # {}
        PROVE  tree'.statusById[n] = Log[Latest(n, idx')].state
    <3>1. CASE n = u
      <4>1. Latest(n, idx') = idx BY <3>1, <1>1, LatestOfNext DEF u
      <4> QED BY <4>1, <3>1, <2>2, <2>3, <1>5 DEF v
    <3>2. CASE n # u
      <4>1. Earlier(n, idx') = Earlier(n, idx) BY <3>2, <1>1, LatestOfNext DEF u
      <4>2. Latest(n, idx') = Latest(n, idx) BY <4>1 DEF Latest
      <4>3. tree.statusById[n] = Log[Latest(n, idx)].state
        BY <2>1, <2>4, <4>1 DEF CanvasAgrees
      <4> QED BY <3>2, <4>2, <4>3, <2>2, <2>3, <1>5 DEF NodeIds
    <3> QED BY <3>1, <3>2
  <2> QED BY <2>3, <2>4 DEF CanvasAgrees, Earlier, Latest
<1> QED BY <1>7, <1>8, <1>9, <1>10

LEMMA BrowserOpensSafe == ASSUME IInv, BrowserOpens PROVE IInv'
<1> USE DEF IInv, BrowserOpens, fields, thread
<1>1. watching' \in BOOLEAN OBVIOUS
<1>2. TypeOK' BY <1>1 DEF TypeOK
<1>3. ~synced' BY DEF Watched
<1>4. Quiet' /\ Watched' /\ SoughtKnown' /\ SeekLands' /\ CanvasAgrees'
  BY <1>3 DEF Quiet, Watched, SoughtKnown, SeekLands, CanvasAgrees
<1> QED BY <1>2, <1>4

LEMMA Invariant == Spec => []IInv
<1>1. IInv /\ [Next]_vars => IInv'
  <2> SUFFICES ASSUME IInv, [Next]_vars PROVE IInv' OBVIOUS
  <2>1. CASE ControlNext BY <2>1, ControlSafe
  <2>2. CASE StartOver BY <2>2, StartOverSafe
  <2>3. CASE FoldSeek BY <2>3, FoldSeekSafe
  <2>4. CASE Emit BY <2>4, EmitSafe
  <2>5. CASE \/ LeaveOuter \/ TestInner \/ ReadSeek \/ Body \/ Slept \/ Woken \/ ClearWakeup
             \/ After \/ Complete \/ KeepAlive \/ TestResume \/ Resume
    BY <2>5, ThreadElsewhere
  <2>6. CASE BrowserOpens BY <2>6, BrowserOpensSafe
  <2>7. CASE UNCHANGED vars
    <3>1. Elsewhere BY <2>7 DEF vars, thread, browser, Elsewhere
    <3>2. TypeOK' /\ Quiet'
      BY <2>7 DEF IInv, TypeOK, Quiet, vars, fields, thread, browser
    <3> QED BY <3>1, <3>2, CanvasStays DEF IInv
  <2> QED BY <2>1, <2>2, <2>3, <2>4, <2>5, <2>6, <2>7 DEF Next, ThreadNext
<1> QED BY <1>1, InitIInv, PTL DEF Spec
-----------------------------------------------------------------------------
(* The types; in particular the thread never reads past the log, whatever  *)
(* is sought and whenever playback starts over (bt_replay.py:225-331).     *)
THEOREM TypeCorrect == Spec => []TypeOK
<1>1. IInv => TypeOK BY DEF IInv
<1> QED BY <1>1, Invariant, PTL

(* A browser that has had everything since a start or a seek shows the     *)
(* states before the thread's position (bt_replay.py:167-198, 268-292).    *)
THEOREM CanvasIsRight == Spec => []CanvasAgrees
<1>1. IInv => CanvasAgrees BY DEF IInv
<1> QED BY <1>1, Invariant, PTL

(* A seek resumes at the first transition at or after the position asked   *)
(* for, or at the last one (bt_replay.py:155-165, 228-247).                *)
THEOREM SeekIsRight == Spec => []SeekLands
<1>1. IInv => SeekLands BY DEF IInv
<1> QED BY <1>1, Invariant, PTL

(* After a pause at most one more transition goes out                      *)
(* (bt_replay.py:258-292).                                                 *)
THEOREM PauseIsKept == Spec => []PauseHolds
<1>1. IInv => PauseHolds BY DEF IInv, Quiet, PauseHolds
<1> QED BY <1>1, Invariant, PTL
=============================================================================
