------------------------------ MODULE PagesProofs ------------------------------
(***************************************************************************)
(* The event log, the telemetry chart and the graph scene: three pages of  *)
(* one shell, which share no state.                                        *)
(*                                                                         *)
(* Of the log: its types and its three invariants, for every set of frames, *)
(* of capacities and every size of the list.  NewestKept needs that the    *)
(* capacity is positive; LogsWhileMounted needs that the flag of           *)
(* initEventLog is set exactly while the shell is mounted (Flagged);       *)
(* FollowsTail needs that no console outlives the shell (Flagged), which   *)
(* resizes the buffer when it mounts, and the types, for a line count is a *)
(* number only if the buffer is a finite sequence.                         *)
(*                                                                         *)
(* Of the chart's lines, for all topics, blackboards, windows, lags and    *)
(* numbers of points: what is proved of one line's data is the same        *)
(* whatever series come and go, because data moves by label.  The          *)
(* strengthening (ChartInv) is that all ages are at least the lag, so that *)
(* a new point is the youngest, and that lines of one label have one data, *)
(* so that rebuilding them cannot exchange it.                             *)
(*                                                                         *)
(* Of the scene, for all graphs, caps and flight times: the scene shows the *)
(* page's graph or nothing while nothing that would change that is dirty   *)
(* (GraphShown, Emptied, SameVis), and the page has no graph while the     *)
(* bridge is away (Bridged).  Of the particles, a set closed under every   *)
(* spawn (Bounded): within the cap, or not more than before, or all frozen *)
(* but one.  That a run of spawns and a sequence put together from         *)
(* sequences have a value at all is proved by induction on their length,   *)
(* which InductiveSet gives for a set of numbers.                          *)
(***************************************************************************)
EXTENDS EventLog, TelemetryChart, GraphScene, SequenceTheorems,
        FiniteSetTheorems, WellFoundedInduction, TLAPS

(* Sets of numbers: the least, the greatest, induction.                    *)

LEMMA LeastElement ==
  ASSUME NEW S \in SUBSET Nat, S # {}
  PROVE  Min(S) \in S /\ \E k \in S : \A m \in S : k <= m
<1>1. PICK R : R = OpToRel(<, Nat) OBVIOUS
<1>2. IsWellFoundedOn(R, Nat) BY <1>1, NatLessThanWellFounded
<1>3. \A a, b \in Nat : a < b => <<a, b>> \in R BY <1>1 DEF OpToRel
<1>4. PICK x \in S : \A y \in S : ~(<<y, x>> \in R) BY <1>2, WFMin
<1>5. \A y \in S : x <= y
  <2> TAKE y \in S
  <2>1. x \in Nat /\ y \in Nat OBVIOUS
  <2>2. ~(y < x) BY <1>3, <1>4, <2>1
  <2> QED BY <2>1, <2>2
<1> QED BY <1>5 DEF Min

LEMMA InductiveSet ==
  ASSUME NEW S, 0 \in S, \A n \in Nat : n \in S => n + 1 \in S
  PROVE  Nat \subseteq S
<1> SUFFICES ASSUME Nat \ S # {} PROVE FALSE OBVIOUS
<1>1. PICK k \in Nat \ S : \A m \in Nat \ S : k <= m BY LeastElement
<1>2. k # 0 /\ k - 1 \in Nat /\ k - 1 \in S BY <1>1
<1> QED BY <1>1, <1>2

LEMMA MaxIs ==
  ASSUME NEW S \in SUBSET Nat, S # {}, NEW b \in Nat, \A k \in S : k <= b
  PROVE  Max(S) \in S /\ \A m \in S : m <= Max(S)
<1> DEFINE T == {d \in Nat : b - d \in S}
<1>1. T \in SUBSET Nat /\ T # {}
  <2>1. PICK k \in S : TRUE OBVIOUS
  <2>2. b - k \in Nat /\ b - (b - k) = k BY <2>1
  <2> QED BY <2>1, <2>2
<1>2. PICK d \in T : \A e \in T : d <= e
  <2> HIDE DEF T
  <2> QED BY <1>1, LeastElement
<1>3. ASSUME NEW m \in S PROVE b - d >= m
  <2>1. b - m \in T BY <1>3
  <2> QED BY <2>1, <1>2
<1>4. \E x \in S : \A m \in S : x >= m BY <1>2, <1>3
<1>5. Max(S) \in S /\ \A m \in S : Max(S) >= m BY <1>4 DEF Max
<1> QED BY <1>5
-----------------------------------------------------------------------------
Flagged == /\ attached = shell
           /\ console.open => shell

LogInv == LogTypeOK /\ NewestKept /\ Flagged /\ LogsWhileMounted /\ FollowsTail
-----------------------------------------------------------------------------
(* Trim keeps the newest cap elements, and Overflow counts the others.     *)
LEMMA TrimKeeps ==
  ASSUME NEW S, NEW s \in Seq(S), NEW cap \in Nat \ {0}
  PROVE  /\ Trim(s, cap) \in Seq(S)
         /\ Overflow(s, cap) \in Nat
         /\ Len(Trim(s, cap)) <= cap
         /\ Len(Trim(s, cap)) + Overflow(s, cap) = Len(s)
         /\ \A i \in 1..Len(Trim(s, cap)) : Trim(s, cap)[i] = s[i + Overflow(s, cap)]
<1>0. Len(s) \in Nat BY LenProperties
<1>1. CASE Len(s) > cap
  <2> DEFINE m == Len(s) - cap + 1
  <2>1. m \in 1..Len(s) /\ m <= Len(s) BY <1>0, <1>1
  <2>2. /\ SubSeq(s, m, Len(s)) \in Seq(S)
        /\ Len(SubSeq(s, m, Len(s))) = cap
        /\ \A i \in 1..cap : SubSeq(s, m, Len(s))[i] = s[m + i - 1]
    BY <1>0, <1>1, <2>1, SubSeqProperties
  <2>3. \A i \in 1..cap : m + i - 1 = i + (Len(s) - cap) BY <1>0, <2>1
  <2>4. Trim(s, cap) = SubSeq(s, m, Len(s)) /\ Overflow(s, cap) = Len(s) - cap
    BY <1>1 DEF Trim, Overflow
  <2> HIDE DEF m
  <2>5. \A i \in 1..cap : Trim(s, cap)[i] = s[i + Overflow(s, cap)]
    BY <2>2, <2>3, <2>4
  <2>6. Len(Trim(s, cap)) = cap /\ Overflow(s, cap) \in Nat BY <1>0, <1>1, <2>2, <2>4
  <2>7. Len(Trim(s, cap)) <= cap /\ Len(Trim(s, cap)) + Overflow(s, cap) = Len(s)
    <3>1. Len(Trim(s, cap)) = cap /\ Overflow(s, cap) = Len(s) - cap BY <2>4, <2>6
    <3> QED BY ONLY <1>0, <3>1, cap \in Nat \ {0}
  <2> QED BY <2>2, <2>4, <2>5, <2>6, <2>7
<1>2. CASE ~(Len(s) > cap)
  BY <1>0, <1>2 DEF Trim, Overflow
<1> QED BY <1>1, <1>2

(* A buffer that is the newest part of what was logged stays so when it is *)
(* trimmed and the trimmed part is counted.                                *)
LEMMA KeptThrough ==
  ASSUME NEW s \in Seq(Entry), NEW all \in Seq(Entry), NEW gone \in Nat,
         NEW cap \in Nat \ {0},
         Len(s) + gone = Len(all),
         \A i \in 1..Len(s) : s[i] = all[i + gone]
  PROVE  /\ Len(Trim(s, cap)) <= cap
         /\ Len(Trim(s, cap)) + (gone + Overflow(s, cap)) = Len(all)
         /\ \A i \in 1..Len(Trim(s, cap)) :
              Trim(s, cap)[i] = all[i + (gone + Overflow(s, cap))]
<1> DEFINE t == Trim(s, cap)  o == Overflow(s, cap)
<1>1. /\ t \in Seq(Entry) /\ o \in Nat /\ Len(t) <= cap /\ Len(t) + o = Len(s)
      /\ \A i \in 1..Len(t) : t[i] = s[i + o]
  BY TrimKeeps
<1>2. Len(s) \in Nat /\ Len(t) \in Nat /\ Len(all) \in Nat BY <1>1, LenProperties
<1> HIDE DEF t, o
<1>3. ASSUME NEW i \in 1..Len(t) PROVE t[i] = all[i + (gone + o)]
  <2>1. i + o \in 1..Len(s) BY <1>1, <1>2
  <2>2. (i + o) + gone = i + (gone + o) BY <1>1, <1>2
  <2> QED BY <1>1, <2>1, <2>2
<1>4. Len(t) + (gone + o) = Len(all)
  <2>1. Len(t) + o = Len(s) /\ Len(s) + gone = Len(all) /\ o \in Nat /\ gone \in Nat
    BY <1>1
  <2> QED BY ONLY <1>2, <2>1
<1> QED BY <1>1, <1>3, <1>4 DEF t, o

(* The number of lines the console shows is a number.                      *)
LEMMA TotalNat ==
  ASSUME NEW es \in Seq(Entry), NEW c
  PROVE  Total(es, c) \in Nat
<1> DEFINE shown == {i \in DOMAIN es : Passes(es[i], c)}
<1>1. DOMAIN es = 1..Len(es) /\ Len(es) \in Nat BY LenProperties
<1>2. IsFiniteSet(1..Len(es)) BY <1>1, FS_Interval
<1>3. IsFiniteSet(shown) BY <1>1, <1>2, FS_Subset
<1> QED BY <1>3, FS_CardinalityType DEF Total

(* The types and FollowsTail, of a console c over n lines.                 *)
Following(c, n) == c.autoScroll /\ ~c.scrolled => AtBottom(n, c.top)

(* A list moved to its end leaves nothing hidden; one moved elsewhere has  *)
(* its scroll event to come.                                               *)
LEMMA MovedFollowing ==
  ASSUME NEW c \in ConsoleState, NEW n \in Nat, NEW t \in Nat,
         t = Bottom(n) \/ Following(c, n)
  PROVE  MovedTo(c, t) \in ConsoleState /\ Following(MovedTo(c, t), n)
<1>1. MovedTo(c, t) \in ConsoleState BY DEF MovedTo, ConsoleState
<1>2. /\ MovedTo(c, t).top = t
      /\ MovedTo(c, t).autoScroll = c.autoScroll
      /\ MovedTo(c, t).scrolled = (c.scrolled \/ t # c.top)
  BY DEF MovedTo, ConsoleState
<1>3. CASE t = Bottom(n)
  <2>1. AtBottom(n, t) BY <1>3, EventLogAssumption DEF AtBottom, Bottom
  <2> QED BY <1>1, <1>2, <2>1 DEF Following
<1>4. CASE Following(c, n) BY <1>1, <1>2, <1>4 DEF Following
<1> QED BY <1>3, <1>4

(* The end of the list is a position.                                      *)
LEMMA BottomNat == \A n \in Nat : Bottom(n) \in Nat
BY EventLogAssumption DEF Bottom

(* A render keeps a list that follows at its end, though its effect runs   *)
(* only when the number of lines changed.                                  *)
LEMMA RenderedFollowing ==
  ASSUME NEW c \in ConsoleState, NEW before \in Int, NEW now \in Nat,
         before = now => Following(c, before)
  PROVE  Rendered(c, before, now) \in ConsoleState /\ Following(Rendered(c, before, now), now)
<1>1. CASE c.top > Bottom(now) \/ (c.autoScroll /\ before # now)
  BY <1>1, BottomNat, MovedFollowing DEF Rendered
<1>2. CASE ~(c.top > Bottom(now) \/ (c.autoScroll /\ before # now))
  BY <1>2 DEF Rendered, Following
<1> QED BY <1>1, <1>2
-----------------------------------------------------------------------------
(* What each kind of step does to the parts of the invariant.              *)

ConsoleFollows == console.open => Following(console, Total(entries, console))

StoreTypes == /\ entries \in Seq(Entry) /\ logged \in Seq(Entry)
              /\ maxEntries \in Nat \ {0} /\ dropped \in Nat

(* The parts of LogInv that concern the console, for any console.            *)
LEMMA ConsoleInv ==
  ASSUME console \in ConsoleState \cup {NoConsole}
  PROVE  FollowsTail <=> ConsoleFollows
<1>1. CASE console = NoConsole BY <1>1 DEF NoConsole, FollowsTail, ConsoleFollows
<1>2. CASE console \in ConsoleState
  BY <1>2 DEF ConsoleState, FollowsTail, ConsoleFollows, Following
<1> QED BY <1>1, <1>2

(* SetMaxEntries keeps the store's part.                                   *)
LEMMA SetMaxKeeps ==
  ASSUME StoreTypes, NewestKept, NEW n \in Nat \ {0}, SetMaxEntries(n)
  PROVE  StoreTypes' /\ NewestKept'
<1>1. /\ Len(entries) + dropped = Len(logged)
      /\ \A i \in 1..Len(entries) : entries[i] = logged[i + dropped]
  BY LenProperties DEF NewestKept, StoreTypes
<1>2. /\ maxEntries' = n /\ logged' = logged
      /\ entries' = Trim(entries, n) /\ dropped' = dropped + Overflow(entries, n)
  BY DEF SetMaxEntries
<1>3. /\ Len(entries') <= n
      /\ Len(entries') + dropped' = Len(logged)
      /\ \A i \in 1..Len(entries') : entries'[i] = logged[i + dropped']
  BY <1>1, <1>2, KeptThrough DEF StoreTypes
<1>4. entries' \in Seq(Entry) /\ Overflow(entries, n) \in Nat
  BY <1>2, TrimKeeps DEF StoreTypes
<1>5. StoreTypes' BY <1>2, <1>4 DEF StoreTypes
<1>6. DOMAIN entries' = 1..Len(entries') BY <1>4, LenProperties
<1> QED BY <1>2, <1>3, <1>5, <1>6 DEF NewestKept

(* So does taking an entry.                                                *)
LEMMA TakeKeeps ==
  ASSUME StoreTypes, NewestKept, NEW e \in Entry, Take(e), maxEntries' = maxEntries
  PROVE  StoreTypes' /\ NewestKept'
<1> DEFINE longer == Append(entries, e)  all == Append(logged, e)
<1>1. /\ longer \in Seq(Entry) /\ Len(longer) = Len(entries) + 1
      /\ \A i \in 1..Len(entries) : longer[i] = entries[i]
      /\ longer[Len(entries) + 1] = e
  BY AppendProperties DEF StoreTypes
<1>2. /\ all \in Seq(Entry) /\ Len(all) = Len(logged) + 1
      /\ \A i \in 1..Len(logged) : all[i] = logged[i]
      /\ all[Len(logged) + 1] = e
  BY AppendProperties DEF StoreTypes
<1>3. /\ Len(entries) \in Nat /\ Len(logged) \in Nat
      /\ Len(entries) + dropped = Len(logged)
      /\ \A i \in 1..Len(entries) : entries[i] = logged[i + dropped]
  BY LenProperties DEF NewestKept, StoreTypes
<1>4. entries' = Trim(longer, maxEntries) /\ logged' = all
      /\ dropped' = dropped + Overflow(longer, maxEntries)
  BY DEF Take
<1> HIDE DEF longer, all
<1>5. Len(longer) + dropped = Len(all)
  <2>1. /\ Len(longer) = Len(entries) + 1 /\ Len(all) = Len(logged) + 1
        /\ Len(entries) + dropped = Len(logged)
        /\ Len(entries) \in Nat /\ Len(logged) \in Nat /\ dropped \in Nat
    BY <1>1, <1>2, <1>3 DEF StoreTypes
  <2> QED BY ONLY <2>1
<1>6. ASSUME NEW i \in 1..Len(longer) PROVE longer[i] = all[i + dropped]
  <2>1. CASE i \in 1..Len(entries)
    <3>1. i + dropped \in 1..Len(logged) BY <1>3, <2>1 DEF StoreTypes
    <3> QED BY <1>1, <1>2, <1>3, <2>1, <3>1
  <2>2. CASE i = Len(entries) + 1
    <3>1. i + dropped = Len(logged) + 1 BY <1>3, <2>2 DEF StoreTypes
    <3> QED BY <1>1, <1>2, <2>2, <3>1
  <2> QED BY <1>1, <1>3, <2>1, <2>2
<1>7. /\ Len(entries') <= maxEntries
      /\ Len(entries') + dropped' = Len(all)
      /\ \A i \in 1..Len(entries') : entries'[i] = all[i + dropped']
  <2>1. dropped \in Nat /\ maxEntries \in Nat \ {0} BY DEF StoreTypes
  <2>2. /\ Len(Trim(longer, maxEntries)) <= maxEntries
        /\ Len(Trim(longer, maxEntries)) + (dropped + Overflow(longer, maxEntries)) = Len(all)
        /\ \A i \in 1..Len(Trim(longer, maxEntries)) :
             Trim(longer, maxEntries)[i] = all[i + (dropped + Overflow(longer, maxEntries))]
    <3>1. longer \in Seq(Entry) /\ all \in Seq(Entry) BY <1>1, <1>2
    <3> QED BY ONLY <1>5, <1>6, <2>1, <3>1, KeptThrough
  <2> QED BY <1>4, <2>2
<1>8. entries' \in Seq(Entry) /\ Overflow(longer, maxEntries) \in Nat
  BY <1>1, <1>4, TrimKeeps DEF StoreTypes
<1>9. StoreTypes' BY <1>2, <1>4, <1>8 DEF StoreTypes
<1>10. DOMAIN entries' = 1..Len(entries') BY <1>8, LenProperties
<1> QED BY <1>4, <1>7, <1>9, <1>10 DEF NewestKept

(* A redraw after any change of the entries keeps the console's part.      *)
LEMMA RedrawKeeps ==
  ASSUME entries \in Seq(Entry), entries' \in Seq(Entry),
         console \in ConsoleState \cup {NoConsole}, ConsoleFollows, Redraw
  PROVE  console' \in ConsoleState \cup {NoConsole} /\ ConsoleFollows'
<1>1. CASE console = NoConsole
  BY <1>1 DEF NoConsole, Redraw, ConsoleFollows
<1>2. CASE console \in ConsoleState
  <2> DEFINE before == Total(entries, console)  now == Total(entries', console)
  <2>1. console.open BY <1>2 DEF ConsoleState
  <2>2. before \in Nat /\ now \in Nat BY TotalNat
  <2>3. console' = Rendered(console, before, now) BY <2>1 DEF Redraw
  <2>4. Following(console, before) BY <2>1 DEF ConsoleFollows
  <2> HIDE DEF before, now
  <2>5. console' \in ConsoleState /\ Following(console', now)
    BY <1>2, <2>2, <2>3, <2>4, RenderedFollowing
  <2>6. /\ console'.levels = console.levels /\ console'.sources = console.sources
        /\ console'.query = console.query
    BY <1>2, <2>3 DEF Rendered, MovedTo, ConsoleState
  <2>7. Total(entries', console') = now BY <2>6 DEF now, Total, Passes
  <2> QED BY <2>5, <2>7 DEF ConsoleFollows
<1> QED BY <1>1, <1>2
(* A logged frame makes an entry.                                          *)
LEMMA EntryOfFrame ==
  ASSUME NEW f \in Frames, Loggable(f), seq \in 0..MaxFrames, seq < MaxFrames
  PROVE  Normalise(f) \in Entry
<1>1. SourceOf[f.type] \in SourceNames BY DEF Loggable, SourceOf, SourceNames
<1>2. f.level \in LevelNames /\ f.hit \in BOOLEAN BY EventLogAssumption DEF FrameOK
<1>3. LevelOf(f) \in LevelNames BY <1>2 DEF LevelOf, LevelNames
<1>4. seq + 1 \in 1..MaxFrames BY EventLogAssumption
<1> QED BY <1>1, <1>2, <1>3, <1>4 DEF Normalise, Entry

(* A user's step in the console: the buffer and the wiring stay.           *)
LEMMA ConsoleStep ==
  ASSUME LogInv, UNCHANGED <<logStore, wiring, setting>>,
         console' \in ConsoleState \cup {NoConsole}, ConsoleFollows',
         console'.open => console.open \/ shell
  PROVE  LogInv'
<1>1. LogTypeOK' BY DEF LogInv, LogTypeOK, logStore, wiring
<1>2. NewestKept' BY DEF LogInv, NewestKept, logStore
<1>3. Flagged' /\ LogsWhileMounted' BY DEF LogInv, Flagged, LogsWhileMounted, logStore, wiring
<1>4. FollowsTail'
  <2>1. CASE console' = NoConsole BY <2>1 DEF NoConsole, FollowsTail
  <2>2. CASE console' \in ConsoleState
    BY <2>2 DEF ConsoleState, FollowsTail, ConsoleFollows, Following
  <2> QED BY <2>1, <2>2
<1> QED BY <1>1, <1>2, <1>3, <1>4 DEF LogInv

(* A step without the console: FollowsTail speaks of an open one.          *)
LEMMA Unopened ==
  ASSUME console' = NoConsole
  PROVE  FollowsTail' /\ console' \in ConsoleState \cup {NoConsole}
BY DEF NoConsole, FollowsTail

(* Nothing is mounted, nothing logged.                                     *)
LEMMA InitLog == LogInit => LogInv
<1> SUFFICES ASSUME LogInit PROVE LogInv OBVIOUS
<1>1. LogTypeOK
  <2>1. entries \in Seq(Entry) /\ logged \in Seq(Entry) BY EmptySeq DEF LogInit
  <2>2. maxEntries \in Nat \ {0} /\ seq \in 0..MaxFrames BY EventLogAssumption DEF LogInit
  <2> QED BY <2>1, <2>2 DEF LogInit, LogTypeOK
<1>2. NewestKept BY EventLogAssumption DEF LogInit, NewestKept
<1>3. Flagged /\ LogsWhileMounted BY DEF LogInit, Flagged, LogsWhileMounted, NoConsole
<1>4. FollowsTail BY DEF LogInit, FollowsTail, NoConsole
<1> QED BY <1>1, <1>2, <1>3, <1>4 DEF LogInv

(* Every step keeps the invariant.                                         *)
LEMMA NextLog == LogInv /\ [LogNext]_logVars => LogInv'
<1> SUFFICES ASSUME LogInv, [LogNext]_logVars PROVE LogInv' OBVIOUS
<1>a. StoreTypes /\ NewestKept /\ Flagged /\ LogsWhileMounted
  BY DEF LogInv, LogTypeOK, StoreTypes
<1>b. /\ seq \in 0..MaxFrames /\ attached \in BOOLEAN /\ listening \in Nat /\ shell \in BOOLEAN
      /\ setting \in [cap : Caps, capture : BOOLEAN]
      /\ console \in ConsoleState \cup {NoConsole}
  BY DEF LogInv, LogTypeOK
<1>c. ConsoleFollows BY <1>b, ConsoleInv DEF LogInv
<1>d. setting.cap \in Nat \ {0} BY <1>b, EventLogAssumption
<1>e. console.open => console \in ConsoleState BY <1>b DEF NoConsole
<1>f. entries \in Seq(Entry) BY <1>a DEF StoreTypes
<1>g. Total(entries, console) \in Nat BY <1>f, TotalNat
<1>1. CASE ShellMounts
  <2>1. StoreTypes' /\ NewestKept' BY <1>a, <1>d, <1>1, SetMaxKeeps DEF ShellMounts
  <2>2. Flagged' /\ LogsWhileMounted'
    BY <1>a, <1>1 DEF ShellMounts, InitEventLog, SetMaxEntries, Flagged, LogsWhileMounted
  <2>3. LogTypeOK'
    <3>1. attached' \in BOOLEAN /\ listening' \in Nat /\ shell' \in BOOLEAN
      <4>1. attached = FALSE /\ shell' = TRUE /\ InitEventLog
        BY <1>a, <1>b, <1>1 DEF ShellMounts, Flagged
      <4>2. attached' = TRUE /\ listening' = listening + 1 BY <4>1 DEF InitEventLog
      <4> QED BY <1>b, <4>1, <4>2
    <3>2. UNCHANGED <<seq, setting, console>> BY <1>1 DEF ShellMounts, SetMaxEntries
    <3> QED BY <1>b, <2>1, <3>1, <3>2 DEF LogTypeOK, StoreTypes
  <2>4. FollowsTail' BY <1>a, <1>1 DEF ShellMounts, Flagged, FollowsTail
  <2> QED BY <2>1, <2>2, <2>3, <2>4 DEF LogInv
<1>2. CASE ShellUnmounts
  <2>1. FollowsTail' /\ console' \in ConsoleState \cup {NoConsole}
    BY <1>2, Unopened DEF ShellUnmounts
  <2>2. Flagged' BY <1>2 DEF ShellUnmounts, Flagged, NoConsole
  <2>3. listening = 1 BY <1>a, <1>2 DEF ShellUnmounts, LogsWhileMounted
  <2>4. LogsWhileMounted' /\ listening' \in Nat
    BY <1>2, <2>3 DEF ShellUnmounts, LogsWhileMounted
  <2>5. StoreTypes' /\ NewestKept'
    BY <1>a, <1>2 DEF ShellUnmounts, logStore, StoreTypes, NewestKept
  <2>6. LogTypeOK'
    BY <1>b, <1>2, <2>1, <2>4, <2>5 DEF ShellUnmounts, logStore, LogTypeOK, StoreTypes
  <2> QED BY <2>1, <2>2, <2>4, <2>5, <2>6 DEF LogInv
<1>3. ASSUME NEW f \in Frames, LogFrame(f) PROVE LogInv'
  <2>1. StoreTypes' /\ NewestKept'
    <3>1. CASE Loggable(f)
      <4>1. Normalise(f) \in Entry BY <1>b, <1>3, <3>1, EntryOfFrame DEF LogFrame
      <4>2. Take(Normalise(f)) /\ maxEntries' = maxEntries BY <1>3, <3>1 DEF LogFrame
      <4> QED BY <1>a, <4>1, <4>2, TakeKeeps
    <3>2. CASE ~Loggable(f)
      <4>1. UNCHANGED <<entries, dropped, logged, maxEntries>> BY <1>3, <3>2 DEF LogFrame
      <4> QED BY <1>a, <4>1 DEF StoreTypes, NewestKept
    <3> QED BY <3>1, <3>2
  <2>2. console' \in ConsoleState \cup {NoConsole} /\ ConsoleFollows'
    BY <1>b, <1>c, <1>f, <1>3, <2>1, RedrawKeeps DEF LogFrame, StoreTypes
  <2>3. console'.open = console.open
    BY <1>b, <1>3 DEF LogFrame, Redraw, Rendered, MovedTo, ConsoleState
  <2>4. Flagged' /\ LogsWhileMounted'
    BY <1>a, <1>3, <2>3 DEF LogFrame, wiring, Flagged, LogsWhileMounted
  <2>5. seq' \in 0..MaxFrames BY <1>b, <1>3, EventLogAssumption DEF LogFrame
  <2>6. LogTypeOK'
    BY <1>b, <1>3, <2>1, <2>2, <2>5 DEF LogFrame, wiring, LogTypeOK, StoreTypes
  <2>7. FollowsTail' BY <2>2 DEF FollowsTail, ConsoleFollows, Following
  <2> QED BY <2>1, <2>4, <2>6, <2>7 DEF LogInv
<1>4. CASE ChooseCap \/ ToggleCapture \/ ResetSettings
  <2>1. PICK s \in [cap : Caps, capture : BOOLEAN] : ChangeSetting(s)
    BY <1>b, <1>4, EventLogAssumption DEF ChooseCap, ToggleCapture, ResetSettings
  <2>2. s.cap \in Nat \ {0} BY EventLogAssumption
  <2>3. StoreTypes' /\ NewestKept' BY <1>a, <2>1, <2>2, SetMaxKeeps DEF ChangeSetting
  <2>4. Flagged' /\ LogsWhileMounted'
    BY <1>a, <2>1 DEF ChangeSetting, SetMaxEntries, wiring, Flagged, LogsWhileMounted
  <2>5. LogTypeOK'
    BY <1>b, <2>1, <2>3 DEF ChangeSetting, SetMaxEntries, wiring, LogTypeOK, StoreTypes
  <2>6. FollowsTail' BY <2>1 DEF ChangeSetting, FollowsTail
  <2> QED BY <2>3, <2>4, <2>5, <2>6 DEF LogInv
<1>5. CASE OpenConsole
  <2> DEFINE fresh == [open |-> TRUE, levels |-> LevelNames,
                       sources |-> SourceNames \ {"topic"}, query |-> FALSE,
                       top |-> 0, autoScroll |-> TRUE, scrolled |-> FALSE]
             now == Total(entries, [levels |-> LevelNames, query |-> FALSE,
                                    sources |-> SourceNames \ {"topic"}])
  <2>1. fresh \in ConsoleState BY DEF ConsoleState
  <2>2. now \in Nat BY <1>f, TotalNat
  <2>3. console' = Rendered(fresh, -1, now) BY <1>5 DEF OpenConsole
  <2>4. console' \in ConsoleState /\ Following(console', now)
    <3> HIDE DEF fresh, now
    <3>1. -1 \in Int /\ -1 # now BY <2>2
    <3> QED BY <2>1, <2>2, <2>3, <3>1, RenderedFollowing
  <2>5. /\ console'.levels = LevelNames /\ console'.sources = SourceNames \ {"topic"}
        /\ console'.query = FALSE
    BY <2>3 DEF Rendered, MovedTo
  <2>6. Total(entries, console') = now BY <2>5 DEF Total, Passes
  <2>7. UNCHANGED <<logStore, wiring, setting>> /\ shell BY <1>5 DEF OpenConsole
  <2>8. ConsoleFollows' BY <2>4, <2>6, <2>7 DEF ConsoleFollows, logStore
  <2> QED BY <2>4, <2>7, <2>8, ConsoleStep
<1>6. CASE LeaveConsole
  <2>1. UNCHANGED <<logStore, wiring, setting>> /\ console' = NoConsole
    BY <1>6 DEF LeaveConsole
  <2> QED BY <2>1, ConsoleStep DEF NoConsole, ConsoleFollows
<1>7. CASE Clear
  <2>1. StoreTypes' /\ NewestKept'
    BY <1>a, <1>7 DEF Clear, StoreTypes, NewestKept
  <2>2. console' \in ConsoleState \cup {NoConsole} /\ ConsoleFollows'
    BY <1>b, <1>c, <1>f, <1>7, <2>1, RedrawKeeps DEF Clear, StoreTypes
  <2>3. shell BY <1>a, <1>7 DEF Clear, Flagged
  <2>4. Flagged' /\ LogsWhileMounted'
    BY <1>a, <1>7, <2>3 DEF Clear, wiring, Flagged, LogsWhileMounted
  <2>5. LogTypeOK' BY <1>b, <1>7, <2>1, <2>2 DEF Clear, wiring, LogTypeOK, StoreTypes
  <2>6. FollowsTail' BY <2>2 DEF FollowsTail, ConsoleFollows, Following
  <2> QED BY <2>1, <2>4, <2>5, <2>6 DEF LogInv
<1>8. CASE ChangeFilter
  <2>1. PICK c \in ConsoleState :
          /\ console' = Rendered(c, Total(entries, console), Total(entries, c))
          /\ c.top = console.top /\ c.autoScroll = console.autoScroll
          /\ c.scrolled = console.scrolled
    <3>0. console \in ConsoleState BY <1>e, <1>8 DEF ChangeFilter
    <3>1. ASSUME NEW f \in Frames PROVE LevelOf(f) \in LevelNames
      BY EventLogAssumption DEF FrameOK, LevelOf, LevelNames
    <3>2. ASSUME NEW f \in Frames, f.type \in DOMAIN SourceOf
          PROVE  SourceOf[f.type] \in SourceNames
      BY <3>2 DEF SourceOf, SourceNames
    <3>3. CASE \E f \in Frames : FilterBy([console EXCEPT !.levels = Toggle(@, LevelOf(f))])
      <4>1. PICK f \in Frames : FilterBy([console EXCEPT !.levels = Toggle(@, LevelOf(f))])
        BY <3>3
      <4> DEFINE c == [console EXCEPT !.levels = Toggle(@, LevelOf(f))]
      <4>2. /\ c \in ConsoleState /\ c.top = console.top
            /\ c.autoScroll = console.autoScroll /\ c.scrolled = console.scrolled
        BY <3>0, <3>1 DEF ConsoleState, Toggle
      <4> QED BY <4>1, <4>2 DEF FilterBy
    <3>4. CASE \E f \in {g \in Frames : g.type \in DOMAIN SourceOf} :
                 FilterBy([console EXCEPT !.sources = Toggle(@, SourceOf[f.type])])
      <4>1. PICK f \in {g \in Frames : g.type \in DOMAIN SourceOf} :
              FilterBy([console EXCEPT !.sources = Toggle(@, SourceOf[f.type])])
        BY <3>4
      <4> DEFINE c == [console EXCEPT !.sources = Toggle(@, SourceOf[f.type])]
      <4>2. /\ c \in ConsoleState /\ c.top = console.top
            /\ c.autoScroll = console.autoScroll /\ c.scrolled = console.scrolled
        BY <3>0, <3>2 DEF ConsoleState, Toggle
      <4> QED BY <4>1, <4>2 DEF FilterBy
    <3>5. CASE FilterBy([console EXCEPT !.query = ~@])
      <4> DEFINE c == [console EXCEPT !.query = ~@]
      <4>1. /\ c \in ConsoleState /\ c.top = console.top
            /\ c.autoScroll = console.autoScroll /\ c.scrolled = console.scrolled
        BY <3>0 DEF ConsoleState
      <4> QED BY <3>5, <4>1 DEF FilterBy
    <3> QED BY <1>8, <3>3, <3>4, <3>5 DEF ChangeFilter
  <2> DEFINE before == Total(entries, console)  now == Total(entries, c)
  <2>2. now \in Nat BY <1>f, TotalNat
  <2>3. Following(c, before) BY <1>c, <1>8, <2>1 DEF ChangeFilter, ConsoleFollows, Following
  <2>4. console' \in ConsoleState /\ Following(console', now)
    <3> HIDE DEF before, now
    <3> QED BY <1>g, <2>1, <2>2, <2>3, RenderedFollowing DEF before, now
  <2>5. /\ console'.levels = c.levels /\ console'.sources = c.sources /\ console'.query = c.query
    BY <2>1 DEF Rendered, MovedTo, ConsoleState
  <2>6. Total(entries, console') = now BY <2>5 DEF Total, Passes
  <2>7. UNCHANGED <<logStore, wiring, setting>> BY <1>8 DEF ChangeFilter
  <2>8. ConsoleFollows' BY <2>4, <2>6, <2>7 DEF ConsoleFollows, logStore
  <2>9. console.open BY <1>8 DEF ChangeFilter
  <2> QED BY <2>4, <2>7, <2>8, <2>9, ConsoleStep
<1>9. CASE Scroll
  <2>0. console \in ConsoleState BY <1>e, <1>9 DEF Scroll
  <2>1. PICK t \in 0..Bottom(Total(entries, console)) : console' = MovedTo(console, t)
    BY <1>9 DEF Scroll
  <2>2. t \in Nat BY <1>g, BottomNat
  <2>3. console' \in ConsoleState BY <2>0, <2>1, <2>2 DEF MovedTo, ConsoleState
  <2>4. /\ console'.levels = console.levels /\ console'.sources = console.sources
        /\ console'.query = console.query
    BY <2>0, <2>1 DEF MovedTo, ConsoleState
  <2>5. Total(entries, console') = Total(entries, console) BY <2>4 DEF Total, Passes
  <2>6. Following(console, Total(entries, console)) BY <1>c, <1>9 DEF Scroll, ConsoleFollows
  <2>7. Following(console', Total(entries, console))
    BY <2>0, <2>1, <2>6 DEF MovedTo, ConsoleState, Following
  <2>8. UNCHANGED <<logStore, wiring, setting>> /\ console.open BY <1>9 DEF Scroll
  <2>9. ConsoleFollows' BY <2>5, <2>7, <2>8 DEF ConsoleFollows, logStore
  <2> QED BY <2>3, <2>8, <2>9, ConsoleStep
<1>10. CASE OnScroll
  <2>0. console \in ConsoleState BY <1>e, <1>10 DEF OnScroll
  <2> DEFINE n == Total(entries, console)
             c == [console EXCEPT !.scrolled = FALSE,
                                  !.autoScroll = AtBottom(n, console.top)]
  <2>1. console' = IF c.autoScroll /\ ~console.autoScroll THEN MovedTo(c, Bottom(n)) ELSE c
    BY <1>10 DEF OnScroll
  <2>2. c \in ConsoleState /\ Following(c, n)
    <3>1. /\ c \in ConsoleState /\ c.top = console.top
          /\ c.autoScroll = AtBottom(n, console.top)
      <4>1. AtBottom(n, console.top) \in BOOLEAN BY DEF AtBottom
      <4> HIDE DEF n
      <4> QED BY <2>0, <4>1 DEF ConsoleState
    <3> HIDE DEF n, c
    <3> QED BY <3>1 DEF Following
  <2>3. /\ console'.levels = console.levels /\ console'.sources = console.sources
        /\ console'.query = console.query
    BY <2>0, <2>1 DEF MovedTo, ConsoleState
  <2>4. Total(entries, console') = n BY <2>3 DEF Total, Passes
  <2>5. console' \in ConsoleState /\ Following(console', n)
    <3> HIDE DEF n, c
    <3>1. n \in Nat /\ Bottom(n) \in Nat BY <1>g, BottomNat DEF n
    <3> QED BY <2>1, <2>2, <3>1, MovedFollowing
  <2>6. UNCHANGED <<logStore, wiring, setting>> /\ console.open BY <1>10 DEF OnScroll
  <2>7. ConsoleFollows' BY <2>4, <2>5, <2>6 DEF ConsoleFollows, logStore
  <2> QED BY <2>5, <2>6, <2>7, ConsoleStep
<1>11. CASE JumpToLive
  <2>0. console \in ConsoleState BY <1>e, <1>11 DEF JumpToLive
  <2> DEFINE n == Total(entries, console)  moved == MovedTo(console, Bottom(n))
  <2>1. console' = [moved EXCEPT !.autoScroll = TRUE] BY <1>11 DEF JumpToLive
  <2>2. n \in Nat /\ Bottom(n) \in Nat BY <1>g, BottomNat
  <2>3. moved \in ConsoleState /\ moved.top = Bottom(n) BY <2>0, <2>2 DEF MovedTo, ConsoleState
  <2>4. console' \in ConsoleState /\ console'.top = Bottom(n)
    <3> HIDE DEF moved
    <3> QED BY <2>1, <2>3 DEF ConsoleState
  <2>5. Following(console', n)
    <3> HIDE DEF n
    <3> QED BY <2>2, <2>4 DEF Following, AtBottom
  <2>6. /\ console'.levels = console.levels /\ console'.sources = console.sources
        /\ console'.query = console.query
    BY <2>0, <2>1 DEF MovedTo, ConsoleState
  <2>7. Total(entries, console') = n BY <2>6 DEF Total, Passes
  <2>8. UNCHANGED <<logStore, wiring, setting>> /\ console.open BY <1>11 DEF JumpToLive
  <2>9. ConsoleFollows' BY <2>5, <2>7, <2>8 DEF ConsoleFollows, logStore
  <2> QED BY <2>4, <2>8, <2>9, ConsoleStep
<1>12. CASE UNCHANGED logVars
  BY <1>12 DEF logVars, logStore, wiring, LogInv, LogTypeOK, NewestKept, Flagged,
               LogsWhileMounted, FollowsTail
<1> QED
  BY <1>1, <1>2, <1>3, <1>4, <1>5, <1>6, <1>7, <1>8, <1>9, <1>10, <1>11, <1>12 DEF LogNext
-----------------------------------------------------------------------------
LEMMA LogInvariant == LogSpec => []LogInv
BY InitLog, NextLog, PTL DEF LogSpec

(* The types of the log (eventLogStore.ts, AppShell.tsx, Logging.tsx).     *)
THEOREM TypeCorrect == LogSpec => []LogTypeOK
<1>1. LogInv => LogTypeOK BY DEF LogInv
<1> QED BY <1>1, LogInvariant, PTL

(* The buffer is the newest part of what was taken, and the count of the   *)
(* dropped lines is exact (eventLogStore.ts:47-54, 108-113).               *)
THEOREM KeepsNewest == LogSpec => []NewestKept
<1>1. LogInv => NewestKept BY DEF LogInv
<1> QED BY <1>1, LogInvariant, PTL

(* One listener while the shell is mounted, none otherwise, and the        *)
(* capacity the user chose (AppShell.tsx:25-50).                           *)
THEOREM LogsOnce == LogSpec => []LogsWhileMounted
<1>1. LogInv => LogsWhileMounted BY DEF LogInv
<1> QED BY <1>1, LogInvariant, PTL

(* A console that follows shows the newest lines (Logging.tsx:89-94).      *)
THEOREM Follows == LogSpec => []FollowsTail
<1>1. LogInv => FollowsTail BY DEF LogInv
<1> QED BY <1>1, LogInvariant, PTL
-----------------------------------------------------------------------------
(* The chart.                                                              *)

Points(l) == [of : {l}, age : Lag..Oldest]
Ordered(data) == \A i, j \in 1..Len(data) : i <= j => data[i].age >= data[j].age
Good(l, data) == data \in Seq(Points(l)) /\ Ordered(data)

Lines == \A i \in DOMAIN datasets : Good(datasets[i].label, datasets[i].data)
Alike == \A i, j \in DOMAIN datasets :
           datasets[i].label = datasets[j].label => datasets[i].data = datasets[j].data

Shaped == \A i \in DOMAIN datasets :
            datasets[i] = [label |-> datasets[i].label, axis |-> datasets[i].axis,
                           data |-> datasets[i].data]

ChartInv == Lines /\ Alike /\ Shaped

(* No line of datasets' is shorter than that of the same label before.     *)
Longer == \A d \in Range(datasets), e \in Range(datasets') :
            d.label = e.label => Len(d.data) <= Len(e.data)
-----------------------------------------------------------------------------
(* What the four operations on data do to a line.                          *)

LEMMA Bounds == Lag \in 0..Oldest /\ Oldest \in Nat /\ Window \in Nat \ {0}
BY TelemetryAssumption DEF Oldest

LEMMA EmptyGood == \A l : Good(l, <<>>)
BY DEF Good, Ordered

LEMMA PushGood ==
  ASSUME NEW l, NEW data, Good(l, data)
  PROVE  /\ Good(l, Append(data, [of |-> l, age |-> Lag]))
         /\ Len(Append(data, [of |-> l, age |-> Lag])) = Len(data) + 1
<1> DEFINE p == [of |-> l, age |-> Lag]
           new == Append(data, p)
<1>1. p \in Points(l) /\ p.age = Lag BY Bounds DEF Points
<1>2. data \in Seq(Points(l)) BY DEF Good
<1> HIDE DEF p
<1>3. /\ new \in Seq(Points(l)) /\ Len(new) = Len(data) + 1 /\ Len(data) \in Nat
      /\ \A i \in 1..Len(data) : new[i] = data[i]
      /\ new[Len(data) + 1] = p
  BY <1>1, <1>2, AppendProperties, LenProperties
<1>4. \A i \in 1..Len(data) : data[i].age \in Lag..Oldest
  <2>1. \A i \in 1..Len(data) : data[i] \in Points(l) BY <1>2, ElementOfSeq
  <2> QED BY <2>1 DEF Points
<1>5. Ordered(new)
  <2> SUFFICES ASSUME NEW i \in 1..Len(new), NEW j \in 1..Len(new), i <= j
               PROVE  new[i].age >= new[j].age
    BY DEF Ordered
  <2> HIDE DEF new
  <2>1. CASE j <= Len(data) BY <2>1, <1>3 DEF Good, Ordered
  <2>2. CASE j = Len(data) + 1 /\ i = j BY <2>2, <1>1, <1>3, Bounds
  <2>3. CASE j = Len(data) + 1 /\ i <= Len(data) BY <2>3, <1>1, <1>3, <1>4, Bounds
  <2> QED BY <2>1, <2>2, <2>3, <1>3
<1> QED BY <1>3, <1>5 DEF Good, p

LEMMA AgedGood ==
  ASSUME NEW l, NEW data, Good(l, data)
  PROVE  Good(l, Aging(data)) /\ Len(Aging(data)) = Len(data)
<1>1. data \in Seq(Points(l)) /\ DOMAIN data = 1..Len(data) /\ Len(data) \in Nat
  BY LenProperties DEF Good
<1>2. \A k \in 1..Len(data) : data[k] \in Points(l) BY <1>1, ElementOfSeq
<1>3. \A a \in Lag..Oldest : Older(a) \in Lag..Oldest
  BY Bounds DEF Older, NotStarted
<1>4. \A a, b \in Lag..Oldest : a >= b => Older(a) >= Older(b)
  BY Bounds DEF Older, NotStarted
<1>5. \A k \in 1..Len(data) :
         Aging(data)[k] \in Points(l) /\ Aging(data)[k].age = Older(data[k].age)
  BY <1>1, <1>2, <1>3 DEF Aging, Points
<1>6. Aging(data) = [k \in 1..Len(data) |-> Aging(data)[k]] BY <1>1 DEF Aging
<1>7. Aging(data) \in Seq(Points(l)) /\ Len(Aging(data)) = Len(data)
  BY <1>1, <1>5, <1>6, IsASeq
<1>8. Ordered(Aging(data))
  <2>1. \A k \in 1..Len(data) : data[k].age \in Lag..Oldest BY <1>2 DEF Points
  <2>2. \A i, j \in 1..Len(data) : i <= j => data[i].age >= data[j].age BY DEF Good, Ordered
  <2> QED BY <1>4, <1>5, <1>7, <2>1, <2>2 DEF Ordered
<1> QED BY <1>7, <1>8 DEF Good

LEMMA PrunedGood ==
  ASSUME NEW l, NEW data, Good(l, data)
  PROVE  Good(l, Pruned(data))
<1> DEFINE young == {k \in DOMAIN data : data[k].age <= 3 * Window}
<1>1. data \in Seq(Points(l)) /\ DOMAIN data = 1..Len(data) /\ Len(data) \in Nat
  BY LenProperties DEF Good
<1>2. CASE young = {}
  BY <1>2, EmptyGood DEF Pruned
<1>3. CASE young # {}
  <2> DEFINE m == Min(young)
             new == SubSeq(data, m, Len(data))
  <2>0. young \in SUBSET Nat BY <1>1
  <2>1. m \in young BY <2>0, <1>3, LeastElement
  <2>2. m \in 1..Len(data) BY <1>1, <2>1
  <2>3. Pruned(data) = new BY <1>3 DEF Pruned
  <2> HIDE DEF m
  <2>4. /\ new \in Seq(Points(l)) /\ Len(new) = Len(data) - m + 1
        /\ \A i \in 1..Len(data) - m + 1 : new[i] = data[m + i - 1]
    BY <1>1, <2>2, SubSeqProperties
  <2> HIDE DEF new
  <2>5. ASSUME NEW i \in 1..Len(new), NEW j \in 1..Len(new), i <= j
        PROVE  new[i].age >= new[j].age
    <3>1. m + i - 1 \in 1..Len(data) /\ m + j - 1 \in 1..Len(data) /\ m + i - 1 <= m + j - 1
      BY <1>1, <2>2, <2>4, <2>5
    <3>2. data[m + i - 1].age >= data[m + j - 1].age BY <3>1 DEF Good, Ordered
    <3> QED BY <2>4, <2>5, <3>2
  <2> QED BY <2>3, <2>4, <2>5 DEF Good, Ordered
<1> QED BY <1>2, <1>3
-----------------------------------------------------------------------------
LEMMA InitChart == TeleInit => ChartInv
BY DEF TeleInit, ChartInv, Lines, Alike, Shaped

LEMMA SameLines ==
  ASSUME ChartInv, UNCHANGED datasets
  PROVE  ChartInv' /\ Longer
<1>1. ChartInv' BY DEF ChartInv, Lines, Alike, Shaped
<1>2. \A i \in DOMAIN datasets : Len(datasets[i].data) \in Nat
  BY LenProperties DEF ChartInv, Lines, Good
<1>3. Longer BY <1>2 DEF Longer, Range, ChartInv, Alike
<1> QED BY <1>1, <1>3

(* The chart without lines.                                                *)
LEMMA NoLines == datasets' = <<>> => ChartInv' /\ Longer
BY DEF ChartInv, Lines, Alike, Shaped, Longer, Range

(* Rebuilt lines take the data of their label, which is one.               *)
LEMMA RebuiltLines ==
  ASSUME ChartInv, NEW ss, datasets' = Synced(ss)
  PROVE  ChartInv' /\ Longer
<1> DEFINE had(l) == \E d \in Range(datasets) : d.label = l
           the(l) == CHOOSE d \in Range(datasets) : d.label = l
           data(l) == IF had(l) THEN the(l).data ELSE <<>>
<1>1. /\ DOMAIN datasets' = DOMAIN ss
      /\ \A i \in DOMAIN ss : /\ datasets'[i].label = ss[i].id
                              /\ datasets'[i].data = data(ss[i].id)
      /\ Shaped'
  BY DEF Synced, Shaped
<1>2. ASSUME NEW l, had(l)
      PROVE  \E i \in DOMAIN datasets : datasets[i].label = l /\ data(l) = datasets[i].data
  <2>1. the(l) \in Range(datasets) /\ the(l).label = l BY <1>2
  <2> HIDE DEF the
  <2>2. data(l) = the(l).data BY <1>2
  <2> QED BY <2>1, <2>2 DEF Range
<1>3. ASSUME NEW l PROVE Good(l, data(l))
  <2>1. CASE had(l) BY <2>1, <1>2 DEF ChartInv, Lines
  <2>2. CASE ~had(l) BY <2>2, EmptyGood
  <2> QED BY <2>1, <2>2
<1>4. ASSUME NEW i \in DOMAIN datasets PROVE data(datasets[i].label) = datasets[i].data
  <2>1. had(datasets[i].label) BY DEF Range
  <2> QED BY <2>1, <1>2 DEF ChartInv, Alike
<1> HIDE DEF had, the, data
<1>5. Lines' BY <1>1, <1>3 DEF Lines
<1>6. Alike' BY <1>1 DEF Alike
<1>7. \A i \in DOMAIN datasets : Len(datasets[i].data) \in Nat
  BY LenProperties DEF ChartInv, Lines, Good
<1>8. Longer BY <1>1, <1>4, <1>7 DEF Longer, Range
<1> QED BY <1>1, <1>5, <1>6, <1>8 DEF ChartInv

LEMMA Configured ==
  ASSUME ChartInv, NEW ss, Configure(ss)
  PROVE  ChartInv' /\ Longer
<1>1. datasets' = <<>> \/ datasets' = Synced(ss) BY DEF Configure
<1> QED BY <1>1, NoLines, RebuiltLines

(* Lines whose data is replaced by good data, that of equal labels alike.  *)
LEMMA ReplacedLines ==
  ASSUME ChartInv,
         DOMAIN datasets' = DOMAIN datasets, Shaped',
         \A i \in DOMAIN datasets : /\ datasets'[i].label = datasets[i].label
                                    /\ Good(datasets[i].label, datasets'[i].data),
         \A i, j \in DOMAIN datasets :
            datasets[i].label = datasets[j].label => datasets'[i].data = datasets'[j].data
  PROVE  ChartInv'
BY DEF ChartInv, Lines, Alike

LEMMA Lengthened ==
  ASSUME ChartInv,
         DOMAIN datasets' = DOMAIN datasets,
         \A i \in DOMAIN datasets : /\ datasets'[i].label = datasets[i].label
                                    /\ Len(datasets'[i].data) \in {Len(datasets[i].data),
                                                                   Len(datasets[i].data) + 1}
  PROVE  Longer
<1>1. \A i \in DOMAIN datasets : Len(datasets[i].data) \in Nat
  BY LenProperties DEF ChartInv, Lines, Good
<1> SUFFICES ASSUME NEW i \in DOMAIN datasets, NEW j \in DOMAIN datasets,
                    datasets[i].label = datasets[j].label
             PROVE  Len(datasets[i].data) <= Len(datasets'[j].data)
  BY DEF Longer, Range
<1>2. datasets[i].data = datasets[j].data BY DEF ChartInv, Alike
<1> QED BY <1>1, <1>2

LEMMA PushedLines ==
  ASSUME ChartInv, NEW ids, datasets' = Push(ids)
  PROVE  ChartInv' /\ Longer
<1> DEFINE with(l, data) == Append(data, [of |-> l, age |-> Lag])
<1>1. DOMAIN datasets' = DOMAIN datasets BY DEF Push
<1>2. ASSUME NEW i \in DOMAIN datasets
      PROVE  /\ datasets'[i].label = datasets[i].label
             /\ datasets'[i] = [label |-> datasets'[i].label, axis |-> datasets'[i].axis,
                                data |-> datasets'[i].data]
             /\ datasets'[i].data = IF datasets[i].label \in ids
                                      THEN with(datasets[i].label, datasets[i].data)
                                      ELSE datasets[i].data
  <2> HIDE DEF with
  <2>1. datasets[i] = [label |-> datasets[i].label, axis |-> datasets[i].axis,
                       data |-> datasets[i].data]
    BY DEF ChartInv, Shaped
  <2>2. CASE datasets[i].label \in ids
    <3>1. datasets'[i] = [datasets[i] EXCEPT !.data = with(datasets[i].label, datasets[i].data)]
      BY <2>2 DEF Push, with
    <3> QED BY <2>1, <2>2, <3>1
  <2>3. CASE datasets[i].label \notin ids
    BY <2>1, <2>3 DEF Push
  <2> QED BY <2>2, <2>3
<1>3. ASSUME NEW i \in DOMAIN datasets
      PROVE  /\ Good(datasets[i].label, with(datasets[i].label, datasets[i].data))
             /\ Len(with(datasets[i].label, datasets[i].data)) = Len(datasets[i].data) + 1
             /\ Good(datasets[i].label, datasets[i].data)
  BY PushGood DEF ChartInv, Lines
<1> HIDE DEF with
<1>4. Shaped' BY <1>1, <1>2 DEF Shaped
<1>5. \A i, j \in DOMAIN datasets :
        datasets[i].label = datasets[j].label => datasets'[i].data = datasets'[j].data
  <2> SUFFICES ASSUME NEW i \in DOMAIN datasets, NEW j \in DOMAIN datasets,
                      datasets[i].label = datasets[j].label
               PROVE  datasets'[i].data = datasets'[j].data
    OBVIOUS
  <2>1. datasets[i].data = datasets[j].data BY DEF ChartInv, Alike
  <2> QED BY <1>2, <2>1
<1>6. ChartInv' BY <1>1, <1>2, <1>3, <1>4, <1>5, ReplacedLines
<1>7. Longer BY <1>1, <1>2, <1>3, Lengthened
<1> QED BY <1>6, <1>7

LEMMA AgedLines ==
  ASSUME ChartInv, Aged
  PROVE  ChartInv' /\ Longer
<1>1. DOMAIN datasets' = DOMAIN datasets BY DEF Aged
<1>2. ASSUME NEW i \in DOMAIN datasets
      PROVE  /\ datasets'[i].label = datasets[i].label
             /\ datasets'[i] = [label |-> datasets'[i].label, axis |-> datasets'[i].axis,
                                data |-> datasets'[i].data]
             /\ datasets'[i].data = Aging(datasets[i].data)
  <2>1. datasets[i] = [label |-> datasets[i].label, axis |-> datasets[i].axis,
                       data |-> datasets[i].data]
    BY DEF ChartInv, Shaped
  <2>2. datasets'[i] = [datasets[i] EXCEPT !.data = Aging(datasets[i].data)]
    BY DEF Aged
  <2> QED BY <2>1, <2>2
<1>3. ASSUME NEW i \in DOMAIN datasets
      PROVE  /\ Good(datasets[i].label, Aging(datasets[i].data))
             /\ Len(Aging(datasets[i].data)) = Len(datasets[i].data)
  BY AgedGood DEF ChartInv, Lines
<1>4. Shaped' BY <1>1, <1>2 DEF Shaped
<1>5. \A i, j \in DOMAIN datasets :
        datasets[i].label = datasets[j].label => datasets'[i].data = datasets'[j].data
  <2> SUFFICES ASSUME NEW i \in DOMAIN datasets, NEW j \in DOMAIN datasets,
                      datasets[i].label = datasets[j].label
               PROVE  datasets'[i].data = datasets'[j].data
    OBVIOUS
  <2>1. datasets[i].data = datasets[j].data BY DEF ChartInv, Alike
  <2> QED BY <1>2, <2>1
<1>6. ChartInv' BY <1>1, <1>2, <1>3, <1>4, <1>5, ReplacedLines
<1>7. Longer BY <1>1, <1>2, <1>3, Lengthened
<1> QED BY <1>6, <1>7

LEMMA PrunedLines ==
  ASSUME ChartInv, IntervalFires
  PROVE  ChartInv'
<1>1. DOMAIN datasets' = DOMAIN datasets BY DEF IntervalFires
<1>2. ASSUME NEW i \in DOMAIN datasets
      PROVE  /\ datasets'[i].label = datasets[i].label
             /\ datasets'[i] = [label |-> datasets'[i].label, axis |-> datasets'[i].axis,
                                data |-> datasets'[i].data]
             /\ datasets'[i].data = Pruned(datasets[i].data)
  <2>1. datasets[i] = [label |-> datasets[i].label, axis |-> datasets[i].axis,
                       data |-> datasets[i].data]
    BY DEF ChartInv, Shaped
  <2>2. datasets'[i] = [datasets[i] EXCEPT !.data = Pruned(datasets[i].data)]
    BY DEF IntervalFires
  <2> QED BY <2>1, <2>2
<1>3. ASSUME NEW i \in DOMAIN datasets
      PROVE  Good(datasets[i].label, Pruned(datasets[i].data))
  BY PrunedGood DEF ChartInv, Lines
<1>4. Shaped' BY <1>1, <1>2 DEF Shaped
<1>5. \A i, j \in DOMAIN datasets :
        datasets[i].label = datasets[j].label => datasets'[i].data = datasets'[j].data
  <2> SUFFICES ASSUME NEW i \in DOMAIN datasets, NEW j \in DOMAIN datasets,
                      datasets[i].label = datasets[j].label
               PROVE  datasets'[i].data = datasets'[j].data
    OBVIOUS
  <2>1. datasets[i].data = datasets[j].data BY DEF ChartInv, Alike
  <2> QED BY <1>2, <2>1
<1> QED BY <1>1, <1>2, <1>3, <1>4, <1>5, ReplacedLines
-----------------------------------------------------------------------------
LEMMA NextChart ==
  ASSUME ChartInv, [TeleNext]_teleVars
  PROVE  ChartInv' /\ (IntervalFires \/ Longer)
<1>1. ASSUME NEW id, NEW axis, AddSeries(id, axis) PROVE ChartInv' /\ Longer
  <2>1. \E ss : Configure(ss) BY <1>1 DEF AddSeries
  <2> QED BY <2>1, Configured
<1>2. ASSUME NEW id, RemoveSeries(id) PROVE ChartInv' /\ Longer
  <2>1. \E ss : Configure(ss) BY <1>2 DEF RemoveSeries
  <2> QED BY <2>1, Configured
<1>3. ASSUME NEW id, UpdateAxis(id) PROVE ChartInv' /\ Longer
  <2>1. \E ss : Configure(ss) BY <1>3 DEF UpdateAxis
  <2> QED BY <2>1, Configured
<1>4. CASE ResetChart BY <1>4, NoLines DEF ResetChart
<1>5. CASE MessageEvent \/ BlackboardEvent
  <2>1. \E ids : TeleFrame(ids) BY <1>5 DEF MessageEvent, BlackboardEvent
  <2>2. \E ids : datasets' = Push(ids) BY <2>1 DEF TeleFrame
  <2> QED BY <2>2, PushedLines
<1>6. CASE Elapse BY <1>6, AgedLines DEF Elapse
<1>7. CASE IntervalFires BY <1>7, PrunedLines
<1>8. CASE UNCHANGED datasets BY <1>8, SameLines
<1>9. CASE RebuildOptions \/ Start \/ Stop \/ Pan \/ Zoom \/ SnapToLive
  BY <1>8, <1>9 DEF RebuildOptions, Start, Stop, Pan, Zoom, SnapToLive, chart
<1>10. CASE UNCHANGED teleVars BY <1>8, <1>10 DEF teleVars, chart
<1> QED BY <1>1, <1>2, <1>3, <1>4, <1>5, <1>6, <1>7, <1>9, <1>10 DEF TeleNext

LEMMA ChartInvariant == TeleSpec => []ChartInv
<1>1. TeleInit => ChartInv BY InitChart
<1>2. ChartInv /\ [TeleNext]_teleVars => ChartInv' BY NextChart
<1> QED BY <1>1, <1>2, PTL DEF TeleSpec

(* A line is drawn from its own signal only, and in the order of time      *)
(* (Telemetry.tsx:213-236, 285-308).                                       *)
THEOREM LinesAreOwn == TeleSpec => []OwnPoints
<1>1. ASSUME NEW l, NEW data, Good(l, data)
      PROVE  /\ \A p \in Range(data) : p.of = l
             /\ \A i, j \in DOMAIN data : i <= j => data[i].age >= data[j].age
  <2>1. data \in Seq(Points(l)) /\ DOMAIN data = 1..Len(data) BY <1>1, LenProperties DEF Good
  <2>2. \A k \in 1..Len(data) : data[k] \in Points(l) BY <2>1, ElementOfSeq
  <2> QED BY <1>1, <2>1, <2>2 DEF Good, Ordered, Range, Points
<1>2. ChartInv => OwnPoints
  BY <1>1 DEF ChartInv, Lines, OwnPoints, Range
<1> QED BY <1>2, ChartInvariant, PTL

(* No reconfiguration costs a line a point (Telemetry.tsx:213).            *)
THEOREM NoPointLost == TeleSpec => KeepsPoints
<1>1. ChartInv /\ [TeleNext]_teleVars => [IntervalFires \/ Longer]_teleVars BY NextChart
<1>2. [IntervalFires \/ Longer]_teleVars =>
        [IntervalFires \/ \A d \in Range(datasets), e \in Range(datasets') :
                   d.label = e.label => Len(d.data) <= Len(e.data)]_teleVars
  BY DEF Longer
<1> QED BY <1>1, <1>2, ChartInvariant, PTL DEF TeleSpec, KeepsPoints
-----------------------------------------------------------------------------
(* The scene.                                                              *)

(* Sequences of sequences, put one after the other.                        *)

Joined(g, ss, i) == IF i = 1 THEN ss[i] ELSE g[i - 1] \o ss[i]

LEMMA FlattenExists ==
  ASSUME NEW ss, NEW n \in Nat
  PROVE  \E g : g = [i \in 1..n |-> Joined(g, ss, i)]
<1> DEFINE Fits(g, k) == \A i \in 1..n : i <= k => g[i] = Joined(g, ss, i)
           Unrolled(g) == [i \in 1..n |-> Joined(g, ss, i)]
           S == {k \in Nat : \E g : Fits(g, k)}
<1>1. ASSUME NEW g, NEW k \in Nat, Fits(g, k), NEW i \in 1..n, i <= k + 1
      PROVE  Joined(Unrolled(g), ss, i) = Joined(g, ss, i)
  <2> DEFINE h == Unrolled(g)
  <2>1. CASE i = 1 BY <2>1 DEF Joined
  <2>2. CASE i # 1
    <3>1. i - 1 \in 1..n /\ i - 1 <= k BY <2>2, <1>1
    <3>2. h[i - 1] = Joined(g, ss, i - 1) BY <3>1
    <3>3. g[i - 1] = Joined(g, ss, i - 1) BY <3>1, <1>1
    <3> HIDE DEF h
    <3>4. Joined(h, ss, i) = Joined(g, ss, i) BY <2>2, <3>2, <3>3 DEF Joined
    <3> QED BY <3>4 DEF h
  <2> QED BY <2>1, <2>2
<1>2. 0 \in S
  <2> DEFINE g == <<>>
  <2>1. Fits(g, 0) OBVIOUS
  <2> QED BY <2>1
<1>3. ASSUME NEW k \in Nat, k \in S PROVE k + 1 \in S
  <2>1. PICK g : Fits(g, k) BY <1>3
  <2>2. Fits(Unrolled(g), k + 1) BY <2>1, <1>1
  <2> HIDE DEF Unrolled, Fits
  <2> QED BY <2>2
<1>4. n \in S
  <2> HIDE DEF S
  <2>1. Nat \subseteq S BY <1>2, <1>3, InductiveSet
  <2> QED BY <2>1
<1>5. PICK g : Fits(g, n) BY <1>4
<1>6. ASSUME NEW i \in 1..n PROVE Joined(Unrolled(g), ss, i) = Joined(g, ss, i)
  <2>1. i <= n + 1 OBVIOUS
  <2> QED BY <2>1, <1>1, <1>5
<1>7. Unrolled(g) = [i \in 1..n |-> Joined(Unrolled(g), ss, i)] BY <1>6
<1> QED BY <1>7

(* They make a sequence, no longer than there were sequences if each of    *)
(* them has at most one element.                                           *)
LEMMA Flattened ==
  ASSUME NEW X, NEW ss \in Seq(Seq(X))
  PROVE  /\ FlattenSeq(ss) \in Seq(X)
         /\ (\A i \in 1..Len(ss) : Len(ss[i]) <= 1) => Len(FlattenSeq(ss)) <= Len(ss)
<1>0. Len(ss) \in Nat /\ DOMAIN ss = 1..Len(ss) BY LenProperties
<1>1. CASE Len(ss) = 0
  <2>1. FlattenSeq(ss) = ss BY <1>1 DEF FlattenSeq
  <2>2. ss = <<>> BY <1>1, EmptySeq
  <2> QED BY <2>1, <2>2, EmptySeq
<1>2. CASE Len(ss) # 0
  <2> DEFINE n == Len(ss)
             f == CHOOSE g : g = [i \in 1..Len(ss) |-> Joined(g, ss, i)]
             Short(i) == (\A j \in 1..n : Len(ss[j]) <= 1) => Len(f[i]) <= i
             S == {k \in Nat : k \in 1..n => f[k] \in Seq(X) /\ Short(k)}
  <2>1. FlattenSeq(ss) = f[n] BY <1>2 DEF FlattenSeq, Joined
  <2>2. f = [i \in 1..n |-> Joined(f, ss, i)] BY <1>0, FlattenExists
  <2> HIDE DEF f
  <2>3. ASSUME NEW i \in 1..n PROVE f[i] = Joined(f, ss, i)
    <3> DEFINE h == [j \in 1..n |-> Joined(f, ss, j)]
    <3>1. h[i] = Joined(f, ss, i) OBVIOUS
    <3> HIDE DEF h
    <3>2. f = h BY <2>2 DEF h
    <3> QED BY <3>1, <3>2
  <2>4. \A i \in 1..n : ss[i] \in Seq(X) BY ElementOfSeq
  <2>5. 0 \in S BY <1>0
  <2>6. ASSUME NEW k \in Nat, k \in S PROVE k + 1 \in S
    <3> SUFFICES ASSUME k + 1 \in 1..n PROVE f[k + 1] \in Seq(X) /\ Short(k + 1) OBVIOUS
    <3>1. f[k + 1] = Joined(f, ss, k + 1) BY <2>3
    <3>2. ss[k + 1] \in Seq(X) BY <2>4
    <3>3. CASE k = 0
      <4>1. f[k + 1] = ss[k + 1] BY <3>1, <3>3 DEF Joined
      <4> QED BY <4>1, <3>2, <3>3
    <3>4. CASE k # 0
      <4>0. k \in 1..n BY <3>4, <1>0
      <4>1. f[k + 1] = f[k] \o ss[k + 1] BY <3>1, <3>4, k + 1 # 1, (k + 1) - 1 = k DEF Joined
      <4>2. f[k] \in Seq(X) /\ Short(k) BY <4>0, <2>6
      <4>3. f[k + 1] \in Seq(X) /\ Len(f[k + 1]) = Len(f[k]) + Len(ss[k + 1])
        BY <4>1, <4>2, <3>2, ConcatProperties
      <4>4. Len(f[k]) \in Nat /\ Len(ss[k + 1]) \in Nat BY <4>2, <3>2, LenProperties
      <4>5. Len(f[k]) <= k /\ Len(ss[k + 1]) <= 1 => Len(f[k + 1]) <= k + 1
        <5> DEFINE a == Len(f[k])  b == Len(ss[k + 1])  c == Len(f[k + 1])
        <5>1. a \in Nat /\ b \in Nat /\ c = a + b /\ k \in Nat BY <4>3, <4>4
        <5> HIDE DEF a, b, c
        <5>2. a <= k /\ b <= 1 => c <= k + 1 BY ONLY <5>1
        <5> QED BY <5>2 DEF a, b, c
      <4> QED BY <4>2, <4>3, <4>5
    <3> QED BY <3>3, <3>4
  <2> HIDE DEF S
  <2>7. Nat \subseteq S BY <2>5, <2>6, InductiveSet
  <2>8. n \in S /\ n \in 1..n BY <2>7, <1>0, <1>2
  <2> QED BY <2>1, <2>8 DEF S
<1> QED BY <1>1, <1>2

LEMMA FlattenNothing == FlattenSeq(<<>>) = <<>>
BY EmptySeq DEF FlattenSeq
-----------------------------------------------------------------------------
(* Particles are spawned one after the other.                              *)

Fold(g, s, ps, asked, d) ==
  IF d = {} THEN ps ELSE Spawn(s, g[d \ {Max(d)}], asked[Max(d)])

LEMMA FoldExists ==
  ASSUME NEW s, NEW ps, NEW asked, NEW n \in Nat, DOMAIN asked = 1..n
  PROVE  \E g : g = [d \in SUBSET DOMAIN asked |-> Fold(g, s, ps, asked, d)]
<1> DEFINE D == SUBSET DOMAIN asked
           Fits(g, k) == \A d \in D : (\A i \in d : i <= k) => g[d] = Fold(g, s, ps, asked, d)
           Unrolled(g) == [d \in D |-> Fold(g, s, ps, asked, d)]
           S == {k \in Nat : \E g : Fits(g, k)}
<1>1. ASSUME NEW g, NEW k \in Nat, Fits(g, k), NEW d \in D, \A i \in d : i <= k + 1
      PROVE  Fold(Unrolled(g), s, ps, asked, d) = Fold(g, s, ps, asked, d)
  <2> DEFINE h == Unrolled(g)
             rest == d \ {Max(d)}
  <2>1. CASE d = {} BY <2>1 DEF Fold
  <2>2. CASE d # {}
    <3>1. d \in SUBSET Nat /\ k + 1 \in Nat OBVIOUS
    <3>2. Max(d) \in d /\ \A m \in d : m <= Max(d) BY <3>1, <2>2, <1>1, MaxIs
    <3>3. rest \in D OBVIOUS
    <3>4. \A i \in rest : i <= k BY <3>1, <3>2, <1>1
    <3>5. h[rest] = Fold(g, s, ps, asked, rest) BY <3>3
    <3>6. g[rest] = Fold(g, s, ps, asked, rest) BY <3>3, <3>4, <1>1
    <3> HIDE DEF h
    <3>7. Fold(h, s, ps, asked, d) = Fold(g, s, ps, asked, d) BY <2>2, <3>5, <3>6 DEF Fold
    <3> QED BY <3>7 DEF h
  <2> QED BY <2>1, <2>2
<1>2. 0 \in S
  <2> DEFINE g == [d \in D |-> ps]
  <2>1. ASSUME NEW d \in D, \A i \in d : i <= 0 PROVE g[d] = Fold(g, s, ps, asked, d)
    <3>1. d = {} BY <2>1
    <3> QED BY <3>1 DEF Fold
  <2>2. Fits(g, 0) BY <2>1
  <2> QED BY <2>2
<1>3. ASSUME NEW k \in Nat, k \in S PROVE k + 1 \in S
  <2>1. PICK g : Fits(g, k) BY <1>3
  <2>2. Fits(Unrolled(g), k + 1) BY <2>1, <1>1
  <2> HIDE DEF Unrolled, Fits
  <2> QED BY <2>2
<1>4. n \in S
  <2> HIDE DEF S
  <2>1. Nat \subseteq S BY <1>2, <1>3, InductiveSet
  <2> QED BY <2>1
<1>5. PICK g : Fits(g, n) BY <1>4
<1>6. ASSUME NEW d \in D PROVE Fold(Unrolled(g), s, ps, asked, d) = Fold(g, s, ps, asked, d)
  <2>1. \A i \in d : i <= n + 1 OBVIOUS
  <2> QED BY <2>1, <1>1, <1>5
<1>7. Unrolled(g) = [d \in D |-> Fold(Unrolled(g), s, ps, asked, d)] BY <1>6
<1> QED BY <1>7

(* A set of sequences that every spawn stays in, all of them stay in.      *)
LEMMA SpawnAllStays ==
  ASSUME NEW P, NEW s, NEW X, NEW ps \in X, NEW asked \in Seq(P),
         \A qs \in X : \A p \in P : Spawn(s, qs, p) \in X
  PROVE  SpawnAll(s, ps, asked) \in X
<1> DEFINE n == Len(asked)
           D == SUBSET DOMAIN asked
           f == CHOOSE g : g = [d \in D |-> Fold(g, s, ps, asked, d)]
           S == {k \in Nat : k <= n => f[1..k] \in X}
<1>1. n \in Nat /\ DOMAIN asked = 1..n BY LenProperties
<1>2. SpawnAll(s, ps, asked) = f[DOMAIN asked]
  BY DEF SpawnAll, FoldLeft, MapThenFoldSet, Fold
<1>3. f = [d \in D |-> Fold(f, s, ps, asked, d)] BY <1>1, FoldExists
<1> HIDE DEF f
<1>4. ASSUME NEW d \in D PROVE f[d] = Fold(f, s, ps, asked, d)
  <2> DEFINE h == [x \in D |-> Fold(f, s, ps, asked, x)]
  <2>1. h[d] = Fold(f, s, ps, asked, d) OBVIOUS
  <2> HIDE DEF h
  <2>2. f = h BY <1>3 DEF h
  <2> QED BY <2>1, <2>2
<1>5. 0 \in S
  <2>1. 1..0 = {} /\ 1..0 \in D OBVIOUS
  <2>2. f[1..0] = ps BY <2>1, <1>4 DEF Fold
  <2> QED BY <2>2
<1>6. ASSUME NEW k \in Nat, k \in S PROVE k + 1 \in S
  <2> DEFINE i == k + 1
  <2> SUFFICES ASSUME i <= n PROVE f[1..i] \in X OBVIOUS
  <2>0. i \in Nat /\ i \in 1..i /\ i - 1 = k OBVIOUS
  <2>1. i \in Nat /\ i \in 1..i /\ (1..i) \in SUBSET Nat /\ (1..i) # {}
    <3>1. (1..i) \in SUBSET Nat OBVIOUS
    <3> HIDE DEF i
    <3> QED BY ONLY <2>0, <3>1
  <2>2. \A m \in 1..i : m <= i BY <2>1
  <2>3. Max(1..i) = i
    <3>1. Max(1..i) \in 1..i /\ \A m \in 1..i : m <= Max(1..i) BY <2>1, <2>2, MaxIs
    <3> QED BY <3>1, <2>1
  <2>4. (1..i) \in D BY <1>1, <2>1
  <2>5. (1..i) \ {i} = 1..k OBVIOUS
  <2>6. f[1..i] = Spawn(s, f[1..k], asked[i]) BY <1>4, <2>1, <2>3, <2>4, <2>5 DEF Fold
  <2>7. asked[i] \in P
    <3>1. i \in 1..Len(asked) BY <1>1, <2>1
    <3> QED BY <3>1, ElementOfSeq
  <2>8. f[1..k] \in X BY <1>1, <1>6
  <2> QED BY <2>6, <2>7, <2>8
<1> HIDE DEF S
<1>7. Nat \subseteq S BY <1>5, <1>6, InductiveSet
<1>8. n \in S BY <1>1, <1>7
<1> QED BY <1>1, <1>2, <1>8 DEF S

LEMMA SpawnNothing == \A s, ps : SpawnAll(s, ps, <<>>) = ps
<1> SUFFICES ASSUME NEW s, NEW ps PROVE SpawnAll(s, ps, <<>>) \in {ps} OBVIOUS
<1>1. <<>> \in Seq({}) BY EmptySeq
<1> DEFINE X == {ps}  P == {}
<1>2. ps \in X /\ <<>> \in Seq(P) /\ \A qs \in X : \A p \in P : Spawn(s, qs, p) \in X BY <1>1
<1> HIDE DEF X, P
<1>3. SpawnAll(s, ps, <<>>) \in X BY <1>2, SpawnAllStays
<1> QED BY <1>3 DEF X
-----------------------------------------------------------------------------
(* Particles, as the scene keeps them.                                     *)

HubIds == UNION {DOMAIN g.hubs : g \in Graphs}
HubEnds == UNION {UNION {ToSet(g.hubs[h].from) \cup ToSet(g.hubs[h].to) : h \in DOMAIN g.hubs} :
                    g \in Graphs}
Places == HubIds \cup HubEnds

Flying == [kind : {"message", "call"}, src : Places, dst : Places,
           next : SUBSET Seq(HubEnds), flown : 0..(MaxFlight - 1), frozen : BOOLEAN]

Started == {p \in Flying : ~p.frozen}

(* Not beyond MAX_PARTICLES, nor beyond n, but for one among frozen ones.  *)
OneFlies(ps) == \A i, j \in Unfrozen(ps) : i = j
Bounded(n) == {ps \in Seq(Flying) : \/ Len(ps) <= MaxParticles
                                    \/ Len(ps) <= n
                                    \/ OneFlies(ps)}

LEMMA HubTyped ==
  ASSUME NEW g \in Graphs, NEW h \in DOMAIN g.hubs
  PROVE  /\ g.hubs[h].from \in Seq(HubEnds)
         /\ g.hubs[h].to \in Seq(HubEnds)
         /\ h \in HubIds
<1>1. /\ g.hubs[h].from \in Seq(ToSet(g.hubs[h].from))
      /\ g.hubs[h].to \in Seq(ToSet(g.hubs[h].to))
  BY SceneAssumption
<1>2. ToSet(g.hubs[h].from) \subseteq HubEnds /\ ToSet(g.hubs[h].to) \subseteq HubEnds
  BY DEF HubEnds
<1>3. h \in HubIds BY DEF HubIds
<1> QED BY <1>1, <1>2, <1>3, SeqMonotonic

LEMMA ParticleTyped ==
  ASSUME NEW kind \in {"message", "call"}, NEW src \in Places, NEW dst \in Places,
         NEW next \in SUBSET Seq(HubEnds)
  PROVE  Particle(kind, src, dst, next) \in Started
BY SceneAssumption DEF Particle, Started, Flying

LEMMA UnfrozenIs ==
  ASSUME NEW ps \in Seq(Flying)
  PROVE  /\ Unfrozen(ps) \subseteq 1..Len(ps)
         /\ IsFiniteSet(Unfrozen(ps))
         /\ OneFlies(ps) => Cardinality(Unfrozen(ps)) <= 1
<1>1. Len(ps) \in Nat /\ DOMAIN ps = 1..Len(ps) BY LenProperties
<1>2. Unfrozen(ps) \subseteq 1..Len(ps) BY <1>1 DEF Unfrozen
<1>3. IsFiniteSet(1..Len(ps)) BY <1>1, FS_Interval
<1>4. IsFiniteSet(Unfrozen(ps)) BY <1>2, <1>3, FS_Subset
<1>5. ASSUME OneFlies(ps) PROVE Cardinality(Unfrozen(ps)) <= 1
  <2>1. CASE Unfrozen(ps) = {} BY <2>1, FS_EmptySet
  <2>2. CASE Unfrozen(ps) # {}
    <3>1. PICK i \in Unfrozen(ps) : TRUE BY <2>2
    <3>2. Unfrozen(ps) = {i} BY <3>1, <1>5 DEF OneFlies
    <3>3. Cardinality({i}) = 1 BY FS_Singleton
    <3> QED BY <3>2, <3>3
  <2> QED BY <2>1, <2>2
<1> QED BY <1>2, <1>4, <1>5

(* Making room removes one that flies, if there is one.                    *)
LEMMA Removed ==
  ASSUME NEW ps \in Seq(Flying), Unfrozen(ps) # {}
  PROVE  /\ RemoveOldest(ps) \in Seq(Flying)
         /\ Len(RemoveOldest(ps)) = Len(ps) - 1
         /\ OneFlies(ps) => Unfrozen(RemoveOldest(ps)) = {}
<1> DEFINE k == CHOOSE i \in Unfrozen(ps) : \A j \in Unfrozen(ps) : i <= j
           n == Len(ps)
           r == RemoveOldest(ps)
           a == SubSeq(ps, 1, k - 1)
           b == SubSeq(ps, k + 1, n)
<1>1. n \in Nat /\ DOMAIN ps = 1..n /\ Unfrozen(ps) \subseteq 1..n
  BY LenProperties, UnfrozenIs
<1>2. Unfrozen(ps) \in SUBSET Nat BY <1>1
<1>3. \E i \in Unfrozen(ps) : \A j \in Unfrozen(ps) : i <= j BY <1>2, LeastElement
<1>4. k \in Unfrozen(ps) BY <1>3
<1>5. k \in 1..n BY <1>1, <1>4
<1>6. r = a \o b BY DEF RemoveOldest, RemoveAt
<1> HIDE DEF k, r
<1>7. /\ a \in Seq(Flying) /\ Len(a) = k - 1
      /\ \A i \in 1..(k - 1) : a[i] = ps[i]
  <2>1. \A i \in 1..(k - 1) : ps[i] \in Flying
    <3>1. \A i \in 1..(k - 1) : i \in 1..n BY <1>1, <1>5
    <3> QED BY <3>1, ElementOfSeq
  <2>2. k - 1 \in Int /\ (k - 1) - 1 + 1 = k - 1 BY <1>5
  <2> QED BY <2>1, <2>2, <1>5, SubSeqProperties
<1>8. /\ b \in Seq(Flying) /\ Len(b) = n - k
      /\ \A i \in 1..(n - k) : b[i] = ps[k + i]
  <2>1. \A i \in (k + 1)..n : ps[i] \in Flying
    <3>1. \A i \in (k + 1)..n : i \in 1..n BY <1>1, <1>5
    <3> QED BY <3>1, ElementOfSeq
  <2>2. k + 1 \in Int /\ n - (k + 1) + 1 = n - k /\ (~(k + 1 <= n) => n - k = 0)
    <3>1. n \in Nat /\ k \in Nat /\ k <= n BY <1>1, <1>5
    <3> HIDE DEF n
    <3> QED BY ONLY <3>1
  <2>3. /\ b \in Seq(Flying) /\ Len(b) = n - k
        /\ \A i \in 1..(n - k) : b[i] = ps[k + 1 + i - 1]
    <3>1. n \in Int BY <1>1
    <3>2. /\ b \in Seq(Flying)
          /\ Len(b) = IF k + 1 <= n THEN n - (k + 1) + 1 ELSE 0
          /\ \A i \in 1..(n - (k + 1) + 1) : b[i] = ps[k + 1 + i - 1]
      BY <2>1, <2>2, <3>1, SubSeqProperties
    <3> QED BY <2>2, <3>2
  <2>4. \A i \in 1..(n - k) : k + 1 + i - 1 = k + i BY <1>5
  <2> QED BY <2>3, <2>4
<1> HIDE DEF a, b
<1>9. /\ r \in Seq(Flying) /\ Len(r) = n - 1
      /\ \A i \in 1..(n - 1) : r[i] = IF i <= k - 1 THEN a[i] ELSE b[i - (k - 1)]
  <2>1. Len(a) + Len(b) = n - 1 BY <1>1, <1>5, <1>7, <1>8
  <2>2. /\ r \in Seq(Flying) /\ Len(r) = Len(a) + Len(b)
        /\ \A i \in 1..(Len(a) + Len(b)) : r[i] = IF i <= Len(a) THEN a[i] ELSE b[i - Len(a)]
    BY <1>6, <1>7, <1>8, ConcatProperties
  <2> QED BY <1>7, <2>1, <2>2
<1>10. ASSUME NEW i \in 1..(n - 1) PROVE \E j \in 1..n : j # k /\ r[i] = ps[j]
  <2>1. CASE i <= k - 1
    <3>1. i \in 1..(k - 1) /\ i \in 1..n /\ i # k BY <1>1, <1>5, <2>1
    <3> QED BY <3>1, <2>1, <1>7, <1>9
  <2>2. CASE ~(i <= k - 1)
    <3>1. i - (k - 1) \in 1..(n - k) /\ k + (i - (k - 1)) = i + 1
      BY <1>1, <1>5, <2>2
    <3>2. i + 1 \in 1..n /\ i + 1 # k BY <1>1, <1>5, <2>2
    <3> QED BY <3>1, <3>2, <2>2, <1>8, <1>9
  <2> QED BY <2>1, <2>2
<1>11. OneFlies(ps) => Unfrozen(r) = {}
  <2> SUFFICES ASSUME OneFlies(ps), NEW i \in Unfrozen(r) PROVE FALSE OBVIOUS
  <2>1. DOMAIN r = 1..(n - 1) /\ i \in 1..(n - 1) /\ ~r[i].frozen
    BY <1>9, LenProperties DEF Unfrozen
  <2>2. PICK j \in 1..n : j # k /\ r[i] = ps[j] BY <2>1, <1>10
  <2>3. j \in Unfrozen(ps) BY <2>1, <2>2, <1>1 DEF Unfrozen
  <2> QED BY <2>2, <2>3, <1>4 DEF OneFlies
<1> QED BY <1>9, <1>11 DEF r

LEMMA SpawnKeeps ==
  ASSUME NEW s, NEW n \in Nat, NEW ps \in Bounded(n), NEW p \in Started
  PROVE  Spawn(s, ps, p) \in Bounded(n)
<1> DEFINE full == Len(ps) >= MaxParticles
           room == IF full THEN RemoveOldest(ps) ELSE ps
           more == Append(room, p)
<1>1. /\ ps \in Seq(Flying) /\ Len(ps) \in Nat /\ DOMAIN ps = 1..Len(ps)
      /\ MaxParticles \in Nat \ {0} /\ p \in Flying /\ ~p.frozen
  BY SceneAssumption, LenProperties DEF Bounded, Started
<1>2. Spawn(s, ps, p) = IF HasPosition(s, p.src) THEN more ELSE room BY DEF Spawn
<1>3. /\ room \in Seq(Flying) /\ Len(room) \in Nat
      /\ \/ Len(room) = Len(ps) /\ Len(ps) < MaxParticles
         \/ Len(room) = Len(ps) - 1 /\ (OneFlies(ps) => Unfrozen(room) = {})
         \/ Len(room) = Len(ps) /\ Unfrozen(room) = {}
  <2>1. CASE ~full
    <3>1. room = ps BY <2>1
    <3>2. Len(ps) < MaxParticles
      <4>1. ~(Len(ps) >= MaxParticles) /\ Len(ps) \in Nat /\ MaxParticles \in Nat BY <2>1, <1>1
      <4> QED BY ONLY <4>1
    <3> QED BY <3>1, <3>2, <1>1
  <2>2. CASE full /\ Unfrozen(ps) = {}
    <3>1. room = ps BY <2>2 DEF RemoveOldest
    <3> QED BY <3>1, <2>2, <1>1
  <2>3. CASE full /\ Unfrozen(ps) # {}
    <3>1. room = RemoveOldest(ps) BY <2>3
    <3>2. room \in Seq(Flying) /\ Len(room) = Len(ps) - 1
          /\ (OneFlies(ps) => Unfrozen(room) = {})
      BY <3>1, <2>3, <1>1, Removed
    <3>3. Len(room) \in Nat BY <3>2, LenProperties
    <3> QED BY <3>2, <3>3
  <2> QED BY <2>1, <2>2, <2>3
<1> HIDE DEF room
<1>4. DOMAIN room = 1..Len(room) BY <1>3, LenProperties
<1>5. /\ more \in Seq(Flying) /\ Len(more) = Len(room) + 1
      /\ \A i \in 1..Len(room) : more[i] = room[i]
  <2>1. room \in Seq(Flying) /\ p \in Flying BY <1>1, <1>3
  <2> QED BY <2>1, AppendProperties
<1>6. DOMAIN more = 1..(Len(room) + 1) BY <1>5, LenProperties
<1> HIDE DEF more
<1>7. ASSUME Unfrozen(room) = {} PROVE OneFlies(more)
  <2>1. ASSUME NEW i \in Unfrozen(more) PROVE i = Len(room) + 1
    <3>1. i \in 1..(Len(room) + 1) /\ ~more[i].frozen BY <1>6 DEF Unfrozen
    <3>2. CASE i \in 1..Len(room)
      <4>1. i \in Unfrozen(room) BY <3>1, <3>2, <1>4, <1>5 DEF Unfrozen
      <4> QED BY <4>1, <1>7
    <3> QED BY <3>1, <3>2, <1>3
  <2> QED BY <2>1 DEF OneFlies
<1>8. Unfrozen(room) = {} => OneFlies(room) BY DEF OneFlies
<1>9. Len(ps) <= MaxParticles \/ Len(ps) <= n \/ OneFlies(ps) BY DEF Bounded
<1> DEFINE lp == Len(ps)  lr == Len(room)  lm == Len(more)
<1>10. /\ lp \in Nat /\ lr \in Nat /\ lm = lr + 1 /\ MaxParticles \in Nat
       /\ lp <= MaxParticles \/ lp <= n \/ OneFlies(ps)
       /\ \/ lr = lp /\ lp < MaxParticles
          \/ lr = lp - 1 /\ (OneFlies(ps) => Unfrozen(room) = {})
          \/ lr = lp /\ Unfrozen(room) = {}
  BY <1>1, <1>3, <1>5, <1>9
<1>11. more \in Bounded(n)
  <2>1. \/ Len(more) <= MaxParticles \/ Len(more) <= n \/ OneFlies(more)
    <3> HIDE DEF lp, lr, lm
    <3>1. lm <= MaxParticles \/ lm <= n \/ Unfrozen(room) = {} BY ONLY <1>10, n \in Nat
    <3> QED BY <3>1, <1>7 DEF lm
  <2> QED BY <2>1, <1>5 DEF Bounded
<1>12. room \in Bounded(n)
  <2>1. \/ Len(room) <= MaxParticles \/ Len(room) <= n \/ OneFlies(room)
    <3> HIDE DEF lp, lr, lm
    <3>1. lr <= MaxParticles \/ lr <= n \/ Unfrozen(room) = {} BY ONLY <1>10, n \in Nat
    <3> QED BY <3>1, <1>8 DEF lr
  <2> QED BY <2>1, <1>3 DEF Bounded
<1> QED BY <1>2, <1>11, <1>12

LEMMA SpawnAllKeeps ==
  ASSUME NEW s, NEW n \in Nat, NEW ps \in Bounded(n), NEW asked \in Seq(Started)
  PROVE  SpawnAll(s, ps, asked) \in Bounded(n)
<1> DEFINE X == Bounded(n)
<1>1. \A qs \in X : \A p \in Started : Spawn(s, qs, p) \in X BY SpawnKeeps
<1> HIDE DEF X
<1>2. ps \in X BY DEF X
<1>3. SpawnAll(s, ps, asked) \in X BY <1>1, <1>2, SpawnAllStays
<1> QED BY <1>3 DEF X
-----------------------------------------------------------------------------
(* What is asked for is a sequence of particles that start.                *)

LEMMA IsSeq ==
  ASSUME NEW X, NEW n \in Nat, NEW f, f = [i \in 1..n |-> f[i]], \A i \in 1..n : f[i] \in X
  PROVE  f \in Seq(X) /\ Len(f) = n /\ DOMAIN f = 1..n
<1>1. f \in [1..n -> X] OBVIOUS
<1> QED BY <1>1, IsASeq

LEMMA OneOrNone == \A X : <<>> \in Seq(X) /\ \A x \in X : <<x>> \in Seq(X)
BY EmptySeq

LEMMA MessageAsks ==
  ASSUME NEW s, s.graph \in Graphs \cup {Null}, NEW h \in HubIds
  PROVE  SpawnMessage(s, h) \in Seq(Started)
<1> DEFINE hub == s.graph.hubs[h]
           next(i) == IF i = 1 THEN {<<n>> : n \in ToSet(hub.to)} ELSE {}
           asked(i) == IF ~IsVisible(s, hub.from[i]) THEN <<>>
                       ELSE <<Particle("message", hub.from[i], h, next(i))>>
           ss == [i \in DOMAIN hub.from |-> asked(i)]
<1>1. CASE SpawnMessage(s, h) = <<>> BY <1>1, EmptySeq
<1>2. CASE SpawnMessage(s, h) # <<>>
  <2>1. s.graph # Null /\ h \in DOMAIN s.graph.hubs BY <1>2 DEF SpawnMessage
  <2>2. SpawnMessage(s, h) = FlattenSeq(ss) BY <1>2 DEF SpawnMessage
  <2>3. s.graph \in Graphs BY <2>1
  <2>4. hub.from \in Seq(HubEnds) /\ hub.to \in Seq(HubEnds) BY <2>1, <2>3, HubTyped
  <2>5. /\ Len(hub.from) \in Nat /\ DOMAIN hub.from = 1..Len(hub.from)
        /\ \A i \in 1..Len(hub.from) : hub.from[i] \in HubEnds
        /\ ToSet(hub.to) \subseteq HubEnds
    BY <2>4, LenProperties, ElementOfSeq DEF ToSet
  <2> HIDE DEF hub
  <2>6. ASSUME NEW i \in 1..Len(hub.from) PROVE asked(i) \in Seq(Started)
    <3>1. next(i) \in SUBSET Seq(HubEnds) BY <2>5, OneOrNone
    <3> HIDE DEF next
    <3>2. hub.from[i] \in Places /\ h \in Places BY <2>5 DEF Places
    <3>3. Particle("message", hub.from[i], h, next(i)) \in Started
      BY <3>1, <3>2, ParticleTyped
    <3> QED BY <3>3, OneOrNone
  <2> HIDE DEF asked
  <2>7. ss \in Seq(Seq(Started))
    <3> DEFINE n == Len(hub.from)
    <3>1. ss = [i \in 1..n |-> ss[i]] /\ \A i \in 1..n : ss[i] \in Seq(Started)
      BY <2>5, <2>6
    <3> HIDE DEF ss
    <3> QED BY <2>5, <3>1, IsSeq
  <2> QED BY <2>2, <2>7, Flattened
<1> QED BY <1>1, <1>2

LEMMA PulseAsks ==
  ASSUME NEW s, s.graph \in Graphs \cup {Null}, NEW h \in HubIds
  PROVE  SpawnServicePulse(s, h) \in Seq(Started)
<1> DEFINE hub == s.graph.hubs[h]
<1>1. CASE SpawnServicePulse(s, h) = <<>> BY <1>1, EmptySeq
<1>2. CASE SpawnServicePulse(s, h) # <<>>
  <2>1. s.graph # Null /\ h \in DOMAIN s.graph.hubs /\ hub.from # <<>>
    BY <1>2 DEF SpawnServicePulse
  <2>2. SpawnServicePulse(s, h) = <<Particle("call", hub.from[1], h, {hub.to})>>
    BY <1>2 DEF SpawnServicePulse
  <2>3. hub.from \in Seq(HubEnds) /\ hub.to \in Seq(HubEnds) BY <2>1, HubTyped
  <2> HIDE DEF hub
  <2>4. 1 \in 1..Len(hub.from)
    <3>1. Len(hub.from) \in Nat \ {0} BY <2>1, <2>3, EmptySeq
    <3> QED BY <3>1
  <2>5. hub.from[1] \in Places /\ h \in Places BY <2>3, <2>4, ElementOfSeq DEF Places
  <2>6. Particle("call", hub.from[1], h, {hub.to}) \in Started
    BY <2>3, <2>5, ParticleTyped
  <2> QED BY <2>2, <2>6, OneOrNone
<1> QED BY <1>1, <1>2

LEMMA GoOnAsks ==
  ASSUME NEW s, NEW p \in Flying, NEW targets \in Seq(HubEnds)
  PROVE  GoOn(s, p, targets) \in Seq(Started)
<1> DEFINE asked(n) == IF p.kind = "message" /\ ~IsVisible(s, n) THEN <<>>
                       ELSE <<Particle(p.kind, p.dst, n, {})>>
           ss == [i \in DOMAIN targets |-> asked(targets[i])]
           n == Len(targets)
<1>1. n \in Nat /\ DOMAIN targets = 1..n /\ \A i \in 1..n : targets[i] \in HubEnds
  BY LenProperties, ElementOfSeq
<1>2. GoOn(s, p, targets) = FlattenSeq(ss) BY DEF GoOn
<1>3. ASSUME NEW x \in HubEnds PROVE asked(x) \in Seq(Started)
  <2>1. /\ p.kind \in {"message", "call"} /\ p.dst \in Places /\ x \in Places
        /\ {} \in SUBSET Seq(HubEnds)
    BY DEF Flying, Places
  <2>2. Particle(p.kind, p.dst, x, {}) \in Started BY <2>1, ParticleTyped
  <2> QED BY <2>2, OneOrNone
<1> HIDE DEF asked
<1>4. ss = [i \in 1..n |-> ss[i]] /\ \A i \in 1..n : ss[i] \in Seq(Started) BY <1>1, <1>3
<1> HIDE DEF ss, n
<1>5. ss \in Seq(Seq(Started)) BY <1>1, <1>4, IsSeq
<1> QED BY <1>2, <1>5, Flattened

LEMMA StillTyped ==
  ASSUME NEW s, NEW ps \in Seq(Flying), NEW landing,
         {i \in Unfrozen(ps) : ps[i].flown + 1 = MaxFlight} \subseteq landing
  PROVE  /\ StillThere(s, ps, landing) \in Seq(Flying)
         /\ Len(StillThere(s, ps, landing)) <= Len(ps)
<1> DEFINE gone(i) == i \in landing \/ (~ps[i].frozen /\ Astray(s, ps[i]))
           stays(i) == IF gone(i) THEN <<>> ELSE <<Flown(ps[i])>>
           ss == [i \in DOMAIN ps |-> stays(i)]
           n == Len(ps)
<1>1. n \in Nat /\ DOMAIN ps = 1..n /\ \A i \in 1..n : ps[i] \in Flying
  BY LenProperties, ElementOfSeq
<1>2. StillThere(s, ps, landing) = FlattenSeq(ss) BY DEF StillThere
<1>3. ASSUME NEW i \in 1..n PROVE stays(i) \in Seq(Flying) /\ Len(stays(i)) <= 1
  <2>1. CASE gone(i)
    <3>1. stays(i) = <<>> BY <2>1
    <3> QED BY <3>1, EmptySeq
  <2>2. CASE ~gone(i)
    <3>1. stays(i) = <<Flown(ps[i])>> BY <2>2
    <3>2. Flown(ps[i]) \in Flying
      <4>1. ps[i] \in Flying BY <1>1
      <4>2. CASE ps[i].frozen BY <4>1, <4>2 DEF Flown
      <4>3. CASE ~ps[i].frozen
        <5>1. i \in Unfrozen(ps) /\ i \notin landing BY <1>1, <2>2, <4>3 DEF Unfrozen
        <5>2. ps[i].flown + 1 # MaxFlight BY <5>1
        <5>3. ps[i].flown + 1 \in 0..(MaxFlight - 1)
          <6>1. ps[i].flown \in 0..(MaxFlight - 1) /\ MaxFlight \in Nat \ {0}
            BY <4>1, SceneAssumption DEF Flying
          <6> QED BY ONLY <5>2, <6>1
        <5>4. Flown(ps[i]) = [ps[i] EXCEPT !.flown = ps[i].flown + 1] BY <4>3 DEF Flown
        <5> QED BY <4>1, <5>3, <5>4 DEF Flying
      <4> QED BY <4>2, <4>3
    <3>3. stays(i) \in Seq(Flying) /\ Len(stays(i)) = 1 BY <3>1, <3>2, OneOrNone
    <3> QED BY <3>3
  <2> QED BY <2>1, <2>2
<1> HIDE DEF stays
<1>4. /\ ss = [i \in 1..n |-> ss[i]]
      /\ \A i \in 1..n : ss[i] \in Seq(Flying) /\ Len(ss[i]) <= 1
  BY <1>1, <1>3
<1> HIDE DEF ss
<1>5. ss \in Seq(Seq(Flying)) /\ Len(ss) = n BY <1>1, <1>4, IsSeq
<1> QED BY <1>2, <1>4, <1>5, Flattened

LEMMA LandedAsks ==
  ASSUME NEW s, NEW ps \in Seq(Flying), NEW landing \in SUBSET Unfrozen(ps), NEW choice,
         \A i \in landing : IF ps[i].next = {} THEN choice[i] = <<>> ELSE choice[i] \in ps[i].next
  PROVE  Landed(s, ps, landing, choice) \in Seq(Started)
<1> DEFINE asked(i) == IF i \in landing THEN GoOn(s, ps[i], choice[i]) ELSE <<>>
           ss == [i \in DOMAIN ps |-> asked(i)]
           n == Len(ps)
<1>1. n \in Nat /\ DOMAIN ps = 1..n /\ \A i \in 1..n : ps[i] \in Flying
  BY LenProperties, ElementOfSeq
<1>2. Landed(s, ps, landing, choice) = FlattenSeq(ss) BY DEF Landed
<1>3. ASSUME NEW i \in 1..n PROVE asked(i) \in Seq(Started)
  <2>1. CASE i \in landing
    <3>1. ps[i] \in Flying /\ ps[i].next \in SUBSET Seq(HubEnds) BY <1>1 DEF Flying
    <3>2. choice[i] \in Seq(HubEnds) BY <2>1, <3>1, EmptySeq
    <3>3. GoOn(s, ps[i], choice[i]) \in Seq(Started) BY <3>1, <3>2, GoOnAsks
    <3> QED BY <2>1, <3>3
  <2>2. CASE i \notin landing
    <3>1. asked(i) = <<>> BY <2>2
    <3> QED BY <3>1, EmptySeq
  <2> QED BY <2>1, <2>2
<1> HIDE DEF asked
<1>4. ss = [i \in 1..n |-> ss[i]] /\ \A i \in 1..n : ss[i] \in Seq(Started) BY <1>1, <1>3
<1> HIDE DEF ss, n
<1>5. ss \in Seq(Seq(Started)) BY <1>1, <1>4, IsSeq
<1> QED BY <1>2, <1>5, Flattened
-----------------------------------------------------------------------------
(* What the scene's operations leave of a scene.                           *)

SceneOK(s) ==
  /\ s = [graph |-> s.graph, vertices |-> s.vertices, layout |-> s.layout, ports |-> s.ports,
          lines |-> s.lines, particles |-> s.particles, vis |-> s.vis, selected |-> s.selected]
  /\ s.graph \in Graphs \cup {Null}
  /\ s.layout = DOMAIN s.vertices
  /\ \A id \in DOMAIN s.vertices : s.vertices[id] \in BOOLEAN

LEMMA UpdateGraphIs ==
  ASSUME NEW s, SceneOK(s), NEW g \in Graphs
  PROVE  /\ SceneOK(UpdateGraph(s, g))
         /\ UpdateGraph(s, g).graph = g
         /\ DOMAIN UpdateGraph(s, g).vertices = Ids(g)
         /\ DOMAIN UpdateGraph(s, g).ports = Docked(g)
         /\ UpdateGraph(s, g).particles = s.particles
         /\ UpdateGraph(s, g).vis = s.vis
<1> DEFINE vs == [id \in Ids(g) |-> IF id \in DOMAIN s.vertices THEN s.vertices[id] ELSE TRUE]
           ps == [h \in Docked(g) |-> IF h \in DOMAIN s.ports THEN s.ports[h]
                                                              ELSE g.hubs[h].to[1]]
<1>1. UpdateGraph(s, g) = [s EXCEPT !.graph = g, !.vertices = vs, !.layout = Ids(g), !.ports = ps]
  BY DEF UpdateGraph
<1>2. DOMAIN vs = Ids(g) /\ DOMAIN ps = Docked(g) OBVIOUS
<1>3. \A id \in Ids(g) : vs[id] \in BOOLEAN BY DEF SceneOK
<1> HIDE DEF vs, ps
<1>4. UpdateGraph(s, g) = [graph |-> g, vertices |-> vs, layout |-> Ids(g), ports |-> ps,
                           lines |-> s.lines, particles |-> s.particles, vis |-> s.vis,
                           selected |-> s.selected]
  BY <1>1 DEF SceneOK
<1> QED BY <1>2, <1>3, <1>4 DEF SceneOK

(* A frame's scene: what hides nothing shows, and a line needs both ends.  *)
Drawn(s) == UpdateEdges(ComputeVisibility(s))

LEMMA DrawnIs ==
  ASSUME NEW s, SceneOK(s)
  PROVE  /\ SceneOK(Drawn(s))
         /\ Drawn(s).graph = s.graph
         /\ DOMAIN Drawn(s).vertices = DOMAIN s.vertices
         /\ Drawn(s).ports = s.ports
         /\ Drawn(s).particles = s.particles
         /\ Drawn(s).vis = s.vis
         /\ s.vertices = <<>> /\ s.lines = {} =>
              Drawn(s).vertices = <<>> /\ Drawn(s).lines = {}
         /\ s.graph # Null =>
              /\ Drawn(s).lines \subseteq Arcs(s.graph)
              /\ \A a \in Drawn(s).lines : \A id \in {a[1], a[2]} \cap DOMAIN s.vertices :
                   Unhidden(s.vis, id)
              /\ \A id \in DOMAIN s.vertices \ DeadEnds(s.vis, s.graph) :
                   Unhidden(s.vis, id) => Drawn(s).vertices[id]
<1>1. CASE s.graph = Null
  <2>1. ComputeVisibility(s) = s BY <1>1 DEF ComputeVisibility
  <2>2. Drawn(s) = s BY <1>1, <2>1 DEF Drawn, UpdateEdges
  <2> QED BY <1>1, <2>2
<1>2. CASE s.graph # Null
  <2> DEFINE dead(id) == id \in DeadEnds(s.vis, s.graph) /\ s.vis.deadEnd = "hidden"
             vs == [id \in DOMAIN s.vertices |-> Unhidden(s.vis, id) /\ ~dead(id)]
             t == ComputeVisibility(s)
             wanted == {a \in Arcs(s.graph) : /\ a[1] \in DOMAIN vs => vs[a[1]]
                                              /\ a[2] \in DOMAIN vs => vs[a[2]]}
             placed == {a \in wanted : HasPosition(t, a[1]) /\ HasPosition(t, a[2])}
             ls == (s.lines \cap wanted) \cup placed
  <2>1. /\ DOMAIN vs = DOMAIN s.vertices
        /\ \A id \in DOMAIN s.vertices : /\ vs[id] \in BOOLEAN
                                         /\ vs[id] => Unhidden(s.vis, id)
                                         /\ Unhidden(s.vis, id) /\ ~dead(id) => vs[id]
    <3>1. \A id : Unhidden(s.vis, id) \in BOOLEAN BY DEF Unhidden
    <3> HIDE DEF dead
    <3> QED BY <3>1
  <2>2. t = [s EXCEPT !.vertices = vs] BY <1>2 DEF ComputeVisibility
  <2>4. s.vertices = <<>> => vs = <<>> OBVIOUS
  <2> HIDE DEF vs
  <2>5. t = [graph |-> s.graph, vertices |-> vs, layout |-> s.layout, ports |-> s.ports,
             lines |-> s.lines, particles |-> s.particles, vis |-> s.vis,
             selected |-> s.selected]
    BY <2>2 DEF SceneOK
  <2>6. /\ t.graph = s.graph /\ t.vertices = vs /\ t.lines = s.lines
        /\ t.layout = DOMAIN s.vertices
    BY <2>5 DEF SceneOK
  <2>7. \A id : HasPosition(t, id) => id \in DOMAIN s.vertices
    BY <2>1, <2>6 DEF HasPosition
  <2> HIDE DEF t
  <2>8. UpdateEdges(t) = [t EXCEPT !.lines = ls] BY <1>2, <2>6 DEF UpdateEdges
  <2>9. ls \subseteq wanted /\ (s.vertices = <<>> /\ s.lines = {} => ls = {}) BY <2>7
  <2>10. ls \subseteq Arcs(s.graph)
         /\ \A a \in ls : \A id \in {a[1], a[2]} \cap DOMAIN s.vertices : Unhidden(s.vis, id)
    BY <2>1, <2>9
  <2> HIDE DEF ls
  <2>11. Drawn(s) = [graph |-> s.graph, vertices |-> vs, layout |-> s.layout, ports |-> s.ports,
                     lines |-> ls, particles |-> s.particles, vis |-> s.vis,
                     selected |-> s.selected]
    BY <2>5, <2>8 DEF Drawn, t
  <2>12. /\ SceneOK(Drawn(s))
         /\ Drawn(s).graph = s.graph
         /\ Drawn(s).vertices = vs
         /\ Drawn(s).ports = s.ports
         /\ Drawn(s).particles = s.particles
         /\ Drawn(s).vis = s.vis
         /\ Drawn(s).lines = ls
    BY <2>1, <2>11 DEF SceneOK
  <2> QED BY <2>1, <2>4, <2>9, <2>10, <2>12
<1> QED BY <1>1, <1>2
-----------------------------------------------------------------------------
(* The invariant: what the page and the scene agree on while nothing that  *)
(* would change it is dirty.                                               *)

AppOK == /\ app = [graph |-> app.graph, up |-> app.up, messages |-> app.messages,
                   calls |-> app.calls, vis |-> app.vis, selected |-> app.selected]
         /\ app.graph \in Graphs \cup {Null}
         /\ app.up \in BOOLEAN
         /\ app.messages \in Seq(HubIds)
         /\ app.calls \in Seq(HubIds)

Counted == /\ dirty \subseteq {"graph", "vis", "generic", "messages", "calls", "selected", "status"}
           /\ paused \in BOOLEAN /\ frames \in 0..MaxReceived /\ clicks \in 0..MaxClicks

Bridged == ~app.up => app.graph = Null /\ app.messages = <<>>

GraphShown == "graph" \notin dirty /\ "generic" \notin dirty /\ app.graph # Null =>
                /\ scene.graph = app.graph
                /\ DOMAIN scene.vertices = Ids(app.graph)
                /\ DOMAIN scene.ports = Docked(app.graph)

Cleared(s) == /\ s.vertices = <<>> /\ s.ports = <<>>
              /\ s.lines = {} /\ s.particles = <<>>

Emptied == "status" \notin dirty /\ ~app.up => Cleared(scene) /\ app.calls = <<>>

SameVis == "vis" \notin dirty => scene.vis = app.vis

SceneInv == /\ AppOK /\ SceneOK(scene) /\ scene.particles \in Seq(Flying) /\ Counted
            /\ Bridged /\ GraphShown /\ Emptied /\ SameVis

(* The scene's particles are as many as the action property allows.        *)
NoMore == scene'.particles \in Bounded(Len(scene.particles))

LEMMA InitScene == Init => SceneInv
<1> SUFFICES ASSUME Init PROVE SceneInv OBVIOUS
<1>1. AppOK BY EmptySeq DEF Init, AppOK
<1>2. SceneOK(scene) /\ scene.particles \in Seq(Flying) BY EmptySeq DEF Init, SceneOK
<1>3. Counted
  <2>1. paused \in BOOLEAN /\ dirty = {} BY DEF Init
  <2>2. frames \in 0..MaxReceived /\ clicks \in 0..MaxClicks BY SceneAssumption DEF Init
  <2> QED BY <2>1, <2>2 DEF Counted
<1>4. Bridged /\ GraphShown /\ Emptied /\ SameVis
  BY DEF Init, Bridged, GraphShown, Emptied, SameVis
<1> QED BY <1>1, <1>2, <1>3, <1>4 DEF SceneInv

(* The graph, the visibility and the marks of the page on the scene.       *)
LEMMA RedrawnIs ==
  ASSUME SceneInv
  PROVE  /\ SceneOK(Redrawn)
         /\ Redrawn.particles = scene.particles
         /\ Redrawn.vis = app.vis
         /\ app.graph # Null => /\ Redrawn.graph = app.graph
                                /\ DOMAIN Redrawn.vertices = Ids(app.graph)
                                /\ DOMAIN Redrawn.ports = Docked(app.graph)
         /\ Cleared(scene) /\ app.graph = Null => Cleared(Redrawn)
<1> DEFINE g == IF "graph" \in dirty /\ app.graph # Null
                  THEN UpdateGraph(scene, app.graph) ELSE scene
           v == IF "vis" \in dirty THEN [g EXCEPT !.vis = app.vis] ELSE g
           u == UpdateGraph(v, app.graph)
<1>0. SceneOK(scene) /\ (app.graph # Null => app.graph \in Graphs)
  BY DEF SceneInv, AppOK
<1>1. Redrawn = IF "generic" \notin dirty THEN v
                ELSE IF app.graph = Null THEN [v EXCEPT !.vis = app.vis]
                ELSE [u EXCEPT !.vis = app.vis]
  BY DEF Redrawn
<1>2. /\ SceneOK(g) /\ g.particles = scene.particles /\ g.vis = scene.vis
      /\ "graph" \in dirty /\ app.graph # Null =>
           /\ g.graph = app.graph
           /\ DOMAIN g.vertices = Ids(app.graph) /\ DOMAIN g.ports = Docked(app.graph)
      /\ "graph" \notin dirty \/ app.graph = Null => g = scene
  <2>1. CASE "graph" \in dirty /\ app.graph # Null BY <2>1, <1>0, UpdateGraphIs
  <2>2. CASE ~("graph" \in dirty /\ app.graph # Null) BY <2>2, <1>0
  <2> QED BY <2>1, <2>2
<1>3. ASSUME NEW s, SceneOK(s)
      PROVE  /\ SceneOK([s EXCEPT !.vis = app.vis])
             /\ [s EXCEPT !.vis = app.vis].vis = app.vis
             /\ [s EXCEPT !.vis = app.vis].graph = s.graph
             /\ [s EXCEPT !.vis = app.vis].vertices = s.vertices
             /\ [s EXCEPT !.vis = app.vis].ports = s.ports
             /\ [s EXCEPT !.vis = app.vis].lines = s.lines
             /\ [s EXCEPT !.vis = app.vis].particles = s.particles
  <2> DEFINE t == [s EXCEPT !.vis = app.vis]
  <2>1. t = [graph |-> s.graph, vertices |-> s.vertices, layout |-> s.layout,
             ports |-> s.ports, lines |-> s.lines, particles |-> s.particles,
             vis |-> app.vis, selected |-> s.selected]
    BY <1>3 DEF SceneOK
  <2> HIDE DEF t
  <2>2. /\ SceneOK(t) /\ t.vis = app.vis /\ t.graph = s.graph /\ t.vertices = s.vertices
        /\ t.ports = s.ports /\ t.lines = s.lines /\ t.particles = s.particles
    BY <1>3, <2>1 DEF SceneOK
  <2> QED BY <2>2 DEF t
<1> HIDE DEF g
<1>4. /\ SceneOK(v) /\ v.vis = app.vis /\ v.graph = g.graph /\ v.vertices = g.vertices
      /\ v.ports = g.ports /\ v.lines = g.lines /\ v.particles = g.particles
  <2>1. CASE "vis" \in dirty BY <2>1, <1>2, <1>3
  <2>2. CASE "vis" \notin dirty BY <2>2, <1>2 DEF SceneInv, SameVis
  <2> QED BY <2>1, <2>2
<1> HIDE DEF v
<1>5. CASE "generic" \notin dirty
  <2>1. Redrawn = v BY <1>1, <1>5
  <2>2. app.graph # Null => /\ v.graph = app.graph
                            /\ DOMAIN v.vertices = Ids(app.graph)
                            /\ DOMAIN v.ports = Docked(app.graph)
    BY <1>2, <1>4, <1>5 DEF SceneInv, GraphShown
  <2> QED BY <1>2, <1>4, <2>1, <2>2 DEF Cleared
<1>6. CASE "generic" \in dirty /\ app.graph = Null
  <2>1. Redrawn = [v EXCEPT !.vis = app.vis] BY <1>1, <1>6
  <2> QED BY <1>2, <1>3, <1>4, <1>6, <2>1 DEF Cleared
<1>7. CASE "generic" \in dirty /\ app.graph # Null
  <2>1. Redrawn = [u EXCEPT !.vis = app.vis] BY <1>1, <1>7
  <2>2. /\ SceneOK(u) /\ u.graph = app.graph /\ u.particles = v.particles
        /\ DOMAIN u.vertices = Ids(app.graph) /\ DOMAIN u.ports = Docked(app.graph)
    BY <1>0, <1>4, <1>7, UpdateGraphIs
  <2> HIDE DEF u
  <2> QED BY <1>2, <1>3, <1>4, <1>7, <2>1, <2>2
<1> QED BY <1>5, <1>6, <1>7

(* What a commit asks for.                                                 *)
LEMMA CommitAsks ==
  ASSUME SceneInv, NEW s, s.graph \in Graphs \cup {Null}, NEW passing
  PROVE  /\ Animated(s, passing) \o Called(s) \in Seq(Started)
         /\ app.messages = <<>> /\ app.calls = <<>> => Animated(s, passing) \o Called(s) = <<>>
<1> DEFINE First(i) == \A j \in 1..(i - 1) : app.messages[j] # app.messages[i]
           asked(i) == IF app.messages[i] \in passing /\ First(i)
                         THEN SpawnMessage(s, app.messages[i]) ELSE <<>>
           ss == [i \in DOMAIN app.messages |-> asked(i)]
           n == Len(app.messages)
<1>1. app.messages \in Seq(HubIds) /\ app.calls \in Seq(HubIds) BY DEF SceneInv, AppOK
<1>2. /\ n \in Nat /\ DOMAIN app.messages = 1..n
      /\ \A i \in 1..n : app.messages[i] \in HubIds
  BY <1>1, LenProperties, ElementOfSeq
<1>3. Animated(s, passing) = FlattenSeq(ss) BY DEF Animated
<1>4. ASSUME NEW i \in 1..n PROVE asked(i) \in Seq(Started)
  <2>1. SpawnMessage(s, app.messages[i]) \in Seq(Started) BY <1>2, MessageAsks
  <2> QED BY <2>1, EmptySeq
<1> HIDE DEF asked
<1>5. ss = [i \in 1..n |-> ss[i]] /\ \A i \in 1..n : ss[i] \in Seq(Started) BY <1>2, <1>4
<1>6. app.messages = <<>> => ss = <<>> OBVIOUS
<1> HIDE DEF ss, n
<1>7. ss \in Seq(Seq(Started)) BY <1>2, <1>5, IsSeq
<1>8. Animated(s, passing) \in Seq(Started) BY <1>3, <1>7, Flattened
<1>9. Called(s) \in Seq(Started)
  <2>1. CASE app.calls = <<>> BY <2>1, EmptySeq DEF Called
  <2>2. CASE app.calls # <<>>
    <3>1. Len(app.calls) \in Nat \ {0} BY <1>1, <2>2, EmptySeq
    <3>2. 1 \in 1..Len(app.calls) BY <3>1
    <3>3. app.calls[1] \in HubIds BY <1>1, <3>2, ElementOfSeq
    <3> QED BY <2>2, <3>3, PulseAsks DEF Called
  <2> QED BY <2>1, <2>2
<1>10. app.messages = <<>> => Animated(s, passing) = <<>> BY <1>3, <1>6, FlattenNothing
<1>11. app.calls = <<>> => Called(s) = <<>> BY DEF Called
<1>12. <<>> \o <<>> = <<>>
  <2>1. <<>> \in Seq(Started) BY EmptySeq
  <2> QED BY <2>1, ConcatEmptySeq
<1> QED BY <1>8, <1>9, <1>10, <1>11, <1>12, ConcatProperties
-----------------------------------------------------------------------------
(* The steps.                                                              *)

LEMMA Within ==
  ASSUME NEW n, NEW ps \in Seq(Flying), Len(ps) <= n
  PROVE  ps \in Bounded(n)
BY DEF Bounded

LEMMA SceneAlike ==
  ASSUME SceneInv, UNCHANGED scene
  PROVE  SceneOK(scene)' /\ (scene.particles \in Seq(Flying))' /\ NoMore
<1>1. SceneOK(scene)' BY DEF SceneInv, SceneOK
<1>2. Len(scene.particles) \in Nat BY LenProperties DEF SceneInv
<1>3. Len(scene'.particles) <= Len(scene.particles) BY <1>2
<1> QED BY <1>1, <1>3, Within DEF SceneInv, NoMore

(* The graph, or that it is dirty, stays.                                  *)
LEMMA GraphStays ==
  ASSUME GraphShown, UNCHANGED generic, app'.graph = app.graph, dirty \subseteq dirty',
         scene'.graph = scene.graph,
         DOMAIN scene'.vertices = DOMAIN scene.vertices,
         DOMAIN scene'.ports = DOMAIN scene.ports
  PROVE  GraphShown'
<1>1. Ids(app.graph)' = Ids(app.graph) /\ Docked(app.graph)' = Docked(app.graph)
  BY DEF Ids, Docked, Connected, Services
<1> SUFFICES ASSUME "graph" \notin dirty', "generic" \notin dirty', app'.graph # Null
             PROVE  /\ scene'.graph = app'.graph
                    /\ DOMAIN scene'.vertices = Ids(app.graph)'
                    /\ DOMAIN scene'.ports = Docked(app.graph)'
  BY DEF GraphShown
<1>2. /\ scene.graph = app.graph
      /\ DOMAIN scene.vertices = Ids(app.graph) /\ DOMAIN scene.ports = Docked(app.graph)
  BY DEF GraphShown
<1> QED BY <1>1, <1>2

LEMMA FrameStep ==
  ASSUME SceneInv, GraphFrame \/ MessageFrame \/ CallFrame
  PROVE  SceneInv' /\ NoMore
<1>1. PICK changed \in {"graph", "messages", "calls"} : Receive(changed)
  BY DEF GraphFrame, MessageFrame, CallFrame
<1>2. /\ app.up /\ dirty' = dirty \cup {changed} /\ frames < MaxReceived /\ frames' = frames + 1
      /\ UNCHANGED <<scene, generic, paused, clicks>>
  BY <1>1 DEF Receive
<1>3. /\ AppOK' /\ app'.up = app.up /\ app'.vis = app.vis
      /\ app'.graph = app.graph \/ "graph" \in dirty'
  <2>1. CASE GraphFrame
    <3>1. PICK g \in Graphs : app' = [app EXCEPT !.graph = g] BY <2>1 DEF GraphFrame
    <3>2. app' = [graph |-> g, up |-> app.up, messages |-> app.messages,
                  calls |-> app.calls, vis |-> app.vis, selected |-> app.selected]
      BY <3>1 DEF SceneInv, AppOK
    <3>3. "graph" \in dirty' BY <2>1 DEF GraphFrame, Receive
    <3> QED BY <3>2, <3>3 DEF SceneInv, AppOK
  <2>2. CASE MessageFrame
    <3>1. PICK h \in Hubs("topic") : app' = [app EXCEPT !.messages = Append(app.messages, h)]
      BY <2>2 DEF MessageFrame
    <3>2. h \in HubIds BY DEF Hubs, HubIds
    <3>3. Append(app.messages, h) \in Seq(HubIds) BY <3>2, AppendProperties DEF SceneInv, AppOK
    <3>4. app' = [graph |-> app.graph, up |-> app.up, messages |-> Append(app.messages, h),
                  calls |-> app.calls, vis |-> app.vis, selected |-> app.selected]
      BY <3>1 DEF SceneInv, AppOK
    <3> QED BY <3>3, <3>4 DEF SceneInv, AppOK
  <2>3. CASE CallFrame
    <3>1. PICK h \in Hubs("service") : app' = [app EXCEPT !.calls = <<h>>]
      BY <2>3 DEF CallFrame
    <3>2. <<h>> \in Seq(HubIds) BY OneOrNone DEF Hubs, HubIds
    <3>3. app' = [graph |-> app.graph, up |-> app.up, messages |-> app.messages,
                  calls |-> <<h>>, vis |-> app.vis, selected |-> app.selected]
      BY <3>1 DEF SceneInv, AppOK
    <3> QED BY <3>2, <3>3 DEF SceneInv, AppOK
  <2> QED BY <2>1, <2>2, <2>3
<1>4. Counted'
  <2>1. frames' \in 0..MaxReceived
    <3>1. frames \in 0..MaxReceived /\ MaxReceived \in Nat BY SceneAssumption DEF SceneInv, Counted
    <3> QED BY ONLY <1>2, <3>1
  <2>2. clicks' \in 0..MaxClicks BY <1>2 DEF SceneInv, Counted
  <2> QED BY <1>2, <2>1, <2>2 DEF SceneInv, Counted
<1>5. GraphShown'
  <2>1. CASE "graph" \in dirty' BY <2>1 DEF GraphShown
  <2>2. CASE app'.graph = app.graph BY <1>2, <2>2, GraphStays DEF SceneInv
  <2> QED BY <1>3, <2>1, <2>2
<1>6. Bridged' /\ Emptied' BY <1>2, <1>3 DEF Bridged, Emptied
<1>7. SameVis' BY <1>2, <1>3 DEF SceneInv, SameVis
<1> QED BY <1>2, <1>3, <1>4, <1>5, <1>6, <1>7, SceneAlike DEF SceneInv

LEMMA BridgeStep ==
  ASSUME SceneInv, Disconnects \/ Reconnects
  PROVE  SceneInv' /\ NoMore
<1>1. /\ "status" \in dirty' /\ dirty \subseteq dirty'
      /\ dirty' \subseteq dirty \cup {"status", "graph"}
      /\ UNCHANGED <<scene, generic, paused, frames, clicks>>
  BY DEF Disconnects, Reconnects
<1>2. AppOK' /\ app'.vis = app.vis /\ app'.graph = Null /\ app'.messages = <<>>
  <2>1. CASE Disconnects
    <3>1. app' = [graph |-> Null, up |-> FALSE, messages |-> <<>>,
                  calls |-> app.calls, vis |-> app.vis, selected |-> app.selected]
      BY <2>1 DEF Disconnects, SceneInv, AppOK
    <3> QED BY <3>1, EmptySeq DEF SceneInv, AppOK
  <2>2. CASE Reconnects
    <3>1. app' = [graph |-> app.graph, up |-> TRUE, messages |-> app.messages,
                  calls |-> app.calls, vis |-> app.vis, selected |-> app.selected]
      BY <2>2 DEF Reconnects, SceneInv, AppOK
    <3>2. app.graph = Null /\ app.messages = <<>> BY <2>2 DEF Reconnects, SceneInv, Bridged
    <3> QED BY <3>1, <3>2 DEF SceneInv, AppOK
  <2> QED BY <2>1, <2>2
<1>3. Counted' BY <1>1 DEF SceneInv, Counted
<1>4. Bridged' /\ GraphShown' /\ Emptied' BY <1>1, <1>2 DEF Bridged, GraphShown, Emptied
<1>5. SameVis' BY <1>1, <1>2 DEF SceneInv, SameVis
<1> QED BY <1>1, <1>2, <1>3, <1>4, <1>5, SceneAlike DEF SceneInv

(* A click changes no graph, message or call.                              *)
LEMMA ClickCounts ==
  ASSUME SceneInv, Click, dirty' \subseteq dirty \cup {"vis", "generic", "selected"},
         paused' \in BOOLEAN
  PROVE  Counted'
<1>1. clicks' \in 0..MaxClicks
  <2>1. /\ clicks \in 0..MaxClicks /\ MaxClicks \in Nat
        /\ clicks < MaxClicks /\ clicks' = clicks + 1
    BY SceneAssumption DEF SceneInv, Counted, Click
  <2> QED BY ONLY <2>1
<1>2. frames' \in 0..MaxReceived BY DEF SceneInv, Counted, Click
<1> QED BY <1>1, <1>2 DEF SceneInv, Counted

LEMMA ClickKeeps ==
  ASSUME SceneInv, AppOK', Counted', SceneOK(scene)', dirty \subseteq dirty',
         UNCHANGED <<app.graph, app.up, app.messages, app.calls>>,
         UNCHANGED <<scene.graph, scene.vertices, scene.ports, scene.lines>>,
         UNCHANGED generic \/ "generic" \in dirty',
         UNCHANGED <<scene.vis, app.vis>> \/ "vis" \in dirty',
         scene'.particles \in Seq(Flying),
         Len(scene'.particles) = Len(scene.particles)
  PROVE  SceneInv' /\ NoMore
<1>1. Len(scene.particles) \in Nat /\ Len(scene'.particles) \in Nat
  BY LenProperties DEF SceneInv
<1>2. NoMore
  <2>1. Len(scene'.particles) <= Len(scene.particles) BY <1>1
  <2> QED BY <2>1, Within DEF NoMore
<1>3. Bridged' BY DEF SceneInv, Bridged
<1>4. GraphShown'
  <2>1. CASE UNCHANGED generic BY <2>1, GraphStays DEF SceneInv
  <2>2. CASE "generic" \in dirty' BY <2>2 DEF GraphShown
  <2> QED BY <2>1, <2>2
<1>5. Emptied'
  <2> SUFFICES ASSUME "status" \notin dirty', ~app'.up PROVE Cleared(scene)' /\ app'.calls = <<>>
    BY DEF Emptied
  <2>1. Cleared(scene) /\ app.calls = <<>> BY DEF SceneInv, Emptied
  <2>2. Len(scene.particles) = 0 BY <2>1, EmptySeq DEF Cleared
  <2>3. scene'.particles = <<>> BY <2>2, EmptySeq
  <2> QED BY <2>1, <2>3 DEF Cleared
<1>6. SameVis' BY DEF SceneInv, SameVis
<1> QED BY <1>2, <1>3, <1>4, <1>5, <1>6 DEF SceneInv

LEMMA PageStep ==
  ASSUME SceneInv, ChangeVis \/ MarkGeneric \/ Pause
  PROVE  SceneInv' /\ NoMore
<1>1. Click /\ UNCHANGED scene BY DEF ChangeVis, MarkGeneric, Pause
<1>2. /\ dirty \subseteq dirty' /\ dirty' \subseteq dirty \cup {"vis", "generic", "selected"}
      /\ UNCHANGED generic \/ "generic" \in dirty'
  BY DEF ChangeVis, MarkGeneric, Pause
<1>3. paused' \in BOOLEAN
  <2>1. paused \in BOOLEAN BY DEF SceneInv, Counted
  <2>2. paused' \in {paused, ~paused} BY DEF ChangeVis, MarkGeneric, Pause
  <2> QED BY <2>1, <2>2
<1>4. /\ AppOK' /\ UNCHANGED <<app.graph, app.up, app.messages, app.calls>>
      /\ UNCHANGED app.vis \/ "vis" \in dirty'
  <2>1. CASE ChangeVis
    <3>1. PICK v : app' = [app EXCEPT !.vis = v] BY <2>1 DEF ChangeVis
    <3>2. app' = [graph |-> app.graph, up |-> app.up, messages |-> app.messages,
                  calls |-> app.calls, vis |-> v, selected |-> app.selected]
      BY <3>1 DEF SceneInv, AppOK
    <3>3. "vis" \in dirty' BY <2>1 DEF ChangeVis
    <3> QED BY <3>2, <3>3 DEF SceneInv, AppOK
  <2>2. CASE MarkGeneric \/ Pause BY <2>2 DEF MarkGeneric, Pause, SceneInv, AppOK
  <2> QED BY <2>1, <2>2
<1>5. Counted' BY <1>1, <1>2, <1>3, ClickCounts
<1>6. SceneOK(scene)' /\ scene'.particles \in Seq(Flying) BY <1>1, SceneAlike
<1> QED BY <1>1, <1>2, <1>4, <1>5, <1>6, ClickKeeps

LEMMA SelectStep ==
  ASSUME SceneInv, NEW id, NEW entity, Select(id, entity)
  PROVE  SceneInv' /\ NoMore
<1>1. /\ Click /\ dirty' = dirty \cup {"selected"} /\ UNCHANGED <<generic, paused>>
  BY DEF Select
<1>2. scene' = [graph |-> scene.graph, vertices |-> scene.vertices, layout |-> scene.layout,
                ports |-> scene.ports, lines |-> scene.lines, particles |-> scene.particles,
                vis |-> scene.vis, selected |-> id]
  BY DEF Select, SceneInv, SceneOK
<1>3. app' = [graph |-> app.graph, up |-> app.up, messages |-> app.messages,
              calls |-> app.calls, vis |-> app.vis, selected |-> entity]
  BY DEF Select, SceneInv, AppOK
<1>4. AppOK' BY <1>3 DEF SceneInv, AppOK
<1>5. SceneOK(scene)' BY <1>2 DEF SceneInv, SceneOK
<1>6. paused' \in BOOLEAN BY <1>1 DEF SceneInv, Counted
<1>7. Counted' BY <1>1, <1>6, ClickCounts
<1>8. scene'.particles = scene.particles /\ scene.particles \in Seq(Flying)
  BY <1>2 DEF SceneInv
<1>9. /\ UNCHANGED <<app.graph, app.up, app.messages, app.calls, app.vis>>
      /\ UNCHANGED <<scene.graph, scene.vertices, scene.ports, scene.lines, scene.vis>>
  BY <1>2, <1>3
<1> QED BY <1>1, <1>4, <1>5, <1>7, <1>8, <1>9, ClickKeeps

LEMMA FreezeStep ==
  ASSUME SceneInv, ClickParticle \/ Release
  PROVE  SceneInv' /\ NoMore
<1> DEFINE ps == scene.particles
           n == Len(ps)
<1>0. /\ ps \in Seq(Flying) /\ n \in Nat /\ DOMAIN ps = 1..n
      /\ \A i \in 1..n : ps[i] \in Flying
  BY LenProperties, ElementOfSeq DEF SceneInv
<1>1. /\ Click /\ UNCHANGED <<generic, paused>>
      /\ dirty \subseteq dirty' /\ dirty' \subseteq dirty \cup {"selected"}
  BY DEF ClickParticle, Release
<1>2. \E qs \in Seq(Flying) : Len(qs) = n /\ scene' = [scene EXCEPT !.particles = qs]
  <2>1. CASE ClickParticle
    <3>1. PICK i \in Unfrozen(ps) : scene' = [scene EXCEPT !.particles[i].frozen = TRUE]
      BY <2>1 DEF ClickParticle
    <3> DEFINE p == [ps[i] EXCEPT !.frozen = TRUE]
               qs == [ps EXCEPT ![i] = p]
    <3>2. i \in 1..n BY <1>0 DEF Unfrozen
    <3>3. p \in Flying BY <1>0, <3>2 DEF Flying
    <3>4. scene' = [scene EXCEPT !.particles = qs] BY <3>1
    <3> HIDE DEF p
    <3>5. qs \in Seq(Flying) /\ Len(qs) = n BY <1>0, <3>2, <3>3, ExceptSeq
    <3> QED BY <3>4, <3>5
  <2>2. CASE Release
    <3> DEFINE qs == [i \in DOMAIN ps |-> [ps[i] EXCEPT !.frozen = FALSE]]
    <3>1. scene' = [scene EXCEPT !.particles = qs] BY <2>2 DEF Release
    <3>2. qs = [i \in 1..n |-> qs[i]] /\ \A i \in 1..n : qs[i] \in Flying
      BY <1>0 DEF Flying
    <3> HIDE DEF qs
    <3>3. qs \in Seq(Flying) /\ Len(qs) = n BY <1>0, <3>2, IsSeq
    <3> QED BY <3>1, <3>3
  <2> QED BY <2>1, <2>2
<1>3. PICK qs \in Seq(Flying) : Len(qs) = n /\ scene' = [scene EXCEPT !.particles = qs]
  BY <1>2
<1>4. scene' = [graph |-> scene.graph, vertices |-> scene.vertices, layout |-> scene.layout,
                ports |-> scene.ports, lines |-> scene.lines, particles |-> qs,
                vis |-> scene.vis, selected |-> scene.selected]
  BY <1>3 DEF SceneInv, SceneOK
<1>5. AppOK' /\ UNCHANGED <<app.graph, app.up, app.messages, app.calls, app.vis>>
  <2>1. CASE ClickParticle
    <3>1. app' = [graph |-> app.graph, up |-> app.up, messages |-> app.messages,
                  calls |-> app.calls, vis |-> app.vis, selected |-> Unselected]
      BY <2>1 DEF ClickParticle, SceneInv, AppOK
    <3> QED BY <3>1 DEF SceneInv, AppOK
  <2>2. CASE Release BY <2>2 DEF Release, SceneInv, AppOK
  <2> QED BY <2>1, <2>2
<1>6. SceneOK(scene)' BY <1>4 DEF SceneInv, SceneOK
<1>7. paused' \in BOOLEAN BY <1>1 DEF SceneInv, Counted
<1>8. Counted' BY <1>1, <1>7, ClickCounts
<1>9. /\ scene'.particles \in Seq(Flying) /\ Len(scene'.particles) = Len(scene.particles)
      /\ UNCHANGED <<scene.graph, scene.vertices, scene.ports, scene.lines, scene.vis>>
  BY <1>3, <1>4
<1> QED BY <1>1, <1>5, <1>6, <1>8, <1>9, ClickKeeps

(* An animation frame draws the scene, whose particles are within bounds.  *)
LEMMA TickStep ==
  ASSUME SceneInv, Tick
  PROVE  /\ SceneInv' /\ NoMore
         /\ scene'.lines = Drawn(scene).lines
         /\ scene'.vertices = Drawn(scene).vertices
<1> DEFINE s == Drawn(scene)
           ps == scene.particles
           n == Len(ps)
<1>1. /\ SceneOK(s) /\ s.graph = scene.graph /\ DOMAIN s.vertices = DOMAIN scene.vertices
      /\ s.ports = scene.ports /\ s.vis = scene.vis
      /\ scene.vertices = <<>> /\ scene.lines = {} => s.vertices = <<>> /\ s.lines = {}
  BY DrawnIs DEF SceneInv
<1>2. ps \in Seq(Flying) /\ n \in Nat BY LenProperties DEF SceneInv
<1>3. s = UpdateEdges(ComputeVisibility(scene)) BY DEF Drawn
<1> HIDE DEF s
<1>4. PICK landing, choice :
        /\ landing \in SUBSET Unfrozen(ps)
        /\ {i \in Unfrozen(ps) : ps[i].flown + 1 = MaxFlight} \subseteq landing
        /\ \A i \in landing : IF ps[i].next = {} THEN choice[i] = <<>>
                                                 ELSE choice[i] \in ps[i].next
        /\ scene' = [s EXCEPT !.particles =
                       SpawnAll(s, StillThere(s, ps, landing), Landed(s, ps, landing, choice))]
  BY <1>3 DEF Tick
<1> DEFINE still == StillThere(s, ps, landing)
           asked == Landed(s, ps, landing, choice)
           qs == SpawnAll(s, still, asked)
<1>5. still \in Seq(Flying) /\ Len(still) <= n BY <1>2, <1>4, StillTyped
<1>6. asked \in Seq(Started) BY <1>2, <1>4, LandedAsks
<1>7. ps = <<>> => qs = <<>>
  <2> SUFFICES ASSUME ps = <<>> PROVE qs = <<>> OBVIOUS
  <2>1. still = <<>> BY FlattenNothing DEF StillThere
  <2>2. asked = <<>> BY FlattenNothing DEF Landed
  <2> QED BY <2>1, <2>2, SpawnNothing
<1> HIDE DEF still, asked
<1>8. qs \in Bounded(n) /\ qs \in Seq(Flying)
  <2>1. still \in Bounded(n) BY <1>5, Within
  <2>2. qs \in Bounded(n) BY <1>2, <1>6, <2>1, SpawnAllKeeps
  <2> QED BY <2>2 DEF Bounded
<1>9. scene' = [s EXCEPT !.particles = qs] BY <1>4 DEF still, asked
<1> HIDE DEF qs
<1>10. scene' = [graph |-> s.graph, vertices |-> s.vertices, layout |-> s.layout,
                 ports |-> s.ports, lines |-> s.lines, particles |-> qs,
                 vis |-> s.vis, selected |-> s.selected]
  BY <1>1, <1>9 DEF SceneOK
<1>11. SceneOK(scene)' BY <1>1, <1>10 DEF SceneOK
<1>12. UNCHANGED <<app, dirty, generic, paused, frames, clicks>> BY DEF Tick
<1>13. AppOK' /\ Counted' /\ Bridged' BY <1>12 DEF SceneInv, AppOK, Counted, Bridged
<1>14. GraphShown' BY <1>1, <1>10, <1>12, GraphStays DEF SceneInv
<1>15. Emptied' BY <1>1, <1>7, <1>10, <1>12 DEF SceneInv, Emptied, Cleared
<1>16. SameVis' BY <1>1, <1>10, <1>12 DEF SceneInv, SameVis
<1>17. NoMore BY <1>8, <1>10 DEF NoMore
<1>18. (scene.particles \in Seq(Flying))' BY <1>8, <1>10
<1>19. SceneInv' BY <1>11, <1>13, <1>14, <1>15, <1>16, <1>18 DEF SceneInv
<1> QED BY <1>10, <1>17, <1>19 DEF s

LEMMA Reselected ==
  ASSUME NEW s, SceneOK(s), NEW qs, NEW chosen
  PROVE  [s EXCEPT !.particles = qs, !.selected = chosen]
           = [graph |-> s.graph, vertices |-> s.vertices, layout |-> s.layout,
              ports |-> s.ports, lines |-> s.lines, particles |-> qs,
              vis |-> s.vis, selected |-> chosen]
<1>1. s = [graph |-> s.graph, vertices |-> s.vertices, layout |-> s.layout,
           ports |-> s.ports, lines |-> s.lines, particles |-> s.particles,
           vis |-> s.vis, selected |-> s.selected]
  BY DEF SceneOK
<1> DEFINE t == [s EXCEPT !.particles = qs]
<1>2. t = [graph |-> s.graph, vertices |-> s.vertices, layout |-> s.layout,
           ports |-> s.ports, lines |-> s.lines, particles |-> qs,
           vis |-> s.vis, selected |-> s.selected]
  BY <1>1
<1>3. [s EXCEPT !.particles = qs, !.selected = chosen] = [t EXCEPT !.selected = chosen]
  BY Zenon
<1> HIDE DEF t
<1>4. [t EXCEPT !.selected = chosen]
        = [graph |-> s.graph, vertices |-> s.vertices, layout |-> s.layout,
           ports |-> s.ports, lines |-> s.lines, particles |-> qs,
           vis |-> s.vis, selected |-> chosen]
  BY <1>2
<1> QED BY <1>3, <1>4

LEMMA CommitStep ==
  ASSUME SceneInv, Commit
  PROVE  SceneInv' /\ NoMore
<1> DEFINE s == Redrawn
           n == Len(scene.particles)
<1>1. /\ SceneOK(s) /\ s.particles = scene.particles /\ s.vis = app.vis
      /\ app.graph # Null => /\ s.graph = app.graph
                             /\ DOMAIN s.vertices = Ids(app.graph)
                             /\ DOMAIN s.ports = Docked(app.graph)
      /\ Cleared(scene) /\ app.graph = Null => Cleared(s)
  BY RedrawnIs
<1>2. PICK passing \in SUBSET ToSet(app.messages) :
        LET shown == [s EXCEPT !.particles = SpawnAll(s, @, Animated(s, passing) \o Called(s)),
                               !.selected = IF "selected" \in dirty THEN app.selected[2] ELSE @]
        IN  scene' = IF "status" \in dirty /\ ~app.up THEN ClearScene(shown) ELSE shown
  BY DEF Commit
<1> HIDE DEF s
<1> DEFINE asked == Animated(s, passing) \o Called(s)
           qs == SpawnAll(s, s.particles, asked)
           chosen == IF "selected" \in dirty THEN app.selected[2] ELSE s.selected
           shown == [s EXCEPT !.particles = qs, !.selected = chosen]
           lost == "status" \in dirty /\ ~app.up
<1>3. scene' = IF lost THEN ClearScene(shown) ELSE shown BY <1>2
<1>4. scene.particles \in Seq(Flying) /\ n \in Nat BY LenProperties DEF SceneInv
<1>5. /\ asked \in Seq(Started)
      /\ app.messages = <<>> /\ app.calls = <<>> => asked = <<>>
  <2>1. s.graph \in Graphs \cup {Null} BY <1>1 DEF SceneOK
  <2> QED BY <2>1, CommitAsks
<1> HIDE DEF asked
<1>6. qs \in Bounded(n) /\ qs \in Seq(Flying)
  <2>1. Len(scene.particles) <= n BY <1>4
  <2>2. s.particles \in Bounded(n) BY <1>1, <1>4, <2>1, Within
  <2>3. qs \in Bounded(n) BY <1>4, <1>5, <2>2, SpawnAllKeeps
  <2> QED BY <2>3 DEF Bounded
<1>7. asked = <<>> => qs = s.particles BY SpawnNothing
<1> HIDE DEF qs, chosen
<1>8. shown = [graph |-> s.graph, vertices |-> s.vertices, layout |-> s.layout,
               ports |-> s.ports, lines |-> s.lines, particles |-> qs,
               vis |-> s.vis, selected |-> chosen]
  BY <1>1, Reselected
<1>9. SceneOK(shown) BY <1>1, <1>8 DEF SceneOK
<1> HIDE DEF shown
<1>10. app' = [graph |-> app.graph, up |-> app.up, messages |-> <<>>, calls |-> <<>>,
               vis |-> app.vis, selected |-> app.selected]
  BY DEF Commit, SceneInv, AppOK
<1>11. dirty' = {} /\ UNCHANGED <<generic, paused, frames, clicks>> BY DEF Commit
<1>12. AppOK' BY <1>10, EmptySeq DEF SceneInv, AppOK
<1>13. Counted' BY <1>11 DEF SceneInv, Counted
<1>14. Bridged' BY <1>10 DEF SceneInv, Bridged
<1>15. Ids(app.graph)' = Ids(app.graph) /\ Docked(app.graph)' = Docked(app.graph)
  BY <1>10, <1>11 DEF Ids, Docked, Connected, Services
<1>16. CASE lost
  <2>1. scene' = [graph |-> s.graph, vertices |-> <<>>, layout |-> {}, ports |-> <<>>,
                  lines |-> {}, particles |-> <<>>, vis |-> s.vis, selected |-> chosen]
    BY <1>3, <1>8, <1>16 DEF ClearScene
  <2>2. SceneOK(scene)' BY <1>1, <2>1 DEF SceneOK
  <2>3. (scene.particles \in Seq(Flying))' BY <2>1, EmptySeq
  <2>4. GraphShown' BY <1>10, <1>16 DEF SceneInv, Bridged, GraphShown
  <2>5. Emptied' BY <1>10, <2>1 DEF Emptied, Cleared
  <2>6. SameVis' BY <1>1, <1>10, <2>1 DEF SameVis
  <2>7. NoMore
    <3>1. <<>> \in Seq(Flying) /\ Len(<<>>) <= n BY <1>4, EmptySeq
    <3> QED BY <2>1, <3>1, Within DEF NoMore
  <2> QED BY <1>12, <1>13, <1>14, <2>2, <2>3, <2>4, <2>5, <2>6, <2>7 DEF SceneInv
<1>17. CASE ~lost
  <2>1. scene' = shown BY <1>3, <1>17
  <2>2. SceneOK(scene)' BY <1>9, <2>1 DEF SceneOK
  <2>3. (scene.particles \in Seq(Flying))' BY <1>6, <1>8, <2>1
  <2>4. GraphShown' BY <1>1, <1>8, <1>10, <1>15, <2>1 DEF GraphShown
  <2>5. Emptied'
    <3> SUFFICES ASSUME ~app'.up PROVE Cleared(scene)' /\ app'.calls = <<>> BY DEF Emptied
    <3>1. "status" \notin dirty /\ ~app.up BY <1>10, <1>17
    <3>2. /\ Cleared(scene) /\ app.calls = <<>> /\ app.graph = Null /\ app.messages = <<>>
      BY <3>1 DEF SceneInv, Emptied, Bridged
    <3>3. Cleared(s) /\ qs = <<>> BY <1>1, <1>5, <1>7, <3>2 DEF Cleared
    <3> QED BY <1>8, <1>10, <2>1, <3>3 DEF Cleared
  <2>6. SameVis' BY <1>1, <1>8, <1>10, <2>1 DEF SameVis
  <2>7. NoMore BY <1>6, <1>8, <2>1 DEF NoMore
  <2> QED BY <1>12, <1>13, <1>14, <2>2, <2>3, <2>4, <2>5, <2>6, <2>7 DEF SceneInv
<1> QED BY <1>16, <1>17

LEMMA SceneStutters ==
  ASSUME SceneInv, UNCHANGED vars
  PROVE  SceneInv' /\ NoMore
<1>1. AppOK' /\ Counted' /\ Bridged' BY DEF vars, SceneInv, AppOK, Counted, Bridged
<1>2. GraphShown' BY GraphStays DEF vars, SceneInv
<1>3. Emptied' /\ SameVis' BY DEF vars, SceneInv, Emptied, Cleared, SameVis
<1> QED BY <1>1, <1>2, <1>3, SceneAlike DEF vars, SceneInv

LEMMA NextScene ==
  ASSUME SceneInv, [Next]_vars
  PROVE  SceneInv' /\ NoMore
<1>1. CASE Tick BY <1>1, TickStep
<1>2. CASE Commit BY <1>2, CommitStep
<1>3. CASE GraphFrame \/ MessageFrame \/ CallFrame BY <1>3, FrameStep
<1>4. CASE Disconnects \/ Reconnects BY <1>4, BridgeStep
<1>5. CASE ChangeVis \/ MarkGeneric \/ Pause BY <1>5, PageStep
<1>6. CASE ClickVertex \/ ClickPort \/ ClickEmpty
  <2>1. \E id, entity : Select(id, entity) BY <1>6 DEF ClickVertex, ClickPort, ClickEmpty
  <2> QED BY <2>1, SelectStep
<1>7. CASE ClickParticle \/ Release BY <1>7, FreezeStep
<1>8. CASE UNCHANGED vars BY <1>8, SceneStutters
<1> QED BY <1>1, <1>2, <1>3, <1>4, <1>5, <1>6, <1>7, <1>8 DEF Next

LEMMA SceneInvariant == Spec => []SceneInv
<1>1. Init => SceneInv BY InitScene
<1>2. SceneInv /\ [Next]_vars => SceneInv' BY NextScene
<1> QED BY <1>1, <1>2, PTL DEF Spec

(* The types of the page and the scene, of what flies and of the layout    *)
(* (SceneManager.ts:139-167, ParticleSystem.ts:4-21).                      *)
THEOREM SceneTyped == Spec => []TypeOK
<1>1. SceneInv => TypeOK
  <2> SUFFICES ASSUME SceneInv PROVE TypeOK OBVIOUS
  <2>1. \A i \in DOMAIN scene.particles : /\ scene.particles[i].flown < MaxFlight
                                          /\ scene.particles[i].kind \in {"message", "call"}
    <3>1. \A i \in DOMAIN scene.particles : scene.particles[i] \in Flying
      BY LenProperties, ElementOfSeq DEF SceneInv
    <3>2. \A k \in 0..(MaxFlight - 1) : k < MaxFlight BY SceneAssumption
    <3> QED BY <3>1, <3>2 DEF Flying
  <2>2. paused \in BOOLEAN BY DEF SceneInv, Counted
  <2>3. frames \in 0..MaxReceived /\ clicks \in 0..MaxClicks BY DEF SceneInv, Counted
  <2>4. dirty \subseteq {"graph", "vis", "generic", "messages", "calls", "selected", "status"}
    BY DEF SceneInv, Counted
  <2>5. app.graph \in Graphs \cup {Null} BY DEF SceneInv, AppOK
  <2> QED BY <2>1, <2>2, <2>3, <2>4, <2>5 DEF SceneInv, SceneOK, TypeOK
<1> QED BY <1>1, SceneInvariant, PTL

(* Once everything dirty is committed the scene has the vertices and ports *)
(* of the page's graph, and none while the bridge is away                  *)
(* (RosIntrospection.tsx:158-165, 254-257, SceneManager.ts:641-649).       *)
THEOREM SceneIsThePage == Spec => []SceneFollowsPage
<1>1. SceneInv => SceneFollowsPage
  BY DEF SceneInv, GraphShown, Emptied, Cleared, SceneFollowsPage, SceneShowsGraph,
         EmptyWhenDown, Settled
<1> QED BY <1>1, SceneInvariant, PTL

(* However many particles a commit or an animation frame spawns, the step  *)
(* does not take them beyond MAX_PARTICLES but for one among frozen ones   *)
(* (ParticleSystem.ts:63, 233-236).                                        *)
THEOREM FewParticles == Spec => ParticlesBounded
<1> DEFINE Few == \/ Len(scene'.particles) <= MaxParticles
                  \/ Len(scene'.particles) <= Len(scene.particles)
                  \/ Cardinality(Unfrozen(scene'.particles)) <= 1
<1>1. SceneInv /\ [Next]_vars => [Few]_vars
  <2> SUFFICES ASSUME SceneInv, [Next]_vars PROVE Few OBVIOUS
  <2>1. scene'.particles \in Bounded(Len(scene.particles)) BY NextScene DEF NoMore
  <2> QED BY <2>1, UnfrozenIs DEF Bounded
<1> QED BY <1>1, SceneInvariant, PTL DEF Spec, ParticlesBounded

(* No line leads to what the user hid (RosIntrospection.tsx:264-355,       *)
(* SceneManager.ts:1264-1276).                                             *)
THEOREM NoHiddenLine == Spec => LinesHonest
<1> DEFINE Honest == Tick /\ Settled /\ app.graph # Null =>
              /\ scene'.lines \subseteq Arcs(app.graph)
              /\ \A a \in scene'.lines : \A id \in {a[1], a[2]} \cap DOMAIN scene'.vertices :
                   Unhidden(app.vis, id)
<1>1. SceneInv => Honest
  <2> SUFFICES ASSUME SceneInv, Tick, Settled, app.graph # Null
               PROVE  /\ scene'.lines \subseteq Arcs(app.graph)
                      /\ \A a \in scene'.lines :
                           \A id \in {a[1], a[2]} \cap DOMAIN scene'.vertices :
                             Unhidden(app.vis, id)
    OBVIOUS
  <2>1. scene.graph = app.graph /\ scene.vis = app.vis
    BY DEF SceneInv, GraphShown, SameVis, Settled
  <2>2. scene'.lines = Drawn(scene).lines /\ scene'.vertices = Drawn(scene).vertices
    BY TickStep
  <2> QED BY <2>1, <2>2, DrawnIs DEF SceneInv
<1> HIDE DEF Honest
<1>2. SceneInv /\ [Next]_vars => [Honest]_vars BY <1>1
<1>3. Spec => [][Honest]_vars BY <1>2, SceneInvariant, PTL DEF Spec
<1> QED BY <1>3 DEF Honest, LinesHonest

(* What nothing hides any more shows again (SceneManager.ts:915-961).      *)
THEOREM ShownAgain == Spec => NothingStaysHidden
<1> DEFINE Back == Tick /\ Settled /\ app.graph # Null =>
              \A id \in Ids(app.graph) \ DeadEnds(app.vis, app.graph) :
                Unhidden(app.vis, id) => scene'.vertices[id]
<1>1. SceneInv => Back
  <2> SUFFICES ASSUME SceneInv, Tick, Settled, app.graph # Null
               PROVE  \A id \in Ids(app.graph) \ DeadEnds(app.vis, app.graph) :
                        Unhidden(app.vis, id) => scene'.vertices[id]
    OBVIOUS
  <2>1. scene.graph = app.graph /\ scene.vis = app.vis /\ DOMAIN scene.vertices = Ids(app.graph)
    BY DEF SceneInv, GraphShown, SameVis, Settled
  <2>2. scene'.vertices = Drawn(scene).vertices BY TickStep
  <2> QED BY <2>1, <2>2, DrawnIs DEF SceneInv
<1> HIDE DEF Back
<1>2. SceneInv /\ [Next]_vars => [Back]_vars BY <1>1
<1>3. Spec => [][Back]_vars BY <1>2, SceneInvariant, PTL DEF Spec
<1> QED BY <1>3 DEF Back, NothingStaysHidden
=============================================================================
