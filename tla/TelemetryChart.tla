----------------------------- MODULE TelemetryChart -----------------------------
(***************************************************************************)
(* The Telemetry page: the configuration of the series in                  *)
(* store/telemetryStore.ts, and the chart that views/Telemetry.tsx fills   *)
(* imperatively.  The page stays mounted, but its chart is mounted only    *)
(* while there is a series.                                                *)
(*                                                                         *)
(* Time is relative: a point has an age, the chart shows the ages from     *)
(* view.old (left edge) to view.new (right edge), and Elapse makes         *)
(* everything one unit older.  A unit is longer than the 100 ms of the     *)
(* interval.  A point is known by the signal it was taken from, and a      *)
(* series by its id; labels are as distinct as ids, because topics begin   *)
(* with a slash and trees do not.                                          *)
(***************************************************************************)
EXTENDS Integers, SequencesExt

CONSTANTS
  Topics,      \* Topics[t]: the numeric fields of topic t's payload
  BoardKeys,   \* BoardKeys[tree]: the numeric blackboard keys of a tree
  MAX_SERIES,
  Window,      \* LIVE_WINDOW_MS
  Lag,         \* how far the bridge's clock is behind the browser's
  Spans,       \* the spans a user can zoom to
  MaxPoints    \* bound: points of all datasets

ASSUME TelemetryAssumption ==
          /\ MAX_SERIES \in Nat \ {0} /\ MaxPoints \in Nat
          /\ Window \in Nat \ {0} /\ Lag \in 0..(3 * Window)
          /\ Spans \subseteq 1..(3 * Window + 1)

(* A series' id is the signal it charts; one without a tree id takes the   *)
(* key from every tree, but the page always passes one.                    *)
Signals == UNION {{<<"topic", t, f>> : f \in Topics[t]} : t \in DOMAIN Topics}
             \cup UNION {{<<"blackboard", b, k>> : k \in BoardKeys[b]} : b \in DOMAIN BoardKeys}

VARIABLES
  series,      \* useTelemetryStore: the series, [id, axis], in order
  active,      \* it records
  datasets,    \* chart.data.datasets: [label, axis, data]; data: points [of, age]
  view,        \* chart.options.scales.x: [old, new]
  panned,      \* isPannedRef
  span,        \* customSpanRef, 0 for null
  started,     \* the age of recordingStartRef, capped; NotStarted for null
  due          \* the interval has yet to fire in this unit of time

config == <<series, active>>
chart == <<datasets, view>>
refs == <<panned, span, started>>
teleVars == <<config, chart, refs, due>>

Oldest == 3 * Window + 1
NotStarted == -1
Charted == series # <<>>
Ticking == active /\ Charted

LiveView == [old |-> Window, new |-> 0]
-----------------------------------------------------------------------------
TeleInit == /\ series = <<>> /\ active = FALSE
            /\ datasets = <<>> /\ view = LiveView
            /\ panned = FALSE /\ span = 0 /\ started = NotStarted
            /\ due = FALSE

(* Mutant of Synced: data is kept by position.                             *)
SyncedByPosition(ss) ==
  [i \in DOMAIN ss |->
     [label |-> ss[i].id, axis |-> ss[i].axis,
      data |-> IF i \in DOMAIN datasets THEN datasets[i].data ELSE <<>>]]

(* The effect on [series]: the datasets are rebuilt, data is kept by label.*)
Synced(ss) ==
  [i \in DOMAIN ss |->
     [label |-> ss[i].id, axis |-> ss[i].axis,
      data |-> IF \E d \in Range(datasets) : d.label = ss[i].id
                 THEN (CHOOSE d \in Range(datasets) : d.label = ss[i].id).data
                 ELSE <<>>]]

(* The store's series become ss and are rendered.  The chart goes with the *)
(* last series; a new one shows the window its options hold, which may be  *)
(* any old one.                                                            *)
Configure(ss) ==
  /\ series' = ss
  /\ datasets' = IF ss = <<>> THEN <<>> ELSE Synced(ss)
  /\ IF ~Charted /\ ss # <<>>
       THEN \E past \in 0..Oldest : view' = [old |-> past + Window, new |-> past]
       ELSE UNCHANGED view
  /\ due' = (active /\ ss # <<>>)   \* the interval starts again
  /\ UNCHANGED refs

(* addSeries and addBlackboardSeries.                                      *)
AddSeries(id, axis) ==
  /\ Len(series) < MAX_SERIES
  /\ \A i \in DOMAIN series : series[i].id # id
  /\ Configure(Append(series, [id |-> id, axis |-> axis]))
  /\ UNCHANGED active

RemoveSeries(id) ==
  /\ \E i \in DOMAIN series : series[i].id = id
  /\ Configure(SelectSeq(series, LAMBDA s : s.id # id))
  /\ UNCHANGED active

Opposite(axis) == IF axis = "y1" THEN "y2" ELSE "y1"

UpdateAxis(id) ==
  /\ \E i \in DOMAIN series : series[i].id = id
  /\ Configure([i \in DOMAIN series |->
                  IF series[i].id = id THEN [series[i] EXCEPT !.axis = Opposite(@)]
                                       ELSE series[i]])
  /\ UNCHANGED active

(* setAxisRange, or a change of theme: the options are built anew and the  *)
(* chart takes their window, whatever the user had panned to.              *)
RebuildOptions == /\ Charted
                  /\ view' = LiveView
                  /\ UNCHANGED <<config, datasets, refs, due>>
-----------------------------------------------------------------------------
(* Recording.                                                              *)

Start == /\ ~active /\ active' = TRUE
         /\ started' = 0
         /\ due' = Charted
         /\ UNCHANGED <<series, chart, panned, span>>

Stop == /\ active /\ active' = FALSE /\ due' = FALSE
        /\ UNCHANGED <<series, chart, refs>>

(* handleReset.                                                            *)
ResetChart == /\ series' = <<>> /\ active' = FALSE /\ datasets' = <<>>
              /\ panned' = FALSE /\ span' = 0 /\ started' = NotStarted /\ due' = FALSE
              /\ UNCHANGED view

Push(ids) == [i \in DOMAIN datasets |->
                IF datasets[i].label \in ids
                  THEN [datasets[i] EXCEPT !.data =
                          Append(@, [of |-> datasets[i].label, age |-> Lag])]
                  ELSE datasets[i]]

HasRoom(ids) ==
  Len(FlattenSeq([i \in DOMAIN datasets |-> datasets[i].data])) +
    Cardinality({i \in DOMAIN datasets : datasets[i].label \in ids}) <= MaxPoints

(* A message or a blackboard with the values of ids: every charted series  *)
(* among them gets a point with the bridge's time.                         *)
TeleFrame(ids) ==
  /\ active /\ Charted /\ HasRoom(ids)
  /\ \E i \in DOMAIN series : series[i].id \in ids
  /\ datasets' = Push(ids)
  /\ UNCHANGED <<config, view, refs, due>>

(* A payload may lack some of the fields, a blackboard some of the keys.   *)
MessageEvent == \E t \in DOMAIN Topics : \E fs \in SUBSET Topics[t] :
                  TeleFrame({<<"topic", t, f>> : f \in fs})
BlackboardEvent == \E b \in DOMAIN BoardKeys : \E ks \in SUBSET BoardKeys[b] :
                     TeleFrame({<<"blackboard", b, k>> : k \in ks})
-----------------------------------------------------------------------------
(* Time and the window.                                                    *)

Older(a) == IF a = NotStarted THEN NotStarted ELSE IF a < Oldest THEN a + 1 ELSE a

Aging(data) == [k \in DOMAIN data |-> [data[k] EXCEPT !.age = Older(@)]]

Aged == /\ datasets' = [i \in DOMAIN datasets |-> [datasets[i] EXCEPT !.data = Aging(@)]]
        /\ view' = IF view.old < Oldest + Window
                     THEN [old |-> view.old + 1, new |-> view.new + 1] ELSE view
        /\ started' = Older(started)

Elapse == /\ ~due /\ due' = Ticking
          /\ Aged
          /\ UNCHANGED <<config, panned, span>>

(* Points are removed from the front, as long as they are too old.         *)
Pruned(data) == LET young == {k \in DOMAIN data : data[k].age <= 3 * Window}
                IN  IF young = {} THEN <<>> ELSE SubSeq(data, Min(young), Len(data))

(* Mutant of NextView: the window stays anchored.                          *)
NextViewAnchored(width) == [old |-> started, new |-> started - width]

(* While the window is not full it starts where the recording did, then    *)
(* its right edge is the present.                                          *)
NextView(width) == IF started < width
                     THEN [old |-> started, new |-> started - width]
                     ELSE [old |-> width, new |-> 0]

IntervalFires == /\ due /\ due' = FALSE
                 /\ datasets' = [i \in DOMAIN datasets |->
                                   [datasets[i] EXCEPT !.data = Pruned(@)]]
                 /\ view' = IF panned THEN view ELSE NextView(IF span = 0 THEN Window ELSE span)
                 /\ UNCHANGED <<config, refs>>
-----------------------------------------------------------------------------
(* What the user does to the view.                                         *)

Shifted(v, by) == [old |-> v.old + by, new |-> v.new + by]

Pan == /\ Charted
       /\ panned' = TRUE
       /\ \E by \in {-Window, 0, Window} :
            /\ view.new + by \in -Window..Oldest
            /\ view' = Shifted(view, by)
       /\ UNCHANGED <<config, datasets, span, started, due>>

(* The wheel zooms towards the pointer; live following keeps the new span, *)
(* and the user has not panned.                                            *)
Zoom == /\ Charted
        /\ \E w \in Spans, edge \in {view.old, view.new + span, view.new + Window} :
             /\ view' = [old |-> edge, new |-> edge - w]
             /\ \/ view.new <= edge - w /\ edge <= view.old
                \/ edge - w <= view.new /\ view.old <= edge
             /\ view'.old \in -Window..(Oldest + Window) /\ view'.new \in -(2 * Window)..Oldest
             /\ span' = w
        /\ UNCHANGED <<config, datasets, panned, started, due>>

SnapToLive == /\ Charted
              /\ panned' = FALSE /\ span' = 0 /\ view' = LiveView
              /\ UNCHANGED <<config, datasets, started, due>>

TeleNext == \/ \E id \in Signals : \/ \E axis \in {"y1", "y2"} : AddSeries(id, axis)
                               \/ RemoveSeries(id) \/ UpdateAxis(id)
            \/ RebuildOptions \/ Start \/ Stop \/ ResetChart
            \/ MessageEvent \/ BlackboardEvent
            \/ Elapse \/ IntervalFires
            \/ Pan \/ Zoom \/ SnapToLive

TeleSpec == TeleInit /\ [][TeleNext]_teleVars

(* Time passes and the interval fires.                                     *)
TeleFairSpec == TeleSpec /\ WF_teleVars(Elapse) /\ WF_teleVars(IntervalFires)
-----------------------------------------------------------------------------
(* The types; and the interval waits only while it is set.                 *)
Point == [of : Signals, age : 0..Oldest]
Axis == {"y1", "y2"}

TeleTypeOK ==
  /\ series \in Seq([id : Signals, axis : Axis]) /\ active \in BOOLEAN
  /\ datasets \in Seq([label : Signals, axis : Axis, data : Seq(Point)])
  /\ view \in [old : Int, new : Int]
  /\ panned \in BOOLEAN /\ span \in {0} \cup Spans /\ started \in 0..Oldest \cup {NotStarted}
  /\ due \in BOOLEAN
  /\ due => Ticking
  /\ active => started # NotStarted

(* A line is drawn from its own signal only, in the order of time, through *)
(* any reconfiguration while it records (Telemetry.tsx:213-236, 285-308).  *)
OwnPoints == \A d \in Range(datasets) :
               /\ \A p \in Range(d.data) : p.of = d.label
               /\ \A i, j \in DOMAIN d.data : i <= j => d.data[i].age >= d.data[j].age

(* Adding, removing or changing one series costs no other series, nor the  *)
(* changed one, a point: only the pruning and a reset discard any          *)
(* ("Preserves existing data by label", Telemetry.tsx:213).                *)
KeepsPoints ==
  [][IntervalFires \/ \A d \in Range(datasets), e \in Range(datasets') :
                         d.label = e.label => Len(d.data) <= Len(e.data)]_teleVars

(* A chart that records and was not panned comes back to a window with the *)
(* present in it, whatever is zoomed or configured meanwhile               *)
(* (Telemetry.tsx:255-269).                                                *)
FollowsLive == <>[](Ticking /\ ~panned) => []<>(view.new <= 0 /\ 0 <= view.old)
=============================================================================
