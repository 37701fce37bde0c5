-------------------------------- MODULE EventLog --------------------------------
(***************************************************************************)
(* The log of everything the bridge emits: the ring buffer of              *)
(* store/eventLogStore.ts, the shell that starts and stops its subscriber  *)
(* and keeps its capacity equal to the setting (components/AppShell.tsx),  *)
(* and the console that filters, windows and follows it                    *)
(* (views/Logging.tsx).                                                    *)
(*                                                                         *)
(* A store update is rendered, and its effects run, before the next frame  *)
(* is handled (useSyncExternalStore renders synchronously); the scroll     *)
(* event a moved list causes comes later.  Positions are counted in rows.  *)
(***************************************************************************)
EXTENDS Integers, Sequences, FiniteSets

CONSTANTS
  Frames,      \* the frames the bridge sends, see FrameOK
  Caps,        \* the log buffer sizes a user can choose
  DefaultCap,  \* DEFAULT_MAX_LOG_ENTRIES
  Rows,        \* rows the list has room for
  MaxFrames    \* bound: frames the subscriber handles

LevelNames == {"debug", "info", "warn", "error", "fatal"}

(* hit: whether its text contains what the user searches for.              *)
FrameOK(f) == /\ DOMAIN f = {"type", "level", "hit"}
              /\ f.level \in LevelNames /\ f.hit \in BOOLEAN

ASSUME EventLogAssumption ==
          /\ \A f \in Frames : FrameOK(f)
          /\ Caps \subseteq Nat \ {0} /\ DefaultCap \in Caps
          /\ Rows \in Nat \ {0} /\ MaxFrames \in Nat

VARIABLES
  entries,     \* useEventLogStore: the retained entries, oldest first
  maxEntries,
  dropped,
  seq,         \* the counter of nextId
  attached,    \* initEventLog's flag
  listening,   \* the log's listeners on the bridge's frames
  shell,       \* AppShell's effect is in force
  setting,     \* settingsStore: [cap, capture]
  console,     \* the console: NoConsole, or its state, see OpenConsole
  logged       \* history: the entries taken since the last clear

logStore == <<entries, maxEntries, dropped, seq, logged>>
wiring == <<attached, listening, shell>>
logVars == <<logStore, wiring, setting, console>>
-----------------------------------------------------------------------------
(* Frames and entries.                                                     *)

SourceOf == [log_event |-> "rosout", lifecycle_event |-> "lifecycle",
             service_invoked |-> "service", message_event |-> "topic",
             bridge_mode |-> "system"]

SourceNames == {"rosout", "lifecycle", "service", "topic", "system"}

LevelOf(f) ==
  CASE f.type = "log_event" -> f.level
    [] f.type = "lifecycle_event" -> IF f.level = "error" THEN "error" ELSE "info"
    [] f.type = "message_event" -> "debug"
    [] OTHER -> "info"

(* What normalise turns away: graph snapshots, frequencies, parameters and *)
(* bt frames, and messages unless they are captured.                       *)
Loggable(f) == /\ f.type \in DOMAIN SourceOf
               /\ f.type = "message_event" => setting.capture

Normalise(f) == [id |-> seq + 1, source |-> SourceOf[f.type],
                 level |-> LevelOf(f), hit |-> f.hit]

Entry == [id : 1..MaxFrames, source : SourceNames, level : LevelNames, hit : BOOLEAN]

(* Mutant of Trim: the newest are discarded.                               *)
TrimNewest(s, cap) == IF Len(s) > cap THEN SubSeq(s, 1, cap) ELSE s

(* slice(overflow): the oldest are discarded.                              *)
Trim(s, cap) == IF Len(s) > cap THEN SubSeq(s, Len(s) - cap + 1, Len(s)) ELSE s

Overflow(s, cap) == IF Len(s) > cap THEN Len(s) - cap ELSE 0
-----------------------------------------------------------------------------
(* The console.                                                            *)

NoConsole == [open |-> FALSE]

ConsoleState == [open : {TRUE}, levels : SUBSET LevelNames, sources : SUBSET SourceNames,
                 query : BOOLEAN, top : Nat, autoScroll : BOOLEAN, scrolled : BOOLEAN]

Passes(e, c) == /\ e.level \in c.levels /\ e.source \in c.sources
                /\ c.query => e.hit

(* filtered.length.                                                        *)
Total(es, c) == Cardinality({i \in DOMAIN es : Passes(es[i], c)})

(* scrollTop when the list is scrolled to its end.                         *)
Bottom(n) == IF n > Rows THEN n - Rows ELSE 0

AtBottom(n, top) == Bottom(n) - top < 2

(* Moving the list leaves a scroll event to be handled.                    *)
MovedTo(c, top) == [c EXCEPT !.top = top, !.scrolled = c.scrolled \/ top # c.top]

(* Mutant of Rendered: the effect does not depend on the number of lines.  *)
RenderedUnfollowed(c, before, now) ==
  IF c.top > Bottom(now) THEN MovedTo(c, Bottom(now)) ELSE c

(* A render with now instead of before lines: the browser clamps the       *)
(* list's position, and the effect on [filtered.length, autoScroll] scrolls*)
(* a list that follows to its end.                                         *)
Rendered(c, before, now) ==
  IF \/ c.top > Bottom(now)
     \/ c.autoScroll /\ before # now
    THEN MovedTo(c, Bottom(now)) ELSE c

Redraw == console' = IF console.open
                       THEN Rendered(console, Total(entries, console), Total(entries', console))
                       ELSE console
-----------------------------------------------------------------------------
(* Nothing is mounted yet; the settings are what localStorage holds.       *)
LogInit == /\ entries = <<>> /\ logged = <<>>
           /\ maxEntries = DefaultCap
           /\ dropped = 0 /\ seq = 0
           /\ attached = FALSE /\ listening = 0 /\ shell = FALSE
           /\ setting \in [cap : Caps, capture : BOOLEAN]
           /\ console = NoConsole

InitEventLog == IF attached THEN UNCHANGED <<attached, listening>>
                            ELSE attached' = TRUE /\ listening' = listening + 1

(* setMaxEntries(n).                                                       *)
SetMaxEntries(n) == /\ maxEntries' = n
                    /\ entries' = Trim(entries, n)
                    /\ dropped' = dropped + Overflow(entries, n)
                    /\ UNCHANGED <<seq, logged>>

ShellMounts == /\ ~shell /\ shell' = TRUE
               /\ InitEventLog
               /\ SetMaxEntries(setting.cap)
               /\ UNCHANGED <<setting, console>>

(* Mutant of ShellUnmounts: the flag survives the listener.                *)
ShellUnmountsAttached == /\ shell /\ shell' = FALSE
                         /\ listening' = listening - 1
                         /\ console' = NoConsole
                         /\ UNCHANGED <<attached, logStore, setting>>

(* The effect's clean-up, as StrictMode or a hot reload run it.            *)
ShellUnmounts == /\ shell /\ shell' = FALSE
                 /\ attached' = FALSE /\ listening' = listening - 1
                 /\ console' = NoConsole
                 /\ UNCHANGED <<logStore, setting>>

Take(e) == /\ entries' = Trim(Append(entries, e), maxEntries)
           /\ dropped' = dropped + Overflow(Append(entries, e), maxEntries)
           /\ logged' = Append(logged, e)

(* The subscriber: an id is taken even for a frame that is not logged.     *)
LogFrame(f) == /\ listening > 0 /\ seq < MaxFrames
               /\ seq' = seq + 1
               /\ IF Loggable(f) THEN Take(Normalise(f))
                                 ELSE UNCHANGED <<entries, dropped, logged>>
               /\ Redraw
               /\ UNCHANGED <<maxEntries, wiring, setting>>

(* The Settings page; every change of the store reaches setMaxEntries.     *)
ChangeSetting(s) == /\ shell /\ ~console.open
                    /\ setting' = s
                    /\ SetMaxEntries(s.cap)
                    /\ UNCHANGED <<wiring, console>>

ChooseCap == \E n \in Caps : ChangeSetting([setting EXCEPT !.cap = n])
ToggleCapture == ChangeSetting([setting EXCEPT !.capture = ~@])
ResetSettings == ChangeSetting([cap |-> DefaultCap, capture |-> TRUE])

(* Navigation: the console is mounted afresh, following, with every source *)
(* but the topics.                                                         *)
OpenConsole ==
  /\ shell /\ ~console.open
  /\ console' = Rendered([open |-> TRUE, levels |-> LevelNames,
                          sources |-> SourceNames \ {"topic"}, query |-> FALSE,
                          top |-> 0, autoScroll |-> TRUE, scrolled |-> FALSE],
                         -1, Total(entries, [levels |-> LevelNames, query |-> FALSE,
                                             sources |-> SourceNames \ {"topic"}]))
  /\ UNCHANGED <<logStore, wiring, setting>>

LeaveConsole == /\ console.open /\ console' = NoConsole
                /\ UNCHANGED <<logStore, wiring, setting>>

Clear == /\ console.open
         /\ entries' = <<>> /\ dropped' = 0 /\ logged' = <<>>
         /\ Redraw
         /\ UNCHANGED <<maxEntries, seq, wiring, setting>>

Toggle(S, x) == IF x \in S THEN S \ {x} ELSE S \cup {x}

FilterBy(c) == console' = Rendered(c, Total(entries, console), Total(entries, c))

ChangeFilter ==
  /\ console.open
  /\ \/ \E f \in Frames : FilterBy([console EXCEPT !.levels = Toggle(@, LevelOf(f))])
     \/ \E f \in {g \in Frames : g.type \in DOMAIN SourceOf} :
          FilterBy([console EXCEPT !.sources = Toggle(@, SourceOf[f.type])])
     \/ FilterBy([console EXCEPT !.query = ~@])
  /\ UNCHANGED <<logStore, wiring, setting>>

(* The user scrolls the list.                                              *)
Scroll == /\ console.open
          /\ \E t \in 0..Bottom(Total(entries, console)) : console' = MovedTo(console, t)
          /\ UNCHANGED <<logStore, wiring, setting>>

(* The scroll event: the console follows or not; an effect scrolls one that*)
(* begins to follow.                                                       *)
OnScroll ==
  /\ console.open /\ console.scrolled
  /\ \E n \in {Total(entries, console)} :
     \E c \in {[console EXCEPT !.scrolled = FALSE,
                               !.autoScroll = AtBottom(n, console.top)]} :
       console' = IF c.autoScroll /\ ~console.autoScroll THEN MovedTo(c, Bottom(n)) ELSE c
  /\ UNCHANGED <<logStore, wiring, setting>>

(* The Live button, shown while the console does not follow.               *)
JumpToLive ==
  /\ console.open /\ ~console.autoScroll
  /\ console' = [MovedTo(console, Bottom(Total(entries, console))) EXCEPT !.autoScroll = TRUE]
  /\ UNCHANGED <<logStore, wiring, setting>>

LogNext == \/ ShellMounts \/ ShellUnmounts
           \/ \E f \in Frames : LogFrame(f)
           \/ ChooseCap \/ ToggleCapture \/ ResetSettings
           \/ OpenConsole \/ LeaveConsole \/ Clear \/ ChangeFilter
           \/ Scroll \/ OnScroll \/ JumpToLive

LogSpec == LogInit /\ [][LogNext]_logVars
-----------------------------------------------------------------------------
(* The types.                                                              *)
LogTypeOK == /\ entries \in Seq(Entry) /\ logged \in Seq(Entry)
             /\ maxEntries \in Nat \ {0} /\ dropped \in Nat /\ seq \in 0..MaxFrames
             /\ attached \in BOOLEAN /\ listening \in Nat /\ shell \in BOOLEAN
             /\ setting \in [cap : Caps, capture : BOOLEAN]
             /\ console \in ConsoleState \cup {NoConsole}

(* However appends, changes of the capacity and clears interleave, the     *)
(* buffer is the newest part of what was taken since the last clear, never *)
(* over the capacity, and the count of the dropped lines the console shows *)
(* is exactly what is missing before it (eventLogStore.ts:49-54, 108-113). *)
NewestKept == /\ Len(entries) <= maxEntries
              /\ Len(entries) + dropped = Len(logged)
              /\ \A i \in DOMAIN entries : entries[i] = logged[i + dropped]

(* A mounted shell logs each frame once, an unmounted one never, through   *)
(* any number of mounts, and the buffer's capacity is the setting's        *)
(* (eventLogStore.ts:102-119, AppShell.tsx:25-48).                         *)
LogsWhileMounted == /\ listening = IF shell THEN 1 ELSE 0
                    /\ shell => maxEntries = setting.cap

(* A console that follows hides at most one of the newest lines once the   *)
(* list's last move has been reported, although the effect that scrolls    *)
(* does not run when a full buffer's length stays the same                 *)
(* (Logging.tsx:89-94).                                                    *)
FollowsTail == console.open /\ console.autoScroll /\ ~console.scrolled
                 => AtBottom(Total(entries, console), console.top)
=============================================================================
