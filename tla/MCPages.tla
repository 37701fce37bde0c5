-------------------------------- MODULE MCPages --------------------------------
(* The event log and the telemetry chart, two pages of the shell that share  *)
(* nothing but the bridge's frames: a behaviour takes the steps of one of    *)
(* them, which is all that their interleavings could show.                   *)
EXTENDS EventLog, TelemetryChart

VARIABLE part

MCFrames == {[type |-> "log_event", level |-> "warn", hit |-> TRUE],
             [type |-> "message_event", level |-> "info", hit |-> FALSE],
             [type |-> "graph_update", level |-> "info", hit |-> FALSE]}
MCCaps == {2, 3}

(* Two signals: a field of a topic and a key of a blackboard.                *)
MCTopics == [pose |-> {"x"}]
MCBoardKeys == [MainTree |-> {"battery"}]
MCSpans == {2}

pageVars == <<logVars, teleVars, part>>

PagesInit == /\ LogInit /\ TeleInit /\ part \in {"log", "telemetry"}
             /\ part = "telemetry" => setting = [cap |-> DefaultCap, capture |-> TRUE]

Log(A) == part = "log" /\ A /\ UNCHANGED <<teleVars, part>>
Telemetry(A) == part = "telemetry" /\ A /\ UNCHANGED <<logVars, part>>

PagesNext == Log(LogNext) \/ Telemetry(TeleNext)

(* The fairness of TeleFairSpec.                                             *)
PagesSpec == /\ PagesInit /\ [][PagesNext]_pageVars
             /\ WF_pageVars(Telemetry(Elapse)) /\ WF_pageVars(Telemetry(IntervalFires))
=============================================================================
