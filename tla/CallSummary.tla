---------------------------- MODULE CallSummary ----------------------------
(***************************************************************************)
(* The summary of a direct call (core/call_summary.rs). Two threads feed   *)
(* it, one locked step at a time: the call's events (Call::inject_event)   *)
(* and the snapshots of a statistics report (StatsObserver). It keeps a    *)
(* ring buffer of stats sets, a summary per stream, how long the call was  *)
(* relayed, and when it connected; at the end it builds the record handed  *)
(* to the application.                                                     *)
(***************************************************************************)
EXTENDS Integers, Sequences, SequencesExt, FiniteSets

CONSTANTS Limits,             \* the values calculate_max_stats_sets may give, all positive
          Ssrcs,
          MAX_STREAM_SUMMARIES,
          SummarySize, SetSize, MAX_TELEMETRY_ENCODED_SIZE,   \* encoded sizes, in one unit
          MIN_RELAYED_FRACTION,
          ShortCall,          \* MIN_CALL_TIME_IGNORE_RELAY_FRACTION, in ticks
          Never,
          MaxTime, MaxReports, MaxEvents                      \* bounds

VARIABLES now,
          sets,       \* stats_sets: [id, events, report]; report is 0 or the report recorded there
          established,\* how many sets were ever established
          max, needs, \* max_stats_sets, needs_stats_set
          streams,    \* ssrcs that have a StreamSummary
          report,     \* the report the observer is delivering: number, and what is left of it
          relayed, relayedTime, relayStart,
          connect, ice,       \* connect_time, ice_connected_time
          events,     \* call events so far
          summary     \* the CallSummary, once built

vars == <<now, sets, established, max, needs, streams, report, relayed, relayedTime, relayStart,
          connect, ice, events, summary>>

NoSummary == [built |-> FALSE]

Init ==
  /\ now = 0
  /\ sets = <<>> /\ established = 0
  /\ max \in Limits
  /\ needs = TRUE
  /\ streams = {}
  /\ report = [number |-> 0, left |-> <<>>]
  /\ relayed = FALSE /\ relayedTime = 0 /\ relayStart = Never
  /\ connect = Never /\ ice = Never
  /\ events = 0
  /\ summary = NoSummary

----------------------------------------------------------------------------
establish_current_stats_set(s) ==
  Append(IF Len(s) = max THEN Tail(s) ELSE s,
         [id |-> established + 1, events |-> 0, report |-> {}])

(* Both CallInfo::on_event and on_stats_snapshot_ready first make sure     *)
(* there is a current set, then change it.                                 *)
OnCurrent(f(_)) ==
  /\ sets' = LET s == IF needs THEN establish_current_stats_set(sets) ELSE sets
             IN [s EXCEPT ![Len(s)] = f(@)]
  /\ established' = established + IF needs THEN 1 ELSE 0

on_event == OnCurrent(LAMBDA c : [c EXCEPT !.events = @ + 1]) /\ needs' = FALSE

(* A report is delivered snapshot by snapshot: Begin, streams, End.        *)
StatsReport ==
  /\ report.left = <<>> /\ report.number < MaxReports /\ ~summary.built
  /\ \E seen \in SUBSET Ssrcs :
       report' = [number |-> report.number + 1,
                  left |-> <<"Begin">> \o SetToSeq(seen) \o <<"End">>]
  /\ UNCHANGED <<now, sets, established, max, needs, streams, relayed, relayedTime, relayStart,
                 connect, ice, events, summary>>

update_stream_summary(ssrc) ==
  streams' = IF Cardinality(streams) =< MAX_STREAM_SUMMARIES THEN streams \cup {ssrc} ELSE streams

on_stats_snapshot_ready ==
  /\ report.left # <<>>
  /\ LET s == Head(report.left) IN
     /\ OnCurrent(LAMBDA c : IF s \in Ssrcs THEN [c EXCEPT !.report = @ \cup {report.number}] ELSE c)
     /\ needs' = (s = "End")
     /\ IF s \in Ssrcs THEN update_stream_summary(s) ELSE UNCHANGED streams
  /\ report' = [report EXCEPT !.left = Tail(@)]
  /\ UNCHANGED <<now, max, relayed, relayedTime, relayStart, connect, ice, events, summary>>

(* Call::proceed sets the limits once the configuration is known.          *)
update_limits_keeps_oldest(m) == sets' = SubSeq(sets, 1, IF m < Len(sets) THEN m ELSE Len(sets)) /\ max' = m

update_limits(m) ==
  /\ sets' = SubSeq(sets, IF m < Len(sets) THEN Len(sets) - m + 1 ELSE 1, Len(sets))
  /\ max' = m

proceed(m) ==
  /\ m # max /\ ~summary.built
  /\ update_limits(m)
  /\ UNCHANGED <<now, established, needs, streams, report, relayed, relayedTime, relayStart,
                 connect, ice, events, summary>>

----------------------------------------------------------------------------
Event == events < MaxEvents /\ events' = events + 1 /\ ~summary.built

(* IceConnected and IceDisconnected only leave a mark.                     *)
IceChanged ==
  /\ Event /\ on_event
  /\ UNCHANGED <<now, max, streams, report, relayed, relayedTime, relayStart, connect, ice, summary>>

IceNetworkRouteChanged(relayed_now) ==
  /\ Event /\ on_event
  /\ relayedTime' = relayedTime + IF ~relayed_now /\ relayed THEN now - relayStart ELSE 0
  /\ relayStart' = IF relayed_now /\ (~relayed \/ relayStart = Never) THEN now ELSE relayStart
  /\ relayed' = relayed_now
  /\ UNCHANGED <<now, max, streams, report, connect, ice, summary>>

(* ConnectedBeforeAccepted; ConnectedAndAccepted, ConnectingAfterAccepted. *)
StateChanged(accepted) ==
  /\ Event
  /\ ice' = IF ice = Never THEN now ELSE ice
  /\ connect' = IF accepted /\ connect = Never THEN now ELSE connect
  /\ UNCHANGED <<now, sets, established, max, needs, streams, report, relayed, relayedTime,
                 relayStart, summary>>

TimePasses ==
  /\ now < MaxTime /\ ~summary.built
  /\ now' = now + 1
  /\ UNCHANGED <<sets, established, max, needs, streams, report, relayed, relayedTime, relayStart,
                 connect, ice, events, summary>>

----------------------------------------------------------------------------
(* prune_if_too_large: the sets that remain and whether the summary does.  *)
Size(n, kept) == n * SetSize + IF kept THEN SummarySize ELSE 0

PruneOnce(n) ==
  IF Size(n, TRUE) =< MAX_TELEMETRY_ENCODED_SIZE THEN [sets |-> n, kept |-> TRUE]
  ELSE [sets |-> n - 1, kept |-> TRUE]

prune_if_too_large(n) ==
  LET fit == {k \in 1 .. n : Size(k, TRUE) =< MAX_TELEMETRY_ENCODED_SIZE} IN
  IF fit # {} THEN [sets |-> CHOOSE k \in fit : \A j \in fit : j =< k, kept |-> TRUE]
  ELSE [sets |-> 0, kept |-> FALSE]

build_call_summary ==
  /\ ~summary.built
  /\ LET p == prune_if_too_large(Len(sets)) IN
     summary' =
       [built |-> TRUE,
        start |-> IF connect = Never THEN 0 ELSE connect,
        end |-> IF connect = Never THEN 0 ELSE now,
        relayed |-> \/ relayedTime > now \div MIN_RELAYED_FRACTION
                    \/ relayedTime > 0 /\ now =< ShortCall,
        sets |-> SubSeq(sets, Len(sets) - p.sets + 1, Len(sets)),
        last |-> established,
        kept |-> p.kept]
  /\ UNCHANGED <<now, sets, established, max, needs, streams, report, relayed, relayedTime,
                 relayStart, connect, ice, events>>

Next ==
  \/ StatsReport \/ on_stats_snapshot_ready
  \/ \E m \in Limits : proceed(m)
  \/ IceChanged
  \/ \E r \in BOOLEAN : IceNetworkRouteChanged(r)
  \/ \E a \in BOOLEAN : StateChanged(a)
  \/ TimePasses
  \/ build_call_summary

Spec == Init /\ [][Next]_vars

----------------------------------------------------------------------------
(***************************************************************************)
(* The stats sets are the latest ones, in order and within the limit, and  *)
(* however events and snapshots interleave a set holds at most one report  *)
(* and a report is in one set: the time series never mixes two reports     *)
(* (establish_current_stats_set, needs_stats_set, update_limits).          *)
(***************************************************************************)
SetsAreLatest ==
  /\ Len(sets) =< max
  /\ \A i \in DOMAIN sets : sets[i].id = established - Len(sets) + i /\ Cardinality(sets[i].report) =< 1
  /\ \A i, j \in DOMAIN sets : sets[i].report \cap sets[j].report # {} => i = j
  /\ ~needs => sets # <<>>

(***************************************************************************)
(* The record handed over never exceeds the size limit, and the sets left  *)
(* out of it are the oldest ones (prune_if_too_large).                     *)
(***************************************************************************)
RecordFits ==
  summary.built =>
    /\ Size(Len(summary.sets), summary.kept) =< MAX_TELEMETRY_ENCODED_SIZE
    /\ \A i \in DOMAIN summary.sets : summary.sets[i].id = summary.last - Len(summary.sets) + i
    /\ summary.start =< summary.end

=============================================================================
