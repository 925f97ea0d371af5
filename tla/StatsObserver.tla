--------------------------- MODULE StatsObserver ---------------------------
(***************************************************************************)
(* The statistics observer (webrtc/stats_observer.rs). WebRTC reports      *)
(* counters that only grow; the observer keeps the last report per stream  *)
(* and passes the increase on. A sender's counters start again when        *)
(* screen sharing starts or stops; a receiver is forgotten once it has     *)
(* been out of the reports for MAX_STATS_AGE. The raw report and the       *)
(* network route are handed over separately.                               *)
(***************************************************************************)
EXTENDS Integers, FiniteSetsExt

CONSTANTS Senders, Receivers,
          MAX_STATS_AGE, CLEAN_UP_STATS_TICKS,   \* in reports
          NoRoute, Routes,
          MaxCount, MaxReports, MaxResets        \* bounds

Streams == Senders \cup Receivers

VARIABLES count,     \* per stream, WebRTC's counter
          before,    \* history: per stream, what earlier incarnations had counted
                     \* when they were last reported
          present,   \* the streams WebRTC has (external)
          prev,      \* stats.audio_send ... video_recv: the last counter, or -1
          updated,   \* per receiver, the report that updated it
          received,  \* stats_received_count
          told,      \* history: per stream, the sum of the increases passed on
          next, toReport, routes,   \* next_network_route, to_report_network_route, routes passed on
          raw,       \* report_json: the number of the report waiting, or 0
          unseen,    \* history: the streams started again since their last report
          lost,      \* history: per stream, the counts hidden by a new sender that had
                     \* overtaken the old one when it was first reported
          resets

vars == <<count, before, present, prev, updated, received, told, next, toReport, routes, raw, unseen, lost, resets>>

Init ==
  /\ count = [s \in Streams |-> 0]
  /\ before = [s \in Streams |-> 0]
  /\ present = Streams
  /\ prev = [s \in Streams |-> -1]
  /\ updated = [s \in Streams |-> 0]
  /\ received = 0
  /\ told = [s \in Streams |-> 0]
  /\ next = NoRoute /\ toReport = NoRoute /\ routes = NoRoute
  /\ raw = 0
  /\ unseen = {}
  /\ lost = [s \in Streams |-> 0]
  /\ resets = 0

delta(curr, last) == IF curr > last THEN curr - last ELSE 0

(* or_default, and is_new_stream for senders.                              *)
PreviousOfSame(s) == IF prev[s] = -1 THEN 0 ELSE prev[s]

Previous(s) == IF prev[s] = -1 \/ (s \in Senders /\ count[s] < prev[s]) THEN 0 ELSE prev[s]

remove_old_stats(p) ==
  IF (received + 1) % CLEAN_UP_STATS_TICKS # 0 THEN p
  ELSE [s \in Streams |-> IF s \in Receivers /\ s \notin present
                             /\ received + 1 - updated[s] >= MAX_STATS_AGE THEN -1 ELSE p[s]]

on_stats_complete ==
  /\ received < MaxReports
  /\ received' = received + 1
  /\ raw' = received + 1
  /\ routes' = IF toReport = NoRoute THEN next ELSE toReport
  /\ toReport' = next
  /\ told' = [s \in Streams |-> told[s] + IF s \in present THEN delta(count[s], Previous(s)) ELSE 0]
  /\ updated' = [s \in Streams |-> IF s \in present THEN received + 1 ELSE updated[s]]
  /\ prev' = remove_old_stats([s \in Streams |-> IF s \in present THEN count[s] ELSE prev[s]])
  /\ unseen' = unseen \ present
  /\ lost' = [s \in Streams |-> lost[s] + IF s \in unseen \cap present /\ count[s] >= prev[s] THEN prev[s] ELSE 0]
  /\ UNCHANGED <<count, before, present, next, resets>>

set_network_route(r) ==
  /\ next # r /\ next' = r
  /\ UNCHANGED <<count, before, present, prev, updated, received, told, toReport, routes, raw, unseen, lost, resets>>

take_stats_report ==
  /\ raw # 0 /\ raw' = 0
  /\ UNCHANGED <<count, before, present, prev, updated, received, told, next, toReport, routes, unseen, lost, resets>>

(* WebRTC: a packet is counted; a sender is replaced by one that has sent  *)
(* nothing; a receiver leaves for good.                                    *)
Counts(s) ==
  /\ s \in present /\ count[s] < MaxCount
  /\ count' = [count EXCEPT ![s] = @ + 1]
  /\ UNCHANGED <<before, present, prev, updated, received, told, next, toReport, routes, raw, unseen, lost, resets>>

Resets(s) ==
  /\ resets < MaxResets /\ count[s] > 0
  /\ count' = [count EXCEPT ![s] = 0]
  /\ IF prev[s] = -1 \/ s \in unseen THEN UNCHANGED <<before, unseen>>
     ELSE /\ before' = [before EXCEPT ![s] = @ + prev[s]]
          /\ unseen' = unseen \cup {s}
  /\ resets' = resets + 1
  /\ UNCHANGED <<present, prev, updated, received, told, next, toReport, routes, raw, lost>>

Leaves(s) ==
  /\ s \in present
  /\ present' = present \ {s}
  /\ UNCHANGED <<count, before, prev, updated, received, told, next, toReport, routes, raw, unseen, lost, resets>>

Next ==
  \/ on_stats_complete
  \/ \E r \in Routes : set_network_route(r)
  \/ take_stats_report
  \/ \E s \in Streams : Counts(s)
  \/ \E s \in Senders : Resets(s)
  \/ \E s \in Receivers : Leaves(s)

Spec == Init /\ [][Next]_vars

----------------------------------------------------------------------------
(***************************************************************************)
(* Nothing a stream counted is passed on twice, and what a replaced sender *)
(* had reported is not lost: the increases passed on add up to what was    *)
(* reported, but for the count of an old sender that the new one overtook  *)
(* before the first report of it, which is_new_stream cannot see.          *)
(***************************************************************************)
IncreasesAddUp ==
  \A s \in Streams :
    /\ told[s] =< before[s] + count[s]
    /\ prev[s] # -1 => told[s] + lost[s] = before[s] + IF s \in unseen THEN 0 ELSE prev[s]

=============================================================================
