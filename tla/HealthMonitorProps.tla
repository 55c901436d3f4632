------------------------- MODULE HealthMonitorProps -------------------------
(***************************************************************************)
(* What the distribution of models promises.                               *)
(***************************************************************************)
EXTENDS HealthMonitor

DownloadsOf(m) == {c \in Calls : Waiting(c) /\ call[c].model = m}

(* Two downloads of one model overlap, or two monitors run, only as often   *)
(* as somebody stopped one that did not end: download_model's and           *)
(* start_monitoring's guards hold across their awaits and sleeps.           *)
OverlapsWereStopped ==
  /\ \A m \in Models : Cardinality(DownloadsOf(m)) <= stops[m] + (IF Free(m) THEN 0 ELSE 1)
  /\ loops <= givenUp + (IF monitoring THEN 1 ELSE 0)

(* Every download ends, whatever the swarm does and whoever stops it.       *)
DownloadsEnd == \A c \in Calls : Waiting(c) ~> ~Waiting(c)

(* While the monitor runs, a torrent that is short of seeders comes to be   *)
(* warned of, unless it recovers or leaves first.                           *)
ShortageIsSeen ==
  \A m \in Models :
    LET short == monitoring /\ Visible(m) /\ seeders[<<m, torrent[m]>>] < LowSeeders
    IN  short ~> (~short \/ m \in Alerts)
=============================================================================
