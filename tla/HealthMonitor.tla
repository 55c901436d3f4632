--------------------------- MODULE HealthMonitor ---------------------------
(***************************************************************************)
(* The threads of dessin/networking/health_monitor.py beside the event     *)
(* loop of ModelDownloads, whose torrents they read.                       *)
(***************************************************************************)
EXTENDS ModelDownloads

CONSTANTS
  LowSeeders, \* min_seeders_threshold
  MaxGivenUp  \* bound: stops that do not wait for the thread to end

ASSUME MonitorConstants == LowSeeders \in Nat /\ MaxGivenUp \in Nat

VARIABLES
  monitoring, \* monitoring_active
  loops,      \* how many threads are in _monitor_loop
  health,     \* of each model: what model_health says of its seeders
  givenUp     \* history: the stops whose join timed out

monitorVars == <<monitoring, loops, health, givenUp>>
allVars == <<vars, monitorVars>>

InitAll ==
  /\ Init
  /\ monitoring = FALSE /\ loops = 0 /\ givenUp = 0
  /\ health = [m \in Models |-> "unknown"]

MayStart == ~monitoring

StartMonitoring ==
  /\ MayStart
  /\ monitoring' = TRUE
  /\ loops' = loops + 1
  /\ UNCHANGED <<health, givenUp>>

(* The join has a timeout shorter than the thread's sleep.                  *)
StopMonitoring ==
  /\ monitoring
  /\ monitoring' = FALSE
  /\ \/ loops' = loops - 1 /\ UNCHANGED givenUp
     \/ givenUp < MaxGivenUp /\ givenUp' = givenUp + 1 /\ UNCHANGED loops
  /\ UNCHANGED health

(* A thread wakes up and finds the flag down.                               *)
LoopEnds ==
  /\ ~monitoring /\ loops > 0
  /\ loops' = loops - 1
  /\ UNCHANGED <<monitoring, health, givenUp>>

\* Variant: a model in the table is not looked at again.
ReadOnce(m) ==
  IF health[m] = "unknown" /\ Visible(m)
    THEN IF seeders[<<m, torrent[m]>>] < LowSeeders THEN "low" ELSE "good"
    ELSE health[m]

(* A torrent out of the session keeps what was last said of it.             *)
Read(m) ==
  IF Visible(m) THEN IF seeders[<<m, torrent[m]>>] < LowSeeders THEN "low" ELSE "good"
                ELSE health[m]

(* The models that _check_health_alerts warns of when it reads the table    *)
(* (their availability, by peers, is left out).                             *)
Alerts == {m \in Models : health[m] = "low"}

UpdateHealth ==
  /\ monitoring /\ loops > 0
  /\ health' = [m \in Models |-> Read(m)]
  /\ UNCHANGED <<monitoring, loops, givenUp>>

MonitorNext == StartMonitoring \/ StopMonitoring \/ LoopEnds \/ UpdateHealth

NextAll == (Next /\ UNCHANGED monitorVars) \/ (MonitorNext /\ UNCHANGED vars)

SpecAll == InitAll /\ [][NextAll]_allVars

(* The event loop wakes its sleepers, the system schedules the threads.     *)
FairSpecAll ==
  /\ SpecAll
  /\ \A c \in Calls : WF_allVars(Look(c) /\ UNCHANGED monitorVars)
  /\ WF_allVars(UpdateHealth /\ UNCHANGED vars)
  /\ WF_allVars(LoopEnds /\ UNCHANGED vars)
=============================================================================
