--------------------------- MODULE StorageProofs ---------------------------
(***************************************************************************)
(* Proofs about what nodes keep and pass on: the distribution of models    *)
(* beside its health monitor, for any number of coroutines, models,        *)
(* torrents and monitor threads, and storage leases, for any files,        *)
(* owners, lengths, grace and warning periods.                             *)
(***************************************************************************)
EXTENDS HealthMonitorProps, StorageLeaseProps, FiniteSetTheorems, SequenceTheorems, TLAPS

-----------------------------------------------------------------------------
(* Downloads and the monitor                                                *)

Methods == {"bt", "hf"}
WaitingCalls == [state : {"waiting"}, model : Models, looks : Nat, rest : Seq(Methods)]

CallsTyped ==
  /\ call \in [Calls -> {Idle} \cup WaitingCalls]
  /\ active \in [Models -> {"none", "bt"}]
  /\ stops \in [Models -> Nat]

MonitorTyped == monitoring \in BOOLEAN /\ loops \in Int /\ givenUp \in Nat

DownloadsBounded ==
  \A m \in Models : Cardinality(DownloadsOf(m)) <= stops[m] + (IF Free(m) THEN 0 ELSE 1)

MonitorsBounded == loops <= givenUp \/ (monitoring /\ loops <= givenUp + 1)

OverlapInv == CallsTyped /\ MonitorTyped /\ DownloadsBounded /\ MonitorsBounded

LEMMA CallShapes ==
  /\ ~("waiting" = Idle.state)
  /\ \A r \in WaitingCalls : r.state = "waiting" /\ r # Idle /\ r.model \in Models /\ r.rest \in Seq(Methods)
BY DEF WaitingCalls, Idle

\* The coroutines are finitely many, and so are those that download one model.
LEMMA DownloadsFinite ==
  ASSUME NEW m
  PROVE  IsFiniteSet(DownloadsOf(m)) /\ Cardinality(DownloadsOf(m)) \in Nat
<1>1. DownloadsOf(m) \in SUBSET Calls /\ IsFiniteSet(Calls)
  BY DownloadConstants DEF DownloadsOf
<1>2. IsFiniteSet(DownloadsOf(m))
  BY <1>1, FS_Subset
<1> QED
  BY <1>2, FS_CardinalityType

\* Who begins to wait for a model that was free takes the entry, the one overlap allowed.
LEMMA FetchKeeps ==
  ASSUME CallsTyped, DownloadsBounded, NEW c \in Calls, NEW m \in Models, NEW v, NEW dir,
         NEW others \in Seq(Methods), call[c] = Idle, Free(m), FetchTorrent(c, m, v, dir, others)
  PROVE  CallsTyped' /\ DownloadsBounded'
<1> DEFINE w == [state |-> "waiting", model |-> m, looks |-> 0, rest |-> others]
<1>1. w \in WaitingCalls /\ w.state = "waiting" /\ w.model = m
  BY DEF WaitingCalls
<1>2. call' = [call EXCEPT ![c] = w] /\ active' = [active EXCEPT ![m] = "bt"] /\ stops' = stops
  BY DEF FetchTorrent
<1> HIDE DEF w
<1>3. CallsTyped'
  BY <1>1, <1>2 DEF CallsTyped
<1>4. \A n \in Models : DownloadsOf(n)' = IF n = m THEN DownloadsOf(n) \cup {c} ELSE DownloadsOf(n)
  <2>1. \A d \in Calls \ {c} : call'[d] = call[d]
    BY <1>2 DEF CallsTyped
  <2>2. call'[c] = w /\ ~Waiting(c)
    BY <1>2, CallShapes DEF CallsTyped, Waiting
  <2> QED
    BY <1>1, <2>1, <2>2, Zenon DEF DownloadsOf, Waiting
<1>5. \A n \in Models : Free(n)' <=> (n # m /\ Free(n))
  BY <1>2 DEF Free, CallsTyped
<1>6. ASSUME NEW n \in Models
      PROVE  Cardinality(DownloadsOf(n)') <= stops'[n] + (IF Free(n)' THEN 0 ELSE 1)
  <2>1. CASE n = m
    <3>1. IsFiniteSet(DownloadsOf(n)) /\ Cardinality(DownloadsOf(n)) \in Nat
      BY DownloadsFinite
    <3>2. Cardinality(DownloadsOf(n) \cup {c})
            = IF c \in DownloadsOf(n) THEN Cardinality(DownloadsOf(n)) ELSE Cardinality(DownloadsOf(n)) + 1
      BY <3>1, FS_AddElement
    <3>3. stops[n] \in Nat /\ Cardinality(DownloadsOf(n)) <= stops[n]
      BY <2>1, <3>1 DEF DownloadsBounded, CallsTyped
    <3>4. DownloadsOf(n)' = DownloadsOf(n) \cup {c} /\ ~Free(n)' /\ stops'[n] = stops[n]
      BY <1>2, <1>4, <1>5, <2>1
    <3> QED
      BY <3>1, <3>2, <3>3, <3>4
  <2>2. CASE n # m
    BY <1>2, <1>4, <1>5, <2>2 DEF DownloadsBounded
  <2> QED
    BY <2>1, <2>2
<1> QED
  BY <1>3, <1>6 DEF DownloadsBounded

\* Who ends takes an entry away, its own or another's: what is left was stopped.
LEMMA EndKeeps ==
  ASSUME CallsTyped, DownloadsBounded, NEW c \in Calls, NEW m \in Models, End(c, m), UNCHANGED stops,
         \/ call[c] = Idle /\ Free(m)
         \/ call[c] \in WaitingCalls /\ call[c].model = m
  PROVE  CallsTyped' /\ DownloadsBounded'
<1>1. call' = [call EXCEPT ![c] = Idle] /\ active' = [active EXCEPT ![m] = "none"] /\ stops' = stops
  BY DEF End
<1>2. CallsTyped'
  BY <1>1 DEF CallsTyped
<1>3. \A n \in Models : DownloadsOf(n)' = DownloadsOf(n) \ {c}
  <2>1. \A d \in Calls \ {c} : call'[d] = call[d]
    BY <1>1 DEF CallsTyped
  <2>2. call'[c] = Idle
    BY <1>1 DEF CallsTyped
  <2> QED
    BY <2>1, <2>2, CallShapes, Zenon DEF DownloadsOf, Waiting
<1>4. \A n \in Models : Free(n)' <=> (n = m \/ Free(n))
  BY <1>1 DEF Free, CallsTyped
<1>5. ASSUME NEW n \in Models
      PROVE  Cardinality(DownloadsOf(n)') <= stops'[n] + (IF Free(n)' THEN 0 ELSE 1)
  <2>1. /\ stops[n] \in Nat /\ Cardinality(DownloadsOf(n)) \in Nat
        /\ Cardinality(DownloadsOf(n)) <= stops[n] + (IF Free(n) THEN 0 ELSE 1)
    BY DownloadsFinite DEF CallsTyped, DownloadsBounded
  <2>2. Cardinality(DownloadsOf(n)') = IF c \in DownloadsOf(n) THEN Cardinality(DownloadsOf(n)) - 1
                                                              ELSE Cardinality(DownloadsOf(n))
    BY <1>3, DownloadsFinite, FS_RemoveElement
  <2>3. n = m => c \in DownloadsOf(n) \/ Free(n)
    BY CallShapes DEF DownloadsOf, Waiting
  <2> QED
    BY <1>1, <1>4, <2>1, <2>2, <2>3
<1> QED
  BY <1>2, <1>5 DEF DownloadsBounded

\* The methods left of a plan are a plan again.
LEMMA RestOfPlan ==
  ASSUME NEW plan \in Seq(Methods), NEW k \in 1 .. Len(plan)
  PROVE  SubSeq(plan, k + 1, Len(plan)) \in Seq(Methods)
<1>1. k + 1 \in Int /\ Len(plan) \in Int
  OBVIOUS
<1>2. \A i \in (k + 1) .. Len(plan) : plan[i] \in Methods
  BY DEF Methods
<1> QED
  BY <1>1, <1>2, SubSeqProperties

LEMMA TryKeeps ==
  ASSUME CallsTyped, DownloadsBounded, NEW c \in Calls, NEW m \in Models, NEW v, NEW dir,
         NEW plan \in Seq(Methods), Try(c, m, v, dir, plan),
         \/ call[c] = Idle /\ Free(m)
         \/ call[c] \in WaitingCalls /\ call[c].model = m /\ v = None
  PROVE  CallsTyped' /\ DownloadsBounded'
<1>1. CASE \E k \in 1 .. Len(plan) :
             FetchTorrent(c, m, v, dir, SubSeq(plan, k + 1, Len(plan)))
  <2>1. PICK k \in 1 .. Len(plan) : FetchTorrent(c, m, v, dir, SubSeq(plan, k + 1, Len(plan)))
    BY <1>1
  <2>2. v # None
    BY <2>1 DEF FetchTorrent
  <2> QED
    BY <2>1, <2>2, RestOfPlan, FetchKeeps
<1>2. CASE FetchFromHub(c, m) \/ Fail(c, m)
  <2>1. End(c, m) /\ UNCHANGED stops
    BY <1>2 DEF FetchFromHub, Fail
  <2> QED
    BY <2>1, EndKeeps
<1> QED
  BY <1>1, <1>2 DEF Try

\* A look ends the wait, tries what is left of the plan, or counts.
LEMMA LookKeeps ==
  ASSUME CallsTyped, DownloadsBounded, NEW c \in Calls, Look(c)
  PROVE  CallsTyped' /\ DownloadsBounded'
<1> DEFINE m == call[c].model
<1>1. call[c] \in WaitingCalls
  BY CallShapes DEF CallsTyped, Look, Waiting
<1>2. m \in Models /\ call[c].rest \in Seq(Methods)
  BY <1>1, CallShapes
<1>3. CASE End(c, m) /\ UNCHANGED stops
  BY <1>1, <1>2, <1>3, EndKeeps
<1>4. CASE Try(c, m, None, "default", call[c].rest)
  BY <1>1, <1>2, <1>4, TryKeeps
<1>5. CASE call' = [call EXCEPT ![c].looks = Looks(c)] /\ UNCHANGED <<active, stops>>
  <2> DEFINE w == [call[c] EXCEPT !.looks = Looks(c)]
  <2>1. w \in WaitingCalls /\ w.state = call[c].state /\ w.model = m
    BY <1>1 DEF WaitingCalls, Looks
  <2>2. call' = [call EXCEPT ![c] = w]
    BY <1>5
  <2> HIDE DEF w
  <2>3. CallsTyped'
    BY <1>5, <2>1, <2>2 DEF CallsTyped
  <2>4. \A d \in Calls : call'[d].state = call[d].state /\ call'[d].model = call[d].model
    BY <2>1, <2>2 DEF CallsTyped
  <2>5. \A n \in Models : DownloadsOf(n)' = DownloadsOf(n)
    BY <2>4, Zenon DEF DownloadsOf, Waiting
  <2> QED
    BY <1>5, <2>3, <2>5 DEF DownloadsBounded, Free
<1> QED
  BY <1>3, <1>4, <1>5 DEF Look

\* Who stops a download frees the entry and counts.
LEMMA StopKeeps ==
  ASSUME CallsTyped, DownloadsBounded, NEW m \in Models, StopDownload(m)
  PROVE  CallsTyped' /\ DownloadsBounded'
<1>1. /\ ~Free(m) /\ call' = call /\ active' = [active EXCEPT ![m] = "none"]
      /\ stops' = [stops EXCEPT ![m] = @ + 1]
  BY DEF StopDownload
<1>2. CallsTyped'
  BY <1>1 DEF CallsTyped
<1>3. \A n \in Models : DownloadsOf(n)' = DownloadsOf(n)
  BY <1>1 DEF DownloadsOf, Waiting
<1>4. ASSUME NEW n \in Models
      PROVE  Cardinality(DownloadsOf(n)) <= stops'[n] + (IF Free(n)' THEN 0 ELSE 1)
  <2>1. /\ stops[n] \in Nat /\ Cardinality(DownloadsOf(n)) \in Nat
        /\ Cardinality(DownloadsOf(n)) <= stops[n] + (IF Free(n) THEN 0 ELSE 1)
    BY DownloadsFinite DEF CallsTyped, DownloadsBounded
  <2>2. stops'[n] = (IF n = m THEN stops[n] + 1 ELSE stops[n]) /\ (Free(n)' <=> n = m \/ Free(n))
    BY <1>1 DEF CallsTyped, Free
  <2> QED
    BY <1>1, <2>1, <2>2
<1> QED
  BY <1>2, <1>3, <1>4 DEF DownloadsBounded

LEMMA InitOverlaps == InitAll => OverlapInv
<1> SUFFICES ASSUME InitAll
             PROVE  OverlapInv
  OBVIOUS
<1>1. CallsTyped
  BY DEF InitAll, Init, CallsTyped
<1>2. MonitorTyped /\ MonitorsBounded
  <2>1. monitoring = FALSE /\ ~monitoring /\ loops = 0 /\ givenUp = 0
    BY DEF InitAll
  <2>2. monitoring \in BOOLEAN
    BY <2>1, Zenon
  <2>3. loops \in Int /\ givenUp \in Nat /\ loops <= givenUp
    BY <2>1
  <2>4. MonitorsBounded
    BY <2>1, <2>3 DEF MonitorsBounded
  <2> QED
    BY <2>2, <2>3, <2>4 DEF MonitorTyped
<1>3. \A m \in Models : DownloadsOf(m) = {} /\ Free(m) /\ stops[m] = 0
  BY CallShapes DEF InitAll, Init, DownloadsOf, Waiting, Free
<1>4. DownloadsBounded
  BY <1>3, FS_EmptySet DEF DownloadsBounded
<1> QED
  BY <1>1, <1>2, <1>4 DEF OverlapInv

LEMMA CallsUntouched ==
  ASSUME CallsTyped, DownloadsBounded, UNCHANGED <<call, active, stops>>
  PROVE  CallsTyped' /\ DownloadsBounded'
BY DEF CallsTyped, DownloadsBounded, DownloadsOf, Waiting, Free

LEMMA NextKeepsDownloads ==
  ASSUME CallsTyped, DownloadsBounded, [Next]_vars
  PROVE  CallsTyped' /\ DownloadsBounded'
<1>1. ASSUME NEW c \in Calls, NEW m \in Models, NEW v, NEW dir, NEW plan \in Plans,
             DownloadModel(c, m, v, dir, plan)
      PROVE  CallsTyped' /\ DownloadsBounded'
  <2>1. /\ <<"bt">> \in Seq(Methods) /\ <<"hf">> \in Seq(Methods)
        /\ <<"bt", "hf">> \in Seq(Methods) /\ <<"hf", "bt">> \in Seq(Methods)
    BY DEF Methods
  <2>2. plan \in Seq(Methods)
    BY <2>1 DEF Plans
  <2> QED
    BY <1>1, <2>2, TryKeeps DEF DownloadModel
<1>2. ASSUME NEW c \in Calls, Look(c)
      PROVE  CallsTyped' /\ DownloadsBounded'
  BY <1>2, LookKeeps
<1>3. ASSUME NEW m \in Models, StopDownload(m)
      PROVE  CallsTyped' /\ DownloadsBounded'
  BY <1>3, StopKeeps
<1>4. ASSUME NEW m \in Models, UploadModel(m) \/ \E v \in Versions : DistributeModel(m, v)
      PROVE  UNCHANGED <<call, active, stops>>
  BY <1>4 DEF UploadModel, DistributeModel
<1>5. ASSUME NEW S \in SUBSET Models, Cleanup(S)
      PROVE  UNCHANGED <<call, active, stops>>
  BY <1>5 DEF Cleanup
<1>6. ASSUME NEW t \in Torrents, Complete(t) \/ \E n \in 0 .. MaxSeeders : SeedersChange(t, n)
      PROVE  UNCHANGED <<call, active, stops>>
  BY <1>6 DEF Complete, SeedersChange
<1>7. UNCHANGED vars => UNCHANGED <<call, active, stops>>
  BY DEF vars
<1> QED
  BY <1>1, <1>2, <1>3, <1>4, <1>5, <1>6, <1>7, CallsUntouched DEF Next

LEMMA MonitorKeeps ==
  ASSUME MonitorTyped, MonitorsBounded, MonitorNext \/ UNCHANGED monitorVars
  PROVE  MonitorTyped' /\ MonitorsBounded'
<1>1. CASE StartMonitoring
  BY <1>1 DEF StartMonitoring, MayStart, MonitorTyped, MonitorsBounded
<1>2. CASE StopMonitoring
  <2>1. loops \in Int /\ givenUp \in Nat /\ loops <= givenUp + 1
    BY <1>2 DEF StopMonitoring, MonitorTyped, MonitorsBounded
  <2>2. /\ monitoring' = FALSE
        /\ \/ loops' = loops - 1 /\ givenUp' = givenUp
           \/ givenUp' = givenUp + 1 /\ loops' = loops
    BY <1>2 DEF StopMonitoring
  <2>3. loops' \in Int /\ givenUp' \in Nat /\ loops' <= givenUp'
    BY <2>1, <2>2
  <2>4. MonitorTyped'
    <3>1. monitoring' \in BOOLEAN
      BY <2>2, Zenon
    <3> QED
      BY <2>3, <3>1 DEF MonitorTyped
  <2>5. MonitorsBounded'
    BY <2>2, <2>3 DEF MonitorsBounded
  <2> QED
    BY <2>4, <2>5
<1>3. CASE LoopEnds
  BY <1>3 DEF LoopEnds, MonitorTyped, MonitorsBounded
<1>4. CASE UpdateHealth \/ UNCHANGED monitorVars
  BY <1>4 DEF UpdateHealth, monitorVars, MonitorTyped, MonitorsBounded
<1> QED
  BY <1>1, <1>2, <1>3, <1>4 DEF MonitorNext

LEMMA NextKeepsOverlaps == OverlapInv /\ [NextAll]_allVars => OverlapInv'
<1> SUFFICES ASSUME OverlapInv, [NextAll]_allVars
             PROVE  OverlapInv'
  OBVIOUS
<1>1. [Next]_vars /\ (MonitorNext \/ UNCHANGED monitorVars)
  BY DEF NextAll, allVars
<1> QED
  BY <1>1, NextKeepsDownloads, MonitorKeeps DEF OverlapInv

\* Whatever coroutines ask for a model, stop it, make torrents of it and clean up, and
\* however the swarm and the monitor's threads behave, downloads of one model overlap
\* and monitors run side by side only as often as one was stopped that did not end
\* (download_model's look at active_downloads, start_monitoring's at monitoring_active).
THEOREM DownloadsSafe == SpecAll => []OverlapsWereStopped
<1>1. OverlapInv => OverlapsWereStopped
  <2> SUFFICES ASSUME OverlapInv
               PROVE  OverlapsWereStopped
    OBVIOUS
  <2>1. loops <= givenUp + (IF monitoring THEN 1 ELSE 0)
    <3>1. loops \in Int /\ givenUp \in Nat
      BY DEF OverlapInv, MonitorTyped
    <3>2. CASE monitoring
      BY <3>1, <3>2 DEF OverlapInv, MonitorsBounded
    <3>3. CASE ~monitoring
      BY <3>1, <3>3 DEF OverlapInv, MonitorsBounded
    <3> QED
      BY <3>2, <3>3
  <2> QED
    BY <2>1 DEF OverlapInv, DownloadsBounded, OverlapsWereStopped
<1> QED
  BY <1>1, InitOverlaps, NextKeepsOverlaps, PTL DEF SpecAll

\* Every sleep is counted and the count ends before the timeout: a coroutine that waits
\* has looked fewer than Timeout times, and whatever happens next, it still waits with
\* that count, has looked once more, or waits no longer.  Nothing, a new download of its
\* model included, begins its wait again.
WaitsAreCounted == \A c \in Calls : Waiting(c) => call[c].looks < Timeout

Counted(c) ==
  Waiting(c)' => call'[c].model = call[c].model /\ call'[c].looks \in {call[c].looks, call[c].looks + 1}

\* No method that is tried without a torrent at hand begins to wait.
LEMMA TryWithoutTorrentEnds ==
  ASSUME NEW c, NEW m, NEW dir, NEW plan, Try(c, m, None, dir, plan)
  PROVE  End(c, m)
BY DEF Try, FetchTorrent, FetchFromHub, Fail

LEMMA WaitsOf ==
  ASSUME CallsTyped, WaitsAreCounted, [Next]_vars
  PROVE  WaitsAreCounted' /\ \A c \in Calls : Waiting(c) => Counted(c)
<1>1. Timeout \in Nat /\ Timeout > 0
  BY DownloadConstants
<1>2. ASSUME UNCHANGED call
      PROVE  WaitsAreCounted' /\ \A c \in Calls : Waiting(c) => Counted(c)
  BY <1>2 DEF WaitsAreCounted, Waiting, Counted
<1>3. ASSUME NEW c \in Calls, NEW m \in Models, End(c, m)
      PROVE  WaitsAreCounted' /\ \A d \in Calls : Waiting(d) => Counted(d)
  <2>1. ~Waiting(c)' /\ \A d \in Calls \ {c} : call'[d] = call[d]
    BY <1>3, CallShapes DEF End, CallsTyped, Waiting
  <2> QED
    BY <2>1 DEF WaitsAreCounted, Waiting, Counted
<1>4. ASSUME NEW c \in Calls, NEW m \in Models, NEW v, NEW dir, NEW plan \in Plans,
             DownloadModel(c, m, v, dir, plan)
      PROVE  WaitsAreCounted' /\ \A d \in Calls : Waiting(d) => Counted(d)
  <2>1. CASE End(c, m)
    BY <1>3, <2>1
  <2>2. ASSUME NEW others, FetchTorrent(c, m, v, dir, others)
        PROVE  WaitsAreCounted' /\ \A d \in Calls : Waiting(d) => Counted(d)
    <3>1. call'[c].looks = 0 /\ \A d \in Calls \ {c} : call'[d] = call[d]
      BY <2>2 DEF FetchTorrent, CallsTyped
    <3>2. ~Waiting(c)
      BY <1>4, CallShapes DEF DownloadModel, Waiting
    <3> QED
      BY <1>1, <3>1, <3>2 DEF WaitsAreCounted, Waiting, Counted
  <2> QED
    BY <1>4, <2>1, <2>2 DEF DownloadModel, Try, FetchFromHub, Fail
<1>5. ASSUME NEW c \in Calls, Look(c)
      PROVE  WaitsAreCounted' /\ \A d \in Calls : Waiting(d) => Counted(d)
  <2>1. call[c] \in WaitingCalls /\ call[c].model \in Models /\ call[c].looks \in Nat
    BY <1>5, CallShapes DEF CallsTyped, Look, Waiting, WaitingCalls
  <2>2. CASE End(c, call[c].model)
    BY <1>3, <2>1, <2>2
  <2>3. CASE ~Over(c) /\ call' = [call EXCEPT ![c].looks = Looks(c)]
    <3> DEFINE w == [call[c] EXCEPT !.looks = Looks(c)]
    <3>1. w.state = call[c].state /\ w.model = call[c].model /\ w.looks = call[c].looks + 1
      BY <2>1 DEF WaitingCalls, Looks
    <3>2. call' = [call EXCEPT ![c] = w]
      BY <2>3
    <3> HIDE DEF w
    <3>3. call'[c] = w /\ \A d \in Calls \ {c} : call'[d] = call[d]
      BY <3>2 DEF CallsTyped
    <3>4. call[c].looks + 1 < Timeout
      BY <1>1, <2>1, <2>3 DEF Over, Looks
    <3> QED
      BY <3>1, <3>3, <3>4 DEF WaitsAreCounted, Waiting, Counted
  <2> QED
    BY <1>5, <2>2, <2>3, TryWithoutTorrentEnds DEF Look
<1>6. ASSUME NEW m \in Models, StopDownload(m) \/ UploadModel(m) \/ \E v \in Versions : DistributeModel(m, v)
      PROVE  UNCHANGED call
  BY <1>6 DEF StopDownload, UploadModel, DistributeModel
<1>7. ASSUME NEW S \in SUBSET Models, Cleanup(S)
      PROVE  UNCHANGED call
  BY <1>7 DEF Cleanup
<1>8. ASSUME NEW t \in Torrents, Complete(t) \/ \E n \in 0 .. MaxSeeders : SeedersChange(t, n)
      PROVE  UNCHANGED call
  BY <1>8 DEF Complete, SeedersChange
<1>9. UNCHANGED vars => UNCHANGED call
  BY DEF vars
<1> QED
  BY <1>2, <1>4, <1>5, <1>6, <1>7, <1>8, <1>9 DEF Next

(* No download waits longer than its timeout in looks, and no other         *)
(* coroutine, stop or clean-up sets its count back: the half of             *)
(* DownloadsEnd that needs no fairness (_download_via_bittorrent).          *)
THEOREM WaitsRunOut ==
  SpecAll => []WaitsAreCounted /\ [][\A c \in Calls : Waiting(c) => Counted(c)]_allVars
<1>1. InitAll => WaitsAreCounted
  BY CallShapes DEF InitAll, Init, WaitsAreCounted, Waiting
<1>2. OverlapInv /\ WaitsAreCounted /\ [NextAll]_allVars => WaitsAreCounted'
  BY WaitsOf DEF OverlapInv, NextAll, allVars
<1>3. OverlapInv /\ WaitsAreCounted /\ [NextAll]_allVars =>
        [\A c \in Calls : Waiting(c) => Counted(c)]_allVars
  BY WaitsOf DEF OverlapInv, NextAll, allVars
<1> QED
  BY <1>1, <1>2, <1>3, InitOverlaps, NextKeepsOverlaps, PTL DEF SpecAll

\* While the monitor runs a thread of it looks, and a look sees every shortage there is.
MonitorIsAlive == loops >= (IF monitoring THEN 1 ELSE 0)

LooksSeeShortages ==
  UpdateHealth =>
    \A m \in Models : Visible(m) /\ seeders[<<m, torrent[m]>>] < LowSeeders => (m \in Alerts)'

LEMMA AliveOf ==
  ASSUME MonitorTyped, MonitorIsAlive, MonitorNext \/ UNCHANGED monitorVars
  PROVE  MonitorIsAlive' /\ LooksSeeShortages
<1>1. loops \in Int /\ loops >= 0
  BY DEF MonitorTyped, MonitorIsAlive
<1>2. MonitorIsAlive'
  <2>1. CASE StartMonitoring
    BY <1>1, <2>1 DEF StartMonitoring, MonitorIsAlive
  <2>2. CASE StopMonitoring
    <3>1. loops >= 1 /\ monitoring' = FALSE /\ (loops' = loops - 1 \/ loops' = loops)
      BY <2>2 DEF StopMonitoring, MonitorIsAlive
    <3> QED
      BY <1>1, <3>1 DEF MonitorIsAlive
  <2>3. CASE LoopEnds
    BY <1>1, <2>3 DEF LoopEnds, MonitorIsAlive
  <2>4. CASE UpdateHealth \/ UNCHANGED monitorVars
    BY <2>4 DEF UpdateHealth, monitorVars, MonitorIsAlive
  <2> QED
    BY <2>1, <2>2, <2>3, <2>4 DEF MonitorNext
<1>3. LooksSeeShortages
  BY DEF LooksSeeShortages, UpdateHealth, Read, Alerts
<1> QED
  BY <1>2, <1>3

(* However monitors are stopped and started again, and however late their   *)
(* threads find out, a running monitor has a thread, and its next look sees *)
(* whatever is short of seeders: the half of ShortageIsSeen that needs no   *)
(* fairness (start_monitoring, stop_monitoring, _monitor_loop).             *)
THEOREM ShortagesAreLookedFor ==
  SpecAll => []MonitorIsAlive /\ [][LooksSeeShortages]_allVars
<1>1. InitAll => MonitorIsAlive
  BY DEF InitAll, MonitorIsAlive
<1>2. OverlapInv /\ MonitorIsAlive /\ [NextAll]_allVars => MonitorIsAlive'
  BY AliveOf DEF OverlapInv, NextAll, allVars
<1>3. OverlapInv /\ MonitorIsAlive /\ [NextAll]_allVars => [LooksSeeShortages]_allVars
  BY AliveOf DEF OverlapInv, NextAll, allVars
<1> QED
  BY <1>1, <1>2, <1>3, InitOverlaps, NextKeepsOverlaps, PTL DEF SpecAll

-----------------------------------------------------------------------------
(* Leases                                                                   *)

LEMMA LeaseConstantTypes ==
  /\ MinBlocks \in Nat \ {0} /\ MaxBlocks \in Nat \ {0} /\ Warn \in Nat \ {0}
  /\ MaxRest \in Nat \ {0} /\ MaxLapse \in Nat \ {0} /\ Grace \in Nat
BY LeaseConstants

Statuses == {"none", "active", "warning", "expired", "deletion_eligible", "deleted", "cancelled"}

\* Unless somebody paid while its deletion was on its way: the data of an open lease is
\* on the disk or its deletion not reported yet, and what is to be deleted, or was, had
\* run out.  A lease nobody paid for in this block is active only with blocks left.
LeaseInv ==
  /\ status \in [Files -> Statuses]
  /\ rest \in [Files -> Int]
  /\ \A f \in Files : ~Closed(f) => f \in disk \cup unmarked \cup overtaken
  /\ \A f \in Files \ overtaken :
       Condemned(f) \/ status[f] \in {"deletion_eligible", "deleted"} => rest[f] <= -Grace
  /\ \A f \in Files : status[f] = "active" /\ f \notin repaid => rest[f] > 0

LEMMA InitLease == InitLeases => LeaseInv
BY DEF InitLeases, LeaseInv, Statuses, Closed, Condemned

\* check_block: what an open lease becomes at the end of a block.
LEMMA AdvancedShape ==
  ASSUME NEW s \in Statuses, NEW r \in Int
  PROVE  /\ Advanced(s, r) \in Statuses
         /\ Advanced(s, r) \in {"none", "deleted", "cancelled"} <=> s \in {"none", "deleted", "cancelled"}
         /\ s \in {"none", "deleted", "cancelled"} => Advanced(s, r) = s
         /\ Advanced(s, r) = "deletion_eligible" => s = "deletion_eligible" \/ r <= -Grace
         /\ Advanced(s, r) = "active" => s = "active" /\ r > Warn
         /\ s = "active" /\ Advanced(s, r) \in {"expired", "deletion_eligible"} => r <= 0
BY LeaseConstantTypes, SMTT(30)
   DEF Advanced, Eligible, Expired, Warned, IsDeletable,
       IsExpired, IsInWarning, Statuses

LEMMA EndBlockKeepsLease ==
  ASSUME LeaseInv, EndBlock
  PROVE  LeaseInv'
<1>1. \A f \in Files : /\ status'[f] = Advanced(status[f], rest[f])
                       /\ rest'[f] = IF Closed(f) THEN rest[f] ELSE rest[f] - 1
  BY DEF EndBlock
<1>2. \A f \in Files : status[f] \in Statuses /\ rest[f] \in Int
  BY DEF LeaseInv
<1>3. status' \in [Files -> Statuses] /\ rest' \in [Files -> Int]
  BY <1>2, AdvancedShape DEF EndBlock
<1>4. \A f \in Files : Closed(f)' <=> Closed(f)
  BY <1>1, <1>2, AdvancedShape DEF Closed
<1>5. \A f \in Files : ~Closed(f)' => f \in (disk \cup unmarked \cup overtaken)'
  BY <1>4 DEF LeaseInv, EndBlock
<1>6. ASSUME NEW f \in Files, f \notin overtaken',
             Condemned(f)' \/ status'[f] \in {"deletion_eligible", "deleted"}
      PROVE  rest'[f] <= -Grace
  <2>1. f \notin overtaken
    BY <1>6 DEF EndBlock
  <2>2. Condemned(f)' => Condemned(f) \/ status'[f] = "deletion_eligible"
    BY DEF EndBlock, Condemned
  <2>3. status'[f] = "deleted" => status[f] = "deleted"
    BY <1>1, <1>2, AdvancedShape
  <2>4. rest[f] <= -Grace
    <3>1. CASE Condemned(f) \/ status'[f] = "deleted"
      BY <2>1, <2>3, <3>1 DEF LeaseInv
    <3>2. CASE status'[f] = "deletion_eligible"
      BY <1>1, <1>2, <2>1, <3>2, AdvancedShape DEF LeaseInv
    <3> QED
      BY <1>6, <2>2, <3>1, <3>2
  <2> QED
    BY <1>1, <1>2, <2>4, LeaseConstantTypes
<1>7. ASSUME NEW f \in Files, status'[f] = "active"
      PROVE  rest'[f] > 0
  <2>1. status[f] = "active" /\ rest[f] > Warn
    BY <1>1, <1>2, <1>7, AdvancedShape
  <2> QED
    BY <1>1, <1>2, <2>1, LeaseConstantTypes DEF Closed
<1> QED
  BY <1>3, <1>5, <1>6, <1>7 DEF LeaseInv

\* The calls of owners and of the node.
LEMMA CallsKeepLease ==
  ASSUME LeaseInv, NEW f \in Files,
         \/ \E o \in Owners, blocks \in 1 .. MaxBlocks : CreateLease(f, o, blocks)
         \/ \E blocks \in 1 .. MaxBlocks : RenewLease(f, blocks)
         \/ \E o \in Owners : CancelLease(f, o)
         \/ Delete(f) \/ MarkDeleted(f)
  PROVE  LeaseInv'
<1>1. CASE \E o \in Owners, blocks \in 1 .. MaxBlocks : CreateLease(f, o, blocks)
  <2>1. PICK o \in Owners, blocks \in 1 .. MaxBlocks : CreateLease(f, o, blocks)
    BY <1>1
  <2>2. blocks \in Int
    BY LeaseConstantTypes
  <2> QED
    BY <2>1, <2>2 DEF CreateLease, LeaseInv, Closed, Condemned, Statuses
<1>2. CASE \E blocks \in 1 .. MaxBlocks : RenewLease(f, blocks)
  <2>1. PICK blocks \in 1 .. MaxBlocks : RenewLease(f, blocks)
    BY <1>2
  <2>2. rest[f] + blocks \in Int
    BY LeaseConstantTypes DEF LeaseInv
  <2> QED
    BY <2>1, <2>2 DEF RenewLease, Prolonged, LeaseInv, Closed, Condemned, Statuses
<1>3. CASE \E o \in Owners : CancelLease(f, o)
  BY <1>3 DEF CancelLease, LeaseInv, Closed, Condemned, Statuses
<1>4. CASE Delete(f)
  BY <1>4 DEF Delete, LeaseInv, Closed, Condemned, Statuses
<1>5. CASE MarkDeleted(f)
  BY <1>5 DEF MarkDeleted, LeaseInv, Closed, Condemned, Statuses
<1> QED
  BY <1>1, <1>2, <1>3, <1>4, <1>5

LEMMA NextKeepsLease == LeaseInv /\ [NextLeases]_leaseVars => LeaseInv'
<1> SUFFICES ASSUME LeaseInv, [NextLeases]_leaseVars
             PROVE  LeaseInv'
  OBVIOUS
<1>1. CASE EndBlock
  BY <1>1, EndBlockKeepsLease
<1>2. CASE UNCHANGED leaseVars
  BY <1>2 DEF leaseVars, LeaseInv, Closed, Condemned
<1> QED
  BY <1>1, <1>2, CallsKeepLease DEF NextLeases

(* Before its paid time and grace are over, the data of an open lease is on *)
(* the disk and no lease is closed as deleted, however renewals, new leases *)
(* and deletions meet, unless the payment itself came between check_block's *)
(* order to delete and the mark_deleted that ends it.                       *)
THEOREM PaidDataSafe == SpecLeases => []PaidDataIsKept
<1>1. LeaseInv => PaidDataIsKept
  <2> SUFFICES ASSUME LeaseInv, NEW f \in Files \ overtaken, rest[f] > -Grace
               PROVE  (Closed(f) \/ f \in disk) /\ status[f] # "deleted"
    BY DEF PaidDataIsKept
  <2>1. rest[f] \in Int /\ ~(rest[f] <= -Grace)
    BY LeaseConstantTypes DEF LeaseInv
  <2>2. f \notin unmarked /\ status[f] # "deleted"
    BY <2>1 DEF LeaseInv, Condemned
  <2> QED
    BY <2>2 DEF LeaseInv
<1>2. LeaseInv /\ [NextLeases]_leaseVars => LeaseInv'
  BY NextKeepsLease
<1> QED
  BY <1>1, <1>2, InitLease, PTL DEF SpecLeases

(* No lease expires without a warning, unless it was paid for in the very   *)
(* block it ran out in.                                                     *)
THEOREM ExpirySafe == SpecLeases => ExpiryIsAnnounced
<1>1. LeaseInv /\ [NextLeases]_leaseVars =>
        [\A f \in Files : status[f] = "active" /\ status'[f] \in {"expired", "deletion_eligible"}
                            => f \in repaid]_leaseVars
  <2> SUFFICES ASSUME LeaseInv, NextLeases, NEW f \in Files, status[f] = "active",
                      status'[f] \in {"expired", "deletion_eligible"}
               PROVE  f \in repaid
    OBVIOUS
  <2>1. CASE EndBlock
    <3>1. status'[f] = Advanced(status[f], rest[f]) /\ rest[f] \in Int /\ status[f] \in Statuses
      BY <2>1 DEF EndBlock, LeaseInv
    <3>2. rest[f] <= 0
      BY <3>1, AdvancedShape
    <3> QED
      BY <3>1, <3>2 DEF LeaseInv
  <2>2. CASE \E g \in Files :
               \/ \E o \in Owners, blocks \in 1 .. MaxBlocks : CreateLease(g, o, blocks)
               \/ \E blocks \in 1 .. MaxBlocks : RenewLease(g, blocks)
               \/ \E o \in Owners : CancelLease(g, o)
               \/ Delete(g) \/ MarkDeleted(g)
    BY <2>2 DEF CreateLease, RenewLease, CancelLease, Delete, MarkDeleted, LeaseInv
  <2> QED
    BY <2>1, <2>2 DEF NextLeases
<1>2. LeaseInv /\ [NextLeases]_leaseVars => LeaseInv'
  BY NextKeepsLease
<1> QED
  BY <1>1, <1>2, InitLease, PTL DEF SpecLeases, ExpiryIsAnnounced

\* What makes a lapsed lease go: at most Grace blocks after the paid time the node is told
\* to delete, unless the lease was paid for in this very block, and it forgets that only
\* when it deletes.
DoomInv ==
  /\ \A f \in Files : status[f] = "deletion_eligible" => f \in doomed \/ f \notin disk
  /\ \A f \in Files : ~Closed(f) /\ rest[f] < -Grace /\ f \notin repaid => status[f] = "deletion_eligible"

LapsedIsDoomed ==
  \A f \in Files : ~Closed(f) /\ rest[f] < -Grace /\ f \notin repaid => f \in doomed \/ f \notin disk

LEMMA AdvancesToEligible ==
  ASSUME NEW s \in Statuses \ {"none", "deleted", "cancelled"}, NEW r \in Int,
         r <= -Grace \/ s = "deletion_eligible"
  PROVE  Advanced(s, r) = "deletion_eligible"
<1>1. r <= -Grace => IsDeletable(r) /\ IsExpired(r) /\ ~IsInWarning(r)
  BY LeaseConstantTypes DEF IsDeletable, IsExpired, IsInWarning
<1>2. CASE r <= -Grace
  BY <1>1, <1>2 DEF Advanced, Eligible, Expired, Warned, Statuses
<1>3. CASE s = "deletion_eligible"
  BY <1>3 DEF Advanced, Eligible, Expired, Warned
<1> QED
  BY <1>2, <1>3

LEMMA EndBlockKeepsDoom ==
  ASSUME LeaseInv, DoomInv, EndBlock
  PROVE  DoomInv'
<1>1. /\ \A f \in Files : /\ status'[f] = Advanced(status[f], rest[f])
                          /\ rest'[f] = IF Closed(f) THEN rest[f] ELSE rest[f] - 1
      /\ doomed' = doomed \cup {f \in Files : status[f] # "deletion_eligible" /\ status'[f] = "deletion_eligible"}
  BY DEF EndBlock
<1>2. \A f \in Files : status[f] \in Statuses /\ rest[f] \in Int
  BY DEF LeaseInv
<1>3. \A f \in Files : status'[f] = "deletion_eligible" => f \in doomed' \/ f \notin disk'
  BY <1>1 DEF DoomInv, EndBlock
<1>4. ASSUME NEW f \in Files, ~Closed(f)', rest'[f] < -Grace
      PROVE  status'[f] = "deletion_eligible"
  <2>1. ~Closed(f)
    BY <1>1, <1>2, <1>4, AdvancedShape DEF Closed
  <2>2. rest[f] <= -Grace
    BY <1>1, <1>2, <1>4, <2>1, LeaseConstantTypes
  <2> QED
    BY <1>1, <1>2, <2>1, <2>2, AdvancesToEligible DEF Closed
<1> QED
  BY <1>3, <1>4 DEF DoomInv

LEMMA NextKeepsDoom == LeaseInv /\ DoomInv /\ [NextLeases]_leaseVars => DoomInv'
<1> SUFFICES ASSUME LeaseInv, DoomInv, [NextLeases]_leaseVars
             PROVE  DoomInv'
  OBVIOUS
<1>1. CASE EndBlock
  BY <1>1, EndBlockKeepsDoom
<1>2. CASE UNCHANGED leaseVars
  BY <1>2 DEF leaseVars, DoomInv, Closed
<1>3. ASSUME NEW f \in Files, NEW o \in Owners, NEW blocks \in 1 .. MaxBlocks, CreateLease(f, o, blocks)
      PROVE  DoomInv'
  BY <1>3 DEF CreateLease, DoomInv, LeaseInv, Closed
<1>4. ASSUME NEW f \in Files, NEW blocks \in 1 .. MaxBlocks, RenewLease(f, blocks)
      PROVE  DoomInv'
  BY <1>4 DEF RenewLease, DoomInv, LeaseInv, Closed
<1>5. ASSUME NEW f \in Files, NEW o \in Owners, CancelLease(f, o)
      PROVE  DoomInv'
  BY <1>5 DEF CancelLease, DoomInv, LeaseInv, Closed
<1>6. ASSUME NEW f \in Files, Delete(f) \/ MarkDeleted(f)
      PROVE  DoomInv'
  BY <1>6 DEF Delete, MarkDeleted, DoomInv, LeaseInv, Closed
<1> QED
  BY <1>1, <1>2, <1>3, <1>4, <1>5, <1>6 DEF NextLeases

(* What is over its grace is gone, or on the node's list of data to delete, *)
(* however renewals, cancellations, new leases and late deletions meet: the *)
(* half of LapsedDataIsFreed that needs no fairness (check_block,           *)
(* deletion_ready).                                                         *)
THEOREM LapsedAreDoomed == SpecLeases => []LapsedIsDoomed
<1>1. InitLeases => DoomInv
  BY DEF InitLeases, DoomInv, Closed
<1>2. LeaseInv /\ [NextLeases]_leaseVars => LeaseInv'
  BY NextKeepsLease
<1>3. DoomInv => LapsedIsDoomed
  BY DEF DoomInv, LapsedIsDoomed
<1> QED
  BY <1>1, <1>2, <1>3, InitLease, NextKeepsDoom, PTL DEF SpecLeases
=============================================================================
