--------------------------- MODULE ModelDownloads ---------------------------
(***************************************************************************)
(* How one node gets and gives model files: the coroutines of              *)
(* dessin/distribution/hybrid_distributor.py over the torrents of          *)
(* bittorrent_distributor.py.  A step runs from one await to the next; the *)
(* only await that yields is the two seconds' sleep between two looks at a *)
(* BitTorrent download, the Hugging Face download never yields.            *)
(***************************************************************************)
EXTENDS Integers, Sequences, FiniteSets

CONSTANTS
  Calls,      \* coroutines that run download_model
  Models,
  Versions,   \* torrents of one model, told apart by their hash
  None,
  Timeout,    \* bittorrent_timeout, in looks
  MaxWait,    \* bt_max_wait_time, in looks
  MinSeeders, \* bt_min_seeders
  MaxSeeders, \* bound: seeders of a torrent
  MaxStops    \* bound: downloads stopped, of each model

ASSUME DownloadConstants ==
  /\ {Timeout, MaxWait, MinSeeders, MaxSeeders, MaxStops} \subseteq Nat /\ Timeout > 0
  /\ None \notin Versions /\ IsFiniteSet(Calls)

VARIABLES
  call,       \* of each coroutine: where it is
  active,     \* HybridDistributor.active_downloads: the method of each model
  torrent,    \* model_torrents: the torrent this node made of each model
  session,    \* the torrents in the session, in BitTorrentDistributor.active_downloads
  complete,   \* the torrents whose progress is 1
  seeders,    \* of each torrent
  here,       \* the models with a file in download_dir
  registered, \* the models in the node's registry
  stops       \* history: downloads of each model that stop_download has stopped

vars == <<call, active, torrent, session, complete, seeders, here, registered, stops>>

(* A torrent made anew has another hash: size and time go into it.          *)
Torrents == Models \X Versions
Idle == [state |-> "idle"]

Init ==
  /\ call = [c \in Calls |-> Idle]
  /\ active = [m \in Models |-> "none"]
  /\ torrent = [m \in Models |-> None]
  /\ session = {} /\ complete = {}
  /\ seeders = [t \in Torrents |-> 0]
  /\ here = {}
  /\ registered = {}
  /\ stops = [m \in Models |-> 0]

Waiting(c) == call[c].state = "waiting"

-----------------------------------------------------------------------------
(* download_model                                                           *)

\* With a method preferred the others follow on request; without one the
\* success rates order them.
Plans == {<<"bt">>, <<"hf">>, <<"bt", "hf">>, <<"hf", "bt">>}

(* A torrent that a download or a seeder adds starts from nothing.          *)
Added(t) == session' = session \cup {t} /\ complete' = complete \ {t}

(* The entry of the model goes with the method, whoever made it.            *)
End(c, m) == call' = [call EXCEPT ![c] = Idle] /\ active' = [active EXCEPT ![m] = "none"]

(* The torrent is added, and the coroutine goes to sleep.                   *)
FetchTorrent(c, m, v, dir, rest) ==
  /\ v # None
  /\ Added(<<m, v>>)
  /\ here' = IF dir = "default" THEN here \cup {m} ELSE here
  /\ active' = [active EXCEPT ![m] = "bt"]
  /\ call' = [call EXCEPT ![c] = [state |-> "waiting", model |-> m, looks |-> 0, rest |-> rest]]
  /\ UNCHANGED <<registered, torrent, seeders, stops>>

(* Hugging Face answers with the file, which is registered.                 *)
RegisterFromHub(m) == registered' = registered \cup {m}

FetchFromHub(c, m) ==
  /\ RegisterFromHub(m)
  /\ End(c, m)
  /\ UNCHANGED <<torrent, session, complete, seeders, here, stops>>

Fail(c, m) == End(c, m) /\ UNCHANGED <<torrent, session, complete, seeders, here, registered, stops>>

(* The methods left are tried in turn until one has the file, or sleeps     *)
(* (BitTorrent is never tried a second time).                               *)
Try(c, m, v, dir, plan) ==
  \/ \E k \in 1 .. Len(plan) :
       \/ plan[k] = "bt" /\ FetchTorrent(c, m, v, dir, SubSeq(plan, k + 1, Len(plan)))
       \/ plan[k] = "hf" /\ FetchFromHub(c, m)
  \/ Fail(c, m)

\* Variant: the entry of a model is looked at after the first sleep.
FreeAlways(m) == TRUE

Free(m) == active[m] = "none"

\* v: the torrent the caller names, or the node's own
DownloadModel(c, m, v, dir, plan) ==
  /\ call[c] = Idle
  /\ Free(m)
  /\ Try(c, m, v, dir, plan)

(* What a look shows: only of a torrent this node has made itself.          *)
Visible(m) == torrent[m] # None /\ <<m, torrent[m]>> \in session

Arrived(m) == Visible(m) /\ <<m, torrent[m]>> \in complete /\ m \in here

Starved(m) == Visible(m) /\ seeders[<<m, torrent[m]>>] < MinSeeders

\* Variant: a look that shows nothing takes no time.
LooksWhenVisible(c) == IF Visible(call[c].model) THEN call[c].looks + 1 ELSE call[c].looks

Looks(c) == call[c].looks + 1

Over(c) == Looks(c) >= Timeout \/ (Starved(call[c].model) /\ Looks(c) > MaxWait)

Look(c) ==
  /\ Waiting(c)
  /\ LET m == call[c].model IN
       \/ Arrived(m) /\ End(c, m) /\ UNCHANGED <<session, complete, here, registered, torrent, seeders, stops>>
       \/ ~Arrived(m) /\ Over(c) /\ Try(c, m, None, "default", call[c].rest)
       \/ /\ ~Arrived(m) /\ ~Over(c)
          /\ call' = [call EXCEPT ![c].looks = Looks(c)]
          /\ UNCHANGED <<active, torrent, session, complete, seeders, here, registered, stops>>

-----------------------------------------------------------------------------
(* stop_torrent: the torrent the node made last, if it is in the session.   *)
StopTorrent(m) ==
  /\ Visible(m)
  /\ session' = session \ {<<m, torrent[m]>>}
  /\ complete' = complete \ {<<m, torrent[m]>>}

(* stop_download: the torrent goes, the coroutine that waits for it does    *)
(* not hear of it.                                                          *)
StopDownload(m) ==
  /\ ~Free(m) /\ StopTorrent(m)
  /\ stops[m] < MaxStops
  /\ active' = [active EXCEPT ![m] = "none"]
  /\ stops' = [stops EXCEPT ![m] = @ + 1]
  /\ UNCHANGED <<call, torrent, seeders, here, registered>>

(* create_model_torrent: a new torrent replaces the last, which stays in    *)
(* the session.                                                             *)
CreateTorrent(m, v) ==
  /\ m \in registered
  /\ torrent' = [torrent EXCEPT ![m] = v]

(* seed_model: nothing is done for a torrent in the session, and adding     *)
(* another may fail.                                                        *)
Seed(m, v) ==
  \/ <<m, v>> \notin session /\ Added(<<m, v>>)
  \/ UNCHANGED <<session, complete>>

DistributeModel(m, v) ==
  /\ CreateTorrent(m, v)
  /\ Seed(m, v)
  /\ UNCHANGED <<call, active, seeders, here, registered, stops>>

(* cleanup_completed_downloads: complete torrents may leave, those that     *)
(* were given often enough.                                                 *)
MayLeave(m) == Visible(m) /\ <<m, torrent[m]>> \in complete

Cleanup(S) ==
  /\ S # {} /\ \A m \in S : MayLeave(m)
  /\ session' = session \ {<<m, torrent[m]>> : m \in S}
  /\ complete' = complete \ {<<m, torrent[m]>> : m \in S}
  /\ UNCHANGED <<call, active, torrent, seeders, here, registered, stops>>

(* The node uploads a model, whatever the registry says of it.              *)
UploadModel(m) ==
  /\ registered' = registered \cup {m}
  /\ UNCHANGED <<call, active, torrent, session, complete, seeders, here, stops>>

(* The swarm: pieces arrive while somebody seeds, seeders come and go.      *)
Complete(t) ==
  /\ t \in session \ complete /\ seeders[t] > 0
  /\ complete' = complete \cup {t}
  /\ UNCHANGED <<call, active, torrent, session, seeders, here, registered, stops>>

SeedersChange(t, n) ==
  /\ n # seeders[t]
  /\ seeders' = [seeders EXCEPT ![t] = n]
  /\ UNCHANGED <<call, active, torrent, session, complete, here, registered, stops>>

Next ==
  \/ \E c \in Calls :
       \/ \E m \in Models, v \in Versions, plan \in Plans :
            \/ \E dir \in {"default", "other"} : DownloadModel(c, m, v, dir, plan)
            \/ DownloadModel(c, m, torrent[m], "default", plan)
       \/ Look(c)
  \/ \E m \in Models :
       \/ StopDownload(m) \/ UploadModel(m)
       \/ \E v \in Versions : DistributeModel(m, v)
  \/ \E S \in SUBSET Models : Cleanup(S)
  \/ \E t \in Torrents : Complete(t) \/ \E n \in 0 .. MaxSeeders : SeedersChange(t, n)

Spec == Init /\ [][Next]_vars
=============================================================================
