------------------------------- MODULE Release -------------------------------
(***************************************************************************)
(* The release reconciler: for the Talos installer release it imports the  *)
(* published image into a data volume, points the release's data source at *)
(* the volume, and grants the clusters' service accounts to clone it.      *)
(*                                                                         *)
(* One worker runs Reconcile, one CreateOrPatch per step; step is the next *)
(* call.  Volumes belong to their release and are collected after it; the  *)
(* data source and the grants have no owner and stay.                      *)
(*                                                                         *)
(* A definition introduced by "Fault" is a wrong version of the one below  *)
(* it, which no specification uses.                                        *)
(***************************************************************************)
EXTENDS Naturals, Sequences

CONSTANTS
  Images,        \* published images: a version and the URL it is fetched from
  None,
  MaxReleases,   \* how often the release is created
  MaxPublished,  \* how often an image is published
  MaxFailures,   \* how many API calls fail
  MaxCrashes     \* how often the operator restarts

ASSUME BoundsAssumption == {MaxReleases, MaxPublished, MaxFailures, MaxCrashes} \subseteq Nat

VARIABLES
  release,        \* the Talos installer release, with the latest image
  volumes,        \* per version, the data volume <release>-<version>
  source,         \* the version the data source names
  grants,         \* the access control objects that exist
  queued,         \* the release waits for Reconcile
  step,
  work,           \* the copy of the release the reconciliation works on
  releases, published, failures, crashes

workerVars == <<queued, step, work>>
boundVars  == <<releases, published, failures, crashes>>
vars == <<release, volumes, source, grants, workerVars, boundVars>>

Versions == {i.version : i \in Images}

URLs == {i.url : i \in Images}

ReleaseType == [uid : 1 .. MaxReleases, latest : {None} \cup Images]

VolumeType == [owner : 1 .. MaxReleases, url : URLs]

ASSUME NoneAssumption == None \notin Versions \cup ReleaseType \cup VolumeType

TypeOK ==
  /\ release \in {None} \cup ReleaseType
  /\ volumes \in [Versions -> {None} \cup VolumeType]
  /\ source \in {None} \cup Versions
  /\ grants \subseteq {"role", "roleBinding"}
  /\ queued \in BOOLEAN
  /\ step \in {"idle", "volume", "source", "role", "roleBinding"}
  /\ work \in {None} \cup ReleaseType
  /\ (step = "idle") = (work = None)
  /\ releases \in 0 .. MaxReleases
  /\ published \in 0 .. MaxPublished
  /\ failures \in 0 .. MaxFailures
  /\ crashes \in 0 .. MaxCrashes

Init ==
  /\ release = None
  /\ volumes = [v \in Versions |-> None]
  /\ source = None
  /\ grants = {}
  /\ queued = FALSE /\ step = "idle" /\ work = None
  /\ releases = 0 /\ published = 0 /\ failures = 0 /\ crashes = 0
-----------------------------------------------------------------------------
(* The release updater, users and the garbage collector.                   *)

CreateRelease ==
  /\ release = None /\ releases < MaxReleases
  /\ releases' = releases + 1
  /\ release' = [uid |-> releases', latest |-> None]
  /\ queued' = TRUE
  /\ UNCHANGED <<volumes, source, grants, step, work, published, failures, crashes>>

Publish(image) ==
  /\ release # None /\ release.latest # image /\ published < MaxPublished
  /\ published' = published + 1
  /\ release' = [release EXCEPT !.latest = image]
  /\ queued' = TRUE
  /\ UNCHANGED <<volumes, source, grants, step, work, releases, failures, crashes>>

DeleteRelease ==
  /\ release # None
  /\ release' = None
  /\ queued' = TRUE
  /\ UNCHANGED <<volumes, source, grants, step, work, boundVars>>

\* Fault: the data source is owned by the release and collected as well.
CollectVolumeAndSource(v) ==
  /\ volumes[v] # None
  /\ release # None => release.uid # volumes[v].owner
  /\ volumes' = [volumes EXCEPT ![v] = None]
  /\ source' = None
  /\ UNCHANGED <<release, grants, queued, step, work, boundVars>>

\* Nothing tells the release: the controller watches the volumes a release
\* controls, and the owner reference of these names no controller.
CollectVolume(v) ==
  /\ volumes[v] # None
  /\ release # None => release.uid # volumes[v].owner
  /\ volumes' = [volumes EXCEPT ![v] = None]
  /\ UNCHANGED <<release, source, grants, queued, step, work, boundVars>>
-----------------------------------------------------------------------------
(* Reconcile.                                                              *)

\* Fault: the data source is written before the volume it names.
OrderSwapped == <<"source", "volume", "role", "roleBinding">>

Order == <<"volume", "source", "role", "roleBinding">>

\* Fault: the worker's copy outlives the reconciliation.
StopLeaking == step' = "idle" /\ UNCHANGED work

Stop == step' = "idle" /\ work' = None

GoOn == \E i \in 1 .. Len(Order) :
          /\ Order[i] = step
          /\ IF i = Len(Order) THEN Stop
             ELSE step' = Order[i + 1] /\ UNCHANGED work

HasImage == release # None /\ release.latest # None

\* A release without an image is left alone.
BeginRelease ==
  /\ step = "idle" /\ queued
  /\ queued' = FALSE
  /\ \/ /\ ~HasImage
        /\ UNCHANGED <<step, work>>
     \/ /\ HasImage
        /\ step' = Order[1] /\ work' = release
  /\ UNCHANGED <<release, volumes, source, grants, boundVars>>

Wanted == [owner |-> work.uid, url |-> work.latest.url]

ReconcileDataVolume ==
  /\ step = "volume"
  /\ volumes' = [volumes EXCEPT ![work.latest.version] = Wanted]
  /\ GoOn
  /\ UNCHANGED <<release, source, grants, queued, boundVars>>

ReconcileDataSource ==
  /\ step = "source"
  /\ source' = work.latest.version
  /\ GoOn
  /\ UNCHANGED <<release, volumes, grants, queued, boundVars>>

ReconcileAccessControl ==
  /\ step \in {"role", "roleBinding"}
  /\ grants' = grants \cup {step}
  /\ GoOn
  /\ UNCHANGED <<release, volumes, source, queued, boundVars>>

\* Fault: the error is logged and the release not tried again.
FailReleaseForgetting ==
  /\ step # "idle" /\ failures < MaxFailures
  /\ failures' = failures + 1
  /\ Stop
  /\ UNCHANGED <<release, volumes, source, grants, queued, releases, published, crashes>>

\* A call fails, also because the cache it read from was behind.
FailRelease ==
  /\ step # "idle" /\ failures < MaxFailures
  /\ failures' = failures + 1
  /\ Stop
  /\ queued' = TRUE
  /\ UNCHANGED <<release, volumes, source, grants, releases, published, crashes>>

\* A restarted operator reconciles the release it lists.
Restart ==
  /\ crashes < MaxCrashes
  /\ crashes' = crashes + 1
  /\ Stop
  /\ queued' = (release # None)
  /\ UNCHANGED <<release, volumes, source, grants, releases, published, failures>>

Reconcile == \/ BeginRelease \/ ReconcileDataVolume \/ ReconcileDataSource
             \/ ReconcileAccessControl \/ FailRelease

Next == \/ CreateRelease \/ DeleteRelease
        \/ \E image \in Images : Publish(image)
        \/ \E v \in Versions : CollectVolume(v)
        \/ Reconcile
        \/ Restart

Spec == Init /\ [][Next]_vars
-----------------------------------------------------------------------------
\* The data source moves only to a volume that is there, although the garbage
\* collector runs between the two writes: only if the release the worker
\* copied has gone meanwhile may the volume have gone with it.
SourceSwitchesToVolume ==
  [][source' # source =>
       \/ volumes[source'] # None
       \/ release = None \/ release.uid # work.uid]_vars

\* When there is nothing left to do, the latest image is imported under the
\* release that exists now, the data source names it, and clusters may clone
\* it: whatever was published, deleted, created anew or failed meanwhile.
ReleaseSettles ==
  ~queued /\ step = "idle" /\ HasImage =>
    /\ source = release.latest.version
    /\ volumes[source] = [owner |-> release.uid, url |-> release.latest.url]
    /\ grants = {"role", "roleBinding"}

Feed == INSTANCE SourceFeed WITH released <- release # None, sourced <- source # None

\* What node pools rely on: the data source comes and never goes, although
\* the volume it names is collected with its release.
ImplementsFeed == Feed!FeedSpec
=============================================================================
