--------------------------- MODULE ReleaseProofs ---------------------------
(***************************************************************************)
(* The release reconciler settles, switches the data source to volumes     *)
(* that are there, and implements the feed that node pools rely on, for    *)
(* any images and any number of releases, failures and restarts.           *)
(***************************************************************************)
EXTENDS Release, TLAPS

\* What the worker has written before step s is there as it wrote it; the volume
\* may have gone if its release has.
Written(s) ==
  /\ s \in {"source", "role", "roleBinding"} =>
       volumes[work.latest.version] = Wanted \/ release = None \/ release.uid # work.uid
  /\ s \in {"role", "roleBinding"} => source = work.latest.version
  /\ s = "roleBinding" => "role" \in grants

\* Everything the latest image asks for is there.
Settled == /\ source = release.latest.version
           /\ volumes[source] = [owner |-> release.uid, url |-> release.latest.url]
           /\ grants = {"role", "roleBinding"}

\* A new release is another than the worker's, and while nothing is queued the
\* worker has the release as it is, or has written all it asks for.
ReleaseInv ==
  /\ TypeOK
  /\ release # None => release.uid <= releases
  /\ work # None => work.latest \in Images /\ work.uid <= releases
  /\ Written(step)
  /\ ~queued /\ HasImage => IF step = "idle" THEN Settled ELSE work = release

\* GoOn, spelled out: what follows each of the four writes.
LEMMA OrderOfSteps ==
  ASSUME GoOn
  PROVE  /\ step = "volume" => step' = "source" /\ UNCHANGED work
         /\ step = "source" => step' = "role" /\ UNCHANGED work
         /\ step = "role" => step' = "roleBinding" /\ UNCHANGED work
         /\ step = "roleBinding" => Stop
<1>1. PICK i \in 1 .. 4 :
        /\ <<"volume", "source", "role", "roleBinding">>[i] = step
        /\ IF i = 4 THEN Stop
           ELSE /\ step' = <<"volume", "source", "role", "roleBinding">>[i + 1]
                /\ UNCHANGED work
  BY DEF GoOn, Order
<1>2. i = 1 \/ i = 2 \/ i = 3 \/ i = 4
  BY <1>1
<1>3. QED
  BY <1>1, <1>2

\* The bounds one by one, as the provers use them.
LEMMA Bounds ==
  /\ MaxReleases \in Nat /\ MaxPublished \in Nat
  /\ MaxFailures \in Nat /\ MaxCrashes \in Nat
BY BoundsAssumption

\* Nothing is written and nothing is queued.
LEMMA Initially ==
  ASSUME Init
  PROVE  ReleaseInv
<1>1. 0 \in 0 .. MaxReleases /\ 0 \in 0 .. MaxPublished /\ 0 \in 0 .. MaxFailures /\ 0 \in 0 .. MaxCrashes
  BY Bounds
<1>2. TypeOK
  BY <1>1 DEF Init, TypeOK
<1>3. QED
  BY <1>2 DEF Init, ReleaseInv, Written, HasImage

\* A new release has a higher UID than any the worker can have copied.
LEMMA CreateReleaseKeeps ==
  ASSUME ReleaseInv, CreateRelease
  PROVE  ReleaseInv'
<1> USE DEF ReleaseInv, CreateRelease
<1>1. releases \in Nat /\ MaxReleases \in Nat
  BY BoundsAssumption DEF TypeOK
<1>2. /\ release' = [uid |-> releases + 1, latest |-> None] /\ queued' = TRUE
      /\ release' \in ReleaseType
  BY <1>1 DEF ReleaseType
<1>3. TypeOK'
  BY <1>1, <1>2 DEF TypeOK
<1>4. release'.uid = releases + 1 /\ release' # None
  BY <1>2, NoneAssumption
<1>5. step # "idle" => work.uid \in Nat /\ work.uid <= releases
  BY <1>1 DEF TypeOK, ReleaseType
<1>6. Written(step)'
  <2>1. UNCHANGED <<volumes, source, grants, step, work>>
    OBVIOUS
  <2>2. step # "idle" => release'.uid # work.uid
    BY <1>1, <1>4, <1>5
  <2>3. QED
    BY <2>1, <2>2 DEF Written, TypeOK
<1>7. work' # None => work'.latest \in Images /\ work'.uid <= releases'
  BY <1>1 DEF TypeOK, ReleaseType
<1>8. QED
  BY <1>1, <1>2, <1>3, <1>4, <1>6, <1>7 DEF HasImage

\* A published image queues the release; the worker keeps its copy.
LEMMA PublishKeeps ==
  ASSUME ReleaseInv, NEW image \in Images, Publish(image)
  PROVE  ReleaseInv'
<1> USE DEF ReleaseInv, Publish
<1>1. release \in ReleaseType
  BY DEF TypeOK
<1>2. release' \in ReleaseType /\ release'.uid = release.uid /\ queued' = TRUE
  BY <1>1 DEF ReleaseType
<1>3. TypeOK'
  BY <1>2, BoundsAssumption DEF TypeOK
<1>4. Written(step)'
  BY <1>2 DEF Written, Wanted
<1>5. QED
  BY <1>2, <1>3, <1>4 DEF HasImage

\* Without a release nothing is asked for.
LEMMA DeleteReleaseKeeps ==
  ASSUME ReleaseInv, DeleteRelease
  PROVE  ReleaseInv'
<1> USE DEF ReleaseInv, DeleteRelease
<1>1. TypeOK'
  BY DEF TypeOK, boundVars
<1>2. QED
  BY <1>1 DEF Written, Wanted, HasImage, boundVars

\* A volume of the worker's release is collected only once that release has
\* gone, and so is the volume of a release that has settled.
LEMMA CollectVolumeKeeps ==
  ASSUME ReleaseInv, NEW v \in Versions, CollectVolume(v)
  PROVE  ReleaseInv'
<1> USE DEF ReleaseInv, CollectVolume
<1>1. volumes' \in [Versions -> {None} \cup VolumeType]
  BY DEF TypeOK
<1>2. TypeOK' /\ UNCHANGED <<release, source, grants, queued, step, work>>
  BY <1>1 DEF TypeOK, boundVars
<1>3. Written(step)'
  <2>1. UNCHANGED <<release, source, grants, step, work>>
    OBVIOUS
  <2>2. SUFFICES ASSUME step \in {"source", "role", "roleBinding"},
                        volumes[work.latest.version] = Wanted
                 PROVE  \/ volumes'[work.latest.version] = Wanted
                        \/ release = None \/ release.uid # work.uid
    BY <2>1 DEF Written, Wanted
  <2>3. CASE v = work.latest.version
    BY <2>2, <2>3 DEF Wanted
  <2>4. CASE v # work.latest.version
    BY <2>2, <2>4 DEF TypeOK
  <2>5. QED
    BY <2>3, <2>4
<1>4. ASSUME HasImage, Settled
      PROVE  Settled'
  <2>1. volumes[source].owner = release.uid
    BY <1>4 DEF Settled
  <2>2. v # source
    BY <2>1, <1>4 DEF HasImage
  <2>3. volumes'[source] = volumes[source]
    BY <2>2
  <2>4. QED
    BY <1>2, <1>4, <2>3 DEF Settled
<1>5. QED
  BY <1>2, <1>3, <1>4 DEF HasImage, boundVars

\* Reconcile starts from the release as it is.
LEMMA BeginReleaseKeeps ==
  ASSUME ReleaseInv, BeginRelease
  PROVE  ReleaseInv'
<1> USE DEF ReleaseInv, BeginRelease
<1>1. CASE ~HasImage /\ UNCHANGED <<step, work>>
  <2>1. TypeOK'
    BY <1>1 DEF TypeOK, boundVars
  <2>2. QED
    BY <1>1, <2>1 DEF Written, Wanted, HasImage, boundVars
<1>2. CASE HasImage /\ step' = Order[1] /\ work' = release
  <2>1. step' = "volume"
    BY <1>2 DEF Order
  <2>2. /\ work' \in ReleaseType /\ work' # None /\ work'.latest \in Images
        /\ work'.uid <= releases
    BY <1>2 DEF TypeOK, ReleaseType, HasImage
  <2>3. TypeOK'
    BY <2>1, <2>2 DEF TypeOK, boundVars
  <2>4. QED
    BY <1>2, <2>1, <2>2, <2>3 DEF Written, HasImage, boundVars
<1>3. QED
  BY <1>1, <1>2

\* While it works, the worker has a release with an image.
LEMMA WorkType ==
  ASSUME ReleaseInv, step # "idle"
  PROVE  /\ work \in ReleaseType /\ work # None
         /\ work.latest \in Images /\ work.latest.version \in Versions
         /\ Wanted \in VolumeType /\ Wanted # None
<1>1. work \in ReleaseType /\ work # None /\ work.latest \in Images
  BY DEF ReleaseInv, TypeOK
<1>2. work.latest.version \in Versions /\ work.latest.url \in URLs
  BY <1>1 DEF Versions, URLs
<1>3. Wanted \in VolumeType
  BY <1>1, <1>2 DEF Wanted, VolumeType, ReleaseType
<1>4. QED
  BY <1>1, <1>2, <1>3, NoneAssumption

\* The volume is there as wanted.
LEMMA ReconcileDataVolumeKeeps ==
  ASSUME ReleaseInv, ReconcileDataVolume
  PROVE  ReleaseInv'
<1> USE DEF ReleaseInv, ReconcileDataVolume
<1>1. step' = "source" /\ UNCHANGED work
  BY OrderOfSteps
<1>2. /\ work \in ReleaseType /\ work # None
      /\ work.latest.version \in Versions /\ Wanted \in VolumeType
  BY WorkType
<1>3. /\ volumes' \in [Versions -> {None} \cup VolumeType]
      /\ volumes'[work.latest.version] = Wanted
  BY <1>2 DEF TypeOK
<1>4. queued' \in BOOLEAN /\ (queued => queued')
  BY DEF TypeOK
<1>5. TypeOK'
  BY <1>1, <1>2, <1>3, <1>4 DEF TypeOK, boundVars
<1>6. Written(step)'
  BY <1>1, <1>3 DEF Written, Wanted
<1>7. QED
  BY <1>1, <1>4, <1>5, <1>6 DEF HasImage, boundVars

\* The data source is written after the volume it names.
LEMMA ReconcileDataSourceKeeps ==
  ASSUME ReleaseInv, ReconcileDataSource
  PROVE  ReleaseInv'
<1> USE DEF ReleaseInv, ReconcileDataSource
<1>1. step' = "role" /\ UNCHANGED work
  BY OrderOfSteps
<1>2. work # None /\ work.latest.version \in Versions
  BY WorkType
<1>3. TypeOK'
  BY <1>1, <1>2 DEF TypeOK, boundVars
<1>4. Written(step)'
  BY <1>1 DEF Written, Wanted
<1>5. QED
  BY <1>1, <1>3, <1>4 DEF HasImage, boundVars

\* After the last grant, everything the copy asks for is there.
LEMMA ReconcileAccessControlKeeps ==
  ASSUME ReleaseInv, ReconcileAccessControl
  PROVE  ReleaseInv'
<1> USE DEF ReleaseInv, ReconcileAccessControl
<1>1. CASE step = "role"
  <2>1. step' = "roleBinding" /\ UNCHANGED work /\ grants' = grants \cup {"role"}
    BY <1>1, OrderOfSteps
  <2>2. TypeOK'
    BY <1>1, <2>1 DEF TypeOK, boundVars
  <2>3. Written(step)'
    BY <1>1, <2>1 DEF Written, Wanted
  <2>4. QED
    BY <1>1, <2>1, <2>2, <2>3 DEF HasImage, boundVars
<1>2. CASE step = "roleBinding"
  <2>1. step' = "idle" /\ work' = None /\ grants' = grants \cup {"roleBinding"}
    BY <1>2, OrderOfSteps DEF Stop
  <2>2. TypeOK'
    BY <2>1 DEF TypeOK, boundVars
  <2>3. grants' = {"role", "roleBinding"}
    BY <1>2, <2>1 DEF Written, TypeOK
  <2>4. ASSUME ~queued', HasImage' PROVE Settled'
    <3>1. work = release
      BY <1>2, <2>4 DEF HasImage
    <3>2. release # None /\ volumes[work.latest.version] = Wanted /\ source = work.latest.version
      BY <1>2, <2>4, <3>1 DEF Written, HasImage
    <3>3. QED
      BY <2>3, <3>1, <3>2 DEF Settled, Wanted
  <2>5. QED
    BY <2>1, <2>2, <2>4 DEF Written, boundVars
<1>3. QED
  BY <1>1, <1>2

\* Failed calls and restarts end the reconciliation and queue the release.
LEMMA FaultKeeps ==
  ASSUME ReleaseInv, FailRelease \/ Restart
  PROVE  ReleaseInv'
<1> USE DEF ReleaseInv
<1>1. /\ UNCHANGED <<release, volumes, source, grants, releases, published>>
      /\ step' = "idle" /\ work' = None /\ queued' \in BOOLEAN
      /\ release # None => queued'
      /\ failures' \in 0 .. MaxFailures /\ crashes' \in 0 .. MaxCrashes
  <2>1. failures \in 0 .. MaxFailures /\ crashes \in 0 .. MaxCrashes
    BY DEF TypeOK
  <2>2. CASE FailRelease
    <3>1. failures < MaxFailures /\ failures' = failures + 1 /\ crashes' = crashes
      BY <2>2 DEF FailRelease
    <3>2. failures' \in 0 .. MaxFailures
      BY <2>1, <3>1, Bounds
    <3>3. QED
      BY <2>1, <2>2, <3>1, <3>2 DEF FailRelease, Stop
  <2>3. CASE Restart
    <3>1. crashes < MaxCrashes /\ crashes' = crashes + 1 /\ failures' = failures
      BY <2>3 DEF Restart
    <3>2. crashes' \in 0 .. MaxCrashes
      BY <2>1, <3>1, Bounds
    <3>3. QED
      BY <2>1, <2>3, <3>1, <3>2 DEF Restart, Stop
  <2>4. QED
    BY <2>2, <2>3
<1>2. TypeOK'
  BY <1>1 DEF TypeOK
<1>3. QED
  BY <1>1, <1>2 DEF Written, HasImage

\* Every step keeps the invariant.
LEMMA Steps ==
  ASSUME ReleaseInv, [Next]_vars
  PROVE  ReleaseInv'
<1>1. CASE UNCHANGED vars
  BY <1>1 DEF vars, workerVars, boundVars, ReleaseInv, TypeOK, Written, Wanted, HasImage, Settled
<1>2. CASE Next
  BY <1>2, CreateReleaseKeeps, PublishKeeps, DeleteReleaseKeeps, CollectVolumeKeeps,
     BeginReleaseKeeps, ReconcileDataVolumeKeeps, ReconcileDataSourceKeeps,
     ReconcileAccessControlKeeps, FaultKeeps DEF Next, Reconcile
<1>3. QED
  BY <1>1, <1>2

\* Every reachable state of the release reconciler has its type.
THEOREM ReleaseTypeCorrect == Spec => []TypeOK
<1>1. ReleaseInv => TypeOK
  BY DEF ReleaseInv
<1>2. QED
  BY <1>1, Initially, Steps, PTL DEF Spec

\* When there is nothing left to do, the latest image is imported, named and
\* granted, whatever happened between any two calls.
THEOREM ReleaseComesToRest == Spec => []ReleaseSettles
<1>1. ReleaseInv => ReleaseSettles
  BY DEF ReleaseInv, ReleaseSettles, Settled
<1>2. QED
  BY <1>1, Initially, Steps, PTL DEF Spec

\* The data source moves only to a volume that is there, or whose release has gone.
THEOREM SourceHasVolume == Spec => SourceSwitchesToVolume
<1> DEFINE Switch == source' # source =>
                       \/ volumes[source'] # None
                       \/ release = None \/ release.uid # work.uid
<1>1. ReleaseInv /\ [Next]_vars => [Switch]_vars
  <2> SUFFICES ASSUME ReleaseInv, Next, source' # source PROVE Switch
    OBVIOUS
  <2>1. ReconcileDataSource
    BY DEF Next, Reconcile, CreateRelease, Publish, DeleteRelease, CollectVolume, BeginRelease,
           ReconcileDataVolume, ReconcileAccessControl, FailRelease, Restart
  <2>2. source' = work.latest.version /\ Written("source") /\ Wanted # None
    BY <2>1, WorkType DEF ReconcileDataSource, ReleaseInv
  <2>3. QED
    BY <2>2 DEF Written
<1>2. QED
  BY <1>1, Initially, Steps, PTL DEF Spec, SourceSwitchesToVolume

\* The reconciler implements the feed that node pools have as their environment.
THEOREM ReleaseIsFeed == Spec => ImplementsFeed
<1>1. Init => Feed!FeedInit
  BY DEF Init, Feed!FeedInit
<1>2. ReleaseInv /\ [Next]_vars => [Feed!FeedNext]_(Feed!feed)
  <2> SUFFICES ASSUME ReleaseInv, Next PROVE [Feed!FeedNext]_(Feed!feed)
    BY DEF vars, Feed!feed
  <2> USE DEF Feed!FeedNext, Feed!Appear, Feed!Vanish, Feed!Provide, Feed!feed
  <2>1. CASE CreateRelease
    BY <2>1 DEF CreateRelease
  <2>2. CASE DeleteRelease
    BY <2>2 DEF DeleteRelease
  <2>3. ASSUME NEW image \in Images, Publish(image)
        PROVE  [Feed!FeedNext]_(Feed!feed)
    <3>1. release' \in ReleaseType /\ release # None /\ UNCHANGED source
      BY <2>3 DEF Publish, ReleaseInv, TypeOK, ReleaseType
    <3>2. QED
      BY <3>1, NoneAssumption
  <2>4. CASE ReconcileDataSource
    <3>1. source' \in Versions /\ UNCHANGED release
      BY <2>4, WorkType DEF ReconcileDataSource
    <3>2. QED
      BY <3>1, NoneAssumption
  <2>5. CASE UNCHANGED <<release, source>>
    BY <2>5
  <2>6. QED
    BY <2>1, <2>2, <2>3, <2>4, <2>5 DEF Next, Reconcile, CollectVolume, BeginRelease,
       ReconcileDataVolume, ReconcileAccessControl, FailRelease, Restart
<1>3. QED
  BY <1>1, <1>2, Initially, Steps, PTL DEF Spec, ImplementsFeed, Feed!FeedSpec
=============================================================================
