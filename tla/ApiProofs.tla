----------------------------- MODULE ApiProofs -----------------------------
(***************************************************************************)
(* What holds of the console, VNC and power API for any number of callers  *)
(* of any kinds, of lists, of changes and of faults: the allow cache keeps *)
(* no list that nobody watches, VNC passes on no message of a subject that *)
(* the cache refuses, the type invariant, which has it that a mutex is     *)
(* held by one goroutine, and that the client of a console hears what the  *)
(* cache came to think of its permission.                                  *)
(***************************************************************************)
EXTENDS Api, TLAPS

\* A list that has a verdict if there is an event to be sent.
AllowLists == {r \in List : r.watcher = "sending" => r.verdict # "unknown"}

Listing == [Lists -> {None} \cup AllowLists]

LEMMA NoList == None \notin AllowLists
BY AllowCacheAssumption DEF AllowLists

Asks == [Goroutines -> {Idle, Told("yes"), Told("no")} \cup Asking]

\* A list that somebody asks, or is sent the events of, exists.
Referred ==
  /\ \A g \in Goroutines : ask[g].list # None => lists[ask[g].list] # None
  /\ \A c \in Callers : feed[c] # None => lists[feed[c]] # None

CacheInv ==
  /\ kind \in [Callers -> KindType]
  /\ lists \in Listing
  /\ entries \in [Keys -> {None} \cup Lists]
  /\ ask \in Asks
  /\ feed \in [Callers -> {None} \cup Lists]
  /\ Referred
  /\ EveryEntryWatched

\* A stream that connects, or has, is sent the events of a list.
SessionInv ==
  /\ SessionTypeOK
  /\ \A c \in Callers :
       kind[c] = "console" /\ (main[c] = "connecting" \/ relay[c] # "none") => feed[c] # None

LEMMA AskTypes ==
  ASSUME ask \in Asks, NEW g \in Goroutines
  PROVE  /\ ask[g].list \in {None} \cup Lists
         /\ ask[g].phase \in {"locking", "reviewing"} => ask[g].list \in Lists
BY AllowCacheAssumption DEF Asks, Idle, Told, Asking

\* Collect takes only lists that have ended and that nobody refers to.
LEMMA CollectKeeps ==
  ASSUME NEW ls \in Listing, NEW asks
  PROVE  /\ Collect(ls, asks) \in Listing
         /\ \A l \in Lists : Collect(ls, asks)[l] \in {None, ls[l]}
         /\ \A l \in Lists : /\ ls[l] # None /\ ls[l].watcher # "ended"
                             => Collect(ls, asks)[l] = ls[l]
         /\ \A g \in Goroutines : asks[g].list \in Lists =>
               Collect(ls, asks)[asks[g].list] = ls[asks[g].list]
         /\ \A c \in Callers : feed[c] \in Lists =>
               Collect(ls, asks)[feed[c]] = ls[feed[c]]
<1>1. \A l \in Lists : Collect(ls, asks)[l] = IF Unused(l, ls, asks) THEN None ELSE ls[l]
  BY DEF Collect
<1>2. Collect(ls, asks) \in Listing
  BY DEF Collect, Listing
<1>3. \A l \in Lists : /\ ls[l] # None /\ ls[l].watcher # "ended" => ~Unused(l, ls, asks)
  BY DEF Unused
<1>4. \A g \in Goroutines : ~Unused(asks[g].list, ls, asks)
  BY DEF Unused
<1>5. \A c \in Callers : ~Unused(feed[c], ls, asks)
  BY DEF Unused
<1>6. QED
  BY <1>1, <1>2, <1>3, <1>4, <1>5

\* A step that lets the lists in the cache live, and no goroutine ask another.
LEMMA ListsMove ==
  ASSUME CacheInv, UNCHANGED <<kind, entries, feed>>,
         lists' \in Listing, ask' \in Asks,
         \A l \in Lists : Live(l) => Live(l)' /\ lists'[l].owner = lists[l].owner,
         \A g \in Goroutines : \/ ask'[g].list = None
                               \/ /\ ask'[g].list = ask[g].list
                                  /\ lists[ask[g].list] # None => lists'[ask[g].list] # None,
         \A c \in Callers : feed[c] # None /\ lists[feed[c]] # None => lists'[feed[c]] # None
  PROVE  CacheInv'
<1> USE DEF CacheInv
<1>1. Referred'
  BY DEF Referred
<1>2. EveryEntryWatched'
  <2> SUFFICES ASSUME NEW k \in Keys, entries[k] # None
               PROVE  Live(entries[k])' /\ KeyOf(lists'[entries[k]].owner) = k
    BY DEF EveryEntryWatched, KeyOf
  <2>1. entries[k] \in Lists
    OBVIOUS
  <2>2. Live(entries[k]) /\ KeyOf(lists[entries[k]].owner) = k
    BY DEF EveryEntryWatched
  <2>3. QED
    BY <2>1, <2>2
<1>3. QED
  BY <1>1, <1>2

\* u is a list of the same owner, that is watched if r was.
Updated(r, u) == /\ u \in AllowLists /\ u.owner = r.owner
                 /\ r.watcher # "ended" => u.watcher # "ended"

\* A step that changes a list but neither its owner nor that it is watched, or
\* also collects lists that have become unused.
LEMMA OneList ==
  ASSUME CacheInv, UNCHANGED <<kind, entries, feed>>,
         NEW l \in Lists, lists[l] # None,
         NEW r, Updated(lists[l], r),
         \/ lists' = [lists EXCEPT ![l] = r]
         \/ lists' = Collect([lists EXCEPT ![l] = r], ask'),
         ask' \in Asks,
         \A g \in Goroutines : ask'[g].list \in {None, ask[g].list}
  PROVE  CacheInv'
<1> DEFINE ls == [lists EXCEPT ![l] = r]
<1>1. /\ ls \in Listing /\ r # None
      /\ r.owner = lists[l].owner /\ (Live(l) => r.watcher # "ended")
  BY NoList DEF CacheInv, Listing, Updated, Live
<1>2. \A m \in Lists : ls[m] = IF m = l THEN r ELSE lists[m]
  BY DEF CacheInv, Listing
<1> HIDE DEF ls
<1>3. /\ lists' \in Listing
      /\ \A m \in Lists : ls[m] # None /\ ls[m].watcher # "ended" => lists'[m] = ls[m]
      /\ \A g \in Goroutines : ask'[g].list \in Lists => lists'[ask'[g].list] = ls[ask'[g].list]
      /\ \A c \in Callers : feed[c] \in Lists => lists'[feed[c]] = ls[feed[c]]
  <2>1. CASE lists' = ls
    BY <1>1, <2>1
  <2>2. CASE lists' = Collect(ls, ask')
    BY <1>1, <2>2, CollectKeeps
  <2>3. QED
    BY <2>1, <2>2 DEF ls
<1>4. \A m \in Lists : Live(m) => Live(m)' /\ lists'[m].owner = lists[m].owner
  BY <1>1, <1>2, <1>3 DEF Live
<1>5. \A g \in Goroutines : \/ ask'[g].list = None
                            \/ /\ ask'[g].list = ask[g].list
                               /\ lists[ask[g].list] # None => lists'[ask[g].list] # None
  <2> TAKE g \in Goroutines
  <2>1. ask[g].list \in {None} \cup Lists
    BY AskTypes DEF CacheInv
  <2>2. QED
    BY <1>1, <1>2, <1>3, <2>1
<1>6. \A c \in Callers : feed[c] # None /\ lists[feed[c]] # None => lists'[feed[c]] # None
  BY <1>1, <1>2, <1>3 DEF CacheInv
<1>7. QED
  BY <1>3, <1>4, <1>5, <1>6, ListsMove
-----------------------------------------------------------------------------
(* The steps of the cache.                                                 *)

LEMMA AskingLists ==
  ASSUME CacheInv, NEW g \in Goroutines, ask[g].phase \in {"locking", "reviewing"}
  PROVE  ask[g].list \in Lists /\ lists[ask[g].list] \in AllowLists
<1>1. ask[g].list \in Lists
  BY AskTypes DEF CacheInv
<1>2. lists[ask[g].list] # None
  BY <1>1, AllowCacheAssumption DEF CacheInv, Referred
<1>3. QED
  BY <1>1, <1>2 DEF CacheInv, Listing

LEMMA ListUpdates ==
  ASSUME NEW r \in AllowLists
  PROVE  /\ Updated(r, r)
         /\ \A h \in Goroutines : Updated(r, [r EXCEPT !.holder = h])
         /\ \A b \in BOOLEAN : Updated(r, [r EXCEPT !.tick = b])
         /\ \A d \in {"yes", "no"} : Updated(r, [r EXCEPT !.holder = None, !.verdict = d])
         /\ Updated(r, [r EXCEPT !.watcher = "waiting"])
         /\ Updated(r, [r EXCEPT !.watcher = "waiting", !.holder = None])
         /\ Updated(r, [r EXCEPT !.tick = FALSE, !.watcher = "reviewing",
                                 !.holder = <<r.owner, "watcher">>])
         /\ \A d \in {"yes", "no"} :
               Updated(r, [r EXCEPT !.watcher = "sending", !.verdict = d])
         /\ \A e \in {"yes", "no"} :
               Updated(r, [r EXCEPT !.watcher = "waiting", !.holder = None,
                                    !.events = Append(@, e)])
         /\ r.events # <<>> => Updated(r, [r EXCEPT !.events = Tail(@)])
<1> USE DEF Updated
<1>1. Updated(r, r)
  OBVIOUS
<1>2. \A h \in Goroutines : Updated(r, [r EXCEPT !.holder = h])
  BY DEF AllowLists, List, Goroutines
<1>3. \A b \in BOOLEAN : Updated(r, [r EXCEPT !.tick = b])
  BY DEF AllowLists, List
<1>4. \A d \in {"yes", "no"} : Updated(r, [r EXCEPT !.holder = None, !.verdict = d])
  BY DEF AllowLists, List, Verdicts
<1>5. /\ Updated(r, [r EXCEPT !.watcher = "waiting"])
      /\ Updated(r, [r EXCEPT !.watcher = "waiting", !.holder = None])
  BY DEF AllowLists, List
<1>6. Updated(r, [r EXCEPT !.tick = FALSE, !.watcher = "reviewing",
                          !.holder = <<r.owner, "watcher">>])
  BY DEF AllowLists, List
<1>7. \A d \in {"yes", "no"} : Updated(r, [r EXCEPT !.watcher = "sending", !.verdict = d])
  BY DEF AllowLists, List, Verdicts
<1>8. \A e \in {"yes", "no"} :
        Updated(r, [r EXCEPT !.watcher = "waiting", !.holder = None, !.events = Append(@, e)])
  <2> TAKE e \in {"yes", "no"}
  <2> DEFINE t == Append(r.events, e)
  <2>1. r.events \in Seq({"yes", "no"})
    BY DEF AllowLists, List
  <2>2. t \in Seq({"yes", "no"})
    BY <2>1
  <2> HIDE DEF t
  <2>3. [r EXCEPT !.watcher = "waiting", !.holder = None, !.events = t] \in AllowLists
    BY <2>2 DEF AllowLists, List
  <2>4. Updated(r, [r EXCEPT !.watcher = "waiting", !.holder = None, !.events = t])
    BY <2>3 DEF AllowLists, List
  <2>5. QED
    BY <2>4 DEF t
<1>9. ASSUME r.events # <<>> PROVE Updated(r, [r EXCEPT !.events = Tail(@)])
  <2>1. r.events \in Seq({"yes", "no"})
    BY DEF AllowLists, List
  <2>2. Tail(r.events) \in Seq({"yes", "no"})
    BY <1>9, <2>1
  <2> DEFINE t == Tail(r.events)
  <2> HIDE DEF t
  <2>3. [r EXCEPT !.events = t] \in AllowLists
    BY <2>2 DEF AllowLists, List, t
  <2>4. Updated(r, [r EXCEPT !.events = t])
    BY <2>3 DEF AllowLists, List
  <2>5. QED
    BY <2>4 DEF t
<1> HIDE DEF Updated
<1>10. QED
  BY <1>1, <1>2, <1>3, <1>4, <1>5, <1>6, <1>7, <1>8, <1>9

LEMMA ChangeRolesKeeps ==
  ASSUME CacheInv, ChangeRoles
  PROVE  CacheInv'
<1> USE DEF CacheInv
<1>1. UNCHANGED <<kind, entries, feed, ask>>
  BY DEF ChangeRoles
<1>2. \A l \in Lists : lists'[l] = IF Synced(l) THEN [lists[l] EXCEPT !.tick = TRUE]
                                               ELSE lists[l]
  BY DEF ChangeRoles
<1>3. \A l \in Lists : Synced(l) => lists[l] \in AllowLists /\ lists[l] # None
  BY DEF Synced, Live, Listing
<1>4. ASSUME NEW l \in Lists, Synced(l) PROVE lists'[l] \in AllowLists
  <2>1. Updated(lists[l], [lists[l] EXCEPT !.tick = TRUE])
    BY <1>3, <1>4, ListUpdates
  <2>2. Updated(lists[l], lists'[l])
    BY <1>2, <1>4, <2>1
  <2>3. QED
    BY <2>2 DEF Updated
<1>5. lists' \in Listing
  BY <1>2, <1>4 DEF ChangeRoles, Listing
<1>6. \A l \in Lists : lists[l] # None => lists'[l] # None
  BY <1>2, <1>4, NoList
<1>7. \A l \in Lists : Live(l) => Live(l)' /\ lists'[l].owner = lists[l].owner
  <2> SUFFICES ASSUME NEW l \in Lists, Live(l)
               PROVE  Live(l)' /\ lists'[l].owner = lists[l].owner
    OBVIOUS
  <2>1. lists[l] \in AllowLists /\ lists'[l] # None
    BY <1>6 DEF Live, Listing
  <2>2. /\ lists'[l].watcher = lists[l].watcher
        /\ lists'[l].owner = lists[l].owner
    BY <1>2, <2>1 DEF AllowLists, List
  <2>3. QED
    BY <2>1, <2>2 DEF Live
<1>8. \A g \in Goroutines : \/ ask'[g].list = None
                            \/ /\ ask'[g].list = ask[g].list
                               /\ lists[ask[g].list] # None => lists'[ask[g].list] # None
  BY <1>1, <1>6, AskTypes
<1>9. \A c \in Callers : feed[c] # None /\ lists[feed[c]] # None => lists'[feed[c]] # None
  BY <1>6
<1>10. QED
  BY <1>1, <1>5, <1>7, <1>8, <1>9, ListsMove

LEMMA LockListKeeps ==
  ASSUME CacheInv, NEW g \in Goroutines, LockList(g)
  PROVE  CacheInv'
<1> DEFINE l == ask[g].list
<1>1. /\ l \in Lists /\ lists[l] \in AllowLists /\ lists[l] # None
      /\ UNCHANGED <<kind, entries, feed>> /\ ask[g].phase = "locking"
  BY AskingLists, NoList DEF LockList
<1>2. ask \in Asks /\ ask[g] \in Asking
  BY <1>1 DEF CacheInv, Asks, Idle, Told
<1>3. CASE /\ lists[l].verdict # "unknown"
           /\ ask' = [ask EXCEPT ![g] = Told(lists[l].verdict)]
           /\ lists' = Collect(lists, ask')
  <2>1. lists[l].verdict \in {"yes", "no"}
    BY <1>1, <1>3 DEF AllowLists, List, Verdicts
  <2>2. /\ ask' \in Asks
        /\ \A h \in Goroutines : ask'[h].list \in {None, ask[h].list}
    BY <1>2, <1>3, <2>1 DEF Asks, Told
  <2>3. lists = [lists EXCEPT ![l] = lists[l]]
    BY DEF CacheInv, Listing
  <2>4. Updated(lists[l], lists[l])
    BY <1>1, ListUpdates
  <2>5. lists' = Collect([lists EXCEPT ![l] = lists[l]], ask')
    BY <1>3, <2>3
  <2> HIDE DEF l
  <2>6. QED
    BY <1>1, <2>2, <2>4, <2>5, OneList
<1>4. CASE /\ ask' = [ask EXCEPT ![g].phase = "reviewing"]
           /\ lists' = [lists EXCEPT ![l].holder = g]
  <2> DEFINE r == [lists[l] EXCEPT !.holder = g]
  <2>1. /\ ask' \in Asks
        /\ \A h \in Goroutines : ask'[h].list \in {None, ask[h].list}
    BY <1>2, <1>4 DEF Asks, Asking
  <2>2. Updated(lists[l], r)
    BY <1>1, ListUpdates
  <2>3. lists' = [lists EXCEPT ![l] = r]
    BY <1>4
  <2> HIDE DEF l, r
  <2>4. QED
    BY <1>1, <2>1, <2>2, <2>3, OneList
<1>5. QED
  BY <1>3, <1>4 DEF LockList

LEMMA AskServerKeeps ==
  ASSUME CacheInv, NEW g \in Goroutines, AskServer(g)
  PROVE  CacheInv'
<1> DEFINE l == ask[g].list
<1>1. /\ l \in Lists /\ lists[l] \in AllowLists /\ lists[l] # None
      /\ UNCHANGED <<kind, entries, feed>>
  BY AskingLists, NoList DEF AskServer
<1>2. PICK answer \in BOOLEAN :
        /\ ask' = [ask EXCEPT ![g] = Told(Verdict(answer))]
        /\ lists' = Collect([lists EXCEPT ![l].holder = None,
                                          ![l].verdict = Verdict(answer)], ask')
  BY DEF AskServer
<1> DEFINE r == [lists[l] EXCEPT !.holder = None, !.verdict = Verdict(answer)]
<1>3. Verdict(answer) \in {"yes", "no"}
  BY DEF Verdict
<1>4. /\ ask' \in Asks
      /\ \A h \in Goroutines : ask'[h].list \in {None, ask[h].list}
  BY <1>2, <1>3 DEF CacheInv, Asks, Told
<1>5. Updated(lists[l], r)
  BY <1>1, <1>3, ListUpdates
<1>6. [lists EXCEPT ![l].holder = None, ![l].verdict = Verdict(answer)]
        = [lists EXCEPT ![l] = r]
  BY <1>1 DEF CacheInv, Listing
<1>7. lists' = Collect([lists EXCEPT ![l] = r], ask')
  BY <1>2, <1>6
<1> HIDE DEF l, r
<1>8. QED
  BY <1>1, <1>4, <1>5, <1>7, OneList

\* What a watcher does to its list, but for its end.
LEMMA WatcherMoves ==
  ASSUME CacheInv, NEW l \in Lists,
         WatcherSynced(l) \/ WatcherTick(l) \/ WatcherReview(l) \/ WatcherSend(l)
           \/ WatcherResync(l)
  PROVE  CacheInv'
<1>1. /\ UNCHANGED <<kind, entries, feed, ask>> /\ Live(l)
      /\ ask' \in Asks /\ \A h \in Goroutines : ask'[h].list \in {None, ask[h].list}
  BY DEF WatcherSynced, WatcherTick, WatcherReview, WatcherSend, WatcherResync, WatchRest,
         Resync, Synced, CacheInv
<1>2. lists[l] # None /\ lists[l] \in AllowLists
  BY <1>1 DEF Live, CacheInv, Listing
<1> SUFFICES \E r \in AllowLists : Updated(lists[l], r) /\ lists' = [lists EXCEPT ![l] = r]
  BY <1>1, <1>2, OneList
<1> USE <1>2 DEF Updated
<1>3. CASE WatcherSynced(l)
  <2>1. lists' = [lists EXCEPT ![l] = [lists[l] EXCEPT !.watcher = "waiting"]]
    BY <1>3 DEF WatcherSynced, Watch
  <2> HIDE DEF Updated
  <2>2. QED
    BY <2>1, ListUpdates DEF Updated
<1>4. CASE WatcherResync(l)
  <2>1. lists' = [lists EXCEPT ![l] = [lists[l] EXCEPT !.tick = TRUE]]
    BY <1>4 DEF WatcherResync
  <2>2. QED
    BY <2>1, ListUpdates
<1>5. CASE WatcherTick(l)
  <2> DEFINE r == IF lists[l].verdict = "unknown"
                  THEN [lists[l] EXCEPT !.tick = FALSE]
                  ELSE [lists[l] EXCEPT !.tick = FALSE, !.watcher = "reviewing",
                                        !.holder = <<lists[l].owner, "watcher">>]
  <2>1. lists' = [lists EXCEPT ![l] = r]
    BY <1>5 DEF WatcherTick, CacheInv, Listing
  <2>2. Updated(lists[l], r)
    BY ListUpdates
  <2> HIDE DEF r
  <2>3. QED
    BY <2>1, <2>2
<1>6. CASE WatcherReview(l)
  <2>1. PICK answer \in BOOLEAN :
          \/ lists' = [lists EXCEPT ![l].watcher = "waiting", ![l].holder = None]
          \/ lists' = [lists EXCEPT ![l].watcher = "sending", ![l].verdict = Verdict(answer)]
    BY <1>6 DEF WatcherReview
  <2>2. Verdict(answer) \in {"yes", "no"}
    BY DEF Verdict
  <2> DEFINE s == [lists[l] EXCEPT !.watcher = "waiting", !.holder = None]
             t == [lists[l] EXCEPT !.watcher = "sending", !.verdict = Verdict(answer)]
  <2>3. Updated(lists[l], s) /\ Updated(lists[l], t)
    BY <2>2, ListUpdates
  <2>4. lists' = [lists EXCEPT ![l] = s] \/ lists' = [lists EXCEPT ![l] = t]
    BY <2>1 DEF CacheInv, Listing
  <2> HIDE DEF s, t
  <2>5. QED
    BY <2>3, <2>4
<1>7. CASE WatcherSend(l)
  <2>1. lists[l].watcher = "sending"
    BY <1>7 DEF WatcherSend
  <2> DEFINE e == ChangeEvent(l)
             r == [lists[l] EXCEPT !.watcher = "waiting", !.holder = None,
                                   !.events = Append(@, e)]
  <2>2. lists' = [lists EXCEPT ![l] = r]
    BY <1>7 DEF WatcherSend, CacheInv, Listing
  <2>3. e \in {"yes", "no"}
    BY <2>1 DEF AllowLists, List, Verdicts, ChangeEvent
  <2> HIDE DEF e
  <2>4. Updated(lists[l], r)
    BY <2>3, ListUpdates
  <2> HIDE DEF r
  <2>5. QED
    BY <2>2, <2>4
<1>8. QED
  BY <1>3, <1>4, <1>5, <1>6, <1>7

\* A watcher that ends takes its list from the cache, and no other.
LEMMA WatcherEndKeeps ==
  ASSUME CacheInv, NEW l \in Lists, WatcherEnd(l)
  PROVE  CacheInv'
<1> DEFINE r == [lists[l] EXCEPT !.watcher = "ended", !.tick = FALSE]
           ls == [lists EXCEPT ![l] = r]
           o == KeyOf(lists[l].owner)
<1>1. /\ UNCHANGED <<kind, feed, ask>> /\ Live(l)
      /\ entries' = [entries EXCEPT ![o] = None]
      /\ lists' = Collect(ls, ask)
  BY DEF WatcherEnd, WatchRest, RemoveList, CacheInv, Listing
<1>2. lists[l] \in AllowLists
  BY <1>1 DEF Live, CacheInv, Listing
<1>3. r \in AllowLists
  BY <1>2 DEF AllowLists, List
<1>4. o \in Keys
  BY <1>2 DEF KeyOf, Keys, AllowLists, List
<1>5. ls \in Listing /\ \A m \in Lists : ls[m] = IF m = l THEN r ELSE lists[m]
  BY <1>3 DEF CacheInv, Listing
<1>6. /\ entries' \in [Keys -> {None} \cup Lists]
      /\ \A k \in Keys : entries'[k] = IF k = o THEN None ELSE entries[k]
  BY <1>1, <1>4 DEF CacheInv
<1>7. r # None
  BY <1>3, NoList
<1> HIDE DEF r, ls
<1>8. /\ lists' \in Listing
      /\ \A m \in Lists : ls[m] # None /\ ls[m].watcher # "ended" => lists'[m] = ls[m]
      /\ \A g \in Goroutines : ask[g].list \in Lists => lists'[ask[g].list] = ls[ask[g].list]
      /\ \A c \in Callers : feed[c] \in Lists => lists'[feed[c]] = ls[feed[c]]
  BY <1>1, <1>5, CollectKeeps
<1>9. EveryEntryWatched'
  <2> SUFFICES ASSUME NEW k \in Keys, entries'[k] # None
               PROVE  (Live(entries[k]) /\ KeyOf(lists[entries[k]].owner) = k)'
    BY <1>1 DEF EveryEntryWatched, KeyOf
  <2>1. k # o /\ entries'[k] = entries[k] /\ entries[k] \in Lists
    BY <1>6 DEF CacheInv
  <2>2. Live(entries[k]) /\ KeyOf(lists[entries[k]].owner) = k
    BY <2>1 DEF CacheInv, EveryEntryWatched
  <2>3. entries[k] # l
    BY <2>1, <2>2
  <2>4. lists'[entries[k]] = lists[entries[k]]
    BY <1>5, <1>8, <2>1, <2>2, <2>3 DEF Live
  <2>5. QED
    BY <1>1, <2>1, <2>2, <2>4 DEF Live, KeyOf
<1>10. Referred'
  <2>1. \A m \in Lists : lists[m] # None => ls[m] # None
    BY <1>5, <1>7
  <2>2. \A g \in Goroutines : ask[g].list # None => lists'[ask[g].list] # None
    BY <1>8, <2>1, AskTypes DEF CacheInv, Referred
  <2>3. \A c \in Callers : feed[c] # None => lists'[feed[c]] # None
    BY <1>8, <2>1 DEF CacheInv, Referred
  <2>4. QED
    BY <1>1, <2>2, <2>3 DEF Referred
<1>11. QED
  BY <1>1, <1>6, <1>8, <1>9, <1>10 DEF CacheInv

\* Who looks a list up has one that exists and is watched.
LEMMA AllowListKeeps ==
  ASSUME CacheInv, NEW c \in Callers, NEW l \in Lists, AllowList(c, l), UNCHANGED kind
  PROVE  /\ lists' \in Listing /\ entries' \in [Keys -> {None} \cup Lists]
         /\ EveryEntryWatched'
         /\ lists'[l] # None /\ entries'[KeyOf(c)] = l
         /\ \A m \in Lists : lists[m] # None => lists'[m] # None
<1>1. KeyOf(c) \in Keys /\ l # None
  BY AllowCacheAssumption DEF KeyOf, Keys
<1>2. CASE l = entries[KeyOf(c)] /\ UNCHANGED <<lists, entries>>
  BY <1>1, <1>2 DEF CacheInv, EveryEntryWatched, Live, KeyOf
<1>3. CASE /\ entries[KeyOf(c)] = None /\ lists[l] = None
           /\ lists' = [lists EXCEPT ![l] = NewList(c)]
           /\ entries' = [entries EXCEPT ![KeyOf(c)] = l]
  <2>1. NewList(c) \in AllowLists /\ NewList(c).owner = c /\ NewList(c).watcher = "syncing"
    BY DEF NewList, AllowLists, List, Verdicts
  <2>2. NewList(c) # None
    BY <2>1, NoList
  <2>3. /\ lists' \in Listing
        /\ \A m \in Lists : lists'[m] = IF m = l THEN NewList(c) ELSE lists[m]
    BY <1>3, <2>1 DEF CacheInv, Listing
  <2>4. /\ entries' \in [Keys -> {None} \cup Lists]
        /\ \A k \in Keys : entries'[k] = IF k = KeyOf(c) THEN l ELSE entries[k]
    BY <1>1, <1>3 DEF CacheInv
  <2>5. EveryEntryWatched'
    <3> SUFFICES ASSUME NEW k \in Keys, entries'[k] # None
                 PROVE  (Live(entries[k]) /\ KeyOf(lists[entries[k]].owner) = k)'
      BY DEF EveryEntryWatched, KeyOf
    <3>1. CASE k = KeyOf(c)
      BY <2>1, <2>2, <2>3, <2>4, <3>1 DEF Live, KeyOf
    <3>2. CASE k # KeyOf(c)
      <4>1. entries'[k] = entries[k] /\ entries[k] \in Lists
        BY <2>4, <3>2 DEF CacheInv
      <4>2. Live(entries[k]) /\ KeyOf(lists[entries[k]].owner) = k
        BY <4>1 DEF CacheInv, EveryEntryWatched
      <4>3. lists'[entries[k]] = lists[entries[k]]
        BY <1>3, <2>3, <4>1, <4>2 DEF Live
      <4>4. QED
        BY <4>1, <4>2, <4>3 DEF Live, KeyOf
    <3>3. QED
      BY <3>1, <3>2
  <2>6. QED
    BY <1>1, <2>2, <2>3, <2>4, <2>5
<1>4. QED
  BY <1>2, <1>3 DEF AllowList

LEMMA StartAskingKeeps ==
  ASSUME CacheInv, NEW g \in Goroutines, StartAsking(g), UNCHANGED <<kind, feed>>
  PROVE  CacheInv'
<1>1. PICK l \in Lists : /\ AllowList(g[1], l)
                         /\ ask' = [ask EXCEPT ![g] = [list |-> l, phase |-> "locking"]]
  BY DEF StartAsking
<1>2. g[1] \in Callers
  BY DEF Goroutines
<1>3. /\ lists' \in Listing /\ entries' \in [Keys -> {None} \cup Lists]
      /\ EveryEntryWatched' /\ lists'[l] # None
      /\ \A m \in Lists : lists[m] # None => lists'[m] # None
  BY <1>1, <1>2, AllowListKeeps
<1>4. /\ ask' \in Asks
      /\ \A h \in Goroutines : ask'[h].list = IF h = g THEN l ELSE ask[h].list
  BY <1>1 DEF CacheInv, Asks, Asking
<1>5. Referred'
  BY <1>3, <1>4, AskTypes DEF CacheInv, Referred
<1>6. QED
  BY <1>3, <1>4, <1>5 DEF CacheInv

LEMMA AnsweredKeeps ==
  ASSUME CacheInv, NEW g \in Goroutines, NEW phase, Answered(g, phase),
         UNCHANGED <<kind, feed, lists, entries>>
  PROVE  CacheInv'
<1>1. /\ ask' \in Asks
      /\ \A h \in Goroutines : ask'[h].list \in {None, ask[h].list}
  BY DEF Answered, CacheInv, Asks, Idle
<1>2. Referred' /\ EveryEntryWatched'
  BY <1>1 DEF CacheInv, Referred, EveryEntryWatched, Live, KeyOf
<1>3. QED
  BY <1>1, <1>2 DEF CacheInv

LEMMA FeedKeeps ==
  ASSUME CacheInv, NEW c \in Callers, Feed(c)
  PROVE  CacheInv'
<1>1. PICK l \in Lists : AllowList(c, l) /\ feed' = [feed EXCEPT ![c] = l]
  BY DEF Feed
<1>2. UNCHANGED <<kind, ask>>
  BY DEF Feed, RoleRest
<1>3. /\ lists' \in Listing /\ entries' \in [Keys -> {None} \cup Lists]
      /\ EveryEntryWatched' /\ lists'[l] # None
      /\ \A m \in Lists : lists[m] # None => lists'[m] # None
  BY <1>1, <1>2, AllowListKeeps
<1>4. /\ feed' \in [Callers -> {None} \cup Lists]
      /\ \A d \in Callers : feed'[d] = IF d = c THEN l ELSE feed[d]
  BY <1>1 DEF CacheInv
<1>5. Referred'
  BY <1>2, <1>3, <1>4, AskTypes DEF CacheInv, Referred
<1>6. QED
  BY <1>2, <1>3, <1>4, <1>5 DEF CacheInv

LEMMA PumpEventKeeps ==
  ASSUME CacheInv, SessionInv, NEW c \in Callers, PumpEvent(c)
  PROVE  CacheInv'
<1> DEFINE l == feed[c]
           r == [lists[l] EXCEPT !.events = Tail(@)]
<1>1. /\ UNCHANGED <<kind, entries, ask, feed>>
      /\ lists[l].events # <<>> /\ lists' = [lists EXCEPT ![l] = r]
      /\ InStream(c)
  BY DEF PumpEvent, PumpRest, RoleRest
<1>2. l \in Lists /\ lists[l] # None
  BY <1>1 DEF CacheInv, Referred, SessionInv, InStream
<1>3. lists[l] \in AllowLists
  BY <1>2 DEF CacheInv, Listing
<1>4. Updated(lists[l], r)
  BY <1>1, <1>3, ListUpdates
<1>5. ask' \in Asks /\ \A h \in Goroutines : ask'[h].list \in {None, ask[h].list}
  BY <1>1 DEF CacheInv
<1> HIDE DEF l, r
<1>6. QED
  BY <1>1, <1>2, <1>4, <1>5, OneList
-----------------------------------------------------------------------------
(* The steps of the callers.                                               *)

\* The parts of the invariants that a step leaves alone.
LEMMA CacheRests ==
  ASSUME CacheInv, UNCHANGED <<kind, lists, entries, ask, feed>>
  PROVE  CacheInv'
BY DEF CacheInv, Referred, EveryEntryWatched, Live, KeyOf

LEMMA SessionRests ==
  ASSUME SessionInv, UNCHANGED <<kind, feed, sessionVars>>
  PROVE  SessionInv'
BY DEF SessionInv, SessionTypeOK, sessionVars

LEMMA GoroutinePairs ==
  ASSUME NEW c \in Callers
  PROVE  <<c, "main">> \in Goroutines /\ <<c, "reader">> \in Goroutines
         /\ <<c, "main">>[1] = c /\ <<c, "reader">>[1] = c
BY DEF Goroutines

LEMMA CacheSteps ==
  ASSUME CacheInv, SessionInv, CacheStep, UNCHANGED sessionVars
  PROVE  CacheInv' /\ SessionInv'
<1>1. UNCHANGED <<kind, feed>>
  BY DEF CacheStep, ChangeRoles, FollowRoles, LockList, AskServer, Watcher, WatcherSynced,
         WatcherTick, WatcherReview, WatcherSend, WatcherEnd, WatcherResync, WatchRest
<1>2. SessionInv'
  BY <1>1, SessionRests
<1>3. CacheInv'
  <2>1. CASE \E s \in Subjects : FollowRoles(s)
    BY <2>1, CacheRests DEF FollowRoles, cacheVars
  <2>2. QED
    BY <2>1, ChangeRolesKeeps, LockListKeeps, AskServerKeeps, WatcherMoves, WatcherEndKeeps
       DEF CacheStep, Watcher
<1>4. QED
  BY <1>2, <1>3

LEMMA SessionSteps ==
  ASSUME CacheInv, SessionInv, NEW c \in Callers, SessionStep(c)
  PROVE  CacheInv' /\ SessionInv'
<1> USE DEF RoleRest
<1> DEFINE g == <<c, "main">>
<1>1. g \in Goroutines
  BY GoroutinePairs
<1>2. CASE Begin(c)
  <2>1. CacheInv'
    BY <1>1, <1>2, StartAskingKeeps DEF Begin
  <2>2. SessionInv'
    BY <1>2 DEF Begin, SessionInv, SessionTypeOK
  <2>3. QED
    BY <2>1, <2>2
<1>3. CASE Refuse(c)
  <2>1. CacheInv'
    BY <1>1, <1>3, AnsweredKeeps DEF Refuse
  <2>2. SessionInv'
    BY <1>3 DEF Refuse, SessionInv, SessionTypeOK
  <2>3. QED
    BY <2>1, <2>2
<1>4. CASE SetPowerState(c)
  <2>1. CacheInv'
    BY <1>1, <1>4, AnsweredKeeps DEF SetPowerState
  <2>2. SessionInv'
    BY <1>4 DEF SetPowerState, SessionInv, SessionTypeOK
  <2>3. QED
    BY <2>1, <2>2
<1>5. CASE Disconnect(c)
  BY <1>5, CacheRests, SessionRests DEF Disconnect, cacheVars
<1>6. QED
  BY <1>2, <1>3, <1>4, <1>5 DEF SessionStep

LEMMA VncSteps ==
  ASSUME CacheInv, SessionInv, NEW c \in Callers, VncStep(c)
  PROVE  CacheInv' /\ SessionInv'
<1> USE DEF RoleRest, VncRest
<1> DEFINE g == <<c, "main">>
<1>1. g \in Goroutines
  BY GoroutinePairs
<1>2. CASE VncConnect(c)
  <2>1. CacheInv'
    BY <1>1, <1>2, AnsweredKeeps DEF VncConnect
  <2>2. SessionInv'
    BY <1>2 DEF VncConnect, SessionInv, SessionTypeOK
  <2>3. QED
    BY <2>1, <2>2
<1>3. CASE VncConnectFails(c) \/ VncConnected(c)
  <2>1. CacheInv'
    BY <1>3, CacheRests DEF VncConnectFails, VncConnected, cacheVars
  <2>2. SessionInv'
    <3>1. CASE VncConnectFails(c)
      BY <3>1 DEF VncConnectFails, SessionInv, SessionTypeOK
    <3>2. CASE VncConnected(c)
      <4>1. /\ UNCHANGED <<kind, feed>> /\ kind[c] = "vnc"
            /\ main' = [main EXCEPT ![c] = "reading"]
            /\ reader' = [reader EXCEPT ![c] = "reading"]
            /\ relay' = [relay EXCEPT ![c] = "selecting"]
        BY <3>2 DEF VncConnected
      <4>2. SessionTypeOK'
        BY <4>1 DEF SessionInv, SessionTypeOK, Running
      <4>3. QED
        BY <4>1, <4>2 DEF SessionInv, SessionTypeOK
    <3>3. QED
      BY <1>3, <3>1, <3>2
  <2>3. QED
    BY <2>1, <2>2
<1>4. CASE EmptyMessageFails(c) \/ WriterEnds(c)
  <2>1. CacheInv'
    BY <1>4, CacheRests DEF EmptyMessageFails, WriterEnds, cacheVars
  <2>2. SessionInv'
    BY <1>4 DEF EmptyMessageFails, WriterEnds, InSession, SessionInv, SessionTypeOK
  <2>3. QED
    BY <2>1, <2>2
<1>5. ASSUME NEW who \in {"main", "reader"},
             \/ ReadMessage(c, who) \/ ReadFails(c, who)
             \/ MessageAllowed(c, who) \/ MessageRefused(c, who) \/ HandOver(c, who)
      PROVE  CacheInv' /\ SessionInv'
  <2>1. <<c, who>> \in Goroutines
    BY DEF Goroutines
  <2>2. CASE ReadMessage(c, who)
    <3>1. CacheInv'
      BY <2>1, <2>2, StartAskingKeeps DEF ReadMessage
    <3>2. SessionInv'
      BY <2>2 DEF ReadMessage, InSession, Go, At, Running, SessionInv, SessionTypeOK
    <3>3. QED
      BY <3>1, <3>2
  <2>3. CASE ReadFails(c, who)
    <3>1. CacheInv'
      BY <2>3, CacheRests DEF ReadFails, cacheVars
    <3>2. SessionInv'
      BY <2>3 DEF ReadFails, InSession, Go, At, SessionInv, SessionTypeOK
    <3>3. QED
      BY <3>1, <3>2
  <2>4. CASE MessageAllowed(c, who) \/ MessageRefused(c, who)
    <3>1. CacheInv'
      BY <2>1, <2>4, AnsweredKeeps DEF MessageAllowed, MessageRefused
    <3>2. SessionInv'
      BY <2>4 DEF MessageAllowed, MessageRefused, InSession, Go, At, Running,
                  SessionInv, SessionTypeOK
    <3>3. QED
      BY <3>1, <3>2
  <2>5. CASE HandOver(c, who)
    <3>1. CacheInv'
      BY <2>5, CacheRests DEF HandOver, cacheVars
    <3>2. SessionInv'
      BY <2>5 DEF HandOver, InSession, Go, At, Running, SessionInv, SessionTypeOK
    <3>3. QED
      BY <3>1, <3>2
  <2>6. QED
    BY <1>5, <2>2, <2>3, <2>4, <2>5
<1>6. QED
  BY <1>2, <1>3, <1>4, <1>5 DEF VncStep

LEMMA ConsoleSteps ==
  ASSUME CacheInv, SessionInv, NEW c \in Callers, ConsoleStep(c)
  PROVE  CacheInv' /\ SessionInv'
<1> USE DEF RoleRest
<1> DEFINE g == <<c, "main">>
<1>1. g \in Goroutines
  BY GoroutinePairs
<1>2. CASE FindFeed(c)
  <2>1. CacheInv'
    BY <1>1, <1>2, AnsweredKeeps DEF FindFeed
  <2>2. SessionInv'
    BY <1>2 DEF FindFeed, SessionInv, SessionTypeOK
  <2>3. QED
    BY <2>1, <2>2
<1>3. CASE Feed(c)
  <2>1. CacheInv'
    BY <1>3, FeedKeeps
  <2>2. PICK l \in Lists : feed' = [feed EXCEPT ![c] = l]
    BY <1>3 DEF Feed
  <2>3. l # None /\ \A d \in Callers : feed'[d] = IF d = c THEN l ELSE feed[d]
    BY <2>2, AllowCacheAssumption DEF CacheInv
  <2>4. SessionInv'
    BY <1>3, <2>3 DEF Feed, SessionInv, SessionTypeOK
  <2>5. QED
    BY <2>1, <2>4
<1>4. CASE ConsoleConnectFails(c) \/ ConsoleConnected(c) \/ ReadOutputFails(c)
  <2>1. CacheInv'
    BY <1>4, CacheRests DEF ConsoleConnectFails, ConsoleConnected, ReadOutputFails, cacheVars
  <2>2. SessionInv'
    BY <1>4 DEF ConsoleConnectFails, ConsoleConnected, ReadOutputFails, Running,
                SessionInv, SessionTypeOK
  <2>3. QED
    BY <2>1, <2>2
<1>5. CASE ReadOutput(c) \/ WriteInputFails(c) \/ PumpOutput(c) \/ PumpEmit(c) \/ PumpEnds(c)
  <2>1. CacheInv'
    BY <1>5, CacheRests DEF ReadOutput, WriteInputFails, PumpOutput, PumpEmit, PumpEnds, PumpRest
  <2>2. /\ UNCHANGED <<kind, feed, main, reader>> /\ InStream(c)
        /\ \/ UNCHANGED relay
           \/ \E to \in {"selecting", "emitting", "ended", "failed"} :
                relay' = [relay EXCEPT ![c] = to]
    BY <1>5 DEF ReadOutput, WriteInputFails, PumpOutput, PumpEmit, PumpEnds, PumpRest, Take
  <2>3. SessionInv'
    BY <2>2 DEF InStream, SessionInv, SessionTypeOK
  <2>4. QED
    BY <2>1, <2>3
<1>6. CASE PumpEvent(c)
  <2>1. CacheInv'
    BY <1>6, PumpEventKeeps
  <2>2. SessionInv'
    BY <1>6 DEF PumpEvent, PumpRest, Take, InStream, SessionInv, SessionTypeOK
  <2>3. QED
    BY <2>1, <2>2
<1>7. CASE LibrarySends(c)
  BY <1>7, CacheRests, SessionRests DEF LibrarySends, cacheVars
<1>8. QED
  BY <1>2, <1>3, <1>4, <1>5, <1>6, <1>7 DEF ConsoleStep

LEMMA Initially ==
  ASSUME Init
  PROVE  CacheInv /\ SessionInv
<1>1. kind \in [Callers -> KindType]
  BY AllowCacheAssumption DEF Init, CacheInit
<1>2. CacheInv
  BY <1>1 DEF Init, CacheInit, CacheInv, Listing, Asks, Idle, Referred, EveryEntryWatched
<1>3. SessionInv
  BY DEF Init, SessionInit, SessionInv, SessionTypeOK
<1>4. QED
  BY <1>2, <1>3

LEMMA Steps ==
  ASSUME CacheInv, SessionInv, [Next]_vars
  PROVE  CacheInv' /\ SessionInv'
<1>1. CASE Step
  BY <1>1, CacheSteps, SessionSteps, VncSteps, ConsoleSteps DEF Step
<1>2. CASE UNCHANGED vars
  BY <1>2, CacheRests, SessionRests DEF vars, apiVars, sessionVars
<1>3. QED
  BY <1>1, <1>2 DEF Next

\* Every list in the cache has a watcher that has not ended and that removes it
\* under the key it is found by.
THEOREM CacheIsWatched == Spec => []EveryEntryWatched
<1>1. CacheInv => EveryEntryWatched
  BY DEF CacheInv
<1>2. QED
  BY <1>1, Initially, Steps, PTL DEF Spec
-----------------------------------------------------------------------------
(* What the cache refuses is not passed on.                                *)

\* No step changes what a caller is.
LEMMA KindStays == ASSUME Step PROVE UNCHANGED kind
<1>1. CacheStep => UNCHANGED kind
  BY DEF CacheStep, ChangeRoles, FollowRoles, LockList, AskServer, Watcher, WatcherSynced,
         WatcherTick, WatcherReview, WatcherSend, WatcherEnd, WatcherResync, WatchRest
<1>2. \A c \in Callers : SessionStep(c) => UNCHANGED kind
  BY DEF SessionStep, Begin, Refuse, SetPowerState, Disconnect, RoleRest
<1>3. \A c \in Callers : VncStep(c) => UNCHANGED kind
  BY DEF VncStep, VncRest, VncConnect, VncConnectFails, VncConnected, EmptyMessageFails,
         WriterEnds, ReadMessage, ReadFails, MessageAllowed, MessageRefused, HandOver, RoleRest
<1>4. \A c \in Callers : ConsoleStep(c) => UNCHANGED kind
  BY DEF ConsoleStep, FindFeed, Feed, ConsoleConnectFails, ConsoleConnected, ReadOutput,
         ReadOutputFails, WriteInputFails, PumpOutput, PumpEvent, PumpEmit, PumpEnds, PumpRest,
         LibrarySends, RoleRest
<1>5. QED
  BY <1>1, <1>2, <1>3, <1>4 DEF Step

\* A goroutine whose caller is refused in the cache has been told so, or waits
\* for the list that says so.
RefusedInv ==
  \A g \in Goroutines : refused[g] =>
    /\ Cached(g[1]) = "no" /\ At(g[1], g[2]) = "checking"
    /\ \/ ask[g].phase = "no"
       \/ ask[g].phase = "locking" /\ ask[g].list = entries[KeyOf(g[1])]

\* A goroutine that a step does not concern.
Aside(g) == ask'[g] = ask[g] /\ At(g[1], g[2])' = At(g[1], g[2])

\* An entry of the cache is not replaced by another in one step.
LEMMA EntriesStay ==
  ASSUME CacheInv, Step, NEW k \in Keys, entries[k] # None, entries'[k] # None
  PROVE  entries'[k] = entries[k]
<1>1. CASE UNCHANGED entries
  BY <1>1
<1>2. ASSUME NEW c \in Callers, NEW l \in Lists, AllowList(c, l)
      PROVE  entries'[k] = entries[k]
  BY <1>2 DEF AllowList, CacheInv
<1>3. ASSUME NEW g \in Goroutines, StartAsking(g)
      PROVE  entries'[k] = entries[k]
  BY <1>2, <1>3 DEF StartAsking, Goroutines
<1>4. CASE CacheStep
  <2>1. ASSUME NEW l \in Lists, WatcherEnd(l)
        PROVE  entries'[k] = entries[k]
    BY <2>1 DEF WatcherEnd, RemoveList, CacheInv
  <2>2. UNCHANGED entries \/ \E l \in Lists : WatcherEnd(l)
    BY <1>4 DEF CacheStep, ChangeRoles, FollowRoles, cacheVars, LockList, AskServer, Watcher,
                WatcherSynced, WatcherTick, WatcherReview, WatcherSend, WatcherResync
  <2>3. QED
    BY <1>1, <2>1, <2>2
<1>5. ASSUME NEW c \in Callers, SessionStep(c)
      PROVE  entries'[k] = entries[k]
  <2>1. UNCHANGED entries \/ StartAsking(<<c, "main">>)
    BY <1>5 DEF SessionStep, Begin, Refuse, SetPowerState, Disconnect, cacheVars
  <2>2. QED
    BY <1>1, <1>3, <2>1, GoroutinePairs
<1>6. ASSUME NEW c \in Callers, VncStep(c)
      PROVE  entries'[k] = entries[k]
  <2>1. \/ UNCHANGED entries
        \/ \E who \in {"main", "reader"} : StartAsking(<<c, who>>)
    BY <1>6 DEF VncStep, VncConnect, VncConnectFails, VncConnected, EmptyMessageFails,
                WriterEnds, ReadMessage, ReadFails, MessageAllowed, MessageRefused,
                HandOver, cacheVars
  <2>2. QED
    BY <1>1, <1>3, <2>1, GoroutinePairs
<1>7. ASSUME NEW c \in Callers, ConsoleStep(c)
      PROVE  entries'[k] = entries[k]
  <2>1. UNCHANGED entries \/ \E l \in Lists : AllowList(c, l)
    BY <1>7 DEF ConsoleStep, FindFeed, Feed, ConsoleConnectFails, ConsoleConnected,
                ReadOutput, ReadOutputFails, WriteInputFails, PumpOutput, PumpEvent,
                PumpEmit, PumpEnds, PumpRest, LibrarySends, cacheVars
  <2>2. QED
    BY <1>1, <1>2, <2>1
<1>8. QED
  BY <1>4, <1>5, <1>6, <1>7 DEF Step

\* What a step can do to a goroutine that has, or will have, a message at hand.
LEMMA StepBusy ==
  ASSUME CacheInv, SessionInv, Step, NEW g \in Goroutines, Busy(g[1], g[2])'
  PROVE  \/ Aside(g)
         \/ LockList(g) /\ At(g[1], g[2])' = At(g[1], g[2])
         \/ AskServer(g) /\ At(g[1], g[2])' = At(g[1], g[2])
         \/ ReadMessage(g[1], g[2])
         \/ MessageAllowed(g[1], g[2])
<1> USE DEF Aside
<1>1. /\ g[1] \in Callers /\ g[2] \in {"main", "reader"} /\ g = <<g[1], g[2]>>
      /\ At(g[1], g[2])' \notin {"idle", "asking", "feeding", "connecting", "returned", "reading"}
  BY DEF Goroutines, Busy
<1>2. CASE CacheStep /\ UNCHANGED sessionVars
  <2>1. At(g[1], g[2])' = At(g[1], g[2])
    BY <1>2 DEF At, sessionVars
  <2>2. ASSUME NEW h \in Goroutines, LockList(h) \/ AskServer(h)
        PROVE  h = g \/ ask'[g] = ask[g]
    BY <2>2 DEF LockList, AskServer, CacheInv, Asks
  <2>3. \/ UNCHANGED ask
        \/ \E h \in Goroutines : LockList(h) \/ AskServer(h)
    BY <1>2 DEF CacheStep, ChangeRoles, FollowRoles, cacheVars, Watcher, WatcherSynced,
                WatcherTick, WatcherReview, WatcherSend, WatcherEnd, WatcherResync, WatchRest
  <2>4. QED
    BY <2>1, <2>2, <2>3
<1>3. ASSUME NEW c \in Callers, NEW r, ask' = [ask EXCEPT ![<<c, "main">>] = r],
             NEW pc \in {"asking", "returned", "connecting", "feeding"},
             main' = [main EXCEPT ![c] = pc], UNCHANGED reader
      PROVE  Aside(g)
  BY <1>1, <1>3 DEF At, CacheInv, Asks, SessionInv, SessionTypeOK
<1>4. ASSUME NEW c \in Callers, UNCHANGED ask,
             NEW pc \in {"reading", "returned", "connecting"},
             main' = [main EXCEPT ![c] = pc] \/ UNCHANGED main,
             NEW to \in {"reading", "returned"},
             reader' = [reader EXCEPT ![c] = to] \/ UNCHANGED reader
      PROVE  Aside(g)
  BY <1>1, <1>4 DEF At, SessionInv, SessionTypeOK
<1>5. ASSUME NEW c \in Callers, SessionStep(c)
      PROVE  Aside(g)
  <2>1. CASE Disconnect(c)
    BY <2>1 DEF Disconnect, cacheVars, sessionVars, At
  <2>2. CASE Begin(c)
    <3>1. PICK l \in Lists :
            ask' = [ask EXCEPT ![<<c, "main">>] = [list |-> l, phase |-> "locking"]]
      BY <2>2 DEF Begin, StartAsking
    <3>2. QED
      BY <1>3, <2>2, <3>1 DEF Begin
  <2>3. CASE Refuse(c)
    BY <1>3, <2>3 DEF Refuse, Answered
  <2>4. CASE SetPowerState(c)
    BY <1>3, <2>4 DEF SetPowerState, Answered
  <2>5. QED
    BY <1>5, <2>1, <2>2, <2>3, <2>4 DEF SessionStep
<1>6. ASSUME NEW c \in Callers, ConsoleStep(c)
      PROVE  Aside(g)
  <2>1. CASE FindFeed(c)
    BY <1>3, <2>1 DEF FindFeed, Answered
  <2>2. CASE \/ Feed(c) \/ ConsoleConnectFails(c) \/ ConsoleConnected(c) \/ ReadOutputFails(c)
    BY <1>4, <2>2 DEF Feed, ConsoleConnectFails, ConsoleConnected, ReadOutputFails, cacheVars
  <2>3. CASE \/ ReadOutput(c) \/ WriteInputFails(c) \/ PumpOutput(c) \/ PumpEvent(c)
             \/ PumpEmit(c) \/ PumpEnds(c) \/ LibrarySends(c)
    <3>1. UNCHANGED <<ask, main, reader>>
      BY <2>3 DEF ReadOutput, WriteInputFails, PumpOutput, PumpEvent, PumpEmit, PumpEnds,
                  LibrarySends, PumpRest, cacheVars, sessionVars
    <3>2. QED
      BY <3>1 DEF At
  <2>4. QED
    BY <1>6, <2>1, <2>2, <2>3 DEF ConsoleStep
<1>7. ASSUME NEW c \in Callers, VncStep(c)
      PROVE  Aside(g) \/ ReadMessage(g[1], g[2]) \/ MessageAllowed(g[1], g[2])
  <2>1. CASE VncConnect(c)
    BY <1>3, <2>1 DEF VncConnect, Answered
  <2>2. CASE VncConnectFails(c) \/ VncConnected(c)
    BY <1>4, <2>2 DEF VncConnectFails, VncConnected, cacheVars
  <2>3. CASE EmptyMessageFails(c) \/ WriterEnds(c)
    <3>1. UNCHANGED <<ask, main, reader>>
      BY <2>3 DEF EmptyMessageFails, WriterEnds, cacheVars
    <3>2. QED
      BY <3>1 DEF At
  <2>4. ASSUME NEW who \in {"main", "reader"}, <<c, who>> # g,
               \/ ReadMessage(c, who) \/ ReadFails(c, who)
               \/ MessageAllowed(c, who) \/ MessageRefused(c, who) \/ HandOver(c, who)
        PROVE  Aside(g)
    <3>1. ask'[g] = ask[g]
      BY <2>4 DEF ReadMessage, StartAsking, ReadFails, MessageAllowed, MessageRefused,
                  HandOver, Answered, cacheVars, CacheInv, Asks
    <3>2. \E pc \in {"reading", "checking", "sending", "returned"} : Go(c, who, pc)
      BY <2>4 DEF ReadMessage, ReadFails, MessageAllowed, MessageRefused, HandOver
    <3>3. At(g[1], g[2])' = At(g[1], g[2])
      BY <1>1, <2>4, <3>2 DEF Go, At, SessionInv, SessionTypeOK
    <3>4. QED
      BY <3>1, <3>3
  <2>5. ASSUME NEW who \in {"main", "reader"}, <<c, who>> = g,
               ReadFails(c, who) \/ MessageRefused(c, who) \/ HandOver(c, who)
        PROVE  FALSE
    <3>1. \E pc \in {"reading", "returned"} : Go(c, who, pc)
      BY <2>5 DEF ReadFails, MessageRefused, HandOver
    <3>2. At(g[1], g[2])' \in {"reading", "returned"}
      BY <1>1, <2>5, <3>1 DEF Go, At, SessionInv, SessionTypeOK
    <3>3. QED
      BY <1>1, <3>2
  <2>6. QED
    BY <1>1, <1>7, <2>1, <2>2, <2>3, <2>4, <2>5 DEF VncStep
<1>8. QED
  BY <1>2, <1>5, <1>6, <1>7 DEF Step

LEMMA RefusedSteps ==
  ASSUME CacheInv, SessionInv, RefusedInv, [Next]_vars
  PROVE  RefusedInv'
<1>1. CASE UNCHANGED vars
  BY <1>1 DEF vars, apiVars, RefusedInv, Cached, KeyOf, At
<1>2. CASE Next
  <2> SUFFICES ASSUME NEW g \in Goroutines, refused'[g]
               PROVE  /\ Cached(g[1])' = "no" /\ At(g[1], g[2])' = "checking"
                      /\ \/ ask'[g].phase = "no"
                         \/ /\ ask'[g].phase = "locking"
                            /\ ask'[g].list = entries'[KeyOf(g[1])']
    BY DEF RefusedInv
  <2>1. /\ Busy(g[1], g[2])' /\ Cached(g[1])' = "no"
        /\ refused[g] \/ ~Busy(g[1], g[2])
    BY <1>2 DEF Next, Remember
  <2>2. /\ g[1] \in Callers /\ g[2] \in {"main", "reader"} /\ g = <<g[1], g[2]>>
        /\ KeyOf(g[1]) \in Keys
    BY DEF Goroutines, KeyOf, Keys
  <2>3. UNCHANGED kind /\ Step
    BY <1>2, KindStays DEF Next
  <2>4. KeyOf(g[1])' = KeyOf(g[1])
    BY <2>3 DEF KeyOf
  <2>5. entries'[KeyOf(g[1])] # None
    BY <2>1, <2>4 DEF Cached
  <2>6. \/ Aside(g)
        \/ LockList(g) /\ At(g[1], g[2])' = At(g[1], g[2])
        \/ AskServer(g) /\ At(g[1], g[2])' = At(g[1], g[2])
        \/ ReadMessage(g[1], g[2])
        \/ MessageAllowed(g[1], g[2])
    BY <2>1, <2>3, StepBusy
  <2>7. CASE refused[g]
    <3>1. /\ Cached(g[1]) = "no" /\ At(g[1], g[2]) = "checking"
          /\ \/ ask[g].phase = "no"
             \/ ask[g].phase = "locking" /\ ask[g].list = entries[KeyOf(g[1])]
      BY <2>7 DEF RefusedInv
    <3>2. /\ entries[KeyOf(g[1])] # None
          /\ lists[entries[KeyOf(g[1])]].verdict = "no"
      BY <3>1 DEF Cached
    <3>3. entries'[KeyOf(g[1])] = entries[KeyOf(g[1])]
      BY <2>2, <2>3, <2>5, <3>2, EntriesStay
    <3>4. CASE Aside(g)
      BY <2>1, <2>4, <3>1, <3>3, <3>4 DEF Aside
    <3>5. CASE LockList(g) /\ At(g[1], g[2])' = At(g[1], g[2])
      <4>1. lists[ask[g].list].verdict = "no"
        BY <3>1, <3>2, <3>5 DEF LockList
      <4>2. ask' = [ask EXCEPT ![g] = Told("no")]
        BY <3>5, <4>1 DEF LockList
      <4>3. ask'[g].phase = "no"
        BY <4>2 DEF CacheInv, Asks, Told
      <4>4. QED
        BY <2>1, <3>1, <3>5, <4>3
    <3>6. ~AskServer(g) /\ ~ReadMessage(g[1], g[2]) /\ ~MessageAllowed(g[1], g[2])
      BY <2>2, <3>1 DEF AskServer, ReadMessage, MessageAllowed, Answered
    <3>7. QED
      BY <2>6, <3>4, <3>5, <3>6
  <2>8. CASE ~Busy(g[1], g[2])
    <3>1. ReadMessage(g[1], g[2])
      <4>1. At(g[1], g[2])' # At(g[1], g[2])
        BY <2>1, <2>8 DEF Busy
      <4>2. ~MessageAllowed(g[1], g[2])
        BY <2>8 DEF MessageAllowed, Busy
      <4>3. QED
        BY <2>6, <4>1, <4>2 DEF Aside
    <3>2. PICK l \in Lists : /\ AllowList(g[1], l)
                             /\ ask' = [ask EXCEPT ![g] = [list |-> l, phase |-> "locking"]]
      BY <2>2, <3>1 DEF ReadMessage, StartAsking
    <3>3. entries'[KeyOf(g[1])] = l
      BY <2>2, <2>3, <3>2, AllowListKeeps
    <3>4. ask'[g].phase = "locking" /\ ask'[g].list = l
      BY <3>2 DEF CacheInv, Asks
    <3>5. At(g[1], g[2])' = "checking"
      BY <2>2, <3>1 DEF ReadMessage, Go, At, SessionInv, SessionTypeOK
    <3>6. QED
      BY <2>1, <2>4, <3>3, <3>4, <3>5
  <2>9. QED
    BY <2>1, <2>7, <2>8
<1>3. QED
  BY <1>1, <1>2

\* No message is passed on, in neither direction of a VNC session, of a subject
\* that was refused in the cache when it was read and is so ever since.
THEOREM RefusedIsNotRelayed == Spec => []RefusedNotRelayed
<1>1. Init => CacheInv /\ SessionInv /\ RefusedInv
  BY Initially DEF Init, RefusedInv
<1>2. CacheInv /\ SessionInv /\ RefusedInv /\ [Next]_vars
        => CacheInv' /\ SessionInv' /\ RefusedInv'
  BY Steps, RefusedSteps
<1>3. RefusedInv => RefusedNotRelayed
  <2> SUFFICES ASSUME RefusedInv, NEW c \in Callers, NEW who \in {"main", "reader"},
                      refused[<<c, who>>]
               PROVE  At(c, who) # "sending"
    BY DEF RefusedNotRelayed
  <2> DEFINE g == <<c, who>>
  <2>1. g \in Goroutines /\ g[1] = c /\ g[2] = who
    BY DEF Goroutines
  <2> HIDE DEF g
  <2>2. At(g[1], g[2]) = "checking"
    BY <2>1 DEF RefusedInv, g
  <2>3. QED
    BY <2>1, <2>2
<1>4. QED
  BY <1>1, <1>2, <1>3, PTL DEF Spec

-----------------------------------------------------------------------------
(* What a step can do to a list, and to what a goroutine asks.             *)

\* What has become of a list but for its notification: the owner stays.
Turned(r, u, holder, watcher, verdict, events) ==
  /\ u.owner = r.owner /\ u.holder = holder /\ u.watcher = watcher
  /\ u.verdict = verdict /\ u.events = events

\* The watcher may have synced, taken or been left a notification, or ended.
Kept(r, u) ==
  /\ Turned(r, u, r.holder, u.watcher, r.verdict, r.events)
  /\ u.watcher = r.watcher \/ {u.watcher, r.watcher} \cap {"reviewing", "sending"} = {}

\* What a watcher makes of its list while it has the mutex, or takes it.
Watched(r, u) ==
  \/ /\ r.watcher = "waiting" /\ r.holder = None /\ r.verdict # "unknown"
     /\ Turned(r, u, <<r.owner, "watcher">>, "reviewing", r.verdict, r.events)
  \/ /\ r.watcher = "reviewing"
     /\ Turned(r, u, None, "waiting", r.verdict, r.events)
  \/ /\ r.watcher = "reviewing"
     /\ Turned(r, u, r.holder, "sending", u.verdict, r.events)
  \/ /\ r.watcher = "sending" /\ Room(r.events)
     /\ Turned(r, u, None, "waiting", r.verdict, Append(r.events, r.verdict))

\* What a goroutine makes of the list it asks.
Locked(g, r, u) ==
  /\ LockList(g) /\ ask'[g] = [ask[g] EXCEPT !.phase = "reviewing"]
  /\ r.holder = None /\ r.verdict = "unknown"
  /\ Turned(r, u, g, r.watcher, r.verdict, r.events)

\* A caller writes the verdict of its own review into the list it holds.
Reviewed(g, r, u) ==
  /\ AskServer(g) /\ ask'[g] = Told(u.verdict) /\ u.verdict \in {"yes", "no"}
  /\ Turned(r, u, None, r.watcher, u.verdict, r.events)

\* The goroutine that feeds a caller takes the oldest event of its list.
Pumped(c, r, u) ==
  /\ PumpEvent(c) /\ r.events # <<>>
  /\ Turned(r, u, r.holder, r.watcher, r.verdict, Tail(r.events))

\* All that a step can do to a list.
ListMoves(l) ==
  \/ lists[l] = None /\ \E c \in Callers : AllowList(c, l) /\ lists'[l] = NewList(c)
  \/ /\ lists[l] # None
     /\ \/ Kept(lists[l], lists'[l])
        \/ Watched(lists[l], lists'[l])
        \/ \E g \in Goroutines : /\ ask[g].list = l
                                 /\ \/ Locked(g, lists[l], lists'[l])
                                    \/ Reviewed(g, lists[l], lists'[l])
        \/ \E c \in Callers : feed[c] = l /\ Pumped(c, lists[l], lists'[l])

\* The steps that do something to lists.
LEMMA ListCauses ==
  ASSUME Step
  PROVE  \/ UNCHANGED lists
         \/ ChangeRoles
         \/ \E g \in Goroutines : LockList(g) \/ AskServer(g)
         \/ \E l \in Lists : Watcher(l) \/ WatcherResync(l)
         \/ \E c \in Callers, l \in Lists : AllowList(c, l)
         \/ \E c \in Callers : PumpEvent(c)
<1>1. CASE CacheStep
  BY <1>1 DEF CacheStep, FollowRoles, cacheVars
<1>2. ASSUME NEW g \in Goroutines, StartAsking(g)
      PROVE  \E c \in Callers, l \in Lists : AllowList(c, l)
  BY <1>2 DEF StartAsking, Goroutines
<1>3. ASSUME NEW c \in Callers, SessionStep(c)
      PROVE  UNCHANGED lists \/ StartAsking(<<c, "main">>)
  BY <1>3 DEF SessionStep, Begin, Refuse, SetPowerState, Disconnect, cacheVars
<1>4. ASSUME NEW c \in Callers, VncStep(c)
      PROVE  UNCHANGED lists \/ \E who \in {"main", "reader"} : StartAsking(<<c, who>>)
  BY <1>4 DEF VncStep, VncConnect, VncConnectFails, VncConnected, EmptyMessageFails,
              WriterEnds, ReadMessage, ReadFails, MessageAllowed, MessageRefused,
              HandOver, cacheVars
<1>5. ASSUME NEW c \in Callers, ConsoleStep(c)
      PROVE  UNCHANGED lists \/ PumpEvent(c) \/ \E l \in Lists : AllowList(c, l)
  BY <1>5 DEF ConsoleStep, FindFeed, Feed, ConsoleConnectFails, ConsoleConnected,
              ReadOutput, ReadOutputFails, WriteInputFails, PumpOutput, PumpEmit,
              PumpEnds, PumpRest, LibrarySends, cacheVars
<1>6. QED
  BY <1>1, <1>2, <1>3, <1>4, <1>5, GoroutinePairs DEF Step

\* A list that nothing has happened to is the same list.
LEMMA SelfKept == \A r : Kept(r, r)
BY DEF Kept, Turned

\* What a step makes of a list that is changed, or collected, as r is.
LEMMA ListBecomes ==
  ASSUME CacheInv, NEW l \in Lists, lists[l] # None, NEW r,
         r \in AllowLists,
         \/ lists' = [lists EXCEPT ![l] = r]
         \/ lists' = Collect([lists EXCEPT ![l] = r], ask'),
         NEW m \in Lists, lists'[m] # None
  PROVE  IF m = l THEN lists'[m] = r ELSE lists[m] # None /\ lists'[m] = lists[m]
<1> DEFINE ls == [lists EXCEPT ![l] = r]
<1>1. ls \in Listing /\ ls[m] = IF m = l THEN r ELSE lists[m]
  BY DEF CacheInv, Listing
<1> HIDE DEF ls
<1>2. lists' = ls \/ lists' = Collect(ls, ask')
  BY DEF ls
<1>3. lists'[m] = ls[m]
  BY <1>1, <1>2, CollectKeeps
<1>4. QED
  BY <1>1, <1>3

\* What a watcher makes of its list.
LEMMA WatcherMakes ==
  ASSUME CacheInv, NEW l \in Lists, Watcher(l) \/ WatcherResync(l)
  PROVE  /\ lists[l] # None /\ UNCHANGED ask
         /\ \E u \in AllowLists :
              /\ Kept(lists[l], u) \/ Watched(lists[l], u)
              /\ \/ lists' = [lists EXCEPT ![l] = u]
                 \/ lists' = Collect([lists EXCEPT ![l] = u], ask')
<1> DEFINE r == lists[l]
<1>1. Live(l) /\ r # None /\ r \in AllowLists /\ UNCHANGED ask
  BY DEF Watcher, WatcherSynced, WatcherTick, WatcherReview, WatcherSend, WatcherEnd,
         WatcherResync, WatchRest, Resync, Synced, Live, CacheInv, Listing
<1>2. ASSUME NEW u, lists' = [lists EXCEPT ![l] = u], Updated(r, u),
             Kept(r, u) \/ Watched(r, u)
      PROVE  \E x \in AllowLists :
               /\ Kept(r, x) \/ Watched(r, x)
               /\ \/ lists' = [lists EXCEPT ![l] = x]
                  \/ lists' = Collect([lists EXCEPT ![l] = x], ask')
  BY <1>2 DEF Updated
<1> HIDE DEF r
<1>3. CASE WatcherSynced(l)
  <2> DEFINE u == [r EXCEPT !.watcher = "waiting"]
  <2>1. lists' = [lists EXCEPT ![l] = u] /\ Updated(r, u)
    BY <1>1, <1>3, ListUpdates DEF WatcherSynced, Watch, r
  <2>2. r.watcher = "syncing"
    BY <1>1, <1>3 DEF WatcherSynced, Synced, r
  <2>3. Kept(r, u)
    BY <1>1, <2>2 DEF Kept, Turned, AllowLists, List
  <2> HIDE DEF u
  <2>4. QED
    BY <1>1, <1>2, <2>1, <2>3 DEF r
<1>4. CASE WatcherResync(l)
  <2> DEFINE u == [r EXCEPT !.tick = TRUE]
  <2>1. lists' = [lists EXCEPT ![l] = u] /\ Updated(r, u)
    BY <1>1, <1>4, ListUpdates DEF WatcherResync, r
  <2>2. Kept(r, u)
    BY <1>1 DEF Kept, Turned, AllowLists, List
  <2> HIDE DEF u
  <2>3. QED
    BY <1>1, <1>2, <2>1, <2>2 DEF r
<1>5. CASE WatcherTick(l)
  <2> DEFINE u == [r EXCEPT !.tick = FALSE]
             w == [r EXCEPT !.tick = FALSE, !.watcher = "reviewing",
                            !.holder = <<r.owner, "watcher">>]
  <2>1. Updated(r, u) /\ Updated(r, w)
    BY <1>1, ListUpdates
  <2>2. IF r.verdict = "unknown" THEN lists' = [lists EXCEPT ![l] = u]
                                 ELSE lists' = [lists EXCEPT ![l] = w]
    BY <1>5 DEF WatcherTick, CacheInv, Listing, r
  <2>3. r.watcher = "waiting" /\ r.holder = None
    BY <1>5 DEF WatcherTick, Unlocked, r
  <2>4. Kept(r, u)
    BY <1>1 DEF Kept, Turned, AllowLists, List
  <2>5. r.verdict # "unknown" => Watched(r, w)
    BY <1>1, <2>3 DEF Watched, Turned, AllowLists, List
  <2> HIDE DEF u, w
  <2>6. QED
    BY <1>1, <1>2, <2>1, <2>2, <2>4, <2>5 DEF r
<1>6. CASE WatcherReview(l)
  <2>1. PICK answer \in BOOLEAN :
          \/ lists' = [lists EXCEPT ![l].watcher = "waiting", ![l].holder = None]
          \/ lists' = [lists EXCEPT ![l].watcher = "sending", ![l].verdict = Verdict(answer)]
    BY <1>6 DEF WatcherReview
  <2>2. Verdict(answer) \in {"yes", "no"} /\ r.watcher = "reviewing"
    BY <1>6 DEF Verdict, WatcherReview, r
  <2> DEFINE u == [r EXCEPT !.watcher = "waiting", !.holder = None]
             w == [r EXCEPT !.watcher = "sending", !.verdict = Verdict(answer)]
  <2>3. Updated(r, u) /\ Updated(r, w)
    BY <1>1, <2>2, ListUpdates
  <2>4. lists' = [lists EXCEPT ![l] = u] \/ lists' = [lists EXCEPT ![l] = w]
    BY <2>1 DEF CacheInv, Listing, r
  <2>5. Watched(r, u) /\ Watched(r, w)
    BY <1>1, <2>2 DEF Watched, Turned, AllowLists, List
  <2> HIDE DEF u, w
  <2>6. QED
    BY <1>1, <1>2, <2>3, <2>4, <2>5 DEF r
<1>7. CASE WatcherSend(l)
  <2>1. r.watcher = "sending" /\ r.verdict \in {"yes", "no"} /\ Room(r.events)
    BY <1>1, <1>7 DEF WatcherSend, AllowLists, List, Verdicts, r
  <2> DEFINE t == Append(r.events, r.verdict)
             u == [r EXCEPT !.watcher = "waiting", !.holder = None, !.events = t]
  <2>2. lists' = [lists EXCEPT ![l] = u]
    BY <1>7 DEF WatcherSend, ChangeEvent, CacheInv, Listing, r
  <2>3. Updated(r, u)
    BY <1>1, <2>1, ListUpdates
  <2> HIDE DEF t
  <2>4. Turned(r, u, None, "waiting", r.verdict, t)
    BY <1>1 DEF Turned, AllowLists, List
  <2>5. Watched(r, u)
    BY <2>1, <2>4 DEF Watched, t
  <2> HIDE DEF u
  <2>6. QED
    BY <1>1, <1>2, <2>2, <2>3, <2>5 DEF r
<1>8. CASE WatcherEnd(l)
  <2> DEFINE u == [r EXCEPT !.watcher = "ended", !.tick = FALSE]
  <2>1. u \in AllowLists
    BY <1>1 DEF AllowLists, List
  <2>2. r.watcher \in {"syncing", "waiting"}
    BY <1>8 DEF WatcherEnd, r
  <2>3. Kept(r, u)
    BY <1>1, <2>2 DEF Kept, Turned, AllowLists, List
  <2>4. lists' = Collect([lists EXCEPT ![l] = u], ask')
    BY <1>1, <1>8 DEF WatcherEnd, CacheInv, Listing, r
  <2> HIDE DEF u
  <2>5. QED
    BY <1>1, <2>1, <2>3, <2>4 DEF r
<1>9. QED
  BY <1>3, <1>4, <1>5, <1>6, <1>7, <1>8 DEF Watcher

\* Every step moves every list that is still there in one of these ways.
LEMMA ListStep ==
  ASSUME CacheInv, Step, NEW l \in Lists, lists'[l] # None
  PROVE  ListMoves(l)
<1>1. CASE UNCHANGED lists
  BY <1>1, SelfKept DEF ListMoves
<1>2. ASSUME UNCHANGED <<lists>> \/ lists[l] = lists'[l]
      PROVE  ListMoves(l)
  BY <1>2, SelfKept DEF ListMoves
<1>3. CASE ChangeRoles
  <2>1. lists'[l] = IF Synced(l) THEN [lists[l] EXCEPT !.tick = TRUE] ELSE lists[l]
    BY <1>3 DEF ChangeRoles
  <2>2. CASE Synced(l)
    <3>1. lists[l] # None /\ lists[l] \in AllowLists
      BY <2>2 DEF Synced, Live, CacheInv, Listing
    <3>2. Kept(lists[l], lists'[l])
      BY <2>1, <2>2, <3>1 DEF Kept, Turned, AllowLists, List
    <3>3. QED
      BY <3>1, <3>2 DEF ListMoves
  <2>3. QED
    BY <1>2, <2>1, <2>2
<1>4. ASSUME NEW g \in Goroutines, LockList(g)
      PROVE  ListMoves(l)
  <2> DEFINE m == ask[g].list
             r == lists[m]
             u == [r EXCEPT !.holder = g]
  <2>1. m \in Lists /\ r \in AllowLists /\ r # None
    BY <1>4, AskingLists, NoList DEF LockList
  <2>2. u \in AllowLists
    BY <2>1, ListUpdates DEF Updated
  <2>3. Turned(r, u, g, r.watcher, r.verdict, r.events)
    BY <2>1 DEF Turned, AllowLists, List
  <2>4. CASE lists' = Collect(lists, ask')
    <3>1. lists'[l] = lists[l]
      BY <2>4, CollectKeeps DEF CacheInv
    <3>2. QED
      BY <1>2, <3>1
  <2>5. CASE /\ lists[m].verdict = "unknown"
             /\ ask' = [ask EXCEPT ![g].phase = "reviewing"]
             /\ lists' = [lists EXCEPT ![m].holder = g]
    <3>1. lists' = [lists EXCEPT ![m] = u]
      BY <2>5
    <3>2. ask'[g] = [ask[g] EXCEPT !.phase = "reviewing"]
      BY <2>5 DEF CacheInv, Asks
    <3>3. r.holder = None
      BY <1>4 DEF LockList, Unlocked
    <3>4. m = l => Locked(g, r, u)
      BY <1>4, <2>3, <2>5, <3>2, <3>3 DEF Locked
    <3> HIDE DEF u, r
    <3>5. lists'[l] = IF l = m THEN u ELSE lists[l]
      BY <2>1, <3>1 DEF CacheInv, Listing
    <3>6. CASE l # m
      BY <1>2, <3>5, <3>6
    <3>7. CASE l = m
      <4>1. ask[g].list = l /\ lists[l] = r /\ lists[l] # None /\ lists'[l] = u
        BY <2>1, <3>5, <3>7 DEF r
      <4>2. QED
        BY <3>4, <3>7, <4>1 DEF ListMoves
    <3>8. QED
      BY <3>6, <3>7
  <2>6. QED
    BY <1>4, <2>4, <2>5 DEF LockList
<1>5. ASSUME NEW g \in Goroutines, AskServer(g)
      PROVE  ListMoves(l)
  <2> DEFINE m == ask[g].list
             r == lists[m]
  <2>1. m \in Lists /\ r \in AllowLists /\ r # None
    BY <1>5, AskingLists, NoList DEF AskServer
  <2>2. PICK answer \in BOOLEAN :
          /\ ask' = [ask EXCEPT ![g] = Told(Verdict(answer))]
          /\ lists' = Collect([lists EXCEPT ![m].holder = None,
                                            ![m].verdict = Verdict(answer)], ask')
    BY <1>5 DEF AskServer
  <2> DEFINE u == [r EXCEPT !.holder = None, !.verdict = Verdict(answer)]
  <2>3. Verdict(answer) \in {"yes", "no"}
    BY DEF Verdict
  <2>4. u \in AllowLists
    BY <2>1, <2>3, ListUpdates DEF Updated
  <2>5. /\ Turned(r, u, None, r.watcher, u.verdict, r.events)
        /\ u.verdict = Verdict(answer)
    BY <2>1 DEF Turned, AllowLists, List
  <2>6. Reviewed(g, r, u)
    <3>1. ask'[g] = Told(u.verdict)
      BY <2>2, <2>5 DEF CacheInv, Asks
    <3>2. QED
      BY <1>5, <2>3, <2>5, <3>1 DEF Reviewed
  <2>7. lists' = Collect([lists EXCEPT ![m] = u], ask')
    BY <2>1, <2>2 DEF CacheInv, Listing
  <2> HIDE DEF u
  <2>8. IF l = m THEN lists'[l] = u ELSE lists[l] # None /\ lists'[l] = lists[l]
    BY <2>1, <2>4, <2>7, ListBecomes
  <2>9. CASE l # m
    BY <1>2, <2>8, <2>9
  <2>10. CASE l = m
    BY <2>1, <2>6, <2>8, <2>10 DEF ListMoves
  <2>11. QED
    BY <2>9, <2>10
<1>6. ASSUME NEW m \in Lists, Watcher(m) \/ WatcherResync(m)
      PROVE  ListMoves(l)
  <2>1. PICK u \in AllowLists :
          /\ Kept(lists[m], u) \/ Watched(lists[m], u)
          /\ \/ lists' = [lists EXCEPT ![m] = u]
             \/ lists' = Collect([lists EXCEPT ![m] = u], ask')
    BY <1>6, WatcherMakes
  <2>2. lists[m] # None
    BY <1>6, WatcherMakes
  <2>3. IF l = m THEN lists'[l] = u ELSE lists[l] # None /\ lists'[l] = lists[l]
    BY <2>1, <2>2, ListBecomes
  <2>4. QED
    BY <1>2, <2>1, <2>2, <2>3 DEF ListMoves
<1>7. ASSUME NEW c \in Callers, NEW m \in Lists, AllowList(c, m)
      PROVE  ListMoves(l)
  <2>1. CASE UNCHANGED lists
    BY <1>1, <2>1
  <2>2. CASE lists[m] = None /\ lists' = [lists EXCEPT ![m] = NewList(c)]
    <3>1. lists'[l] = IF l = m THEN NewList(c) ELSE lists[l]
      BY <2>2 DEF CacheInv, Listing
    <3>2. QED
      BY <1>2, <1>7, <2>2, <3>1 DEF ListMoves
  <2>3. QED
    BY <1>7, <2>1, <2>2 DEF AllowList
<1>8. ASSUME NEW c \in Callers, PumpEvent(c)
      PROVE  ListMoves(l)
  <2> DEFINE m == feed[c]
             r == lists[m]
             u == [r EXCEPT !.events = Tail(@)]
  <2>1. lists' = [lists EXCEPT ![m] = u] /\ r.events # <<>>
    BY <1>8 DEF PumpEvent
  <2>2. lists'[l] = IF l = m THEN u ELSE lists[l]
    BY <2>1 DEF CacheInv, Listing
  <2>3. CASE l = m
    <3>1. lists[l] # None
      BY <2>3, AllowCacheAssumption DEF CacheInv, Referred
    <3>2. r \in AllowLists
      BY <2>3, <3>1 DEF CacheInv, Listing
    <3>3. Turned(r, u, r.holder, r.watcher, r.verdict, Tail(r.events))
      BY <3>2 DEF Turned, AllowLists, List
    <3>4. Pumped(c, r, u)
      BY <1>8, <2>1, <3>3 DEF Pumped
    <3> HIDE DEF u
    <3>5. QED
      BY <2>2, <2>3, <3>1, <3>4 DEF ListMoves
  <2>4. QED
    BY <1>2, <2>2, <2>3
<1>9. QED
  BY <1>1, <1>3, <1>4, <1>5, <1>6, <1>7, <1>8, ListCauses

-----------------------------------------------------------------------------
(* Where the goroutines of a caller are.                                   *)

\* Where a caller is as long as it has no stream.
Early == {"idle", "asking", "feeding", "connecting"}

\* Nothing is relayed before the connection is there, only a console emits, and
\* a goroutine that is not waiting for an answer asks nothing.
PhaseOK(c) ==
  /\ main[c] \in Early => relay[c] = "none" /\ reader[c] = "none"
  /\ main[c] = "feeding" => kind[c] = "console"
  /\ kind[c] = "console" => main[c] \notin Running /\ reader[c] \notin {"checking", "sending"}
  /\ out[c] # <<>> => InStream(c)
  /\ main[c] \notin {"asking", "checking"} => ask[<<c, "main">>] = Idle
  /\ reader[c] # "checking" => ask[<<c, "reader">>] = Idle

\* Every caller is where its kind, its question and its stream allow it.
PhaseInv == out \in [Callers -> Seq(Event)] /\ \A c \in Callers : PhaseOK(c)

\* A step of one caller leaves the others where they are.
Elsewhere(c) ==
  /\ UNCHANGED kind
  /\ \A d \in Callers : d # c =>
       /\ main'[d] = main[d] /\ reader'[d] = reader[d] /\ relay'[d] = relay[d]
       /\ out'[d] = out[d]
       /\ ask'[<<d, "main">>] = ask[<<d, "main">>] /\ ask'[<<d, "reader">>] = ask[<<d, "reader">>]

\* A caller of whom nothing changes is where it was allowed to be.
LEMMA PhaseElsewhere ==
  ASSUME PhaseInv, NEW c \in Callers, Elsewhere(c), PhaseOK(c)', out' \in [Callers -> Seq(Event)]
  PROVE  PhaseInv'
<1>1. ASSUME NEW d \in Callers, d # c PROVE PhaseOK(d)'
  <2>1. PhaseOK(d)
    BY DEF PhaseInv
  <2>2. /\ UNCHANGED kind
        /\ main'[d] = main[d] /\ reader'[d] = reader[d] /\ relay'[d] = relay[d]
        /\ out'[d] = out[d]
        /\ ask'[<<d, "main">>] = ask[<<d, "main">>]
        /\ ask'[<<d, "reader">>] = ask[<<d, "reader">>]
    BY <1>1 DEF Elsewhere
  <2>3. QED
    BY <2>1, <2>2 DEF PhaseOK, InStream
<1>2. QED
  BY <1>1 DEF PhaseInv

\* The steps of the cache move no caller, and start no question.
LEMMA PhaseCache ==
  ASSUME CacheInv, PhaseInv, CacheStep, UNCHANGED <<sessionVars, consoleVars>>
  PROVE  PhaseInv'
<1>1. UNCHANGED <<kind, main, reader, relay, out>>
  BY DEF CacheStep, ChangeRoles, FollowRoles, LockList, AskServer, Watcher, WatcherSynced,
         WatcherTick, WatcherReview, WatcherSend, WatcherEnd, WatcherResync, WatchRest,
         sessionVars, consoleVars
<1>2. ASSUME NEW h \in Goroutines, LockList(h) \/ AskServer(h),
             NEW g \in Goroutines, ask[g] = Idle
      PROVE  ask'[g] = Idle
  <2>1. ask[h].phase \in {"locking", "reviewing"} /\ ask[g].phase = "idle"
    BY <1>2 DEF LockList, AskServer, Idle
  <2>2. g # h
    BY <2>1
  <2>3. \E r : ask' = [ask EXCEPT ![h] = r]
    BY <1>2 DEF LockList, AskServer
  <2>4. QED
    BY <1>2, <2>2, <2>3 DEF CacheInv, Asks
<1>3. \A g \in Goroutines : ask[g] = Idle => ask'[g] = Idle
  <2>1. \/ UNCHANGED ask
        \/ \E h \in Goroutines : LockList(h) \/ AskServer(h)
    BY DEF CacheStep, ChangeRoles, FollowRoles, cacheVars, Watcher, WatcherSynced,
           WatcherTick, WatcherReview, WatcherSend, WatcherEnd, WatcherResync, WatchRest
  <2>2. QED
    BY <1>2, <2>1
<1>4. \A c \in Callers : PhaseOK(c)'
  BY <1>1, <1>3, GoroutinePairs DEF PhaseInv, PhaseOK, InStream
<1>5. QED
  BY <1>1, <1>4 DEF PhaseInv

\* The goroutine of the handler asks, or goes on with what it was told.
LEMMA PhaseMain ==
  ASSUME CacheInv, SessionInv, PhaseInv, NEW c \in Callers, UNCHANGED <<kind, reader, relay, out>>,
         NEW r, NEW to, main' = [main EXCEPT ![c] = to],
         ask' = [ask EXCEPT ![<<c, "main">>] = r],
         \/ main[c] = "idle" /\ to = "asking"
         \/ /\ main[c] = "asking" /\ r = Idle
            /\ to \in {"returned", "connecting", "feeding"}
            /\ to = "feeding" => kind[c] = "console"
  PROVE  PhaseInv'
<1>1. \A d \in Callers : main'[d] = IF d = c THEN to ELSE main[d]
  BY DEF SessionInv, SessionTypeOK
<1>2. \A d \in Callers : /\ ask'[<<d, "main">>] = IF d = c THEN r ELSE ask[<<d, "main">>]
                         /\ ask'[<<d, "reader">>] = ask[<<d, "reader">>]
  BY GoroutinePairs DEF CacheInv, Asks
<1>3. Elsewhere(c)
  BY <1>1, <1>2 DEF Elsewhere
<1>4. PhaseOK(c)'
  <2>1. PhaseOK(c)
    BY DEF PhaseInv
  <2>2. QED
    BY <1>1, <1>2, <2>1 DEF PhaseOK, InStream, Early, Running
<1>5. QED
  BY <1>3, <1>4, PhaseElsewhere DEF PhaseInv

\* The steps that all streams share keep every caller where it may be.
LEMMA PhaseSession ==
  ASSUME CacheInv, SessionInv, PhaseInv, NEW c \in Callers, SessionStep(c), UNCHANGED consoleVars
  PROVE  PhaseInv'
<1>1. UNCHANGED <<kind, reader, relay, out>>
  BY DEF SessionStep, Begin, Refuse, SetPowerState, Disconnect, RoleRest, sessionVars, consoleVars
<1>2. CASE Begin(c)
  BY <1>1, <1>2, PhaseMain DEF Begin, StartAsking
<1>3. CASE Refuse(c) \/ SetPowerState(c)
  BY <1>1, <1>3, PhaseMain DEF Refuse, SetPowerState, Answered
<1>4. CASE Disconnect(c)
  <2>1. UNCHANGED <<kind, reader, relay, out, main, ask>>
    BY <1>1, <1>4 DEF Disconnect, sessionVars, cacheVars
  <2>2. QED
    BY <2>1 DEF PhaseInv, PhaseOK, InStream
<1>5. QED
  BY <1>2, <1>3, <1>4 DEF SessionStep

\* So do the steps of VNC.
LEMMA PhaseVnc ==
  ASSUME CacheInv, SessionInv, PhaseInv, NEW c \in Callers, VncStep(c), UNCHANGED consoleVars
  PROVE  PhaseInv'
<1>1. UNCHANGED <<kind, out>>
  BY DEF VncStep, VncConnect, VncConnectFails, VncConnected, EmptyMessageFails, WriterEnds,
         ReadMessage, ReadFails, MessageAllowed, MessageRefused, HandOver, VncRest, RoleRest,
         consoleVars
<1>2. PhaseOK(c)
  BY DEF PhaseInv
<1>3. CASE VncConnect(c)
  BY <1>1, <1>3, PhaseMain DEF VncConnect, Answered
<1>4. CASE VncConnectFails(c) \/ VncConnected(c) \/ EmptyMessageFails(c) \/ WriterEnds(c)
  <2>1. UNCHANGED ask /\ kind[c] = "vnc"
    BY <1>4 DEF VncConnectFails, VncConnected, EmptyMessageFails, WriterEnds, InSession, cacheVars
  <2>2. Elsewhere(c)
    BY <1>1, <1>4, <2>1 DEF VncConnectFails, VncConnected, EmptyMessageFails, WriterEnds,
                            Elsewhere, SessionInv, SessionTypeOK
  <2>3. PhaseOK(c)'
    BY <1>1, <1>2, <1>4, <2>1 DEF VncConnectFails, VncConnected, EmptyMessageFails, WriterEnds,
         PhaseOK, InSession, InStream, Early, Running, SessionInv, SessionTypeOK
  <2>4. QED
    BY <1>1, <2>2, <2>3, PhaseElsewhere DEF PhaseInv
<1>5. ASSUME NEW who \in {"main", "reader"},
             \/ ReadMessage(c, who) \/ ReadFails(c, who)
             \/ MessageAllowed(c, who) \/ MessageRefused(c, who) \/ HandOver(c, who)
      PROVE  PhaseInv'
  <2>1. /\ kind[c] = "vnc" /\ relay[c] # "none"
        /\ relay' = relay \/ relay' = [relay EXCEPT ![c] = "failed"]
        /\ At(c, who) \in Running
    BY <1>5 DEF ReadMessage, ReadFails, MessageAllowed, MessageRefused, HandOver, InSession, Running
  <2>2. PICK to \in {"checking", "returned", "sending", "reading"} :
          /\ Go(c, who, to)
          /\ \/ to = "checking" /\ \E r : ask' = [ask EXCEPT ![<<c, who>>] = r]
             \/ to # "checking" /\ ask' = [ask EXCEPT ![<<c, who>>] = Idle]
             \/ to # "checking" /\ At(c, who) # "checking" /\ UNCHANGED ask
    BY <1>5 DEF ReadMessage, ReadFails, MessageAllowed, MessageRefused, HandOver,
                StartAsking, Answered, cacheVars
  <2>3. /\ \A d \in Callers, w \in {"main", "reader"} : <<d, w>> # <<c, who>> =>
             ask'[<<d, w>>] = ask[<<d, w>>]
        /\ to # "checking" => ask'[<<c, who>>] = Idle
    <3>1. At(c, who) # "checking" => ask[<<c, who>>] = Idle
      BY <1>2, <2>1 DEF PhaseOK, At, Running
    <3>2. \A r : ask' = [ask EXCEPT ![<<c, who>>] = r] =>
            \A g \in Goroutines : ask'[g] = IF g = <<c, who>> THEN r ELSE ask[g]
      BY DEF CacheInv, Asks
    <3>3. \A d \in Callers, w \in {"main", "reader"} : <<d, w>> \in Goroutines
      BY GoroutinePairs
    <3>4. QED
      BY <2>2, <3>1, <3>2, <3>3
  <2>4. Elsewhere(c)
    BY <1>1, <2>1, <2>2, <2>3 DEF Elsewhere, Go, SessionInv, SessionTypeOK
  <2>5. /\ main'[c] = IF who = "main" THEN to ELSE main[c]
        /\ reader'[c] = IF who = "main" THEN reader[c] ELSE to
    BY <2>2 DEF Go, SessionInv, SessionTypeOK
  <2>6. main[c] \notin Early /\ kind'[c] = "vnc"
    BY <1>1, <1>2, <2>1 DEF PhaseOK
  <2>7. PhaseOK(c)'
    BY <1>1, <1>2, <2>1, <2>3, <2>5, <2>6 DEF PhaseOK, InStream, Early
  <2>8. QED
    BY <1>1, <2>4, <2>7, PhaseElsewhere DEF PhaseInv
<1>6. QED
  BY <1>3, <1>4, <1>5 DEF VncStep

\* So do the steps of the console.
LEMMA PhaseConsole ==
  ASSUME CacheInv, SessionInv, PhaseInv, ConsoleTypeOK, NEW c \in Callers, ConsoleStep(c)
  PROVE  PhaseInv'
<1>1. PhaseOK(c) /\ UNCHANGED kind
  BY DEF PhaseInv, ConsoleStep, FindFeed, Feed, ConsoleConnectFails, ConsoleConnected,
         ReadOutput, ReadOutputFails, WriteInputFails, PumpOutput, PumpEvent, PumpEmit,
         PumpEnds, PumpRest, LibrarySends, RoleRest
<1>2. CASE FindFeed(c)
  BY <1>2, PhaseMain DEF FindFeed, Answered, RoleRest, consoleVars
<1>3. CASE Feed(c) \/ ConsoleConnectFails(c) \/ ConsoleConnected(c) \/ ReadOutputFails(c)
  <2>1. UNCHANGED <<ask, out>>
    BY <1>3 DEF Feed, ConsoleConnectFails, ConsoleConnected, ReadOutputFails, cacheVars, consoleVars
  <2>2. Elsewhere(c)
    BY <1>1, <1>3, <2>1 DEF Feed, ConsoleConnectFails, ConsoleConnected, ReadOutputFails,
                            Elsewhere, SessionInv, SessionTypeOK
  <2>3. PhaseOK(c)'
    BY <1>1, <1>3, <2>1 DEF Feed, ConsoleConnectFails, ConsoleConnected, ReadOutputFails,
         PhaseOK, InStream, Early, Running, SessionInv, SessionTypeOK
  <2>4. QED
    BY <2>1, <2>2, <2>3, PhaseElsewhere DEF PhaseInv
<1>4. CASE \/ ReadOutput(c) \/ WriteInputFails(c) \/ PumpOutput(c) \/ PumpEvent(c)
           \/ PumpEmit(c) \/ PumpEnds(c)
  <2>1. /\ UNCHANGED <<ask, main, reader>> /\ InStream(c)
        /\ \/ UNCHANGED relay
           \/ \E to \in {"selecting", "emitting", "ended", "failed"} :
                relay' = [relay EXCEPT ![c] = to]
        /\ \/ UNCHANGED out
           \/ \E e \in Event : out' = [out EXCEPT ![c] = Append(@, e)]
    BY <1>4 DEF ReadOutput, WriteInputFails, PumpOutput, PumpEvent, PumpEmit, PumpEnds,
                PumpRest, Take, ConsoleTypeOK
  <2>2. out' \in [Callers -> Seq(Event)]
    <3>1. out \in [Callers -> Seq(Event)]
      BY DEF PhaseInv
    <3>2. \A e \in Event : Append(out[c], e) \in Seq(Event)
      <4> HIDE DEF Event
      <4>1. QED
        BY <3>1
    <3>3. QED
      BY <2>1, <3>1, <3>2
  <2>3. Elsewhere(c)
    BY <1>1, <2>1 DEF Elsewhere, PhaseInv, SessionInv, SessionTypeOK
  <2>4. PhaseOK(c)'
    BY <1>1, <2>1 DEF PhaseOK, InStream, SessionInv, SessionTypeOK
  <2>5. QED
    BY <2>2, <2>3, <2>4, PhaseElsewhere
<1>5. CASE LibrarySends(c)
  <2>1. /\ UNCHANGED <<ask, main, reader, relay>>
        /\ out[c] # <<>> /\ out' = [out EXCEPT ![c] = Tail(@)]
    BY <1>5 DEF LibrarySends, cacheVars, sessionVars
  <2>2. out' \in [Callers -> Seq(Event)]
    <3>1. out \in [Callers -> Seq(Event)]
      BY DEF PhaseInv
    <3>2. Tail(out[c]) \in Seq(Event)
      BY <2>1, <3>1
    <3>3. QED
      BY <2>1, <3>1, <3>2
  <2>3. Elsewhere(c)
    BY <1>1, <2>1 DEF Elsewhere, PhaseInv
  <2>4. PhaseOK(c)'
    BY <1>1, <2>1 DEF PhaseOK, InStream
  <2>5. QED
    BY <2>2, <2>3, <2>4, PhaseElsewhere
<1>6. QED
  BY <1>2, <1>3, <1>4, <1>5 DEF ConsoleStep

\* So does every step.
LEMMA PhaseSteps ==
  ASSUME CacheInv, SessionInv, PhaseInv, ConsoleTypeOK, Step
  PROVE  PhaseInv'
BY PhaseCache, PhaseSession, PhaseVnc, PhaseConsole DEF Step


\* What a step does to what a goroutine asks.
AskMoves(g) ==
  \/ ask'[g] = ask[g]
  \/ LockList(g)
  \/ AskServer(g)
  \/ /\ StartAsking(g) /\ ask[g] = Idle
     /\ Begin(g[1]) \/ kind[g[1]] = "vnc"
  \/ ask'[g] = Idle /\ ask[g].phase \in {"yes", "no"}

\* Every step does one of these to what a goroutine asks.
LEMMA AskStep ==
  ASSUME CacheInv, PhaseInv, Step, NEW g \in Goroutines
  PROVE  AskMoves(g)
<1>1. CASE UNCHANGED ask
  BY <1>1 DEF AskMoves
<1>2. g = <<g[1], g[2]>> /\ g[1] \in Callers /\ g[2] \in {"main", "reader"}
  BY DEF Goroutines
<1>3. ASSUME NEW h \in Goroutines, h # g, NEW r, ask' = [ask EXCEPT ![h] = r]
      PROVE  AskMoves(g)
  BY <1>3 DEF AskMoves, CacheInv, Asks
<1>4. ASSUME NEW h \in Goroutines, NEW phase \in {"yes", "no"}, Answered(h, phase)
      PROVE  AskMoves(g)
  BY <1>4 DEF AskMoves, Answered, CacheInv, Asks
<1>5. CASE CacheStep
  <2>1. ASSUME NEW h \in Goroutines, LockList(h) \/ AskServer(h)
        PROVE  AskMoves(g)
    <3>1. \E r : ask' = [ask EXCEPT ![h] = r]
      BY <2>1 DEF LockList, AskServer
    <3>2. QED
      BY <1>3, <2>1, <3>1 DEF AskMoves
  <2>2. \/ UNCHANGED ask
        \/ \E h \in Goroutines : LockList(h) \/ AskServer(h)
    BY <1>5 DEF CacheStep, ChangeRoles, FollowRoles, cacheVars, Watcher, WatcherSynced,
                WatcherTick, WatcherReview, WatcherSend, WatcherEnd, WatcherResync, WatchRest
  <2>3. QED
    BY <1>1, <2>1, <2>2
<1>6. ASSUME NEW c \in Callers, SessionStep(c)
      PROVE  AskMoves(g)
  <2> DEFINE h == <<c, "main">>
  <2>1. h \in Goroutines /\ h[1] = c
    BY GoroutinePairs
  <2>2. CASE Begin(c)
    <3>1. StartAsking(h) /\ \E r : ask' = [ask EXCEPT ![h] = r]
      BY <2>2 DEF Begin, StartAsking
    <3>2. ask[h] = Idle
      BY <2>2 DEF PhaseInv, PhaseOK, Begin
    <3> HIDE DEF h
    <3>3. QED
      BY <1>3, <2>1, <2>2, <3>1, <3>2 DEF AskMoves
  <2>3. CASE Refuse(c) \/ SetPowerState(c)
    BY <1>4, <2>1, <2>3 DEF Refuse, SetPowerState
  <2>4. CASE Disconnect(c)
    BY <1>1, <2>4 DEF Disconnect, cacheVars
  <2>5. QED
    BY <1>6, <2>2, <2>3, <2>4 DEF SessionStep
<1>7. ASSUME NEW c \in Callers, VncStep(c)
      PROVE  AskMoves(g)
  <2>1. CASE VncConnect(c)
    BY <1>4, <2>1, GoroutinePairs DEF VncConnect
  <2>2. CASE VncConnectFails(c) \/ VncConnected(c) \/ EmptyMessageFails(c) \/ WriterEnds(c)
    BY <1>1, <2>2 DEF VncConnectFails, VncConnected, EmptyMessageFails, WriterEnds, cacheVars
  <2>3. ASSUME NEW who \in {"main", "reader"},
               \/ ReadMessage(c, who) \/ ReadFails(c, who)
               \/ MessageAllowed(c, who) \/ MessageRefused(c, who) \/ HandOver(c, who)
        PROVE  AskMoves(g)
    <3> DEFINE h == <<c, who>>
    <3>1. h \in Goroutines /\ h[1] = c
      BY GoroutinePairs
    <3>2. CASE ReadMessage(c, who)
      <4>1. StartAsking(h) /\ (\E r : ask' = [ask EXCEPT ![h] = r]) /\ kind[c] = "vnc"
        BY <3>2 DEF ReadMessage, StartAsking, InSession
      <4>2. ask[h] = Idle
        BY <3>2 DEF PhaseInv, PhaseOK, ReadMessage, At
      <4> HIDE DEF h
      <4>3. QED
        BY <1>3, <3>1, <4>1, <4>2 DEF AskMoves
    <3>3. CASE MessageAllowed(c, who) \/ MessageRefused(c, who)
      BY <1>4, <3>1, <3>3 DEF MessageAllowed, MessageRefused
    <3>4. CASE ReadFails(c, who) \/ HandOver(c, who)
      BY <1>1, <3>4 DEF ReadFails, HandOver, cacheVars
    <3>5. QED
      BY <2>3, <3>2, <3>3, <3>4
  <2>4. QED
    BY <1>7, <2>1, <2>2, <2>3 DEF VncStep
<1>8. ASSUME NEW c \in Callers, ConsoleStep(c)
      PROVE  AskMoves(g)
  <2>1. CASE FindFeed(c)
    BY <1>4, <2>1, GoroutinePairs DEF FindFeed
  <2>2. ~FindFeed(c) => UNCHANGED ask
    BY <1>8 DEF ConsoleStep, Feed, ConsoleConnectFails, ConsoleConnected,
                ReadOutput, ReadOutputFails, WriteInputFails, PumpOutput, PumpEvent,
                PumpEmit, PumpEnds, PumpRest, LibrarySends, cacheVars
  <2>3. QED
    BY <1>1, <2>1, <2>2
<1>9. QED
  BY <1>5, <1>6, <1>7, <1>8 DEF Step
-----------------------------------------------------------------------------
(* The mutex of a list.                                                    *)

\* Who has the mutex of a list is waiting for the API server, or for room in the
\* events; and the other way around.
MutexInv ==
  /\ \A g \in Goroutines : ask[g].phase = "reviewing" => lists[ask[g].list].holder = g
  /\ \A l \in Lists : lists[l] # None =>
       /\ lists[l].holder \in Goroutines =>
            ask[lists[l].holder] = [list |-> l, phase |-> "reviewing"]
       /\ lists[l].watcher \in {"reviewing", "sending"} =>
            lists[l].holder = <<lists[l].owner, "watcher">>

\* Who holds a mutex can be told: a goroutine, a watcher, or nobody.
LEMMA Holders ==
  /\ None \notin Goroutines
  /\ \A c \in Callers : <<c, "watcher">> # None /\ <<c, "watcher">> \notin Goroutines
<1>1. \A c \in Callers : <<c, "watcher">> \in Callers \X {"main", "reader", "watcher"}
  OBVIOUS
<1>2. Goroutines \subseteq Callers \X {"main", "reader", "watcher"}
  BY DEF Goroutines
<1>3. None \notin Callers \X {"main", "reader", "watcher"}
  BY AllowCacheAssumption
<1>4. \A c \in Callers : <<c, "watcher">> \notin Goroutines
  BY DEF Goroutines
<1>5. QED
  BY <1>1, <1>2, <1>3, <1>4

\* A list that exists was made for a caller.
LEMMA Owners ==
  ASSUME CacheInv, NEW l \in Lists, lists[l] # None
  PROVE  lists[l] \in AllowLists /\ lists[l].owner \in Callers
BY DEF CacheInv, Listing, AllowLists, List

\* Who asks and is answered gives the mutex back.
LEMMA GivesBack ==
  ASSUME CacheInv, NEW g \in Goroutines, AskServer(g)
  PROVE  /\ ask'[g].phase \in {"yes", "no"} /\ ask'[g].list = None
         /\ lists'[ask[g].list] # None => lists'[ask[g].list].holder = None
<1> DEFINE l == ask[g].list
<1>1. l \in Lists /\ lists[l] \in AllowLists /\ lists[l] # None
  BY AskingLists, NoList DEF AskServer
<1>2. PICK answer \in BOOLEAN :
        /\ ask' = [ask EXCEPT ![g] = Told(Verdict(answer))]
        /\ lists' = Collect([lists EXCEPT ![l].holder = None,
                                          ![l].verdict = Verdict(answer)], ask')
  BY DEF AskServer
<1> DEFINE u == [lists[l] EXCEPT !.holder = None, !.verdict = Verdict(answer)]
<1>3. u \in AllowLists /\ u.holder = None
  BY <1>1 DEF Verdict, AllowLists, List, Verdicts
<1>4. lists' = Collect([lists EXCEPT ![l] = u], ask')
  BY <1>1, <1>2 DEF CacheInv, Listing
<1>5. ask'[g].phase \in {"yes", "no"} /\ ask'[g].list = None
  BY <1>2 DEF CacheInv, Asks, Told, Verdict
<1> HIDE DEF u, l
<1>6. lists'[l] # None => lists'[l] = u
  BY <1>1, <1>3, <1>4, ListBecomes
<1>7. QED
  BY <1>3, <1>5, <1>6 DEF l

\* A list that appears is nobody's yet, and its watcher starts.
LEMMA Appears ==
  ASSUME NEW l \in Lists, ListMoves(l), lists[l] = None
  PROVE  lists'[l].holder = None /\ lists'[l].watcher = "syncing"
<1>1. PICK c \in Callers : lists'[l] = NewList(c)
  BY DEF ListMoves
<1>2. QED
  BY <1>1 DEF NewList

\* No step gives a mutex to two goroutines.
LEMMA MutexSteps ==
  ASSUME CacheInv, CacheInv', PhaseInv, MutexInv, Step
  PROVE  MutexInv'
<1>1. ASSUME NEW g \in Goroutines, ask'[g].phase = "reviewing"
      PROVE  lists'[ask'[g].list].holder = g
  <2> DEFINE l == ask'[g].list
  <2>1. l \in Lists /\ lists'[l] # None
    <3>1. ask'[g] \in Asking
      BY <1>1 DEF CacheInv, Asks, Idle, Told
    <3>2. QED
      BY <3>1, AllowCacheAssumption DEF CacheInv, Referred, Asking
  <2>2. AskMoves(g) /\ ListMoves(l)
    BY <2>1, AskStep, ListStep
  <2>3. CASE ask'[g] = ask[g]
    <3>1. lists[l] # None /\ lists[l].holder = g
      BY <1>1, <2>1, <2>3, AskingLists, NoList DEF MutexInv
    <3>2. g # None /\ g # <<lists[l].owner, "watcher">>
      BY <2>1, <3>1, Holders, Owners
    <3>3. ~Watched(lists[l], lists'[l]) \/ lists'[l].holder = g
      BY <2>1, <3>1, <3>2 DEF MutexInv, Watched, Turned
    <3>4. \A h \in Goroutines : ~Locked(h, lists[l], lists'[l])
      BY <3>1, <3>2 DEF Locked
    <3>5. ASSUME NEW h \in Goroutines, ask[h].list = l, Reviewed(h, lists[l], lists'[l])
          PROVE  FALSE
      <4>1. lists[l].holder = h
        BY <3>5 DEF Reviewed, AskServer, MutexInv
      <4>2. QED
        BY <1>1, <3>1, <3>5, <4>1, GivesBack DEF Reviewed
    <3>6. Kept(lists[l], lists'[l]) => lists'[l].holder = g
      BY <3>1 DEF Kept, Turned
    <3>7. \A c \in Callers : Pumped(c, lists[l], lists'[l]) => lists'[l].holder = g
      BY <3>1 DEF Pumped, Turned
    <3>8. QED
      BY <2>2, <3>1, <3>3, <3>4, <3>5, <3>6, <3>7 DEF ListMoves
  <2>4. CASE LockList(g)
    <3>1. ask[g].list \in Lists /\ lists[ask[g].list] \in AllowLists
      BY <2>4, AskingLists DEF LockList
    <3>2. CASE ask' = [ask EXCEPT ![g] = Told(lists[ask[g].list].verdict)]
      <4>1. ask'[g].list = None
        BY <3>2 DEF CacheInv, Asks, Told
      <4>2. QED
        BY <2>1, <4>1, AllowCacheAssumption
    <3>3. CASE /\ ask' = [ask EXCEPT ![g].phase = "reviewing"]
               /\ lists' = [lists EXCEPT ![ask[g].list].holder = g]
      <4>1. ask'[g].list = ask[g].list
        BY <2>4, <3>3 DEF CacheInv, Asks, Idle, Told, Asking, LockList
      <4>2. lists'[ask[g].list].holder = g
        BY <3>1, <3>3 DEF CacheInv, Listing, AllowLists, List
      <4>3. QED
        BY <4>1, <4>2
    <3>4. QED
      BY <2>4, <3>2, <3>3 DEF LockList
  <2>5. ~AskServer(g)
    BY <1>1, GivesBack
  <2>6. ~StartAsking(g)
    BY <1>1 DEF StartAsking, CacheInv, Asks
  <2>7. QED
    BY <1>1, <2>2, <2>3, <2>4, <2>5, <2>6 DEF AskMoves, Idle
<1>2. ASSUME NEW l \in Lists, lists'[l] # None, lists'[l].holder \in Goroutines
      PROVE  ask'[lists'[l].holder] = [list |-> l, phase |-> "reviewing"]
  <2> DEFINE h == lists'[l].holder
  <2>1. ListMoves(l) /\ AskMoves(h)
    BY <1>2, ListStep, AskStep
  <2>2. h # None
    BY <1>2, Holders
  <2>3. lists[l] # None
    BY <1>2, <2>1, <2>2, Appears
  <2>4. <<lists[l].owner, "watcher">> \notin Goroutines
    BY <2>3, Owners, Holders
  <2>5. CASE lists[l].holder = h
    <3>1. ask[h] = [list |-> l, phase |-> "reviewing"]
      BY <1>2, <2>3, <2>5 DEF MutexInv
    <3>2. ~LockList(h) /\ ask[h] # Idle /\ ask[h].phase \notin {"yes", "no"}
      BY <3>1 DEF LockList, Idle
    <3>3. ~AskServer(h)
      BY <1>2, <2>2, <3>1, GivesBack
    <3>4. QED
      BY <2>1, <3>1, <3>2, <3>3 DEF AskMoves
  <2>6. CASE lists[l].holder # h
    <3>1. ~Kept(lists[l], lists'[l]) /\ \A c \in Callers : ~Pumped(c, lists[l], lists'[l])
      BY <2>6 DEF Kept, Pumped, Turned
    <3>2. \A g \in Goroutines : ~Reviewed(g, lists[l], lists'[l])
      BY <2>2 DEF Reviewed, Turned
    <3>3. ~Watched(lists[l], lists'[l])
      BY <1>2, <2>2, <2>4, <2>6 DEF Watched, Turned
    <3>4. PICK g \in Goroutines : ask[g].list = l /\ Locked(g, lists[l], lists'[l])
      BY <2>1, <2>3, <3>1, <3>2, <3>3 DEF ListMoves
    <3>5. h = g /\ ask'[g] = [ask[g] EXCEPT !.phase = "reviewing"] /\ ask[g].phase = "locking"
      BY <3>4 DEF Locked, Turned, LockList
    <3>6. ask[g] = [list |-> l, phase |-> "locking"]
      BY <3>4, <3>5 DEF CacheInv, Asks, Idle, Told, Asking
    <3>7. QED
      BY <3>5, <3>6
  <2>7. QED
    BY <2>5, <2>6
<1>3. ASSUME NEW l \in Lists, lists'[l] # None, lists'[l].watcher \in {"reviewing", "sending"}
      PROVE  lists'[l].holder = <<lists'[l].owner, "watcher">>
  <2>1. ListMoves(l)
    BY <1>3, ListStep
  <2>2. lists[l] # None
    BY <1>3, <2>1, Appears
  <2>3. /\ <<lists[l].owner, "watcher">> \notin Goroutines
        /\ <<lists[l].owner, "watcher">> # None
    BY <2>2, Owners, Holders
  <2>4. lists[l].watcher \in {"reviewing", "sending"} =>
          lists[l].holder = <<lists[l].owner, "watcher">>
    BY <2>2 DEF MutexInv
  <2>5. ASSUME NEW g \in Goroutines, ask[g].list = l, Reviewed(g, lists[l], lists'[l])
        PROVE  lists[l].holder = g
    BY <2>5 DEF Reviewed, AskServer, MutexInv
  <2>6. ASSUME NEW g \in Goroutines, Locked(g, lists[l], lists'[l])
        PROVE  lists[l].holder = None /\ lists'[l].watcher = lists[l].watcher
    BY <2>6 DEF Locked, Turned
  <2>7. \A g \in Goroutines : Reviewed(g, lists[l], lists'[l]) =>
          lists'[l].watcher = lists[l].watcher
    BY DEF Reviewed, Turned
  <2>8. Watched(lists[l], lists'[l]) => lists'[l].holder = <<lists'[l].owner, "watcher">>
    BY <1>3, <2>4 DEF Watched, Turned
  <2>9. Kept(lists[l], lists'[l]) => lists'[l].holder = <<lists'[l].owner, "watcher">>
    BY <1>3, <2>4 DEF Kept, Turned
  <2>10. \A c \in Callers : Pumped(c, lists[l], lists'[l]) =>
           lists'[l].holder = <<lists'[l].owner, "watcher">>
    BY <1>3, <2>4 DEF Pumped, Turned
  <2>11. QED
    BY <1>3, <2>1, <2>2, <2>3, <2>4, <2>5, <2>6, <2>7, <2>8, <2>9, <2>10 DEF ListMoves
<1>4. QED
  BY <1>1, <1>2, <1>3 DEF MutexInv

-----------------------------------------------------------------------------
(* The types of all variables.                                             *)

\* The callers and what they do, without the cache.
RolesOK ==
  /\ kind \in Kinds
  /\ allowed \in [Subjects -> BOOLEAN] /\ reviewed \in [Subjects -> BOOLEAN]
  /\ cancelled \in [Callers -> BOOLEAN]
  /\ changes \in 0 .. MaxChanges /\ faults \in 0 .. MaxFaults

\* No more events wait at a list than its channel has room for.
RoomOK == \A l \in Lists : lists[l] # None => Len(lists[l].events) <= EventsCapacity

\* The type invariant of the interface, with what it takes to keep it.
TypeInv ==
  /\ CacheInv /\ SessionInv /\ PhaseInv /\ MutexInv
  /\ RolesOK /\ RoomOK /\ ConsoleTypeOK
  /\ refused \in [Goroutines -> BOOLEAN]

\* The steps of the cache leave the callers their types.
LEMMA RolesCache ==
  ASSUME RolesOK, CacheStep
  PROVE  RolesOK'
<1> USE DEF RolesOK
<1>1. /\ {MaxChanges, MaxFaults} \subseteq Nat
  BY AllowCacheAssumption
<1>2. ASSUME NEW c \in Callers, NEW answer, Answer(c, answer)
      PROVE  faults' \in 0 .. MaxFaults
  BY <1>1, <1>2 DEF Answer
<1>3. CASE ChangeRoles
  BY <1>1, <1>3 DEF ChangeRoles
<1>4. CASE \E s \in Subjects : FollowRoles(s)
  BY <1>4 DEF FollowRoles, cacheVars
<1>5. ASSUME NEW g \in Goroutines, LockList(g)
      PROVE  RolesOK'
  BY <1>5 DEF LockList, roleVars
<1>6. ASSUME NEW g \in Goroutines, AskServer(g)
      PROVE  RolesOK'
  <2>1. \E answer : Answer(g[1], answer)
    BY <1>6 DEF AskServer
  <2>2. faults' \in 0 .. MaxFaults
    BY <1>1, <2>1 DEF Answer
  <2>3. QED
    BY <1>6, <2>2 DEF AskServer, roleVars
<1>7. ASSUME NEW l \in Lists, Watcher(l) \/ WatcherResync(l)
      PROVE  RolesOK'
  <2>1. UNCHANGED faults \/ \E answer : Answer(lists[l].owner, answer)
    BY <1>7 DEF Watcher, WatcherSynced, WatcherTick, WatcherReview, WatcherSend, WatcherEnd,
                WatcherResync
  <2>2. faults' \in 0 .. MaxFaults
    BY <1>1, <2>1 DEF Answer
  <2>3. UNCHANGED <<kind, allowed, reviewed, changes, cancelled>>
    BY <1>7 DEF Watcher, WatcherSynced, WatcherTick, WatcherReview, WatcherSend, WatcherEnd,
                WatcherResync, WatchRest, roleVars
  <2>4. QED
    BY <2>2, <2>3
<1>8. QED
  BY <1>3, <1>4, <1>5, <1>6, <1>7 DEF CacheStep

\* Every step leaves the callers their types.
LEMMA RolesSteps ==
  ASSUME RolesOK, Step
  PROVE  RolesOK'
<1>1. ASSUME RoleRest, UNCHANGED cancelled \/ \E c \in Callers : Cancel(c)
      PROVE  RolesOK'
  BY <1>1 DEF RolesOK, RoleRest, roleVars, Cancel
<1>2. ASSUME NEW c \in Callers, SessionStep(c)
      PROVE  RolesOK'
  <2>1. RoleRest /\ (UNCHANGED cancelled \/ Cancel(c))
    BY <1>2 DEF SessionStep, Begin, Refuse, SetPowerState, Disconnect
  <2>2. QED
    BY <1>1, <2>1
<1>3. ASSUME NEW c \in Callers, VncStep(c)
      PROVE  RolesOK'
  <2>1. RoleRest /\ (UNCHANGED cancelled \/ Cancel(c))
    BY <1>3 DEF VncStep, VncConnect, VncConnectFails, VncConnected, EmptyMessageFails,
                WriterEnds, ReadMessage, ReadFails, MessageAllowed, MessageRefused,
                HandOver, EndSession, VncRest
  <2>2. QED
    BY <1>1, <2>1
<1>4. ASSUME NEW c \in Callers, ConsoleStep(c)
      PROVE  RolesOK'
  <2>1. RoleRest /\ (UNCHANGED cancelled \/ Cancel(c))
    BY <1>4 DEF ConsoleStep, FindFeed, Feed, ConsoleConnectFails, ConsoleConnected,
                ReadOutput, ReadOutputFails, WriteInputFails, PumpOutput, PumpEvent,
                PumpEmit, PumpEnds, PumpRest, LibrarySends
  <2>2. QED
    BY <1>1, <2>1
<1>5. QED
  BY <1>2, <1>3, <1>4, RolesCache DEF Step

\* Every step leaves the channels of the lists their capacity.
LEMMA RoomSteps ==
  ASSUME CacheInv, RoomOK, Step
  PROVE  RoomOK'
<1> SUFFICES ASSUME NEW l \in Lists, lists'[l] # None
             PROVE  Len(lists'[l].events) <= EventsCapacity
  BY DEF RoomOK
<1>1. ListMoves(l) /\ EventsCapacity \in Nat
  BY ListStep, AllowCacheAssumption
<1>2. CASE lists[l] = None
  <2>1. PICK c \in Callers : lists'[l] = NewList(c)
    BY <1>1, <1>2 DEF ListMoves
  <2>2. lists'[l].events = <<>>
    BY <2>1 DEF NewList
  <2>3. QED
    BY <1>1, <2>2
<1>3. CASE lists[l] # None
  <2> DEFINE events == lists[l].events
  <2>1. events \in Seq({"yes", "no"}) /\ Len(events) <= EventsCapacity
    BY <1>3, Owners DEF RoomOK, AllowLists, List
  <2>2. \/ lists'[l].events = events
        \/ Room(events) /\ lists'[l].events = Append(events, lists[l].verdict)
        \/ events # <<>> /\ lists'[l].events = Tail(events)
    BY <1>1, <1>3 DEF ListMoves, Kept, Watched, Locked, Reviewed, Pumped, Turned
  <2> HIDE DEF events
  <2>3. CASE lists'[l].events = events
    BY <2>1, <2>3
  <2>4. CASE Room(events) /\ lists'[l].events = Append(events, lists[l].verdict)
    <3>1. Len(Append(events, lists[l].verdict)) = Len(events) + 1
      BY <2>1
    <3>2. QED
      BY <1>1, <2>1, <2>4, <3>1 DEF Room
  <2>5. CASE events # <<>> /\ lists'[l].events = Tail(events)
    <3>1. Len(Tail(events)) = Len(events) - 1
      BY <2>1, <2>5
    <3>2. QED
      BY <1>1, <2>1, <2>5, <3>1
  <2>6. QED
    BY <2>2, <2>3, <2>4, <2>5
<1>4. QED
  BY <1>2, <1>3

\* Outside the console, what it has for its clients stays.
LEMMA ConsoleRests ==
  ASSUME ConsoleTypeOK, UNCHANGED consoleVars,
         \A c \in Callers : (relay'[c] = "emitting") = (relay[c] = "emitting")
  PROVE  ConsoleTypeOK'
BY DEF ConsoleTypeOK, consoleVars

\* The shared steps keep the sequences of a console within its channels.
LEMMA ConsoleSession ==
  ASSUME SessionInv, PhaseInv, ConsoleTypeOK, NEW c \in Callers, SessionStep(c) \/ VncStep(c),
         UNCHANGED consoleVars
  PROVE  ConsoleTypeOK'
<1>1. CASE UNCHANGED relay
  BY <1>1, ConsoleRests
<1>2. ASSUME NEW to \in {"selecting", "ended", "failed"},
             relay[c] \in {"none", "selecting"}, relay' = [relay EXCEPT ![c] = to]
      PROVE  ConsoleTypeOK'
  BY <1>2, ConsoleRests DEF SessionInv, SessionTypeOK
<1>3. CASE SessionStep(c)
  BY <1>1, <1>3 DEF SessionStep, Begin, Refuse, SetPowerState, Disconnect, sessionVars
<1>4. CASE VncStep(c)
  <2>1. CASE VncConnected(c)
    <3>1. relay[c] = "none"
      BY <2>1 DEF VncConnected, PhaseInv, PhaseOK, Early
    <3>2. QED
      BY <1>2, <2>1, <3>1 DEF VncConnected
  <2>2. CASE EmptyMessageFails(c) \/ WriterEnds(c)
    BY <1>2, <2>2 DEF EmptyMessageFails, WriterEnds
  <2>3. ASSUME NEW who \in {"main", "reader"}, HandOver(c, who)
        PROVE  ConsoleTypeOK'
    BY <1>1, <1>2, <2>3 DEF HandOver
  <2>4. CASE VncConnect(c) \/ VncConnectFails(c)
    BY <1>1, <2>4 DEF VncConnect, VncConnectFails
  <2>5. ASSUME NEW who \in {"main", "reader"},
               \/ ReadMessage(c, who) \/ ReadFails(c, who)
               \/ MessageAllowed(c, who) \/ MessageRefused(c, who)
        PROVE  ConsoleTypeOK'
    BY <1>1, <2>5 DEF ReadMessage, ReadFails, MessageAllowed, MessageRefused
  <2>6. QED
    BY <1>4, <2>1, <2>2, <2>3, <2>4, <2>5 DEF VncStep
<1>5. QED
  BY <1>3, <1>4

\* The console's own steps keep them there.
LEMMA ConsoleOwn ==
  ASSUME CacheInv, SessionInv, PhaseInv, ConsoleTypeOK, NEW c \in Callers, ConsoleStep(c)
  PROVE  ConsoleTypeOK'
<1>1. TextCapacity \in Nat /\ ServerCapacity \in Nat /\ None \notin Event
  BY ConsoleAssumption
<1>2. relay \in [Callers -> {"none", "selecting", "emitting", "ended", "failed"}]
  BY DEF SessionInv, SessionTypeOK
<1>3. ASSUME UNCHANGED <<hand, out, told>>, text'[c] \in 0 .. TextCapacity,
             UNCHANGED text \/ \E n : text' = [text EXCEPT ![c] = n],
             \/ UNCHANGED relay
             \/ /\ relay[c] # "emitting"
                /\ \E to \in {"selecting", "ended", "failed"} : relay' = [relay EXCEPT ![c] = to]
      PROVE  ConsoleTypeOK'
  BY <1>2, <1>3 DEF ConsoleTypeOK
<1>4. CASE FindFeed(c) \/ Feed(c) \/ ConsoleConnectFails(c) \/ ReadOutputFails(c)
  BY <1>3, <1>4 DEF FindFeed, Feed, ConsoleConnectFails, ReadOutputFails, consoleVars, ConsoleTypeOK
<1>5. CASE ConsoleConnected(c)
  <2>1. relay[c] = "none"
    BY <1>5 DEF ConsoleConnected, PhaseInv, PhaseOK, Early
  <2>2. QED
    BY <1>2, <1>5, <2>1 DEF ConsoleConnected, ConsoleTypeOK
<1>6. CASE ReadOutput(c)
  BY <1>1, <1>3, <1>6 DEF ReadOutput, PumpRest, ConsoleTypeOK
<1>7. CASE WriteInputFails(c) \/ PumpEnds(c)
  BY <1>3, <1>7 DEF WriteInputFails, PumpEnds, PumpRest, ConsoleTypeOK
<1>8. ASSUME NEW e \in Event, Take(c, e), UNCHANGED <<out, told>>,
             text' \in [Callers -> 0 .. TextCapacity]
      PROVE  ConsoleTypeOK'
  BY <1>1, <1>2, <1>8 DEF Take, ConsoleTypeOK
<1>9. CASE PumpOutput(c)
  <2>1. text' \in [Callers -> 0 .. TextCapacity]
    BY <1>1, <1>9 DEF PumpOutput, ConsoleTypeOK
  <2>2. QED
    BY <1>8, <1>9, <2>1 DEF PumpOutput, PumpRest, Event
<1>10. CASE PumpEvent(c)
  <2>1. /\ Take(c, Head(lists[feed[c]].events)) /\ lists[feed[c]].events # <<>>
        /\ UNCHANGED <<text, out, told>> /\ InStream(c)
    BY <1>10 DEF PumpEvent, PumpRest
  <2>2. feed[c] \in Lists /\ lists[feed[c]] # None
    BY <2>1, AllowCacheAssumption DEF InStream, CacheInv, SessionInv, Referred
  <2>3. lists[feed[c]].events \in Seq({"yes", "no"})
    BY <2>2, Owners DEF AllowLists, List
  <2>4. Head(lists[feed[c]].events) \in Event
    BY <2>1, <2>3 DEF Event
  <2>5. QED
    BY <1>8, <2>1, <2>4 DEF ConsoleTypeOK
<1>11. CASE PumpEmit(c)
  <2>1. /\ hand[c] \in Event /\ Len(out[c]) < ServerCapacity /\ out[c] \in Seq(Event)
        /\ relay' = [relay EXCEPT ![c] = "selecting"] /\ hand' = [hand EXCEPT ![c] = None]
        /\ out' = [out EXCEPT ![c] = Append(@, hand[c])] /\ UNCHANGED <<text, told>>
    BY <1>11 DEF PumpEmit, PumpRest, ConsoleTypeOK
  <2>2. Append(out[c], hand[c]) \in Seq(Event) /\ Len(Append(out[c], hand[c])) <= ServerCapacity
    BY <1>1, <2>1
  <2>3. QED
    BY <1>2, <2>1, <2>2 DEF ConsoleTypeOK
<1>12. CASE LibrarySends(c)
  <2>1. /\ out[c] # <<>> /\ out[c] \in Seq(Event) /\ Len(out[c]) <= ServerCapacity
        /\ out' = [out EXCEPT ![c] = Tail(@)] /\ UNCHANGED <<relay, text, hand>>
        /\ told' = [told EXCEPT ![c] = IF Head(out[c]) = "output" THEN @ ELSE Head(out[c])]
    BY <1>12 DEF LibrarySends, sessionVars, ConsoleTypeOK
  <2>2. /\ Tail(out[c]) \in Seq(Event) /\ Len(Tail(out[c])) <= ServerCapacity
        /\ Head(out[c]) \in Event
    BY <1>1, <2>1
  <2>3. told' \in [Callers -> {None, "yes", "no"}]
    BY <2>1, <2>2 DEF ConsoleTypeOK, Event
  <2>4. QED
    BY <2>1, <2>2, <2>3 DEF ConsoleTypeOK
<1>13. QED
  BY <1>4, <1>5, <1>6, <1>7, <1>9, <1>10, <1>11, <1>12 DEF ConsoleStep

\* Every step keeps the types.
LEMMA TypeSteps ==
  ASSUME TypeInv, [Next]_vars
  PROVE  TypeInv'
<1>1. CacheInv' /\ SessionInv'
  BY Steps DEF TypeInv
<1>2. CASE Next
  <2>1. Step
    BY <1>2 DEF Next
  <2>2. PhaseInv' /\ MutexInv' /\ RolesOK' /\ RoomOK'
    BY <1>1, <2>1, PhaseSteps, MutexSteps, RolesSteps, RoomSteps DEF TypeInv
  <2>3. ConsoleTypeOK'
    <3>1. CASE CacheStep /\ UNCHANGED <<sessionVars, consoleVars>>
      BY <3>1, ConsoleRests DEF TypeInv, sessionVars
    <3>2. QED
      BY <2>1, <3>1, ConsoleSession, ConsoleOwn DEF TypeInv, Step
  <2>4. refused' \in [Goroutines -> BOOLEAN]
    BY <1>2 DEF Next, Remember, TypeInv, Busy
  <2>5. QED
    BY <1>1, <2>2, <2>3, <2>4 DEF TypeInv
<1>3. CASE UNCHANGED vars
  <2>1. PhaseInv' /\ MutexInv' /\ RolesOK' /\ RoomOK'
    BY <1>3 DEF vars, apiVars, TypeInv, PhaseInv, PhaseOK, InStream, MutexInv, RolesOK, RoomOK
  <2>2. ConsoleTypeOK' /\ refused' \in [Goroutines -> BOOLEAN]
    BY <1>3 DEF vars, apiVars, TypeInv, ConsoleTypeOK
  <2>3. QED
    BY <1>1, <2>1, <2>2 DEF TypeInv
<1>4. QED
  BY <1>2, <1>3

\* The types are right at the start.
LEMMA TypesInitially ==
  ASSUME Init
  PROVE  TypeInv
<1>1. CacheInv /\ SessionInv
  BY Initially
<1>2. {EventsCapacity, MaxChanges, MaxFaults, TextCapacity, ServerCapacity} \subseteq Nat
  BY AllowCacheAssumption, ConsoleAssumption
<1>3. PhaseInv
  BY GoroutinePairs DEF Init, CacheInit, SessionInit, ConsoleInit, PhaseInv, PhaseOK, Running
<1>4. MutexInv /\ RoomOK
  BY DEF Init, CacheInit, MutexInv, RoomOK, Idle
<1>5. RolesOK
  BY <1>2 DEF Init, CacheInit, RolesOK
<1>6. ConsoleTypeOK
  BY <1>2, ConsoleAssumption DEF Init, ConsoleInit, SessionInit, ConsoleTypeOK
<1>7. QED
  BY <1>1, <1>3, <1>4, <1>5, <1>6 DEF TypeInv, Init

\* Every variable keeps its type, channels their capacity; the mutex of a list is
\* held by a goroutine exactly as long as that waits for the API server.
THEOREM ApiTypeCorrect == Spec => []TypeOK
<1>1. TypeInv => TypeOK
  <2> SUFFICES ASSUME TypeInv PROVE TypeOK
    OBVIOUS
  <2>1. \A g \in Goroutines :
          (ask[g].phase = "reviewing") = (\E l \in Lists : lists[l] # None /\ lists[l].holder = g)
    <3> TAKE g \in Goroutines
    <3>1. ASSUME ask[g].phase = "reviewing"
          PROVE  \E l \in Lists : lists[l] # None /\ lists[l].holder = g
      <4>1. ask[g].list \in Lists /\ lists[ask[g].list] # None
        BY <3>1, AskingLists, NoList DEF TypeInv
      <4>2. QED
        BY <3>1, <4>1 DEF TypeInv, MutexInv
    <3>2. ASSUME NEW l \in Lists, lists[l] # None, lists[l].holder = g
          PROVE  ask[g].phase = "reviewing"
      <4>1. ask[lists[l].holder] = [list |-> l, phase |-> "reviewing"]
        BY <3>2 DEF TypeInv, MutexInv
      <4>2. QED
        BY <3>2, <4>1
    <3>3. QED
      BY <3>1, <3>2
  <2>2. CacheTypeOK
    BY <2>1 DEF TypeInv, CacheTypeOK, CacheInv, RolesOK, RoomOK, Listing, AllowLists, Asks
  <2>3. QED
    BY <2>2 DEF TypeInv, TypeOK, SessionInv
<1>2. QED
  BY <1>1, TypesInitially, TypeSteps, PTL DEF Spec

-----------------------------------------------------------------------------
(* Sequences of events.                                                    *)

\* Events of which none says anything of the permission.
Silent(events) == \A i \in DOMAIN events : events[i] \notin {"yes", "no"}

\* What may be among the events, told or at hand.
Item == {None} \cup Event

\* What is appended is the latest if it says something of the permission.
LEMMA LatestAppended ==
  ASSUME NEW s \in Seq(Item), NEW e \in Item, NEW v
  PROVE  /\ Latest(Append(s, v), v)
         /\ e \notin {"yes", "no"} /\ Latest(s, v) => Latest(Append(s, e), v)
         /\ e \notin {"yes", "no"} /\ Silent(s) => Silent(Append(s, e))
<1>1. Len(s) \in Nat /\ DOMAIN s = 1 .. Len(s)
  OBVIOUS
<1>2. ASSUME NEW x
      PROVE  /\ DOMAIN Append(s, x) = 1 .. Len(s) + 1
             /\ Append(s, x)[Len(s) + 1] = x
             /\ \A i \in 1 .. Len(s) : Append(s, x)[i] = s[i]
  OBVIOUS
<1>3. Latest(Append(s, v), v)
  <2> DEFINE t == Append(s, v)
  <2>1. DOMAIN t = 1 .. Len(s) + 1 /\ t[Len(s) + 1] = v
    BY <1>2
  <2> HIDE DEF t
  <2>2. Len(s) + 1 \in DOMAIN t /\ \A j \in DOMAIN t : ~(j > Len(s) + 1)
    BY <1>1, <2>1
  <2>3. QED
    BY <2>1, <2>2 DEF Latest, t
<1>4. ASSUME e \notin {"yes", "no"}, Latest(s, v)
      PROVE  Latest(Append(s, e), v)
  <2> DEFINE t == Append(s, e)
  <2>1. PICK i \in DOMAIN s : s[i] = v /\ \A j \in DOMAIN s : j > i => s[j] \notin {"yes", "no"}
    BY <1>4 DEF Latest
  <2>2. /\ DOMAIN t = 1 .. Len(s) + 1 /\ t[Len(s) + 1] = e
        /\ \A j \in 1 .. Len(s) : t[j] = s[j]
    BY <1>2
  <2> HIDE DEF t
  <2>3. i \in DOMAIN t /\ t[i] = v
    BY <1>1, <2>1, <2>2
  <2>4. ASSUME NEW j \in DOMAIN t, j > i PROVE t[j] \notin {"yes", "no"}
    <3>1. j = Len(s) + 1 \/ j \in 1 .. Len(s)
      BY <1>1, <2>2
    <3>2. QED
      BY <1>1, <1>4, <2>1, <2>2, <2>4, <3>1
  <2>5. QED
    BY <2>3, <2>4 DEF Latest, t
<1>5. ASSUME e \notin {"yes", "no"}, Silent(s)
      PROVE  Silent(Append(s, e))
  <2> DEFINE t == Append(s, e)
  <2>1. /\ DOMAIN t = 1 .. Len(s) + 1 /\ t[Len(s) + 1] = e
        /\ \A j \in 1 .. Len(s) : t[j] = s[j]
    BY <1>2
  <2> HIDE DEF t
  <2>2. ASSUME NEW j \in DOMAIN t PROVE t[j] \notin {"yes", "no"}
    <3>1. j = Len(s) + 1 \/ j \in 1 .. Len(s)
      BY <1>1, <2>1
    <3>2. QED
      BY <1>1, <1>5, <2>1, <3>1 DEF Silent
  <2>3. QED
    BY <2>2 DEF Silent, t
<1>6. QED
  BY <1>3, <1>4, <1>5

\* The latest stays the latest when an older event is taken away.
LEMMA LatestTail ==
  ASSUME NEW s \in Seq(Item), s # <<>>, NEW v
  PROVE  /\ Latest(s, v) => \/ Latest(Tail(s), v)
                            \/ Silent(Tail(s)) /\ Head(s) = v
         /\ Silent(s) => Silent(Tail(s)) /\ Head(s) \notin {"yes", "no"}
<1> DEFINE t == Tail(s)
<1>1. /\ Len(s) \in Nat \ {0} /\ DOMAIN s = 1 .. Len(s) /\ Head(s) = s[1]
      /\ DOMAIN t = 1 .. Len(s) - 1 /\ \A j \in 1 .. Len(s) - 1 : t[j] = s[j + 1]
  OBVIOUS
<1> HIDE DEF t
<1>2. ASSUME Latest(s, v)
      PROVE  Latest(t, v) \/ (Silent(t) /\ Head(s) = v)
  <2>1. PICK i \in DOMAIN s : s[i] = v /\ \A j \in DOMAIN s : j > i => s[j] \notin {"yes", "no"}
    BY <1>2 DEF Latest
  <2>2. \A j \in DOMAIN t : j + 1 > i => t[j] \notin {"yes", "no"}
    BY <1>1, <2>1
  <2>3. CASE i = 1
    BY <1>1, <2>1, <2>2, <2>3 DEF Silent
  <2>4. CASE i # 1
    <3>1. i - 1 \in DOMAIN t /\ t[i - 1] = v
      BY <1>1, <2>1, <2>4
    <3>2. \A j \in DOMAIN t : j > i - 1 => t[j] \notin {"yes", "no"}
      BY <1>1, <2>1, <2>2
    <3>3. QED
      BY <3>1, <3>2 DEF Latest
  <2>5. QED
    BY <2>3, <2>4
<1>3. ASSUME Silent(s)
      PROVE  Silent(t) /\ Head(s) \notin {"yes", "no"}
  BY <1>1, <1>3 DEF Silent
<1>4. QED
  BY <1>2, <1>3 DEF t

\* The latest of two sequences is that of the second, if it says anything.
LEMMA LatestJoined ==
  ASSUME NEW s \in Seq(Item), NEW t \in Seq(Item), NEW v
  PROVE  /\ Latest(t, v) => Latest(s \o t, v)
         /\ Latest(s, v) /\ Silent(t) => Latest(s \o t, v)
         /\ s \o t \in Seq(Item)
<1> DEFINE u == s \o t
<1>1. /\ Len(s) \in Nat /\ Len(t) \in Nat
      /\ DOMAIN s = 1 .. Len(s) /\ DOMAIN t = 1 .. Len(t)
      /\ DOMAIN u = 1 .. Len(s) + Len(t)
      /\ \A j \in 1 .. Len(s) + Len(t) : u[j] = IF j <= Len(s) THEN s[j] ELSE t[j - Len(s)]
  OBVIOUS
<1>2. u \in Seq(Item)
  OBVIOUS
<1> HIDE DEF u
<1>3. ASSUME Latest(t, v) PROVE Latest(u, v)
  <2>1. PICK i \in DOMAIN t : t[i] = v /\ \A j \in DOMAIN t : j > i => t[j] \notin {"yes", "no"}
    BY <1>3 DEF Latest
  <2>2. Len(s) + i \in DOMAIN u /\ u[Len(s) + i] = v
    <3>1. Len(s) + i \in 1 .. Len(s) + Len(t) /\ ~(Len(s) + i <= Len(s)) /\ Len(s) + i - Len(s) = i
      BY <1>1, <2>1
    <3>2. QED
      BY <1>1, <2>1, <3>1
  <2>3. ASSUME NEW j \in DOMAIN u, j > Len(s) + i PROVE u[j] \notin {"yes", "no"}
    <3>1. j - Len(s) \in DOMAIN t /\ j - Len(s) > i /\ u[j] = t[j - Len(s)]
      BY <1>1, <2>1, <2>3
    <3>2. QED
      BY <2>1, <3>1
  <2>4. QED
    BY <2>2, <2>3 DEF Latest
<1>4. ASSUME Latest(s, v), Silent(t) PROVE Latest(u, v)
  <2>1. PICK i \in DOMAIN s : s[i] = v /\ \A j \in DOMAIN s : j > i => s[j] \notin {"yes", "no"}
    BY <1>4 DEF Latest
  <2>2. i \in DOMAIN u /\ u[i] = v
    BY <1>1, <2>1
  <2>3. ASSUME NEW j \in DOMAIN u, j > i PROVE u[j] \notin {"yes", "no"}
    <3>1. CASE j <= Len(s)
      BY <1>1, <2>1, <2>3, <3>1
    <3>2. CASE ~(j <= Len(s))
      <4>1. j - Len(s) \in DOMAIN t /\ u[j] = t[j - Len(s)]
        BY <1>1, <2>3, <3>2
      <4>2. QED
        BY <1>4, <4>1 DEF Silent
    <3>3. QED
      BY <3>1, <3>2
  <2>4. QED
    BY <2>2, <2>3 DEF Latest
<1>5. QED
  BY <1>2, <1>3, <1>4 DEF u

\* A sequence of one event has that event as the latest, or none.
LEMMA LatestOne ==
  ASSUME NEW e \in Item
  PROVE  /\ <<e>> \in Seq(Item) /\ Latest(<<e>>, e)
         /\ e \notin {"yes", "no"} => Silent(<<e>>)
<1> DEFINE s == <<e>>
<1>1. s \in Seq(Item) /\ DOMAIN s = {1} /\ s[1] = e
  OBVIOUS
<1> HIDE DEF s
<1>2. QED
  BY <1>1 DEF Latest, Silent, s
-----------------------------------------------------------------------------
(* What a stream's client hears.                                           *)

\* A list that nobody has asked the server about, and that says so to nobody.
Fresh(r) ==
  r.verdict = "unknown" /\ r.events = <<>> /\ r.watcher \notin {"reviewing", "sending"}

\* What the client will have heard last when the pump has emitted what it has.
Heard(c) ==
  {v \in {"yes", "no"} :
     \/ hand[c] = v
     \/ hand[c] \notin {"yes", "no"} /\ (Latest(out[c], v) \/ (Silent(out[c]) /\ told[c] = v))}

\* Who has heard this, and is sent the events of the list, hears its verdict.
Tells(r, heard) ==
  \/ r.verdict = "unknown" \/ r.watcher = "sending"
  \/ Latest(r.events, r.verdict)
  \/ r.events = <<>> /\ r.verdict \in heard

\* Who asks a list, or is sent its events, finds it under its own key.
OwnInv ==
  /\ \A g \in Goroutines :
       ask[g].list # None => KeyOf(lists[ask[g].list].owner) = KeyOf(g[1])
  /\ \A c \in Callers :
       feed[c] # None => kind[c] = "console" /\ KeyOf(lists[feed[c]].owner) = c

\* From the question that a console begins with to its stream: the list it asks
\* is one that nobody has asked; the one it finds again, if that is still there,
\* says what it was told, or sends an event; and so does the one it is sent.
StreamOK(c) ==
  LET g == <<c, "main">> IN
  /\ main[c] = "idle" => entries[c] = None
  /\ ask[g].phase \in {"locking", "reviewing"} =>
       Fresh(lists[ask[g].list]) /\ entries[c] \in {None, ask[g].list}
  /\ (ask[g].phase = "yes" \/ main[c] = "feeding") /\ entries[c] # None =>
       Tells(lists[entries[c]], {"yes"})
  /\ main[c] = "connecting" => Tells(lists[feed[c]], {"yes"})
  /\ relay[c] # "none" => Tells(lists[feed[c]], Heard(c))

\* The stream of every console knows of the verdict of its list.
StreamInv == OwnInv /\ \A c \in Callers : kind[c] = "console" => StreamOK(c)

\* No step changes who a list was made for.
LEMMA OwnerStays ==
  ASSUME CacheInv, Step, NEW l \in Lists, lists[l] # None, lists'[l] # None
  PROVE  lists'[l].owner = lists[l].owner
BY ListStep DEF ListMoves, Kept, Watched, Locked, Reviewed, Pumped, Turned

\* Which list a caller is fed by changes only as it begins to be fed.
LEMMA FeedStep ==
  ASSUME Step
  PROVE  UNCHANGED feed \/ \E c \in Callers : Feed(c)
<1>1. CacheStep => UNCHANGED feed
  BY DEF CacheStep, ChangeRoles, FollowRoles, LockList, AskServer, Watcher, WatcherSynced,
         WatcherTick, WatcherReview, WatcherSend, WatcherEnd, WatcherResync, WatchRest
<1>2. \A c \in Callers : SessionStep(c) => UNCHANGED feed
  BY DEF SessionStep, Begin, Refuse, SetPowerState, Disconnect, cacheVars
<1>3. \A c \in Callers : VncStep(c) => UNCHANGED feed
  BY DEF VncStep, VncConnect, VncConnectFails, VncConnected, EmptyMessageFails, WriterEnds,
         ReadMessage, ReadFails, MessageAllowed, MessageRefused, HandOver, VncRest, cacheVars
<1>4. \A c \in Callers : ConsoleStep(c) => UNCHANGED feed \/ Feed(c)
  BY DEF ConsoleStep, FindFeed, ConsoleConnectFails, ConsoleConnected, ReadOutput,
         ReadOutputFails, WriteInputFails, PumpOutput, PumpEvent, PumpEmit, PumpEnds, PumpRest,
         LibrarySends, cacheVars
<1>5. QED
  BY <1>1, <1>2, <1>3, <1>4 DEF Step

\* A caller asks, and is fed by, lists of its own key only.
LEMMA OwnSteps ==
  ASSUME CacheInv, CacheInv', PhaseInv, OwnInv, Step
  PROVE  OwnInv'
<1>1. UNCHANGED kind
  BY KindStays
<1>2. ASSUME NEW l \in Lists, lists[l] # None, lists'[l] # None
      PROVE  KeyOf(lists'[l].owner) = KeyOf(lists[l].owner)
  BY <1>1, <1>2, OwnerStays, Owners
<1>3. ASSUME NEW c \in Callers, NEW l \in Lists, AllowList(c, l)
      PROVE  KeyOf(lists'[l].owner) = KeyOf(c)
  <2>1. entries'[KeyOf(c)] = l /\ KeyOf(c) \in Keys /\ l # None
    BY <1>1, <1>3, AllowListKeeps, AllowCacheAssumption DEF KeyOf, Keys
  <2>2. QED
    BY <1>1, <2>1 DEF CacheInv, EveryEntryWatched, KeyOf
<1>4. ASSUME NEW g \in Goroutines, ask'[g].list # None
      PROVE  KeyOf(lists'[ask'[g].list].owner) = KeyOf(g[1])
  <2>1. AskMoves(g) /\ ask[g].list \in {None} \cup Lists
    BY AskStep, AskTypes DEF CacheInv
  <2>2. CASE ask'[g].list = ask[g].list
    <3>1. lists[ask[g].list] # None /\ lists'[ask[g].list] # None
      BY <1>4, <2>2 DEF CacheInv, Referred
    <3>2. QED
      BY <1>2, <1>4, <2>1, <2>2, <3>1 DEF OwnInv
  <2>3. LockList(g) => ask'[g].list \in {None, ask[g].list}
    BY DEF LockList, CacheInv, Asks, Told, Idle, Asking
  <2>4. ~AskServer(g)
    BY <1>4, GivesBack
  <2>5. CASE StartAsking(g)
    <3>1. PICK l \in Lists : /\ AllowList(g[1], l)
                             /\ ask' = [ask EXCEPT ![g] = [list |-> l, phase |-> "locking"]]
      BY <2>5 DEF StartAsking
    <3>2. ask'[g].list = l /\ g[1] \in Callers
      BY <3>1 DEF CacheInv, Asks, Goroutines
    <3>3. QED
      BY <1>3, <3>1, <3>2
  <2>6. QED
    BY <1>4, <2>1, <2>2, <2>3, <2>4, <2>5 DEF AskMoves, Idle
<1>5. ASSUME NEW c \in Callers, feed'[c] # None
      PROVE  kind[c] = "console" /\ KeyOf(lists'[feed'[c]].owner) = c
  <2>1. CASE feed'[c] = feed[c]
    <3>1. feed[c] \in Lists /\ lists[feed[c]] # None /\ lists'[feed[c]] # None
      BY <1>5, <2>1 DEF CacheInv, Referred
    <3>2. QED
      BY <1>2, <1>5, <2>1, <3>1 DEF OwnInv
  <2>2. CASE feed'[c] # feed[c]
    <3>1. Feed(c)
      BY <2>2, FeedStep DEF Feed, CacheInv
    <3>2. kind[c] = "console"
      BY <3>1 DEF Feed, PhaseInv, PhaseOK
    <3>3. PICK l \in Lists : AllowList(c, l) /\ feed' = [feed EXCEPT ![c] = l]
      BY <3>1 DEF Feed
    <3>4. feed'[c] = l
      BY <3>3 DEF CacheInv
    <3>5. QED
      BY <1>3, <3>2, <3>3, <3>4 DEF KeyOf
  <2>3. QED
    BY <2>1, <2>2
<1>6. QED
  <2>1. \A g \in Goroutines : ask'[g].list # None => (KeyOf(lists[ask[g].list].owner) = KeyOf(g[1]))'
    BY <1>1, <1>4 DEF KeyOf
  <2>2. \A c \in Callers : feed'[c] # None => kind'[c] = "console" /\ (KeyOf(lists[feed[c]].owner) = c)'
    BY <1>1, <1>5 DEF KeyOf
  <2>3. QED
    BY <2>1, <2>2 DEF OwnInv


\* Nobody but the console's own stream asks its list, or is sent the events.
LEMMA AsksAlone ==
  ASSUME CacheInv, PhaseInv, OwnInv, NEW c \in Callers, NEW l \in Lists,
         KeyOf(lists[l].owner) = c,
         NEW g \in Goroutines, ask[g].list = l
  PROVE  kind[c] = "console" /\ g = <<c, "main">>
<1>1. l # None /\ c # None
  BY AllowCacheAssumption
<1>2. KeyOf(g[1]) = c
  BY <1>1 DEF OwnInv
<1>3. g[1] = c /\ kind[c] = "console"
  BY <1>1, <1>2 DEF KeyOf
<1>4. ask[<<c, "reader">>] = Idle
  BY <1>3 DEF PhaseInv, PhaseOK
<1>5. g = <<g[1], g[2]>> /\ g[2] \in {"main", "reader"}
  BY DEF Goroutines
<1>6. g[2] # "reader"
  BY <1>1, <1>3, <1>4, <1>5 DEF Idle
<1>7. QED
  BY <1>3, <1>5, <1>6

\* Nobody else takes events from the list of a console's key.
LEMMA FeedsAlone ==
  ASSUME OwnInv, NEW c \in Callers, NEW l \in Lists, KeyOf(lists[l].owner) = c,
         NEW d \in Callers, feed[d] = l
  PROVE  d = c
BY AllowCacheAssumption DEF OwnInv

\* The verdict of a list changes with the answer to who asks it, or with the
\* event its watcher is about to send.
LEMMA TellsStays ==
  ASSUME CacheInv, Step, NEW l \in Lists, lists[l] # None, lists'[l] # None,
         \A g \in Goroutines : ask[g].list = l => ~Reviewed(g, lists[l], lists'[l]),
         \A c \in Callers : feed[c] = l => ~Pumped(c, lists[l], lists'[l]),
         NEW heard, Tells(lists[l], heard)
  PROVE  Tells(lists'[l], heard)
<1> DEFINE r == lists[l]
           u == lists'[l]
<1>1. r.events \in Seq(Item) /\ r.verdict \in Item \cup {"unknown"}
  BY Owners DEF AllowLists, List, Verdicts, Item, Event
<1>2. Kept(r, u) \/ Watched(r, u) \/ \E g \in Goroutines : Locked(g, r, u)
  BY ListStep DEF ListMoves
<1> HIDE DEF r, u
<1>3. CASE u.watcher = "sending"
  BY <1>3 DEF Tells, u
<1>4. CASE r.watcher = "sending" /\ u.watcher # "sending"
  <2>1. u.verdict = r.verdict /\ u.events = Append(r.events, r.verdict)
    BY <1>2, <1>4 DEF Kept, Watched, Locked, Turned
  <2>2. r.verdict = "unknown" \/ Latest(u.events, u.verdict)
    BY <1>1, <2>1, LatestAppended DEF Item
  <2>3. QED
    BY <2>1, <2>2 DEF Tells, u
<1>5. CASE r.watcher # "sending" /\ u.watcher # "sending"
  <2>1. u.verdict = r.verdict /\ u.events = r.events
    BY <1>2, <1>5 DEF Kept, Watched, Locked, Turned
  <2>2. QED
    BY <1>5, <2>1 DEF Tells, r, u
<1>6. QED
  BY <1>3, <1>4, <1>5

\* An entry appears for a console that begins, or looks for its events.
LEMMA EntryAppears ==
  ASSUME CacheInv, Step, NEW c \in Callers, entries'[c] # None, entries[c] = None
  PROVE  kind[c] = "console" /\ (Begin(c) \/ Feed(c))
<1>1. ASSUME NEW d \in Callers, NEW l \in Lists, AllowList(d, l)
      PROVE  kind[c] = "console" /\ d = c
  <2>1. /\ entries' = [entries EXCEPT ![KeyOf(d)] = l]
        /\ KeyOf(d) \in Keys /\ c \in Keys /\ c # None
    BY <1>1, AllowCacheAssumption DEF AllowList, KeyOf, Keys
  <2>2. KeyOf(d) = c
    BY <2>1 DEF CacheInv
  <2>3. QED
    BY <2>1, <2>2 DEF KeyOf
<1>2. ASSUME NEW g \in Goroutines, StartAsking(g)
      PROVE  kind[c] = "console" /\ g[1] = c
  BY <1>1, <1>2 DEF StartAsking, Goroutines
<1>3. CASE CacheStep
  <2>1. ASSUME NEW l \in Lists, WatcherEnd(l)
        PROVE  FALSE
    BY <2>1 DEF WatcherEnd, RemoveList, CacheInv, Keys
  <2>2. UNCHANGED entries \/ \E l \in Lists : WatcherEnd(l)
    BY <1>3 DEF CacheStep, ChangeRoles, FollowRoles, cacheVars, LockList, AskServer, Watcher,
                WatcherSynced, WatcherTick, WatcherReview, WatcherSend, WatcherResync
  <2>3. QED
    BY <2>1, <2>2
<1>4. ASSUME NEW d \in Callers, SessionStep(d)
      PROVE  kind[c] = "console" /\ (Begin(c) \/ Feed(c))
  <2>1. Begin(d) /\ StartAsking(<<d, "main">>)
    BY <1>4 DEF SessionStep, Begin, Refuse, SetPowerState, Disconnect, cacheVars
  <2>2. QED
    BY <1>2, <2>1, GoroutinePairs
<1>5. ASSUME NEW d \in Callers, VncStep(d)
      PROVE  FALSE
  <2>1. PICK who \in {"main", "reader"} : StartAsking(<<d, who>>) /\ kind[d] = "vnc"
    BY <1>5 DEF VncStep, VncConnect, VncConnectFails, VncConnected, EmptyMessageFails,
                WriterEnds, ReadMessage, ReadFails, MessageAllowed, MessageRefused,
                HandOver, cacheVars, InSession
  <2>2. QED
    BY <1>2, <2>1, GoroutinePairs
<1>6. ASSUME NEW d \in Callers, ConsoleStep(d)
      PROVE  kind[c] = "console" /\ (Begin(c) \/ Feed(c))
  <2>1. Feed(d) /\ \E l \in Lists : AllowList(d, l)
    BY <1>6 DEF ConsoleStep, FindFeed, Feed, ConsoleConnectFails, ConsoleConnected,
                ReadOutput, ReadOutputFails, WriteInputFails, PumpOutput, PumpEvent,
                PumpEmit, PumpEnds, PumpRest, LibrarySends, cacheVars
  <2>2. QED
    BY <1>1, <2>1
<1>7. QED
  BY <1>3, <1>4, <1>5, <1>6 DEF Step

\* What its client hears and where its events come from stays.
HeardStays(c) ==
  /\ feed'[c] = feed[c] /\ (relay'[c] = "none") = (relay[c] = "none")
  /\ told'[c] = told[c] /\ out'[c] = out[c] /\ hand'[c] = hand[c]

\* What a step can do to a console.
StreamMoves(c) ==
  \/ main'[c] = main[c] /\ HeardStays(c)
  \/ Begin(c) /\ main'[c] = "asking" /\ HeardStays(c)
  \/ main'[c] = "returned" /\ HeardStays(c)
  \/ FindFeed(c) /\ main'[c] = "feeding" /\ HeardStays(c)
  \/ Feed(c) /\ main'[c] = "connecting" /\ relay'[c] = relay[c]
  \/ /\ main[c] = "connecting" /\ main'[c] = "returned" /\ feed'[c] = feed[c]
     /\ told'[c] = "yes" /\ out'[c] = out[c] /\ hand'[c] = hand[c]
  \/ /\ PumpOutput(c) \/ PumpEvent(c) \/ PumpEmit(c) \/ LibrarySends(c)
     /\ main'[c] = main[c] /\ feed'[c] = feed[c] /\ relay[c] # "none"

\* Every step does one of these to a stream and to its list.
LEMMA StreamStep ==
  ASSUME CacheInv, SessionInv, PhaseInv, ConsoleTypeOK, Step, NEW c \in Callers, kind[c] = "console"
  PROVE  StreamMoves(c)
<1> USE DEF StreamMoves, HeardStays
<1>1. CASE CacheStep /\ UNCHANGED <<sessionVars, consoleVars>>
  <2>1. UNCHANGED feed
    BY <1>1 DEF CacheStep, ChangeRoles, FollowRoles, LockList, AskServer, Watcher, WatcherSynced,
         WatcherTick, WatcherReview, WatcherSend, WatcherEnd, WatcherResync, WatchRest
  <2>2. QED
    BY <1>1, <2>1 DEF sessionVars, consoleVars
<1>2. ASSUME NEW d \in Callers, d # c,
             \E x : main' = [main EXCEPT ![d] = x], \E x : feed' = [feed EXCEPT ![d] = x],
             \E x : relay' = [relay EXCEPT ![d] = x], \E x : told' = [told EXCEPT ![d] = x],
             \E x : out' = [out EXCEPT ![d] = x], \E x : hand' = [hand EXCEPT ![d] = x]
      PROVE  StreamMoves(c)
  BY <1>2 DEF CacheInv, SessionInv, SessionTypeOK, ConsoleTypeOK
<1>3. ASSUME NEW d \in Callers
      PROVE  /\ main = [main EXCEPT ![d] = main[d]] /\ feed = [feed EXCEPT ![d] = feed[d]]
             /\ relay = [relay EXCEPT ![d] = relay[d]] /\ told = [told EXCEPT ![d] = told[d]]
             /\ out = [out EXCEPT ![d] = out[d]] /\ hand = [hand EXCEPT ![d] = hand[d]]
  BY DEF CacheInv, SessionInv, SessionTypeOK, ConsoleTypeOK
<1>4. ASSUME NEW d \in Callers, SessionStep(d), UNCHANGED consoleVars
      PROVE  StreamMoves(c)
  <2>1. UNCHANGED <<feed, relay, told, out, hand>> /\ \E x : main' = [main EXCEPT ![d] = x]
    BY <1>3, <1>4 DEF SessionStep, Begin, Refuse, SetPowerState, Disconnect, sessionVars, consoleVars
  <2>2. CASE d # c
    BY <1>2, <1>3, <2>1, <2>2
  <2>3. CASE d = c
    <3>1. CASE Begin(c)
      BY <2>1, <3>1 DEF Begin, SessionInv, SessionTypeOK
    <3>2. CASE Refuse(c) \/ SetPowerState(c)
      BY <2>1, <3>2 DEF Refuse, SetPowerState, SessionInv, SessionTypeOK
    <3>3. CASE Disconnect(c)
      BY <2>1, <3>3 DEF Disconnect, sessionVars
    <3>4. QED
      BY <1>4, <2>3, <3>1, <3>2, <3>3 DEF SessionStep
  <2>4. QED
    BY <2>2, <2>3
<1>5. ASSUME NEW d \in Callers, VncStep(d), UNCHANGED consoleVars
      PROVE  StreamMoves(c)
  <2>1. d # c
    BY <1>5 DEF VncStep, VncConnect, VncConnectFails, VncConnected, EmptyMessageFails,
                WriterEnds, ReadMessage, ReadFails, MessageAllowed, MessageRefused,
                HandOver, InSession
  <2>2. /\ UNCHANGED feed /\ \E x : main' = [main EXCEPT ![d] = x]
        /\ \E x : relay' = [relay EXCEPT ![d] = x]
    BY <1>3, <1>5 DEF VncStep, VncConnect, VncConnectFails, VncConnected, EmptyMessageFails,
                WriterEnds, ReadMessage, ReadFails, MessageAllowed, MessageRefused,
                HandOver, Go, VncRest
  <2>3. QED
    BY <1>2, <1>3, <1>5, <2>1, <2>2 DEF consoleVars
<1>6. ASSUME NEW d \in Callers, ConsoleStep(d)
      PROVE  StreamMoves(c)
  <2>1. CASE d # c
    <3>1. /\ UNCHANGED main \/ \E x : main' = [main EXCEPT ![d] = x]
          /\ UNCHANGED feed \/ \E x : feed' = [feed EXCEPT ![d] = x]
      BY <1>6 DEF ConsoleStep, FindFeed, Feed, ConsoleConnectFails, ConsoleConnected,
                ReadOutput, ReadOutputFails, WriteInputFails, PumpOutput, PumpEvent, PumpEmit,
                PumpEnds, PumpRest, LibrarySends, sessionVars
    <3>2. /\ UNCHANGED relay \/ \E x : relay' = [relay EXCEPT ![d] = x]
          /\ UNCHANGED told \/ \E x : told' = [told EXCEPT ![d] = x]
      BY <1>6 DEF ConsoleStep, FindFeed, Feed, ConsoleConnectFails, ConsoleConnected,
                ReadOutput, ReadOutputFails, WriteInputFails, PumpOutput, PumpEvent, PumpEmit,
                PumpEnds, PumpRest, LibrarySends, Take, sessionVars, consoleVars
    <3>3. /\ UNCHANGED out \/ \E x : out' = [out EXCEPT ![d] = x]
          /\ UNCHANGED hand \/ \E x : hand' = [hand EXCEPT ![d] = x]
      BY <1>6 DEF ConsoleStep, FindFeed, Feed, ConsoleConnectFails, ConsoleConnected,
                ReadOutput, ReadOutputFails, WriteInputFails, PumpOutput, PumpEvent, PumpEmit,
                PumpEnds, LibrarySends, Take, consoleVars
    <3>4. /\ \E x : main' = [main EXCEPT ![d] = x]
          /\ \E x : feed' = [feed EXCEPT ![d] = x]
          /\ \E x : relay' = [relay EXCEPT ![d] = x]
          /\ \E x : told' = [told EXCEPT ![d] = x]
          /\ \E x : out' = [out EXCEPT ![d] = x]
          /\ \E x : hand' = [hand EXCEPT ![d] = x]
      BY <1>3, <3>1, <3>2, <3>3
    <3>5. QED
      BY <1>2, <2>1, <3>4
  <2>2. CASE d = c
    <3>1. CASE FindFeed(c) \/ Feed(c) \/ ConsoleConnectFails(c)
      BY <3>1 DEF FindFeed, Feed, ConsoleConnectFails, consoleVars, SessionInv, SessionTypeOK
    <3>2. CASE ConsoleConnected(c)
      BY <3>2 DEF ConsoleConnected, SessionInv, SessionTypeOK, ConsoleTypeOK
    <3>3. CASE ReadOutput(c) \/ ReadOutputFails(c)
      BY <3>3 DEF ReadOutput, ReadOutputFails, PumpRest, consoleVars
    <3>4. CASE WriteInputFails(c) \/ PumpEnds(c)
      BY <3>4 DEF WriteInputFails, PumpEnds, InStream, PumpRest, SessionInv, SessionTypeOK
    <3>5. CASE PumpOutput(c) \/ PumpEvent(c) \/ PumpEmit(c)
      BY <3>5 DEF PumpOutput, PumpEvent, PumpEmit, PumpRest, InStream
    <3>6. CASE LibrarySends(c)
      BY <3>6 DEF LibrarySends, sessionVars, PhaseInv, PhaseOK, InStream
    <3>7. QED
      BY <1>6, <2>2, <3>1, <3>2, <3>3, <3>4, <3>5, <3>6 DEF ConsoleStep
  <2>3. QED
    BY <2>1, <2>2
<1>7. QED
  BY <1>1, <1>4, <1>5, <1>6 DEF Step


\* A console asks the cache once, before its stream is there.
LEMMA ConsolePhase ==
  ASSUME PhaseInv, NEW c \in Callers, kind[c] = "console"
  PROVE  /\ main[c] # "asking" => ask[<<c, "main">>].phase = "idle"
         /\ main[c] \in {"asking", "feeding", "connecting"} => relay[c] = "none"
<1>1. PhaseOK(c)
  BY DEF PhaseInv
<1>2. main[c] \notin {"asking", "checking"} => ask[<<c, "main">>] = Idle
  BY <1>1 DEF PhaseOK
<1>3. main[c] # "checking"
  BY <1>1 DEF PhaseOK, Running
<1>4. Idle.phase = "idle"
  BY DEF Idle
<1>5. main[c] \in {"asking", "feeding", "connecting"} => relay[c] = "none"
  BY <1>1 DEF PhaseOK, Early
<1>6. QED
  BY <1>2, <1>3, <1>4, <1>5

\* Nobody asks the list of a console that is not waiting for an answer.
LEMMA NobodyAsks ==
  ASSUME CacheInv, PhaseInv, OwnInv, NEW c \in Callers, NEW l \in Lists,
         KeyOf(lists[l].owner) = c,
         ask[<<c, "main">>].phase \notin {"locking", "reviewing"}
  PROVE  \A g \in Goroutines : ask[g].list = l => ~Reviewed(g, lists[l], lists'[l])
BY AsksAlone DEF Reviewed, AskServer

\* Nobody takes the events of a console's list before its stream is there.
LEMMA NobodyPumps ==
  ASSUME OwnInv, NEW c \in Callers, NEW l \in Lists, KeyOf(lists[l].owner) = c, relay[c] = "none"
  PROVE  \A d \in Callers : feed[d] = l => ~Pumped(d, lists[l], lists'[l])
BY FeedsAlone DEF Pumped, PumpEvent, InStream

\* An entry of the cache is a list that was made for its key.
LEMMA EntryOwner ==
  ASSUME CacheInv, NEW c \in Callers, entries[c] # None
  PROVE  entries[c] \in Lists /\ lists[entries[c]] # None /\ KeyOf(lists[entries[c]].owner) = c
BY DEF CacheInv, EveryEntryWatched, Live, Keys

\* A console has no entry before it begins.
LEMMA IdleSteps ==
  ASSUME CacheInv, SessionInv, PhaseInv, ConsoleTypeOK, StreamInv, Step,
         NEW c \in Callers, kind[c] = "console", main'[c] = "idle"
  PROVE  entries'[c] = None
<1>1. main[c] = "idle"
  BY StreamStep DEF StreamMoves
<1>2. entries[c] = None
  BY <1>1 DEF StreamInv, StreamOK
<1>3. ~Begin(c) /\ ~Feed(c)
  BY <1>1 DEF Begin, Feed, SessionInv, SessionTypeOK
<1>4. QED
  BY <1>2, <1>3, EntryAppears

\* The list a console asks is new.
LEMMA FreshSteps ==
  ASSUME CacheInv, CacheInv', SessionInv, PhaseInv, ConsoleTypeOK, StreamInv, Step,
         NEW c \in Callers, kind[c] = "console",
         ask'[<<c, "main">>].phase \in {"locking", "reviewing"}
  PROVE  /\ Fresh(lists'[ask'[<<c, "main">>].list])
         /\ entries'[c] \in {None, ask'[<<c, "main">>].list}
<1> DEFINE g == <<c, "main">>
           l == ask'[g].list
<1>1. g \in Goroutines /\ g[1] = c
  BY GoroutinePairs
<1>2. l \in Lists /\ lists'[l] # None
  <2>1. ask'[g] \in Asking
    BY <1>1 DEF CacheInv, Asks, Idle, Told
  <2>2. QED
    BY <1>1, <2>1, AllowCacheAssumption DEF CacheInv, Referred, Asking
<1>3. AskMoves(g) /\ ListMoves(l)
  BY <1>1, <1>2, AskStep, ListStep
<1>4. CASE StartAsking(g) /\ Begin(c)
  <2>1. PICK m \in Lists : /\ AllowList(g[1], m)
                           /\ ask' = [ask EXCEPT ![g] = [list |-> m, phase |-> "locking"]]
    BY <1>4 DEF StartAsking
  <2>2. l = m
    BY <1>1, <2>1 DEF CacheInv, Asks
  <2>3. entries[c] = None /\ KeyOf(c) = c
    BY <1>4 DEF Begin, StreamInv, StreamOK, KeyOf
  <2>4. lists' = [lists EXCEPT ![l] = NewList(c)] /\ entries' = [entries EXCEPT ![c] = l]
    <3>1. AllowList(c, l)
      BY <1>1, <2>1, <2>2
    <3> HIDE DEF l
    <3>2. QED
      BY <2>3, <3>1 DEF AllowList
  <2>5. lists'[l] = NewList(c) /\ entries'[c] = l
    BY <1>2, <2>4 DEF CacheInv, Listing, Keys
  <2>6. QED
    BY <2>5 DEF Fresh, NewList
<1>5. CASE ~(StartAsking(g) /\ Begin(c))
  <2>1. ask[g].list = l /\ ask[g].phase \in {"locking", "reviewing"}
    <3>1. ~AskServer(g)
      BY <1>1, GivesBack
    <3>2. ask'[g] # Idle
      BY DEF Idle
    <3>3. CASE LockList(g)
      <4>1. ask[g] \in Asking
        BY <1>1, <3>3 DEF LockList, CacheInv, Asks, Idle, Told
      <4>2. \/ ask' = [ask EXCEPT ![g] = Told(lists[ask[g].list].verdict)]
            \/ ask' = [ask EXCEPT ![g].phase = "reviewing"]
        BY <3>3 DEF LockList
      <4>3. QED
        BY <1>1, <1>2, <4>1, <4>2, AllowCacheAssumption DEF CacheInv, Asks, Told, Asking
    <3>4. QED
      BY <1>1, <1>3, <1>5, <3>1, <3>2, <3>3 DEF AskMoves
  <2>2. Fresh(lists[l]) /\ entries[c] \in {None, l}
    BY <2>1 DEF StreamInv, StreamOK
  <2>3. /\ lists[l] # None /\ KeyOf(lists[l].owner) = c
    <3>1. KeyOf(c) = c
      BY DEF KeyOf
    <3>2. l # None
      BY <1>2, AllowCacheAssumption
    <3>3. QED
      BY <1>1, <2>1, <3>1, <3>2 DEF CacheInv, Referred, StreamInv, OwnInv
  <2>4. \A h \in Goroutines : ask[h].list = l => ~Reviewed(h, lists[l], lists'[l])
    <3> SUFFICES ASSUME NEW h \in Goroutines, ask[h].list = l, Reviewed(h, lists[l], lists'[l])
                 PROVE  FALSE
      OBVIOUS
    <3>1. h = g
      BY <1>2, <2>3, AsksAlone DEF StreamInv
    <3>2. QED
      BY <1>1, <3>1, GivesBack DEF Reviewed
  <2>5. Fresh(lists'[l])
    BY <1>3, <2>2, <2>3, <2>4 DEF ListMoves, Fresh, Kept, Watched, Locked, Pumped, Turned
  <2>6. entries'[c] \in {None, l}
    <3>1. main[c] = "asking"
      BY <2>1, ConsolePhase
    <3>2. entries'[c] # None => entries[c] # None
      BY <3>1, EntryAppears DEF Begin, Feed
    <3>3. QED
      BY <2>2, <3>2, EntriesStay DEF Keys
  <2>7. QED
    BY <2>5, <2>6
<1>6. QED
  BY <1>4, <1>5

\* What a console finds in the cache after a yes has said yes, or says what has
\* become of it.
LEMMA FoundSteps ==
  ASSUME CacheInv, CacheInv', SessionInv, PhaseInv, ConsoleTypeOK, StreamInv, Step,
         NEW c \in Callers, kind[c] = "console",
         ask'[<<c, "main">>].phase = "yes" \/ main'[c] = "feeding", entries'[c] # None
  PROVE  Tells(lists'[entries'[c]], {"yes"})
<1> DEFINE g == <<c, "main">>
           l == entries'[c]
<1>1. g \in Goroutines /\ g[1] = c /\ KeyOf(c) = c
  BY GoroutinePairs DEF KeyOf
<1>2. l \in Lists /\ lists'[l] # None
  BY DEF CacheInv, EveryEntryWatched, Live, Keys
<1>3. AskMoves(g) /\ ListMoves(l) /\ StreamMoves(c)
  BY <1>1, <1>2, AskStep, ListStep, StreamStep
<1>4. entries[c] = l
  <2>1. ASSUME StartAsking(g)
        PROVE  ask'[g].phase = "locking"
    BY <1>1, <2>1 DEF StartAsking, CacheInv, Asks
  <2>2. ~Begin(c)
    BY <1>1, <2>1 DEF Begin, SessionInv, SessionTypeOK
  <2>3. ~Feed(c)
    <3>1. ASSUME Feed(c) PROVE ask'[g].phase = "idle" /\ main'[c] = "connecting"
      BY <3>1, ConsolePhase DEF Feed, SessionInv, SessionTypeOK
    <3>2. QED
      BY <3>1
  <2>4. entries[c] # None
    BY <2>2, <2>3, EntryAppears
  <2>5. QED
    BY <2>4, EntriesStay DEF Keys
<1>5. lists[l] # None /\ KeyOf(lists[l].owner) = c /\ entries[c] # None
  BY <1>2, <1>4, EntryOwner, AllowCacheAssumption
<1>6. CASE ask[g].phase = "yes" \/ main[c] = "feeding"
  <2>1. Tells(lists[l], {"yes"})
    BY <1>4, <1>5, <1>6 DEF StreamInv, StreamOK
  <2>2. relay[c] = "none" /\ ask[g].phase \notin {"locking", "reviewing"}
    BY <1>6, ConsolePhase
  <2>3. QED
    BY <1>2, <1>5, <2>1, <2>2, NobodyAsks, NobodyPumps, TellsStays DEF StreamInv
<1>7. CASE ~(ask[g].phase = "yes" \/ main[c] = "feeding")
  <2>1. ~FindFeed(c) /\ main'[c] # "feeding" /\ ask'[g].phase = "yes"
    BY <1>3, <1>7 DEF FindFeed, Answered, StreamMoves
  <2>2. ask'[g] # ask[g] /\ ask'[g] # Idle /\ ~StartAsking(g)
    <3>1. StartAsking(g) => ask'[g].phase = "locking"
      BY <1>1 DEF StartAsking, CacheInv, Asks
    <3>2. QED
      BY <1>7, <2>1, <3>1 DEF Idle
  <2>3. LockList(g) \/ AskServer(g)
    BY <1>3, <2>2 DEF AskMoves
  <2>4. Fresh(lists[ask[g].list]) /\ l = ask[g].list
    <3>1. ask[g].phase \in {"locking", "reviewing"}
      BY <2>3 DEF LockList, AskServer
    <3>2. QED
      BY <1>4, <1>5, <3>1 DEF StreamInv, StreamOK
  <2>5. ~LockList(g)
    <3>1. ASSUME LockList(g) PROVE ask' = [ask EXCEPT ![g].phase = "reviewing"]
      BY <2>4, <3>1 DEF LockList, Fresh
    <3>2. ASSUME LockList(g) PROVE ask[g] \in Asking
      BY <1>1, <3>2 DEF LockList, CacheInv, Asks, Idle, Told
    <3>3. ASSUME LockList(g) PROVE ask'[g].phase = "reviewing"
      BY <1>1, <3>1, <3>2, <3>3 DEF CacheInv, Asks, Asking
    <3>4. QED
      BY <2>1, <3>3
  <2>6. PICK answer \in BOOLEAN :
          /\ ask' = [ask EXCEPT ![g] = Told(Verdict(answer))]
          /\ lists' = Collect([lists EXCEPT ![l].holder = None,
                                            ![l].verdict = Verdict(answer)], ask')
    BY <2>3, <2>4, <2>5 DEF AskServer
  <2>7. Verdict(answer) = "yes"
    BY <1>1, <2>1, <2>6 DEF CacheInv, Asks, Told
  <2> DEFINE u == [lists[l] EXCEPT !.holder = None, !.verdict = "yes"]
  <2>8. u \in AllowLists /\ u.verdict = "yes" /\ u.events = <<>>
    <3>1. lists[l] \in List /\ lists[l].watcher # "sending" /\ lists[l].events = <<>>
      BY <1>2, <1>5, <2>4, Owners DEF AllowLists, Fresh
    <3>2. QED
      BY <3>1 DEF AllowLists, List, Verdicts
  <2>9. lists' = Collect([lists EXCEPT ![l] = u], ask')
    <3>1. lists \in [Lists -> {None} \cup AllowLists]
      BY DEF CacheInv, Listing
    <3>2. [lists EXCEPT ![l].holder = None, ![l].verdict = "yes"] = [lists EXCEPT ![l] = u]
      BY <1>2, <3>1
    <3>3. QED
      BY <2>6, <2>7, <3>2
  <2> HIDE DEF u
  <2>10. lists'[l] = u
    BY <1>2, <1>5, <2>8, <2>9, ListBecomes
  <2>11. QED
    BY <2>8, <2>10 DEF Tells
<1>8. QED
  BY <1>6, <1>7

\* So does the list whose events it will be sent, until the stream is there.
LEMMA ConnectingSteps ==
  ASSUME CacheInv, CacheInv', SessionInv, PhaseInv, ConsoleTypeOK, StreamInv, Step,
         NEW c \in Callers, kind[c] = "console", main'[c] = "connecting", feed'[c] # None
  PROVE  Tells(lists'[feed'[c]], {"yes"})
<1>1. KeyOf(c) = c /\ StreamMoves(c)
  BY StreamStep DEF KeyOf
<1>2. CASE Feed(c)
  <2>1. PICK l \in Lists : AllowList(c, l) /\ feed' = [feed EXCEPT ![c] = l]
    BY <1>2 DEF Feed
  <2>2. feed'[c] = l
    BY <2>1 DEF CacheInv
  <2>3. CASE entries[c] = None
    <3>1. lists' = [lists EXCEPT ![l] = NewList(c)]
      BY <1>1, <2>1, <2>3 DEF AllowList
    <3>2. lists'[l] = NewList(c)
      BY <3>1 DEF CacheInv, Listing
    <3>3. QED
      BY <2>2, <3>2 DEF Tells, NewList
  <2>4. CASE entries[c] # None
    <3>1. l = entries[c] /\ UNCHANGED lists
      BY <1>1, <2>1, <2>4 DEF AllowList
    <3>2. Tells(lists[l], {"yes"})
      BY <1>2, <2>4, <3>1 DEF Feed, StreamInv, StreamOK
    <3>3. QED
      BY <2>2, <3>1, <3>2
  <2>5. QED
    BY <2>3, <2>4
<1>3. CASE ~Feed(c)
  <2> DEFINE l == feed[c]
  <2>1. main[c] = "connecting" /\ feed'[c] = l
    BY <1>1, <1>3 DEF StreamMoves, HeardStays
  <2>2. Tells(lists[l], {"yes"})
    BY <2>1 DEF StreamInv, StreamOK
  <2>3. l \in Lists /\ lists[l] # None /\ lists'[l] # None /\ KeyOf(lists[l].owner) = c
    BY <2>1 DEF CacheInv, Referred, StreamInv, OwnInv
  <2>4. relay[c] = "none" /\ ask[<<c, "main">>].phase \notin {"locking", "reviewing"}
    BY <2>1, ConsolePhase
  <2>5. QED
    BY <2>1, <2>2, <2>3, <2>4, NobodyAsks, NobodyPumps, TellsStays DEF StreamInv
<1>4. QED
  BY <1>2, <1>3


\* Who is told more is told no less.
LEMMA TellsMore ==
  ASSUME NEW r, NEW heard, NEW more, Tells(r, heard), heard \subseteq more
  PROVE  Tells(r, more)
BY DEF Tells

\* What is taken, emitted and sent is heard in the order it came in.
LEMMA HeardSteps ==
  ASSUME CacheInv, CacheInv', SessionInv, PhaseInv, ConsoleTypeOK, StreamInv, Step,
         NEW c \in Callers, kind[c] = "console", relay'[c] # "none", feed'[c] # None
  PROVE  Tells(lists'[feed'[c]], Heard(c)')
<1> DEFINE l == feed[c]
<1>1. StreamMoves(c)
  BY StreamStep
<1>2. ConsoleTypeOK /\ None \notin Event /\ out[c] \in Seq(Item) /\ hand[c] \in Item
  BY ConsoleAssumption DEF ConsoleTypeOK, Item
<1>3. ASSUME l # None
      PROVE  l \in Lists /\ lists[l] # None /\ KeyOf(lists[l].owner) = c
  BY <1>3 DEF CacheInv, Referred, StreamInv, OwnInv
<1>4. ASSUME feed'[c] = l PROVE lists'[l] # None
  BY <1>4 DEF CacheInv, Referred
<1>5. ASSUME relay[c] # "none" PROVE l # None /\ Tells(lists[l], Heard(c))
  BY <1>5 DEF StreamInv, StreamOK, SessionInv
<1>6. ASSUME PumpEvent(c)
      PROVE  hand'[c] = Head(lists[l].events) /\ hand[c] = None /\ UNCHANGED <<out, told>>
  BY <1>6 DEF PumpEvent, PumpRest, Take, ConsoleTypeOK
<1>7. ASSUME lists[l] # None, l \in Lists
      PROVE  lists[l].events \in Seq({"yes", "no"}) /\ lists[l].events \in Seq(Item)
  BY <1>7, Owners DEF AllowLists, List, Item, Event
<1>8. CASE HeardStays(c)
  <2>1. feed'[c] = l /\ relay[c] # "none" /\ Heard(c)' = Heard(c)
    BY <1>8 DEF HeardStays, Heard
  <2>2. ask[<<c, "main">>].phase \notin {"locking", "reviewing"}
    BY <2>1, ConsolePhase
  <2>3. ~PumpEvent(c)
    <3> SUFFICES ASSUME PumpEvent(c) PROVE FALSE
      OBVIOUS
    <3>1. lists[l].events # <<>>
      BY DEF PumpEvent
    <3>2. Head(lists[l].events) \in {"yes", "no"}
      BY <1>3, <1>5, <1>7, <2>1, <3>1
    <3>3. QED
      BY <1>2, <1>6, <1>8, <3>2 DEF HeardStays, Event
  <2>4. \A d \in Callers : feed[d] = l => ~Pumped(d, lists[l], lists'[l])
    BY <1>3, <1>5, <2>1, <2>3, FeedsAlone DEF Pumped, StreamInv
  <2>5. \A g \in Goroutines : ask[g].list = l => ~Reviewed(g, lists[l], lists'[l])
    BY <1>3, <1>5, <2>1, <2>2, NobodyAsks DEF StreamInv
  <2>6. QED
    BY <1>3, <1>4, <1>5, <2>1, <2>4, <2>5, TellsStays
<1>9. CASE Feed(c) /\ relay'[c] = relay[c]
  BY <1>9, ConsolePhase DEF Feed
<1>10. CASE /\ main[c] = "connecting" /\ feed'[c] = feed[c]
            /\ told'[c] = "yes" /\ out'[c] = out[c] /\ hand'[c] = hand[c]
  <2>1. relay[c] = "none" /\ ask[<<c, "main">>].phase \notin {"locking", "reviewing"}
    BY <1>10, ConsolePhase
  <2>2. Tells(lists[l], {"yes"}) /\ l # None
    BY <1>10 DEF StreamInv, StreamOK
  <2>3. Tells(lists'[l], {"yes"})
    BY <1>3, <1>4, <1>10, <2>1, <2>2, NobodyAsks, NobodyPumps, TellsStays DEF StreamInv
  <2>4. hand[c] = None /\ out[c] = <<>>
    BY <2>1 DEF ConsoleTypeOK, PhaseInv, PhaseOK, InStream
  <2>5. hand'[c] \notin {"yes", "no"} /\ Silent(out'[c])
    BY <1>2, <1>10, <2>4 DEF Silent, Event
  <2>6. {"yes"} \subseteq Heard(c)'
    BY <1>10, <2>5 DEF Heard
  <2>7. QED
    BY <1>10, <2>3, <2>6, TellsMore
<1>11. CASE PumpOutput(c) /\ feed'[c] = feed[c] /\ relay[c] # "none"
  <2>1. UNCHANGED <<lists, out, told>> /\ hand'[c] = "output" /\ hand[c] = None
    BY <1>11 DEF PumpOutput, PumpRest, Take, ConsoleTypeOK
  <2>2. hand[c] \notin {"yes", "no"}
    BY <1>2, <2>1 DEF Event
  <2>3. Heard(c) \subseteq Heard(c)'
    BY <2>1, <2>2 DEF Heard
  <2>4. QED
    BY <1>5, <1>11, <2>1, <2>3, TellsMore
<1>12. CASE PumpEvent(c) /\ feed'[c] = feed[c] /\ relay[c] # "none"
  <2> DEFINE r == lists[l]
             u == lists'[l]
             events == r.events
  <2>1. l \in Lists /\ r # None /\ Tells(r, Heard(c)) /\ u # None
    BY <1>3, <1>4, <1>5, <1>12
  <2>2. events # <<>> /\ lists' = [lists EXCEPT ![l].events = Tail(@)]
    BY <1>12 DEF PumpEvent
  <2>3. u.verdict = r.verdict /\ u.watcher = r.watcher /\ u.events = Tail(events)
    BY <2>1, <2>2, Owners DEF CacheInv, Listing, AllowLists, List
  <2>4. hand'[c] = Head(events) /\ events \in Seq({"yes", "no"}) /\ events \in Seq(Item)
    BY <1>6, <1>7, <1>12, <2>1
  <2> HIDE DEF events
  <2>5. Head(events) \in {"yes", "no"} /\ Tail(events) \in Seq({"yes", "no"})
    BY <2>2, <2>4 DEF events
  <2> HIDE DEF r, u
  <2>6. r.verdict = "unknown" \/ r.watcher = "sending" \/ Latest(events, r.verdict)
    BY <2>1, <2>2 DEF Tells, events
  <2>7. ASSUME Latest(events, r.verdict), ~Latest(Tail(events), r.verdict)
        PROVE  u.events = <<>> /\ u.verdict \in Heard(c)'
    <3>1. events # <<>>
      BY <2>2 DEF events
    <3>2. Silent(Tail(events)) /\ Head(events) = r.verdict
      BY <2>4, <2>7, <3>1, LatestTail
    <3>3. Tail(events) = <<>>
      <4> DEFINE t == Tail(events)
      <4>1. t \in Seq({"yes", "no"}) /\ \A i \in DOMAIN t : t[i] \notin {"yes", "no"}
        BY <2>5, <3>2 DEF Silent
      <4> HIDE DEF t
      <4>2. t # <<>> => 1 \in DOMAIN t /\ t[1] \in {"yes", "no"}
        BY <4>1
      <4>3. QED
        BY <4>1, <4>2 DEF t
    <3>4. QED
      BY <2>3, <2>4, <2>5, <3>2, <3>3 DEF Heard
  <2>8. Tells(u, Heard(c)')
    BY <2>3, <2>6, <2>7 DEF Tells
  <2>9. QED
    BY <1>12, <2>8 DEF u
<1>13. CASE PumpEmit(c) /\ feed'[c] = feed[c] /\ relay[c] # "none"
  <2>1. /\ UNCHANGED <<lists, told>> /\ hand'[c] = None
        /\ out'[c] = Append(out[c], hand[c])
    BY <1>13 DEF PumpEmit, PumpRest, ConsoleTypeOK
  <2>2. hand'[c] \notin {"yes", "no"}
    BY <1>2, <2>1 DEF Event
  <2>3. ASSUME NEW v \in Heard(c)
        PROVE  v \in Heard(c)'
    <3>1. CASE hand[c] = v
      <4>1. Latest(out'[c], v)
        BY <1>2, <2>1, <3>1, LatestAppended
      <4>2. QED
        BY <2>2, <4>1 DEF Heard
    <3>2. CASE hand[c] \notin {"yes", "no"} /\ Latest(out[c], v)
      <4>1. Latest(out'[c], v)
        BY <1>2, <2>1, <3>2, LatestAppended
      <4>2. QED
        BY <2>2, <4>1 DEF Heard
    <3>3. CASE hand[c] \notin {"yes", "no"} /\ Silent(out[c]) /\ told[c] = v
      <4>1. Silent(out'[c])
        BY <1>2, <2>1, <3>3, LatestAppended
      <4>2. QED
        BY <2>1, <2>2, <3>3, <4>1 DEF Heard
    <3>4. QED
      BY <3>1, <3>2, <3>3 DEF Heard
  <2>4. QED
    BY <1>5, <1>13, <2>1, <2>3, TellsMore
<1>14. CASE LibrarySends(c) /\ feed'[c] = feed[c] /\ relay[c] # "none"
  <2>1. /\ UNCHANGED <<lists, hand>> /\ out[c] # <<>> /\ out'[c] = Tail(out[c])
        /\ told'[c] = IF Head(out[c]) = "output" THEN told[c] ELSE Head(out[c])
    BY <1>14 DEF LibrarySends, cacheVars, ConsoleTypeOK
  <2>2. Head(out[c]) \in {"output", "yes", "no"}
    BY <2>1 DEF ConsoleTypeOK, Event
  <2>3. ASSUME NEW v \in Heard(c)
        PROVE  v \in Heard(c)'
    <3>1. CASE hand[c] = v
      BY <2>1, <3>1 DEF Heard
    <3>2. CASE hand[c] \notin {"yes", "no"} /\ Latest(out[c], v)
      <4>1. Latest(out'[c], v) \/ (Silent(out'[c]) /\ Head(out[c]) = v)
        BY <1>2, <2>1, <3>2, LatestTail
      <4>2. Head(out[c]) = v => told'[c] = v
        BY <2>1 DEF Heard
      <4>3. QED
        BY <2>1, <3>2, <4>1, <4>2 DEF Heard
    <3>3. CASE hand[c] \notin {"yes", "no"} /\ Silent(out[c]) /\ told[c] = v
      <4>1. Silent(out'[c]) /\ Head(out[c]) \notin {"yes", "no"}
        BY <1>2, <2>1, <3>3, LatestTail
      <4>2. told'[c] = v
        BY <2>1, <2>2, <3>3, <4>1
      <4>3. QED
        BY <2>1, <3>3, <4>1, <4>2 DEF Heard
    <3>4. QED
      BY <3>1, <3>2, <3>3 DEF Heard
  <2>4. QED
    BY <1>5, <1>14, <2>1, <2>3, TellsMore
<1>15. QED
  BY <1>1, <1>8, <1>9, <1>10, <1>11, <1>12, <1>13, <1>14 DEF StreamMoves

\* Every step keeps what the streams know.
LEMMA StreamSteps ==
  ASSUME TypeInv, StreamInv, [Next]_vars
  PROVE  StreamInv'
<1>1. TypeInv'
  BY TypeSteps
<1>2. CASE Next
  <2>1. Step /\ UNCHANGED kind
    BY <1>2, KindStays DEF Next
  <2>2. OwnInv'
    BY <1>1, <2>1, OwnSteps DEF TypeInv, StreamInv
  <2>3. ASSUME NEW c \in Callers, kind[c] = "console"
        PROVE  StreamOK(c)'
    <3>1. main'[c] = "connecting" \/ relay'[c] # "none" => feed'[c] # None
      BY <1>1, <2>1, <2>3 DEF TypeInv, SessionInv
    <3>2. main'[c] = "idle" => entries'[c] = None
      BY <2>1, <2>3, IdleSteps DEF TypeInv
    <3>3. ask'[<<c, "main">>].phase \in {"locking", "reviewing"} =>
            /\ Fresh(lists'[ask'[<<c, "main">>].list])
            /\ entries'[c] \in {None, ask'[<<c, "main">>].list}
      BY <1>1, <2>1, <2>3, FreshSteps DEF TypeInv
    <3>4. (ask'[<<c, "main">>].phase = "yes" \/ main'[c] = "feeding") /\ entries'[c] # None =>
            Tells(lists'[entries'[c]], {"yes"})
      BY <1>1, <2>1, <2>3, FoundSteps DEF TypeInv
    <3>5. main'[c] = "connecting" => Tells(lists'[feed'[c]], {"yes"})
      BY <1>1, <2>1, <2>3, <3>1, ConnectingSteps DEF TypeInv
    <3>6. relay'[c] # "none" => Tells(lists'[feed'[c]], Heard(c)')
      BY <1>1, <2>1, <2>3, <3>1, HeardSteps DEF TypeInv
    <3>7. QED
      BY <3>2, <3>3, <3>4, <3>5, <3>6 DEF StreamOK
  <2>4. QED
    BY <2>1, <2>2, <2>3 DEF StreamInv
<1>3. CASE UNCHANGED vars
  <2>1. OwnInv'
    BY <1>3 DEF vars, apiVars, StreamInv, OwnInv, KeyOf
  <2>2. \A c \in Callers : kind'[c] = "console" => StreamOK(c)'
    BY <1>3 DEF vars, apiVars, StreamInv, StreamOK, Heard
  <2>3. QED
    BY <2>1, <2>2 DEF StreamInv
<1>4. QED
  BY <1>2, <1>3

\* A console's client that has heard all that is under way knows what the list of
\* its stream says: no change is lost between the answer that startConsole began
\* with and the events it passes on, and none overtakes another.
THEOREM ClientHearsVerdict == Spec => []ClientToldVerdict
<1>1. Init => TypeInv /\ StreamInv
  <2> SUFFICES ASSUME Init PROVE TypeInv /\ StreamInv
    OBVIOUS
  <2>1. TypeInv
    BY TypesInitially
  <2>2. OwnInv
    BY DEF Init, CacheInit, OwnInv, Idle
  <2>3. ASSUME NEW c \in Callers PROVE StreamOK(c)
    <3>1. ask[<<c, "main">>].phase = "idle" /\ main[c] = "idle" /\ relay[c] = "none"
      BY GoroutinePairs DEF Init, CacheInit, SessionInit, Idle
    <3>2. entries[c] = None
      BY DEF Init, CacheInit, Keys
    <3>3. QED
      BY <3>1, <3>2 DEF StreamOK
  <2>4. QED
    BY <2>1, <2>2, <2>3 DEF StreamInv
<1>2. TypeInv /\ StreamInv /\ [Next]_vars => TypeInv' /\ StreamInv'
  BY TypeSteps, StreamSteps
<1>3. TypeInv /\ StreamInv => ClientToldVerdict
  <2> SUFFICES ASSUME TypeInv, StreamInv, NEW c \in Callers, InStream(c)
               PROVE  LET l == lists[feed[c]] IN
                      l.verdict = "unknown" \/ l.watcher = "sending" \/ Latest(News(c), l.verdict)
    BY DEF ClientToldVerdict
  <2> DEFINE r == lists[feed[c]]
             told1 == <<told[c]>>
             told2 == told1 \o out[c]
             told3 == told2 \o <<hand[c]>>
  <2>1. Tells(r, Heard(c)) /\ feed[c] # None
    BY DEF InStream, StreamInv, StreamOK, TypeInv, SessionInv
  <2>2. /\ told[c] \in Item /\ hand[c] \in Item /\ out[c] \in Seq(Item)
        /\ told1 \in Seq(Item) /\ <<hand[c]>> \in Seq(Item)
    BY DEF TypeInv, ConsoleTypeOK, Item, Event
  <2>3. r.events \in Seq(Item)
    BY <2>1, Owners DEF TypeInv, CacheInv, Referred, AllowLists, List, Item, Event
  <2> HIDE DEF r, told1
  <2>4. told2 \in Seq(Item)
    BY <2>2, LatestJoined
  <2> HIDE DEF told2
  <2>5. told3 \in Seq(Item)
    BY <2>2, <2>4, LatestJoined
  <2> HIDE DEF told3
  <2>6. News(c) = told3 \o r.events
    BY DEF News, told3, told2, told1, r
  <2>7. ASSUME NEW v \in Heard(c) PROVE Latest(told3, v)
    <3>1. CASE hand[c] = v
      BY <2>2, <2>4, <3>1, LatestOne, LatestJoined DEF told3
    <3>2. CASE hand[c] \notin {"yes", "no"}
      <4>1. Latest(told2, v)
        <5>1. CASE Latest(out[c], v)
          BY <2>2, <5>1, LatestJoined DEF told2
        <5>2. CASE Silent(out[c]) /\ told[c] = v
          <6>1. Latest(told1, v)
            BY <2>2, <5>2, LatestOne DEF told1
          <6>2. QED
            BY <2>2, <5>2, <6>1, LatestJoined DEF told2
        <5>3. QED
          BY <3>2, <5>1, <5>2 DEF Heard
      <4>2. Silent(<<hand[c]>>)
        BY <2>2, <3>2, LatestOne
      <4>3. QED
        BY <2>2, <2>4, <4>1, <4>2, LatestJoined DEF told3
    <3>3. QED
      BY <3>1, <3>2 DEF Heard
  <2>8. Silent(<<>>)
    BY DEF Silent
  <2>9. \/ r.verdict = "unknown" \/ r.watcher = "sending" \/ Latest(told3 \o r.events, r.verdict)
    BY <2>1, <2>3, <2>5, <2>7, <2>8, LatestJoined DEF Tells
  <2>10. QED
    BY <2>6, <2>9 DEF r
<1>4. QED
  BY <1>1, <1>2, <1>3, PTL DEF Spec
=============================================================================
