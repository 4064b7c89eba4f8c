----------------------------- MODULE AllowCache -----------------------------
(***************************************************************************)
(* The allow cache of the HTTP API: whether a subject may use the virtual  *)
(* machine is asked of the API server once, kept in an allow list, and     *)
(* asked again by the list's watcher whenever a role or a binding changes. *)
(* A console stream has a list of its own; VNC and power requests share    *)
(* one, whoever their subjects are: whoever asks first is asked about, and *)
(* the watcher asks again about the subject that created the list.  It     *)
(* lives as long as the context of the request that created the list, and  *)
(* removes the list when it ends.                                          *)
(*                                                                         *)
(* Every goroutine that asks, and every watcher, holds the mutex of a list *)
(* while it waits for the API server; the watcher also while it waits for  *)
(* room in the list's channel of events.  The mutex of the cache itself is *)
(* held for no call, so what is done under it is one step.                 *)
(*                                                                         *)
(* A definition introduced by "Fault" is a wrong version of the one below  *)
(* it, which no specification uses.                                        *)
(***************************************************************************)
EXTENDS Naturals, Sequences, FiniteSets

CONSTANTS
  Subjects,
  Callers,         \* the requests and console streams
  SubjectOf,       \* who each is of
  Kinds,           \* what they are: functions from Callers to kinds
  Lists,           \* allow lists; enough of them for all that is referred to
  None,
  EventsCapacity,  \* of a list's channel of events: 1024
  MaxChanges,      \* how often roles or bindings change
  MaxFaults        \* how often an access review fails

KindType == {"console", "vnc", "power", "none"}

VARIABLES
  kind,       \* what each caller is
  allowed,    \* per subject, what the roles say
  reviewed,   \* what the API server's authorizer, which follows them, says
  lists,
  entries,    \* the list of each console stream, and that of all others
  ask,        \* per goroutine, the list it asks, and how far it has come
  cancelled,  \* per caller, whether its context is done
  feed,       \* per console stream, the list whose events it is sent
  changes, faults

cacheVars == <<lists, entries, ask>>
roleVars  == <<allowed, reviewed, changes>>

\* The goroutine of the request, and the one that reads from the machine.
Goroutines == Callers \X {"main", "reader"}

Keys == Callers \cup {None}

KeyOf(c) == IF kind[c] = "console" THEN c ELSE None

Verdicts == {"unknown", "yes", "no"}

Verdict(b) == IF b THEN "yes" ELSE "no"

\* tick: a notification waits for the watcher.  That several may wait is nothing
\* more, for the next resync can come at any time.
List == [owner : Callers, verdict : Verdicts, holder : {None} \cup Callers \X {"main", "reader", "watcher"},
         watcher : {"syncing", "waiting", "reviewing", "sending", "ended"},
         tick : BOOLEAN, events : Seq({"yes", "no"})]

ASSUME AllowCacheAssumption ==
  /\ SubjectOf \in [Callers -> Subjects]
  /\ Kinds \subseteq [Callers -> KindType]
  /\ {EventsCapacity, MaxChanges, MaxFaults} \subseteq Nat
  /\ None \notin Callers \cup Lists \cup List \cup Callers \X {"main", "reader", "watcher"}

Idle == [list |-> None, phase |-> "idle"]

Asking == [list : Lists, phase : {"locking", "reviewing"}]

\* A goroutine that has its answer lets go of the list.
Told(verdict) == [list |-> None, phase |-> verdict]

CacheTypeOK ==
  /\ kind \in Kinds
  /\ allowed \in [Subjects -> BOOLEAN] /\ reviewed \in [Subjects -> BOOLEAN]
  /\ lists \in [Lists -> {None} \cup List]
  /\ entries \in [Keys -> {None} \cup Lists]
  /\ ask \in [Goroutines -> {Idle, Told("yes"), Told("no")} \cup Asking]
  /\ cancelled \in [Callers -> BOOLEAN]
  /\ feed \in [Callers -> {None} \cup Lists]
  /\ changes \in 0 .. MaxChanges /\ faults \in 0 .. MaxFaults
  /\ \A l \in Lists : lists[l] # None => Len(lists[l].events) <= EventsCapacity
  /\ \A g \in Goroutines :
       (ask[g].phase = "reviewing") = (\E l \in Lists : lists[l] # None /\ lists[l].holder = g)

CacheInit ==
  /\ kind \in Kinds
  /\ allowed = [s \in Subjects |-> TRUE] /\ reviewed = allowed
  /\ lists = [l \in Lists |-> None]
  /\ entries = [k \in Keys |-> None]
  /\ ask = [g \in Goroutines |-> Idle]
  /\ cancelled = [c \in Callers |-> FALSE]
  /\ feed = [c \in Callers |-> None]
  /\ changes = 0 /\ faults = 0
-----------------------------------------------------------------------------
(* Roles, bindings and the API server's authorizer.                        *)

Live(l) == lists[l] # None /\ lists[l].watcher # "ended"

Synced(l) == Live(l) /\ lists[l].watcher # "syncing"

\* Fault: what happens before the informers are synced is noticed too, so no
\* resync is needed.
NoResync(l) == FALSE

\* Every ten minutes the informers, which stop with the context, hand out all
\* they have as updates.
Resync(l) == Synced(l) /\ ~lists[l].tick /\ ~cancelled[lists[l].owner]

\* A change, whomever it concerns, is an event of every watcher whose informers
\* are synced; others miss it.
ChangeRoles ==
  /\ changes < MaxChanges
  /\ changes' = changes + 1
  /\ \E s \in Subjects : allowed' = [allowed EXCEPT ![s] = ~@]
  /\ lists' = [l \in Lists |-> IF Synced(l) THEN [lists[l] EXCEPT !.tick = TRUE]
                                            ELSE lists[l]]
  /\ UNCHANGED <<kind, reviewed, entries, ask, cancelled, feed, faults>>

\* The authorizer's own watch delivers the change.
FollowRoles(s) ==
  /\ reviewed[s] # allowed[s]
  /\ reviewed' = [reviewed EXCEPT ![s] = allowed[s]]
  /\ UNCHANGED <<kind, allowed, cacheVars, cancelled, feed, changes, faults>>
-----------------------------------------------------------------------------
(* isAllowedVM: find or create the list, lock it, and ask if need be.      *)

\* A list without a watcher, that no stream and none of these goroutines has.
Unused(l, ls, asks) ==
  /\ ls[l] # None => ls[l].watcher = "ended"
  /\ \A g \in Goroutines : asks[g].list # l
  /\ \A c \in Callers : feed[c] # l

Collect(ls, asks) == [l \in Lists |-> IF Unused(l, ls, asks) THEN None ELSE ls[l]]

NewList(c) == [owner |-> c, verdict |-> "unknown", holder |-> None,
               watcher |-> "syncing", tick |-> FALSE, events |-> <<>>]

\* allowList: l is the caller's list, created with a watcher if there is none.
AllowList(c, l) ==
  \/ /\ entries[KeyOf(c)] # None /\ l = entries[KeyOf(c)]
     /\ UNCHANGED <<lists, entries>>
  \/ /\ entries[KeyOf(c)] = None
     /\ l = CHOOSE f \in Lists : lists[f] = None
     /\ lists[l] = None
     /\ lists' = [lists EXCEPT ![l] = NewList(c)]
     /\ entries' = [entries EXCEPT ![KeyOf(c)] = l]

StartAsking(g) ==
  \E l \in Lists : /\ AllowList(g[1], l)
                   /\ ask' = [ask EXCEPT ![g] = [list |-> l, phase |-> "locking"]]

\* Fault: the list is used without its mutex.
UnlockedAlways(l) == TRUE

Unlocked(l) == lists[l].holder = None

LockList(g) ==
  LET l == ask[g].list IN
  /\ ask[g].phase = "locking" /\ Unlocked(l)
  /\ \/ /\ lists[l].verdict # "unknown"
        /\ ask' = [ask EXCEPT ![g] = Told(lists[l].verdict)]
        /\ lists' = Collect(lists, ask')
     \/ /\ lists[l].verdict = "unknown"
        /\ ask' = [ask EXCEPT ![g].phase = "reviewing"]
        /\ lists' = [lists EXCEPT ![l].holder = g]
  /\ UNCHANGED <<kind, roleVars, entries, cancelled, feed, faults>>

\* What an access review made for a caller's subject answers.  One that fails
\* counts as a no, and one fails whose context is done: an answer that came
\* before that is a step from before that.
Answer(c, answer) ==
  \/ ~cancelled[c] /\ answer = reviewed[SubjectOf[c]] /\ UNCHANGED faults
  \/ cancelled[c] /\ ~answer /\ UNCHANGED faults
  \/ ~cancelled[c] /\ ~answer /\ faults < MaxFaults /\ faults' = faults + 1

AskServer(g) ==
  /\ ask[g].phase = "reviewing"
  /\ \E answer \in BOOLEAN :
       /\ Answer(g[1], answer)
       /\ ask' = [ask EXCEPT ![g] = Told(Verdict(answer))]
       /\ lists' = Collect([lists EXCEPT ![ask[g].list].holder = None,
                                         ![ask[g].list].verdict = Verdict(answer)], ask')
  /\ UNCHANGED <<kind, roleVars, entries, cancelled, feed>>
-----------------------------------------------------------------------------
(* watchSubjectAllowEntries.                                               *)

WatchRest == UNCHANGED <<kind, roleVars, ask, cancelled, feed>>

Watch(l, state) == lists' = [lists EXCEPT ![l].watcher = state]

WatcherSynced(l) ==
  /\ Live(l) /\ ~Synced(l)
  /\ Watch(l, "waiting")
  /\ UNCHANGED <<entries, faults>> /\ WatchRest

WatcherResync(l) ==
  /\ Resync(l)
  /\ lists' = [lists EXCEPT ![l].tick = TRUE]
  /\ UNCHANGED <<entries, faults>> /\ WatchRest

\* The watcher takes the notification, waits for the mutex, and locks: one step,
\* since what becomes of a watcher that waits can become of its notification.  A
\* list that holds no verdict yet needs no review.
WatcherTick(l) ==
  /\ Live(l) /\ lists[l].watcher = "waiting" /\ lists[l].tick /\ Unlocked(l)
  /\ lists' = IF lists[l].verdict = "unknown"
              THEN [lists EXCEPT ![l].tick = FALSE]
              ELSE [lists EXCEPT ![l].tick = FALSE, ![l].watcher = "reviewing",
                                 ![l].holder = <<lists[l].owner, "watcher">>]
  /\ UNCHANGED <<entries, faults>> /\ WatchRest

WatcherReview(l) ==
  /\ Live(l) /\ lists[l].watcher = "reviewing"
  /\ \E answer \in BOOLEAN :
       /\ Answer(lists[l].owner, answer)
       /\ IF lists[l].verdict = Verdict(answer)
          THEN lists' = [lists EXCEPT ![l].watcher = "waiting", ![l].holder = None]
          ELSE lists' = [lists EXCEPT ![l].watcher = "sending",
                                      ![l].verdict = Verdict(answer)]
  /\ UNCHANGED entries /\ WatchRest

\* Fault: the channel of events has no buffer.
RoomUnbuffered(events) == Len(events) < 0

Room(events) == Len(events) < EventsCapacity

\* Fault: the event says what was the case before.
ChangeEventOld(l) == IF lists[l].verdict = "yes" THEN "no" ELSE "yes"

ChangeEvent(l) == lists[l].verdict

WatcherSend(l) ==
  /\ Live(l) /\ lists[l].watcher = "sending" /\ Room(lists[l].events)
  /\ lists' = [lists EXCEPT ![l].watcher = "waiting", ![l].holder = None,
                            ![l].events = Append(@, ChangeEvent(l))]
  /\ UNCHANGED <<entries, faults>> /\ WatchRest

\* Fault: the list stays in the cache.
RemoveListNot(l) == entries

RemoveList(l) == [entries EXCEPT ![KeyOf(lists[l].owner)] = None]

WatcherEnd(l) ==
  /\ Live(l) /\ lists[l].watcher \in {"syncing", "waiting"}
  /\ cancelled[lists[l].owner]
  /\ lists' = Collect([lists EXCEPT ![l].watcher = "ended", ![l].tick = FALSE], ask)
  /\ entries' = RemoveList(l)
  /\ UNCHANGED faults /\ WatchRest

Watcher(l) ==
  \/ WatcherSynced(l) \/ WatcherTick(l) \/ WatcherReview(l)
  \/ WatcherSend(l) \/ WatcherEnd(l)
=============================================================================
