-------------------------------- MODULE Api --------------------------------
(***************************************************************************)
(* The HTTP API: consoles, VNC sessions and power requests of several      *)
(* subjects for one virtual machine, over the allow cache they share,      *)
(* while the roles of the subjects change, access reviews fail, and        *)
(* clients come and go.                                                    *)
(***************************************************************************)
EXTENDS Console, Vnc

VARIABLE
  refused  \* per goroutine: was the caller refused in the cache when the
           \* message at hand was read, and has it been ever since?

apiVars == <<kind, allowed, reviewed, changes, lists, entries, ask, cancelled,
             feed, faults, main, reader, relay, text, hand, out, told>>

vars == <<apiVars, refused>>

\* What the cache says of a caller.
Cached(c) == LET l == entries[KeyOf(c)] IN
             IF l = None THEN "unknown" ELSE lists[l].verdict

\* The goroutine has read a message and not yet passed it on.
Busy(c, who) == At(c, who) \in {"checking", "sending"}

TypeOK ==
  /\ CacheTypeOK /\ SessionTypeOK /\ ConsoleTypeOK
  /\ refused \in [Goroutines -> BOOLEAN]

Init ==
  /\ CacheInit /\ SessionInit /\ ConsoleInit
  /\ refused = [g \in Goroutines |-> FALSE]

SessionStep(c) == Begin(c) \/ Refuse(c) \/ SetPowerState(c) \/ Disconnect(c)

CacheStep ==
  \/ ChangeRoles
  \/ \E s \in Subjects : FollowRoles(s)
  \/ \E g \in Goroutines : LockList(g) \/ AskServer(g)
  \/ \E l \in Lists : Watcher(l) \/ WatcherResync(l)

Step ==
  \/ CacheStep /\ UNCHANGED <<sessionVars, consoleVars>>
  \/ \E c \in Callers : (SessionStep(c) \/ VncStep(c)) /\ UNCHANGED consoleVars
  \/ \E c \in Callers : ConsoleStep(c)

Remember ==
  refused' = [g \in Goroutines |->
                /\ Busy(g[1], g[2])' /\ Cached(g[1])' = "no"
                /\ refused[g] \/ ~Busy(g[1], g[2])]

Next == Step /\ Remember

(***************************************************************************)
(* Fairness.  Every goroutine that can go on does; the API server answers, *)
(* its authorizer and the informers are told of changes sooner or later;   *)
(* the console library sends what it is given.  A mutex that is free again *)
(* and again is handed to whoever waits for it (Go's mutexes starve        *)
(* nobody), and a select that finds a context done or an event there again *)
(* and again takes such a case at last.  Neither clients nor machines need *)
(* ever send or end anything.                                              *)
(***************************************************************************)
Goroutine(g) ==
  \/ LockList(g) \/ AskServer(g)
  \/ MessageAllowed(g[1], g[2]) \/ MessageRefused(g[1], g[2])
  \/ g[2] = "main" /\ (Refuse(g[1]) \/ SetPowerState(g[1]) \/ VncConnect(g[1]) \/ FindFeed(g[1]))

Fairness ==
  /\ \A s \in Subjects : WF_reviewed(FollowRoles(s))
  /\ \A l \in Lists : WF_lists(WatcherResync(l)) /\ WF_lists(Watcher(l))
  /\ \A g \in Goroutines : SF_ask(Goroutine(g))
  /\ \A c \in Callers : /\ WF_feed(Feed(c))
                        /\ SF_relay(WriterEnds(c) \/ PumpEnds(c) \/ PumpEvent(c))
                        /\ WF_out(PumpEmit(c)) /\ WF_out(LibrarySends(c))

Spec == Init /\ [][Next]_vars /\ Fairness
-----------------------------------------------------------------------------
(* Properties.                                                             *)

(***************************************************************************)
(* A list that is in the cache has a watcher that has not ended, which was *)
(* started for the same key: a verdict that is used again is one that      *)
(* somebody keeps up to date (allowList, watchSubjectAllowEntries).        *)
(***************************************************************************)
EveryEntryWatched ==
  \A k \in Keys : entries[k] # None =>
    Live(entries[k]) /\ KeyOf(lists[entries[k]].owner) = k

\* The last that a sequence of events says of the permission.
Latest(events, verdict) ==
  \E i \in DOMAIN events :
    /\ events[i] = verdict
    /\ \A j \in DOMAIN events : j > i => events[j] \notin {"yes", "no"}

\* What the client of a stream has been told, and is yet to be told.
News(c) == <<told[c]>> \o out[c] \o <<hand[c]>> \o lists[feed[c]].events

(***************************************************************************)
(* The last a console's client hears of its permission is what the list of *)
(* the stream says: startConsole has lost no change between the answer it  *)
(* began with and the events it passes on, and passes them on in order.    *)
(***************************************************************************)
ClientToldVerdict ==
  \A c \in Callers : InStream(c) =>
    LET l == lists[feed[c]] IN
    l.verdict = "unknown" \/ l.watcher = "sending" \/ Latest(News(c), l.verdict)

(***************************************************************************)
(* A VNC message that was read when the cache refused the subject, and is  *)
(* refused ever since, is not passed on, in neither direction, whichever   *)
(* list was asked and whoever removed it meanwhile (vnc, isAllowedVM).     *)
(***************************************************************************)
RefusedNotRelayed ==
  \A c \in Callers : \A who \in {"main", "reader"} :
    refused[<<c, who>>] => At(c, who) # "sending"

\* The pump of a console takes the events of its list.
EventsTaken(c) == kind[c] = "console" /\ relay[c] \in {"selecting", "emitting"}

\* The watcher holds the mutex for ever, waiting for room in a full channel.
Jammed(l) ==
  /\ l # None /\ lists[l] # None /\ lists[l].watcher = "sending"
  /\ Len(lists[l].events) = EventsCapacity /\ ~EventsTaken(lists[l].owner)

(***************************************************************************)
(* A cached verdict that is not what the roles say of the subject that     *)
(* created the list is corrected, or the list leaves the cache: also when  *)
(* the change came before the watcher noticed changes, or the review was   *)
(* made before the authorizer knew, or failed, or was made for another     *)
(* subject that asked first.  Only a watcher that waits for room for ever  *)
(* corrects nothing.                                                       *)
(***************************************************************************)
Stale(k) ==
  LET l == entries[k] IN
  l # None /\ lists[l].verdict \notin {"unknown", Verdict(allowed[SubjectOf[lists[l].owner]])}

VerdictFollows ==
  \A k \in Keys : Stale(k) ~> (~Stale(k) \/ Jammed(entries[k]))

(***************************************************************************)
(* Whoever asks the allow cache is answered, though watchers hold the      *)
(* mutex of a list while they wait for the API server, unless one that     *)
(* waits for room in the list's events holds it for ever: nobody takes     *)
(* events from the list that requests share.                               *)
(***************************************************************************)
AskingReturns ==
  \A g \in Goroutines : (ask[g] # Idle) ~> (ask[g] = Idle \/ Jammed(ask[g].list))

(***************************************************************************)
(* When a side of a session has returned, or its context is done, the      *)
(* goroutine that relays its messages ends.                                *)
(***************************************************************************)
SessionEnds ==
  \A c \in Callers :
    (/\ relay[c] # "none"
     /\ cancelled[c] \/ reader[c] = "returned" \/ (kind[c] = "vnc" /\ main[c] = "returned"))
      ~> (relay[c] \in {"ended", "failed"})
=============================================================================
