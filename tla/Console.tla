------------------------------ MODULE Console ------------------------------
(***************************************************************************)
(* A console stream: startConsole asks the allow cache, connects to the    *)
(* serial console, and leaves two goroutines, one that reads the console   *)
(* into a channel, and a pump that passes input, output and the events of  *)
(* the stream's allow list on.  What the pump emits goes into the channel  *)
(* of events of the connection, from which the console library sends to    *)
(* the client.                                                             *)
(***************************************************************************)
EXTENDS Session

CONSTANTS
  TextCapacity,   \* of the channel of output: 1024
  ServerCapacity  \* of the connection's channel of events: 1024

\* Output, or what became of the permission.
Event == {"output", "yes", "no"}

ASSUME ConsoleAssumption ==
  {TextCapacity, ServerCapacity} \subseteq Nat /\ None \notin Event

VARIABLES
  text,  \* how many pieces of output wait for the pump
  hand,  \* per stream, what the pump is about to emit
  out,   \* per stream, what waits for the library
  told   \* per stream, what the client last heard of its permission

consoleVars == <<text, hand, out, told>>

ConsoleTypeOK ==
  /\ text \in [Callers -> 0 .. TextCapacity]
  /\ hand \in [Callers -> {None} \cup Event]
  /\ out \in [Callers -> Seq(Event)]
  /\ told \in [Callers -> {None, "yes", "no"}]
  /\ \A c \in Callers : /\ Len(out[c]) <= ServerCapacity
                        /\ (relay[c] = "emitting") = (hand[c] # None)

ConsoleInit ==
  /\ text = [c \in Callers |-> 0]
  /\ hand = [c \in Callers |-> None]
  /\ out = [c \in Callers |-> <<>>]
  /\ told = [c \in Callers |-> None]

InStream(c) == kind[c] = "console" /\ relay[c] # "none"

\* startConsole looks the list up once more, for its events.
FindFeed(c) ==
  /\ kind[c] = "console"
  /\ main[c] = "asking" /\ Answered(<<c, "main">>, "yes")
  /\ main' = [main EXCEPT ![c] = "feeding"]
  /\ UNCHANGED <<lists, entries, cancelled, feed, reader, relay, consoleVars>> /\ RoleRest

Feed(c) ==
  /\ main[c] = "feeding"
  /\ main' = [main EXCEPT ![c] = "connecting"]
  /\ \E l \in Lists : AllowList(c, l) /\ feed' = [feed EXCEPT ![c] = l]
  /\ UNCHANGED <<ask, cancelled, reader, relay, consoleVars>> /\ RoleRest

ConsoleConnectFails(c) ==
  /\ kind[c] = "console" /\ main[c] = "connecting"
  /\ main' = [main EXCEPT ![c] = "returned"]
  /\ UNCHANGED <<cacheVars, cancelled, feed, reader, relay, consoleVars>> /\ RoleRest

ConsoleConnected(c) ==
  /\ kind[c] = "console" /\ main[c] = "connecting" /\ ~cancelled[c]
  /\ main' = [main EXCEPT ![c] = "returned"]
  /\ reader' = [reader EXCEPT ![c] = "reading"]
  /\ relay' = [relay EXCEPT ![c] = "selecting"]
  /\ told' = [told EXCEPT ![c] = "yes"]
  /\ UNCHANGED <<cacheVars, cancelled, feed, text, hand, out>> /\ RoleRest

PumpRest == UNCHANGED <<entries, ask, cancelled, feed, main, told>> /\ RoleRest

ReadOutput(c) ==
  /\ InStream(c) /\ reader[c] = "reading" /\ text[c] < TextCapacity
  /\ text' = [text EXCEPT ![c] = @ + 1]
  /\ UNCHANGED <<lists, reader, relay, hand, out>> /\ PumpRest

\* The console is gone: the stream is closed and the context cancelled.
ReadOutputFails(c) ==
  /\ InStream(c) /\ reader[c] = "reading"
  /\ reader' = [reader EXCEPT ![c] = "returned"]
  /\ Cancel(c)
  /\ UNCHANGED <<cacheVars, feed, main, relay, consoleVars>> /\ RoleRest

\* A write of the client's input that fails ends the pump, and nothing else.
WriteInputFails(c) ==
  /\ InStream(c) /\ relay[c] = "selecting"
  /\ relay' = [relay EXCEPT ![c] = "failed"]
  /\ UNCHANGED <<lists, reader, text, hand, out>> /\ PumpRest

Take(c, event) == /\ relay' = [relay EXCEPT ![c] = "emitting"]
                  /\ hand' = [hand EXCEPT ![c] = event]

\* Output is received also from the channel that the reader has closed.
PumpOutput(c) ==
  /\ InStream(c) /\ relay[c] = "selecting"
  /\ text[c] > 0 \/ reader[c] = "returned"
  /\ Take(c, "output")
  /\ text' = [text EXCEPT ![c] = IF @ > 0 THEN @ - 1 ELSE 0]
  /\ UNCHANGED <<lists, reader, out>> /\ PumpRest

PumpEvent(c) ==
  LET l == feed[c] IN
  /\ InStream(c) /\ relay[c] = "selecting" /\ lists[l].events # <<>>
  /\ Take(c, Head(lists[l].events))
  /\ lists' = [lists EXCEPT ![l].events = Tail(@)]
  /\ UNCHANGED <<reader, text, out>> /\ PumpRest

PumpEmit(c) ==
  /\ InStream(c) /\ relay[c] = "emitting" /\ Len(out[c]) < ServerCapacity
  /\ out' = [out EXCEPT ![c] = Append(@, hand[c])]
  /\ relay' = [relay EXCEPT ![c] = "selecting"]
  /\ hand' = [hand EXCEPT ![c] = None]
  /\ UNCHANGED <<lists, reader, text>> /\ PumpRest

\* Fault: the pump does not wait for its context.
PumpDoneNever(c) == FALSE

PumpDone(c) == cancelled[c]

PumpEnds(c) ==
  /\ InStream(c) /\ relay[c] = "selecting" /\ PumpDone(c)
  /\ relay' = [relay EXCEPT ![c] = "ended"]
  /\ UNCHANGED <<lists, reader, text, hand, out>> /\ PumpRest

\* The console library sends the next event to the client.
LibrarySends(c) ==
  /\ out[c] # <<>>
  /\ out' = [out EXCEPT ![c] = Tail(@)]
  /\ told' = [told EXCEPT ![c] = IF Head(out[c]) = "output" THEN @ ELSE Head(out[c])]
  /\ UNCHANGED <<cacheVars, cancelled, feed, sessionVars, text, hand>> /\ RoleRest

ConsoleStep(c) ==
  \/ FindFeed(c) \/ Feed(c) \/ ConsoleConnectFails(c) \/ ConsoleConnected(c)
  \/ ReadOutput(c) \/ ReadOutputFails(c) \/ WriteInputFails(c)
  \/ PumpOutput(c) \/ PumpEvent(c) \/ PumpEmit(c) \/ PumpEnds(c) \/ LibrarySends(c)
=============================================================================
