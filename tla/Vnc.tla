-------------------------------- MODULE Vnc --------------------------------
(***************************************************************************)
(* A VNC session: the handler reads what the client sends, a second        *)
(* goroutine what the virtual machine sends; each asks the allow cache for *)
(* every message and hands it, over a channel without a buffer, to a third *)
(* that writes to both sides.  A read that fails or a message that is not  *)
(* allowed cancels the context; a write that fails does not.               *)
(***************************************************************************)
EXTENDS Session

VncRest == UNCHANGED feed /\ RoleRest

InSession(c) == kind[c] = "vnc" /\ relay[c] # "none"

\* The two goroutines that read: where one is, and where it goes.
At(c, who) == IF who = "main" THEN main[c] ELSE reader[c]

Go(c, who, pc) ==
  IF who = "main" THEN main' = [main EXCEPT ![c] = pc] /\ UNCHANGED reader
                  ELSE reader' = [reader EXCEPT ![c] = pc] /\ UNCHANGED main

\* The connection of the client is taken over and one to the machine opened.
VncConnect(c) ==
  /\ kind[c] = "vnc"
  /\ main[c] = "asking" /\ Answered(<<c, "main">>, "yes")
  /\ main' = [main EXCEPT ![c] = "connecting"]
  /\ UNCHANGED <<lists, entries, cancelled, reader, relay>> /\ VncRest

VncConnectFails(c) ==
  /\ kind[c] = "vnc" /\ main[c] = "connecting"
  /\ main' = [main EXCEPT ![c] = "returned"]
  /\ Cancel(c)
  /\ UNCHANGED <<cacheVars, reader, relay>> /\ VncRest

\* No connection to the machine is opened in a context that is done.
VncConnected(c) ==
  /\ kind[c] = "vnc" /\ main[c] = "connecting" /\ ~cancelled[c]
  /\ main' = [main EXCEPT ![c] = "reading"]
  /\ reader' = [reader EXCEPT ![c] = "reading"]
  /\ relay' = [relay EXCEPT ![c] = "selecting"]
  /\ UNCHANGED <<cacheVars, cancelled>> /\ VncRest

\* Fault: the message is passed on without asking.
ReadUnchecked(c, who) ==
  /\ InSession(c) /\ At(c, who) = "reading"
  /\ Go(c, who, "sending")
  /\ UNCHANGED <<cacheVars, cancelled, relay>> /\ VncRest

\* A message arrives and is asked about.
ReadMessage(c, who) ==
  /\ InSession(c) /\ At(c, who) = "reading"
  /\ Go(c, who, "checking")
  /\ StartAsking(<<c, who>>)
  /\ UNCHANGED <<cancelled, relay>> /\ VncRest

ReadFails(c, who) ==
  /\ InSession(c) /\ At(c, who) = "reading"
  /\ Go(c, who, "returned")
  /\ Cancel(c)
  /\ UNCHANGED <<cacheVars, relay>> /\ VncRest

MessageAllowed(c, who) ==
  /\ InSession(c) /\ At(c, who) = "checking" /\ Answered(<<c, who>>, "yes")
  /\ Go(c, who, "sending")
  /\ UNCHANGED <<lists, entries, cancelled, relay>> /\ VncRest

\* Fault: the goroutine returns and leaves the context alone.
EndLeaving(c) == UNCHANGED cancelled

EndSession(c) == Cancel(c)

MessageRefused(c, who) ==
  /\ InSession(c) /\ At(c, who) = "checking" /\ Answered(<<c, who>>, "no")
  /\ Go(c, who, "returned")
  /\ EndSession(c)
  /\ UNCHANGED <<lists, entries, relay>> /\ VncRest

\* The writer takes a message and writes it, or fails to and returns.
HandOver(c, who) ==
  /\ InSession(c) /\ At(c, who) = "sending" /\ relay[c] = "selecting"
  /\ Go(c, who, "reading")
  /\ \/ UNCHANGED relay
     \/ relay' = [relay EXCEPT ![c] = "failed"]
  /\ UNCHANGED <<cacheVars, cancelled>> /\ VncRest

\* A goroutine that returned has closed its channel, from which the writer then
\* takes empty messages: that changes nothing as long as they can be written.
EmptyMessageFails(c) ==
  /\ InSession(c) /\ relay[c] = "selecting"
  /\ main[c] = "returned" \/ reader[c] = "returned"
  /\ relay' = [relay EXCEPT ![c] = "failed"]
  /\ UNCHANGED <<cacheVars, cancelled, main, reader>> /\ VncRest

\* The writer closes both connections.
WriterEnds(c) ==
  /\ InSession(c) /\ relay[c] = "selecting" /\ cancelled[c]
  /\ relay' = [relay EXCEPT ![c] = "ended"]
  /\ UNCHANGED <<cacheVars, cancelled, main, reader>> /\ VncRest

VncStep(c) ==
  \/ VncConnect(c) \/ VncConnectFails(c) \/ VncConnected(c)
  \/ EmptyMessageFails(c) \/ WriterEnds(c)
  \/ \E who \in {"main", "reader"} :
       \/ ReadMessage(c, who) \/ ReadFails(c, who)
       \/ MessageAllowed(c, who) \/ MessageRefused(c, who) \/ HandOver(c, who)
=============================================================================
