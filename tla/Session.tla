------------------------------ MODULE Session ------------------------------
(***************************************************************************)
(* What the requests of the API have in common: a goroutine of their own   *)
(* that asks the allow cache first, a context, and, for consoles and VNC,  *)
(* a goroutine that reads from the machine and one that relays messages    *)
(* between the machine and the client.  Power requests need no more.       *)
(***************************************************************************)
EXTENDS AllowCache

VARIABLES
  main,    \* the goroutine of the handler, or of startConsole
  reader,  \* the one that reads from the virtual machine
  relay    \* the one that waits in a select: the console's pump, VNC's writer

sessionVars == <<main, reader, relay>>

Running == {"reading", "checking", "sending"}

SessionTypeOK ==
  /\ main \in [Callers -> {"idle", "asking", "feeding", "connecting", "returned"} \cup Running]
  /\ reader \in [Callers -> {"none", "returned"} \cup Running]
  /\ relay \in [Callers -> {"none", "selecting", "emitting", "ended", "failed"}]

SessionInit == /\ main = [c \in Callers |-> "idle"]
               /\ reader = [c \in Callers |-> "none"]
               /\ relay = [c \in Callers |-> "none"]

RoleRest == UNCHANGED <<kind, roleVars, faults>>

\* The answer a goroutine has got, and that it goes on with.
Answered(g, phase) == ask[g].phase = phase /\ ask' = [ask EXCEPT ![g] = Idle]

Cancel(c) == cancelled' = [cancelled EXCEPT ![c] = TRUE]

\* A request arrives: nothing is done before the subject is known to be allowed.
Begin(c) ==
  /\ main[c] = "idle" /\ kind[c] # "none"
  /\ main' = [main EXCEPT ![c] = "asking"]
  /\ StartAsking(<<c, "main">>)
  /\ UNCHANGED <<cancelled, feed, reader, relay>> /\ RoleRest

\* Who is not allowed is told so.  The context of a request ends with its
\* handler; that of a stream is left to the console library.
Refuse(c) ==
  /\ main[c] = "asking" /\ Answered(<<c, "main">>, "no")
  /\ main' = [main EXCEPT ![c] = "returned"]
  /\ IF kind[c] = "console" THEN UNCHANGED cancelled ELSE Cancel(c)
  /\ UNCHANGED <<lists, entries, feed, reader, relay>> /\ RoleRest

\* setVirtualMachineState calls KubeVirt once and reports what it answers.
SetPowerState(c) ==
  /\ kind[c] = "power"
  /\ main[c] = "asking" /\ Answered(<<c, "main">>, "yes")
  /\ main' = [main EXCEPT ![c] = "returned"]
  /\ Cancel(c)
  /\ UNCHANGED <<lists, entries, feed, reader, relay>> /\ RoleRest

\* The client of a request goes away before it is answered or its connection is
\* taken over; the library cancels a stream whenever it likes.
Disconnect(c) ==
  /\ main[c] # "idle" /\ ~cancelled[c]
  /\ kind[c] = "console" \/ main[c] = "asking"
  /\ Cancel(c)
  /\ UNCHANGED <<cacheVars, feed, sessionVars>> /\ RoleRest
=============================================================================
