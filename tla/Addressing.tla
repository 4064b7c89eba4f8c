----------------------------- MODULE Addressing -----------------------------
(***************************************************************************)
(* From a subnet to a machine's bootstrap data: the address allocated is   *)
(* written into the data that the bootstrap provider has published, and    *)
(* the reconciliation runs again.                                          *)
(***************************************************************************)
EXTENDS IPv4Allocation, LinkConfig

VARIABLES
  docs,   \* the bootstrap data, None until it is published
  given,  \* the data as it was published
  writes  \* how often the reconciler has written it

dataVars == <<docs, given, writes>>

addressingVars == <<vars, dataVars>>

\* The prefix the reconciler writes, and others that may be there before.
Desired == [addr |-> result, size |-> input.subnet.size]
Beside  == [addr |-> input.subnet.network, size |-> input.subnet.size]
Longer  == [addr |-> result, size |-> 1]

Link(name, up, entries) == [NewDocument EXCEPT !.link = name, !.up = up, !.current = TRUE,
                                               !.addresses = entries]

\* What a bootstrap provider publishes: its machine configuration, and what
\* users' patches add to it.
Published ==
  LET config  == NewDocument
      own(es) == Link(Interface, "false", es)
  IN  { <<config>>,
        <<[config EXCEPT !.readable = FALSE]>>,
        <<config, Link("other", "unset", {Beside})>>,
        <<[own({}) EXCEPT !.valid = FALSE], own({})>>,
        <<[own({Desired}) EXCEPT !.current = FALSE], config>>,
        <<Link("other", "true", {}), Link(Interface, "unset", {Desired} \cup Foreign)>>,
        <<own({Beside, Longer} \cup Foreign), own({Beside})>> }

AddressingInit == Init /\ docs = None /\ given = None /\ writes = 0

PublishData ==
  /\ pc = "done" /\ result # None /\ docs = None
  /\ given' \in Published
  /\ docs' = given'
  /\ UNCHANGED <<vars, writes>>

WriteData ==
  /\ docs # None /\ ~UpsertFails(docs) /\ ~UpsertKeeps(docs, Desired)
  /\ docs' = UpsertLinkConfig(docs, Desired)
  /\ writes' = writes + 1
  /\ UNCHANGED <<vars, given>>

AddressingNext == (Next /\ UNCHANGED dataVars) \/ PublishData \/ WriteData

AddressingSpec ==
  AddressingInit /\ [][AddressingNext]_addressingVars /\ WF_addressingVars(AddressingNext)
-----------------------------------------------------------------------------
\* The prefixes the machine will have on the interface.
Prefixes(ds) == IF Links(ds) = {} THEN {} ELSE ds[FirstLink(ds)].addresses \ Foreign

(***************************************************************************)
(* Bootstrap data is written once for an address: a second reconciliation  *)
(* finds nothing to change, or else a machine that has joined, which every *)
(* change of its data replaces, would be replaced for ever.                *)
(***************************************************************************)
WrittenOnce == writes <= 1

(***************************************************************************)
(* Seen from the machine, what is written is what the reconciler's model   *)
(* (MachineIP) says: the address takes the place of the others of its      *)
(* subnet, all other prefixes stay.                                        *)
(***************************************************************************)
DataIsUpsert == writes > 0 => Prefixes(docs) = Upsert(Prefixes(given), Desired)

(***************************************************************************)
(* Nothing else is touched: every other document stays in its place, other *)
(* LinkConfigs of the interface too; entries that are no prefix and a link *)
(* that is told to stay down are kept.                                     *)
(***************************************************************************)
RestKept ==
  writes > 0 =>
    \A i \in DOMAIN given :
      \/ docs[i] = given[i]
      \/ /\ i = FirstLink(given)
         /\ docs[i].link = Interface
         /\ given[i].addresses \cap Foreign \subseteq docs[i].addresses
         /\ given[i].up = "unset" \/ docs[i].up = given[i].up
=============================================================================
