----------------------------- MODULE LinkConfig -----------------------------
(***************************************************************************)
(* How the machine IP reconciler writes an address into the bootstrap data *)
(* of a machine: a sequence of YAML documents, of which the first          *)
(* LinkConfig of the external interface is given the address, or, if there *)
(* is none, a new one.                                                     *)
(*                                                                         *)
(* A document is what these functions look at: whether it can be read and  *)
(* has fields of the kinds they expect, the interface it is the LinkConfig *)
(* of (None if it is something else), its API version, whether it says     *)
(* that the link is up, and its addresses.  Empty documents are left out.  *)
(***************************************************************************)
EXTENDS IPv4Range, Sequences

CONSTANTS
  Interface,  \* the external interface
  Foreign     \* entries of an address list that are no IPv4 prefix, IPv6 ones among them

Prefix == [addr : IPv4, size : 1 .. Space]

Document == [readable : BOOLEAN, valid : BOOLEAN, link : {None, Interface, "other"},
             current : BOOLEAN, up : {"unset", "true", "false"},
             addresses : SUBSET (Prefix \cup Foreign)]

ASSUME LinkConfigAssumption ==
  /\ Interface \notin {None, "other"}
  /\ Foreign \cap Prefix = {}
  /\ None \notin Seq(Document)

\* Fault: whatever its length.
ReplacedAnyLength(e, p) ==
  /\ e \notin Foreign /\ e # p
  /\ e.addr \div p.size = p.addr \div p.size

\* What is replaced: another address of the prefix's subnet, with its length.
Replaced(e, p) ==
  /\ e \notin Foreign /\ e # p
  /\ e.size = p.size /\ e.addr \div e.size = p.addr \div p.size

\* Fault: the new prefix replaces whatever it finds.
WithAddressOnly(entries, p) == {p}

WithAddress(entries, p) == {e \in entries : ~Replaced(e, p)} \cup {p}

\* Fault: a link that does not say so is left as it is.
UpUnset(up) == up

Up(up) == IF up = "unset" THEN "true" ELSE up

SetLinkConfigAddress(d, p) ==
  [d EXCEPT !.link = Interface, !.current = TRUE, !.up = Up(d.up),
            !.addresses = WithAddress(d.addresses, p)]

Changed(d, p) ==
  \/ p \notin d.addresses \/ \E e \in d.addresses : Replaced(e, p)
  \/ d.up = "unset" \/ ~d.current \/ d.link # Interface

NewDocument == [readable |-> TRUE, valid |-> TRUE, link |-> None,
                current |-> FALSE, up |-> "unset", addresses |-> {}]

\* The LinkConfigs of the interface; only the first is looked at.
Links(docs) == {i \in DOMAIN docs : docs[i].link = Interface}

FirstLink(docs) == CHOOSE i \in Links(docs) : \A j \in Links(docs) : i <= j

\* Data that does not parse, or a LinkConfig whose fields are of another kind: a
\* number in its list of addresses is one, at which the copy of the list panics.
UpsertFails(docs) ==
  \/ \E i \in DOMAIN docs : ~docs[i].readable
  \/ Links(docs) # {} /\ ~docs[FirstLink(docs)].valid

UpsertKeeps(docs, p) == Links(docs) # {} /\ ~Changed(docs[FirstLink(docs)], p)

UpsertLinkConfig(docs, p) ==
  IF Links(docs) = {}
  THEN Append(docs, SetLinkConfigAddress(NewDocument, p))
  ELSE [docs EXCEPT ![FirstLink(docs)] = SetLinkConfigAddress(@, p)]
=============================================================================
