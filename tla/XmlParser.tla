------------------------------ MODULE XmlParser ------------------------------
(***************************************************************************)
(* xmlParser() of xml_parser.hpp: what it takes from a platform file.      *)
(*                                                                         *)
(* A file is a sequence of sockets, a socket a sequence of NUMA zones. The *)
(* hosts of a zone are known by their first letter: CPU, IMC (L3) and RAM. *)
(* The properties of a zone go by their position, not by their name.       *)
(***************************************************************************)
EXTENDS Integers, SequencesExt

HostType == [kind : {"CPU", "IMC", "RAM", "other"}, number : Nat]
NumaType == [nested : BOOLEAN, props : Seq(Nat), hosts : Seq(HostType)]

(* Only the first socket is read, and of that nothing if its first zone has *)
(* zones itself.                                                            *)
Numas(doc) == doc[1]
Skipped(doc) == Numas(doc)[1].nested

(* Socket, NUMA zone, cache properties, alpha, beta or host not found. *)
Refused(doc) ==
  \/ doc = <<>>
  \/ doc # <<>> /\ Numas(doc) = <<>>
  \/ doc # <<>> /\ Numas(doc) # <<>> /\ ~Skipped(doc)
       /\ \/ Len(Numas(doc)[1].props) < 4
          \/ \E z \in ToSet(Numas(doc)) : z.hosts = <<>>

NCache(doc)    == IF Skipped(doc) THEN 0 ELSE Numas(doc)[1].props[1]
CacheSize(doc) == IF Skipped(doc) THEN 0 ELSE Numas(doc)[1].props[2]

(* The hosts of a kind, in the order of the file. *)
OfZone(zone, kind) ==
  FlattenSeq([n \in DOMAIN zone.hosts |->
    IF zone.hosts[n].kind = kind THEN <<zone.hosts[n].number>> ELSE <<>>])

HostsOf(doc, kind) ==
  IF Skipped(doc) THEN <<>>
  ELSE FlattenSeq([z \in DOMAIN Numas(doc) |-> OfZone(Numas(doc)[z], kind)])
=============================================================================
