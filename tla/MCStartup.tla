------------------------------ MODULE MCStartup ------------------------------
(***************************************************************************)
(* Instances of Startup for TLC.                                           *)
(***************************************************************************)
EXTENDS Startup

CONSTANTS MaxSize, MaxCaches

Num(o, n)  == [opt |-> o, num |-> n, word |-> ""]
Str(o, w)  == [opt |-> o, num |-> 0, word |-> w]
Args(b, t, a) == <<Num("m", 8), Num("b", b), Num("t", t), Str("o", "commcache"), Str("a", a)>>

Hosts(kind, first, n) == [k \in 1 .. n |-> [kind |-> kind, number |-> first + k - 1]]

(* Zone z of a machine of equal zones. *)
Zone(z, cores, imcs, rams, props) ==
  [nested |-> FALSE, props |-> props,
   hosts |-> Hosts("CPU", (z - 1) * cores, cores) \o Hosts("RAM", (z - 1) * rams, rams)
               \o Hosts("IMC", (z - 1) * imcs, imcs)]
Props(n, size) == <<n, size, 0, 0>>
Machine(zones, cores, imcs, rams, n, size) ==
  <<[z \in 1 .. zones |-> Zone(z, cores, imcs, rams, Props(n, size))]>>

Run(doc, args) == [unset |-> {}, TRACETIME |-> 1, ARCH |-> "", tables |-> FALSE,
                   doc |-> doc, args |-> args]

(* One zone with a memory controller per cache: every number of cores,     *)
(* caches and threads.                                                     *)
Affine == {Run(Machine(1, s, n, n, n, 100), Args(1, t, a)) :
             s \in 1 .. MaxSize, n \in 1 .. MaxCaches, t \in 1 .. MaxSize, a \in Affinities}

(* Several zones, with enough memory hosts for their caches or not, the    *)
(* cores in order or not.                                                  *)
Reversed(doc) == <<[z \in DOMAIN doc[1] |-> [doc[1][z] EXCEPT !.hosts = Reverse(@)]]>>
Zoned == {Run(Machine(z, c, m, r, n, 100), Args(1, t, a)) :
            z \in 1 .. 3, c \in 1 .. 4, m \in 0 .. 2, r \in 0 .. 2, n \in 0 .. 4, t \in {4},
            a \in Affinities}
         \cup {Run(Reversed(Machine(2, 3, 1, 1, 2, 100)), Args(1, t, a)) :
            t \in 1 .. 6, a \in Affinities}

(* Files that lack something. *)
Numa(nested, props, hosts) == [nested |-> nested, props |-> props, hosts |-> hosts]
Files == {Run(d, Args(1, 1, "close")) : d \in
  {<<>>, <<<<>>>>, <<<<>>, <<Zone(1, 1, 1, 1, Props(1, 100))>>>>,
   <<<<Zone(1, 1, 1, 1, Props(1, 100)), Numa(TRUE, <<>>, <<>>)>>>>,
   <<<<Zone(1, 1, 1, 1, Props(1, 100)), Numa(TRUE, <<>>, Hosts("other", 0, 1))>>>>,
   <<<<Numa(TRUE, <<>>, <<>>)>>>>, <<<<Numa(FALSE, Props(1, 100), Hosts("other", 0, 1))>>>>}
  \cup {<<<<Zone(1, 1, 1, 1, SubSeq(Props(1, 100), 1, k))>>>> : k \in 0 .. 4}}

(* Command lines with an option missing, repeated, or out of range, and    *)
(* tiles of any size.                                                      *)
Valid == Args(1, 2, "spread")
TwoZones == Machine(2, 2, 1, 1, 2, 100)
Lines == {Run(TwoZones, RemoveAt(Valid, k)) : k \in 1 .. 5}
  \cup {Run(TwoZones, Append(Valid, x)) : x \in
    {Str("h", ""), Str("?", ""), Str("o", "other"), Str("o", "task"), Str("a", "other"), Str("a", "close")}
      \cup {Num("t", n) : n \in -2 .. 6}}
  \cup {Run(TwoZones, Cons(Num("t", 9), Valid))}
  \cup {Run(Machine(2, 2, 1, 1, 2, size), Args(b, 1, "close")) : b \in -4 .. 40, size \in {40, 100}}

(* Environments, with tables and without. *)
Environments ==
  {[Run(TwoZones, Valid) EXCEPT !.unset = u, !.TRACETIME = tt, !.ARCH = ar, !.tables = tb] :
     u \in {{}} \cup {{v} : v \in Required \cup ForTables}, tt \in 0 .. 2,
     ar \in {"amdpowersave", "none"}, tb \in BOOLEAN}

AllInputs == Affine \cup Zoned \cup Files \cup Lines \cup Environments
=============================================================================
