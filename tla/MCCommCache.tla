---------------------------- MODULE MCCommCache ----------------------------
(***************************************************************************)
(* Instances of CommCache for TLC: where the cores are, and the kernels.   *)
(***************************************************************************)
EXTENDS CommCacheInv

(* Cores 1 and 2 share cache 0, core 3 has cache 1. *)
TwoNodes == [k \in Core |-> IF k <= 2 THEN 0 ELSE 1]

Handles == Data \cup {ScratchOf(k) : k \in Core}

R(h)  == [handle |-> h, mode |-> "R"]
RW(h) == [handle |-> h, mode |-> "RW"]
W(h)  == [handle |-> h, mode |-> "W"]
S     == [handle |-> MYHANDLE, mode |-> "S"]

(* The Cholesky kernels: dpotrf updates one tile, dtrsm and dsyrk read one *)
(* and update another, dgemm reads two.                                    *)
Dpotrf(h)      == <<RW(h)>>
Dtrsm(g, h)    == <<R(g), RW(h)>>
Dgemm(f, g, h) == <<R(f), R(g), RW(h)>>

Pipeline == {<<R(1)>>, Dpotrf(2), Dtrsm(1, 2), Dtrsm(2, 3), Dtrsm(3, 1), Dgemm(1, 2, 3)}

(* Every task of one or two accesses. *)
Small == {<<R(h)>> : h \in Data} \cup {<<W(h)>> : h \in Data} \cup {Dpotrf(h) : h \in Data}
           \cup {Dtrsm(p[1], p[2]) : p \in {q \in Data \X Data : q[1] # q[2]}}

(* Tasks that share the first datum, or fill a cache of two. *)
Sharing == {<<W(1)>>, <<R(3)>>, Dtrsm(1, 2)}

(* QR kernels use a scratch buffer as well. *)
QR == {<<RW(h), S>> : h \in Data}

(* The nodes the data are allocated on. *)
Anywhere      == [h \in Data |-> Node]
NodeZero      == [h \in Data |-> {0}]
ThirdAnywhere == [h \in Data |-> IF h = 3 THEN Node ELSE {0}]

(* Queues of three tasks, and one that has no data. *)
NoQueue   == {}
SomeQueues == {<<<<>>>>}
   \cup {<<s, <<R(2), R(3)>>, t>> : s \in {<<R(1)>>, Dtrsm(1, 2)},
                                    t \in {Dgemm(1, 2, 3), <<RW(2), S, R(1)>>}}
=============================================================================
