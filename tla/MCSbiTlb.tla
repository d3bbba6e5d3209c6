------------------------------ MODULE MCSbiTlb ------------------------------
(* Instances of SbiTlb for TLC: an address space of four pages of two       *)
(* units.                                                                   *)
EXTENDS SbiTlb

R(f, st, sz, a) == [fn |-> f, start |-> st, size |-> sz, asid |-> a]

HartZero == {{0}}
ZeroOne == {{0, 1}}
ZeroAndOne == {{0}, {1}}

(* requests that never merge: queues fill up *)
Distinct == {R("fence_i", 0, 0, 0)}

(* a page and a range over the limit, which merge in both ways *)
Overlapping == {R("sfence_vma_asid", 2, 2, 1), R("sfence_vma_asid", 4, 4, 1)}

(* a page at the bottom, and everything *)
Bottom == {R("sfence_vma", 0, 2, 0), R("sfence_vma", 0, 0, 0)}

(* The queues of harts 0 and 1 are full: harts 2 and 3 have each sent them  *)
(* a fence and wait.  The state is one that Init leads to, by six steps of   *)
(* each of the two; beginning there, the run can afford four harts.         *)
FullInit ==
    LET f == R("fence_i", 0, 0, 0)
    IN  /\ state = [h \in Hart |-> "STARTED"]
        /\ pc = [h \in Hart |-> IF h < 2 THEN "run" ELSE "sync"]
        /\ fifo = [h \in Hart |-> IF h < 2 THEN <<TlbInfo(f, h + 2)>> ELSE << >>]
        /\ sync = [h \in Hart |-> 0]
        /\ ipi_type = [h \in Hart |-> IF h < 2 THEN {"tlb"} ELSE {}]
        /\ msip = [h \in Hart |-> h < 2] /\ ssip = [h \in Hart |-> FALSE]
        /\ op = [h \in Hart |-> "tlb"] /\ req = [h \in Hart |-> NoReq]
        /\ scan = [h \in Hart |-> {}]
        /\ todo = [h \in Hart |-> IF h < 2 THEN {} ELSE {h - 2}]
        /\ bits = [h \in Hart |-> {}] /\ acks = [h \in Hart |-> {}]
        /\ cnt = [h \in Hart |-> 0] /\ ret = [h \in Hart |-> "ev"]
        /\ calls = [h \in Hart |-> IF h < 2 THEN 0 ELSE 1] /\ stops = 0
        /\ due = [s \in Hart |-> [t \in Hart |->
                     IF s = t + 2 THEN Flushed(f) ELSE {}]]
        /\ gone = [s \in Hart |-> {}] /\ spoilt = [s \in Hart |-> {}]

FullSpec == FullInit /\ [][Next]_vars /\ Fairness
=============================================================================
