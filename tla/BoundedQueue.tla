---------------------------- MODULE BoundedQueue ----------------------------
(* What sbi_fifo.c promises its callers: a bounded queue on which every     *)
(* call takes effect at one instant between its start and its return.       *)
EXTENDS Integers, Sequences

CONSTANTS
    Hart,           \* callers
    Entry,          \* the things that are queued
    NumEntries,     \* capacity
    Fptr(_, _)      \* the callback of an in-place update

VARIABLES
    q,      \* the queue, oldest entry first
    call    \* per hart: its call and, once it took effect, its result

Pending(o) == [req |-> o, done |-> FALSE, ret |-> "none"]
Done(o, r) == [req |-> o, done |-> TRUE, ret |-> r]
Idle == Pending([op |-> "none"])

Init == q = << >> /\ call = [h \in Hart |-> Idle]

Ops == [op : {"enqueue", "inplace_update"}, arg : Entry]
         \cup [op : {"dequeue", "reset", "is_full", "is_empty", "avail"}]

Invoke(h) ==
    /\ call[h] = Idle
    /\ \E o \in Ops : call' = [call EXCEPT ![h] = Pending(o)]
    /\ UNCHANGED q

(* h's call takes effect: the queue becomes nq, the call yields r *)
Effect(h, nq, r) == q' = nq /\ call' = [call EXCEPT ![h] = Done(@.req, r)]

Enqueue(h) ==
    IF Len(q) = NumEntries THEN Effect(h, q, "ENOSPC")
    ELSE Effect(h, Append(q, call[h].req.arg), "ok")

Dequeue(h) ==
    IF q = << >> THEN Effect(h, q, "ENOENT")
    ELSE Effect(h, Tail(q), Head(q))

(* The callback is offered the entries from the oldest on, until one takes  *)
(* the request in.                                                          *)
Takes(h, i) == Fptr(call[h].req.arg, q[i]).verdict # "UNCHANGED"

InplaceUpdate(h) ==
    \/ /\ \A i \in DOMAIN q : ~Takes(h, i)
       /\ Effect(h, q, "UNCHANGED")
    \/ \E i \in DOMAIN q :
         /\ Takes(h, i)
         /\ \A j \in 1 .. i - 1 : ~Takes(h, j)
         /\ LET r == Fptr(call[h].req.arg, q[i])
            IN  Effect(h, [q EXCEPT ![i] = r.entry], r.verdict)

Apply(h) ==
    /\ call[h].req.op # "none" /\ ~call[h].done
    /\ LET op == call[h].req.op IN
       \/ op = "enqueue"  /\ Enqueue(h)
       \/ op = "dequeue"  /\ Dequeue(h)
       \/ op = "inplace_update" /\ InplaceUpdate(h)
       \/ op = "reset"    /\ Effect(h, << >>, "ok")
       \/ op = "is_full"  /\ Effect(h, q, Len(q) = NumEntries)
       \/ op = "is_empty" /\ Effect(h, q, q = << >>)
       \/ op = "avail"    /\ Effect(h, q, Len(q))

Return(h) == call[h].done /\ call' = [call EXCEPT ![h] = Idle] /\ UNCHANGED q

Next == \E h \in Hart : Invoke(h) \/ Apply(h) \/ Return(h)

Behaviour == Init /\ [][Next]_<<q, call>>

(* ... and every call takes effect and returns *)
Spec == Behaviour /\ \A h \in Hart : WF_<<q, call>>(Apply(h) \/ Return(h))
=============================================================================
