------------------------------ MODULE SbiFifo ------------------------------
(* The bounded queue of OpenSBI, lib/sbi/sbi_fifo.c: a ring of num_entries  *)
(* entries, of which `avail' from index `tail' on are in use.  Every        *)
(* function works under qlock, a ticket lock (SbiLock); between taking and  *)
(* releasing it, each access to the shared structure is a step of its own.  *)
EXTENDS SbiLock, Sequences

CONSTANTS
    Entry,          \* what callers queue
    Zero,           \* an entry of zero bytes
    NumEntries,     \* num_entries
    Fptr(_, _)      \* callback of an update: (in, entry) to verdict and new entry

ASSUME FifoAssumption ==
    /\ NumEntries \in Nat \ {0}
    /\ \A in, e \in Entry :
         /\ Fptr(in, e).verdict \in {"SKIP", "UPDATED", "UNCHANGED"}
         /\ Fptr(in, e).entry \in Entry
         /\ Fptr(in, e).verdict = "UNCHANGED" => Fptr(in, e).entry = e

VARIABLES
    queue, avail, tail,     \* struct sbi_fifo
    call,                   \* per hart: the call it is in, and its result
    step,                   \* per hart: where it is between lock and unlock
    reg                     \* per hart: an entry or an index kept in a register

fifo == <<queue, avail, tail>>
vars == <<lockVars, fifo, call, step, reg>>

Index == 0 .. NumEntries - 1

FifoTypeOK ==
    /\ LockTypeOK
    /\ queue \in [Index -> Entry \cup {Zero}]
    /\ avail \in 0 .. NumEntries
    /\ tail \in Index
    /\ step \in [Hart -> {"body", "count", "tail", "clear", "unlock"}]

(* a call that has no result yet, and one whose result is known *)
Pending(c) == [req |-> c, done |-> FALSE, ret |-> "none"]
Done(c, r) == [req |-> c, done |-> TRUE, ret |-> r]
Idle == Pending([op |-> "none"])

(* sbi_fifo_init *)
Init ==
    /\ LockInit
    /\ queue = [i \in Index |-> Zero]
    /\ avail = 0 /\ tail = 0
    /\ call = [h \in Hart |-> Idle]
    /\ step = [h \in Hart |-> "body"]
    /\ reg = [h \in Hart |-> 0]

\* Mutant of Wrap: index num_entries is not reduced
WrapLate(i) == IF i > NumEntries THEN i - NumEntries ELSE i

(* an index is at most twice num_entries, and is reduced by one subtraction *)
Wrap(i) == IF i >= NumEntries THEN i - NumEntries ELSE i

Calls == [op : {"enqueue", "inplace_update"}, arg : Entry]
           \cup [op : {"dequeue", "reset", "is_full", "is_empty", "avail"}]

(* a function is called, and starts with spin_lock *)
Start(h) ==
    /\ \E c \in Calls : call' = [call EXCEPT ![h] = Pending(c)]
    /\ spin_lock(h)
    /\ UNCHANGED <<fifo, step, reg>>

Locked(h) == Granted(h) /\ UNCHANGED <<fifo, call, step, reg>>

Holds(h, op, s) == at[h] = "in" /\ call[h].req.op = op /\ step[h] = s

Goto(h, s) == step' = [step EXCEPT ![h] = s] /\ UNCHANGED <<lockVars, call, reg>>

(* the result is known; what is left is to release the lock *)
Result(h, r, s) ==
    /\ call' = [call EXCEPT ![h] = Done(@.req, r)]
    /\ step' = [step EXCEPT ![h] = s]
    /\ UNCHANGED <<lockVars, reg>>

(* sbi_fifo_enqueue *)
EnqueueCopy(h) ==
    /\ Holds(h, "enqueue", "body")
    /\ \/ /\ avail = NumEntries
          /\ Result(h, "ENOSPC", "unlock")
          /\ UNCHANGED fifo
       \/ /\ avail # NumEntries
          /\ queue' = [queue EXCEPT ![Wrap(tail + avail)] = call[h].req.arg]
          /\ Goto(h, "count")
          /\ UNCHANGED <<avail, tail>>

EnqueueCount(h) ==
    /\ Holds(h, "enqueue", "count")
    /\ avail' = avail + 1
    /\ Result(h, "ok", "unlock")
    /\ UNCHANGED <<queue, tail>>

(* sbi_fifo_dequeue *)
DequeueCopy(h) ==
    /\ Holds(h, "dequeue", "body")
    /\ \/ /\ avail = 0
          /\ Result(h, "ENOENT", "unlock")
       \/ /\ avail # 0
          /\ reg' = [reg EXCEPT ![h] = queue[tail]]
          /\ step' = [step EXCEPT ![h] = "count"]
          /\ UNCHANGED <<lockVars, call>>
    /\ UNCHANGED fifo

DequeueCount(h) ==
    /\ Holds(h, "dequeue", "count")
    /\ avail' = avail - 1
    /\ Result(h, reg[h], "tail")
    /\ UNCHANGED <<queue, tail>>

DequeueTail(h) ==
    /\ Holds(h, "dequeue", "tail")
    /\ tail' = Wrap(tail + 1)
    /\ Goto(h, "unlock")
    /\ UNCHANGED <<queue, avail>>

\* Mutant of InplaceUpdate: the scan goes on after an entry took the request
InplaceUpdateAll(h) ==
    /\ Holds(h, "inplace_update", "body")
    /\ \/ avail = 0 /\ Result(h, "UNCHANGED", "unlock") /\ UNCHANGED queue
       \/ /\ avail # 0
          /\ LET index == Wrap(tail + reg[h])
                 r == Fptr(call[h].req.arg, queue[index])
             IN  /\ queue' = [queue EXCEPT ![index] = r.entry]
                 /\ IF reg[h] + 1 = avail
                    THEN Result(h, r.verdict, "unlock")
                    ELSE /\ reg' = [reg EXCEPT ![h] = @ + 1]
                         /\ UNCHANGED <<lockVars, call, step>>
    /\ UNCHANGED <<avail, tail>>

(* sbi_fifo_inplace_update: one round of its loop; reg is `i' *)
InplaceUpdate(h) ==
    /\ Holds(h, "inplace_update", "body")
    /\ \/ avail = 0 /\ Result(h, "UNCHANGED", "unlock") /\ UNCHANGED queue
       \/ /\ avail # 0
          /\ LET index == Wrap(tail + reg[h])
                 r == Fptr(call[h].req.arg, queue[index])
             IN  /\ queue' = [queue EXCEPT ![index] = r.entry]
                 /\ IF r.verdict # "UNCHANGED" \/ reg[h] + 1 = avail
                    THEN Result(h, r.verdict, "unlock")
                    ELSE /\ reg' = [reg EXCEPT ![h] = @ + 1]
                         /\ UNCHANGED <<lockVars, call, step>>
    /\ UNCHANGED <<avail, tail>>

(* sbi_fifo_reset *)
ResetAvail(h) ==
    /\ Holds(h, "reset", "body")
    /\ avail' = 0
    /\ Result(h, "ok", "clear")
    /\ UNCHANGED <<queue, tail>>

ResetClear(h) ==
    /\ Holds(h, "reset", "clear")
    /\ tail' = 0
    /\ queue' = [i \in Index |-> Zero]
    /\ Goto(h, "unlock")
    /\ UNCHANGED avail

(* sbi_fifo_is_full, sbi_fifo_is_empty, sbi_fifo_avail *)
Query(h) ==
    /\ \/ Holds(h, "is_full", "body")  /\ Result(h, avail = NumEntries, "unlock")
       \/ Holds(h, "is_empty", "body") /\ Result(h, avail = 0, "unlock")
       \/ Holds(h, "avail", "body")    /\ Result(h, avail, "unlock")
    /\ UNCHANGED fifo

(* every function ends with spin_unlock and returns *)
Unlock(h) ==
    /\ step[h] = "unlock"
    /\ spin_unlock(h)
    /\ call' = [call EXCEPT ![h] = Idle]
    /\ step' = [step EXCEPT ![h] = "body"]
    /\ reg' = [reg EXCEPT ![h] = 0]
    /\ UNCHANGED fifo

(* a hart inside a function *)
Run(h) ==
    \/ Locked(h) \/ EnqueueCopy(h) \/ EnqueueCount(h)
    \/ DequeueCopy(h) \/ DequeueCount(h) \/ DequeueTail(h)
    \/ InplaceUpdate(h) \/ ResetAvail(h) \/ ResetClear(h) \/ Query(h) \/ Unlock(h)

Next == \E h \in Hart : Start(h) \/ Run(h)

(* A hart inside a function keeps executing; OpenSBI has no scheduler that  *)
(* could take it off its core.                                              *)
Spec == Init /\ [][Next]_vars /\ \A h \in Hart : WF_vars(Run(h))

---------------------------------------------------------------------------
(* Refinement: an entry leaves the queue when `avail' is counted down; the  *)
(* tail follows one step later.                                             *)
first == IF \E h \in Hart : step[h] = "tail" THEN Wrap(tail + 1) ELSE tail

q == [i \in 1 .. avail |-> queue[Wrap(first + i - 1)]]

Queue == INSTANCE BoundedQueue WITH q <- q, call <- call

(* Each function of sbi_fifo.c takes effect at one instant between its call *)
(* and its return, on a queue that never holds more than num_entries        *)
(* entries and never loses, repeats or reorders one; and under a fair       *)
(* machine every call has a result.  This is what lets SbiTlb treat the     *)
(* queue as a sequence.                                                     *)
IsBoundedQueue == Queue!Spec
=============================================================================
