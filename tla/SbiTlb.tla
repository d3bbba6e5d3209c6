------------------------------- MODULE SbiTlb -------------------------------
(* Inter-processor interrupts and remote fences of OpenSBI: sbi_ipi.c and   *)
(* sbi_tlb.c, with the parts of sbi_hsm.c and sbi_init.c that take a hart   *)
(* away and bring it back.  Every access to memory that harts share is a    *)
(* step; a queue operation is one step, which SbiFifo justifies.  OpenSBI   *)
(* runs with interrupts off, so an IPI is taken in "run" (S-mode) only.     *)
EXTENDS Integers, Sequences, FiniteSets

CONSTANTS
    Hart,           \* hart ids
    NumEntries,     \* SBI_TLB_FIFO_NUM_ENTRIES
    PageSize,       \* PAGE_SIZE, also tlb_range_flush_limit
    ULong,          \* 2^64
    Asid,           \* address space ids
    Requests,       \* fences S-mode asks for: [fn, start, size, asid]
    Masks,          \* hart masks S-mode passes
    Events,         \* other events that are sent: subset of {"smode", "halt"}
    MaxCalls,       \* bound: SBI calls per hart
    MaxStops        \* bound: calls that stop a hart, in all

FLUSH_ALL == ULong - 1

Fns == {"sfence_vma", "sfence_vma_asid", "fence_i"}

ASSUME TlbAssumption ==
    /\ Hart \subseteq Nat /\ IsFiniteSet(Hart)
    /\ NumEntries \in Nat \ {0}
    /\ 0 \in Asid
    /\ PageSize \in Nat \ {0} /\ ULong \in Nat \ {0} /\ ULong % PageSize = 0
    /\ Requests \subseteq [fn : Fns, start : 0 .. ULong - 1, size : 0 .. ULong - 1, asid : Asid]
    /\ Masks \subseteq SUBSET Hart
    /\ Events \subseteq {"smode", "halt"}
    /\ MaxCalls \in Nat /\ MaxStops \in Nat

VARIABLES
    state,      \* hart state of sbi_hsm.c
    pc,         \* where a hart is
    fifo,       \* its queue of fences
    sync,       \* its tlb_sync word
    ipi_type,   \* the event bits of its sbi_ipi_data
    msip, ssip, \* machine and supervisor software interrupt pending
    op,         \* the event it is sending, or "start"
    req,        \* tinfo of the fence it is sending
    scan,       \* harts whose state it still has to read for the hart mask
    todo,       \* harts it still has to send to: m of sbi_ipi_send_many
    bits,       \* events it took and still has to process
    acks,       \* harts it still has to acknowledge: smask of its tinfo
    cnt, ret,   \* deq_count, and what the emptying of the queue returns to
    calls, stops,   \* calls made and stops made, for the bounds
    due,        \* history: due[s][t], what s's fence requires and t has not flushed
    gone,       \* history: harts that stopped since s read their state
    spoilt      \* history: harts where the fence of s went into a merge of
                \* ranges that are not regular

shared == <<fifo, sync, ipi_type, msip, ssip>>
sender == <<op, req, scan, todo>>
local  == <<bits, acks, cnt, ret>>
hist   == <<due, gone, spoilt>>
bound  == <<calls, stops>>
vars   == <<state, pc, shared, sender, local, hist, bound>>

---------------------------------------------------------------------------
(* What is flushed: translations (page and asid) and the instruction cache. *)
Page == 0 .. (ULong \div PageSize) - 1
Icache == <<-1, 0>>
Items == (Page \X Asid) \cup {Icache}

(* the pages a local function visits: start, start + PAGE_SIZE, ... below   *)
(* start + size, with the addition wrapping in an unsigned long             *)
PagesOf(e) ==
    {((e.start + i * PageSize) % ULong) \div PageSize :
        i \in {j \in Page : j * PageSize < e.size}}

(* sbi_tlb_local_sfence_vma, _sfence_vma_asid and _fence_i *)
Flushed(e) ==
    CASE e.fn = "fence_i" -> {Icache}
      [] e.fn # "fence_i" /\ e.start = 0 /\ e.size = 0 -> Page \X Asid
      [] e.fn = "sfence_vma" /\ ~(e.start = 0 /\ e.size = 0) ->
            (IF e.size = FLUSH_ALL THEN Page ELSE PagesOf(e)) \X Asid
      [] e.fn = "sfence_vma_asid" /\ ~(e.start = 0 /\ e.size = 0) ->
            (IF e.size = FLUSH_ALL THEN Page ELSE PagesOf(e)) \X {e.asid}

\* Mutant of Limited: what is over the limit is cut off
LimitedCut(r) == IF r.size > PageSize THEN [r EXCEPT !.size = PageSize] ELSE r

(* sbi_tlb_update: a range of more than tlb_range_flush_limit *)
Limited(r) ==
    IF r.size > PageSize
    THEN [fn |-> r.fn, start |-> 0, size |-> FLUSH_ALL, asid |-> r.asid] ELSE r

\* Mutant of TlbInfo: SBI_HARTMASK_INIT_EXCEPT read as all but the source
TlbInfoOthers(r, h) ==
    [fn |-> r.fn, start |-> r.start, size |-> r.size, asid |-> r.asid, smask |-> Hart \ {h}]

(* SBI_TLB_INFO_INIT: the source hart is the only one in smask *)
TlbInfo(r, h) ==
    [fn |-> r.fn, start |-> r.start, size |-> r.size, asid |-> r.asid, smask |-> {h}]

End(e) == (e.start + e.size) % ULong

(* __sbi_tlb_range_check: next replaces curr, or lies within it *)
Widens(next, curr) == next.start <= curr.start /\ End(next) > End(curr)
Within(next, curr) == next.start >= curr.start /\ End(next) <= End(curr)

(* sbi_tlb_update_cb: which entries are compared at all *)
SameKind(next, curr) ==
    /\ next.fn = curr.fn /\ next.fn # "fence_i"
    /\ next.fn = "sfence_vma_asid" => next.asid = curr.asid

Merges(next, curr) == SameKind(next, curr) /\ (Widens(next, curr) \/ Within(next, curr))

\* Mutant of Merged: the range that is widened stays as it is
MergedKeepsRange(next, curr) == [curr EXCEPT !.smask = @ \cup next.smask]

(* the entry after its update: the wider range, and both sources *)
Merged(next, curr) ==
    LET range == IF Widens(next, curr) THEN next ELSE curr
    IN  [fn |-> curr.fn, start |-> range.start, size |-> range.size,
         asid |-> curr.asid, smask |-> curr.smask \cup next.smask]

(* Ranges that begin with a page, end below the top of the address space    *)
(* and are not the (0, 0) that stands for everything.                       *)
Regular(e) ==
    \/ e.fn = "fence_i"
    \/ /\ e.start % PageSize = 0 /\ e.start + e.size < ULong
       /\ ~(e.start = 0 /\ e.size = 0)

(* the for loops over a hart mask go from the lowest hart upwards *)
Lowest(S) == CHOOSE h \in S : \A g \in S : h <= g

Target(h) == Lowest(todo[h])

Goto(h, p) == pc' = [pc EXCEPT ![h] = p]

NoReq == [fn |-> "fence_i", start |-> 0, size |-> 0, asid |-> 0]

Init ==
    /\ state = [h \in Hart |-> "STARTED"]
    /\ pc = [h \in Hart |-> "run"]
    /\ fifo = [h \in Hart |-> << >>]
    /\ sync = [h \in Hart |-> 0]
    /\ ipi_type = [h \in Hart |-> {}]
    /\ msip = [h \in Hart |-> FALSE] /\ ssip = [h \in Hart |-> FALSE]
    /\ op = [h \in Hart |-> "tlb"] /\ req = [h \in Hart |-> NoReq]
    /\ scan = [h \in Hart |-> {}] /\ todo = [h \in Hart |-> {}]
    /\ bits = [h \in Hart |-> {}] /\ acks = [h \in Hart |-> {}]
    /\ cnt = [h \in Hart |-> 0] /\ ret = [h \in Hart |-> "ev"]
    /\ calls = [h \in Hart |-> 0] /\ stops = 0
    /\ due = [s \in Hart |-> [t \in Hart |-> {}]]
    /\ gone = [s \in Hart |-> {}] /\ spoilt = [s \in Hart |-> {}]

(* hart t has executed the flush of e *)
FlushedBy(t, e) ==
    due' = [s \in Hart |-> [due[s] EXCEPT ![t] = @ \ Flushed(e)]]

---------------------------------------------------------------------------
(* A call of S-mode: sbi_ipi_send_many asks for the hart mask, then sends   *)
(* to one hart after the other.                                             *)
Call(h, e, r, m) ==
    /\ pc[h] = "run"
    /\ calls[h] < MaxCalls
    /\ op' = [op EXCEPT ![h] = e]
    /\ req' = [req EXCEPT ![h] = r]
    /\ scan' = [scan EXCEPT ![h] = m]
    /\ gone' = [gone EXCEPT ![h] = {}]
    /\ calls' = [calls EXCEPT ![h] = @ + 1]
    /\ Goto(h, "send")
    /\ UNCHANGED <<state, shared, todo, local, stops>>

(* sbi_tlb_request *)
Fence(h) ==
    /\ \E r \in Requests, m \in Masks : Call(h, "tlb", r, m)
    /\ due' = [due EXCEPT ![h] = [t \in Hart |-> {}]]
    /\ spoilt' = [spoilt EXCEPT ![h] = {}]

(* sbi_ipi_send_smode, sbi_ipi_send_halt *)
SendEvent(h) ==
    /\ \E e \in Events, m \in Masks : Call(h, e, NoReq, m)
    /\ UNCHANGED <<due, spoilt>>

(* sbi_hsm_hart_interruptible_mask: the states are read one after the       *)
(* other; harts do not suspend in this module                               *)
ReadState(h) ==
    /\ pc[h] = "send" /\ scan[h] # {}
    /\ LET t == Lowest(scan[h])
       IN  /\ scan' = [scan EXCEPT ![h] = @ \ {t}]
           /\ \/ /\ state[t] = "STARTED"
                 /\ todo' = [todo EXCEPT ![h] = @ \cup {t}]
                 /\ gone' = [gone EXCEPT ![h] = @ \ {t}]
                 /\ due' = IF op[h] = "tlb" THEN [due EXCEPT ![h][t] = Flushed(req[h])] ELSE due
              \/ /\ state[t] # "STARTED"
                 /\ UNCHANGED <<todo, gone, due>>
    /\ UNCHANGED <<state, pc, shared, op, req, local, spoilt, bound>>

Sending(h) == pc[h] = "send" /\ scan[h] = {}

(* sbi_ipi_send: what is left to do for the hart at hand *)
NextTarget(h) == todo' = [todo EXCEPT ![h] = @ \ {Target(h)}] /\ Goto(h, "send")

SendDone(h) ==
    /\ Sending(h) /\ todo[h] = {}
    /\ req' = [req EXCEPT ![h] = NoReq]
    /\ op' = [op EXCEPT ![h] = "tlb"]
    /\ Goto(h, "run")
    /\ UNCHANGED <<state, shared, scan, todo, local, hist, bound>>

(* an event without an update function *)
SendPlain(h) ==
    /\ Sending(h) /\ todo[h] # {} /\ op[h] # "tlb"
    /\ Goto(h, "set")
    /\ UNCHANGED <<state, shared, sender, local, hist, bound>>

(* sbi_tlb_update up to the in-place update *)
FenceSelf(h) ==
    /\ Sending(h) /\ todo[h] # {} /\ op[h] = "tlb" /\ Target(h) = h
    /\ req' = [req EXCEPT ![h] = Limited(@)]
    /\ FlushedBy(h, Limited(req[h]))
    /\ NextTarget(h)
    /\ UNCHANGED <<state, shared, op, scan, local, gone, spoilt, bound>>

(* what is not regular spoils a merge for all whose fences are in it *)
Spoil(n, c, t) ==
    IF Regular(n) /\ Regular(c) THEN spoilt
    ELSE [s \in Hart |-> IF s \in n.smask \cup c.smask THEN spoilt[s] \cup {t} ELSE spoilt[s]]

(* sbi_fifo_inplace_update on the target's queue: the first entry that      *)
(* takes the request in is changed; if there is none, it is queued          *)
FenceUpdate(h) ==
    /\ Sending(h) /\ todo[h] # {} /\ op[h] = "tlb" /\ Target(h) # h
    /\ LET t == Target(h)
           r == Limited(req[h])
           n == TlbInfo(r, h)
           takers == {i \in DOMAIN fifo[t] : Merges(n, fifo[t][i])}
           c == fifo[t][Lowest(takers)]
       IN  /\ req' = [req EXCEPT ![h] = r]
           /\ \/ /\ takers # {}
                 /\ fifo' = [fifo EXCEPT ![t][Lowest(takers)] = Merged(n, @)]
                 /\ Goto(h, "set")
                 /\ spoilt' = Spoil(n, c, t)
              \/ /\ takers = {}
                 /\ Goto(h, "enq")
                 /\ UNCHANGED <<fifo, spoilt>>
    /\ UNCHANGED <<state, sync, ipi_type, msip, ssip, op, scan, todo, local, due, gone, bound>>

\* Mutant of HasSpace: an entry more than there is
HasSpaceForOneMore(t) == Len(fifo[t]) <= NumEntries

(* sbi_fifo_enqueue does not fail *)
HasSpace(t) == Len(fifo[t]) < NumEntries

\* Mutant of FenceEnqueue: a hart that finds no room only tries again
FenceEnqueueSpins(h) ==
    /\ pc[h] = "enq" /\ HasSpace(Target(h))
    /\ fifo' = [fifo EXCEPT ![Target(h)] = Append(@, TlbInfo(req[h], h))]
    /\ Goto(h, "set")
    /\ UNCHANGED <<state, sync, ipi_type, msip, ssip, sender, local, hist, bound>>

(* sbi_tlb_update: one round of the loop around sbi_fifo_enqueue *)
FenceEnqueue(h) ==
    /\ pc[h] = "enq"
    /\ LET t == Target(h)
       IN  \/ /\ HasSpace(t)
              /\ fifo' = [fifo EXCEPT ![t] = Append(@, TlbInfo(req[h], h))]
              /\ Goto(h, "set")
              /\ UNCHANGED ret
           \/ /\ ~HasSpace(t)
              /\ ret' = [ret EXCEPT ![h] = "enq"]
              /\ Goto(h, "deq")
              /\ UNCHANGED fifo
    /\ UNCHANGED <<state, sync, ipi_type, msip, ssip, sender, bits, acks, cnt, hist, bound>>

SetBit(h) ==
    /\ pc[h] = "set"
    /\ ipi_type' = [ipi_type EXCEPT ![Target(h)] = @ \cup {op[h]}]
    /\ Goto(h, "raise")
    /\ UNCHANGED <<state, fifo, sync, msip, ssip, sender, local, hist, bound>>

\* Mutant of Raise: no event waits
RaiseAndGo(h) ==
    /\ pc[h] = "raise"
    /\ msip' = [msip EXCEPT ![Target(h)] = TRUE]
    /\ NextTarget(h)
    /\ UNCHANGED <<state, fifo, sync, ipi_type, ssip, op, req, scan, local, hist, bound>>

(* ipi_send of the platform, after which only a fence waits *)
Raise(h) ==
    /\ pc[h] = "raise"
    /\ msip' = [msip EXCEPT ![Target(h)] = TRUE]
    /\ \/ op[h] = "tlb" /\ Goto(h, "sync") /\ UNCHANGED todo
       \/ op[h] # "tlb" /\ NextTarget(h)
    /\ UNCHANGED <<state, fifo, sync, ipi_type, ssip, op, req, scan, local, hist, bound>>

(* sbi_tlb_sync: one round of its loop *)
Sync(h) ==
    /\ pc[h] = "sync"
    /\ \/ /\ sync[h] = 1
          /\ sync' = [sync EXCEPT ![h] = 0]
          /\ NextTarget(h)
          /\ UNCHANGED ret
       \/ /\ sync[h] = 0
          /\ ret' = [ret EXCEPT ![h] = "sync"]
          /\ Goto(h, "deq")
          /\ UNCHANGED <<sync, todo>>
    /\ UNCHANGED <<state, fifo, ipi_type, msip, ssip, op, req, scan, bits, acks, cnt, hist, bound>>

---------------------------------------------------------------------------
(* sbi_tlb_process ("ev") and sbi_tlb_process_count(scratch, 1): the queue  *)
(* is emptied; the second one gives up after two entries.                   *)
DequeueEmpty(h) ==
    /\ pc[h] = "deq" /\ fifo[h] = << >>
    /\ cnt' = [cnt EXCEPT ![h] = 0]
    /\ ret' = [ret EXCEPT ![h] = "ev"]
    /\ Goto(h, ret[h])
    /\ UNCHANGED <<state, shared, sender, bits, acks, hist, bound>>

(* the entry is taken out and its local function executed *)
Dequeue(h) ==
    /\ pc[h] = "deq" /\ fifo[h] # << >>
    /\ fifo' = [fifo EXCEPT ![h] = Tail(@)]
    /\ FlushedBy(h, Head(fifo[h]))
    /\ acks' = [acks EXCEPT ![h] = Head(fifo[h]).smask]
    /\ Goto(h, "ack")
    /\ UNCHANGED <<state, sync, ipi_type, msip, ssip, sender, bits, cnt, ret, gone, spoilt, bound>>

(* after an entry: sbi_tlb_process goes on, sbi_tlb_process_count counts    *)
(* and leaves with deq_count > 1                                            *)
EntryDone(h) ==
    \/ /\ ret[h] # "ev" /\ cnt[h] = 1
       /\ cnt' = [cnt EXCEPT ![h] = 0]
       /\ ret' = [ret EXCEPT ![h] = "ev"]
       /\ Goto(h, ret[h])
    \/ /\ ret[h] # "ev" /\ cnt[h] = 0
       /\ cnt' = [cnt EXCEPT ![h] = 1]
       /\ Goto(h, "deq")
       /\ UNCHANGED ret
    \/ /\ ret[h] = "ev"
       /\ Goto(h, "deq")
       /\ UNCHANGED <<cnt, ret>>

\* Mutant of Acknowledge: only one sender of a merged entry is told
AcknowledgeLowestOnly(h) ==
    /\ pc[h] = "ack"
    /\ LET r == Lowest(acks[h])
       IN  /\ sync[r] = 0
           /\ sync' = [sync EXCEPT ![r] = 1]
           /\ acks' = [acks EXCEPT ![h] = {}]
           /\ EntryDone(h)
    /\ UNCHANGED <<state, fifo, ipi_type, msip, ssip, sender, bits, hist, bound>>

(* sbi_tlb_entry_process: the exchange that found 0 in the sender's word;   *)
(* one that finds 1 changes nothing and is tried again                      *)
Acknowledge(h) ==
    /\ pc[h] = "ack"
    /\ LET r == Lowest(acks[h])
       IN  /\ sync[r] = 0
           /\ sync' = [sync EXCEPT ![r] = 1]
           /\ acks' = [acks EXCEPT ![h] = @ \ {r}]
           /\ IF acks[h] = {r} THEN EntryDone(h) ELSE UNCHANGED <<pc, cnt, ret>>
    /\ UNCHANGED <<state, fifo, ipi_type, msip, ssip, sender, bits, hist, bound>>

---------------------------------------------------------------------------
(* sbi_ipi_process, from the trap or from sbi_ipi_exit *)
ClearMsip(h) ==
    /\ \/ pc[h] = "run" /\ msip[h]
       \/ pc[h] = "exit"
    /\ msip' = [msip EXCEPT ![h] = FALSE]
    /\ Goto(h, "take")
    /\ UNCHANGED <<state, fifo, sync, ipi_type, ssip, sender, local, hist, bound>>

TakeBits(h) ==
    /\ pc[h] = "take"
    /\ bits' = [bits EXCEPT ![h] = ipi_type[h]]
    /\ ipi_type' = [ipi_type EXCEPT ![h] = {}]
    /\ Goto(h, "ev")
    /\ UNCHANGED <<state, fifo, sync, msip, ssip, sender, acks, cnt, ret, hist, bound>>

(* the loop over the events, lowest bit first: smode, halt, tlb *)
EvSmode(h) ==
    /\ pc[h] = "ev" /\ "smode" \in bits[h]
    /\ ssip' = [ssip EXCEPT ![h] = TRUE]
    /\ bits' = [bits EXCEPT ![h] = @ \ {"smode"}]
    /\ UNCHANGED <<state, pc, fifo, sync, ipi_type, msip, sender, acks, cnt, ret, hist, bound>>

(* sbi_ipi_process_halt: sbi_hsm_hart_stop.  sbi_exit does not return, so   *)
(* the events that were taken and come after this one are dropped.          *)
EvHalt(h) ==
    /\ pc[h] = "ev" /\ "halt" \in bits[h] /\ "smode" \notin bits[h]
    /\ \/ /\ state[h] = "STARTED"
          /\ state' = [state EXCEPT ![h] = "STOP_PENDING"]
          /\ bits' = [bits EXCEPT ![h] = {}]
          /\ Goto(h, "exit")
       \/ /\ state[h] # "STARTED"
          /\ bits' = [bits EXCEPT ![h] = @ \ {"halt"}]
          /\ UNCHANGED <<state, pc>>
    /\ UNCHANGED <<shared, sender, acks, cnt, ret, hist, bound>>

EvTlb(h) ==
    /\ pc[h] = "ev" /\ bits[h] = {"tlb"}
    /\ bits' = [bits EXCEPT ![h] = {}]
    /\ Goto(h, "deq")
    /\ UNCHANGED <<state, shared, sender, acks, cnt, ret, hist, bound>>

\* Mutant of EvDone: the interrupt is cleared when its events are processed
EvDoneClears(h) ==
    /\ pc[h] = "ev" /\ bits[h] = {}
    /\ msip' = [msip EXCEPT ![h] = FALSE]
    /\ Goto(h, IF state[h] = "STARTED" THEN "run" ELSE "stop")
    /\ UNCHANGED <<state, fifo, sync, ipi_type, ssip, sender, local, hist, bound>>

EvDone(h) ==
    /\ pc[h] = "ev" /\ bits[h] = {}
    /\ Goto(h, IF state[h] = "STARTED" THEN "run" ELSE "stop")
    /\ UNCHANGED <<state, shared, sender, local, hist, bound>>

(* sbi_ipi_clear_smode, called by S-mode *)
ClearSmode(h) ==
    /\ pc[h] = "run"
    /\ ssip' = [ssip EXCEPT ![h] = FALSE]
    /\ UNCHANGED <<state, pc, fifo, sync, ipi_type, msip, sender, local, hist, bound>>

---------------------------------------------------------------------------
(* A hart goes and comes back.  sbi_hsm_hart_stop of an ecall; sbi_exit     *)
(* then runs sbi_ipi_exit and sbi_hsm_exit.                                 *)
Stop(h) ==
    /\ pc[h] = "run" /\ stops < MaxStops
    /\ stops' = stops + 1
    /\ state' = [state EXCEPT ![h] = "STOP_PENDING"]
    /\ Goto(h, "exit")
    /\ UNCHANGED <<shared, sender, local, hist, calls>>

(* sbi_hsm_exit; a hart that is stopped uses no translation *)
HsmExit(h) ==
    /\ pc[h] = "stop"
    /\ state' = [state EXCEPT ![h] = "STOPPED"]
    /\ due' = [s \in Hart |-> [due[s] EXCEPT ![h] = {}]]
    /\ gone' = [s \in Hart |-> gone[s] \cup {h}]
    /\ Goto(h, "off")
    /\ UNCHANGED <<shared, sender, local, spoilt, bound>>

(* sbi_hsm_hart_start: the exchange, then the interrupt *)
Start(h) ==
    /\ pc[h] = "run"
    /\ \E t \in Hart :
        /\ state[t] = "STOPPED"
        /\ state' = [state EXCEPT ![t] = "START_PENDING"]
        /\ todo' = [todo EXCEPT ![h] = {t}]
    /\ op' = [op EXCEPT ![h] = "start"]
    /\ Goto(h, "start")
    /\ UNCHANGED <<shared, req, scan, local, hist, bound>>

StartIpi(h) ==
    /\ pc[h] = "start"
    /\ msip' = [msip EXCEPT ![Target(h)] = TRUE]
    /\ todo' = [todo EXCEPT ![h] = {}]
    /\ op' = [op EXCEPT ![h] = "tlb"]
    /\ Goto(h, "run")
    /\ UNCHANGED <<state, fifo, sync, ipi_type, ssip, req, scan, local, hist, bound>>

(* sbi_hsm_hart_wait: the loop looks at the state before it waits for an    *)
(* interrupt                                                                *)
HartWait(h) ==
    /\ pc[h] = "off" /\ state[h] = "START_PENDING"
    /\ Goto(h, "init_ipi")
    /\ UNCHANGED <<state, shared, sender, local, hist, bound>>

(* sbi_ipi_init: the event bits first, then the interrupt *)
InitIpi(h) ==
    /\ \/ /\ pc[h] = "init_ipi"
          /\ ipi_type' = [ipi_type EXCEPT ![h] = {}]
          /\ Goto(h, "init_msip")
          /\ UNCHANGED msip
       \/ /\ pc[h] = "init_msip"
          /\ msip' = [msip EXCEPT ![h] = FALSE]
          /\ Goto(h, "init_tlb")
          /\ UNCHANGED ipi_type
    /\ UNCHANGED <<state, fifo, sync, ssip, sender, local, hist, bound>>

(* sbi_tlb_init *)
InitTlb(h) ==
    /\ pc[h] = "init_tlb"
    /\ sync' = [sync EXCEPT ![h] = 0]
    /\ fifo' = [fifo EXCEPT ![h] = << >>]
    /\ Goto(h, "jump")
    /\ UNCHANGED <<state, ipi_type, msip, ssip, sender, local, hist, bound>>

(* sbi_hsm_prepare_next_jump and the return to S-mode *)
Jump(h) ==
    /\ pc[h] = "jump"
    /\ state' = [state EXCEPT ![h] = "STARTED"]
    /\ Goto(h, "run")
    /\ UNCHANGED <<shared, sender, local, hist, bound>>

---------------------------------------------------------------------------
(* what a hart does by itself once it is in OpenSBI or interrupted *)
Step(h) ==
    \/ ReadState(h) \/ SendDone(h) \/ SendPlain(h) \/ FenceSelf(h) \/ FenceUpdate(h) \/ FenceEnqueue(h)
    \/ SetBit(h) \/ Raise(h) \/ Sync(h)
    \/ DequeueEmpty(h) \/ Dequeue(h) \/ Acknowledge(h)
    \/ ClearMsip(h) \/ TakeBits(h) \/ EvSmode(h) \/ EvHalt(h) \/ EvTlb(h) \/ EvDone(h)
    \/ HsmExit(h) \/ StartIpi(h) \/ HartWait(h) \/ InitIpi(h) \/ InitTlb(h) \/ Jump(h)

(* what S-mode may ask for at any time, or never *)
Smode(h) == Fence(h) \/ SendEvent(h) \/ ClearSmode(h) \/ Stop(h) \/ Start(h)

Next == \E h \in Hart : Step(h) \/ Smode(h)

(* Every hart is a processor of its own and M-mode interrupts are always    *)
(* enabled below M-mode.                                                    *)
Fairness == \A h \in Hart : WF_vars(Step(h))

Spec == Init /\ [][Next]_vars /\ Fairness

---------------------------------------------------------------------------
Pcs == {"run", "send", "enq", "set", "raise", "sync", "deq", "ack", "take", "ev",
        "exit", "stop", "start", "off", "init_ipi", "init_msip", "init_tlb", "jump"}

Info == [fn : Fns, start : 0 .. ULong - 1, size : 0 .. ULong - 1, asid : Asid]

(* an entry of a queue has a sender to acknowledge *)
Entry == [fn : Fns, start : 0 .. ULong - 1, size : 0 .. ULong - 1, asid : Asid,
          smask : (SUBSET Hart) \ {{}}]

TypeOK ==
    /\ state \in [Hart -> {"STARTED", "STOP_PENDING", "STOPPED", "START_PENDING"}]
    /\ pc \in [Hart -> Pcs]
    /\ fifo \in [Hart -> Seq(Entry)] /\ \A h \in Hart : Len(fifo[h]) <= NumEntries
    /\ sync \in [Hart -> 0 .. 1]
    /\ ipi_type \in [Hart -> SUBSET {"smode", "halt", "tlb"}]
    /\ msip \in [Hart -> BOOLEAN] /\ ssip \in [Hart -> BOOLEAN]
    /\ op \in [Hart -> {"smode", "halt", "tlb", "start"}]
    /\ req \in [Hart -> Info] /\ scan \in [Hart -> SUBSET Hart] /\ todo \in [Hart -> SUBSET Hart]
    /\ bits \in [Hart -> SUBSET {"smode", "halt", "tlb"}]
    /\ acks \in [Hart -> SUBSET Hart]
    /\ cnt \in [Hart -> 0 .. 1] /\ ret \in [Hart -> {"enq", "sync", "ev"}]
    /\ due \in [Hart -> [Hart -> SUBSET Items]]
    /\ gone \in [Hart -> SUBSET Hart] /\ spoilt \in [Hart -> SUBSET Hart]

(* sbi_tlb_request returns, and passes on to the next hart, only after      *)
(* everything it asked that hart to forget was flushed there, or if its     *)
(* request, or one it was merged with, is not regular: see                  *)
(* EntryCoversRequest.                                                      *)
FenceDone == \A s, t \in Hart : t \notin todo[s] => due[s][t] = {} \/ t \in spoilt[s]

(* s has queued or merged its request and waits for the acknowledgement *)
Posted(s) ==
    \/ pc[s] \in {"set", "raise", "sync"} /\ op[s] = "tlb"
    \/ pc[s] \in {"deq", "ack"} /\ ret[s] = "sync"

(* an acknowledgement of s is still to come for entry i of t's queue, or    *)
(* (i = 0) for the entry t has taken out                                    *)
Owed(s, t, i) ==
    IF i = 0 THEN s \in acks[t] ELSE i <= Len(fifo[t]) /\ s \in fifo[t][i].smask

Owing(s) == {o \in Hart \X (0 .. NumEntries) : Owed(s, o[1], o[2])}

(* Acknowledgements are never mixed up: there is at most one to come for a  *)
(* hart, and none unless its sbi_tlb_sync is to consume it.  A spare one    *)
(* would let the next fence of that hart return before it is executed.      *)
AckIsMine ==
    \A s \in Hart :
        Cardinality(Owing(s)) + sync[s] <= (IF Posted(s) THEN 1 ELSE 0)

(* A fence that waits in sbi_tlb_sync with nobody left to acknowledge it    *)
(* was sent to a hart that stopped after sbi_ipi_send_many read its state   *)
(* for the hart mask: merging, draining and events never lose it.           *)
WaitsInVainOnlyForStopped ==
    \A s \in Hart :
        Posted(s) /\ Owing(s) = {} /\ sync[s] = 0 => Target(s) \in gone[s]

(* A hart in S-mode with a fence in its queue is or will be interrupted for *)
(* it: clearing MSIP before taking the event bits (sbi_ipi_process) loses   *)
(* no request that is posted in between.                                    *)
NoLostFence ==
    \A t \in Hart :
        pc[t] = "run" /\ fifo[t] # << >> =>
            \/ msip[t] /\ "tlb" \in ipi_type[t]
            \/ \E s \in Hart : /\ pc[s] \in {"set", "raise"} /\ op[s] = "tlb"
                             /\ Target(s) = t

(* Every remote fence returns, even when all harts send at once and queues  *)
(* are full: the loops of sbi_tlb_update and sbi_tlb_sync serve the hart's  *)
(* own queue "to avoid deadlock".                                           *)
FenceReturns == \A s \in Hart : pc[s] = "send" ~> pc[s] = "run"

(* An S-mode IPI reaches its hart (sbi_ipi_process sets SSIP).              *)
SmodeArrives == \A t \in Hart : "smode" \in ipi_type[t] ~> ssip[t]

(* An entry flushes all that is due to any of the senders in its mask, as   *)
(* long as the ranges that sbi_tlb_update_cb merged there are regular.      *)
RegularMergesCover ==
    \A t \in Hart : \A i \in DOMAIN fifo[t] : \A s \in fifo[t][i].smask :
        due[s][t] \subseteq Flushed(fifo[t][i]) \/ t \in spoilt[s]

(* sbi_tlb_update_cb: "if next flush request range lies within one of the   *)
(* existing entry, skip the next entry": an entry that stands for a         *)
(* sender's request flushes all of it, whatever the ranges.                 *)
EntryCoversRequest ==
    \A t \in Hart : \A i \in DOMAIN fifo[t] : \A s \in fifo[t][i].smask :
        due[s][t] \subseteq Flushed(fifo[t][i])
=============================================================================
