------------------------------- MODULE SbiHsm -------------------------------
(* Harts of OpenSBI through cold boot, start, stop, suspend, resume and     *)
(* system reset: sbi_init.c, sbi_hsm.c, sbi_system.c and the warm entry of  *)
(* fw_base.S, with no HSM device (the K230 has none).  A step is one access *)
(* to memory that harts share.  What is done under coldboot_lock is one     *)
(* step (SbiLock); so is taking an IPI (SbiTlb has it in detail).           *)
EXTENDS Integers

CONSTANTS
    Hart,
    Addr,       \* addresses S-mode passes to start and suspend
    FwNext,     \* next_addr of every hart at power on
    MaxOps      \* bound: SBI calls per hart

ASSUME HsmAssumption == FwNext \notin Addr /\ MaxOps \in Nat

VARIABLES
    pc,
    state,          \* hdata->state
    next,           \* scratch->next_addr (with next_arg1 and next_mode)
    lottery, coldboot_done,     \* words of sbi_init.c
    waitMask,       \* coldboot_wait_hmask
    inited,         \* init_count_offset is set: sbi_hsm_init follows in the same hart
    msip, pend,     \* software interrupt pending, and the events it is for
    mie, ssip,      \* MSIE bit of MIE, SSIP bit of MIP
    saved,          \* saved_mie and saved_mip of a suspended hart
    tgt, arg,       \* hart and address of a call in progress
    event,          \* the event a hart sends; "smode" when it sends none
    scan, mask,     \* targets it has still to look at, and still to send to
    ops,            \* calls made, for the bound
    told, ran,      \* history: where a hart was last told to go, where it went
    raced,          \* history: it went there while a starter was to write next
    owe             \* history: SSIP was raised and S-mode has not cleared it

boot  == <<lottery, coldboot_done, waitMask, inited>>
intr  == <<msip, pend, mie, ssip, saved>>
ipis  == <<event, scan, mask>>
call  == <<tgt, arg, ops, ipis>>
hist  == <<told, ran, raced, owe>>
vars  == <<pc, state, next, boot, intr, call, hist>>

States == {"STARTED", "STOPPED", "START_PENDING", "STOP_PENDING", "SUSPENDED", "RESUME_PENDING"}

NotSaved == [mie |-> FALSE, ssip |-> FALSE]

Init ==
    /\ pc = [h \in Hart |-> "entry"]
    /\ state = [h \in Hart |-> "STARTED"]     \* the memory is zero
    /\ next = [h \in Hart |-> FwNext]
    /\ lottery = 0 /\ coldboot_done = FALSE /\ waitMask = {} /\ inited = FALSE
    /\ msip = [h \in Hart |-> FALSE] /\ pend = [h \in Hart |-> {}]
    /\ mie = [h \in Hart |-> FALSE] /\ ssip = [h \in Hart |-> FALSE]
    /\ saved = [h \in Hart |-> NotSaved]
    /\ tgt = [h \in Hart |-> h] /\ arg = [h \in Hart |-> FwNext]
    /\ event = [h \in Hart |-> "smode"]
    /\ scan = [h \in Hart |-> {}] /\ mask = [h \in Hart |-> {}]
    /\ ops = [h \in Hart |-> 0]
    /\ told = [h \in Hart |-> FwNext] /\ ran = [h \in Hart |-> FwNext]
    /\ raced = [h \in Hart |-> FALSE] /\ owe = [h \in Hart |-> FALSE]

At(h, p) == pc[h] = p
Goto(h, p) == pc' = [pc EXCEPT ![h] = p]

(* atomic_cmpxchg on a hart state, and where a hart goes that found another *)
Cas(h, t, old, new, p, fail) ==
    IF state[t] = old
    THEN state' = [state EXCEPT ![t] = new] /\ Goto(h, p)
    ELSE UNCHANGED state /\ Goto(h, fail)

---------------------------------------------------------------------------
\* Mutant of Draw: the lottery is read and not written
DrawReadsOnly == lottery' = lottery

\* Mutant of Draw: the lottery counts the harts
DrawCounts == lottery' = lottery + 1

(* atomic_xchg of the lottery word *)
Draw == lottery' = 1

(* fw_base.S _start_warm, then the lottery of sbi_init *)
Entry(h) ==
    /\ At(h, "entry")
    /\ mie' = [mie EXCEPT ![h] = FALSE]
    /\ ssip' = [ssip EXCEPT ![h] = FALSE]
    /\ Draw
    /\ Goto(h, IF lottery = 0 THEN "cold" ELSE "mark")
    /\ UNCHANGED <<state, next, coldboot_done, waitMask, inited, msip, pend, saved, call, hist>>

(* init_coldboot: init_count_offset, then sbi_hsm_init for all harts *)
ColdHsmInit(h) ==
    /\ At(h, "cold")
    /\ inited' = TRUE
    /\ state' = [g \in Hart |-> IF g = h THEN "START_PENDING" ELSE "STOPPED"]
    /\ Goto(h, "cold_ipi")
    /\ UNCHANGED <<next, lottery, coldboot_done, waitMask, intr, call, hist>>

(* sbi_ipi_init, in cold and in warm boot: ipi_type, then the device *)
IpiInit(h) ==
    /\ \/ /\ pc[h] \in {"cold_ipi", "warm_ipi"}
          /\ pend' = [pend EXCEPT ![h] = {}]
          /\ Goto(h, IF At(h, "cold_ipi") THEN "cold_msip" ELSE "warm_msip")
          /\ UNCHANGED <<msip, mie>>
       \/ /\ pc[h] \in {"cold_msip", "warm_msip"}
          /\ msip' = [msip EXCEPT ![h] = FALSE]
          /\ mie' = [mie EXCEPT ![h] = TRUE]
          /\ Goto(h, IF At(h, "cold_msip") THEN "cold_done" ELSE "prepare")
          /\ UNCHANGED pend
    /\ UNCHANGED <<state, next, boot, ssip, saved, call, hist>>

\* Mutant of Wake: the waiting harts are woken before the flag is set
WakeThenDone(h) ==
    /\ \/ /\ At(h, "cold_done")
          /\ msip' = [g \in Hart |-> msip[g] \/ (g # h /\ g \in waitMask)]
          /\ Goto(h, "wake")
          /\ UNCHANGED coldboot_done
       \/ /\ At(h, "wake")
          /\ coldboot_done' = TRUE
          /\ Goto(h, "prepare")
          /\ UNCHANGED msip
    /\ UNCHANGED <<state, next, lottery, waitMask, inited, pend, mie, ssip, saved, call, hist>>

(* wake_coldboot_harts: the flag, then an IPI to the harts that wait *)
Wake(h) ==
    /\ \/ /\ At(h, "cold_done")
          /\ coldboot_done' = TRUE
          /\ Goto(h, "wake")
          /\ UNCHANGED msip
       \/ /\ At(h, "wake")
          /\ msip' = [g \in Hart |-> msip[g] \/ (g # h /\ g \in waitMask)]
          /\ Goto(h, "prepare")
          /\ UNCHANGED coldboot_done
    /\ UNCHANGED <<state, next, lottery, waitMask, inited, pend, mie, ssip, saved, call, hist>>

(* sbi_hsm_prepare_next_jump *)
Prepare(h) ==
    /\ At(h, "prepare")
    /\ Cas(h, h, "START_PENDING", "STARTED", "jump", "hang")
    /\ UNCHANGED <<next, boot, intr, call, hist>>

(* sbi_hart_switch_mode; a starter may not have written next_addr yet *)
Jump(h) ==
    /\ At(h, "jump")
    /\ ran' = [ran EXCEPT ![h] = next[h]]
    /\ raced' = [raced EXCEPT ![h] = @ \/ \E g \in Hart : At(g, "st_write") /\ tgt[g] = h]
    /\ Goto(h, "run")
    /\ UNCHANGED <<state, next, boot, intr, call, told, owe>>

---------------------------------------------------------------------------
(* wait_for_coldboot *)
Mark(h) ==
    /\ At(h, "mark")
    /\ mie' = [mie EXCEPT ![h] = TRUE]
    /\ waitMask' = waitMask \cup {h}
    /\ Goto(h, "poll")
    /\ UNCHANGED <<state, next, lottery, coldboot_done, inited, msip, pend, ssip, saved, call, hist>>

\* Mutant of Poll: the wait ends at the first look
PollOnce(h) ==
    /\ At(h, "poll")
    /\ Goto(h, "unmark")
    /\ UNCHANGED <<state, next, boot, intr, call, hist>>

Poll(h) ==
    /\ At(h, "poll")
    /\ Goto(h, IF coldboot_done THEN "unmark" ELSE "poll_wfi")
    /\ UNCHANGED <<state, next, boot, intr, call, hist>>

PollWfi(h) ==
    /\ At(h, "poll_wfi") /\ msip[h]
    /\ Goto(h, "poll")
    /\ UNCHANGED <<state, next, boot, intr, call, hist>>

\* Mutant of Unmark: the IPI that ended the wait is cleared
UnmarkAndClear(h) ==
    /\ At(h, "unmark")
    /\ waitMask' = waitMask \ {h}
    /\ mie' = [mie EXCEPT ![h] = FALSE]
    /\ msip' = [msip EXCEPT ![h] = FALSE]
    /\ Goto(h, "getstate")
    /\ UNCHANGED <<state, next, lottery, coldboot_done, inited, pend, ssip, saved, call, hist>>

Unmark(h) ==
    /\ At(h, "unmark")
    /\ waitMask' = waitMask \ {h}
    /\ mie' = [mie EXCEPT ![h] = FALSE]
    /\ Goto(h, "getstate")
    /\ UNCHANGED <<state, next, lottery, coldboot_done, inited, msip, pend, ssip, saved, call, hist>>

(* init_warmboot, and the check of init_warm_startup *)
GetState(h) ==
    /\ At(h, "getstate")
    /\ Goto(h, IF state[h] = "SUSPENDED" THEN "resume_start"
               ELSE IF inited THEN "wait" ELSE "hang")
    /\ UNCHANGED <<state, next, boot, intr, call, hist>>

(* sbi_hsm_hart_wait *)
HartWait(h) ==
    /\ At(h, "wait")
    /\ \/ /\ state[h] = "START_PENDING"
          /\ mie' = [mie EXCEPT ![h] = FALSE]
          /\ Goto(h, "warm_ipi")
       \/ /\ state[h] # "START_PENDING"
          /\ mie' = [mie EXCEPT ![h] = TRUE]
          /\ Goto(h, "wait_wfi")
    /\ UNCHANGED <<state, next, boot, msip, pend, ssip, saved, call, hist>>

WaitWfi(h) ==
    /\ At(h, "wait_wfi") /\ msip[h]
    /\ Goto(h, "wait")
    /\ UNCHANGED <<state, next, boot, intr, call, hist>>

(* sbi_hsm_hart_resume_start *)
ResumeStart(h) ==
    /\ At(h, "resume_start")
    /\ Cas(h, h, "SUSPENDED", "RESUME_PENDING", "resume_finish", "hang")
    /\ UNCHANGED <<next, boot, intr, call, hist>>

\* Mutant of Restored: only MIE is restored
RestoredMie(h) == mie' = [mie EXCEPT ![h] = saved[h].mie] /\ UNCHANGED ssip

(* __sbi_hsm_suspend_non_ret_restore *)
Restored(h) ==
    /\ mie' = [mie EXCEPT ![h] = saved[h].mie]
    /\ ssip' = [ssip EXCEPT ![h] = saved[h].ssip]

(* sbi_hsm_hart_resume_finish *)
ResumeFinish(h) ==
    /\ At(h, "resume_finish")
    /\ Cas(h, h, "RESUME_PENDING", "STARTED", "jump", "hang")
    /\ Restored(h)
    /\ saved' = [saved EXCEPT ![h] = NotSaved]      \* not used again
    /\ UNCHANGED <<next, boot, msip, pend, call, hist>>

---------------------------------------------------------------------------
(* Calls of S-mode. *)
CallBegins(h) ==
    /\ At(h, "run")
    /\ ops[h] < MaxOps
    /\ ops' = [ops EXCEPT ![h] = @ + 1]

(* sbi_hsm_hart_start that finds the hart stopped; other states only give   *)
(* an error code.  next_addr is written after the exchange.                 *)
HartStart(h) ==
    \E t \in Hart, a \in Addr :
        /\ CallBegins(h)
        /\ state[t] = "STOPPED"
        /\ Cas(h, t, "STOPPED", "START_PENDING", "st_write", "run")
        /\ tgt' = [tgt EXCEPT ![h] = t]
        /\ arg' = [arg EXCEPT ![h] = a]
        /\ told' = [told EXCEPT ![t] = a]
        /\ raced' = [raced EXCEPT ![t] = \E g \in Hart : At(g, "st_write") /\ tgt[g] = t]
        /\ UNCHANGED <<next, boot, intr, ipis, ran, owe>>

\* Mutant of StartWrite: the address goes to the caller's own scratch
StartWriteOwn(h) ==
    /\ At(h, "st_write")
    /\ next' = [next EXCEPT ![h] = arg[h]]
    /\ Goto(h, "st_ipi")
    /\ UNCHANGED <<state, boot, intr, call, hist>>

StartWrite(h) ==
    /\ At(h, "st_write")
    /\ next' = [next EXCEPT ![tgt[h]] = arg[h]]
    /\ Goto(h, "st_ipi")
    /\ UNCHANGED <<state, boot, intr, call, hist>>

\* Mutant of StartIpi: no IPI is sent
StartNoIpi(h) ==
    /\ At(h, "st_ipi")
    /\ tgt' = [tgt EXCEPT ![h] = h] /\ arg' = [arg EXCEPT ![h] = FwNext]
    /\ Goto(h, "run")
    /\ UNCHANGED <<state, next, boot, intr, ops, ipis, hist>>

StartIpi(h) ==
    /\ At(h, "st_ipi")
    /\ msip' = [msip EXCEPT ![tgt[h]] = TRUE]
    /\ tgt' = [tgt EXCEPT ![h] = h] /\ arg' = [arg EXCEPT ![h] = FwNext]
    /\ Goto(h, "run")
    /\ UNCHANGED <<state, next, boot, pend, mie, ssip, saved, ops, ipis, hist>>

\* Mutant of HartStop: the hart is reported stopped before it is
HartStopAtOnce(h) ==
    /\ CallBegins(h)
    /\ Cas(h, h, "STARTED", "STOPPED", "exit", "run")
    /\ UNCHANGED <<next, boot, intr, tgt, arg, ipis, hist>>

(* sbi_hsm_hart_stop and sbi_exit *)
HartStop(h) ==
    /\ CallBegins(h)
    /\ Cas(h, h, "STARTED", "STOP_PENDING", "exit", "run")
    /\ UNCHANGED <<next, boot, intr, tgt, arg, ipis, hist>>

(* sbi_ipi_exit: interrupts off, what is pending is processed; a hart that  *)
(* stops is asked for nothing more                                          *)
IpiExit(h) ==
    /\ At(h, "exit")
    /\ mie' = [mie EXCEPT ![h] = FALSE]
    /\ msip' = [msip EXCEPT ![h] = FALSE]
    /\ pend' = [pend EXCEPT ![h] = {}]
    /\ owe' = [owe EXCEPT ![h] = FALSE]
    /\ ran' = [ran EXCEPT ![h] = FwNext] /\ raced' = [raced EXCEPT ![h] = FALSE]
    /\ Goto(h, "hsm_exit")
    /\ UNCHANGED <<state, next, boot, ssip, saved, call, told>>

(* sbi_hsm_exit: without hotplug the hart goes to the warm entry *)
HsmExit(h) ==
    /\ At(h, "hsm_exit")
    /\ Cas(h, h, "STOP_PENDING", "STOPPED", "entry", "hang")
    /\ UNCHANGED <<next, boot, intr, call, hist>>

(* sbi_hsm_hart_suspend: the address is written before the exchange *)
Suspend(h) ==
    \E p \in {"su_ret", "su_nonret", "su_back"}, a \in Addr :
        /\ CallBegins(h)
        /\ next' = [next EXCEPT ![h] = a]
        /\ told' = [told EXCEPT ![h] = IF p = "su_nonret" THEN a ELSE @]
        /\ Cas(h, h, "STARTED", "SUSPENDED", p, "hang")
        /\ UNCHANGED <<boot, intr, tgt, arg, ipis, ran, raced, owe>>

(* a retentive suspend ends by an interrupt; a suspend type the platform    *)
(* does not have ("su_back") ends at once                                   *)
SuspendWfi(h) ==
    /\ At(h, "su_ret") /\ msip[h] /\ mie[h]
    /\ Goto(h, "su_back")
    /\ UNCHANGED <<state, next, boot, intr, call, hist>>

SuspendBack(h) ==
    /\ At(h, "su_back")
    /\ Cas(h, h, "SUSPENDED", "STARTED", "run", "hang")
    /\ UNCHANGED <<next, boot, intr, call, hist>>

(* __sbi_hsm_suspend_non_ret_default: save, wait, jump to the warm entry *)
SuspendSave(h) ==
    /\ At(h, "su_nonret")
    /\ saved' = [saved EXCEPT ![h] = [mie |-> mie[h], ssip |-> ssip[h]]]
    /\ ran' = [ran EXCEPT ![h] = FwNext]
    /\ Goto(h, "su_wfi")
    /\ UNCHANGED <<state, next, boot, msip, pend, mie, ssip, call, told, raced, owe>>

SuspendNonRetWfi(h) ==
    /\ At(h, "su_wfi") /\ msip[h] /\ mie[h]
    /\ Goto(h, "entry")
    /\ UNCHANGED <<state, next, boot, intr, call, hist>>

(* sbi_ipi_send_many: what each target's state is, then bit and interrupt   *)
(* for one target after the other (in any order)                            *)
SendMany(h, ts, e) ==
    /\ CallBegins(h)
    /\ event' = [event EXCEPT ![h] = e]
    /\ scan' = [scan EXCEPT ![h] = ts]
    /\ Goto(h, "scan")
    /\ UNCHANGED <<state, next, boot, intr, tgt, arg, mask, hist>>

(* sbi_ipi_send_smode to one hart *)
SendIpi(h) == \E t \in Hart : SendMany(h, {t}, "smode")

(* sbi_system_reset: HALT to the others, then stop; with no reset device    *)
(* that works the hart ends in sbi_exit                                     *)
SystemReset(h) == SendMany(h, Hart, "halt")

(* the way on when the targets ts are left: the next one, or the caller *)
Onward(h, ts) ==
    /\ event' = [event EXCEPT ![h] = IF ts = {} THEN "smode" ELSE @]
    /\ Goto(h, IF ts # {} THEN "send" ELSE IF event[h] = "halt" THEN "reset" ELSE "run")

(* sbi_hsm_hart_interruptible_mask; a reset leaves out the hart itself *)
ReadState(h) ==
    /\ At(h, "scan")
    /\ \E t \in scan[h] :
         LET wanted == state[t] \in {"STARTED", "SUSPENDED"} /\ (event[h] = "halt" => t # h)
             found == IF wanted THEN mask[h] \cup {t} ELSE mask[h]
         IN  /\ scan' = [scan EXCEPT ![h] = @ \ {t}]
             /\ mask' = [mask EXCEPT ![h] = found]
             /\ IF scan[h] = {t} THEN Onward(h, found) ELSE UNCHANGED <<pc, event>>
    /\ UNCHANGED <<state, next, boot, intr, tgt, arg, ops, hist>>

(* sbi_ipi_send: the bit in ipi_type, then the interrupt *)
SendBit(h) ==
    /\ At(h, "send")
    /\ \E t \in mask[h] :
         /\ pend' = [pend EXCEPT ![t] = @ \cup {event[h]}]
         /\ tgt' = [tgt EXCEPT ![h] = t]
         /\ mask' = [mask EXCEPT ![h] = @ \ {t}]
    /\ Goto(h, "send_msip")
    /\ UNCHANGED <<state, next, boot, msip, mie, ssip, saved, arg, ops, event, scan, hist>>

SendMsip(h) ==
    /\ At(h, "send_msip")
    /\ msip' = [msip EXCEPT ![tgt[h]] = TRUE]
    /\ tgt' = [tgt EXCEPT ![h] = h]
    /\ Onward(h, mask[h])
    /\ UNCHANGED <<state, next, boot, pend, mie, ssip, saved, arg, ops, scan, mask, hist>>

ResetStop(h) ==
    /\ At(h, "reset")
    /\ Cas(h, h, "STARTED", "STOP_PENDING", "exit", "exit")
    /\ UNCHANGED <<next, boot, intr, call, hist>>

(* sbi_ipi_process in the trap handler: smode before halt *)
TakeIpi(h) ==
    /\ At(h, "run") /\ msip[h] /\ mie[h]
    /\ msip' = [msip EXCEPT ![h] = FALSE]
    /\ pend' = [pend EXCEPT ![h] = {}]
    /\ ssip' = [ssip EXCEPT ![h] = @ \/ "smode" \in pend[h]]
    /\ owe' = [owe EXCEPT ![h] = @ \/ "smode" \in pend[h]]
    /\ IF "halt" \in pend[h] THEN Cas(h, h, "STARTED", "STOP_PENDING", "exit", "run")
                             ELSE UNCHANGED <<pc, state>>
    /\ UNCHANGED <<next, boot, mie, saved, call, told, ran, raced>>

(* sbi_ipi_clear_smode *)
ClearSmode(h) ==
    /\ At(h, "run")
    /\ ssip' = [ssip EXCEPT ![h] = FALSE]
    /\ owe' = [owe EXCEPT ![h] = FALSE]
    /\ UNCHANGED <<pc, state, next, boot, msip, pend, mie, saved, call, told, ran, raced>>

(* wfi may return without an interrupt *)
SpuriousWfi(h) ==
    /\ \/ At(h, "wait_wfi") /\ Goto(h, "wait")
       \/ At(h, "su_ret")   /\ Goto(h, "su_back")
       \/ At(h, "su_wfi")   /\ Goto(h, "entry")
    /\ UNCHANGED <<state, next, boot, intr, call, hist>>

---------------------------------------------------------------------------
Step(h) ==
    \/ Entry(h) \/ ColdHsmInit(h) \/ IpiInit(h) \/ Wake(h) \/ Prepare(h) \/ Jump(h)
    \/ Mark(h) \/ Poll(h) \/ PollWfi(h) \/ Unmark(h) \/ GetState(h)
    \/ HartWait(h) \/ WaitWfi(h) \/ ResumeStart(h) \/ ResumeFinish(h)
    \/ StartWrite(h) \/ StartIpi(h) \/ IpiExit(h) \/ HsmExit(h)
    \/ SuspendWfi(h) \/ SuspendBack(h) \/ SuspendSave(h) \/ SuspendNonRetWfi(h)
    \/ ReadState(h) \/ SendBit(h) \/ SendMsip(h)
    \/ ResetStop(h) \/ TakeIpi(h)

Smode(h) ==
    \/ HartStart(h) \/ HartStop(h) \/ Suspend(h) \/ SendIpi(h) \/ SystemReset(h)
    \/ ClearSmode(h) \/ SpuriousWfi(h)

Next == \E h \in Hart : Step(h) \/ Smode(h)

(* Every hart is a processor of its own, so a step it can take is taken;    *)
(* what S-mode asks for is its own choice.                                  *)
Spec == Init /\ [][Next]_vars /\ \A h \in Hart : WF_vars(Step(h))

---------------------------------------------------------------------------
Pcs ==
    {"entry", "cold", "cold_ipi", "cold_done", "wake", "prepare", "jump", "mark",
     "poll", "poll_wfi", "unmark", "getstate", "wait", "wait_wfi", "warm_ipi", "cold_msip", "warm_msip",
     "scan", "send", "send_msip",
     "resume_start", "resume_finish", "run", "st_write", "st_ipi", "exit", "hsm_exit",
     "su_ret", "su_nonret", "su_wfi", "su_back", "reset", "hang"}

TypeOK ==
    /\ pc \in [Hart -> Pcs] /\ state \in [Hart -> States]
    /\ next \in [Hart -> Addr \cup {FwNext}]
    /\ lottery \in 0 .. 1 /\ coldboot_done \in BOOLEAN /\ inited \in BOOLEAN
    /\ waitMask \subseteq Hart
    /\ msip \in [Hart -> BOOLEAN] /\ pend \in [Hart -> SUBSET {"smode", "halt"}]
    /\ mie \in [Hart -> BOOLEAN] /\ ssip \in [Hart -> BOOLEAN]
    /\ saved \in [Hart -> [mie : BOOLEAN, ssip : BOOLEAN]]
    /\ tgt \in [Hart -> Hart] /\ arg \in [Hart -> Addr \cup {FwNext}]
    /\ event \in [Hart -> {"smode", "halt"}]
    /\ scan \in [Hart -> SUBSET Hart] /\ mask \in [Hart -> SUBSET Hart]
    /\ ops \in [Hart -> 0 .. MaxOps]
    /\ told \in [Hart -> Addr \cup {FwNext}] /\ ran \in [Hart -> Addr \cup {FwNext}]
    /\ raced \in [Hart -> BOOLEAN] /\ owe \in [Hart -> BOOLEAN]

(* No hart reaches sbi_hart_hang: every compare-and-exchange on the way     *)
(* through warm boot, stop, suspend and resume finds the state it expects   *)
(* ("It should never reach here" in sbi_hsm_exit).                          *)
NeverHangs == \A h \in Hart : pc[h] # "hang"

(* S-mode runs on no hart before one hart, and only one, has finished the   *)
(* cold boot (the lottery of sbi_init and wait_for_coldboot).               *)
ColdPcs == {"cold", "cold_ipi", "cold_msip", "cold_done", "wake"}

ColdBootFirst ==
    /\ \A g, h \in Hart : pc[g] \in ColdPcs /\ pc[h] \in ColdPcs => g = h
    /\ (\E h \in Hart : pc[h] \in ColdPcs) \/ ~coldboot_done =>
          \A h \in Hart : pc[h] \in {"entry", "mark", "poll", "poll_wfi", "unmark", "getstate",
                                     "wait", "wait_wfi"} \cup ColdPcs

(* The states of a hart that sbi_hsm.c may let follow one another, once     *)
(* sbi_hsm_init has set them.                                               *)
Follows ==
    {<<"STOPPED", "START_PENDING">>, <<"START_PENDING", "STARTED">>,
     <<"STARTED", "STOP_PENDING">>, <<"STOP_PENDING", "STOPPED">>,
     <<"STARTED", "SUSPENDED">>, <<"SUSPENDED", "STARTED">>,
     <<"SUSPENDED", "RESUME_PENDING">>, <<"RESUME_PENDING", "STARTED">>}

(* Every change of a hart state is one of those; and a hart that runs in    *)
(* S-mode is STARTED, so what sbi_hsm_hart_get_state reports is true.       *)
LegalTransitions ==
    [][\A h \in Hart :
         /\ inited /\ state'[h] # state[h] => <<state[h], state'[h]>> \in Follows
         /\ pc'[h] = "run" => state'[h] = "STARTED"]_vars

(* A hart that S-mode starts or that resumes runs at the address it was     *)
(* given, unless it got there while the hart that started it had still to   *)
(* write next_addr (sbi_hsm_hart_start writes it after the exchange).       *)
WrongAddressOnlyByLateStart ==
    \A h \in Hart : pc[h] = "run" /\ ran[h] # told[h] => raced[h]

(* SSIP that an IPI raised is still there when S-mode runs again, also      *)
(* after the warm entry cleared MIP during a non-retentive suspend          *)
(* (__sbi_hsm_suspend_non_ret_save and _restore).                           *)
SsipKept == \A h \in Hart : pc[h] = "run" /\ owe[h] => ssip[h]

(* A hart that waits for the cold boot is woken.                            *)
ColdWaitEnds == \A h \in Hart : pc[h] = "poll_wfi" ~> pc[h] = "getstate"

(* A start request that was accepted is carried out.                        *)
StartCompletes == \A t \in Hart : inited /\ state[t] = "START_PENDING" ~> state[t] = "STARTED"

(* An IPI sent to a suspended hart is taken: the warm path does not clear   *)
(* it ("clearing IPI here would result in losing an IPI in warm resume      *)
(* path") and gives the hart its MIE back.                                  *)
IpiReachesSuspended ==
    \A t \in Hart : state[t] = "SUSPENDED" /\ pend[t] # {} ~> pend[t] = {}
=============================================================================
