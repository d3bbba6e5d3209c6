---------------------------- MODULE SbiHsmProofs ----------------------------
(* The safety properties of SbiHsm, for any set of harts and any number of  *)
(* calls.                                                                   *)
EXTENDS SbiHsm, TLAPS

(* The places of a hart on the warm path, and those before sbi_hsm_init.    *)
Waiting == {"entry", "mark", "poll", "poll_wfi", "unmark", "getstate"}
Early == {"entry", "mark", "poll", "poll_wfi", "cold"}

(* The states a hart may have where it is: what every compare-and-exchange  *)
(* of sbi_hsm.c relies on.                                                  *)
PlaceOf(h) ==
    /\ pc[h] \in Waiting => state[h] \in {"STOPPED", "START_PENDING", "SUSPENDED"}
    /\ pc[h] \in {"wait", "wait_wfi"} => state[h] \in {"STOPPED", "START_PENDING"}
    /\ pc[h] \in {"cold_ipi", "cold_msip", "cold_done", "wake", "warm_ipi", "warm_msip", "prepare"}
          => state[h] = "START_PENDING"
    /\ pc[h] \in {"jump", "run", "st_write", "st_ipi", "scan", "send", "send_msip", "reset"}
          => state[h] = "STARTED"
    /\ pc[h] \in {"exit", "hsm_exit"} => state[h] = "STOP_PENDING"
    /\ pc[h] \in {"su_ret", "su_nonret", "su_wfi", "su_back", "resume_start"} => state[h] = "SUSPENDED"
    /\ pc[h] = "resume_finish" => state[h] = "RESUME_PENDING"
    /\ pc[h] \notin {"hang", "cold"}

PlaceInv ==
    \A h \in Hart : IF inited THEN PlaceOf(h) ELSE pc[h] \in Early /\ state[h] = "STARTED"

(* One hart does the cold boot; the others do not pass it.                  *)
BootInv ==
    /\ coldboot_done => inited
    /\ lottery = 0 => ~inited /\ \A h \in Hart : pc[h] = "entry"
    /\ \A g, h \in Hart : pc[g] \in ColdPcs /\ pc[h] \in ColdPcs => g = h
    /\ \A h \in Hart : pc[h] \in {"cold_ipi", "cold_msip", "cold_done"} => ~coldboot_done
    /\ ~coldboot_done => \A h \in Hart : pc[h] \in Early \cup {"cold_ipi", "cold_msip", "cold_done"}
    /\ \A g, h \in Hart :
         pc[h] \in {"cold_ipi", "cold_msip", "cold_done", "wake"} /\ g # h =>
            state[g] = "STOPPED" /\ pc[g] \in Waiting \cup {"wait", "wait_wfi"}

(* A hart that is to jump finds the address it was told in next_addr,       *)
(* unless a starter has still to write it or wrote late (raced); a starter  *)
(* writes the address its hart was told, unless the hart raced.             *)
Writer(g, h) == pc[g] = "st_write" /\ tgt[g] = h

WillJump(h) ==
    \/ state[h] \in {"START_PENDING", "RESUME_PENDING"}
    \/ pc[h] = "jump"
    \/ state[h] = "SUSPENDED" /\ pc[h] \notin {"su_ret", "su_back"}

HasJumped ==
    {"run", "st_write", "st_ipi", "scan", "send", "send_msip", "reset", "su_ret", "su_back"}

Untouched(h) == ~inited => next[h] = told[h]
RanRight(h) == pc[h] \in HasJumped => ran[h] = told[h] \/ raced[h]
NextRight(h) == WillJump(h) => next[h] = told[h] \/ raced[h] \/ \E g \in Hart : Writer(g, h)
WritersRight(h) ==
    \A g \in Hart : Writer(g, h) =>
        /\ WillJump(h) => arg[g] = told[h] \/ raced[h]
        /\ pc[h] \in HasJumped => raced[h]

AddrInv == \A h \in Hart : Untouched(h) /\ RanRight(h) /\ NextRight(h) /\ WritersRight(h)

(* SSIP that S-mode has not cleared is in MIP, or saved over a suspend.     *)
SsipInv ==
    \A h \in Hart : owe[h] =>
        \/ /\ pc[h] \in {"jump", "run", "st_write", "st_ipi", "scan", "send", "send_msip",
                         "reset", "exit", "su_ret", "su_nonret", "su_back"}
           /\ ssip[h]
        \/ /\ pc[h] \in Waiting \cup {"su_wfi", "resume_start", "resume_finish"}
           /\ state[h] \in {"SUSPENDED", "RESUME_PENDING"}
           /\ saved[h].ssip

IndInv == TypeOK /\ PlaceInv /\ BootInv /\ AddrInv /\ SsipInv

---------------------------------------------------------------------------
(* TypeOK by parts: the hart states, what boot and interrupts use, calls    *)
(* and history.                                                             *)
StateType == pc \in [Hart -> Pcs] /\ state \in [Hart -> States]

BootType ==
    /\ next \in [Hart -> Addr \cup {FwNext}]
    /\ lottery \in 0 .. 1 /\ coldboot_done \in BOOLEAN /\ inited \in BOOLEAN
    /\ waitMask \subseteq Hart

IntrType ==
    /\ msip \in [Hart -> BOOLEAN] /\ pend \in [Hart -> SUBSET {"smode", "halt"}]
    /\ mie \in [Hart -> BOOLEAN] /\ ssip \in [Hart -> BOOLEAN]
    /\ saved \in [Hart -> [mie : BOOLEAN, ssip : BOOLEAN]]

CallType ==
    /\ tgt \in [Hart -> Hart] /\ arg \in [Hart -> Addr \cup {FwNext}]
    /\ event \in [Hart -> {"smode", "halt"}]
    /\ scan \in [Hart -> SUBSET Hart] /\ mask \in [Hart -> SUBSET Hart]
    /\ ops \in [Hart -> 0 .. MaxOps]
    /\ told \in [Hart -> Addr \cup {FwNext}] /\ ran \in [Hart -> Addr \cup {FwNext}]
    /\ raced \in [Hart -> BOOLEAN] /\ owe \in [Hart -> BOOLEAN]

LEMMA TypeParts == StateType' /\ BootType' /\ IntrType' /\ CallType' => TypeOK'
BY DEF TypeOK, StateType, BootType, IntrType, CallType

(* A hart past the warm path runs after the cold boot.                      *)
LEMMA Booted ==
    ASSUME TypeOK, PlaceInv, BootInv, NEW h \in Hart,
           pc[h] \notin Waiting \cup ColdPcs \cup {"wait", "wait_wfi"}
    PROVE  inited /\ coldboot_done /\ lottery = 1 /\ \A g \in Hart : pc[g] \notin ColdPcs
BY DEF TypeOK, PlaceInv, PlaceOf, BootInv, Waiting, Early, ColdPcs

(* Nothing of BootInv is left to show once no hart is in the cold boot.     *)
LEMMA LateBoot ==
    ASSUME inited', coldboot_done', lottery' = 1, \A g \in Hart : pc'[g] \notin ColdPcs
    PROVE  BootInv'
BY DEF BootInv, ColdPcs

(* SSIP is owed to a hart at the warm entry only after the cold boot.       *)
LEMMA Drawn ==
    ASSUME TypeOK, PlaceInv, BootInv, SsipInv, NEW h \in Hart, owe[h]
    PROVE  lottery = 1
<1>1. CASE inited
  BY <1>1 DEF TypeOK, BootInv
<1>2. CASE ~inited
  BY <1>2 DEF PlaceInv, SsipInv, Early
<1> QED
  BY <1>1, <1>2

(* One look at a hart state: where the hart goes, and what it knows.        *)
LEMMA ReadMoves ==
    ASSUME TypeOK, NEW h \in Hart, ReadState(h)
    PROVE  /\ pc[h] = "scan" /\ UNCHANGED <<state, next, boot, intr, tgt, arg, ops, hist>>
           /\ \E q \in {"scan", "send", "reset", "run"} : pc' = [pc EXCEPT ![h] = q]
           /\ \E e \in {"smode", "halt"} : event' = [event EXCEPT ![h] = e]
           /\ \E m \in SUBSET Hart : mask' = [mask EXCEPT ![h] = m]
           /\ \E m \in SUBSET Hart : scan' = [scan EXCEPT ![h] = m]
<1> DEFINE wanted(t) == state[t] \in {"STARTED", "SUSPENDED"} /\ (event[h] = "halt" => t # h)
           found(t) == IF wanted(t) THEN mask[h] \cup {t} ELSE mask[h]
<1>1. PICK t \in scan[h] :
         /\ scan' = [scan EXCEPT ![h] = @ \ {t}]
         /\ mask' = [mask EXCEPT ![h] = found(t)]
         /\ IF scan[h] = {t} THEN Onward(h, found(t)) ELSE UNCHANGED <<pc, event>>
  BY DEF ReadState
<1>2. /\ mask[h] \in SUBSET Hart /\ scan[h] \in SUBSET Hart /\ t \in Hart
      /\ event[h] \in {"smode", "halt"} /\ event \in [Hart -> {"smode", "halt"}]
      /\ pc \in [Hart -> Pcs]
  BY <1>1 DEF TypeOK
<1>3. found(t) \in SUBSET Hart
  BY <1>2
<1> HIDE DEF found
<1>4. pc[h] = "scan" /\ UNCHANGED <<state, next, boot, intr, tgt, arg, ops, hist>>
  BY DEF ReadState, At
<1>5. CASE scan[h] = {t}
  <2>1. /\ \E q \in {"scan", "send", "reset", "run"} : pc' = [pc EXCEPT ![h] = q]
        /\ \E e \in {"smode", "halt"} : event' = [event EXCEPT ![h] = e]
    BY <1>1, <1>2, <1>5 DEF Onward, Goto
  <2> QED
    BY <1>1, <1>2, <1>3, <1>4, <2>1
<1>6. CASE scan[h] # {t}
  <2>1. UNCHANGED <<pc, event>>
    BY <1>1, <1>6
  <2>2. pc' = [pc EXCEPT ![h] = "scan"] /\ event' = [event EXCEPT ![h] = event[h]]
    BY <1>2, <1>4, <2>1
  <2> QED
    BY <1>1, <1>2, <1>3, <1>4, <2>2
<1> QED
  BY <1>5, <1>6

(* Each step keeps the types.                                               *)
LEMMA TypeStep ==
    ASSUME TypeOK, NEW h \in Hart, Step(h) \/ Smode(h)
    PROVE  TypeOK'
<1> USE DEF boot, intr, ipis, call, hist, At, Goto, TypeOK, NotSaved, States, Pcs
<1>1. CASE Entry(h)
  BY <1>1 DEF Entry, Draw
<1>2. CASE ColdHsmInit(h)
  BY <1>2 DEF ColdHsmInit
<1>3. CASE IpiInit(h)
  BY <1>3 DEF IpiInit
<1>4. CASE Wake(h)
  <2>1. StateType'
    <3>1. UNCHANGED state /\ \E q \in {"wake", "prepare"} : pc' = [pc EXCEPT ![h] = q]
      BY <1>4 DEF Wake
    <3> QED
      BY <3>1 DEF StateType
  <2>2. BootType'
    BY <1>4 DEF Wake, BootType
  <2>3. IntrType'
    <3>1. UNCHANGED <<pend, mie, ssip, saved>>
      BY <1>4 DEF Wake
    <3>2. \/ msip' = msip
          \/ msip' = [g \in Hart |-> msip[g] \/ (g # h /\ g \in waitMask)]
      BY <1>4 DEF Wake
    <3>3. msip' \in [Hart -> BOOLEAN]
      BY <3>2, Zenon
    <3> QED
      BY <3>1, <3>3 DEF IntrType
  <2>4. CallType'
    BY <1>4 DEF Wake, CallType
  <2> QED
    BY <2>1, <2>2, <2>3, <2>4, TypeParts
<1>5. CASE Prepare(h)
  <2>1. StateType'
    <3>1. Cas(h, h, "START_PENDING", "STARTED", "jump", "hang")
      BY <1>5 DEF Prepare
    <3>2. CASE state[h] = "START_PENDING"
      BY <3>1, <3>2 DEF Cas, StateType, States, Pcs
    <3>3. CASE state[h] /= "START_PENDING"
      BY <3>1, <3>3 DEF Cas, StateType, States, Pcs
    <3> QED
      BY <3>2, <3>3
  <2>2. BootType'
    BY <1>5 DEF Prepare, Cas, BootType
  <2>3. IntrType'
    BY <1>5 DEF Prepare, Cas, IntrType, NotSaved
  <2>4. CallType'
    BY <1>5 DEF Prepare, Cas, CallType
  <2> QED
    BY <2>1, <2>2, <2>3, <2>4, TypeParts
<1>6. CASE Jump(h)
  BY <1>6 DEF Jump
<1>7. CASE Mark(h)
  BY <1>7 DEF Mark
<1>8. CASE Poll(h)
  BY <1>8 DEF Poll
<1>9. CASE PollWfi(h)
  BY <1>9 DEF PollWfi
<1>10. CASE Unmark(h)
  BY <1>10 DEF Unmark
<1>11. CASE GetState(h)
  BY <1>11 DEF GetState
<1>12. CASE HartWait(h)
  <2>1. StateType'
    <3>1. UNCHANGED state /\ \E q \in {"warm_ipi", "wait_wfi"} : pc' = [pc EXCEPT ![h] = q]
      BY <1>12 DEF HartWait
    <3> QED
      BY <3>1 DEF StateType
  <2>2. BootType'
    BY <1>12 DEF HartWait, BootType
  <2>3. IntrType'
    BY <1>12 DEF HartWait, IntrType
  <2>4. CallType'
    BY <1>12 DEF HartWait, CallType
  <2> QED
    BY <2>1, <2>2, <2>3, <2>4, TypeParts
<1>13. CASE WaitWfi(h)
  BY <1>13 DEF WaitWfi
<1>14. CASE ResumeStart(h)
  <2>1. StateType'
    <3>1. Cas(h, h, "SUSPENDED", "RESUME_PENDING", "resume_finish", "hang")
      BY <1>14 DEF ResumeStart
    <3>2. CASE state[h] = "SUSPENDED"
      BY <3>1, <3>2 DEF Cas, StateType, States, Pcs
    <3>3. CASE state[h] /= "SUSPENDED"
      BY <3>1, <3>3 DEF Cas, StateType, States, Pcs
    <3> QED
      BY <3>2, <3>3
  <2>2. BootType'
    BY <1>14 DEF ResumeStart, Cas, BootType
  <2>3. IntrType'
    BY <1>14 DEF ResumeStart, Cas, IntrType, NotSaved
  <2>4. CallType'
    BY <1>14 DEF ResumeStart, Cas, CallType
  <2> QED
    BY <2>1, <2>2, <2>3, <2>4, TypeParts
<1>15. CASE ResumeFinish(h)
  <2>1. StateType'
    <3>1. Cas(h, h, "RESUME_PENDING", "STARTED", "jump", "hang")
      BY <1>15 DEF ResumeFinish
    <3>2. CASE state[h] = "RESUME_PENDING"
      BY <3>1, <3>2 DEF Cas, StateType, States, Pcs
    <3>3. CASE state[h] /= "RESUME_PENDING"
      BY <3>1, <3>3 DEF Cas, StateType, States, Pcs
    <3> QED
      BY <3>2, <3>3
  <2>2. BootType'
    BY <1>15 DEF ResumeFinish, Cas, Restored, BootType
  <2>3. IntrType'
    BY <1>15 DEF ResumeFinish, Cas, Restored, IntrType, NotSaved
  <2>4. CallType'
    BY <1>15 DEF ResumeFinish, Cas, Restored, CallType
  <2> QED
    BY <2>1, <2>2, <2>3, <2>4, TypeParts
<1>16. CASE StartWrite(h)
  BY <1>16 DEF StartWrite
<1>17. CASE StartIpi(h)
  BY <1>17 DEF StartIpi
<1>18. CASE IpiExit(h)
  BY <1>18 DEF IpiExit
<1>19. CASE HsmExit(h)
  <2>1. StateType'
    <3>1. Cas(h, h, "STOP_PENDING", "STOPPED", "entry", "hang")
      BY <1>19 DEF HsmExit
    <3>2. CASE state[h] = "STOP_PENDING"
      BY <3>1, <3>2 DEF Cas, StateType, States, Pcs
    <3>3. CASE state[h] /= "STOP_PENDING"
      BY <3>1, <3>3 DEF Cas, StateType, States, Pcs
    <3> QED
      BY <3>2, <3>3
  <2>2. BootType'
    BY <1>19 DEF HsmExit, Cas, BootType
  <2>3. IntrType'
    BY <1>19 DEF HsmExit, Cas, IntrType, NotSaved
  <2>4. CallType'
    BY <1>19 DEF HsmExit, Cas, CallType
  <2> QED
    BY <2>1, <2>2, <2>3, <2>4, TypeParts
<1>20. CASE SuspendWfi(h)
  BY <1>20 DEF SuspendWfi
<1>21. CASE SuspendBack(h)
  <2>1. StateType'
    <3>1. Cas(h, h, "SUSPENDED", "STARTED", "run", "hang")
      BY <1>21 DEF SuspendBack
    <3>2. CASE state[h] = "SUSPENDED"
      BY <3>1, <3>2 DEF Cas, StateType, States, Pcs
    <3>3. CASE state[h] /= "SUSPENDED"
      BY <3>1, <3>3 DEF Cas, StateType, States, Pcs
    <3> QED
      BY <3>2, <3>3
  <2>2. BootType'
    BY <1>21 DEF SuspendBack, Cas, BootType
  <2>3. IntrType'
    BY <1>21 DEF SuspendBack, Cas, IntrType, NotSaved
  <2>4. CallType'
    BY <1>21 DEF SuspendBack, Cas, CallType
  <2> QED
    BY <2>1, <2>2, <2>3, <2>4, TypeParts
<1>22. CASE SuspendSave(h)
  BY <1>22 DEF SuspendSave
<1>23. CASE SuspendNonRetWfi(h)
  BY <1>23 DEF SuspendNonRetWfi
<1>24. CASE ResetStop(h)
  <2>1. StateType'
    <3>1. Cas(h, h, "STARTED", "STOP_PENDING", "exit", "exit")
      BY <1>24 DEF ResetStop
    <3>2. CASE state[h] = "STARTED"
      BY <3>1, <3>2 DEF Cas, StateType, States, Pcs
    <3>3. CASE state[h] /= "STARTED"
      BY <3>1, <3>3 DEF Cas, StateType, States, Pcs
    <3> QED
      BY <3>2, <3>3
  <2>2. BootType'
    BY <1>24 DEF ResetStop, Cas, BootType
  <2>3. IntrType'
    BY <1>24 DEF ResetStop, Cas, IntrType, NotSaved
  <2>4. CallType'
    BY <1>24 DEF ResetStop, Cas, CallType
  <2> QED
    BY <2>1, <2>2, <2>3, <2>4, TypeParts
<1>25. CASE TakeIpi(h)
  <2>1. StateType'
    <3>1. CASE "halt" \in pend[h] /\ state[h] = "STARTED"
      BY <1>25, <3>1 DEF TakeIpi, Cas, StateType, States, Pcs
    <3>2. CASE "halt" \in pend[h] /\ state[h] /= "STARTED"
      BY <1>25, <3>2 DEF TakeIpi, Cas, StateType, States, Pcs
    <3>3. CASE "halt" \notin pend[h]
      BY <1>25, <3>3 DEF TakeIpi, StateType, States, Pcs
    <3> QED
      BY <3>1, <3>2, <3>3
  <2>2. BootType'
    BY <1>25 DEF TakeIpi, Cas, BootType
  <2>3. IntrType'
    BY <1>25 DEF TakeIpi, Cas, IntrType, NotSaved
  <2>4. CallType'
    BY <1>25 DEF TakeIpi, Cas, CallType
  <2> QED
    BY <2>1, <2>2, <2>3, <2>4, TypeParts
<1>26. CASE HartStart(h)
  <2>1. StateType'
    <3>1. PICK t \in Hart : Cas(h, t, "STOPPED", "START_PENDING", "st_write", "run")
      BY <1>26 DEF HartStart
    <3>2. CASE state[t] = "STOPPED"
      BY <3>1, <3>2 DEF Cas, StateType, States, Pcs
    <3>3. CASE state[t] /= "STOPPED"
      BY <3>1, <3>3 DEF Cas, StateType, States, Pcs
    <3> QED
      BY <3>2, <3>3
  <2>2. BootType'
    BY <1>26 DEF HartStart, Cas, CallBegins, BootType
  <2>3. IntrType'
    BY <1>26 DEF HartStart, Cas, CallBegins, IntrType, NotSaved
  <2>4. CallType'
    BY <1>26, HsmAssumption DEF HartStart, Cas, CallBegins, CallType
  <2> QED
    BY <2>1, <2>2, <2>3, <2>4, TypeParts
<1>27. CASE HartStop(h)
  <2>1. StateType'
    <3>1. Cas(h, h, "STARTED", "STOP_PENDING", "exit", "run")
      BY <1>27 DEF HartStop
    <3>2. CASE state[h] = "STARTED"
      BY <3>1, <3>2 DEF Cas, StateType, States, Pcs
    <3>3. CASE state[h] /= "STARTED"
      BY <3>1, <3>3 DEF Cas, StateType, States, Pcs
    <3> QED
      BY <3>2, <3>3
  <2>2. BootType'
    BY <1>27 DEF HartStop, Cas, CallBegins, BootType
  <2>3. IntrType'
    BY <1>27 DEF HartStop, Cas, CallBegins, IntrType, NotSaved
  <2>4. CallType'
    BY <1>27, HsmAssumption DEF HartStop, Cas, CallBegins, CallType
  <2> QED
    BY <2>1, <2>2, <2>3, <2>4, TypeParts
<1>28. CASE Suspend(h)
  <2>1. StateType'
    <3>1. PICK p \in {"su_ret", "su_nonret", "su_back"} : Cas(h, h, "STARTED", "SUSPENDED", p, "hang")
      BY <1>28 DEF Suspend
    <3>2. CASE state[h] = "STARTED"
      <4>1. state' = [state EXCEPT ![h] = "SUSPENDED"] /\ pc' = [pc EXCEPT ![h] = p] /\ p \in Pcs
        BY <3>1, <3>2 DEF Cas
      <4> QED
        BY <4>1 DEF StateType
    <3>3. CASE state[h] /= "STARTED"
      BY <3>1, <3>3 DEF Cas, StateType, States, Pcs
    <3> QED
      BY <3>2, <3>3
  <2>2. BootType'
    BY <1>28 DEF Suspend, Cas, CallBegins, BootType
  <2>3. IntrType'
    BY <1>28 DEF Suspend, Cas, CallBegins, IntrType, NotSaved
  <2>4. CallType'
    BY <1>28, HsmAssumption DEF Suspend, Cas, CallBegins, CallType
  <2> QED
    BY <2>1, <2>2, <2>3, <2>4, TypeParts
<1>29. CASE SendIpi(h)
  <2>1. StateType'
    BY <1>29 DEF SendIpi, SendMany, CallBegins, StateType, States, Pcs
  <2>2. BootType'
    BY <1>29 DEF SendIpi, SendMany, CallBegins, BootType
  <2>3. IntrType'
    BY <1>29 DEF SendIpi, SendMany, CallBegins, IntrType, NotSaved
  <2>4. CallType'
    BY <1>29, HsmAssumption DEF SendIpi, SendMany, CallBegins, CallType
  <2> QED
    BY <2>1, <2>2, <2>3, <2>4, TypeParts
<1>30. CASE SystemReset(h)
  <2>1. StateType'
    BY <1>30 DEF SystemReset, SendMany, CallBegins, StateType, States, Pcs
  <2>2. BootType'
    BY <1>30 DEF SystemReset, SendMany, CallBegins, BootType
  <2>3. IntrType'
    BY <1>30 DEF SystemReset, SendMany, CallBegins, IntrType, NotSaved
  <2>4. CallType'
    BY <1>30, HsmAssumption DEF SystemReset, SendMany, CallBegins, CallType
  <2> QED
    BY <2>1, <2>2, <2>3, <2>4, TypeParts
<1>31. CASE ClearSmode(h)
  BY <1>31 DEF ClearSmode
<1>32. CASE SpuriousWfi(h)
  <2>1. StateType'
    BY <1>32 DEF SpuriousWfi, StateType
  <2>2. BootType'
    BY <1>32 DEF SpuriousWfi, BootType
  <2>3. IntrType'
    BY <1>32 DEF SpuriousWfi, IntrType
  <2>4. CallType'
    BY <1>32 DEF SpuriousWfi, CallType
  <2> QED
    BY <2>1, <2>2, <2>3, <2>4, TypeParts
<1>33. CASE ReadState(h)
  <2>0. /\ UNCHANGED <<state, next, boot, intr, tgt, arg, ops, hist>>
        /\ \E q \in {"scan", "send", "reset", "run"} : pc' = [pc EXCEPT ![h] = q]
        /\ \E e \in {"smode", "halt"} : event' = [event EXCEPT ![h] = e]
        /\ \E m \in SUBSET Hart : mask' = [mask EXCEPT ![h] = m]
        /\ \E m \in SUBSET Hart : scan' = [scan EXCEPT ![h] = m]
    BY <1>33, ReadMoves
  <2>1. StateType'
    BY <2>0 DEF StateType
  <2>2. BootType'
    BY <2>0 DEF BootType
  <2>3. IntrType'
    BY <2>0 DEF IntrType
  <2>4. CallType'
    BY <2>0 DEF CallType
  <2> QED
    BY <2>1, <2>2, <2>3, <2>4, TypeParts
<1>34. CASE SendBit(h)
  <2>1. StateType'
    BY <1>34 DEF SendBit, StateType
  <2>2. BootType'
    BY <1>34 DEF SendBit, BootType
  <2>3. IntrType'
    BY <1>34 DEF SendBit, IntrType
  <2>4. CallType'
    BY <1>34 DEF SendBit, CallType
  <2> QED
    BY <2>1, <2>2, <2>3, <2>4, TypeParts
<1>35. CASE SendMsip(h)
  <2>1. StateType'
    BY <1>35 DEF SendMsip, Onward, StateType
  <2>2. BootType'
    BY <1>35 DEF SendMsip, Onward, BootType
  <2>3. IntrType'
    BY <1>35 DEF SendMsip, Onward, IntrType
  <2>4. CallType'
    BY <1>35 DEF SendMsip, Onward, CallType
  <2> QED
    BY <2>1, <2>2, <2>3, <2>4, TypeParts
<1> QED
  BY <1>1, <1>2, <1>3, <1>4, <1>5, <1>6, <1>7, <1>8, <1>9, <1>10, <1>11, <1>12, <1>13,
     <1>14, <1>15, <1>16, <1>17, <1>18, <1>19, <1>20, <1>21, <1>22, <1>23, <1>24, <1>25,
     <1>26, <1>27, <1>28, <1>29, <1>30, <1>31, <1>32, <1>33, <1>34, <1>35 DEF Step, Smode

(* Each step moves its hart to a place that goes with the hart's state.     *)
LEMMA PlaceStep ==
    ASSUME TypeOK, PlaceInv, BootInv, NEW h \in Hart, Step(h) \/ Smode(h)
    PROVE  PlaceInv'
<1> USE DEF boot, intr, ipis, call, hist, At, Goto, TypeOK, PlaceInv, PlaceOf, BootInv, Waiting,
   Early, ColdPcs
<1>1. CASE Entry(h)
  BY <1>1 DEF Entry, Draw
<1>2. CASE ColdHsmInit(h)
  <2>1. pc[h] = "cold" /\ inited' /\ pc' = [pc EXCEPT ![h] = "cold_ipi"]
        /\ state' = [g \in Hart |-> IF g = h THEN "START_PENDING" ELSE "STOPPED"]
    BY <1>2 DEF ColdHsmInit
  <2>2. ~inited
    BY <2>1
  <2>3. \A g \in Hart \ {h} : pc'[g] \in {"entry", "mark", "poll", "poll_wfi"}
    BY <2>1, <2>2
  <2>4. PlaceOf(h)'
    BY <2>1
  <2>5. ASSUME NEW g \in Hart \ {h} PROVE PlaceOf(g)'
    BY <2>1, <2>3
  <2> QED
    BY <2>1, <2>4, <2>5 DEF PlaceInv
<1>3. CASE IpiInit(h)
  BY <1>3 DEF IpiInit
<1>4. CASE Wake(h)
  BY <1>4 DEF Wake
<1>5. CASE Prepare(h)
  BY <1>5 DEF Prepare, Cas
<1>6. CASE Jump(h)
  BY <1>6 DEF Jump
<1>7. CASE Mark(h)
  BY <1>7 DEF Mark
<1>8. CASE Poll(h)
  BY <1>8 DEF Poll
<1>9. CASE PollWfi(h)
  BY <1>9 DEF PollWfi
<1>10. CASE Unmark(h)
  BY <1>10 DEF Unmark
<1>11. CASE GetState(h)
  BY <1>11 DEF GetState
<1>12. CASE HartWait(h)
  BY <1>12 DEF HartWait
<1>13. CASE WaitWfi(h)
  BY <1>13 DEF WaitWfi
<1>14. CASE ResumeStart(h)
  BY <1>14 DEF ResumeStart, Cas
<1>15. CASE ResumeFinish(h)
  BY <1>15 DEF ResumeFinish, Cas, Restored
<1>16. CASE StartWrite(h)
  BY <1>16 DEF StartWrite
<1>17. CASE StartIpi(h)
  BY <1>17 DEF StartIpi
<1>18. CASE IpiExit(h)
  BY <1>18 DEF IpiExit
<1>19. CASE HsmExit(h)
  BY <1>19 DEF HsmExit, Cas
<1>20. CASE SuspendWfi(h)
  BY <1>20 DEF SuspendWfi
<1>21. CASE SuspendBack(h)
  BY <1>21 DEF SuspendBack, Cas
<1>22. CASE SuspendSave(h)
  BY <1>22 DEF SuspendSave
<1>23. CASE SuspendNonRetWfi(h)
  BY <1>23 DEF SuspendNonRetWfi
<1>24. CASE ResetStop(h)
  BY <1>24 DEF ResetStop, Cas
<1>25. CASE TakeIpi(h)
  <2>1. pc[h] = "run" /\ inited /\ state[h] = "STARTED" /\ UNCHANGED inited
    BY <1>25 DEF TakeIpi
  <2>2. \/ UNCHANGED <<pc, state>>
        \/ pc' = [pc EXCEPT ![h] = "exit"] /\ state' = [state EXCEPT ![h] = "STOP_PENDING"]
    BY <1>25, <2>1 DEF TakeIpi, Cas
  <2> QED
    BY <2>1, <2>2
<1>26. CASE HartStart(h)
  <2>1. PICK t \in Hart : pc[h] = "run" /\ state[t] = "STOPPED" /\ UNCHANGED <<boot, intr, owe>>
           /\ Cas(h, t, "STOPPED", "START_PENDING", "st_write", "run")
    BY <1>26 DEF HartStart, CallBegins
  <2>2. pc' = [pc EXCEPT ![h] = "st_write"] /\ state' = [state EXCEPT ![t] = "START_PENDING"]
    BY <2>1 DEF Cas
  <2>3. inited /\ inited' /\ state[h] = "STARTED" /\ t # h
    BY <2>1
  <2>4. PlaceOf(t)'
    BY <2>1, <2>2, <2>3
  <2>5. ASSUME NEW g \in Hart \ {t} PROVE PlaceOf(g)'
    BY <2>1, <2>2, <2>3
  <2> QED
    BY <2>3, <2>4, <2>5 DEF PlaceInv
<1>27. CASE HartStop(h)
  BY <1>27 DEF HartStop, Cas, CallBegins
<1>28. CASE Suspend(h)
  BY <1>28 DEF Suspend, Cas, CallBegins
<1>29. CASE SendIpi(h)
  BY <1>29 DEF SendIpi, SendMany, CallBegins
<1>30. CASE SystemReset(h)
  BY <1>30 DEF SystemReset, SendMany, CallBegins
<1>31. CASE ClearSmode(h)
  BY <1>31 DEF ClearSmode
<1>32. CASE SpuriousWfi(h)
  BY <1>32 DEF SpuriousWfi
<1>33. CASE ReadState(h)
  <2>1. /\ pc[h] = "scan" /\ UNCHANGED <<state, next, boot, intr, tgt, arg, ops, hist>>
        /\ \E q \in {"scan", "send", "reset", "run"} : pc' = [pc EXCEPT ![h] = q]
    BY <1>33, ReadMoves
  <2> QED
    BY <2>1
<1>34. CASE SendBit(h)
  BY <1>34 DEF SendBit
<1>35. CASE SendMsip(h)
  BY <1>35 DEF SendMsip, Onward
<1> QED
  BY <1>1, <1>2, <1>3, <1>4, <1>5, <1>6, <1>7, <1>8, <1>9, <1>10, <1>11, <1>12, <1>13,
     <1>14, <1>15, <1>16, <1>17, <1>18, <1>19, <1>20, <1>21, <1>22, <1>23, <1>24, <1>25,
     <1>26, <1>27, <1>28, <1>29, <1>30, <1>31, <1>32, <1>33, <1>34, <1>35 DEF Step, Smode

(* Each step respects the order of the cold boot.                           *)
LEMMA BootStep ==
    ASSUME TypeOK, PlaceInv, BootInv, NEW h \in Hart, Step(h) \/ Smode(h)
    PROVE  BootInv'
<1> USE DEF boot, intr, ipis, call, hist, At, Goto, TypeOK, PlaceInv, PlaceOf, BootInv, Waiting,
   Early, ColdPcs
<1>1. CASE Entry(h)
  BY <1>1 DEF Entry, Draw
<1>2. CASE ColdHsmInit(h)
  BY <1>2 DEF ColdHsmInit
<1>3. CASE IpiInit(h)
  <2>1. UNCHANGED <<boot, state>>
    BY <1>3 DEF IpiInit
  <2>2. \/ pc[h] = "cold_ipi" /\ pc' = [pc EXCEPT ![h] = "cold_msip"]
        \/ pc[h] = "cold_msip" /\ pc' = [pc EXCEPT ![h] = "cold_done"]
        \/ pc[h] = "warm_ipi" /\ pc' = [pc EXCEPT ![h] = "warm_msip"]
        \/ pc[h] = "warm_msip" /\ pc' = [pc EXCEPT ![h] = "prepare"]
    BY <1>3 DEF IpiInit
  <2>3. CASE pc[h] = "cold_ipi" /\ pc' = [pc EXCEPT ![h] = "cold_msip"]
    BY <2>1, <2>3
  <2>4. CASE pc[h] = "cold_msip" /\ pc' = [pc EXCEPT ![h] = "cold_done"]
    BY <2>1, <2>4
  <2>5. CASE pc[h] \in {"warm_ipi", "warm_msip"}
    <3>1. inited /\ coldboot_done /\ lottery = 1 /\ \A g \in Hart : pc[g] \notin ColdPcs
      BY <2>5, Booted
    <3>2. inited' /\ coldboot_done' /\ lottery' = 1 /\ \A g \in Hart : pc'[g] \notin ColdPcs
      BY <2>1, <2>2, <2>5, <3>1
    <3> QED
      BY <3>2, LateBoot
  <2> QED
    BY <2>2, <2>3, <2>4, <2>5
<1>4. CASE Wake(h)
  <2>1. CASE pc[h] = "cold_done"
    <3>1. coldboot_done' /\ inited' /\ inited /\ lottery' /= 0
      BY <1>4, <2>1 DEF Wake
    <3>2. pc' = [pc EXCEPT ![h] = "wake"] /\ UNCHANGED state
      BY <1>4, <2>1 DEF Wake
    <3>3. (\A g, x \in Hart : pc[g] \in ColdPcs /\ pc[x] \in ColdPcs => g = x)'
      BY <3>2, <2>1
    <3>4. (\A x \in Hart : pc[x] \in {"cold_ipi", "cold_msip", "cold_done"} => ~coldboot_done)'
      BY <3>2, <2>1
    <3>5. (\A g, x \in Hart : pc[x] \in {"cold_ipi", "cold_msip", "cold_done", "wake"} /\ g /= x =>
              state[g] = "STOPPED" /\ pc[g] \in Waiting \cup {"wait", "wait_wfi"})'
      BY <3>2, <2>1
    <3> QED
      BY <3>1, <3>3, <3>4, <3>5
  <2>2. CASE pc[h] = "wake"
    BY <1>4, <2>2 DEF Wake
  <2> QED
    BY <1>4, <2>1, <2>2 DEF Wake
<1>5. CASE Prepare(h)
  BY <1>5 DEF Prepare, Cas
<1>6. CASE Jump(h)
  BY <1>6 DEF Jump
<1>7. CASE Mark(h)
  BY <1>7 DEF Mark
<1>8. CASE Poll(h)
  BY <1>8 DEF Poll
<1>9. CASE PollWfi(h)
  BY <1>9 DEF PollWfi
<1>10. CASE Unmark(h)
  BY <1>10 DEF Unmark
<1>11. CASE GetState(h)
  BY <1>11 DEF GetState
<1>12. CASE HartWait(h)
  BY <1>12 DEF HartWait
<1>13. CASE WaitWfi(h)
  BY <1>13 DEF WaitWfi
<1>14. CASE ResumeStart(h)
  BY <1>14 DEF ResumeStart, Cas
<1>15. CASE ResumeFinish(h)
  <2>1. inited /\ coldboot_done /\ lottery = 1 /\ \A g \in Hart : pc[g] \notin ColdPcs
    BY <1>15, Booted DEF ResumeFinish, Cas, Restored
  <2>2. inited' /\ coldboot_done' /\ lottery' = 1 /\ \A g \in Hart : pc'[g] \notin ColdPcs
    BY <1>15, <2>1 DEF ResumeFinish, Cas, Restored
  <2> QED
    BY <2>2, LateBoot
<1>16. CASE StartWrite(h)
  BY <1>16 DEF StartWrite
<1>17. CASE StartIpi(h)
  BY <1>17 DEF StartIpi
<1>18. CASE IpiExit(h)
  BY <1>18 DEF IpiExit
<1>19. CASE HsmExit(h)
  BY <1>19 DEF HsmExit, Cas
<1>20. CASE SuspendWfi(h)
  BY <1>20 DEF SuspendWfi
<1>21. CASE SuspendBack(h)
  <2>1. inited /\ coldboot_done /\ lottery = 1 /\ \A g \in Hart : pc[g] \notin ColdPcs
    BY <1>21, Booted DEF SuspendBack
  <2>2. inited' /\ coldboot_done' /\ lottery' = 1 /\ \A g \in Hart : pc'[g] \notin ColdPcs
    BY <1>21, <2>1 DEF SuspendBack, Cas
  <2> QED
    BY <2>2, LateBoot
<1>22. CASE SuspendSave(h)
  BY <1>22 DEF SuspendSave
<1>23. CASE SuspendNonRetWfi(h)
  BY <1>23 DEF SuspendNonRetWfi
<1>24. CASE ResetStop(h)
  BY <1>24 DEF ResetStop, Cas
<1>25. CASE TakeIpi(h)
  BY <1>25 DEF TakeIpi, Cas
<1>26. CASE HartStart(h)
  <2>1. PICK t \in Hart : pc[h] = "run" /\ state[t] = "STOPPED" /\ UNCHANGED <<boot, intr, owe>>
           /\ Cas(h, t, "STOPPED", "START_PENDING", "st_write", "run")
    BY <1>26 DEF HartStart, CallBegins
  <2>2. pc' = [pc EXCEPT ![h] = "st_write"] /\ state' = [state EXCEPT ![t] = "START_PENDING"]
    BY <2>1 DEF Cas
  <2>3. inited /\ coldboot_done /\ lottery = 1 /\ \A g \in Hart : pc[g] \notin ColdPcs
    BY <2>1, Booted
  <2>4. inited' /\ coldboot_done' /\ lottery' = 1 /\ \A g \in Hart : pc'[g] \notin ColdPcs
    BY <2>1, <2>2, <2>3
  <2> QED
    BY <2>4, LateBoot
<1>27. CASE HartStop(h)
  <2>1. inited /\ coldboot_done /\ lottery = 1 /\ \A g \in Hart : pc[g] \notin ColdPcs
    BY <1>27, Booted DEF HartStop, Cas, CallBegins
  <2>2. inited' /\ coldboot_done' /\ lottery' = 1 /\ \A g \in Hart : pc'[g] \notin ColdPcs
    BY <1>27, <2>1 DEF HartStop, Cas, CallBegins
  <2> QED
    BY <2>2, LateBoot
<1>28. CASE Suspend(h)
  BY <1>28 DEF Suspend, Cas, CallBegins
<1>29. CASE SendIpi(h)
  BY <1>29 DEF SendIpi, SendMany, CallBegins
<1>30. CASE SystemReset(h)
  BY <1>30 DEF SystemReset, SendMany, CallBegins
<1>31. CASE ClearSmode(h)
  BY <1>31 DEF ClearSmode
<1>32. CASE SpuriousWfi(h)
  <2>1. CASE pc[h] = "wait_wfi"
    BY <1>32, <2>1 DEF SpuriousWfi
  <2>2. CASE pc[h] \in {"su_ret", "su_wfi"}
    <3>1. inited /\ coldboot_done /\ lottery = 1 /\ \A g \in Hart : pc[g] \notin ColdPcs
      BY <2>2, Booted
    <3>2. inited' /\ coldboot_done' /\ lottery' = 1 /\ \A g \in Hart : pc'[g] \notin ColdPcs
      BY <1>32, <2>2, <3>1 DEF SpuriousWfi
    <3> QED
      BY <3>2, LateBoot
  <2> QED
    BY <1>32, <2>1, <2>2 DEF SpuriousWfi
<1>33. CASE ReadState(h)
  <2>1. /\ pc[h] = "scan" /\ UNCHANGED <<state, next, boot, intr, tgt, arg, ops, hist>>
        /\ \E q \in {"scan", "send", "reset", "run"} : pc' = [pc EXCEPT ![h] = q]
    BY <1>33, ReadMoves
  <2> QED
    BY <2>1
<1>34. CASE SendBit(h)
  BY <1>34 DEF SendBit
<1>35. CASE SendMsip(h)
  BY <1>35 DEF SendMsip, Onward
<1> QED
  BY <1>1, <1>2, <1>3, <1>4, <1>5, <1>6, <1>7, <1>8, <1>9, <1>10, <1>11, <1>12, <1>13,
     <1>14, <1>15, <1>16, <1>17, <1>18, <1>19, <1>20, <1>21, <1>22, <1>23, <1>24, <1>25,
     <1>26, <1>27, <1>28, <1>29, <1>30, <1>31, <1>32, <1>33, <1>34, <1>35 DEF Step, Smode

(* Each step respects where a hart was told to go.                          *)
LEMMA AddrStep ==
    ASSUME TypeOK, PlaceInv, BootInv, AddrInv, NEW h \in Hart, Step(h) \/ Smode(h)
    PROVE  AddrInv'
<1> USE DEF boot, intr, ipis, call, hist, At, Goto, TypeOK, PlaceInv, PlaceOf, AddrInv, Writer,
   WillJump, HasJumped, Waiting, Early
<1>1. CASE Entry(h)
  BY <1>1 DEF Entry, Draw, Untouched, RanRight, NextRight, WritersRight
<1>2. CASE ColdHsmInit(h)
  BY <1>2 DEF ColdHsmInit, Untouched, RanRight, NextRight, WritersRight
<1>3. CASE IpiInit(h)
  BY <1>3 DEF IpiInit, Untouched, RanRight, NextRight, WritersRight
<1>4. CASE Wake(h)
  BY <1>4 DEF Wake, Untouched, RanRight, NextRight, WritersRight
<1>5. CASE Prepare(h)
  BY <1>5 DEF Prepare, Cas, Untouched, RanRight, NextRight, WritersRight
<1>6. CASE Jump(h)
  <2>1. ASSUME NEW x \in Hart PROVE Untouched(x)'
    <3>1. CASE x = h
      BY <1>6, <3>1 DEF Jump, Untouched, RanRight, NextRight, WritersRight
    <3>2. CASE x /= h
      BY <1>6, <3>2 DEF Jump, Untouched, RanRight, NextRight, WritersRight
    <3> QED
      BY <3>1, <3>2
  <2>2. ASSUME NEW x \in Hart PROVE RanRight(x)'
    <3>1. CASE x = h
      BY <1>6, <3>1 DEF Jump, Untouched, RanRight, NextRight, WritersRight
    <3>2. CASE x /= h
      BY <1>6, <3>2 DEF Jump, Untouched, RanRight, NextRight, WritersRight
    <3> QED
      BY <3>1, <3>2
  <2>3. ASSUME NEW x \in Hart PROVE NextRight(x)'
    <3>1. CASE x = h
      BY <1>6, <3>1 DEF Jump, Untouched, RanRight, NextRight, WritersRight
    <3>2. CASE x /= h
      BY <1>6, <3>2 DEF Jump, Untouched, RanRight, NextRight, WritersRight
    <3> QED
      BY <3>1, <3>2
  <2>4. ASSUME NEW x \in Hart PROVE WritersRight(x)'
    <3>1. CASE x = h
      BY <1>6, <3>1 DEF Jump, Untouched, RanRight, NextRight, WritersRight
    <3>2. CASE x /= h
      BY <1>6, <3>2 DEF Jump, Untouched, RanRight, NextRight, WritersRight
    <3> QED
      BY <3>1, <3>2
  <2> QED
    BY <2>1, <2>2, <2>3, <2>4
<1>7. CASE Mark(h)
  BY <1>7 DEF Mark, Untouched, RanRight, NextRight, WritersRight
<1>8. CASE Poll(h)
  BY <1>8 DEF Poll, Untouched, RanRight, NextRight, WritersRight
<1>9. CASE PollWfi(h)
  BY <1>9 DEF PollWfi, Untouched, RanRight, NextRight, WritersRight
<1>10. CASE Unmark(h)
  BY <1>10 DEF Unmark, Untouched, RanRight, NextRight, WritersRight
<1>11. CASE GetState(h)
  BY <1>11 DEF GetState, Untouched, RanRight, NextRight, WritersRight
<1>12. CASE HartWait(h)
  BY <1>12 DEF HartWait, Untouched, RanRight, NextRight, WritersRight
<1>13. CASE WaitWfi(h)
  BY <1>13 DEF WaitWfi, Untouched, RanRight, NextRight, WritersRight
<1>14. CASE ResumeStart(h)
  BY <1>14 DEF ResumeStart, Cas, Untouched, RanRight, NextRight, WritersRight
<1>15. CASE ResumeFinish(h)
  BY <1>15 DEF ResumeFinish, Cas, Restored, Untouched, RanRight, NextRight, WritersRight
<1>16. CASE StartWrite(h)
  <2>1. ASSUME NEW x \in Hart PROVE Untouched(x)'
    <3>1. CASE x = h
      BY <1>16, <3>1 DEF StartWrite, Untouched, RanRight, NextRight, WritersRight
    <3>2. CASE x /= h /\ x = tgt[h]
      BY <1>16, <3>2 DEF StartWrite, Untouched, RanRight, NextRight, WritersRight
    <3>3. CASE x /= h /\ x /= tgt[h]
      BY <1>16, <3>3 DEF StartWrite, Untouched, RanRight, NextRight, WritersRight
    <3> QED
      BY <3>1, <3>2, <3>3
  <2>2. ASSUME NEW x \in Hart PROVE RanRight(x)'
    <3>1. CASE x = h
      BY <1>16, <3>1 DEF StartWrite, Untouched, RanRight, NextRight, WritersRight
    <3>2. CASE x /= h /\ x = tgt[h]
      BY <1>16, <3>2 DEF StartWrite, Untouched, RanRight, NextRight, WritersRight
    <3>3. CASE x /= h /\ x /= tgt[h]
      BY <1>16, <3>3 DEF StartWrite, Untouched, RanRight, NextRight, WritersRight
    <3> QED
      BY <3>1, <3>2, <3>3
  <2>3. ASSUME NEW x \in Hart PROVE NextRight(x)'
    <3>1. CASE x = h
      BY <1>16, <3>1 DEF StartWrite, Untouched, RanRight, NextRight, WritersRight
    <3>2. CASE x /= h /\ x = tgt[h]
      BY <1>16, <3>2 DEF StartWrite, Untouched, RanRight, NextRight, WritersRight
    <3>3. CASE x /= h /\ x /= tgt[h]
      BY <1>16, <3>3 DEF StartWrite, Untouched, RanRight, NextRight, WritersRight
    <3> QED
      BY <3>1, <3>2, <3>3
  <2>4. ASSUME NEW x \in Hart PROVE WritersRight(x)'
    <3>1. CASE x = h
      BY <1>16, <3>1 DEF StartWrite, Untouched, RanRight, NextRight, WritersRight
    <3>2. CASE x /= h /\ x = tgt[h]
      BY <1>16, <3>2 DEF StartWrite, Untouched, RanRight, NextRight, WritersRight
    <3>3. CASE x /= h /\ x /= tgt[h]
      BY <1>16, <3>3 DEF StartWrite, Untouched, RanRight, NextRight, WritersRight
    <3> QED
      BY <3>1, <3>2, <3>3
  <2> QED
    BY <2>1, <2>2, <2>3, <2>4
<1>17. CASE StartIpi(h)
  BY <1>17 DEF StartIpi, Untouched, RanRight, NextRight, WritersRight
<1>18. CASE IpiExit(h)
  BY <1>18 DEF IpiExit, Untouched, RanRight, NextRight, WritersRight
<1>19. CASE HsmExit(h)
  BY <1>19 DEF HsmExit, Cas, Untouched, RanRight, NextRight, WritersRight
<1>20. CASE SuspendWfi(h)
  BY <1>20 DEF SuspendWfi, Untouched, RanRight, NextRight, WritersRight
<1>21. CASE SuspendBack(h)
  BY <1>21 DEF SuspendBack, Cas, Untouched, RanRight, NextRight, WritersRight
<1>22. CASE SuspendSave(h)
  BY <1>22 DEF SuspendSave, Untouched, RanRight, NextRight, WritersRight
<1>23. CASE SuspendNonRetWfi(h)
  BY <1>23 DEF SuspendNonRetWfi, Untouched, RanRight, NextRight, WritersRight
<1>24. CASE ResetStop(h)
  BY <1>24 DEF ResetStop, Cas, Untouched, RanRight, NextRight, WritersRight
<1>25. CASE TakeIpi(h)
  <2>1. ASSUME NEW x \in Hart PROVE Untouched(x)'
    <3>1. CASE x = h
      BY <1>25, <3>1 DEF TakeIpi, Cas, Untouched, RanRight, NextRight, WritersRight
    <3>2. CASE x /= h
      BY <1>25, <3>2 DEF TakeIpi, Cas, Untouched, RanRight, NextRight, WritersRight
    <3> QED
      BY <3>1, <3>2
  <2>2. ASSUME NEW x \in Hart PROVE RanRight(x)'
    <3>1. CASE x = h
      BY <1>25, <3>1 DEF TakeIpi, Cas, Untouched, RanRight, NextRight, WritersRight
    <3>2. CASE x /= h
      BY <1>25, <3>2 DEF TakeIpi, Cas, Untouched, RanRight, NextRight, WritersRight
    <3> QED
      BY <3>1, <3>2
  <2>3. ASSUME NEW x \in Hart PROVE NextRight(x)'
    <3>1. CASE x = h
      BY <1>25, <3>1 DEF TakeIpi, Cas, Untouched, RanRight, NextRight, WritersRight
    <3>2. CASE x /= h
      BY <1>25, <3>2 DEF TakeIpi, Cas, Untouched, RanRight, NextRight, WritersRight
    <3> QED
      BY <3>1, <3>2
  <2>4. ASSUME NEW x \in Hart PROVE WritersRight(x)'
    <3>1. CASE x = h
      BY <1>25, <3>1 DEF TakeIpi, Cas, Untouched, RanRight, NextRight, WritersRight
    <3>2. CASE x /= h
      BY <1>25, <3>2 DEF TakeIpi, Cas, Untouched, RanRight, NextRight, WritersRight
    <3> QED
      BY <3>1, <3>2
  <2> QED
    BY <2>1, <2>2, <2>3, <2>4
<1>26. CASE HartStart(h)
  <2>1. PICK t \in Hart, a \in Addr :
           /\ CallBegins(h)
           /\ state[t] = "STOPPED"
           /\ Cas(h, t, "STOPPED", "START_PENDING", "st_write", "run")
           /\ tgt' = [tgt EXCEPT ![h] = t]
           /\ arg' = [arg EXCEPT ![h] = a]
           /\ told' = [told EXCEPT ![t] = a]
           /\ raced' = [raced EXCEPT ![t] = \E g \in Hart : At(g, "st_write") /\ tgt[g] = t]
           /\ UNCHANGED <<next, boot, intr, ipis, ran, owe>>
    BY <1>26 DEF HartStart
  <2>2. inited /\ t /= h /\ pc[h] = "run" /\ pc' = [pc EXCEPT ![h] = "st_write"]
        /\ state' = [state EXCEPT ![t] = "START_PENDING"]
    BY <2>1, Booted DEF CallBegins, Cas
  <2>3. ASSUME NEW x \in Hart PROVE Untouched(x)'
    <3>1. CASE x = t
      BY <2>1, <2>2, <3>1 DEF Untouched, RanRight, NextRight, WritersRight
    <3>2. CASE x /= t
      BY <2>1, <2>2, <3>2 DEF Untouched, RanRight, NextRight, WritersRight
    <3> QED
      BY <3>1, <3>2
  <2>4. ASSUME NEW x \in Hart PROVE RanRight(x)'
    <3>1. CASE x = t
      BY <2>1, <2>2, <3>1 DEF Untouched, RanRight, NextRight, WritersRight
    <3>2. CASE x /= t
      BY <2>1, <2>2, <3>2 DEF Untouched, RanRight, NextRight, WritersRight
    <3> QED
      BY <3>1, <3>2
  <2>5. ASSUME NEW x \in Hart PROVE NextRight(x)'
    <3>1. CASE x = t
      BY <2>1, <2>2, <3>1 DEF Untouched, RanRight, NextRight, WritersRight
    <3>2. CASE x /= t
      BY <2>1, <2>2, <3>2 DEF Untouched, RanRight, NextRight, WritersRight
    <3> QED
      BY <3>1, <3>2
  <2>6. ASSUME NEW x \in Hart PROVE WritersRight(x)'
    <3>1. CASE x = t
      BY <2>1, <2>2, <3>1 DEF Untouched, RanRight, NextRight, WritersRight
    <3>2. CASE x /= t
      BY <2>1, <2>2, <3>2 DEF Untouched, RanRight, NextRight, WritersRight
    <3> QED
      BY <3>1, <3>2
  <2> QED
    BY <2>3, <2>4, <2>5, <2>6
<1>27. CASE HartStop(h)
  BY <1>27 DEF HartStop, Cas, CallBegins, Untouched, RanRight, NextRight, WritersRight
<1>28. CASE Suspend(h)
  <2>1. ASSUME NEW x \in Hart PROVE Untouched(x)'
    <3>1. pc[h] = "run" /\ UNCHANGED inited
      BY <1>28 DEF Suspend, CallBegins
    <3>2. inited
      BY <3>1
    <3> QED
      BY <3>1, <3>2 DEF Untouched
  <2>2. ASSUME NEW x \in Hart PROVE RanRight(x)'
    <3>1. CASE x = h
      BY <1>28, <3>1 DEF Suspend, Cas, CallBegins, Untouched, RanRight, NextRight, WritersRight
    <3>2. CASE x /= h
      BY <1>28, <3>2 DEF Suspend, Cas, CallBegins, Untouched, RanRight, NextRight, WritersRight
    <3> QED
      BY <3>1, <3>2
  <2>3. ASSUME NEW x \in Hart PROVE NextRight(x)'
    <3>1. CASE x = h
      BY <1>28, <3>1 DEF Suspend, Cas, CallBegins, Untouched, RanRight, NextRight, WritersRight
    <3>2. CASE x /= h
      BY <1>28, <3>2 DEF Suspend, Cas, CallBegins, Untouched, RanRight, NextRight, WritersRight
    <3> QED
      BY <3>1, <3>2
  <2>4. ASSUME NEW x \in Hart PROVE WritersRight(x)'
    <3>1. CASE x = h
      BY <1>28, <3>1 DEF Suspend, Cas, CallBegins, Untouched, RanRight, NextRight, WritersRight
    <3>2. CASE x /= h
      BY <1>28, <3>2 DEF Suspend, Cas, CallBegins, Untouched, RanRight, NextRight, WritersRight
    <3> QED
      BY <3>1, <3>2
  <2> QED
    BY <2>1, <2>2, <2>3, <2>4
<1>29. CASE SendIpi(h)
  BY <1>29 DEF SendIpi, SendMany, CallBegins, Untouched, RanRight, NextRight, WritersRight
<1>30. CASE SystemReset(h)
  BY <1>30 DEF SystemReset, SendMany, CallBegins, Untouched, RanRight, NextRight, WritersRight
<1>31. CASE ClearSmode(h)
  BY <1>31 DEF ClearSmode, Untouched, RanRight, NextRight, WritersRight
<1>32. CASE SpuriousWfi(h)
  BY <1>32 DEF SpuriousWfi, Untouched, RanRight, NextRight, WritersRight
<1>33. CASE ReadState(h)
  <2>1. /\ pc[h] = "scan" /\ UNCHANGED <<state, next, boot, intr, tgt, arg, ops, hist>>
        /\ \E q \in {"scan", "send", "reset", "run"} : pc' = [pc EXCEPT ![h] = q]
    BY <1>33, ReadMoves
  <2> QED
    BY <2>1 DEF Untouched, RanRight, NextRight, WritersRight
<1>34. CASE SendBit(h)
  BY <1>34 DEF SendBit, Untouched, RanRight, NextRight, WritersRight
<1>35. CASE SendMsip(h)
  BY <1>35 DEF SendMsip, Onward, Untouched, RanRight, NextRight, WritersRight
<1> QED
  BY <1>1, <1>2, <1>3, <1>4, <1>5, <1>6, <1>7, <1>8, <1>9, <1>10, <1>11, <1>12, <1>13,
     <1>14, <1>15, <1>16, <1>17, <1>18, <1>19, <1>20, <1>21, <1>22, <1>23, <1>24, <1>25,
     <1>26, <1>27, <1>28, <1>29, <1>30, <1>31, <1>32, <1>33, <1>34, <1>35 DEF Step, Smode

(* Each step keeps SSIP where S-mode will find it.                          *)
LEMMA SsipStep ==
    ASSUME TypeOK, PlaceInv, BootInv, SsipInv, NEW h \in Hart, Step(h) \/ Smode(h)
    PROVE  SsipInv'
<1> USE DEF boot, intr, ipis, call, hist, At, Goto, TypeOK, PlaceInv, PlaceOf, SsipInv, Waiting,
   Early, NotSaved
<1>1. CASE Entry(h)
  <2>1. UNCHANGED <<state, saved, owe>> /\ ssip' = [ssip EXCEPT ![h] = FALSE]
    BY <1>1 DEF Entry
  <2>2. pc[h] = "entry" /\ pc'[h] \in {"cold", "mark"} /\ \A x \in Hart \ {h} : pc'[x] = pc[x]
    BY <1>1 DEF Entry
  <2>3. owe[h] => pc'[h] = "mark"
    BY <1>1, <2>2, Drawn DEF Entry
  <2> QED
    BY <2>1, <2>2, <2>3
<1>2. CASE ColdHsmInit(h)
  BY <1>2 DEF ColdHsmInit
<1>3. CASE IpiInit(h)
  <2>1. UNCHANGED <<state, ssip, saved, owe>> /\ \A x \in Hart \ {h} : pc'[x] = pc[x]
    BY <1>3 DEF IpiInit
  <2>2. pc[h] \in {"cold_ipi", "cold_msip", "warm_ipi", "warm_msip"}
    BY <1>3 DEF IpiInit
  <2> QED
    BY <2>1, <2>2
<1>4. CASE Wake(h)
  BY <1>4 DEF Wake
<1>5. CASE Prepare(h)
  <2>1. pc[h] = "prepare" /\ inited
    BY <1>5 DEF Prepare
  <2>2. UNCHANGED <<ssip, saved, owe>>
    BY <1>5 DEF Prepare
  <2>3. pc' = [pc EXCEPT ![h] = "jump"] /\ state' = [state EXCEPT ![h] = "STARTED"]
    BY <1>5, <2>1 DEF Prepare, Cas
  <2> QED
    BY <2>1, <2>2, <2>3
<1>6. CASE Jump(h)
  BY <1>6 DEF Jump
<1>7. CASE Mark(h)
  BY <1>7 DEF Mark
<1>8. CASE Poll(h)
  BY <1>8 DEF Poll
<1>9. CASE PollWfi(h)
  BY <1>9 DEF PollWfi
<1>10. CASE Unmark(h)
  BY <1>10 DEF Unmark
<1>11. CASE GetState(h)
  BY <1>11 DEF GetState
<1>12. CASE HartWait(h)
  BY <1>12 DEF HartWait
<1>13. CASE WaitWfi(h)
  BY <1>13 DEF WaitWfi
<1>14. CASE ResumeStart(h)
  <2>1. pc[h] = "resume_start" /\ inited /\ state[h] = "SUSPENDED" /\ UNCHANGED <<ssip, saved, owe>>
    BY <1>14 DEF ResumeStart
  <2>2. pc' = [pc EXCEPT ![h] = "resume_finish"] /\ state' = [state EXCEPT ![h] = "RESUME_PENDING"]
    BY <1>14, <2>1 DEF ResumeStart, Cas
  <2> QED
    BY <2>1, <2>2
<1>15. CASE ResumeFinish(h)
  <2>1. pc[h] = "resume_finish" /\ inited /\ state[h] = "RESUME_PENDING" /\ UNCHANGED owe
        /\ ssip' = [ssip EXCEPT ![h] = saved[h].ssip] /\ saved' = [saved EXCEPT ![h] = NotSaved]
    BY <1>15 DEF ResumeFinish, Restored
  <2>2. pc' = [pc EXCEPT ![h] = "jump"] /\ state' = [state EXCEPT ![h] = "STARTED"]
    BY <1>15, <2>1 DEF ResumeFinish, Cas
  <2>3. owe[h] => ssip'[h]
    BY <2>1
  <2>4. \A x \in Hart \ {h} : ssip'[x] = ssip[x] /\ saved'[x] = saved[x] /\ pc'[x] = pc[x]
                               /\ state'[x] = state[x]
    BY <2>1, <2>2
  <2> QED
    BY <2>1, <2>2, <2>3, <2>4
<1>16. CASE StartWrite(h)
  BY <1>16 DEF StartWrite
<1>17. CASE StartIpi(h)
  BY <1>17 DEF StartIpi
<1>18. CASE IpiExit(h)
  BY <1>18 DEF IpiExit
<1>19. CASE HsmExit(h)
  <2>1. pc[h] = "hsm_exit" /\ inited
    BY <1>19 DEF HsmExit
  <2>2. UNCHANGED <<ssip, saved, owe>>
    BY <1>19 DEF HsmExit
  <2>3. pc' = [pc EXCEPT ![h] = "entry"] /\ state' = [state EXCEPT ![h] = "STOPPED"]
    BY <1>19, <2>1 DEF HsmExit, Cas
  <2> QED
    BY <2>1, <2>2, <2>3
<1>20. CASE SuspendWfi(h)
  BY <1>20 DEF SuspendWfi
<1>21. CASE SuspendBack(h)
  <2>1. pc[h] = "su_back" /\ inited
    BY <1>21 DEF SuspendBack
  <2>2. UNCHANGED <<ssip, saved, owe>>
    BY <1>21 DEF SuspendBack
  <2>3. pc' = [pc EXCEPT ![h] = "run"] /\ state' = [state EXCEPT ![h] = "STARTED"]
    BY <1>21, <2>1 DEF SuspendBack, Cas
  <2> QED
    BY <2>1, <2>2, <2>3
<1>22. CASE SuspendSave(h)
  BY <1>22 DEF SuspendSave
<1>23. CASE SuspendNonRetWfi(h)
  BY <1>23 DEF SuspendNonRetWfi
<1>24. CASE ResetStop(h)
  <2>1. pc[h] = "reset" /\ inited
    BY <1>24 DEF ResetStop
  <2>2. UNCHANGED <<ssip, saved, owe>>
    BY <1>24 DEF ResetStop
  <2>3. pc' = [pc EXCEPT ![h] = "exit"] /\ state' = [state EXCEPT ![h] = "STOP_PENDING"]
    BY <1>24, <2>1 DEF ResetStop, Cas
  <2> QED
    BY <2>1, <2>2, <2>3
<1>25. CASE TakeIpi(h)
  BY <1>25 DEF TakeIpi, Cas
<1>26. CASE HartStart(h)
  <2>1. PICK t \in Hart : pc[h] = "run" /\ state[t] = "STOPPED" /\ UNCHANGED <<boot, intr, owe>>
           /\ Cas(h, t, "STOPPED", "START_PENDING", "st_write", "run")
    BY <1>26 DEF HartStart, CallBegins
  <2>2. pc' = [pc EXCEPT ![h] = "st_write"] /\ state' = [state EXCEPT ![t] = "START_PENDING"]
    BY <2>1 DEF Cas
  <2>3. t # h /\ state[h] = "STARTED"
    BY <2>1
  <2> QED
    BY <2>1, <2>2, <2>3
<1>27. CASE HartStop(h)
  <2>1. pc[h] = "run" /\ inited
    BY <1>27 DEF HartStop, CallBegins
  <2>2. UNCHANGED <<ssip, saved, owe>>
    BY <1>27 DEF HartStop
  <2>3. pc' = [pc EXCEPT ![h] = "exit"] /\ state' = [state EXCEPT ![h] = "STOP_PENDING"]
    BY <1>27, <2>1 DEF HartStop, Cas
  <2> QED
    BY <2>1, <2>2, <2>3
<1>28. CASE Suspend(h)
  <2>1. PICK p \in {"su_ret", "su_nonret", "su_back"} :
           pc[h] = "run" /\ Cas(h, h, "STARTED", "SUSPENDED", p, "hang") /\ UNCHANGED <<intr, owe>>
    BY <1>28 DEF Suspend, CallBegins
  <2>2. pc' = [pc EXCEPT ![h] = p] /\ state' = [state EXCEPT ![h] = "SUSPENDED"]
    BY <2>1 DEF Cas
  <2> QED
    BY <2>1, <2>2
<1>29. CASE SendIpi(h)
  BY <1>29 DEF SendIpi, SendMany, CallBegins
<1>30. CASE SystemReset(h)
  BY <1>30 DEF SystemReset, SendMany, CallBegins
<1>31. CASE ClearSmode(h)
  BY <1>31 DEF ClearSmode
<1>32. CASE SpuriousWfi(h)
  <2>1. UNCHANGED <<state, intr, owe>>
    BY <1>32 DEF SpuriousWfi
  <2>2. \/ pc[h] = "wait_wfi" /\ pc' = [pc EXCEPT ![h] = "wait"]
        \/ pc[h] = "su_ret" /\ pc' = [pc EXCEPT ![h] = "su_back"]
        \/ pc[h] = "su_wfi" /\ pc' = [pc EXCEPT ![h] = "entry"]
    BY <1>32 DEF SpuriousWfi
  <2>3. pc[h] = "su_wfi" => state[h] = "SUSPENDED"
    OBVIOUS
  <2>4. ASSUME NEW x \in Hart \ {h} PROVE pc'[x] = pc[x]
    BY <2>2
  <2>5. owe[h] /\ pc[h] = "su_wfi" => saved[h].ssip
    OBVIOUS
  <2> QED
    BY <2>1, <2>2, <2>3, <2>4, <2>5
<1>33. CASE ReadState(h)
  <2>1. /\ pc[h] = "scan" /\ UNCHANGED <<state, next, boot, intr, tgt, arg, ops, hist>>
        /\ \E q \in {"scan", "send", "reset", "run"} : pc' = [pc EXCEPT ![h] = q]
    BY <1>33, ReadMoves
  <2> QED
    BY <2>1
<1>34. CASE SendBit(h)
  BY <1>34 DEF SendBit
<1>35. CASE SendMsip(h)
  BY <1>35 DEF SendMsip, Onward
<1> QED
  BY <1>1, <1>2, <1>3, <1>4, <1>5, <1>6, <1>7, <1>8, <1>9, <1>10, <1>11, <1>12, <1>13,
     <1>14, <1>15, <1>16, <1>17, <1>18, <1>19, <1>20, <1>21, <1>22, <1>23, <1>24, <1>25,
     <1>26, <1>27, <1>28, <1>29, <1>30, <1>31, <1>32, <1>33, <1>34, <1>35 DEF Step, Smode

(* Each step that changes the state of a hart does so along Follows.        *)
LEMMA FollowsStep ==
    ASSUME TypeOK, PlaceInv, BootInv, NEW h \in Hart, Step(h) \/ Smode(h), NEW x \in Hart, inited
    PROVE  state'[x] = state[x] \/ <<state[x], state'[x]>> \in Follows
<1> USE DEF TypeOK, PlaceInv, PlaceOf, At, Follows
<1>1. CASE Entry(h) \/ IpiInit(h) \/ Wake(h) \/ Jump(h) \/ Mark(h) \/ Poll(h) \/
   PollWfi(h) \/ Unmark(h) \/ GetState(h) \/ HartWait(h) \/ WaitWfi(h) \/ StartWrite(h) \/
   StartIpi(h) \/ IpiExit(h) \/ SuspendWfi(h) \/ SuspendSave(h) \/ SuspendNonRetWfi(h) \/
   SendIpi(h) \/ SystemReset(h) \/ ReadState(h) \/ SendBit(h) \/ SendMsip(h) \/ ClearSmode(h) \/ SpuriousWfi(h)
  BY <1>1 DEF Entry, IpiInit, Wake, Jump, Mark, Poll, PollWfi, Unmark, GetState, HartWait,
     WaitWfi, StartWrite, StartIpi, IpiExit, SuspendWfi, SuspendSave, SuspendNonRetWfi,
     SendIpi, SystemReset, SendMany, ReadState, SendBit, SendMsip, ClearSmode, SpuriousWfi
<1>2. CASE Prepare(h)
  BY <1>2 DEF Prepare, Cas
<1>3. CASE ResumeStart(h)
  BY <1>3 DEF ResumeStart, Cas
<1>4. CASE ResumeFinish(h)
  BY <1>4 DEF ResumeFinish, Cas
<1>5. CASE HsmExit(h)
  BY <1>5 DEF HsmExit, Cas
<1>6. CASE SuspendBack(h)
  BY <1>6 DEF SuspendBack, Cas
<1>7. CASE ResetStop(h)
  BY <1>7 DEF ResetStop, Cas
<1>8. CASE TakeIpi(h)
  BY <1>8 DEF TakeIpi, Cas
<1>9. CASE HartStart(h)
  BY <1>9 DEF HartStart, Cas
<1>10. CASE HartStop(h)
  BY <1>10 DEF HartStop, Cas
<1>11. CASE Suspend(h)
  BY <1>11 DEF Suspend, Cas
<1>12. CASE ColdHsmInit(h)
  BY <1>12 DEF ColdHsmInit
<1> QED
  BY <1>1, <1>2, <1>3, <1>4, <1>5, <1>6, <1>7, <1>8, <1>9, <1>10, <1>11, <1>12 DEF Step, Smode

LEMMA InvStarts == Init => IndInv
<1> SUFFICES ASSUME Init PROVE IndInv
  OBVIOUS
<1>1. TypeOK
  <2>1. pc \in [Hart -> Pcs] /\ state \in [Hart -> States] /\ lottery \in 0 .. 1
    BY DEF Init, States, Pcs
  <2>2. msip \in [Hart -> BOOLEAN] /\ mie \in [Hart -> BOOLEAN] /\ ssip \in [Hart -> BOOLEAN]
        /\ raced \in [Hart -> BOOLEAN] /\ owe \in [Hart -> BOOLEAN]
        /\ coldboot_done \in BOOLEAN /\ inited \in BOOLEAN
    BY DEF Init
  <2>3. saved \in [Hart -> [mie : BOOLEAN, ssip : BOOLEAN]]
    BY DEF Init, NotSaved
  <2>4. pend \in [Hart -> SUBSET {"smode", "halt"}] /\ waitMask \subseteq Hart
        /\ ops \in [Hart -> 0 .. MaxOps] /\ event \in [Hart -> {"smode", "halt"}]
        /\ scan \in [Hart -> SUBSET Hart] /\ mask \in [Hart -> SUBSET Hart]
    BY HsmAssumption DEF Init
  <2>5. /\ next \in [Hart -> Addr \cup {FwNext}] /\ arg \in [Hart -> Addr \cup {FwNext}]
        /\ told \in [Hart -> Addr \cup {FwNext}] /\ ran \in [Hart -> Addr \cup {FwNext}]
        /\ tgt \in [Hart -> Hart]
    BY DEF Init
  <2> QED
    BY <2>1, <2>2, <2>3, <2>4, <2>5 DEF TypeOK
<1>2. PlaceInv /\ BootInv /\ SsipInv
  BY DEF Init, PlaceInv, BootInv, SsipInv, Early, ColdPcs
<1>3. AddrInv
  BY DEF Init, AddrInv, Untouched, RanRight, NextRight, WritersRight, Writer, WillJump,
     HasJumped
<1> QED
  BY <1>1, <1>2, <1>3 DEF IndInv

LEMMA InvStep == IndInv /\ [Next]_vars => IndInv'
<1> SUFFICES ASSUME IndInv, [Next]_vars PROVE IndInv'
  OBVIOUS
<1>1. CASE UNCHANGED vars
  <2> USE <1>1 DEF IndInv, vars, boot, intr, ipis, call, hist
  <2>1. TypeOK'
    BY DEF TypeOK
  <2>2. PlaceInv' /\ BootInv'
    BY DEF PlaceInv, PlaceOf, BootInv
  <2>3. AddrInv'
    BY DEF AddrInv, Untouched, RanRight, NextRight, WritersRight, Writer, WillJump
  <2>4. SsipInv'
    BY DEF SsipInv
  <2> QED
    BY <2>1, <2>2, <2>3, <2>4
<1>2. ASSUME NEW h \in Hart, Step(h) \/ Smode(h) PROVE IndInv'
  BY <1>2, TypeStep, PlaceStep, BootStep, AddrStep, SsipStep DEF IndInv
<1> QED
  BY <1>1, <1>2 DEF Next

(* SbiHsm keeps IndInv.                                                     *)
THEOREM HsmInductive == Spec => []IndInv
BY InvStarts, InvStep, PTL DEF Spec

(* The state of every hart is well typed, for any set of harts.             *)
THEOREM HsmTypeCorrect == Spec => []TypeOK
<1>1. IndInv => TypeOK
  BY DEF IndInv
<1> QED
  BY <1>1, HsmInductive, PTL

(* No compare-and-exchange of sbi_hsm.c finds a state it does not expect,   *)
(* so no hart ends in sbi_hart_hang.                                        *)
THEOREM NoHartHangs == Spec => []NeverHangs
<1>1. IndInv => NeverHangs
  BY DEF IndInv, PlaceInv, PlaceOf, Early, NeverHangs
<1> QED
  BY <1>1, HsmInductive, PTL

(* The lottery of sbi_init has one winner, and nobody runs before it.       *)
THEOREM ColdBootIsFirst == Spec => []ColdBootFirst
<1>1. IndInv => ColdBootFirst
  BY DEF IndInv, PlaceInv, PlaceOf, BootInv, Waiting, Early, ColdPcs, ColdBootFirst
<1> QED
  BY <1>1, HsmInductive, PTL

(* A hart runs elsewhere than it was told only if it overtook the hart that *)
(* started it (sbi_hsm_hart_start).                                         *)
THEOREM RightAddress == Spec => []WrongAddressOnlyByLateStart
<1>1. IndInv => WrongAddressOnlyByLateStart
  BY DEF IndInv, AddrInv, RanRight, HasJumped, WrongAddressOnlyByLateStart
<1> QED
  BY <1>1, HsmInductive, PTL

(* No software interrupt of S-mode is lost over a suspend.                  *)
THEOREM SsipIsKept == Spec => []SsipKept
<1>1. IndInv => SsipKept
  BY DEF IndInv, SsipInv, Waiting, SsipKept
<1> QED
  BY <1>1, HsmInductive, PTL

(* A hart state changes only along Follows, and a hart that runs in S-mode  *)
(* is STARTED: what sbi_hsm_hart_get_state reports can be relied on.        *)
THEOREM OnlyLegalTransitions == Spec => LegalTransitions
<1>1. IndInv /\ IndInv' /\ [Next]_vars =>
        [\A h \in Hart :
           /\ inited /\ state'[h] # state[h] => <<state[h], state'[h]>> \in Follows
           /\ pc'[h] = "run" => state'[h] = "STARTED"]_vars
  <2> SUFFICES ASSUME IndInv, IndInv', Next, NEW x \in Hart
               PROVE  /\ inited /\ state'[x] # state[x] => <<state[x], state'[x]>> \in Follows
                      /\ pc'[x] = "run" => state'[x] = "STARTED"
    OBVIOUS
  <2>1. inited /\ state'[x] # state[x] => <<state[x], state'[x]>> \in Follows
    BY FollowsStep DEF IndInv, Next
  <2>2. pc'[x] = "run" => state'[x] = "STARTED"
    BY DEF IndInv, PlaceInv, PlaceOf, Early
  <2> QED
    BY <2>1, <2>2
<1> QED
  BY <1>1, HsmInductive, PTL DEF Spec, LegalTransitions
=============================================================================
