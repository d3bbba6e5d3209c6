------------------------------ MODULE FairLock ------------------------------
(* What riscv_locks.c promises: harts hold the lock one at a time, in the   *)
(* order in which they asked for it.                                        *)
EXTENDS Sequences

CONSTANT Hart

VARIABLES
    line,   \* harts that have asked, in order; only the first may hold
    held    \* TRUE when the first one holds the lock

Init == line = << >> /\ held = FALSE

Waits(h) == \E i \in DOMAIN line : line[i] = h

Ask(h) == ~Waits(h) /\ line' = Append(line, h) /\ UNCHANGED held

Grant == line # << >> /\ ~held /\ held' = TRUE /\ UNCHANGED line

(* Asking and getting in one step: nobody is in line. *)
TryGrant(h) == line = << >> /\ line' = <<h>> /\ held' = TRUE

Release == held /\ line' = Tail(line) /\ held' = FALSE

Next == Grant \/ Release \/ \E h \in Hart : Ask(h) \/ TryGrant(h)

Spec == Init /\ [][Next]_<<line, held>>
=============================================================================
