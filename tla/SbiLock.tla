------------------------------ MODULE SbiLock ------------------------------
(* The ticket lock of OpenSBI, lib/sbi/riscv_locks.c.  `owner' and `next'   *)
(* are the two 16-bit halves of a spinlock_t; both wrap.                    *)
EXTENDS Integers, FiniteSets

CONSTANTS
    Hart,       \* the harts of the machine
    TicketMod   \* 2^16: values of a ticket

ASSUME LockAssumption ==
    /\ IsFiniteSet(Hart)
    /\ TicketMod \in Nat
    /\ Cardinality(Hart) < TicketMod

VARIABLES
    owner, next,    \* the lock word
    ticket,         \* per hart: the register that holds its ticket
    at              \* per hart: "out", "spin" (in spin_lock), "in"

lockVars == <<owner, next, ticket, at>>

Ticket == 0 .. TicketMod - 1

LockTypeOK ==
    /\ owner \in Ticket /\ next \in Ticket
    /\ ticket \in [Hart -> Ticket]
    /\ at \in [Hart -> {"out", "spin", "in"}]

(* SPIN_LOCK_INIT *)
LockInit ==
    /\ owner = 0 /\ next = 0
    /\ ticket = [h \in Hart |-> 0]
    /\ at = [h \in Hart |-> "out"]

\* Mutant of Bump: the sum is kept in a wider register
BumpWide(t) == t + 1

\* Mutant of Bump: a saturating counter
BumpSaturates(t) == IF t = TicketMod - 1 THEN t ELSE t + 1

(* addition in a 16-bit half of the word: amoadd of 1 << 16, and the u16    *)
(* store of spin_unlock                                                     *)
Bump(t) == (t + 1) % TicketMod

(* spin_lock, up to the first comparison: amoadd takes the next ticket *)
spin_lock(h) ==
    /\ at[h] = "out"
    /\ ticket' = [ticket EXCEPT ![h] = next]
    /\ next' = Bump(next)
    /\ at' = [at EXCEPT ![h] = "spin"]
    /\ UNCHANGED owner

(* spin_lock, a comparison that succeeds: the owner read from the word is   *)
(* this hart's ticket                                                       *)
Granted(h) ==
    /\ at[h] = "spin"
    /\ owner = ticket[h]
    /\ at' = [at EXCEPT ![h] = "in"]
    /\ UNCHANGED <<owner, next, ticket>>

(* spin_trylock that succeeds; one that fails writes nothing.  lr and sc    *)
(* make it one step.                                                        *)
spin_trylock(h) ==
    /\ at[h] = "out"
    /\ owner = next
    /\ ticket' = [ticket EXCEPT ![h] = next]
    /\ next' = Bump(next)
    /\ at' = [at EXCEPT ![h] = "in"]
    /\ UNCHANGED owner

\* Mutant of spin_unlock: the release hands over to the next to come
UnlockToNext(h) ==
    /\ at[h] = "in"
    /\ owner' = next
    /\ at' = [at EXCEPT ![h] = "out"]
    /\ UNCHANGED <<next, ticket>>

(* spin_unlock; the register with the ticket is free again *)
spin_unlock(h) ==
    /\ at[h] = "in"
    /\ owner' = Bump(owner)
    /\ at' = [at EXCEPT ![h] = "out"]
    /\ ticket' = [ticket EXCEPT ![h] = 0]
    /\ UNCHANGED next

LockNext ==
    \E h \in Hart :
        spin_lock(h) \/ Granted(h) \/ spin_trylock(h) \/ spin_unlock(h)

(* A hart that spins goes on reading the word, and one that holds the lock  *)
(* releases it; no hart has to ask for it.                                  *)
LockFairness == \A h \in Hart : WF_lockVars(Granted(h)) /\ WF_lockVars(spin_unlock(h))

LockSpec == LockInit /\ [][LockNext]_lockVars /\ LockFairness

---------------------------------------------------------------------------
(* Refinement: the line of FairLock is read off the tickets, counting from  *)
(* the owner and wrapping where the tickets do.                             *)
Ahead(t) == (t - owner) % TicketMod      \* tickets served before t

line == [i \in 1 .. Ahead(next) |->
            CHOOSE h \in Hart : at[h] # "out" /\ Ahead(ticket[h]) = i - 1]

held == \E h \in Hart : at[h] = "in"

Fair == INSTANCE FairLock WITH line <- line, held <- held

(* spin_lock, spin_trylock and spin_unlock implement a lock that serves     *)
(* harts one at a time and in the order of their amoadd, across the wrap of *)
(* both 16-bit counters.                                                    *)
ServesInOrder == Fair!Spec

(* Two harts are never between spin_lock and spin_unlock together: the      *)
(* exclusion sbi_fifo.c and the console rely on ("must be called with       *)
(* fifo->qlock held").                                                      *)
MutualExclusion == \A g, h \in Hart : at[g] = "in" /\ at[h] = "in" => g = h

(* No hart spins for ever in spin_lock (riscv_locks.c, label 1), however    *)
(* often others come back and use spin_trylock.                             *)
SpinEnds == \A h \in Hart : at[h] = "spin" ~> at[h] = "in"
=============================================================================
