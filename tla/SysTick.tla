------------------------------ MODULE SysTick ------------------------------
(***************************************************************************)
(* The system timer: the processor's Count and Compare registers and the   *)
(* driver over them (arch/mips/impl/pic32mx_systick_impl.c).  Count runs   *)
(* on by itself and wraps; the interrupt flag is set in the moment in      *)
(* which Count reaches Compare, so that a Compare behind Count gives no    *)
(* interrupt until Count has come round.                                   *)
(***************************************************************************)
EXTENDS Integers

CONSTANTS
    CountModulus,   \* 2^32: the registers wrap
    Period,         \* period_cycles, 400000
    NewPeriods,     \* what arch_systick_set_period may be given
    MaxTime         \* bound: the cycles a behaviour may last

ASSUME TimerAssumption ==
    /\ Period \in Nat \ {0} /\ CountModulus \in Nat /\ Period < CountModulus
    /\ NewPeriods \subseteq 1..(CountModulus - 1)
    /\ MaxTime \in Nat

VARIABLES
    cycles,     \* the cycles since reset: what Count would be if it were wide enough
    compare,    \* CP0 Compare
    CTIF,       \* interrupt flag
    CTIE,       \* interrupt enable
    systick,    \* systick_instance
    due,        \* history: when the next interrupt is due, a period after the last
    late        \* history: what came too late for the timer

timer == <<cycles, compare, CTIF, CTIE, systick, due, late>>

Count == cycles % CountModulus

TimerTypeOK ==
    /\ cycles \in 0..MaxTime /\ compare \in 0..(CountModulus - 1)
    /\ CTIF \in BOOLEAN /\ CTIE \in BOOLEAN
    /\ systick \in [period : {0, Period} \cup NewPeriods, initialized : BOOLEAN]
    /\ due \in Nat
    /\ late \subseteq {"init", "enable", "isr", "retimed"}

\* Compare is all ones after a reset.
TimerInit ==
    /\ cycles = 0 /\ compare = CountModulus - 1
    /\ CTIF = FALSE /\ CTIE = FALSE
    /\ systick = [period |-> 0, initialized |-> FALSE]
    /\ due = 0 /\ late = {}

Late(cond, what) == late' = IF cond THEN late \cup {what} ELSE late

\* A cycle of the core timer.
CountUp ==
    /\ cycles < MaxTime
    /\ cycles' = cycles + 1
    /\ CTIF' = (CTIF \/ Count' = compare)
    /\ UNCHANGED <<compare, CTIE, systick, due, late>>

\* arch_systick_init, once while booting: Compare is set, Count is not reset.
arch_systick_init ==
    /\ ~systick.initialized
    /\ systick' = [period |-> Period, initialized |-> TRUE]
    /\ compare' = Period /\ due' = Period
    /\ Late(cycles >= Period, "init")
    /\ UNCHANGED <<cycles, CTIF, CTIE>>

\* arch_systick_enable_interrupt drops what the flag may have kept.
arch_systick_enable_interrupt ==
    /\ CTIF' = FALSE /\ CTIE' = TRUE
    /\ Late(systick.initialized /\ cycles >= due, "enable")
    /\ UNCHANGED <<cycles, compare, systick, due>>

\* The next interrupt is moved on by the new period (from where it is, not
\* from Count).
arch_systick_set_period(p) ==
    /\ systick' = [systick EXCEPT !.period = p]
    /\ compare' = (compare + p) % CountModulus
    /\ Late(TRUE, "retimed")
    /\ UNCHANGED <<cycles, CTIF, CTIE, due>>

\* arch_systick_start moves Compare if Count, compared unsigned, is past it.
\* It does not enable the interrupt.
arch_systick_start ==
    /\ Count >= compare
    /\ compare' = (Count + systick.period) % CountModulus
    /\ Late(TRUE, "retimed")
    /\ UNCHANGED <<cycles, CTIF, CTIE, systick, due>>

arch_systick_stop ==
    /\ CTIE' = FALSE
    /\ Late(TRUE, "retimed")
    /\ UNCHANGED <<cycles, compare, CTIF, systick, due>>

\* Mutant of arch_systick_tick: a period from now.
arch_systick_tick_from_now ==
    /\ IF systick.initialized
       THEN compare' = (Count + systick.period) % CountModulus /\ due' = due + systick.period
       ELSE UNCHANGED <<compare, due>>
    /\ Late(systick.initialized /\ cycles >= due + systick.period, "isr")
    /\ CTIF' = FALSE
    /\ UNCHANGED <<cycles, CTIE, systick>>

\* In the interrupt: the flag is cleared, and the next interrupt is a period
\* after this one was due.
arch_systick_tick ==
    /\ IF systick.initialized
       THEN compare' = (compare + systick.period) % CountModulus /\ due' = due + systick.period
       ELSE UNCHANGED <<compare, due>>
    /\ Late(systick.initialized /\ cycles >= due + systick.period, "isr")
    /\ CTIF' = FALSE
    /\ UNCHANGED <<cycles, CTIE, systick>>
=============================================================================
