----------------------------- MODULE RoundRobin ----------------------------
(***************************************************************************)
(* What the scheduler promises, without pointers: a queue of tasks whose   *)
(* first element is the one that ran last.  A tick moves the first element *)
(* to the end and runs the new first one; a new task is the next to run;   *)
(* the running task may end; any other may be killed.  Scheduler's ring of *)
(* Task structures implements it (Scheduler!RoundRobinImplemented).        *)
(***************************************************************************)
EXTENDS Naturals, Sequences, SequencesExt

CONSTANTS Task, NULL

VARIABLES
    ring,       \* the ready tasks, the one that ran last first
    running,    \* the task that runs, NULL between an end and the next tick
    stopped     \* a tick found nothing to switch to; nothing happens after it

rrVars == <<ring, running, stopped>>

RRInit == ring = <<>> /\ running = NULL /\ stopped = FALSE

\* The ring without the task t, the others in their order.
RingWithout(t) == {RemoveAt(ring, k) : k \in {j \in DOMAIN ring : ring[j] = t}}

Rotated == Append(Tail(ring), Head(ring))

Add(t) ==
    /\ ~stopped
    /\ t \notin ToSet(ring)
    /\ ring' = IF ring = <<>> THEN <<t>> ELSE <<Head(ring), t>> \o Tail(ring)
    /\ UNCHANGED <<running, stopped>>

End ==
    /\ ~stopped
    /\ running # NULL
    /\ ring' \in RingWithout(running)
    /\ running' = NULL
    /\ UNCHANGED stopped

Kill(t) ==
    /\ ~stopped
    /\ running \notin {NULL, t}
    /\ t \in ToSet(ring)
    /\ ring' \in RingWithout(t)
    /\ UNCHANGED <<running, stopped>>

CanRotate == ring # <<>> /\ Head(Rotated) # running

Rotate ==
    /\ ~stopped
    /\ CanRotate
    /\ ring' = Rotated
    /\ running' = Head(Rotated)
    /\ UNCHANGED stopped

Stop ==
    /\ ~stopped
    /\ ~CanRotate
    /\ stopped' = TRUE
    /\ UNCHANGED <<ring, running>>

RRNext ==
    \/ \E t \in Task : Add(t) \/ Kill(t)
    \/ End
    \/ Rotate
    \/ Stop

RRSpec == RRInit /\ [][RRNext]_rrVars
=============================================================================
