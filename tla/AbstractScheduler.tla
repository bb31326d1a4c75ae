------------------------- MODULE AbstractScheduler -------------------------
(***************************************************************************)
(* What the scheduler promises: processes get pids that are never used     *)
(* twice, one of the processes alive runs, and it gives up the processor   *)
(* to another by a switch or by finishing.  A process nobody asked for     *)
(* (idle) only ever takes over when no other process is left.              *)
(***************************************************************************)
EXTENDS Naturals

VARIABLES
  spawned,   \* every pid given so far
  alive,     \* the pids of processes that have not finished
  running    \* the pid that runs, or 0

avars == <<spawned, alive, running>>

AInit == spawned = {} /\ alive = {} /\ running = 0

Born(p) == p \notin spawned /\ spawned' = spawned \cup {p}

Spawn(p) ==
  /\ Born(p)
  /\ alive' = alive \cup {p}
  /\ UNCHANGED running

Switch(p) ==
  /\ p \in alive
  /\ running' = p
  /\ UNCHANGED <<spawned, alive>>

Finish(p) ==
  /\ alive' = alive \ {running}
  /\ p \in alive'
  /\ running' = p
  /\ UNCHANGED spawned

\* The last process finishes, or there was none to start with.
Alone == alive \subseteq {running}

RunIdle(p) ==
  /\ Alone
  /\ Born(p)
  /\ alive' = {p}
  /\ running' = p

Stop ==
  /\ Alone
  /\ alive' = {} /\ running' = 0
  /\ UNCHANGED spawned

ANext ==
  \/ \E p \in spawned' \ spawned : Spawn(p) \/ RunIdle(p)
  \/ \E p \in alive : Switch(p) \/ Finish(p)
  \/ Stop

ASpec == AInit /\ [][ANext]_avars
=============================================================================
