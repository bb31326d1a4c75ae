----------------------------- MODULE Scheduler -----------------------------
(***************************************************************************)
(* The cooperative scheduler of kernel/scheduler.c with the context switch *)
(* of kernel/context_switch.asm.                                           *)
(*                                                                         *)
(* One processor runs the boot code, then processes.  Nothing preempts a   *)
(* process (scheduler_tick returns at once), so a call into the scheduler  *)
(* is one step.  The heap appears through what it promises: malloc of a    *)
(* stack yields one that nobody owns, or fails at any time, since other    *)
(* callers may have filled the heap.                                       *)
(*                                                                         *)
(* A saved context holds the return address of the call to process_yield   *)
(* in rip and, in rsp, the address of that same return address: resuming   *)
(* jumps without popping it.  sunk counts the words a process's stack      *)
(* pointer lies below where its code believes it to be.                    *)
(***************************************************************************)
EXTENDS Integers, FiniteSets

CONSTANTS
  MAX_PROCESSES,
  Stacks,        \* what malloc(STACK_SIZE) may return
  NoStack,       \* NULL
  StackWords,    \* STACK_SIZE / 8; sunk is not counted any further
  MaxPid         \* bound on the processes that callers create

ASSUME MaxProcessesAssumption == MAX_PROCESSES \in Nat \ {0}
ASSUME StacksAssumption == NoStack \notin Stacks
ASSUME StackWordsAssumption == StackWords \in Nat
ASSUME MaxPidAssumption == MaxPid \in Nat

VARIABLES
  g_procs, g_current, g_next_pid, g_scheduler_started,
  owned,         \* the stacks malloc has handed out
  thread         \* whose code runs: "boot", "process" (g_current's) or "lost"

vars == <<g_procs, g_current, g_next_pid, g_scheduler_started, owned, thread>>

Slots == 0..(MAX_PROCESSES - 1)

\* A process: entry tells idle_process from the callers' functions, and saved
\* is whether its context was written by a switch (or by process_create).
Unused ==
  [state |-> "UNUSED", pid |-> 0, stack |-> NoStack, entry |-> "none", saved |-> FALSE, sunk |-> 0]
Fresh(p, s, e) ==
  [state |-> "READY", pid |-> p, stack |-> s, entry |-> e, saved |-> FALSE, sunk |-> 0]

UnusedSlots(table) == {i \in Slots : table[i].state = "UNUSED"}
RunningSlots(table) == {i \in Slots : table[i].state = "RUNNING"}   \* faulty: READY is forgotten
RunnableSlots(table) == {i \in Slots : table[i].state \in {"READY", "RUNNING"}}
ReadySlots(table) == {i \in Slots : table[i].state = "READY"}
Least(S) == CHOOSE i \in S : \A j \in S : i <= j

\* alloc_slot and the assignments of process_create.
SpawnedByCount(table, s, e) ==   \* faulty: pids count the processes there are
  [table EXCEPT ![Least(UnusedSlots(table))] =
     Fresh(Cardinality(Slots \ UnusedSlots(table)) + 1, s, e)]
Spawned(table, s, e) == [table EXCEPT ![Least(UnusedSlots(table))] = Fresh(g_next_pid, s, e)]

\* Slot i takes the processor: state RUNNING, and context_switch_asm loads its context.
Sink(n) == IF n < StackWords THEN n + 1 ELSE n
Loaded(p) ==
  [p EXCEPT !.state = "RUNNING", !.sunk = IF p.saved THEN Sink(p.sunk) ELSE p.sunk]

Dispatch(table, i) ==
  /\ g_procs' = [table EXCEPT ![i] = Loaded(table[i])]
  /\ g_current' = i
  /\ g_scheduler_started' = TRUE
  /\ thread' = "process"

-----------------------------------------------------------------------------
Init ==
  /\ g_procs = [i \in Slots |-> Unused]
  /\ g_current = -1
  /\ g_next_pid = 1
  /\ g_scheduler_started = FALSE
  /\ owned = {}
  /\ thread = "boot"

\* A function the scheduler's callers wrote is running (idle_process only halts).
UserRuns == thread = "process" /\ g_procs[g_current].entry = "user"

\* process_create of a caller.  It returns -1 and changes nothing when no slot is
\* unused or malloc fails.
ProcessCreate ==
  /\ thread = "boot" \/ UserRuns
  /\ g_next_pid <= MaxPid
  /\ UnusedSlots(g_procs) # {}
  /\ \E s \in Stacks \ owned :
       /\ g_procs' = Spawned(g_procs, s, "user")
       /\ owned' = owned \cup {s}
  /\ g_next_pid' = g_next_pid + 1
  /\ UNCHANGED <<g_current, g_scheduler_started, thread>>

\* Table `table` has nothing to run: idle is created and takes the processor.
RunIdle(table, kept) ==
  /\ UnusedSlots(table) # {}
  /\ \E s \in Stacks \ kept :
       /\ LET spawned == Spawned(table, s, "idle") IN
            Dispatch(spawned, Least(ReadySlots(spawned)))
       /\ owned' = kept \cup {s}
  /\ g_next_pid' = g_next_pid + 1

SchedulerStart ==
  /\ thread = "boot"
  /\ ReadySlots(g_procs) # {}
  /\ Dispatch(g_procs, Least(ReadySlots(g_procs)))
  /\ UNCHANGED <<owned, g_next_pid>>

SchedulerStartIdle ==
  /\ thread = "boot"
  /\ ReadySlots(g_procs) = {}
  /\ RunIdle(g_procs, owned)

\* process_yield: the first READY slot after g_current, wrapping round, runs next.
\* With no other READY slot the caller keeps the processor and nothing changes.
Steps(from, i) == IF i > from THEN i - from ELSE i + MAX_PROCESSES - from
FirstInTable(from, S) == Least(S)         \* faulty: the search does not start after `from`
FirstWithoutWrap(from, S) == from + 1     \* faulty: no wrap, and the state is not looked at
FirstAfter(from, S) == CHOOSE i \in S : \A j \in S : Steps(from, i) <= Steps(from, j)

SavedStillRunning(p) == [p EXCEPT !.saved = TRUE]   \* faulty: the caller stays RUNNING
Saved(p) == [p EXCEPT !.state = "READY", !.saved = TRUE]

ProcessYield ==
  /\ UserRuns
  /\ ReadySlots(g_procs) # {}
  /\ LET left == [g_procs EXCEPT ![g_current] = Saved(@)] IN
       Dispatch(left, FirstAfter(g_current, ReadySlots(left)))
  /\ UNCHANGED <<owned, g_next_pid>>

\* process_exit, called by the process or by process_wrapper once its entry has
\* returned.  It frees the stack it stands on, clears the slot, and runs the
\* lowest runnable slot or, when there is none, idle.
ExitTable == [g_procs EXCEPT ![g_current] = Unused]
ExitOwnedLeaking == owned                 \* faulty: the stack is not freed
ExitOwned == owned \ {g_procs[g_current].stack}

ExitToReady ==
  /\ UserRuns
  /\ RunnableSlots(ExitTable) # {}
  /\ Dispatch(ExitTable, Least(RunnableSlots(ExitTable)))
  /\ owned' = ExitOwned
  /\ UNCHANGED g_next_pid

ExitToIdle ==
  /\ UserRuns
  /\ RunnableSlots(ExitTable) = {}
  /\ RunIdle(ExitTable, ExitOwned)

\* "FATAL: Cannot create idle process": process_exit returns to a caller that
\* has no more code to run.
ExitFatal ==
  /\ UserRuns
  /\ RunnableSlots(ExitTable) = {}
  /\ g_procs' = ExitTable
  /\ owned' = ExitOwned
  /\ g_scheduler_started' = FALSE
  /\ g_current' = -1
  /\ thread' = "lost"
  /\ UNCHANGED g_next_pid

\* An entry function returns with its stack pointer too low: the word it pops
\* is not the return address into process_wrapper.  (With sunk = 0 it is, and
\* the return is one of the exits above.)
ReturnAstray ==
  /\ UserRuns
  /\ g_procs[g_current].sunk > 0
  /\ thread' = "lost"
  /\ UNCHANGED <<g_procs, g_current, g_next_pid, g_scheduler_started, owned>>

Next ==
  \/ ProcessCreate \/ SchedulerStart \/ SchedulerStartIdle
  \/ ProcessYield
  \/ ExitToReady \/ ExitToIdle \/ ExitFatal
  \/ ReturnAstray

Spec == Init /\ [][Next]_vars

\* A process that others wait for yields in the end: every function written for
\* the scheduler calls process_yield in its loop (kernel.c).
FairSpec == Spec /\ WF_vars(ProcessYield)

-----------------------------------------------------------------------------
(* Properties. *)

Process ==
  [state : {"UNUSED", "READY", "RUNNING"}, pid : Nat, stack : Stacks \cup {NoStack},
   entry : {"none", "user", "idle"}, saved : BOOLEAN, sunk : 0..StackWords]

SchedTypeOK ==
  /\ g_procs \in [Slots -> Process]
  /\ g_current \in Slots \cup {-1}
  /\ g_next_pid \in Nat \ {0}
  /\ g_scheduler_started \in BOOLEAN
  /\ owned \subseteq Stacks
  /\ thread \in {"boot", "process", "lost"}

Used == {i \in Slots : g_procs[i].state # "UNUSED"}

\* The table always agrees with the processor: once started exactly the process in
\* g_current is RUNNING, and before (and after a failed exit) none is.
OneRunning ==
  /\ \A i \in Slots : g_procs[i].state = "RUNNING" <=> (g_scheduler_started /\ i = g_current)
  /\ g_scheduler_started => g_current \in Slots
  /\ thread = "process" => g_scheduler_started
  /\ thread = "boot" => ~g_scheduler_started

\* Through creation, exit and the reuse of slots, no two processes have one stack
\* and no stack is leaked or freed while a process in the table has it.
StacksOwned ==
  /\ \A i, j \in Used : g_procs[i].stack = g_procs[j].stack => i = j
  /\ owned = {g_procs[i].stack : i \in Used}

\* A pid names one process, also after its slot has been reused.
PidsDistinct ==
  /\ \A i, j \in Used : g_procs[i].pid = g_procs[j].pid => i = j
  /\ \A i \in Used : g_procs[i].pid > 0 /\ g_procs[i].pid < g_next_pid

\* Idle never yields, so a process beside it would never run again: it exists
\* only when it is the only process.
IdleAlone == \A i \in Used : g_procs[i].entry = "idle" => Used = {i}

\* Round robin: a switch by process_yield brings every slot that stays READY nearer
\* to its turn, wherever the table's holes are and whichever slots were reused.
NearerTurn ==
  [][(ProcessYield /\ g_current' # g_current) =>
       \A i \in Slots :
         g_procs[i].state = "READY" /\ g_procs'[i].state = "READY" =>
           Steps(g_current', i) < Steps(g_current, i)]_vars

\* A READY process gets to run, whichever processes exit (process_exit does not
\* take turns) and are created, as long as callers do not create without end.
ReadyRuns ==
  \A i \in Slots :
    (g_scheduler_started /\ g_procs[i].state = "READY") ~>
      (g_procs[i].state = "RUNNING" \/ thread = "lost")

\* The scheduler implements the abstract one.
Abstract ==
  INSTANCE AbstractScheduler WITH
    spawned <- 1..(g_next_pid - 1),
    alive <- {g_procs[i].pid : i \in Used},
    running <- IF g_scheduler_started THEN g_procs[g_current].pid ELSE 0

ImplementsAbstract == Abstract!ASpec

\* process_wrapper "calls entry, then process_exit" (scheduler.c): whenever a process
\* runs, a return from its entry function would reach process_wrapper.
EntryReturnsToWrapper == UserRuns => g_procs[g_current].sunk = 0
=============================================================================
