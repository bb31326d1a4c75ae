-------------------------- MODULE SchedulerProofs --------------------------
(***************************************************************************)
(* Proofs about Scheduler, for every number of slots, every set of stacks  *)
(* and every bound on the processes created.                               *)
(***************************************************************************)
EXTENDS Scheduler, Numbers, TLAPS

(* What holds of the table, the stacks owned and the next pid together.  The  *)
(* actions pass through tables that are never the value of g_procs (a cleared *)
(* slot before idle is created), so these are operators of the table.         *)
InUse(t) == {i \in Slots : t[i].state # "UNUSED"}

Sound(t, own, np) ==
  /\ t \in [Slots -> Process]
  /\ np \in Nat /\ np > 0
  /\ own \subseteq Stacks
  /\ own = {t[i].stack : i \in InUse(t)}
  /\ \A i, j \in InUse(t) : t[i].stack = t[j].stack => i = j
  /\ \A i, j \in InUse(t) : t[i].pid = t[j].pid => i = j
  /\ \A i \in InUse(t) : t[i].pid > 0 /\ t[i].pid < np

\* Idle is created only to run at once.
IdleRuns == \A i \in Used : g_procs[i].entry = "idle" => g_scheduler_started

IInv ==
  /\ SchedTypeOK
  /\ Sound(g_procs, owned, g_next_pid)
  /\ OneRunning
  /\ IdleAlone
  /\ IdleRuns

-----------------------------------------------------------------------------
(* The searches through the table. *)

LEMMA LeastFacts ==
  ASSUME NEW S \in SUBSET Slots, S # {}
  PROVE  Least(S) \in S /\ \A j \in S : Least(S) <= j
<1>1. \E i \in S : \A j \in S : i <= j
  BY LeastNatural, MaxProcessesAssumption DEF Slots
<1> QED
  BY <1>1 DEF Least

LEMMA StepsFacts ==
  ASSUME NEW from \in Slots, NEW i \in Slots, NEW j \in Slots
  PROVE  /\ Steps(from, i) \in 1..MAX_PROCESSES
         /\ Steps(from, i) = Steps(from, j) => i = j
         /\ Steps(from, i) < Steps(from, j) => Steps(i, j) < Steps(from, j)
  BY MaxProcessesAssumption DEF Steps, Slots

LEMMA FirstAfterFacts ==
  ASSUME NEW from \in Slots, NEW S \in SUBSET Slots, S # {}
  PROVE  /\ FirstAfter(from, S) \in S
         /\ \A j \in S : Steps(from, FirstAfter(from, S)) <= Steps(from, j)
<1>1. {Steps(from, i) : i \in S} \in SUBSET Nat /\ {Steps(from, i) : i \in S} # {}
  BY StepsFacts, MaxProcessesAssumption
<1>2. PICK n \in {Steps(from, i) : i \in S} : \A m \in {Steps(from, i) : i \in S} : n <= m
  BY <1>1, LeastNatural
<1>3. \E i \in S : \A j \in S : Steps(from, i) <= Steps(from, j)
  BY <1>2
<1> QED
  BY <1>3 DEF FirstAfter

-----------------------------------------------------------------------------
(* What the table operators preserve. *)

LEMMA SpawnedFacts ==
  ASSUME NEW t, NEW own, Sound(t, own, g_next_pid), UnusedSlots(t) # {},
         NEW s \in Stacks \ own, NEW e \in {"user", "idle"}
  PROVE  \E i \in Slots :
           /\ t[i].state = "UNUSED"
           /\ Spawned(t, s, e) = [t EXCEPT ![i] = Fresh(g_next_pid, s, e)]
           /\ Sound(Spawned(t, s, e), own \cup {s}, g_next_pid + 1)
<1> DEFINE i == Least(UnusedSlots(t))
           u == Spawned(t, s, e)
<1>1. i \in Slots /\ t[i].state = "UNUSED"
  <2>1. UnusedSlots(t) \in SUBSET Slots
    BY DEF UnusedSlots
  <2>2. i \in UnusedSlots(t)
    BY <2>1, LeastFacts
  <2> QED
    BY <2>2 DEF UnusedSlots
<1>2. u = [t EXCEPT ![i] = Fresh(g_next_pid, s, e)]
  BY DEF Spawned
<1> HIDE DEF i
<1>3. /\ u \in [Slots -> Process]
      /\ u[i] = Fresh(g_next_pid, s, e)
      /\ \A j \in Slots : j # i => u[j] = t[j]
  BY <1>1, <1>2, StackWordsAssumption DEF Sound, Fresh, Process
<1>4. u[i].state = "READY" /\ u[i].stack = s /\ u[i].pid = g_next_pid
  BY <1>3 DEF Fresh
<1> HIDE DEF u
<1>5. InUse(u) = InUse(t) \cup {i} /\ i \notin InUse(t)
  BY <1>1, <1>3, <1>4 DEF InUse
<1>6. \A j \in InUse(t) : u[j] = t[j] /\ u[j].stack # s /\ u[j].pid < g_next_pid
  BY <1>3, <1>5 DEF Sound, InUse
<1>7. own \cup {s} = {u[j].stack : j \in InUse(u)}
  BY <1>4, <1>5, <1>6 DEF Sound
<1>8. \A j, k \in InUse(u) : u[j].stack = u[k].stack => j = k
  BY <1>4, <1>5, <1>6 DEF Sound
<1>9. /\ \A j, k \in InUse(u) : u[j].pid = u[k].pid => j = k
      /\ \A j \in InUse(u) : u[j].pid > 0 /\ u[j].pid < g_next_pid + 1
  <2>1. \A j \in InUse(t) : t[j].pid \in Nat
    BY DEF Sound, InUse, Process
  <2> QED
    BY <1>4, <1>5, <1>6, <2>1 DEF Sound
<1>10. own \cup {s} \subseteq Stacks /\ g_next_pid + 1 \in Nat /\ g_next_pid + 1 > 0
  BY DEF Sound
<1>11. Sound(u, own \cup {s}, g_next_pid + 1)
  BY <1>3, <1>7, <1>8, <1>9, <1>10 DEF Sound
<1> QED
  BY <1>1, <1>2, <1>11 DEF u

LEMMA ReleaseSound ==
  ASSUME NEW t, NEW own, NEW np, Sound(t, own, np), NEW i \in InUse(t)
  PROVE  Sound([t EXCEPT ![i] = Unused], own \ {t[i].stack}, np)
<1> DEFINE u == [t EXCEPT ![i] = Unused]
<1>1. /\ u \in [Slots -> Process]
      /\ u[i].state = "UNUSED"
      /\ \A j \in Slots : j # i => u[j] = t[j]
  BY StackWordsAssumption DEF Sound, Unused, Process, InUse
<1> HIDE DEF u
<1>2. InUse(u) = InUse(t) \ {i} /\ \A j \in InUse(u) : u[j] = t[j]
  BY <1>1 DEF InUse
<1>3. own \ {t[i].stack} = {u[j].stack : j \in InUse(u)}
  BY <1>2 DEF Sound
<1>4. Sound(u, own \ {t[i].stack}, np)
  BY <1>1, <1>2, <1>3 DEF Sound
<1> QED
  BY <1>4 DEF u

\* A slot in use that changes neither its pid nor its stack.
LEMMA RestateSound ==
  ASSUME NEW t, NEW own, NEW np, Sound(t, own, np), NEW i \in InUse(t), NEW x \in Process,
         x.state # "UNUSED", x.pid = t[i].pid, x.stack = t[i].stack
  PROVE  Sound([t EXCEPT ![i] = x], own, np)
<1> DEFINE u == [t EXCEPT ![i] = x]
<1>1. /\ u \in [Slots -> Process] /\ u[i] = x
      /\ \A j \in Slots : j # i => u[j] = t[j]
  BY DEF Sound, InUse
<1> HIDE DEF u
<1>2. /\ InUse(u) = InUse(t)
      /\ \A j \in InUse(u) : u[j].pid = t[j].pid /\ u[j].stack = t[j].stack
  BY <1>1 DEF InUse
<1>3. own = {u[j].stack : j \in InUse(u)}
  BY <1>2 DEF Sound
<1>4. Sound(u, own, np)
  BY <1>1, <1>2, <1>3 DEF Sound
<1> QED
  BY <1>4 DEF u

LEMMA LoadedFacts ==
  ASSUME NEW p \in Process
  PROVE  /\ Loaded(p) \in Process
         /\ Loaded(p).state = "RUNNING" /\ Loaded(p).pid = p.pid
         /\ Loaded(p).stack = p.stack /\ Loaded(p).entry = p.entry
<1>1. Sink(p.sunk) \in 0..StackWords
  BY StackWordsAssumption DEF Sink, Process
<1> QED
  BY <1>1 DEF Loaded, Process

\* A table without a RUNNING slot, one of whose slots takes the processor.
LEMMA DispatchFacts ==
  ASSUME NEW t, Sound(t, owned', g_next_pid'), NEW i \in Slots, t[i].state = "READY",
         \A j \in Slots : t[j].state # "RUNNING",
         Dispatch(t, i)
  PROVE  /\ SchedTypeOK' /\ Sound(g_procs', owned', g_next_pid') /\ OneRunning'
         /\ g_scheduler_started'
         /\ Used' = InUse(t)
         /\ \A j \in Slots : g_procs'[j].entry = t[j].entry /\ g_procs'[j].pid = t[j].pid
         /\ g_current' = i
<1>1. t \in [Slots -> Process] /\ t[i] \in Process /\ i \in InUse(t)
  BY DEF Sound, InUse
<1>2. /\ g_procs' = [t EXCEPT ![i] = Loaded(t[i])] /\ g_current' = i
      /\ g_scheduler_started' = TRUE /\ thread' = "process"
  BY DEF Dispatch
<1>3. /\ g_procs'[i] = Loaded(t[i])
      /\ \A j \in Slots : j # i => g_procs'[j] = t[j]
  BY <1>1, <1>2
<1>4. Sound(g_procs', owned', g_next_pid')
  BY <1>1, <1>2, LoadedFacts, RestateSound
<1>5. \A j \in Slots : /\ g_procs'[j].state = "RUNNING" <=> j = i
                       /\ g_procs'[j].state = "UNUSED" <=> t[j].state = "UNUSED"
                       /\ g_procs'[j].entry = t[j].entry
                       /\ g_procs'[j].pid = t[j].pid
  BY <1>1, <1>3, LoadedFacts
<1>6. OneRunning'
  BY <1>2, <1>5 DEF OneRunning
<1>7. SchedTypeOK'
  BY <1>2, <1>4 DEF SchedTypeOK, Sound
<1>8. Used' = InUse(t)
  BY <1>5 DEF Used, InUse
<1> QED
  BY <1>2, <1>4, <1>5, <1>6, <1>7, <1>8

-----------------------------------------------------------------------------
(* The steps. *)

LEMMA InitIInv == Init => IInv
<1> SUFFICES ASSUME Init
             PROVE  IInv
  OBVIOUS
<1>1. /\ g_procs = [i \in Slots |-> Unused] /\ g_current = -1 /\ g_next_pid = 1
      /\ g_scheduler_started = FALSE /\ owned = {} /\ thread = "boot"
  BY DEF Init
<1>2. Unused \in Process /\ Unused.state = "UNUSED"
  BY StackWordsAssumption DEF Unused, Process
<1>3. /\ g_procs \in [Slots -> Process]
      /\ \A i \in Slots : g_procs[i].state = "UNUSED"
  BY <1>1, <1>2
<1>4. InUse(g_procs) = {} /\ Used = {}
  BY <1>3 DEF InUse, Used
<1>5. SchedTypeOK
  <2>1. g_scheduler_started \in BOOLEAN
    BY <1>1, Zenon
  <2> QED
    BY <1>1, <1>3, <2>1 DEF SchedTypeOK
<1>6. Sound(g_procs, owned, g_next_pid)
  BY <1>1, <1>3, <1>4 DEF Sound
<1>7. OneRunning /\ IdleAlone /\ IdleRuns
  BY <1>1, <1>3, <1>4 DEF OneRunning, IdleAlone, IdleRuns
<1> QED
  BY <1>5, <1>6, <1>7 DEF IInv

\* While the boot code or a caller's function runs, no slot holds idle.
LEMMA NoIdle ==
  ASSUME IInv, thread = "boot" \/ UserRuns
  PROVE  \A j \in Slots : g_procs[j].state # "UNUSED" => g_procs[j].entry # "idle"
<1>1. CASE thread = "boot"
  BY <1>1 DEF IInv, OneRunning, IdleRuns, Used
<1>2. CASE UserRuns
  <2>1. g_current \in Slots /\ g_procs[g_current].state = "RUNNING"
    BY <1>2 DEF IInv, OneRunning, UserRuns
  <2> QED
    BY <1>2, <2>1 DEF IInv, IdleAlone, Used, UserRuns
<1> QED
  BY <1>1, <1>2

\* A slot that takes the processor while the table holds no idle.
LEMMA DispatchStep ==
  ASSUME NEW t, Sound(t, owned', g_next_pid'), NEW i \in Slots, t[i].state = "READY",
         \A j \in Slots : t[j].state # "RUNNING",
         \A j \in InUse(t) : t[j].entry # "idle",
         Dispatch(t, i)
  PROVE  IInv'
<1>1. /\ SchedTypeOK' /\ Sound(g_procs', owned', g_next_pid') /\ OneRunning'
      /\ Used' = InUse(t) /\ \A j \in Slots : g_procs'[j].entry = t[j].entry
  BY DispatchFacts
<1>2. \A j \in Used' : g_procs'[j].entry # "idle"
  BY <1>1 DEF InUse
<1>3. IdleAlone' /\ IdleRuns'
  BY <1>2 DEF IdleAlone, IdleRuns
<1> QED
  BY <1>1, <1>3 DEF IInv, Sound, InUse

LEMMA RunIdleFacts ==
  ASSUME NEW t, NEW kept, Sound(t, kept, g_next_pid),
         \A j \in Slots : t[j].state = "UNUSED",
         RunIdle(t, kept)
  PROVE  /\ IInv' /\ g_scheduler_started' /\ g_next_pid' = g_next_pid + 1
         /\ Used' = {g_current'} /\ g_procs'[g_current'].pid = g_next_pid
<1>1. PICK s \in Stacks \ kept :
        /\ Dispatch(Spawned(t, s, "idle"), Least(ReadySlots(Spawned(t, s, "idle"))))
        /\ owned' = kept \cup {s}
  BY DEF RunIdle
<1>2. UnusedSlots(t) # {} /\ g_next_pid' = g_next_pid + 1
  BY DEF RunIdle
<1> DEFINE u == Spawned(t, s, "idle")
<1>3. PICK i \in Slots :
        /\ t[i].state = "UNUSED"
        /\ u = [t EXCEPT ![i] = Fresh(g_next_pid, s, "idle")]
        /\ Sound(u, kept \cup {s}, g_next_pid + 1)
  BY <1>2, SpawnedFacts
<1> HIDE DEF u
<1>4. /\ u[i].state = "READY" /\ u[i].entry = "idle" /\ u[i].pid = g_next_pid
      /\ \A j \in Slots : j # i => u[j].state = "UNUSED"
  BY <1>3 DEF Sound, Fresh
<1>5. ReadySlots(u) = {i} /\ InUse(u) = {i}
  BY <1>4 DEF ReadySlots, InUse
<1>6. Least(ReadySlots(u)) = i
  BY <1>5, LeastFacts
<1>7. Dispatch(u, i)
  BY <1>1, <1>6 DEF u
<1>8. Sound(u, owned', g_next_pid')
  BY <1>1, <1>2, <1>3
<1>9. /\ SchedTypeOK' /\ Sound(g_procs', owned', g_next_pid') /\ OneRunning'
      /\ g_scheduler_started' /\ Used' = {i} /\ g_current' = i
      /\ \A j \in Slots : g_procs'[j].pid = u[j].pid
  <2>1. \A j \in Slots : u[j].state # "RUNNING"
    BY <1>4
  <2> QED
    BY <1>4, <1>5, <1>7, <1>8, <2>1, DispatchFacts
<1>10. IdleAlone' /\ IdleRuns'
  BY <1>9 DEF IdleAlone, IdleRuns
<1> QED
  BY <1>2, <1>4, <1>9, <1>10 DEF IInv, Sound, InUse

LEMMA CreateStep ==
  ASSUME IInv, ProcessCreate
  PROVE  IInv'
<1>1. PICK s \in Stacks \ owned :
        g_procs' = Spawned(g_procs, s, "user") /\ owned' = owned \cup {s}
  BY DEF ProcessCreate
<1>2. /\ UnusedSlots(g_procs) # {} /\ g_next_pid' = g_next_pid + 1
      /\ UNCHANGED <<g_current, g_scheduler_started, thread>>
  BY DEF ProcessCreate
<1>3. PICK i \in Slots :
        /\ g_procs[i].state = "UNUSED"
        /\ Spawned(g_procs, s, "user") = [g_procs EXCEPT ![i] = Fresh(g_next_pid, s, "user")]
        /\ Sound(Spawned(g_procs, s, "user"), owned \cup {s}, g_next_pid + 1)
  BY <1>2, SpawnedFacts DEF IInv
<1>10. Sound(g_procs', owned', g_next_pid')
  BY <1>1, <1>2, <1>3
<1>4. g_procs \in [Slots -> Process]
  BY DEF IInv, SchedTypeOK
<1>5. /\ g_procs'[i].state = "READY" /\ g_procs'[i].entry = "user"
      /\ \A j \in Slots : j # i => g_procs'[j] = g_procs[j]
  BY <1>1, <1>3, <1>4 DEF Fresh
<1>6. SchedTypeOK'
  BY <1>2, <1>10 DEF IInv, SchedTypeOK, Sound
<1>7. OneRunning'
  BY <1>2, <1>3, <1>5 DEF IInv, OneRunning
<1>8. \A j \in Used' : g_procs'[j].entry # "idle"
  <2>1. thread = "boot" \/ UserRuns
    BY DEF ProcessCreate
  <2> QED
    BY <1>5, <2>1, NoIdle DEF Used
<1>9. IdleAlone' /\ IdleRuns'
  BY <1>8 DEF IdleAlone, IdleRuns
<1> QED
  BY <1>6, <1>7, <1>9, <1>10 DEF IInv, Sound, InUse

LEMMA StartStep ==
  ASSUME IInv, SchedulerStart
  PROVE  IInv'
<1>1. /\ ReadySlots(g_procs) \in SUBSET Slots /\ ReadySlots(g_procs) # {}
      /\ Dispatch(g_procs, Least(ReadySlots(g_procs)))
      /\ owned' = owned /\ g_next_pid' = g_next_pid /\ thread = "boot"
  BY DEF SchedulerStart, ReadySlots
<1>2. PICK i \in Slots : g_procs[i].state = "READY" /\ Dispatch(g_procs, i)
  BY <1>1, LeastFacts DEF ReadySlots
<1>3. \A j \in Slots : g_procs[j].state # "RUNNING"
  BY <1>1 DEF IInv, OneRunning
<1>4. \A j \in InUse(g_procs) : g_procs[j].entry # "idle"
  BY <1>1, NoIdle DEF InUse
<1> QED
  BY <1>1, <1>2, <1>3, <1>4, DispatchStep DEF IInv

LEMMA StartIdleFacts ==
  ASSUME IInv, SchedulerStartIdle
  PROVE  /\ \A j \in Slots : g_procs[j].state = "UNUSED"
         /\ Sound(g_procs, owned, g_next_pid)
         /\ RunIdle(g_procs, owned)
<1>1. \A j \in Slots : g_procs[j].state \in {"UNUSED", "READY", "RUNNING"}
  BY DEF IInv, SchedTypeOK, Process
<1> QED
  BY <1>1 DEF IInv, SchedulerStartIdle, OneRunning, ReadySlots

\* The table a yield leaves, and the slot it dispatches.
LEMMA YieldFacts ==
  ASSUME IInv, ProcessYield
  PROVE  \E t \in [Slots -> Process], i \in Slots :
           /\ Sound(t, owned', g_next_pid')
           /\ t[i].state = "READY" /\ Dispatch(t, i)
           /\ \A j \in Slots : /\ t[j].state # "RUNNING"
                               /\ t[j].pid = g_procs[j].pid
                               /\ t[j].entry = g_procs[j].entry
           /\ InUse(t) = Used
           /\ \A j \in Slots :
                g_procs[j].state = "READY" => Steps(g_current, i) <= Steps(g_current, j)
<1> DEFINE t == [g_procs EXCEPT ![g_current] = Saved(g_procs[g_current])]
           i == FirstAfter(g_current, ReadySlots(t))
<1>1. /\ g_current \in Slots /\ g_procs \in [Slots -> Process]
      /\ g_procs[g_current] \in Process /\ g_procs[g_current].state = "RUNNING"
      /\ \A j \in Slots : j # g_current => g_procs[j].state # "RUNNING"
  BY DEF IInv, SchedTypeOK, OneRunning, ProcessYield, UserRuns
<1>2. Dispatch(t, i) /\ owned' = owned /\ g_next_pid' = g_next_pid
  BY DEF ProcessYield
<1>3. /\ Saved(g_procs[g_current]) \in Process /\ Saved(g_procs[g_current]).state = "READY"
      /\ Saved(g_procs[g_current]).pid = g_procs[g_current].pid
      /\ Saved(g_procs[g_current]).stack = g_procs[g_current].stack
      /\ Saved(g_procs[g_current]).entry = g_procs[g_current].entry
  BY <1>1 DEF Saved, Process
<1>4. g_current \in InUse(g_procs)
  BY <1>1 DEF InUse
<1>5. Sound(t, owned', g_next_pid')
  BY <1>2, <1>3, <1>4, RestateSound DEF IInv
<1>6. /\ t[g_current] = Saved(g_procs[g_current])
      /\ \A j \in Slots : j # g_current => t[j] = g_procs[j]
  BY <1>1
<1> HIDE DEF t
<1>7. ReadySlots(t) \in SUBSET Slots /\ g_current \in ReadySlots(t)
  BY <1>1, <1>3, <1>6 DEF ReadySlots
<1>8. i \in ReadySlots(t) /\ \A j \in ReadySlots(t) : Steps(g_current, i) <= Steps(g_current, j)
  BY <1>1, <1>7, FirstAfterFacts
<1> HIDE DEF i
<1>9. \A j \in Slots : /\ t[j].state # "RUNNING"
                       /\ t[j].pid = g_procs[j].pid
                       /\ t[j].entry = g_procs[j].entry
                       /\ t[j].state # "UNUSED" <=> g_procs[j].state # "UNUSED"
                       /\ g_procs[j].state = "READY" => t[j].state = "READY"
  BY <1>1, <1>3, <1>6
<1>10. InUse(t) = Used
  BY <1>9 DEF InUse, Used
<1>11. i \in Slots /\ t[i].state = "READY"
  BY <1>8 DEF ReadySlots
<1>12. \A j \in Slots : g_procs[j].state = "READY" => Steps(g_current, i) <= Steps(g_current, j)
  BY <1>8, <1>9 DEF ReadySlots
<1>13. t \in [Slots -> Process]
  BY <1>5 DEF Sound
<1> QED
  BY <1>2, <1>5, <1>9, <1>10, <1>11, <1>12, <1>13

LEMMA YieldStep ==
  ASSUME IInv, ProcessYield
  PROVE  IInv'
<1>1. PICK t \in [Slots -> Process], i \in Slots :
           /\ Sound(t, owned', g_next_pid')
           /\ t[i].state = "READY" /\ Dispatch(t, i)
           /\ \A j \in Slots : /\ t[j].state # "RUNNING"
                               /\ t[j].entry = g_procs[j].entry
           /\ InUse(t) = Used
  BY YieldFacts
<1>2. \A j \in InUse(t) : t[j].entry # "idle"
  BY <1>1, NoIdle DEF Used, ProcessYield
<1> QED
  BY <1>1, <1>2, DispatchStep

\* The table process_exit leaves behind when it has freed the stack and the slot.
LEMMA ExitFacts ==
  ASSUME IInv, UserRuns
  PROVE  /\ g_current \in Used
         /\ Sound(ExitTable, ExitOwned, g_next_pid)
         /\ InUse(ExitTable) = Used \ {g_current}
         /\ \A j \in Slots : ExitTable[j].state # "RUNNING"
         /\ \A j \in InUse(ExitTable) : ExitTable[j] = g_procs[j] /\ ExitTable[j].entry # "idle"
         /\ RunnableSlots(ExitTable) = InUse(ExitTable)
<1>1. /\ g_current \in Slots /\ g_procs \in [Slots -> Process]
      /\ g_procs[g_current].state = "RUNNING"
      /\ \A j \in Slots : j # g_current => g_procs[j].state # "RUNNING"
      /\ \A j \in Slots : g_procs[j].state # "UNUSED" => g_procs[j].entry # "idle"
  BY NoIdle DEF IInv, SchedTypeOK, OneRunning, UserRuns
<1>2. g_current \in InUse(g_procs) /\ g_current \in Used
  BY <1>1 DEF InUse, Used
<1>3. Sound(ExitTable, ExitOwned, g_next_pid)
  BY <1>2, ReleaseSound DEF ExitTable, ExitOwned, IInv
<1>4. /\ ExitTable[g_current].state = "UNUSED"
      /\ \A j \in Slots : j # g_current => ExitTable[j] = g_procs[j]
  BY <1>1 DEF ExitTable, Unused
<1>5. InUse(ExitTable) = Used \ {g_current}
  BY <1>1, <1>4 DEF InUse, Used
<1>6. \A j \in Slots : ExitTable[j].state \in {"UNUSED", "READY"}
  BY <1>1, <1>4 DEF Process
<1>7. RunnableSlots(ExitTable) = InUse(ExitTable)
  BY <1>6 DEF RunnableSlots, InUse
<1> QED
  BY <1>1, <1>2, <1>3, <1>4, <1>5, <1>6, <1>7 DEF Used

LEMMA ExitToReadyFacts ==
  ASSUME IInv, ExitToReady
  PROVE  \E i \in InUse(ExitTable) :
           ExitTable[i].state = "READY" /\ Dispatch(ExitTable, i)
           /\ Sound(ExitTable, owned', g_next_pid')
<1>1. /\ UserRuns /\ RunnableSlots(ExitTable) # {}
      /\ Dispatch(ExitTable, Least(RunnableSlots(ExitTable)))
      /\ owned' = ExitOwned /\ g_next_pid' = g_next_pid
  BY DEF ExitToReady
<1>2. /\ Sound(ExitTable, ExitOwned, g_next_pid)
      /\ \A j \in Slots : ExitTable[j].state # "RUNNING"
      /\ RunnableSlots(ExitTable) = InUse(ExitTable)
  BY <1>1, ExitFacts
<1>3. RunnableSlots(ExitTable) \in SUBSET Slots
  BY DEF RunnableSlots
<1>4. PICK i \in RunnableSlots(ExitTable) : Dispatch(ExitTable, i)
  BY <1>1, <1>3, LeastFacts
<1>5. ExitTable[i].state = "READY"
  BY <1>2, <1>4 DEF RunnableSlots
<1> QED
  BY <1>1, <1>2, <1>4, <1>5

LEMMA ExitStep ==
  ASSUME IInv, ExitToReady \/ ExitToIdle \/ ExitFatal
  PROVE  IInv'
<1>1. UserRuns
  BY DEF ExitToReady, ExitToIdle, ExitFatal
<1>2. /\ Sound(ExitTable, ExitOwned, g_next_pid)
      /\ \A j \in Slots : ExitTable[j].state # "RUNNING"
      /\ \A j \in InUse(ExitTable) : ExitTable[j].entry # "idle"
      /\ RunnableSlots(ExitTable) = InUse(ExitTable)
  BY <1>1, ExitFacts
<1>3. CASE ExitToReady
  <2>1. PICK i \in InUse(ExitTable) :
          ExitTable[i].state = "READY" /\ Dispatch(ExitTable, i)
          /\ Sound(ExitTable, owned', g_next_pid')
    BY <1>3, ExitToReadyFacts
  <2>2. i \in Slots
    BY DEF InUse
  <2> QED
    BY <1>2, <2>1, <2>2, DispatchStep
<1>4. CASE ExitToIdle
  <2>1. RunIdle(ExitTable, ExitOwned) /\ \A j \in Slots : ExitTable[j].state = "UNUSED"
    BY <1>2, <1>4 DEF ExitToIdle, InUse
  <2> QED
    BY <1>2, <2>1, RunIdleFacts
<1>5. CASE ExitFatal
  <2>1. /\ g_procs' = ExitTable /\ owned' = ExitOwned /\ g_next_pid' = g_next_pid
        /\ g_scheduler_started' = FALSE /\ g_current' = -1 /\ thread' = "lost"
        /\ InUse(ExitTable) = {}
    BY <1>2, <1>5 DEF ExitFatal
  <2>2. Sound(g_procs', owned', g_next_pid')
    BY <1>2, <2>1
  <2>3. SchedTypeOK'
    <3>1. g_scheduler_started' \in BOOLEAN
      BY <2>1, Zenon
    <3> QED
      BY <2>1, <2>2, <3>1 DEF SchedTypeOK, Sound
  <2>4. Used' = {}
    BY <2>1 DEF Used, InUse
  <2>5. OneRunning'
    BY <1>2, <2>1 DEF OneRunning
  <2>6. IdleAlone' /\ IdleRuns'
    BY <2>4 DEF IdleAlone, IdleRuns
  <2> QED
    BY <2>2, <2>3, <2>5, <2>6 DEF IInv, Sound, InUse
<1> QED
  BY <1>3, <1>4, <1>5

LEMMA NextIInv ==
  ASSUME IInv, [Next]_vars
  PROVE  IInv'
<1>1. CASE SchedulerStartIdle
  BY <1>1, StartIdleFacts, RunIdleFacts
<1>2. CASE ReturnAstray \/ UNCHANGED vars
  <2>1. /\ UNCHANGED <<g_procs, g_current, g_next_pid, g_scheduler_started, owned>>
        /\ thread' \in {thread, "lost"}
    BY <1>2 DEF ReturnAstray, vars
  <2> QED
    BY <2>1 DEF IInv, SchedTypeOK, Sound, InUse, OneRunning, IdleAlone, IdleRuns, Used
<1> QED
  BY <1>1, <1>2, CreateStep, StartStep, YieldStep, ExitStep DEF Next

-----------------------------------------------------------------------------
(* The theorems. *)

LEMMA IInvImplies == IInv => SchedTypeOK /\ OneRunning /\ StacksOwned /\ PidsDistinct /\ IdleAlone
<1>1. IInv => StacksOwned /\ PidsDistinct
  BY DEF IInv, Sound, StacksOwned, PidsDistinct, InUse, Used
<1> QED
  BY <1>1 DEF IInv

\* However processes are created, yield, exit and reuse slots: the table agrees with
\* the processor, stacks are neither shared nor leaked, pids are distinct, and idle
\* never keeps a process from running.
THEOREM SchedulerSafe ==
  Spec => [](SchedTypeOK /\ OneRunning /\ StacksOwned /\ PidsDistinct /\ IdleAlone)
<1>1. Init => IInv
  BY InitIInv
<1>2. IInv /\ [Next]_vars => IInv'
  BY NextIInv
<1> QED
  BY <1>1, <1>2, IInvImplies, PTL DEF Spec

\* The parts of SchedulerSafe, each on its own: every entry of the process table, the
\* pids handed out and the stacks stay within what the code declares them to be.
COROLLARY SchedulerTyped == Spec => []SchedTypeOK
BY SchedulerSafe, PTL

\* Exactly the process in g_current is
\* RUNNING while the scheduler is started, and none otherwise.
COROLLARY SchedulerAgrees == Spec => []OneRunning
BY SchedulerSafe, PTL

\* A pid is never given to two processes of the table.
COROLLARY SchedulerNames == Spec => []PidsDistinct
BY SchedulerSafe, PTL

\* Idle, which never yields, is never beside another process.
COROLLARY SchedulerIdles == Spec => []IdleAlone
BY SchedulerSafe, PTL

\* Yielding takes turns, in every reachable state.
THEOREM SchedulerTurns == Spec => NearerTurn
<1>1. ASSUME IInv, ProcessYield, g_current' # g_current, NEW j \in Slots,
             g_procs[j].state = "READY", g_procs'[j].state = "READY"
      PROVE  Steps(g_current', j) < Steps(g_current, j)
  <2>1. PICK t \in [Slots -> Process], i \in Slots :
          /\ Sound(t, owned', g_next_pid')
          /\ t[i].state = "READY" /\ Dispatch(t, i)
          /\ \A k \in Slots : t[k].state # "RUNNING"
          /\ Steps(g_current, i) <= Steps(g_current, j)
    BY <1>1, YieldFacts
  <2>2. g_current' = i /\ g_procs'[i].state = "RUNNING"
    BY <2>1, DispatchFacts DEF OneRunning
  <2>3. g_current \in Slots /\ i # j
    BY <1>1, <2>2 DEF IInv, OneRunning, ProcessYield, UserRuns
  <2>4. Steps(g_current, i) < Steps(g_current, j)
    BY <2>1, <2>3, StepsFacts
  <2> QED
    BY <2>2, <2>3, <2>4, StepsFacts
<1>2. IInv /\ [Next]_vars =>
        [(ProcessYield /\ g_current' # g_current) =>
           \A i \in Slots :
             g_procs[i].state = "READY" /\ g_procs'[i].state = "READY" =>
               Steps(g_current', i) < Steps(g_current, i)]_vars
  BY <1>1
<1>3. Init => IInv
  BY InitIInv
<1>4. IInv /\ [Next]_vars => IInv'
  BY NextIInv
<1> QED
  BY <1>2, <1>3, <1>4, PTL DEF Spec, NearerTurn

-----------------------------------------------------------------------------
(* Refinement. *)

Alive == {g_procs[i].pid : i \in Used}
Running == IF g_scheduler_started THEN g_procs[g_current].pid ELSE 0
Pids == 1..(g_next_pid - 1)

\* The pids handed out before and after a creation.
LEMMA BornFacts ==
  ASSUME IInv, g_next_pid' = g_next_pid + 1
  PROVE  /\ g_next_pid \in Pids' \ Pids
         /\ g_next_pid \notin Pids
         /\ Pids' = Pids \cup {g_next_pid}
  BY DEF IInv, SchedTypeOK, Pids

LEMMA RunningFacts ==
  ASSUME IInv
  PROVE  /\ UserRuns => Running = g_procs[g_current].pid
         /\ thread = "boot" => Running = 0
         /\ g_procs \in [Slots -> Process]
  BY DEF IInv, SchedTypeOK, OneRunning, UserRuns, Running

\* A slot dispatched in a table with the same processes: the abstract switch.
LEMMA DispatchRefines ==
  ASSUME NEW t, Sound(t, owned', g_next_pid'), NEW i \in Slots, t[i].state = "READY",
         \A j \in Slots : t[j].state # "RUNNING",
         Dispatch(t, i)
  PROVE  /\ Alive' = {t[j].pid : j \in InUse(t)}
         /\ Running' = t[i].pid /\ t[i].pid \in Alive'
<1>1. /\ g_scheduler_started' /\ Used' = InUse(t) /\ g_current' = i
      /\ \A j \in Slots : g_procs'[j].pid = t[j].pid
  BY DispatchFacts
<1>2. InUse(t) \subseteq Slots /\ i \in InUse(t)
  BY DEF InUse
<1>3. Alive' = {t[j].pid : j \in InUse(t)}
  BY <1>1, <1>2 DEF Alive
<1>4. Running' = t[i].pid
  BY <1>1 DEF Running
<1> QED
  BY <1>2, <1>3, <1>4

LEMMA CreateRefines ==
  ASSUME IInv, ProcessCreate
  PROVE  \E p \in Pids' \ Pids : Abstract!Spawn(p)
<1>1. PICK s \in Stacks \ owned :
        g_procs' = Spawned(g_procs, s, "user")
  BY DEF ProcessCreate
<1>2. /\ UnusedSlots(g_procs) # {} /\ g_next_pid' = g_next_pid + 1
      /\ UNCHANGED <<g_current, g_scheduler_started, thread>>
  BY DEF ProcessCreate
<1>3. PICK i \in Slots :
        /\ g_procs[i].state = "UNUSED"
        /\ Spawned(g_procs, s, "user") = [g_procs EXCEPT ![i] = Fresh(g_next_pid, s, "user")]
        /\ Sound(Spawned(g_procs, s, "user"), owned \cup {s}, g_next_pid + 1)
  BY <1>2, SpawnedFacts DEF IInv
<1>4. /\ g_procs'[i].state = "READY" /\ g_procs'[i].pid = g_next_pid
      /\ \A j \in Slots : j # i => g_procs'[j] = g_procs[j]
  BY <1>1, <1>3, RunningFacts DEF Fresh
<1>5. Used' = Used \cup {i} /\ i \notin Used /\ Used \subseteq Slots
  BY <1>3, <1>4 DEF Used
<1>6. Alive' = Alive \cup {g_next_pid}
  BY <1>4, <1>5 DEF Alive
<1>7. Running' = Running
  <2>1. g_scheduler_started => g_current \in Slots /\ g_current # i
    BY <1>3 DEF IInv, OneRunning
  <2> QED
    BY <1>2, <1>4, <2>1 DEF Running
<1>8. PICK p \in Pids' \ Pids : p = g_next_pid
  BY <1>2, BornFacts
<1>9. Abstract!Born(p)
  BY <1>2, <1>8, BornFacts DEF Abstract!Born, Pids
<1>10. Abstract!Spawn(p)
  BY <1>6, <1>7, <1>8, <1>9 DEF Abstract!Spawn, Alive, Running
<1> QED
  BY <1>10

LEMMA StartRefines ==
  ASSUME IInv, SchedulerStart
  PROVE  \E p \in Alive : Abstract!Switch(p)
<1>1. /\ ReadySlots(g_procs) \in SUBSET Slots /\ ReadySlots(g_procs) # {}
      /\ Dispatch(g_procs, Least(ReadySlots(g_procs)))
      /\ owned' = owned /\ g_next_pid' = g_next_pid /\ thread = "boot"
  BY DEF SchedulerStart, ReadySlots
<1>2. PICK i \in Slots : g_procs[i].state = "READY" /\ Dispatch(g_procs, i)
  BY <1>1, LeastFacts DEF ReadySlots
<1>3. \A j \in Slots : g_procs[j].state # "RUNNING"
  BY <1>1 DEF IInv, OneRunning
<1>4. /\ Alive' = {g_procs[j].pid : j \in InUse(g_procs)}
      /\ Running' = g_procs[i].pid /\ g_procs[i].pid \in Alive'
  BY <1>1, <1>2, <1>3, DispatchRefines DEF IInv
<1>5. Alive' = Alive
  BY <1>4 DEF Alive, Used, InUse
<1> QED
  BY <1>1, <1>4, <1>5 DEF Abstract!Switch, Alive, Running

LEMMA YieldRefines ==
  ASSUME IInv, ProcessYield
  PROVE  \E p \in Alive : Abstract!Switch(p)
<1>1. PICK t \in [Slots -> Process], i \in Slots :
           /\ Sound(t, owned', g_next_pid')
           /\ t[i].state = "READY" /\ Dispatch(t, i)
           /\ \A j \in Slots : t[j].state # "RUNNING" /\ t[j].pid = g_procs[j].pid
           /\ InUse(t) = Used
  BY YieldFacts
<1>2. /\ Alive' = {t[j].pid : j \in InUse(t)}
      /\ Running' = t[i].pid /\ t[i].pid \in Alive'
  BY <1>1, DispatchRefines
<1>3. Alive' = Alive
  BY <1>1, <1>2 DEF Alive, Used
<1>4. g_next_pid' = g_next_pid
  BY DEF ProcessYield
<1> QED
  BY <1>2, <1>3, <1>4 DEF Abstract!Switch, Alive, Running

\* What the exits leave alive: everyone but the process that exits.
LEMMA ExitAlive ==
  ASSUME IInv, UserRuns
  PROVE  /\ Running = g_procs[g_current].pid
         /\ {ExitTable[j].pid : j \in InUse(ExitTable)} = Alive \ {Running}
         /\ InUse(ExitTable) = {} => Alive \subseteq {Running}
<1>1. /\ g_current \in Used /\ InUse(ExitTable) = Used \ {g_current}
      /\ \A j \in InUse(ExitTable) : ExitTable[j] = g_procs[j]
  BY ExitFacts
<1>2. Running = g_procs[g_current].pid
  BY RunningFacts
<1>3. \A i, j \in Used : g_procs[i].pid = g_procs[j].pid => i = j
  BY DEF IInv, Sound, InUse, Used
<1> QED
  BY <1>1, <1>2, <1>3 DEF Alive

LEMMA ExitRefines ==
  ASSUME IInv, ExitToReady
  PROVE  \E p \in Alive : Abstract!Finish(p)
<1>1. PICK i \in InUse(ExitTable) :
        ExitTable[i].state = "READY" /\ Dispatch(ExitTable, i)
        /\ Sound(ExitTable, owned', g_next_pid')
  BY ExitToReadyFacts
<1>2. UserRuns /\ g_next_pid' = g_next_pid
  BY DEF ExitToReady
<1>3. i \in Slots /\ \A j \in Slots : ExitTable[j].state # "RUNNING"
  BY <1>2, ExitFacts DEF InUse
<1>4. /\ Alive' = {ExitTable[j].pid : j \in InUse(ExitTable)}
      /\ Running' = ExitTable[i].pid /\ ExitTable[i].pid \in Alive'
  BY <1>1, <1>3, DispatchRefines
<1>5. Alive' = Alive \ {Running}
  BY <1>2, <1>4, ExitAlive
<1> QED
  BY <1>2, <1>4, <1>5 DEF Abstract!Finish, Alive, Running

LEMMA RunIdleRefines ==
  ASSUME IInv, NEW t, NEW kept, Sound(t, kept, g_next_pid),
         \A j \in Slots : t[j].state = "UNUSED",
         RunIdle(t, kept), Alive \subseteq {Running}
  PROVE  \E p \in Pids' \ Pids : Abstract!RunIdle(p)
<1>1. /\ g_scheduler_started' /\ g_next_pid' = g_next_pid + 1
      /\ Used' = {g_current'} /\ g_procs'[g_current'].pid = g_next_pid
  BY RunIdleFacts
<1>2. Alive' = {g_next_pid} /\ Running' = g_next_pid
  BY <1>1 DEF Alive, Running
<1>3. PICK p \in Pids' \ Pids : p = g_next_pid
  BY <1>1, BornFacts
<1>4. Abstract!Born(p)
  BY <1>1, <1>3, BornFacts DEF Abstract!Born, Pids
<1>5. Abstract!Alone
  BY DEF Abstract!Alone, Alive, Running
<1>6. Abstract!RunIdle(p)
  BY <1>2, <1>3, <1>4, <1>5 DEF Abstract!RunIdle, Alive, Running
<1> QED
  BY <1>6

LEMMA NextRefines ==
  ASSUME IInv, IInv', [Next]_vars
  PROVE  Abstract!ANext \/ UNCHANGED <<Pids, Alive, Running>>
<1>1. CASE ProcessCreate
  BY <1>1, CreateRefines DEF Abstract!ANext, Pids
<1>2. CASE SchedulerStart \/ ProcessYield
  BY <1>2, StartRefines, YieldRefines DEF Abstract!ANext, Alive
<1>3. CASE ExitToReady
  BY <1>3, ExitRefines DEF Abstract!ANext, Alive
<1>4. CASE SchedulerStartIdle
  <2>1. Alive \subseteq {Running}
    BY <1>4, StartIdleFacts DEF Alive, Used
  <2>2. \E p \in Pids' \ Pids : Abstract!RunIdle(p)
    BY <1>4, <2>1, StartIdleFacts, RunIdleRefines
  <2> QED
    BY <2>2 DEF Abstract!ANext, Pids
<1>5. CASE ExitToIdle
  <2>1. UserRuns /\ RunIdle(ExitTable, ExitOwned)
    BY <1>5 DEF ExitToIdle
  <2>2. /\ Sound(ExitTable, ExitOwned, g_next_pid) /\ InUse(ExitTable) = {}
        /\ \A j \in Slots : ExitTable[j].state = "UNUSED"
    BY <1>5, <2>1, ExitFacts DEF ExitToIdle, InUse
  <2>3. Alive \subseteq {Running}
    BY <2>1, <2>2, ExitAlive
  <2>4. \E p \in Pids' \ Pids : Abstract!RunIdle(p)
    BY <2>1, <2>2, <2>3, RunIdleRefines
  <2> QED
    BY <2>4 DEF Abstract!ANext, Pids
<1>6. CASE ExitFatal
  <2>1. /\ UserRuns /\ g_procs' = ExitTable /\ g_next_pid' = g_next_pid
        /\ g_scheduler_started' = FALSE
    BY <1>6 DEF ExitFatal
  <2>2. InUse(ExitTable) = {}
    BY <1>6, <2>1, ExitFacts DEF ExitFatal
  <2>3. Alive' = {} /\ Running' = 0
    BY <2>1, <2>2 DEF Alive, Used, InUse, Running
  <2>4. Abstract!Alone
    BY <2>1, <2>2, ExitAlive DEF Abstract!Alone, Alive, Running
  <2>5. Abstract!Stop
    BY <2>1, <2>3, <2>4 DEF Abstract!Stop, Alive, Running
  <2> QED
    BY <2>5 DEF Abstract!ANext
<1>7. CASE ReturnAstray \/ UNCHANGED vars
  BY <1>7 DEF ReturnAstray, vars, Pids, Alive, Used, Running
<1> QED
  BY <1>1, <1>2, <1>3, <1>4, <1>5, <1>6, <1>7 DEF Next

\* The scheduler implements the abstract one, for every number of slots.
THEOREM SchedulerImplements == Spec => ImplementsAbstract
<1>1. Init => IInv /\ Abstract!AInit
  <2> SUFFICES ASSUME Init
               PROVE  IInv /\ Abstract!AInit
    OBVIOUS
  <2>1. IInv
    BY InitIInv
  <2>2. Used = {} /\ g_next_pid = 1 /\ g_scheduler_started = FALSE
    BY DEF Init, Used, Unused
  <2>3. Abstract!AInit
    BY <2>2 DEF Abstract!AInit
  <2> QED
    BY <2>1, <2>3
<1>2. IInv /\ [Next]_vars => IInv'
  BY NextIInv
<1>3. IInv /\ IInv' /\ [Next]_vars => [Abstract!ANext]_(Abstract!avars)
  BY NextRefines DEF Abstract!avars, Pids, Alive, Running
<1> QED
  BY <1>1, <1>2, <1>3, PTL DEF Spec, ImplementsAbstract, Abstract!ASpec
=============================================================================
