------------------------------ MODULE Startup ------------------------------
(***************************************************************************)
(* The kernel from its entry to the idle loop, with the interrupts that    *)
(* cut in: kernel_init of kernel.c, the two interrupt tables of            *)
(* interrupts.c and interrupt.c, the handlers of keyboard.c and timer.c,   *)
(* and the part of shell_init and of the shell's line they share.          *)
(*                                                                         *)
(* The devices are external: the interrupt controller (an edge on a line   *)
(* makes a request; initialising the controller forgets requests, and a    *)
(* line that is still high makes no new one) and the keyboard controller   *)
(* (it raises its line for each byte that reaches its output).             *)
(*                                                                         *)
(* The screen is Console's.  Of the keys, only letters are given to the    *)
(* shell here; what the other keys do to a line is in Shell.               *)
(***************************************************************************)
EXTENDS Integers, Sequences

CONSTANTS
  MAX_CMD_LEN,
  Letters,
  QueueSize,     \* bytes the keyboard controller holds; it drops more
  MaxKeys        \* bound on the keys pressed

ASSUME StartupAssumption ==
  /\ MaxKeys \in Nat /\ QueueSize \in Nat \ {0}
  /\ MAX_CMD_LEN \in Nat /\ MAX_CMD_LEN > MaxKeys + 1

VARIABLES
  step,          \* the call, or group of assignments, the start-up is at
  unset,         \* the assignments of shell_init that remain of the group
  idtr,          \* the table the last lidt loaded
  int_flag,      \* interrupts are enabled, unless a handler runs
  pic,           \* the interrupt controller: base vector, mask, requests, in service
  queue,         \* the keyboard controller: codes not read yet
  handler,       \* "none", "timer", or where the keyboard's is: "read" or "ack"
  cpu,           \* "runs", "panic" (isr_handler's screen, for good) or "reset"
  shell_active, cmd_buffer, cmd_pos, cursor_pos,
  typed,         \* ghost: the letters given to the shell
  caught,        \* ghost: one was given to it before shell_init had set its line up
  keys           \* ghost: how many keys were pressed

lineVars == <<shell_active, cmd_buffer, cmd_pos, cursor_pos, typed, caught>>
deviceVars == <<pic, queue, keys>>
mainVars == <<step, unset, idtr, int_flag>>
vars == <<mainVars, deviceVars, handler, cpu, lineVars>>

NUL == "NUL"
Silent == "silent"       \* the code of a release, or of F1 to F4
Codes == Letters \cup {Silent}
Irqs == 0..15
TIMER == 0
KEYBOARD == 1

\* The vectors with a gate in each table.
Gates == [none |-> {}, exceptions |-> 0..31, irqs |-> {32, 33}]

-----------------------------------------------------------------------------
(* The devices. *)

Requested(p, n) == [p EXCEPT !.requests = @ \cup {n}]

\* A key is pressed or released; only a byte that finds the queue empty reaches the
\* output and raises the line.
Press(code) ==
  /\ cpu = "runs"
  /\ keys < MaxKeys
  /\ Len(queue) < QueueSize
  /\ keys' = keys + 1
  /\ queue' = Append(queue, code)
  /\ pic' = IF queue = <<>> THEN Requested(pic, KEYBOARD) ELSE pic
  /\ UNCHANGED <<mainVars, handler, cpu, lineVars>>

\* The timer's period (10 ms) is far longer than its handler.
Tick ==
  /\ cpu = "runs"
  /\ TIMER \notin pic.requests \cup pic.serving
  /\ pic' = Requested(pic, TIMER)
  /\ UNCHANGED <<mainVars, queue, keys, handler, cpu, lineVars>>

\* inb(PS2_DATA): the next byte, if any, reaches the output.
TakeNoByte == UNCHANGED <<queue, pic>>     \* faulty: the data port is not read
TakeByte ==
  /\ queue' = Tail(queue)
  /\ pic' = IF Len(queue) > 1 THEN Requested(pic, KEYBOARD) ELSE pic

\* outb(PIC_MASTER_CMD, 0x20) ends the interrupt in service.
EndOfInterrupt == pic' = [pic EXCEPT !.serving = {}]

-----------------------------------------------------------------------------
Init ==
  /\ step = "idt_init"
  /\ unset = {"shell_active", "cmd_pos", "cursor_pos", "cmd_buffer"}
  /\ idtr = "none"
  /\ int_flag = FALSE
  /\ pic = [base |-> 8, masked |-> {}, requests |-> {}, serving |-> {}]
  /\ queue = <<>>
  /\ handler = "none"
  /\ cpu = "runs"
  /\ shell_active = 0
  /\ cmd_buffer = [i \in 0..(MAX_CMD_LEN - 1) |-> NUL]
  /\ cmd_pos = 0
  /\ cursor_pos = 0
  /\ typed = <<>>
  /\ caught = FALSE
  /\ keys = 0

At(s) == cpu = "runs" /\ handler = "none" /\ step = s

\* idt_init of interrupts.c, then console_init.
IdtInit ==
  /\ At("idt_init")
  /\ step' = "interrupt_init"
  /\ idtr' = "exceptions"
  /\ UNCHANGED <<unset, int_flag, deviceVars, handler, cpu, lineVars>>

\* interrupt_init: first the idt_init of interrupt.c, which loads a table of its own.
InterruptInit ==
  /\ At("interrupt_init")
  /\ step' = "pic_init"
  /\ idtr' = "irqs"
  /\ UNCHANGED <<unset, int_flag, deviceVars, handler, cpu, lineVars>>

PicAllOpen == [base |-> 32, masked |-> {}, requests |-> {}, serving |-> {}]   \* faulty: masks nothing
PicSetUp == [base |-> 32, masked |-> Irqs \ {TIMER, KEYBOARD}, requests |-> {}, serving |-> {}]

PicInit ==
  /\ At("pic_init")
  /\ step' = "keyboard_init"
  /\ pic' = PicSetUp
  /\ UNCHANGED <<unset, idtr, int_flag, queue, keys, handler, cpu, lineVars>>

\* keyboard_init: kbd_flush reads what the controller holds (up to 256 bytes).
KeyboardInitUnflushed ==   \* faulty: the bytes stay in the controller
  /\ At("keyboard_init")
  /\ step' = "sti"
  /\ UNCHANGED <<unset, idtr, int_flag, deviceVars, handler, cpu, lineVars>>

KeyboardInit ==
  /\ At("keyboard_init")
  /\ step' = "sti"
  /\ queue' = <<>>
  /\ pic' = IF Len(queue) > 1 THEN Requested(pic, KEYBOARD) ELSE pic
  /\ UNCHANGED <<unset, idtr, int_flag, keys, handler, cpu, lineVars>>

\* sti, after timer_init and init_memory, which share nothing with a handler; then
\* shell_init clears the screen and prints.
Sti ==
  /\ At("sti")
  /\ step' = "shell_init"
  /\ int_flag' = TRUE
  /\ UNCHANGED <<unset, idtr, deviceVars, handler, cpu, lineVars>>

\* shell_init assigns what the handler reads and writes, and none of it is volatile
\* or atomic, so the build may store it in any order; an interrupt may come between.
\* Printing the prompt and the loop in kernel_init follow.
ShellInit(v) ==
  /\ At("shell_init")
  /\ v \in unset
  /\ unset' = unset \ {v}
  /\ step' = IF unset' = {} THEN "halt" ELSE step
  /\ shell_active' = IF v = "shell_active" THEN 1 ELSE shell_active
  /\ cmd_pos' = IF v = "cmd_pos" THEN 0 ELSE cmd_pos
  /\ cursor_pos' = IF v = "cursor_pos" THEN 0 ELSE cursor_pos
  /\ cmd_buffer' = IF v = "cmd_buffer" THEN [cmd_buffer EXCEPT ![0] = NUL] ELSE cmd_buffer
  /\ UNCHANGED <<idtr, int_flag, deviceVars, handler, cpu, typed, caught>>

-----------------------------------------------------------------------------
(* Interrupts.  The gates are interrupt gates, so a handler is not itself  *)
(* interrupted.                                                            *)

Raised == {n \in pic.requests \ pic.masked : \A m \in pic.serving : n < m}

Interrupt(n) ==
  /\ cpu = "runs" /\ int_flag /\ handler = "none"
  /\ n \in Raised /\ \A m \in Raised : n <= m
  /\ pic' = [pic EXCEPT !.requests = @ \ {n}, !.serving = @ \cup {n}]
  /\ IF pic.base + n \in Gates[idtr]
       THEN handler' = (IF n = TIMER THEN "timer" ELSE "read") /\ UNCHANGED cpu
       ELSE cpu' = "reset" /\ UNCHANGED handler
  /\ UNCHANGED <<mainVars, queue, keys, lineVars>>

\* timer_handler_c: it counts the tick, which nothing reads; scheduler_tick returns.
TimerHandler ==
  /\ cpu = "runs" /\ handler = "timer"
  /\ EndOfInterrupt
  /\ handler' = "none"
  /\ UNCHANGED <<mainVars, queue, keys, cpu, lineVars>>

\* shell_process_input of a letter, with the cursor wherever it is.
Shifted(buf, c) ==
  [i \in DOMAIN buf |->
     IF i = cursor_pos THEN c ELSE IF i > cursor_pos /\ i <= cmd_pos THEN buf[i - 1] ELSE buf[i]]
InsertedUncounted(buf, c) == [Shifted(buf, c) EXCEPT ![cmd_pos] = NUL]   \* faulty: ended before it is counted
Inserted(buf, c) == [Shifted(buf, c) EXCEPT ![cmd_pos + 1] = NUL]

GiveToShell(c) ==
  /\ cmd_pos < MAX_CMD_LEN - 1
  /\ cmd_buffer' = Inserted(cmd_buffer, c)
  /\ cmd_pos' = cmd_pos + 1
  /\ cursor_pos' = cursor_pos + 1
  /\ typed' = Append(typed, c)
  /\ caught' = (caught \/ unset # {})
  /\ UNCHANGED shell_active

\* One iteration of keyboard_handler_c's loop.  While the shell is not active a
\* letter is only echoed.
ReadKey ==
  /\ cpu = "runs" /\ handler = "read" /\ queue # <<>>
  /\ TakeByte
  /\ IF Head(queue) \in Letters /\ shell_active = 1
       THEN GiveToShell(Head(queue))
       ELSE UNCHANGED lineVars
  /\ UNCHANGED <<mainVars, keys, handler, cpu>>

\* The loop's condition fails; update_cursor.
KeysRead ==
  /\ cpu = "runs" /\ handler = "read" /\ queue = <<>>
  /\ handler' = "ack"
  /\ UNCHANGED <<mainVars, deviceVars, cpu, lineVars>>

KeyboardAck ==
  /\ cpu = "runs" /\ handler = "ack"
  /\ EndOfInterrupt
  /\ handler' = "none"
  /\ UNCHANGED <<mainVars, queue, keys, cpu, lineVars>>

\* An instruction of the kernel faults.  With a gate, its stub and isr_handler show
\* the panic screen and halt; without one the fault ends in a reset.
Exception(v) ==
  /\ cpu = "runs"
  /\ cpu' = IF v \in Gates[idtr] THEN "panic" ELSE "reset"
  /\ UNCHANGED <<mainVars, deviceVars, handler, lineVars>>

Main ==
  \/ IdtInit \/ InterruptInit \/ PicInit \/ KeyboardInit \/ Sti
  \/ \E v \in unset : ShellInit(v)
Handler == TimerHandler \/ ReadKey \/ KeysRead \/ KeyboardAck

Next ==
  \/ \E code \in Codes : Press(code)
  \/ Tick
  \/ Main
  \/ \E n \in Irqs : Interrupt(n)
  \/ Handler
  \/ \E v \in 0..31 : Exception(v)

Spec == Init /\ [][Next]_vars

\* The processor runs on.  Strong fairness where a tick may come in between: between
\* two ticks there is time for the interrupted code and for the keyboard's handler.
FairSpec ==
  /\ Spec
  /\ WF_vars(Handler) /\ WF_vars(Interrupt(TIMER))
  /\ SF_vars(Main) /\ SF_vars(Interrupt(KEYBOARD))

-----------------------------------------------------------------------------
(* Properties. *)

\* The state is what the types and bounds of the code say; the line is no longer than
\* the number of keys pressed, for each byte is read once.
Steps == {"idt_init", "interrupt_init", "pic_init", "keyboard_init", "sti", "shell_init", "halt"}

StartupTypeOK ==
  /\ step \in Steps
  /\ unset \subseteq {"shell_active", "cmd_pos", "cursor_pos", "cmd_buffer"}
  /\ idtr \in DOMAIN Gates
  /\ int_flag \in BOOLEAN
  /\ pic \in [base : {8, 32}, masked : SUBSET Irqs, requests : SUBSET Irqs, serving : SUBSET Irqs]
  /\ queue \in Seq(Codes) /\ Len(queue) <= QueueSize
  /\ handler \in {"none", "timer", "read", "ack"}
  /\ cpu \in {"runs", "panic", "reset"}
  /\ shell_active \in {0, 1}
  /\ cmd_buffer \in [0..(MAX_CMD_LEN - 1) -> Letters \cup {NUL}]
  /\ cmd_pos \in 0..MaxKeys /\ cursor_pos \in 0..MaxKeys
  /\ typed \in Seq(Letters) /\ Len(typed) <= keys
  /\ caught \in BOOLEAN
  /\ keys \in 0..MaxKeys

\* Once interrupts are on, whatever the controller can raise has a gate in the table
\* that is loaded, and what is in service is what a handler is at work on: a missed
\* acknowledgement would shut out every later interrupt.
InterruptsServed ==
  cpu = "runs" =>
    /\ int_flag => \A n \in Irqs \ pic.masked : pic.base + n \in Gates[idtr]
    /\ pic.serving = CASE handler = "none" -> {} [] handler = "timer" -> {TIMER} [] OTHER -> {KEYBOARD}

\* A key is never stuck in the keyboard controller, not even one whose request was
\* lost when the interrupt controller was initialised: that one would keep all later
\* keys from being seen.
KeysTaken == queue # <<>> ~> (queue = <<>> \/ cpu # "runs")

\* The shell's line is what was typed since the shell became active, if no key came
\* while shell_init was setting the line up.
LineIsTyped ==
  ~caught =>
    /\ cmd_pos = Len(typed) /\ cursor_pos = Len(typed)
    /\ \A i \in 1..Len(typed) : cmd_buffer[i - 1] = typed[i]
    /\ cmd_buffer[cmd_pos] = NUL

\* isr_handler is the "common exception handler": from idt_init on an exception gets
\* to it and is shown, and the machine never just resets.
ExceptionsShown == step # "idt_init" => cpu # "reset"
=============================================================================
