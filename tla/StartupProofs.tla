--------------------------- MODULE StartupProofs ---------------------------
(***************************************************************************)
(* The start-up for every length of the line, size of the keyboard         *)
(* controller's queue and number of keys.                                  *)
(***************************************************************************)
EXTENDS Startup, TLAPS

\* What is set up when: the table and the controller before interrupts are on.
Staged ==
  /\ step \notin {"idt_init", "interrupt_init"} => idtr = "irqs"
  /\ step \in {"keyboard_init", "sti", "shell_init", "halt"} =>
       pic.base = 32 /\ pic.masked = Irqs \ {TIMER, KEYBOARD}
  /\ int_flag => step \in {"shell_init", "halt"}

\* Each key is read once, and the line is no longer than what was typed.
Counted ==
  /\ Len(typed) + Len(queue) <= keys
  /\ cmd_pos <= Len(typed) /\ cursor_pos <= Len(typed)

\* A letter the shell has got while it was being set up has been noted.
Early == ~caught /\ unset # {} => typed = <<>>

IInv == StartupTypeOK /\ Staged /\ InterruptsServed /\ Counted /\ Early /\ LineIsTyped

PicType == [base : {8, 32}, masked : SUBSET Irqs, requests : SUBSET Irqs, serving : SUBSET Irqs]

LEMMA StartupInitInv == Init => IInv
<1> SUFFICES ASSUME Init
             PROVE  IInv
  OBVIOUS
<1>1. MaxKeys \in Nat /\ QueueSize \in Nat \ {0} /\ MAX_CMD_LEN \in Nat /\ MAX_CMD_LEN > 1
  BY StartupAssumption
<1>2. StartupTypeOK
  <2>1. cmd_buffer \in [0..(MAX_CMD_LEN - 1) -> Letters \cup {NUL}]
    BY DEF Init
  <2>2. pic \in PicType
    BY DEF Init, PicType, Irqs
  <2>3. queue \in Seq(Codes) /\ Len(queue) <= QueueSize /\ typed \in Seq(Letters) /\ Len(typed) <= keys
    BY <1>1 DEF Init
  <2>4. idtr \in DOMAIN Gates
    BY DEF Init, Gates
  <2>5. cmd_pos \in 0..MaxKeys /\ cursor_pos \in 0..MaxKeys /\ keys \in 0..MaxKeys
    BY <1>1 DEF Init
  <2> QED
    BY <2>1, <2>2, <2>3, <2>4, <2>5 DEF Init, StartupTypeOK, Steps, PicType
<1>3. Staged /\ InterruptsServed
  BY DEF Init, Staged, InterruptsServed
<1>4. Counted /\ Early
  BY DEF Init, Counted, Early
<1>5. LineIsTyped
  BY <1>1 DEF Init, LineIsTyped
<1> QED
  BY <1>2, <1>3, <1>4, <1>5 DEF IInv

\* A request leaves the rest of the controller alone.
LEMMA RequestedFact ==
  ASSUME NEW p \in PicType, NEW n \in Irqs
  PROVE  /\ Requested(p, n) \in PicType /\ Requested(p, n).base = p.base
         /\ Requested(p, n).masked = p.masked /\ Requested(p, n).serving = p.serving
  BY DEF Requested, PicType

-----------------------------------------------------------------------------
(* What an interrupt finds. *)

LEMMA PressDevices ==
  ASSUME StartupTypeOK, Staged, InterruptsServed, NEW code \in Codes, Press(code)
  PROVE  pic' \in PicType /\ Staged' /\ InterruptsServed'
<1>1. pic \in PicType /\ KEYBOARD \in Irqs
  BY DEF StartupTypeOK, PicType, Irqs, KEYBOARD
<1>2. /\ pic' \in PicType /\ pic'.base = pic.base /\ pic'.masked = pic.masked
      /\ pic'.serving = pic.serving
  BY <1>1, RequestedFact DEF Press
<1>3. UNCHANGED <<step, idtr, int_flag, handler, cpu>>
  BY DEF Press, mainVars
<1> QED
  BY <1>2, <1>3 DEF Staged, InterruptsServed

LEMMA TickDevices ==
  ASSUME StartupTypeOK, Staged, InterruptsServed, Tick
  PROVE  pic' \in PicType /\ Staged' /\ InterruptsServed'
<1>1. pic \in PicType /\ TIMER \in Irqs
  BY DEF StartupTypeOK, PicType, Irqs, TIMER
<1>2. /\ pic' \in PicType /\ pic'.base = pic.base /\ pic'.masked = pic.masked
      /\ pic'.serving = pic.serving
  BY <1>1, RequestedFact DEF Tick
<1>3. UNCHANGED <<step, idtr, int_flag, handler, cpu>>
  BY DEF Tick, mainVars
<1> QED
  BY <1>2, <1>3 DEF Staged, InterruptsServed

LEMMA MainDevices ==
  ASSUME StartupTypeOK, Staged, InterruptsServed, Main
  PROVE  pic' \in PicType /\ Staged' /\ InterruptsServed'
<1>0. pic \in PicType /\ KEYBOARD \in Irqs
  BY DEF StartupTypeOK, PicType, Irqs, KEYBOARD
<1>1. CASE IdtInit
  <2>1. pic' = pic /\ handler' = handler /\ int_flag' = int_flag /\ step = "idt_init" /\ step' = "interrupt_init"
    BY <1>1 DEF IdtInit, At, deviceVars
  <2>2. ~int_flag
    BY <2>1 DEF Staged
  <2> QED
    BY <1>0, <1>1, <2>1, <2>2 DEF IdtInit, Staged, InterruptsServed
<1>2. CASE InterruptInit
  <2>1. /\ pic' = pic /\ handler' = handler /\ int_flag' = int_flag
        /\ step = "interrupt_init" /\ step' = "pic_init" /\ idtr' = "irqs"
    BY <1>2 DEF InterruptInit, At, deviceVars
  <2>2. ~int_flag
    BY <2>1 DEF Staged
  <2> QED
    BY <1>0, <1>2, <2>1, <2>2 DEF InterruptInit, Staged, InterruptsServed
<1>3. CASE PicInit
  <2>1. /\ pic' = PicSetUp /\ idtr' = idtr /\ handler' = handler /\ handler = "none"
        /\ int_flag' = int_flag /\ step = "pic_init" /\ step' = "keyboard_init"
    BY <1>3 DEF PicInit, At
  <2>2. ~int_flag /\ idtr = "irqs"
    BY <2>1 DEF Staged
  <2>3. /\ PicSetUp \in PicType /\ PicSetUp.base = 32 /\ PicSetUp.masked = Irqs \ {TIMER, KEYBOARD}
        /\ PicSetUp.serving = {}
    BY DEF PicSetUp, PicType
  <2> QED
    BY <2>1, <2>2, <2>3 DEF Staged, InterruptsServed
<1>4. CASE KeyboardInit
  <2>1. /\ idtr' = idtr /\ handler' = handler /\ int_flag' = int_flag
        /\ step = "keyboard_init" /\ step' = "sti"
        /\ pic' = pic \/ pic' = Requested(pic, KEYBOARD)
    BY <1>4 DEF KeyboardInit, At
  <2>2. /\ pic' \in PicType /\ pic'.base = pic.base /\ pic'.masked = pic.masked
        /\ pic'.serving = pic.serving
    BY <1>0, <2>1, RequestedFact
  <2> QED
    BY <1>4, <2>1, <2>2 DEF KeyboardInit, Staged, InterruptsServed
<1>5. CASE Sti
  <2>1. /\ idtr' = idtr /\ handler' = handler /\ pic' = pic /\ step = "sti" /\ step' = "shell_init"
        /\ cpu' = cpu
    BY <1>5 DEF Sti, At, deviceVars
  <2>2. idtr = "irqs" /\ pic.base = 32 /\ pic.masked = Irqs \ {TIMER, KEYBOARD}
    BY <2>1 DEF Staged
  <2>3. \A n \in Irqs \ pic.masked : pic.base + n \in Gates[idtr]
    BY <2>2 DEF Irqs, TIMER, KEYBOARD, Gates
  <2> QED
    BY <1>0, <2>1, <2>2, <2>3 DEF Staged, InterruptsServed
<1>6. ASSUME NEW v \in unset, ShellInit(v)
      PROVE  pic' \in PicType /\ Staged' /\ InterruptsServed'
  <2>1. /\ pic' = pic /\ handler' = handler /\ int_flag' = int_flag /\ idtr' = idtr /\ cpu' = cpu
        /\ step = "shell_init" /\ step' \in {"shell_init", "halt"}
    BY <1>6 DEF ShellInit, At, deviceVars
  <2> QED
    BY <1>0, <2>1 DEF Staged, InterruptsServed
<1> QED
  BY <1>1, <1>2, <1>3, <1>4, <1>5, <1>6 DEF Main

LEMMA InterruptDevices ==
  ASSUME StartupTypeOK, Staged, InterruptsServed, NEW n \in Irqs, Interrupt(n)
  PROVE  pic' \in PicType /\ Staged' /\ InterruptsServed' /\ UNCHANGED cpu
<1>1. /\ pic \in PicType /\ int_flag /\ handler = "none" /\ cpu = "runs" /\ n \notin pic.masked
      /\ pic' = [pic EXCEPT !.requests = @ \ {n}, !.serving = @ \cup {n}]
      /\ UNCHANGED <<step, idtr, int_flag>>
  BY DEF StartupTypeOK, PicType, Interrupt, Raised, mainVars
<1>2. /\ pic' \in PicType /\ pic'.base = pic.base /\ pic'.masked = pic.masked
      /\ pic'.serving = pic.serving \cup {n}
  BY <1>1 DEF PicType
<1>3. pic.serving = {} /\ pic.base + n \in Gates[idtr]
  BY <1>1 DEF InterruptsServed
<1>4. n \in {TIMER, KEYBOARD}
  BY <1>1 DEF Staged
<1>5. handler' = (IF n = TIMER THEN "timer" ELSE "read") /\ UNCHANGED cpu
  BY <1>3 DEF Interrupt
<1> QED
  BY <1>1, <1>2, <1>3, <1>4, <1>5 DEF Staged, InterruptsServed

LEMMA HandlerDevices ==
  ASSUME StartupTypeOK, Staged, InterruptsServed, Handler
  PROVE  pic' \in PicType /\ Staged' /\ InterruptsServed'
<1>0. pic \in PicType /\ KEYBOARD \in Irqs
  BY DEF StartupTypeOK, PicType, Irqs, KEYBOARD
<1>1. UNCHANGED <<step, idtr, int_flag, cpu>>
  BY DEF Handler, TimerHandler, ReadKey, KeysRead, KeyboardAck, mainVars
<1>2. CASE TimerHandler \/ KeyboardAck
  <2>1. pic' = [pic EXCEPT !.serving = {}] /\ handler' = "none"
    BY <1>2 DEF TimerHandler, KeyboardAck, EndOfInterrupt
  <2>2. /\ pic' \in PicType /\ pic'.base = pic.base /\ pic'.masked = pic.masked
        /\ pic'.serving = {}
    BY <1>0, <2>1 DEF PicType
  <2> QED
    BY <1>1, <2>1, <2>2 DEF Staged, InterruptsServed
<1>3. CASE ReadKey
  <2>1. handler' = handler /\ (pic' = pic \/ pic' = Requested(pic, KEYBOARD))
    BY <1>3 DEF ReadKey, TakeByte
  <2>2. /\ pic' \in PicType /\ pic'.base = pic.base /\ pic'.masked = pic.masked
        /\ pic'.serving = pic.serving
    BY <1>0, <2>1, RequestedFact
  <2> QED
    BY <1>1, <2>1, <2>2 DEF Staged, InterruptsServed
<1>4. CASE KeysRead
  <2>1. pic' = pic /\ handler = "read" /\ handler' = "ack"
    BY <1>4 DEF KeysRead, deviceVars
  <2> QED
    BY <1>0, <1>1, <2>1 DEF Staged, InterruptsServed
<1> QED
  BY <1>2, <1>3, <1>4 DEF Handler

LEMMA ExceptionDevices ==
  ASSUME StartupTypeOK, Staged, NEW v \in 0..31, Exception(v)
  PROVE  pic' \in PicType /\ Staged' /\ InterruptsServed' /\ cpu' \in {"panic", "reset"}
<1>1. /\ UNCHANGED <<step, idtr, int_flag, pic>> /\ cpu' \in {"panic", "reset"}
  BY DEF Exception, mainVars, deviceVars
<1> QED
  BY <1>1 DEF Staged, InterruptsServed, StartupTypeOK, PicType
-----------------------------------------------------------------------------
(* The keys and the line. *)

LineInv == Counted /\ Early /\ LineIsTyped

LineType ==
  /\ shell_active \in {0, 1}
  /\ cmd_buffer \in [0..(MAX_CMD_LEN - 1) -> Letters \cup {NUL}]
  /\ cmd_pos \in 0..MaxKeys /\ cursor_pos \in 0..MaxKeys
  /\ typed \in Seq(Letters) /\ Len(typed) <= keys
  /\ caught \in BOOLEAN
  /\ queue \in Seq(Codes) /\ Len(queue) <= QueueSize
  /\ keys \in 0..MaxKeys

LEMMA PressLine ==
  ASSUME LineType, LineInv, NEW code \in Codes, Press(code)
  PROVE  LineType' /\ LineInv'
<1>1. /\ keys < MaxKeys /\ keys' = keys + 1 /\ Len(queue) < QueueSize /\ queue' = Append(queue, code)
      /\ UNCHANGED <<shell_active, cmd_buffer, cmd_pos, cursor_pos, typed, caught, unset>>
  BY DEF Press, lineVars, mainVars
<1>2. queue' \in Seq(Codes) /\ Len(queue') = Len(queue) + 1 /\ Len(queue) \in Nat /\ Len(typed) \in Nat
  BY <1>1 DEF LineType
<1>3. keys' \in 0..MaxKeys
  BY <1>1, StartupAssumption DEF LineType
<1>4. Len(queue') <= QueueSize /\ Len(typed) + Len(queue') <= keys' /\ Len(typed) <= keys'
  BY <1>1, <1>2, StartupAssumption DEF LineInv, Counted, LineType
<1>5. LineType'
  BY <1>1, <1>2, <1>3, <1>4 DEF LineType
<1>6. Counted'
  BY <1>1, <1>4 DEF LineInv, Counted
<1> QED
  BY <1>1, <1>5, <1>6 DEF LineInv, Early, LineIsTyped

\* A step that neither reads nor gives away a key, nor changes the line.
LEMMA OtherLine ==
  ASSUME LineType, LineInv, UNCHANGED <<shell_active, cmd_buffer, cmd_pos, cursor_pos, typed, caught, unset, keys>>,
         queue' \in Seq(Codes), Len(queue') <= Len(queue)
  PROVE  LineType' /\ LineInv'
<1>1. Len(queue) \in Nat /\ Len(queue') \in Nat /\ Len(typed) \in Nat /\ keys \in Nat
  BY DEF LineType
<1>2. Len(queue') <= QueueSize /\ Len(typed) + Len(queue') <= keys
  BY <1>1, StartupAssumption DEF LineType, LineInv, Counted
<1>3. LineType'
  BY <1>2 DEF LineType
<1>4. Counted'
  BY <1>2 DEF LineInv, Counted
<1> QED
  BY <1>3, <1>4 DEF LineInv, Early, LineIsTyped

LEMMA ShellInitLine ==
  ASSUME LineType, LineInv, NEW v \in unset, ShellInit(v)
  PROVE  LineType' /\ LineInv'
<1>1. /\ UNCHANGED <<queue, keys, typed, caught>> /\ unset' \subseteq unset /\ unset # {}
      /\ shell_active' \in {0, 1}
      /\ cmd_pos' \in {0, cmd_pos} /\ cursor_pos' \in {0, cursor_pos}
      /\ cmd_buffer' = cmd_buffer \/ cmd_buffer' = [cmd_buffer EXCEPT ![0] = NUL]
  BY DEF ShellInit, deviceVars, LineType
<1>2. MAX_CMD_LEN \in Nat /\ MAX_CMD_LEN > 1 /\ MaxKeys \in Nat
  BY StartupAssumption
<1>3. /\ cmd_buffer' \in [0..(MAX_CMD_LEN - 1) -> Letters \cup {NUL}]
      /\ cmd_buffer[0] = NUL => cmd_buffer'[0] = NUL
  BY <1>1, <1>2 DEF LineType
<1>4. cmd_pos' \in 0..MaxKeys /\ cursor_pos' \in 0..MaxKeys /\ Len(typed) \in Nat
  BY <1>1, <1>2 DEF LineType
<1>5. LineType'
  BY <1>1, <1>3, <1>4 DEF LineType
<1>6. Counted'
  BY <1>1, <1>4 DEF LineInv, Counted
<1>7. Early'
  BY <1>1 DEF LineInv, Early
<1>8. ASSUME ~caught
      PROVE  /\ cmd_pos' = Len(typed') /\ cursor_pos' = Len(typed')
             /\ \A i \in 1..Len(typed') : cmd_buffer'[i - 1] = typed'[i]
             /\ cmd_buffer'[cmd_pos'] = NUL
  <2>1. typed = <<>> /\ cmd_pos = 0 /\ cursor_pos = 0 /\ cmd_buffer[0] = NUL
    BY <1>1, <1>8 DEF LineInv, Early, LineIsTyped
  <2> QED
    BY <1>1, <1>3, <2>1
<1> QED
  BY <1>1, <1>5, <1>6, <1>7, <1>8 DEF LineInv, LineIsTyped

LEMMA ReadKeyLine ==
  ASSUME LineType, LineInv, ReadKey
  PROVE  LineType' /\ LineInv'
<1>1. /\ queue # <<>> /\ queue' = Tail(queue) /\ UNCHANGED <<keys, unset>>
  BY DEF ReadKey, TakeByte, mainVars
<1>2. /\ queue' \in Seq(Codes) /\ Len(queue') = Len(queue) - 1 /\ Len(queue) \in Nat /\ Len(queue) > 0
      /\ Len(typed) \in Nat /\ keys \in 0..MaxKeys /\ keys \in Nat /\ MaxKeys \in Nat
  BY <1>1, StartupAssumption DEF LineType
<1>3. CASE UNCHANGED lineVars
  BY <1>1, <1>2, <1>3, OtherLine DEF lineVars
<1>4. ASSUME NEW c \in Letters, GiveToShell(c)
      PROVE  LineType' /\ LineInv'
  <2>1. /\ cmd_pos < MAX_CMD_LEN - 1 /\ cmd_buffer' = Inserted(cmd_buffer, c)
        /\ cmd_pos' = cmd_pos + 1 /\ cursor_pos' = cursor_pos + 1
        /\ typed' = Append(typed, c) /\ shell_active' = shell_active
        /\ caught' = (caught \/ unset # {})
    BY <1>4 DEF GiveToShell
  <2>2. /\ typed' \in Seq(Letters) /\ Len(typed') = Len(typed) + 1
        /\ \A i \in 1..Len(typed) : typed'[i] = typed[i]
        /\ typed'[Len(typed) + 1] = c
    BY <2>1 DEF LineType
  <2>3. /\ Len(typed') + Len(queue') <= keys /\ Len(typed') <= keys /\ Len(queue') <= QueueSize
        /\ cmd_pos' <= Len(typed') /\ cursor_pos' <= Len(typed')
        /\ cmd_pos' \in 0..MaxKeys /\ cursor_pos' \in 0..MaxKeys
    BY <1>2, <2>1, <2>2, StartupAssumption DEF LineInv, Counted, LineType
  <2>4. cmd_buffer' = [Shifted(cmd_buffer, c) EXCEPT ![cmd_pos + 1] = NUL]
    BY <2>1 DEF Inserted
  <2>5. /\ DOMAIN cmd_buffer = 0..(MAX_CMD_LEN - 1) /\ MAX_CMD_LEN \in Nat
        /\ cmd_pos \in Nat /\ cursor_pos \in Nat
        /\ \A i \in 0..(MAX_CMD_LEN - 1) : cmd_buffer[i] \in Letters \cup {NUL}
    BY StartupAssumption DEF LineType
  <2>6. Shifted(cmd_buffer, c) \in [0..(MAX_CMD_LEN - 1) -> Letters \cup {NUL}]
    <3>1. \A i \in 0..(MAX_CMD_LEN - 1) :
            i > cursor_pos /\ i <= cmd_pos => i - 1 \in 0..(MAX_CMD_LEN - 1)
      BY <2>5
    <3> QED
      BY <2>5, <3>1 DEF Shifted
  <2>7. cmd_buffer' \in [0..(MAX_CMD_LEN - 1) -> Letters \cup {NUL}]
    BY <2>4, <2>6
  <2>8. caught' \in BOOLEAN /\ (~caught' => ~caught /\ unset = {})
    BY <2>1, Zenon DEF LineType
  <2>9. LineType'
    BY <1>1, <1>2, <2>1, <2>2, <2>3, <2>7, <2>8 DEF LineType
  <2>10. Counted'
    BY <1>1, <2>3 DEF Counted
  <2>11. Early'
    BY <1>1, <2>8 DEF Early
  <2>12. ASSUME ~caught'
         PROVE  /\ cmd_pos' = Len(typed') /\ cursor_pos' = Len(typed')
                /\ \A i \in 1..Len(typed') : cmd_buffer'[i - 1] = typed'[i]
                /\ cmd_buffer'[cmd_pos'] = NUL
    <3>1. /\ cmd_pos = Len(typed) /\ cursor_pos = Len(typed)
          /\ \A i \in 1..Len(typed) : cmd_buffer[i - 1] = typed[i]
      BY <2>8, <2>12 DEF LineInv, LineIsTyped
    <3>2. \A j \in 0..(MAX_CMD_LEN - 1) :
            Shifted(cmd_buffer, c)[j] = IF j = Len(typed) THEN c ELSE cmd_buffer[j]
      BY <2>5, <3>1 DEF Shifted
    <3>3. \A j \in 0..Len(typed) :
            cmd_buffer'[j] = IF j = Len(typed) THEN c ELSE cmd_buffer[j]
      BY <2>1, <2>4, <2>5, <2>6, <3>1, <3>2
    <3>4. cmd_buffer'[cmd_pos'] = NUL
      BY <2>1, <2>4, <2>5, <2>6
    <3>5. ASSUME NEW i \in 1..Len(typed')
          PROVE  cmd_buffer'[i - 1] = typed'[i]
      <4>1. CASE i = Len(typed) + 1
        <5>1. i - 1 = Len(typed) /\ i - 1 \in 0..Len(typed)
          BY <1>2, <4>1
        <5> QED
          BY <2>2, <3>3, <4>1, <5>1
      <4>2. CASE i # Len(typed) + 1
        <5>1. i \in 1..Len(typed) /\ i - 1 \in 0..Len(typed) /\ i - 1 # Len(typed)
          BY <1>2, <2>2, <4>2
        <5> QED
          BY <2>2, <3>1, <3>3, <5>1
      <4> QED
        BY <4>1, <4>2
    <3> QED
      BY <2>1, <2>2, <3>1, <3>4, <3>5
  <2> QED
    BY <2>9, <2>10, <2>11, <2>12 DEF LineInv, LineIsTyped
<1> QED
  BY <1>3, <1>4 DEF ReadKey

LEMMA InterruptLeavesQueue ==
  ASSUME NEW n \in Irqs, Interrupt(n)
  PROVE  UNCHANGED <<queue, keys, unset, lineVars>>
BY DEF Interrupt, mainVars

LEMMA ExceptionLeavesQueue ==
  ASSUME NEW v \in 0..31, Exception(v)
  PROVE  UNCHANGED <<queue, keys, unset, lineVars>>
BY DEF Exception, mainVars, deviceVars

LEMMA StepLine ==
  ASSUME LineType, LineInv, Next
  PROVE  LineType' /\ LineInv'
<1>0. queue \in Seq(Codes) /\ Len(queue) \in Nat /\ <<>> \in Seq(Codes) /\ Len(<<>>) = 0
  BY DEF LineType
<1>1. ASSUME NEW code \in Codes, Press(code)
      PROVE  LineType' /\ LineInv'
  BY <1>1, PressLine
<1>2. CASE Tick
  BY <1>0, <1>2, OtherLine DEF Tick, mainVars, lineVars
<1>3. CASE Main
  <2>1. CASE IdtInit \/ InterruptInit \/ Sti
    BY <1>0, <2>1, OtherLine DEF IdtInit, InterruptInit, Sti, deviceVars, lineVars
  <2>2. CASE PicInit
    BY <1>0, <2>2, OtherLine DEF PicInit, lineVars
  <2>3. CASE KeyboardInit
    BY <1>0, <2>3, OtherLine DEF KeyboardInit, lineVars
  <2>4. ASSUME NEW v \in unset, ShellInit(v)
        PROVE  LineType' /\ LineInv'
    BY <2>4, ShellInitLine
  <2> QED
    BY <1>3, <2>1, <2>2, <2>3, <2>4 DEF Main
<1>4. ASSUME NEW n \in Irqs, Interrupt(n)
      PROVE  LineType' /\ LineInv'
  <2>1. UNCHANGED <<queue, keys, unset, lineVars>>
    BY <1>4, InterruptLeavesQueue
  <2> QED
    BY <1>0, <2>1, OtherLine DEF lineVars
<1>5. CASE Handler
  <2>1. CASE TimerHandler
    BY <1>0, <2>1, OtherLine DEF TimerHandler, mainVars, lineVars
  <2>2. CASE ReadKey
    BY <2>2, ReadKeyLine
  <2>3. CASE KeysRead
    BY <1>0, <2>3, OtherLine DEF KeysRead, mainVars, deviceVars, lineVars
  <2>4. CASE KeyboardAck
    BY <1>0, <2>4, OtherLine DEF KeyboardAck, mainVars, lineVars
  <2> QED
    BY <1>5, <2>1, <2>2, <2>3, <2>4 DEF Handler
<1>6. ASSUME NEW v \in 0..31, Exception(v)
      PROVE  LineType' /\ LineInv'
  <2>1. UNCHANGED <<queue, keys, unset, lineVars>>
    BY <1>6, ExceptionLeavesQueue
  <2> QED
    BY <1>0, <2>1, OtherLine DEF lineVars
<1> QED
  BY <1>1, <1>2, <1>3, <1>4, <1>5, <1>6 DEF Next

LEMMA StepDevices ==
  ASSUME StartupTypeOK, Staged, InterruptsServed, Next
  PROVE  pic' \in PicType /\ Staged' /\ InterruptsServed'
BY PressDevices, TickDevices, MainDevices, InterruptDevices, HandlerDevices, ExceptionDevices DEF Next

-----------------------------------------------------------------------------
(* The start-up's own state. *)

MainType ==
  /\ step \in Steps
  /\ unset \subseteq {"shell_active", "cmd_pos", "cursor_pos", "cmd_buffer"}
  /\ idtr \in DOMAIN Gates
  /\ int_flag \in BOOLEAN
  /\ handler \in {"none", "timer", "read", "ack"}
  /\ cpu \in {"runs", "panic", "reset"}

LEMMA MainTypeStep ==
  ASSUME MainType, Main
  PROVE  MainType'
<1>1. CASE IdtInit
  BY <1>1 DEF IdtInit, MainType, Steps, Gates
<1>2. CASE InterruptInit
  BY <1>2 DEF InterruptInit, MainType, Steps, Gates
<1>3. CASE PicInit
  BY <1>3 DEF PicInit, MainType, Steps
<1>4. CASE KeyboardInit
  BY <1>4 DEF KeyboardInit, MainType, Steps
<1>5. CASE Sti
  BY <1>5 DEF Sti, MainType, Steps
<1>6. ASSUME NEW v \in unset, ShellInit(v)
      PROVE  MainType'
  BY <1>6 DEF ShellInit, MainType, Steps
<1> QED
  BY <1>1, <1>2, <1>3, <1>4, <1>5, <1>6 DEF Main

LEMMA StepMain ==
  ASSUME MainType, Next
  PROVE  MainType'
<1>1. ASSUME NEW code \in Codes, Press(code)
      PROVE  MainType'
  BY <1>1 DEF Press, mainVars, MainType
<1>2. CASE Tick
  BY <1>2 DEF Tick, mainVars, MainType
<1>3. CASE Main
  BY <1>3, MainTypeStep
<1>4. ASSUME NEW n \in Irqs, Interrupt(n)
      PROVE  MainType'
  BY <1>4 DEF Interrupt, mainVars, MainType
<1>5. CASE Handler
  BY <1>5 DEF Handler, TimerHandler, ReadKey, KeysRead, KeyboardAck, mainVars, MainType
<1>6. ASSUME NEW v \in 0..31, Exception(v)
      PROVE  MainType'
  BY <1>6 DEF Exception, mainVars, MainType
<1> QED
  BY <1>1, <1>2, <1>3, <1>4, <1>5, <1>6 DEF Next

LEMMA TypeParts ==
  /\ StartupTypeOK <=> MainType /\ LineType /\ pic \in PicType
  /\ StartupTypeOK' <=> MainType' /\ LineType' /\ pic' \in PicType
<1>1. StartupTypeOK <=> MainType /\ LineType /\ pic \in PicType
  BY DEF StartupTypeOK, MainType, LineType, PicType
<1>2. StartupTypeOK' <=> MainType' /\ LineType' /\ pic' \in PicType
  BY DEF StartupTypeOK, MainType, LineType, PicType
<1> QED
  BY <1>1, <1>2

LEMMA StartupStep == IInv /\ [Next]_vars => IInv'
<1> SUFFICES ASSUME IInv, [Next]_vars
             PROVE  IInv'
  OBVIOUS
<1>1. CASE Next
  <2>1. MainType /\ LineType /\ LineInv
    BY TypeParts DEF IInv, LineInv
  <2>2. MainType' /\ LineType' /\ LineInv'
    BY <1>1, <2>1, StepMain, StepLine
  <2>3. pic' \in PicType /\ Staged' /\ InterruptsServed'
    BY <1>1, StepDevices DEF IInv
  <2>4. StartupTypeOK'
    BY <2>2, <2>3, TypeParts
  <2> QED
    BY <2>2, <2>3, <2>4 DEF IInv, LineInv
<1>2. CASE UNCHANGED vars
  <2>1. UNCHANGED <<step, unset, idtr, int_flag, pic, queue, keys, handler, cpu>> /\ UNCHANGED lineVars
    BY <1>2 DEF vars, mainVars, deviceVars
  <2>2. MainType /\ LineType /\ pic \in PicType
    BY TypeParts DEF IInv
  <2>3. MainType' /\ LineType' /\ pic' \in PicType
    BY <2>1, <2>2 DEF MainType, LineType, lineVars
  <2>4. Staged' /\ InterruptsServed'
    BY <2>1 DEF IInv, Staged, InterruptsServed
  <2>5. Counted' /\ Early' /\ LineIsTyped'
    BY <2>1 DEF IInv, Counted, Early, LineIsTyped, lineVars
  <2> QED
    BY <2>3, <2>4, <2>5, TypeParts DEF IInv
<1> QED
  BY <1>1, <1>2

LEMMA StartupInvariant == Spec => []IInv
BY StartupInitInv, StartupStep, PTL DEF Spec

\* Whenever interrupts are on, each one the controller can raise has a gate, and what
\* is in service is what a handler is at work on: interrupts.c, interrupt.c and the
\* acknowledgements of keyboard.c and timer.c together, for any keys and any sizes.
THEOREM StartupServes == Spec => []InterruptsServed
<1>1. IInv => InterruptsServed
  BY DEF IInv
<1> QED
  BY <1>1, StartupInvariant, PTL

\* However many keys come in, at whatever point of the start-up and in whatever order
\* shell_init's assignments are stored, the shell's line is what was typed into it,
\* unless a key came while it was being set up.
THEOREM StartupKeepsLine == Spec => []LineIsTyped
<1>1. IInv => LineIsTyped
  BY DEF IInv
<1> QED
  BY <1>1, StartupInvariant, PTL

\* The start-up's state is in its types and bounds: no letter is put past the end of
\* cmd_buffer and no byte of the keyboard is read twice.
THEOREM StartupTyped == Spec => []StartupTypeOK
<1>1. IInv => StartupTypeOK
  BY DEF IInv
<1> QED
  BY <1>1, StartupInvariant, PTL
=============================================================================
