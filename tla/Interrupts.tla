----------------------------- MODULE Interrupts -----------------------------
(***************************************************************************)
(* From a key that is struck to a character that kmain reads: the dispatch *)
(* of interrupts (src/src/arch/x86/idt/idt.cpp), their acknowledgement     *)
(* (src/src/arch/x86/pic/pic.cpp), the keyboard driver (Keyboard), the     *)
(* read system call (src/src/arch/x86/syscall) and the thread that sets    *)
(* all this up (platform_init) and uses it (kmain).                        *)
(*                                                                         *)
(* The keyboard controller, the two interrupt controllers (PICs) and the   *)
(* processor are external; they are modelled by what the code relies on:   *)
(*  - the controller has room for one scancode, and raises IRQ1 when it    *)
(*    puts one there: it does so only after the previous one was read;     *)
(*  - a PIC remembers an edge of a line in irr, and which interrupts are   *)
(*    being served in isr; it withholds requests of no higher priority;    *)
(*    an EOI command ends the served interrupt of highest priority;        *)
(*  - the processor accepts an interrupt when its flag IF is set, clears   *)
(*    IF (all gates are interrupt gates) and restores it on iret.          *)
(***************************************************************************)
EXTENDS Keyboard

CONSTANTS
  WANTED,      \* characters that kmain waits for
  PressCodes,  \* scancodes that the keyboard sends
  DeviceIRQs,  \* lines that other devices raise
  Masked,      \* lines that the BIOS masked: pic_remap keeps its masks
  EarlyKeys,   \* may keys be struck between idt::init and init_keyboard?
  KeyQueue,    \* bound: scancodes that wait in the keyboard
  MaxKeys,     \* bound: scancodes that are sent at all
  MaxRaises    \* bound: interrupts of other devices, spurious ones included

ASSUME InterruptsAssumption ==
  /\ WANTED \in Nat
  /\ PressCodes \subseteq Scancodes
  /\ DeviceIRQs \subseteq (0 .. 15) \ {1, 2}
  /\ Masked \subseteq (0 .. 15) \ {1, 2}
  /\ EarlyKeys \in BOOLEAN
  /\ KeyQueue \in Nat /\ MaxKeys \in Nat /\ MaxRaises \in Nat

VARIABLES
  obf,       \* the scancode in the controller's output buffer, or Empty
  keyq,      \* scancodes that the keyboard has not yet passed on
  irr,       \* lines whose edge the PICs remember
  isr1,      \* lines in service at the master
  isr2,      \* lines in service at the slave
  iflag,     \* the processor's interrupt flag IF
  stack,     \* the handlers that are running, innermost last
  handlers,  \* the entries 33 and 128 of the table handlers[]
  main,      \* where the kernel's thread is
  buf_ra,    \* what kmain has read
  typed,     \* the characters that went into the ring, oldest first
  overrun,   \* has the ring ever held more than fits?
  struck,    \* keys with a character struck since the driver is registered
  keys,      \* scancodes sent so far
  raises     \* other interrupts so far

deviceVars == <<obf, keyq, struck, keys, raises>>
picVars == <<irr, isr1, isr2>>
kernelVars == <<handlers, main, buf_ra, typed, overrun>>
vars == <<kbVars, deviceVars, picVars, iflag, stack, kernelVars>>

Empty == -1
NoHandler == "none"
Top == stack[Len(stack)]

(* The line of the master that an interrupt comes in on. *)
MasterLine(irq) == IF irq >= 8 THEN 2 ELSE irq

-----------------------------------------------------------------------------
(* platform_init is about to call idt::init. *)
Init ==
  /\ KbInit
  /\ obf = Empty
  /\ keyq = <<>>
  /\ irr = {}
  /\ isr1 = {}
  /\ isr2 = {}
  /\ iflag = FALSE
  /\ stack = <<>>
  /\ handlers = [n \in {33, 128} |-> NoHandler]
  /\ main = "idt"
  /\ buf_ra = <<>>
  /\ typed = <<>>
  /\ overrun = FALSE
  /\ struck = 0
  /\ keys = 0
  /\ raises = 0

-----------------------------------------------------------------------------
(* The devices and the PICs. *)

(***************************************************************************)
(* A key is struck, and the keyboard has room for its scancode.  Keys      *)
(* before idt::init are left out.  From stage2's cli (stage2.asm:81) on    *)
(* such a key fills the 8042 too, and pic_remap drops its request: the     *)
(* end is that of the keys which the run early_key strikes after it.       *)
(***************************************************************************)
StrikeKey(scancode) ==
  /\ keys < MaxKeys
  /\ Len(keyq) < KeyQueue
  /\ handlers[33] = "keyboard" \/ (EarlyKeys /\ handlers[33] = "default_irq")
  /\ keyq' = Append(keyq, scancode)
  /\ keys' = keys + 1
  /\ struck' = IF handlers[33] = "keyboard" /\ scancode < KB_RELEASED
                    /\ scancode_to_ascii[scancode] # 0
               THEN struck + 1 ELSE struck
  /\ UNCHANGED <<kbVars, obf, raises, picVars, iflag, stack, kernelVars>>

(* The controller takes a scancode from the keyboard and raises IRQ1. *)
LoadOutput ==
  /\ obf = Empty
  /\ keyq # <<>>
  /\ obf' = Head(keyq)
  /\ keyq' = Tail(keyq)
  /\ irr' = irr \cup {1}
  /\ UNCHANGED <<kbVars, struck, keys, raises, isr1, isr2, iflag, stack, kernelVars>>

(* Another device raises its line. *)
Raise(irq) ==
  /\ raises < MaxRaises
  /\ raises' = raises + 1
  /\ irr' = irr \cup {irq}
  /\ UNCHANGED <<kbVars, obf, keyq, struck, keys, isr1, isr2, iflag, stack, kernelVars>>

(* A PIC passes on a line only if nothing of its priority is in service. *)
NotWithheld(irq) ==
  /\ \A s \in isr1 : MasterLine(irq) < s
  /\ irq >= 8 => \A s \in isr2 : irq < s

FirstPending(irq) ==
  \A r \in irr \ Masked :
    \/ MasterLine(irq) < MasterLine(r)
    \/ MasterLine(irq) = MasterLine(r) /\ irq <= r

(* The processor enters a handler through an interrupt gate. *)
Enter(irq) ==
  /\ stack' = Append(stack, [irq |-> irq, pc |-> "dispatch", eflags |-> iflag])
  /\ iflag' = FALSE

(* The processor accepts the pending interrupt of highest priority. *)
Deliver(irq) ==
  /\ iflag
  /\ irq \in irr \ Masked
  /\ FirstPending(irq)
  /\ NotWithheld(irq)
  /\ irr' = irr \ {irq}
  /\ isr1' = isr1 \cup {MasterLine(irq)}
  /\ isr2' = IF irq >= 8 THEN isr2 \cup {irq} ELSE isr2
  /\ Enter(irq)
  /\ UNCHANGED <<kbVars, deviceVars, kernelVars>>

(***************************************************************************)
(* A spurious interrupt: a line fell again before the processor asked for  *)
(* the vector.  The PIC answers with its line 7 without putting it in      *)
(* service; if it is the slave, line 2 of the master is in service.        *)
(***************************************************************************)
Spurious(irq) ==
  /\ iflag
  /\ raises < MaxRaises
  /\ raises' = raises + 1
  /\ NotWithheld(irq)
  /\ isr1' = IF irq >= 8 THEN isr1 \cup {2} ELSE isr1
  /\ Enter(irq)
  /\ UNCHANGED <<kbVars, obf, keyq, struck, keys, irr, isr2, kernelVars>>

-----------------------------------------------------------------------------
(* Handlers: isr_common and isr_handler. *)

Goto(pc) == stack' = [stack EXCEPT ![Len(stack)].pc = pc]

(* Mutant: EOI for the slave's interrupts only. *)
AfterDispatchNoEoi == IF Top.irq >= 8 THEN "eoi2" ELSE "iret"

(* After the handler, isr_handler sends EOI for IRQs. *)
AfterDispatch == IF Top.irq >= 8 THEN "eoi2" ELSE "eoi1"

Running(pc) == stack # <<>> /\ Top.pc = pc

(* default_irq_handler: it does not touch the device. *)
DefaultIrqHandler ==
  /\ Running("dispatch")
  /\ ~(Top.irq = 1 /\ handlers[33] = "keyboard")
  /\ Goto(AfterDispatch)
  /\ UNCHANGED <<kbVars, deviceVars, picVars, iflag, kernelVars>>

(* Mutant: the handler does not read the data port. *)
KeyboardIrqHandlerNoRead ==
  /\ Running("dispatch")
  /\ Top.irq = 1 /\ handlers[33] = "keyboard"
  /\ obf # Empty
  /\ handle_interrupt(obf)
  /\ typed' = IF write_pos' = write_pos THEN typed ELSE Append(typed, Translate(obf))
  /\ overrun' = (overrun \/ Len(pending') > KB_BUFFER_SIZE)
  /\ Goto(AfterDispatch)
  /\ UNCHANGED <<deviceVars, picVars, iflag, handlers, main, buf_ra>>

(* keyboard_irq_handler reads the data port, which empties it. *)
KeyboardIrqHandler ==
  /\ Running("dispatch")
  /\ Top.irq = 1 /\ handlers[33] = "keyboard"
  /\ obf # Empty
  /\ obf' = Empty
  /\ handle_interrupt(obf)
  /\ typed' = IF write_pos' = write_pos THEN typed ELSE Append(typed, Translate(obf))
  /\ overrun' = (overrun \/ Len(pending') > KB_BUFFER_SIZE)
  /\ Goto(AfterDispatch)
  /\ UNCHANGED <<keyq, struck, keys, raises, picVars, iflag, handlers, main, buf_ra>>

(* What an EOI command does to the lines in service: the first one ends. *)
Acknowledge(isr) == isr \ {s \in isr : \A t \in isr : s <= t}

(* pic_send_eoi: the slave first, if the interrupt came from it. *)
EoiSlave ==
  /\ Running("eoi2")
  /\ isr2' = Acknowledge(isr2)
  /\ Goto("eoi1")
  /\ UNCHANGED <<kbVars, deviceVars, irr, isr1, iflag, kernelVars>>

(* Mutant: the slave's interrupts are not acknowledged at the master. *)
EoiMasterOwnOnly ==
  /\ Running("eoi1")
  /\ isr1' = IF Top.irq >= 8 THEN isr1 ELSE Acknowledge(isr1)
  /\ Goto("iret")
  /\ UNCHANGED <<kbVars, deviceVars, irr, isr2, iflag, kernelVars>>

(* pic_send_eoi: always the master. *)
EoiMaster ==
  /\ Running("eoi1")
  /\ isr1' = Acknowledge(isr1)
  /\ Goto("iret")
  /\ UNCHANGED <<kbVars, deviceVars, irr, isr2, iflag, kernelVars>>

(* isr_common returns to what was interrupted. *)
Iret ==
  /\ Running("iret")
  /\ iflag' = Top.eflags
  /\ stack' = SubSeq(stack, 1, Len(stack) - 1)
  /\ UNCHANGED <<kbVars, deviceVars, picVars, kernelVars>>

Handler ==
  DefaultIrqHandler \/ KeyboardIrqHandler \/ EoiSlave \/ EoiMaster \/ Iret

-----------------------------------------------------------------------------
(* The kernel's thread: platform_init, then kmain. *)

At(place, next) == stack = <<>> /\ main = place /\ main' = next

(* pic_remap: the commands that start over reset both PICs; masks stay. *)
pic_remap ==
  /\ irr' = {}
  /\ isr1' = {}
  /\ isr2' = {}

(* idt::init: default handlers, and the PICs. *)
IdtInit ==
  /\ At("idt", "sti")
  /\ handlers' = [handlers EXCEPT ![33] = "default_irq", ![128] = "default"]
  /\ pic_remap
  /\ UNCHANGED <<kbVars, deviceVars, iflag, stack, buf_ra, typed, overrun>>

(* interrupts::enable *)
EnableInterrupts ==
  /\ At("sti", "syscalls")
  /\ iflag' = TRUE
  /\ UNCHANGED <<kbVars, deviceVars, picVars, stack, handlers, buf_ra, typed, overrun>>

(* syscalls::init *)
SyscallsInit ==
  /\ At("syscalls", "kb_init")
  /\ handlers' = [handlers EXCEPT ![128] = "syscall_handler"]
  /\ UNCHANGED <<kbVars, deviceVars, picVars, iflag, stack, buf_ra, typed, overrun>>

(* keyboard::init_keyboard: Keyboard::init ... *)
KeyboardInit ==
  /\ At("kb_init", "kb_register")
  /\ read_pos' = 0
  /\ write_pos' = 0
  /\ shift_held' = FALSE
  /\ ctrl_held' = FALSE
  /\ pending' = <<>>
  /\ UNCHANGED <<buffer, deviceVars, picVars, iflag, stack, handlers, buf_ra, typed,
                 overrun>>

(* ... and then the handler of IRQ1. *)
RegisterKeyboard ==
  /\ At("kb_register", "read")
  /\ handlers' = [handlers EXCEPT ![33] = "keyboard"]
  /\ UNCHANGED <<kbVars, deviceVars, picVars, iflag, stack, buf_ra, typed, overrun>>

(* sys_read: the characters it returns, what there is but no more than count. *)
sys_read(count) == IF Available < count THEN Available ELSE count

(* int 0x80 ends up in syscall_handler, which calls the entry of EAX. *)
SyscallsServed == handlers[128] = "syscall_handler"

(***************************************************************************)
(* An iteration of kmain's loop: the system call SYS_READ, served with     *)
(* interrupts off, reads what is in the ring but no more than is missing.  *)
(* One action: that no handler runs between its instructions is not        *)
(* checked here but in InterruptEntry, by HandlerSeesInterrupt.            *)
(***************************************************************************)
ReadSyscall ==
  LET missing == WANTED - Len(buf_ra)
      n == sys_read(missing)
  IN
  /\ stack = <<>>
  /\ main = "read"
  /\ missing > 0
  /\ SyscallsServed
  /\ buf_ra' = buf_ra \o Chars(n)
  /\ read_chars(n)
  /\ UNCHANGED <<deviceVars, picVars, iflag, stack, handlers, main, typed, overrun>>

(* total < wanted no longer holds. *)
KmainDone ==
  /\ At("read", "done")
  /\ Len(buf_ra) >= WANTED
  /\ UNCHANGED <<kbVars, deviceVars, picVars, iflag, stack, handlers, buf_ra, typed, overrun>>

Thread ==
  \/ IdtInit
  \/ EnableInterrupts
  \/ SyscallsInit
  \/ KeyboardInit
  \/ RegisterKeyboard
  \/ ReadSyscall
  \/ KmainDone

Interrupt == \E irq \in 0 .. 15 : Deliver(irq)

Next ==
  \/ \E scancode \in PressCodes : StrikeKey(scancode)
  \/ LoadOutput
  \/ \E irq \in DeviceIRQs : Raise(irq)
  \/ \E irq \in {7, 15} : Spurious(irq)
  \/ Interrupt
  \/ Handler
  \/ Thread

Spec == Init /\ [][Next]_vars

(***************************************************************************)
(* The processor executes, accepts interrupts while IF is set, and the     *)
(* controller passes on what the keyboard sends.  Nobody has to type.      *)
(***************************************************************************)
FairSpec ==
  /\ Spec
  /\ WF_vars(Thread)
  /\ WF_vars(Handler)
  /\ WF_vars(Interrupt)
  /\ WF_vars(LoadOutput)

-----------------------------------------------------------------------------
(* A line that only a spurious interrupt comes in on here. *)
IsSpurious(irq) == irq \in {7, 15} \ DeviceIRQs

(***************************************************************************)
(* No interrupt is left in service: what the PICs have in service is the   *)
(* interrupt whose handler has not yet acknowledged it, and nothing else,  *)
(* so that no line is blocked for good and no EOI ends another handler's   *)
(* interrupt.  A spurious interrupt is acknowledged as well, which must    *)
(* not end anything.                                                       *)
(***************************************************************************)
InServiceIsRunning ==
  LET unacknowledged == {k \in 1 .. Len(stack) : stack[k].pc # "iret"}
  IN
  /\ isr1 = {MasterLine(stack[k].irq) :
               k \in {j \in unacknowledged : stack[j].irq # 7 \/ ~IsSpurious(7)}}
  /\ isr2 = {stack[k].irq :
               k \in {j \in unacknowledged : /\ stack[j].irq >= 8
                                             /\ stack[j].pc = "dispatch" \/ stack[j].pc = "eoi2"
                                             /\ ~IsSpurious(stack[j].irq)}}

(***************************************************************************)
(* The keyboard is never deaf once its handler is registered: a scancode   *)
(* in the controller has an interrupt that will read it.  Without that     *)
(* interrupt the controller would raise no other one, ever.                *)
(***************************************************************************)
WaitingKeyHasInterrupt ==
  (handlers[33] = "keyboard" /\ obf # Empty) =>
    \/ 1 \in irr
    \/ \E k \in 1 .. Len(stack) : stack[k].irq = 1 /\ stack[k].pc = "dispatch"

(***************************************************************************)
(* No character is lost, repeated or reordered between the keyboard and    *)
(* kmain as long as the ring was not overrun: what kmain has read,         *)
(* followed by what waits in the ring, is what was typed.  The reads never *)
(* run past the end of kmain's buffer, which has room for WANTED.          *)
(***************************************************************************)
ReadInOrder ==
  /\ Len(buf_ra) <= WANTED
  /\ ~overrun => /\ buf_ra \o pending = typed
                 /\ Chars(Len(pending)) = pending

(***************************************************************************)
(* Once enough characters were struck after the driver said it is ready    *)
(* ("[keyboard]: Keyboard driver is ready", main.cpp:13), kmain's loop     *)
(* ends.                                                                   *)
(***************************************************************************)
KeysReachKmain == struck >= WANTED ~> main = "done"
=============================================================================
