--------------------------- MODULE InterruptEntry ---------------------------
(***************************************************************************)
(* The way into a handler and back, at the level of the processor: gates   *)
(* and segment descriptors (idt.cpp, gdt.cpp), the stubs and isr_common    *)
(* (idt.asm), isr_handler and the frame it is given (idt.cpp, idt.hpp),    *)
(* and system calls from the caller of send_syscall (syscall.asm) to       *)
(* syscall_handler and back (syscall.cpp).                                 *)
(*                                                                         *)
(* Registers and the stack hold words, esp counts words, and eip is the    *)
(* address of the next instruction.  Devices interrupt between any two     *)
(* instructions while IF is set; exceptions do so anywhere, also in a      *)
(* handler.  What a handler does to its device is modelled in Interrupts,  *)
(* what is printed in Console.  Everything of the processor is external.   *)
(*                                                                         *)
(* Widths are counted in nibbles of N values: the source has 4 bits.       *)
(***************************************************************************)
EXTENDS Integers, Sequences

CONSTANTS
  N,            \* values of a nibble
  StackSize,    \* words of the kernel's stack
  Lines,        \* lines of the PICs that interrupt
  Exceptions,   \* exceptions that may happen first
  Nested,       \* bound: exceptions that may happen after another interrupt
  Arguments,    \* pointers that are passed to system calls
  Count,        \* argument |-> the count in what it points to
  Numbers,      \* numbers of system calls that are tried
  MaxCalls,     \* bound: system calls
  MaxInterrupts \* bound: interrupts and exceptions

ASSUME InterruptEntryAssumption ==
  /\ N \in Nat /\ N >= 4                        \* the code below has addresses
  /\ StackSize \in Nat /\ StackSize >= 4 + 15 * (MaxInterrupts + 1)  \* it does not overflow
  /\ Lines \subseteq 0 .. 15
  /\ Exceptions \subseteq 0 .. 31 /\ Nested \subseteq Exceptions
  /\ Arguments \subseteq Nat /\ Numbers \subseteq Nat
  /\ Count \in [Arguments -> Nat]
  /\ MaxCalls \in Nat /\ MaxInterrupts \in Nat

Byte == N * N           \* number of values of a uint8_t,
Half == Byte * Byte     \* of a uint16_t
Word == Half * Half     \* and of a uint32_t
MinusOne == Word - 1

Vectors == (0 .. 47) \cup {128}  \* those that idt::init installs a gate for

Registers == {"eax", "ecx", "edx", "ebx", "ebp", "esi", "edi"}

VARIABLES
  eip, regs, esp, iflag, cs,  \* the processor
  ram,           \* the stack: word address |-> word
  gdtr,          \* the segment descriptors in use, once gdt::init has loaded them
  idtr,          \* the gates in use, none before _load_idt
  handlers,      \* vector |-> handler; no other vector gets as far
  syscall_table, \* number |-> implementation
  halted,        \* is default_exception_handler in its last loop?
  taken,         \* what was interrupted, innermost last
  asked,         \* the system call that is under way
  calls, happened

cpu == <<eip, regs, esp, iflag, cs, ram>>
tables == <<gdtr, idtr, handlers, syscall_table>>
others == <<tables, halted, taken, asked, calls, happened>>
vars == <<cpu, others>>

-----------------------------------------------------------------------------
(* Where the code is. *)
platform_init == 0                      \* gdt::init, idt::init, enable, syscalls::init
kmain == 4                              \* init_keyboard
Loop == 5                               \* kmain between system calls
Answered == 6                           \* the instruction after the call of send_syscall
send_syscall == 16
isr_common == 32
isr_handler == 48
Stub(v) == 3 * (Word \div 4) + v        \* in the upper quarter, like the kernel

Code == (platform_init .. Answered) \cup (send_syscall .. send_syscall + 5)
        \cup (isr_common .. isr_common + 6)
        \cup (isr_handler .. isr_handler + 1) \cup {Stub(v) : v \in Vectors}

(* Segment descriptors. *)
GDT_CODE_SEGMENT == 8

(* GDT_ENTRY: the lower five nibbles of the limit, and the base in three parts. *)
GDT_ENTRY(base, limit, access, flags) ==
  [limit_low |-> limit % Half, base_low |-> base % Half,
   base_middle |-> (base \div Half) % Byte, access |-> access,
   limit_high |-> (limit \div Half) % N, flags |-> flags,
   base_high |-> (base \div (Half * Byte)) % Byte]

g_GDT ==
  [i \in 0 .. 2 |->
     CASE i = 0 -> GDT_ENTRY(0, 0, {}, {})
       [] i = 1 -> GDT_ENTRY(0, MinusOne, {"present", "code"}, {"32bit", "4k"})
       [] i = 2 -> GDT_ENTRY(0, MinusOne, {"present", "data"}, {"32bit", "4k"})]

(* The address that a selector and an offset stand for, and whether it is one. *)
Base(d) == d.base_low + Half * d.base_middle + Half * Byte * d.base_high
Limit(d) ==
  LET limit == d.limit_low + Half * d.limit_high
  IN IF "4k" \in d.flags THEN (limit + 1) * N * N * N - 1 ELSE limit
Executable(d, offset) == {"present", "code"} \subseteq d.access /\ offset <= Limit(d)

-----------------------------------------------------------------------------
(* Gates. *)
IDT_FLAG_GATE_INTERRUPT == "present, interrupt"

(* Mutant: the gates are trap gates, which leave IF set. *)
set_entry_trap(handler, flags) ==
  [offset_low |-> handler % Half, selector |-> GDT_CODE_SEGMENT, flags |-> "present, trap",
   offset_high |-> (handler \div Half) % Half]

(* idt::set_entry *)
set_entry(handler, flags) ==
  [offset_low |-> handler % Half, selector |-> GDT_CODE_SEGMENT, flags |-> flags,
   offset_high |-> (handler \div Half) % Half]

(* The gate of a vector leads here. *)
Target(v) ==
  LET d == gdtr[idtr[v].selector \div 8]
      offset == idtr[v].offset_low + Half * idtr[v].offset_high
  IN IF Executable(d, offset) THEN (Base(d) + offset) % Word ELSE MinusOne

-----------------------------------------------------------------------------
Push(words) ==
  /\ esp' = esp - Len(words)
  /\ ram' = [a \in DOMAIN ram |->
               IF a \in esp' .. esp - 1 THEN words[esp - a] ELSE ram[a]]

Init ==
  /\ eip = platform_init
  /\ regs = [r \in Registers |->
               CASE r = "eax" -> 101 [] r = "ecx" -> 102 [] r = "edx" -> 103
                 [] r = "ebx" -> 104 [] r = "ebp" -> 105 [] r = "esi" -> 106
                 [] r = "edi" -> 107]
  /\ esp = StackSize
  /\ iflag = 0
  /\ cs = GDT_CODE_SEGMENT
  /\ ram = [a \in 0 .. StackSize - 1 |-> 0]
  /\ gdtr = <<>> /\ idtr = <<>>
  /\ handlers = [v \in Vectors |-> "null"]
  /\ syscall_table = [n \in 0 .. Byte - 1 |-> "null"]
  /\ halted = FALSE
  /\ taken = <<>>
  /\ asked = [number |-> 0, arg1 |-> 0, regs |-> regs, esp |-> esp]
  /\ calls = 0 /\ happened = 0

At(address, next) == ~halted /\ eip = address /\ eip' = next

(* Instructions that only push words, or only drop some. *)
Pushing(address, next, words) ==
  At(address, next) /\ Push(words) /\ UNCHANGED <<regs, iflag, cs, others>>

Dropping(address, next, words) ==
  At(address, next) /\ esp' = esp + words /\ UNCHANGED <<regs, iflag, cs, ram, others>>

(* gdt::init: lgdt, then a far return and moves that load the selectors. *)
GdtInit ==
  /\ At(platform_init, platform_init + 1)
  /\ gdtr' = g_GDT
  /\ cs' = GDT_CODE_SEGMENT
  /\ UNCHANGED <<regs, esp, iflag, ram, idtr, handlers, syscall_table, halted, taken, asked,
                 calls, happened>>

(* idt::init *)
IdtInit ==
  /\ At(platform_init + 1, platform_init + 2)
  /\ handlers' = [v \in Vectors |-> IF v < 32 THEN "default_exception_handler"
                                    ELSE IF v < 48 THEN "default_irq_handler"
                                    ELSE "default_handler"]
  /\ idtr' = [v \in Vectors |-> set_entry(Stub(v), IDT_FLAG_GATE_INTERRUPT)]
  /\ UNCHANGED <<regs, esp, iflag, cs, ram, gdtr, syscall_table, halted, taken, asked, calls,
                 happened>>

(* interrupts::enable *)
EnableInterrupts ==
  /\ At(platform_init + 2, platform_init + 3)
  /\ iflag' = 1
  /\ UNCHANGED <<regs, esp, cs, ram, others>>

(* syscalls::init *)
SyscallsInit ==
  /\ At(platform_init + 3, kmain)
  /\ handlers' = [handlers EXCEPT ![128] = "syscall_handler"]
  /\ syscall_table' = [n \in 0 .. Byte - 1 |->
                         CASE n = 0 -> "sys_read" [] n = 1 -> "sys_write"
                           [] OTHER -> "sys_default"]
  /\ UNCHANGED <<regs, esp, iflag, cs, ram, gdtr, idtr, halted, taken, asked, calls, happened>>

(* keyboard::init_keyboard, for its handler. *)
RegisterKeyboard ==
  /\ At(kmain, Loop)
  /\ handlers' = [handlers EXCEPT ![33] = "keyboard_irq_handler"]
  /\ UNCHANGED <<regs, esp, iflag, cs, ram, gdtr, idtr, syscall_table, halted, taken, asked,
                 calls, happened>>

-----------------------------------------------------------------------------
(* Interrupts. *)

(* The exceptions for which the processor pushes an error code. *)
HasErrorCode == {8, 10, 11, 12, 13, 14, 17, 21, 29, 30}

(***************************************************************************)
(* The processor leaves the code at "from" for the gate of a vector.       *)
(***************************************************************************)
Interrupt(v, error, from) ==
  /\ Push(<<iflag, cs, from>> \o (IF v \in HasErrorCode THEN <<error>> ELSE <<>>))
  /\ cs' = idtr[v].selector
  /\ eip' = Target(v)
  /\ iflag' = IF idtr[v].flags = IDT_FLAG_GATE_INTERRUPT THEN 0 ELSE iflag
  /\ taken' = Append(taken, [v |-> v, error |-> IF v \in HasErrorCode THEN error ELSE 0,
                             eip |-> from, iflag |-> iflag, cs |-> cs, regs |-> regs,
                             esp |-> esp, ram |-> ram])
  /\ UNCHANGED <<regs, tables, halted, asked>>

Happens == happened < MaxInterrupts /\ happened' = happened + 1 /\ UNCHANGED calls

(* A device; the PICs are mapped to the vectors from 32 on. *)
Device(line) ==
  /\ ~halted /\ iflag = 1 /\ Happens
  /\ Interrupt(32 + line, 0, eip)

(* A fault, a trap or the NMI. *)
Exception(v) ==
  /\ ~halted /\ idtr # <<>> /\ Happens
  /\ happened > 0 => v \in Nested
  /\ Interrupt(v, 77, eip)

(* Mutant: alignment check is taken to have no error code. *)
ISR_HAS_ERRSome == {8, 10, 11, 12, 13, 14, 21, 29, 30}

(* The stubs that are made by ISR_HAS_ERR; ISR_NO_ERR and IRQ make the others. *)
ISR_HAS_ERR == {8, 10, 11, 12, 13, 14, 17, 21, 29, 30}

(* A stub: a dummy error code if there is none, and the vector. *)
StubRuns(v) ==
  Pushing(Stub(v), isr_common, IF v \in ISR_HAS_ERR THEN <<v>> ELSE <<0, v>>)

(* The order in which the processor's pusha pushes and popa pops. *)
PushOrder == <<"eax", "ecx", "edx", "ebx", "esp", "ebp", "esi", "edi">>

(* isr_common, instruction by instruction. *)
PushAll ==
  Pushing(isr_common, isr_common + 1,
          [i \in 1 .. 8 |-> IF PushOrder[i] = "esp" THEN esp ELSE regs[PushOrder[i]]])

PushFrame == Pushing(isr_common + 1, isr_common + 2, <<esp>>)

CallHandler == Pushing(isr_common + 2, isr_handler, <<isr_common + 3>>)

DropArgument == Dropping(isr_common + 3, isr_common + 4, 1)

PopAll ==
  /\ At(isr_common + 4, isr_common + 5)
  /\ regs' = [r \in Registers |->
                LET i == CHOOSE i \in 1 .. 8 : PushOrder[i] = r IN ram[esp + 8 - i]]
  /\ esp' = esp + 8
  /\ UNCHANGED <<iflag, cs, ram, others>>

(* Mutant: the dummy error code stays on the stack. *)
DropNumberOnly == Dropping(isr_common + 5, isr_common + 6, 1)

DropNumber == Dropping(isr_common + 5, isr_common + 6, 2)

Iret ==
  /\ At(isr_common + 6, ram[esp])
  /\ cs' = ram[esp + 1]
  /\ iflag' = ram[esp + 2]
  /\ esp' = esp + 3
  /\ taken' = SubSeq(taken, 1, Len(taken) - 1)
  /\ UNCHANGED <<regs, ram, tables, halted, asked, calls, happened>>

-----------------------------------------------------------------------------
(* struct InterruptFrame: its fields, from its address on. *)
InterruptFrame == <<"edi", "esi", "ebp", "esp_dummy", "ebx", "edx", "ecx", "eax",
                    "interrupt_number", "error_code", "eip", "cs", "eflags">>

Address(frame, field) == frame + (CHOOSE i \in 1 .. 13 : InterruptFrame[i] = field) - 1
Field(frame, field) == ram[Address(frame, field)]

(* What the system calls return for a pointer. *)
Results(implementation, arg1) ==
  CASE implementation = "sys_read" -> 0 .. Count[arg1]
    [] implementation = "sys_write" -> {Count[arg1]}
    [] implementation = "sys_default" -> {MinusOne}

(* What compiled code may leave in the registers that are its own to use. *)
Clobbered == [regs EXCEPT !["eax"] = 99, !["ecx"] = 99, !["edx"] = 99]

(* syscall_handler: the low byte of eax is the number. *)
syscall_handler(frame) ==
  LET number == Field(frame, "eax") % Byte
  IN \E result \in Results(syscall_table[number], Field(frame, "ebx")) :
       ram' = [ram EXCEPT ![Address(frame, "eax")] = result]

(* isr_handler, up to its return; its argument is above its return address. *)
Dispatch ==
  LET frame == ram[esp + 1]
      handler == handlers[Field(frame, "interrupt_number")]
  IN
  /\ At(isr_handler, isr_handler + 1)
  /\ \/ /\ handler = "syscall_handler"
        /\ syscall_handler(frame)
        /\ UNCHANGED halted
     \/ /\ handler = "default_exception_handler"
        /\ halted' = TRUE
        /\ UNCHANGED ram
     \/ /\ handler \notin {"syscall_handler", "default_exception_handler"}
        /\ UNCHANGED <<ram, halted>>
  /\ regs' = Clobbered
  /\ UNCHANGED <<esp, iflag, cs, tables, taken, asked, calls, happened>>

HandlerReturns == Dropping(isr_handler + 1, ram[esp], 1)

-----------------------------------------------------------------------------
(* System calls. *)

(* kmain, syscall and syscalls::send: the arguments and a return address. *)
Syscall(number, arg1) ==
  /\ calls < MaxCalls
  /\ At(Loop, send_syscall)
  /\ Push(<<arg1, number, Answered>>)
  /\ asked' = [number |-> number, arg1 |-> arg1, regs |-> regs, esp |-> esp]
  /\ calls' = calls + 1
  /\ UNCHANGED <<regs, iflag, cs, tables, halted, taken, happened>>

PushEbx == Pushing(send_syscall, send_syscall + 1, <<regs["ebx"]>>)

MoveNumber ==
  /\ At(send_syscall + 1, send_syscall + 2)
  /\ regs' = [regs EXCEPT !["eax"] = ram[esp + 2]]
  /\ UNCHANGED <<esp, iflag, cs, ram, others>>

MoveArg1 ==
  /\ At(send_syscall + 2, send_syscall + 3)
  /\ regs' = [regs EXCEPT !["ebx"] = ram[esp + 3]]
  /\ UNCHANGED <<esp, iflag, cs, ram, others>>

Int80 ==
  /\ ~halted /\ eip = send_syscall + 3
  /\ Interrupt(128, 0, send_syscall + 4)
  /\ UNCHANGED <<calls, happened>>

(* Mutant: the caller's ebx is dropped and not restored. *)
PopEbxNot == Dropping(send_syscall + 4, send_syscall + 5, 1)

PopEbx ==
  /\ At(send_syscall + 4, send_syscall + 5)
  /\ regs' = [regs EXCEPT !["ebx"] = ram[esp]]
  /\ esp' = esp + 1
  /\ UNCHANGED <<iflag, cs, ram, others>>

Ret == Dropping(send_syscall + 5, ram[esp], 1)

(* The caller drops the arguments. *)
CallerContinues == Dropping(Answered, Loop, 2)

-----------------------------------------------------------------------------
Thread == \/ GdtInit \/ IdtInit \/ EnableInterrupts \/ SyscallsInit \/ RegisterKeyboard
          \/ \E number \in Numbers, arg1 \in Arguments : Syscall(number, arg1)
          \/ PushEbx \/ MoveNumber \/ MoveArg1 \/ Int80 \/ PopEbx \/ Ret \/ CallerContinues

Handling == \/ \E v \in Vectors : StubRuns(v)
            \/ PushAll \/ PushFrame \/ CallHandler \/ Dispatch \/ HandlerReturns
            \/ DropArgument \/ PopAll \/ DropNumber \/ Iret

Next == \/ Thread
        \/ Handling
        \/ \E line \in Lines : Device(line)
        \/ \E v \in Exceptions : Exception(v)

Spec == Init /\ [][Next]_vars

-----------------------------------------------------------------------------
(***************************************************************************)
(* Whatever happens, and wherever, the gate leads to code that is there,   *)
(* and in the end isr_handler gets a frame that says what happened:        *)
(* the vector, the processor's error code or 0, and the interrupted code's *)
(* registers and flags under the names that idt.hpp gives them.  The gate, *)
(* the descriptor, the stub and isr_common have to agree for that; so they *)
(* do for an exception inside of a handler, whose report says where it     *)
(* struck.  And no device gets between the instructions of a handler:      *)
(* sys_read, which the keyboard's handler would disturb between its test   *)
(* and its read of the ring (read.cpp:8-15), runs with IF clear like all   *)
(* others, because the gates are interrupt gates (idt.cpp).                *)
(***************************************************************************)
HandlerSeesInterrupt ==
  /\ eip \in Code
  /\ taken # <<>> => iflag = 0
  /\ (eip = isr_handler /\ ~halted) =>
       LET t == taken[Len(taken)]
           frame == ram[esp + 1]
       IN
       /\ Field(frame, "interrupt_number") = t.v
       /\ Field(frame, "error_code") = t.error
       /\ \A r \in Registers : Field(frame, r) = t.regs[r]
       /\ Field(frame, "eip") = t.eip
       /\ Field(frame, "cs") = t.cs
       /\ Field(frame, "eflags") = t.iflag

(***************************************************************************)
(* Interrupted code does not notice: when iret gives the processor back,   *)
(* all registers, the flags, the stack pointer and the stack above it are  *)
(* what they were, save eax after a system call.  What returns is always   *)
(* the outermost handler: only exceptions interrupt a handler, and         *)
(* default_exception_handler never returns.                                *)
(***************************************************************************)
InterruptedCodeResumes ==
  [][Len(taken') < Len(taken) =>
       LET t == taken[Len(taken)]
       IN /\ eip' = t.eip /\ cs' = t.cs /\ iflag' = t.iflag /\ esp' = t.esp
          /\ \A r \in Registers : regs'[r] = t.regs[r] \/ (r = "eax" /\ t.v = 128)
          /\ \A a \in t.esp .. StackSize - 1 : ram'[a] = t.ram[a]]_vars

(***************************************************************************)
(* send_syscall returns to its caller with the result of the call that was *)
(* asked for, and its argument, in eax: what sys_read or sys_write         *)
(* returns, or -1 for any other number (syscall.cpp:40-41), as long as the *)
(* number fits the byte that syscall_handler looks at.  Whatever the       *)
(* number, the registers that a C++ function must preserve, ebx among      *)
(* them, and the stack are as they were.                                   *)
(***************************************************************************)
SyscallsAnswered ==
  eip = Answered =>
    /\ asked.number < Byte =>
         regs["eax"] \in (IF asked.number = 0 THEN 0 .. Count[asked.arg1]
                          ELSE IF asked.number = 1 THEN {Count[asked.arg1]} ELSE {MinusOne})
    /\ \A r \in Registers \ {"eax", "ecx", "edx"} : regs[r] = asked.regs[r]
    /\ esp = asked.esp - 2
=============================================================================
