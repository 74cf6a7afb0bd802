------------------------ MODULE InterruptEntryProofs ------------------------
(***************************************************************************)
(* Proofs about InterruptEntry, for every width of a nibble of at least    *)
(* two bits, every size of the stack that does not overflow, every set of  *)
(* lines and exceptions and every number of interrupts and system calls.   *)
(***************************************************************************)
EXTENDS InterruptEntry, SequenceTheorems, TLAPS

(* Division. *)

(* Whole division: the quotient is the only q with d * q <= n < d * q + d. *)
LEMMA Quotient ==
  ASSUME NEW n \in Nat, NEW d \in Nat \ {0}
  PROVE  /\ n \div d \in Nat
         /\ d * (n \div d) <= n
         /\ n < d * (n \div d) + d
  OBVIOUS

(* A number is its quotient times the divisor, and a remainder below it. *)
LEMMA Remainder ==
  ASSUME NEW n \in Nat, NEW d \in Nat \ {0}
  PROVE  /\ n % d \in Nat
         /\ n % d < d
         /\ n = d * (n \div d) + (n % d)
  OBVIOUS

(* A product grows with its factor. *)
LEMMA Times ==
  ASSUME NEW a \in Nat, NEW b \in Nat, NEW d \in Nat \ {0}, a < b
  PROVE  d * a + d <= d * b
  OBVIOUS

(* Quotient and remainder are the only such pair. *)
LEMMA RemainderUnique ==
  ASSUME NEW n \in Nat, NEW d \in Nat \ {0}, NEW q \in Nat, NEW m \in Nat,
         n = d * q + m, m < d
  PROVE  n % d = m /\ n \div d = q
  <1> DEFINE r == n \div d
  <1>1. /\ r \in Nat /\ d * r <= n /\ n < d * r + d
        /\ n % d \in Nat /\ n = d * r + (n % d)
    BY Quotient, Remainder
  <1>2. d * q \in Nat /\ d * r \in Nat
    BY <1>1
  <1> HIDE DEF r
  <1>3. ~(q < r)
    <2> SUFFICES ASSUME q < r PROVE FALSE
      OBVIOUS
    <2>1. d * q + d <= d * r
      BY <1>1, Times
    <2> QED BY <2>1, <1>1, <1>2
  <1>4. ~(r < q)
    <2> SUFFICES ASSUME r < q PROVE FALSE
      OBVIOUS
    <2>1. d * r + d <= d * q
      BY <1>1, Times
    <2> QED BY <2>1, <1>1, <1>2
  <1>5. r = q
    BY <1>1, <1>3, <1>4
  <1>6. n % d = m
    BY <1>1, <1>2, <1>5
  <1> QED BY <1>5, <1>6 DEF r

-----------------------------------------------------------------------------

Ram == [0 .. StackSize - 1 -> Int]
Regs == [Registers -> Int]

(* What is recorded of interrupted code. *)
Record ==
  {t \in [v : Vectors, error : Int, eip : Int, iflag : Int, cs : Int, regs : Regs, esp : Int,
          ram : Ram] : t.v \notin HasErrorCode => t.error = 0}

Types ==
  /\ eip \in Int /\ regs \in Regs /\ esp \in Int /\ iflag \in Int /\ cs \in Int
  /\ ram \in Ram
  /\ taken \in Seq(Record)
  /\ calls \in Nat /\ happened \in Nat
  /\ handlers \in [Vectors -> {"null", "default_exception_handler", "default_irq_handler",
                               "default_handler", "syscall_handler", "keyboard_irq_handler"}]

-----------------------------------------------------------------------------
(* Handlers.  The code at e, with registers r and stack s, m, is the        *)
(* handler of t: what it has pushed depends on how far it is.               *)

Called == {isr_handler, isr_handler + 1}
InHandler == Called \cup {isr_common + 2, isr_common + 3}
Saved == InHandler \cup {isr_common + 1, isr_common + 4}
Served == {isr_handler + 1, isr_common + 3, isr_common + 4}
Restored == {isr_common + 5, isr_common + 6}
HandlerCode == Saved \cup Restored \cup {isr_common}

(* The words that the handler of v has on the stack at e. *)
Used(v, e) ==
  IF e = Stub(v) THEN IF v \in HasErrorCode THEN 4 ELSE 3
  ELSE IF e \in Called THEN 15
  ELSE IF e \in InHandler THEN 14
  ELSE IF e \in Saved THEN 13
  ELSE IF e = isr_common + 6 THEN 3
  ELSE 5

(* What the system call that is under way may return. *)
Answer ==
  LET number == asked.number % Byte
  IN IF number = 0 THEN 0 .. Count[asked.arg1]
     ELSE IF number = 1 THEN {Count[asked.arg1]} ELSE {MinusOne}

(* The stack as the processor left it. *)
Left(t, m) ==
  /\ \A a \in t.esp .. StackSize - 1 : m[a] = t.ram[a]
  /\ m[t.esp - 1] = t.iflag /\ m[t.esp - 2] = t.cs /\ m[t.esp - 3] = t.eip

(* What pusha has pushed, but for eax and esp. *)
Pushes(t, m) ==
  /\ m[t.esp - 7] = t.regs["ecx"] /\ m[t.esp - 8] = t.regs["edx"]
  /\ m[t.esp - 9] = t.regs["ebx"] /\ m[t.esp - 11] = t.regs["ebp"]
  /\ m[t.esp - 12] = t.regs["esi"] /\ m[t.esp - 13] = t.regs["edi"]

(* Is this the value of eax that the handler of t has to leave? *)
Eax(t, value) == IF t.v = 128 THEN value \in Answer ELSE value = t.regs["eax"]

HandlerAt(t, e, r, s, m) ==
  /\ e \in HandlerCode \cup {Stub(t.v)}
  /\ s = t.esp - Used(t.v, e)
  /\ Left(t, m)
  /\ s <= t.esp - 4 => m[t.esp - 4] = t.error
  /\ s <= t.esp - 5 => m[t.esp - 5] = t.v
  /\ e \in Saved => Pushes(t, m)
  /\ e \in Saved \ Served => m[t.esp - 6] = t.regs["eax"]
  /\ e \in Served => Eax(t, m[t.esp - 6])
  /\ e \in InHandler => m[t.esp - 14] = t.esp - 13
  /\ e \in Called => m[t.esp - 15] = isr_common + 3
  /\ e \in {Stub(t.v), isr_common} => r = t.regs
  /\ e \in Restored => /\ \A n \in Registers \ {"eax"} : r[n] = t.regs[n]
                       /\ Eax(t, r["eax"])

-----------------------------------------------------------------------------
(* The thread: what send_syscall and its caller have on the stack at e. *)
ThreadCode == (platform_init .. Answered) \cup (send_syscall .. send_syscall + 5)
InCall == (send_syscall .. send_syscall + 5) \cup {Answered}
HasEbx == send_syscall + 1 .. send_syscall + 4

Pushed(e) ==
  IF e \notin InCall THEN 0 ELSE IF e = Answered THEN 2 ELSE IF e \in HasEbx THEN 4 ELSE 3

ThreadStack(e, s, m) ==
  /\ s = StackSize - Pushed(e)
  /\ e \in InCall => /\ asked.number \in Nat /\ asked.arg1 \in Arguments
                     /\ asked.esp = StackSize
  /\ e \in InCall \ {Answered} => /\ m[StackSize - 1] = asked.arg1
                                  /\ m[StackSize - 2] = asked.number
                                  /\ m[StackSize - 3] = Answered
  /\ e \in HasEbx => m[StackSize - 4] = asked.regs["ebx"]

(* The registers that send_syscall does not use. *)
Preserved(e, r) ==
  e \in InCall => \A n \in Registers \ {"eax", "ebx"} : r[n] = asked.regs[n]

ThreadAt(e, r, s, m) ==
  /\ e \in ThreadCode
  /\ ThreadStack(e, s, m)
  /\ Preserved(e, r)
  /\ e \in InCall \ {send_syscall + 3, send_syscall + 4} => r["ebx"] = asked.regs["ebx"]
  /\ e \in {send_syscall + 2, send_syscall + 3} => r["eax"] = asked.number
  /\ e = send_syscall + 3 => r["ebx"] = asked.arg1
  /\ e \in {send_syscall + 4, send_syscall + 5, Answered} => r["eax"] \in Answer

(* The thread when int 0x80 has left it. *)
AsksAt(e, r, s, m) ==
  /\ e = send_syscall + 4
  /\ ThreadStack(e, s, m)
  /\ Preserved(e, r)
  /\ r["eax"] = asked.number /\ r["ebx"] = asked.arg1

-----------------------------------------------------------------------------
(* The interrupted code, from the thread to the innermost handler. *)
Thread0 ==
  IF taken = <<>> THEN ThreadAt(eip, regs, esp, ram)
  ELSE LET t == taken[1]
       IN IF t.v = 128 THEN AsksAt(t.eip, t.regs, t.esp, t.ram)
          ELSE ThreadAt(t.eip, t.regs, t.esp, t.ram)

Outer ==
  \A k \in 1 .. Len(taken) - 1 :
    LET t == taken[k + 1] IN /\ HandlerAt(taken[k], t.eip, t.regs, t.esp, t.ram)
                             /\ t.v # 128

Innermost == taken # <<>> => HandlerAt(taken[Len(taken)], eip, regs, esp, ram)

(* No level needs more than 15 words. *)
Depth ==
  /\ \A k \in 1 .. Len(taken) :
       taken[k].esp <= StackSize /\ taken[k].esp >= StackSize - 4 - 15 * (k - 1)
  /\ Len(taken) <= happened + 1
  /\ happened <= MaxInterrupts

(* What platform_init has set up when the thread is at e. *)
Where == IF taken = <<>> THEN eip ELSE taken[1].eip

Gates == [v \in Vectors |-> set_entry(Stub(v), IDT_FLAG_GATE_INTERRUPT)]

SetUp ==
  /\ Where = 0 \/ gdtr = g_GDT
  /\ Where \in {0, 1} => taken = <<>> /\ iflag = 0 /\ idtr = <<>>
  /\ Where \notin {0, 1} =>
       /\ idtr = Gates
       /\ \A v \in Vectors : v # 128 => handlers[v] # "syscall_handler"
  /\ Where \notin 0 .. 3 =>
       /\ handlers[128] = "syscall_handler"
       /\ syscall_table = [n \in 0 .. Byte - 1 |->
                             CASE n = 0 -> "sys_read" [] n = 1 -> "sys_write"
                               [] OTHER -> "sys_default"]

EntryInv == Types /\ Thread0 /\ Outer /\ Innermost /\ Depth /\ SetUp

-----------------------------------------------------------------------------
(* Gates and descriptors. *)

(* The widths, for a nibble of at least two bits. *)
LEMMA Widths ==
  /\ Byte \in Nat /\ Byte >= 16
  /\ Half \in Nat /\ Half >= 256 /\ Half = N * (N * N * N)
  /\ Word \in Nat /\ Word >= 65536 /\ Word = Half * Half
  <1>1. N \in Nat /\ N >= 4
    BY InterruptEntryAssumption
  <1>2. Byte \in Nat /\ Byte >= 16
    <2>1. 3 < N
      BY <1>1
    <2>2. N * 3 + N <= N * N
      BY <1>1, <2>1, Times
    <2> QED BY <1>1, <2>2 DEF Byte
  <1>3. Half \in Nat /\ Half >= 256
    <2>1. Byte * 15 + Byte <= Byte * Byte
      BY <1>2, Times
    <2> QED BY <1>2, <2>1 DEF Half
  <1>4. Word \in Nat /\ Word >= 65536
    <2>1. Half * 255 + Half <= Half * Half
      BY <1>3, Times
    <2> QED BY <1>3, <2>1 DEF Word
  <1>5. Half = N * (N * N * N)
    BY <1>1 DEF Half, Byte
  <1> QED BY <1>2, <1>3, <1>4, <1>5 DEF Word

(* The stubs have addresses of their own, apart from the other code. *)
LEMMA Stubs ==
  ASSUME NEW v \in Vectors
  PROVE  /\ Stub(v) \in Nat /\ Stub(v) > 100 /\ Stub(v) < Word
         /\ \A w \in Vectors : Stub(w) = Stub(v) => w = v
  <1> DEFINE q == Word \div 4
  <1>1. q \in Nat /\ 4 * q <= Word /\ Word < 4 * q + 4
    BY Widths, Quotient
  <1>2. \A w \in Vectors : w \in Nat /\ w <= 128 /\ Stub(w) = 3 * q + w
    BY DEF Vectors, Stub
  <1> HIDE DEF q
  <1> QED BY <1>1, <1>2, Widths

(* The code segment is all of memory. *)
LEMMA CodeSegment ==
  /\ Base(g_GDT[1]) = 0 /\ Limit(g_GDT[1]) = Word - 1
  /\ g_GDT[1].access = {"present", "code"}
  <1> DEFINE d == GDT_ENTRY(0, MinusOne, {"present", "code"}, {"32bit", "4k"})
             h == Half
             c == N * N * N
  <1>1. g_GDT[1] = d
    BY DEF g_GDT
  <1>2. /\ d.limit_low = (Word - 1) % Half /\ d.limit_high = ((Word - 1) \div Half) % N
        /\ d.base_low = 0 % Half /\ d.base_middle = (0 \div Half) % Byte
        /\ d.base_high = (0 \div (Half * Byte)) % Byte
        /\ d.access = {"present", "code"} /\ d.flags = {"32bit", "4k"}
    BY DEF GDT_ENTRY, MinusOne
  <1> HIDE DEF d
  <1>3. /\ N \in Nat /\ N >= 4 /\ Byte \in Nat /\ Byte >= 16 /\ Half \in Nat /\ Half >= 256
        /\ Word \in Nat /\ Word = Half * Half /\ Word >= 65536
    BY Widths, InterruptEntryAssumption
  <1>4. \A n \in Nat \ {0} : 0 % n = 0 /\ 0 \div n = 0
    <2> TAKE n \in Nat \ {0}
    <2>1. 0 = n * 0 + 0
      OBVIOUS
    <2> QED BY <2>1, RemainderUnique
  <1>5. d.base_low = 0 /\ d.base_middle = 0 /\ d.base_high = 0
    <2>1. Half * Byte \in Nat \ {0}
      BY <1>3
    <2> QED BY <1>2, <1>3, <1>4, <2>1
  <1>6. (Word - 1) % Half = Half - 1 /\ (Word - 1) \div Half = Half - 1
    <2>1. Word - 1 = Half * (Half - 1) + (Half - 1)
      BY <1>3
    <2> QED BY <1>3, <2>1, RemainderUnique
  <1>7. (Half - 1) % N = N - 1
    <2>1. c \in Nat /\ Half = N * c
      BY <1>3, Widths
    <2> HIDE DEF c
    <2>2. c >= 1
      BY <1>3, <2>1
    <2>3. Half - 1 = N * (c - 1) + (N - 1)
      BY <1>3, <2>1
    <2> QED BY <1>3, <2>2, <2>1, <2>3, RemainderUnique
  <1>8. Base(d) = 0
    BY <1>3, <1>5 DEF Base
  <1>9. Limit(d) = Word - 1
    <2>1. d.limit_low + Half * d.limit_high + 1 = Half * N
      BY <1>2, <1>3, <1>6, <1>7
    <2>2. (Half * N) * N * N * N = Half * (N * (N * N * N))
      BY <1>3
    <2>3. Half * (N * (N * N * N)) = Word
      BY Widths
    <2>4. Limit(d) = (d.limit_low + Half * d.limit_high + 1) * N * N * N - 1
      BY <1>2 DEF Limit
    <2> QED BY <2>1, <2>2, <2>3, <2>4
  <1> QED BY <1>1, <1>2, <1>8, <1>9

(* The gate of a vector leads to its stub, with interrupts disabled. *)
LEMMA GateLeadsToStub ==
  ASSUME NEW v \in Vectors, gdtr = g_GDT, idtr = Gates
  PROVE  /\ Target(v) = Stub(v)
         /\ idtr[v].selector = GDT_CODE_SEGMENT /\ idtr[v].flags = IDT_FLAG_GATE_INTERRUPT
  <1> DEFINE s == Stub(v)
             q == s \div Half
  <1>1. /\ idtr[v].offset_low = s % Half /\ idtr[v].offset_high = q % Half
        /\ idtr[v].selector = GDT_CODE_SEGMENT /\ idtr[v].flags = IDT_FLAG_GATE_INTERRUPT
    BY DEF Gates, set_entry
  <1>2. s \in Nat /\ s < Word
    BY Stubs
  <1> HIDE DEF s
  <1>3. /\ Half \in Nat \ {0} /\ Word \in Nat \ {0} /\ Word = Half * Half
    BY Widths
  <1>4. q \in Nat /\ Half * q <= s /\ s % Half \in Nat /\ s = Half * q + (s % Half)
    BY <1>2, <1>3, Quotient, Remainder
  <1> HIDE DEF q
  <1>5. q < Half
    <2> SUFFICES ASSUME ~(q < Half) PROVE FALSE
      OBVIOUS
    <2>1. q >= Half
      BY <1>3, <1>4
    <2>2. Half * Half <= Half * q
      BY <1>3, <1>4, <2>1
    <2> QED BY <1>2, <1>3, <1>4, <2>2
  <1>6. q % Half = q
    <2>1. q = Half * 0 + q
      BY <1>3, <1>4
    <2> QED BY <1>3, <1>4, <1>5, <2>1, RemainderUnique
  <1>7. idtr[v].offset_low + Half * idtr[v].offset_high = s
    BY <1>1, <1>3, <1>4, <1>6
  <1>8. s % Word = s
    <2>1. s = Word * 0 + s
      BY <1>2, <1>3
    <2> QED BY <1>2, <1>3, <2>1, RemainderUnique
  <1>9. gdtr[idtr[v].selector \div 8] = g_GDT[1]
    BY <1>1 DEF GDT_CODE_SEGMENT
  <1>10. Executable(g_GDT[1], s)
    BY <1>2, <1>3, CodeSegment DEF Executable
  <1>11. Target(v) = (Base(g_GDT[1]) + s) % Word
    BY <1>7, <1>9, <1>10 DEF Target
  <1> QED BY <1>1, <1>2, <1>8, <1>11, CodeSegment DEF s

-----------------------------------------------------------------------------
(* The stack. *)

(* A push leaves what is above it alone. *)
LEMMA PushFacts ==
  ASSUME ram \in Ram, esp \in Int, NEW words \in Seq(Int), Push(words),
         Len(words) <= esp, esp <= StackSize
  PROVE  /\ esp' = esp - Len(words) /\ esp' \in Int /\ ram' \in Ram
         /\ \A a \in esp .. StackSize - 1 : ram'[a] = ram[a]
         /\ \A i \in 1 .. Len(words) : ram'[esp - i] = words[i]
  <1>1. StackSize \in Nat /\ Len(words) \in Nat
    BY InterruptEntryAssumption
  <1>2. /\ esp' = esp - Len(words) /\ esp' \in Int
        /\ ram' = [a \in 0 .. StackSize - 1 |->
                     IF a \in esp' .. esp - 1 THEN words[esp - a] ELSE ram[a]]
    BY <1>1 DEF Push, Ram
  <1>3. ram' \in Ram
    <2> SUFFICES ASSUME NEW a \in 0 .. StackSize - 1
                 PROVE  (IF a \in esp' .. esp - 1 THEN words[esp - a] ELSE ram[a]) \in Int
      BY <1>2 DEF Ram
    <2>1. CASE a \in esp' .. esp - 1
      <3>1. esp - a \in 1 .. Len(words)
        BY <1>1, <1>2, <2>1
      <3> QED BY <2>1, <3>1
    <2> QED BY <2>1 DEF Ram
  <1>4. \A a \in esp .. StackSize - 1 : ram'[a] = ram[a]
    BY <1>1, <1>2
  <1>5. ASSUME NEW i \in 1 .. Len(words) PROVE ram'[esp - i] = words[i]
    <2>1. esp - i \in 0 .. StackSize - 1 /\ esp - i \in esp' .. esp - 1 /\ esp - (esp - i) = i
      BY <1>1, <1>2
    <2> QED BY <1>2, <2>1
  <1> QED BY <1>2, <1>3, <1>4, <1>5

(* A handler does not depend on what is below the stack pointer. *)
LEMMA HandlerKept ==
  ASSUME NEW t \in Record, NEW e, NEW r, NEW s, NEW m, NEW m2,
         HandlerAt(t, e, r, s, m), t.esp <= StackSize,
         \A a \in s .. StackSize - 1 : m2[a] = m[a]
  PROVE  HandlerAt(t, e, r, s, m2)
  <1>1. t.esp \in Int /\ t.v \in Vectors /\ StackSize \in Nat
    BY InterruptEntryAssumption DEF Record
  <1>2. /\ e \in HandlerCode \cup {Stub(t.v)} /\ s = t.esp - Used(t.v, e)
        /\ Left(t, m)
        /\ s <= t.esp - 4 => m[t.esp - 4] = t.error
        /\ s <= t.esp - 5 => m[t.esp - 5] = t.v
        /\ e \in Saved => Pushes(t, m)
        /\ e \in Saved \ Served => m[t.esp - 6] = t.regs["eax"]
        /\ e \in Served => Eax(t, m[t.esp - 6])
        /\ e \in InHandler => m[t.esp - 14] = t.esp - 13
        /\ e \in Called => m[t.esp - 15] = isr_common + 3
    BY DEF HandlerAt
  <1>3. Used(t.v, e) \in 3 .. 15
    BY <1>1 DEF Used
  <1>4. \A k \in 1 .. 15 : k <= Used(t.v, e) => m2[t.esp - k] = m[t.esp - k]
    BY <1>1, <1>2, <1>3
  <1>5. /\ e \in Saved => Used(t.v, e) >= 13
        /\ e \in InHandler => Used(t.v, e) >= 14
        /\ e \in Called => Used(t.v, e) >= 15
    <2>1. e \in Saved => e # Stub(t.v)
      BY <1>1, Stubs DEF Saved, InHandler, Called, isr_common, isr_handler
    <2> QED BY <2>1 DEF Saved, InHandler, Called, Used
  <1>6. Left(t, m2)
    <2>1. \A a \in t.esp .. StackSize - 1 : m2[a] = m[a]
      BY <1>1, <1>2, <1>3
    <2> QED BY <1>1, <1>2, <1>3, <1>4, <2>1 DEF Left
  <1>7. e \in Saved => /\ Pushes(t, m2)
                      /\ m2[t.esp - 6] = m[t.esp - 6]
    BY <1>2, <1>3, <1>4, <1>5 DEF Pushes
  <1>8. /\ s <= t.esp - 4 => m2[t.esp - 4] = t.error
        /\ s <= t.esp - 5 => m2[t.esp - 5] = t.v
    BY <1>1, <1>2, <1>3, <1>4
  <1>9. /\ e \in InHandler => m2[t.esp - 14] = t.esp - 13
        /\ e \in Called => m2[t.esp - 15] = isr_common + 3
    BY <1>2, <1>3, <1>4, <1>5
  <1>10. Served \subseteq Saved
    BY DEF Served, Saved, InHandler, Called
  <1> QED BY <1>2, <1>6, <1>7, <1>8, <1>9, <1>10 DEF HandlerAt

(* Neither does the thread. *)
LEMMA ThreadKept ==
  ASSUME NEW e, NEW r, NEW s, NEW m, NEW m2, ThreadStack(e, s, m),
         \A a \in s .. StackSize - 1 : m2[a] = m[a]
  PROVE  ThreadStack(e, s, m2)
  <1>1. StackSize \in Nat
    BY InterruptEntryAssumption
  <1>2. /\ e \in InCall \ {Answered} => Pushed(e) \in 3 .. 4
        /\ e \in HasEbx => Pushed(e) = 4
        /\ s = StackSize - Pushed(e)
    BY DEF ThreadStack, Pushed, HasEbx, InCall, send_syscall, Answered
  <1> QED BY <1>1, <1>2 DEF ThreadStack

(* Sequences of records grow and shrink at the end. *)
LEMMA AppendFacts ==
  ASSUME NEW S, NEW s \in Seq(S), NEW x \in S
  PROVE  /\ Append(s, x) \in Seq(S) /\ Append(s, x) # <<>>
         /\ Len(Append(s, x)) = Len(s) + 1 /\ Append(s, x)[Len(s) + 1] = x
         /\ \A k \in 1 .. Len(s) : Append(s, x)[k] = s[k]
  BY AppendProperties

(* ... and the same for the front. *)
LEMMA FrontFacts ==
  ASSUME NEW S, NEW s \in Seq(S), s # <<>>
  PROVE  LET f == SubSeq(s, 1, Len(s) - 1)
         IN /\ f \in Seq(S) /\ Len(f) = Len(s) - 1
            /\ \A k \in 1 .. Len(s) - 1 : f[k] = s[k]
  <1>1. Len(s) \in Nat \ {0}
    BY EmptySeq
  <1> DEFINE n == Len(s) - 1
  <1>2. n \in Nat /\ n \in Int /\ 1 \in Int /\ \A k \in 1 .. n : s[k] \in S
    BY <1>1
  <1> HIDE DEF n
  <1>3. /\ SubSeq(s, 1, n) \in Seq(S)
        /\ Len(SubSeq(s, 1, n)) = IF 1 <= n THEN n - 1 + 1 ELSE 0
        /\ \A k \in 1 .. n - 1 + 1 : SubSeq(s, 1, n)[k] = s[1 + k - 1]
    BY <1>2, SubSeqProperties
  <1>4. \A k \in 1 .. n : k \in 1 .. n - 1 + 1 /\ 1 + k - 1 = k
    BY <1>2
  <1>5. Len(SubSeq(s, 1, n)) = n
    BY <1>2, <1>3
  <1> QED BY <1>3, <1>4, <1>5 DEF n

-----------------------------------------------------------------------------
(* Where the processor is tells who runs. *)

(* The handler that runs, and the stack below the code that it interrupted. *)
LEMMA Current ==
  ASSUME EntryInv, taken # <<>>
  PROVE  LET t == taken[Len(taken)]
         IN /\ Len(taken) \in Nat \ {0} /\ t \in Record /\ t.v \in Vectors
            /\ t.esp \in Int /\ 15 <= t.esp /\ t.esp <= StackSize
            /\ HandlerAt(t, eip, regs, esp, ram)
  <1> DEFINE t == taken[Len(taken)]
  <1>1. taken \in Seq(Record)
    BY DEF EntryInv, Types
  <1>2. Len(taken) \in Nat \ {0}
    BY <1>1, EmptySeq
  <1>3. t \in Record
    BY <1>1, <1>2
  <1>4. t.v \in Vectors /\ t.esp \in Int
    BY <1>3 DEF Record
  <1>5. t.esp <= StackSize /\ t.esp >= StackSize - 4 - 15 * (Len(taken) - 1)
    BY <1>2 DEF EntryInv, Depth
  <1>6. /\ Len(taken) <= MaxInterrupts + 1 /\ MaxInterrupts \in Nat /\ StackSize \in Nat
        /\ StackSize >= 4 + 15 * (MaxInterrupts + 1)
    BY <1>2, InterruptEntryAssumption DEF EntryInv, Depth, Types
  <1>7. 15 <= t.esp
    BY <1>2, <1>4, <1>5, <1>6
  <1>8. HandlerAt(t, eip, regs, esp, ram)
    BY DEF EntryInv, Innermost
  <1> QED BY <1>2, <1>3, <1>4, <1>5, <1>7, <1>8

(* Outside of the thread's code a handler runs ... *)
LEMMA HandlerRuns ==
  ASSUME EntryInv, eip \notin ThreadCode
  PROVE  taken # <<>>
  BY DEF EntryInv, Thread0, ThreadAt

(* ... and in it the thread. *)
LEMMA ThreadRuns ==
  ASSUME EntryInv, eip \in ThreadCode
  PROVE  taken = <<>> /\ ThreadAt(eip, regs, esp, ram)
  <1>1. taken = <<>>
    <2> SUFFICES ASSUME taken # <<>> PROVE FALSE
      OBVIOUS
    <2>1. PICK v \in Vectors : eip \in HandlerCode \cup {Stub(v)}
      BY Current DEF HandlerAt
    <2>2. Stub(v) > 100 /\ Stub(v) \in Nat
      BY Stubs
    <2> QED BY <2>1, <2>2
         DEF ThreadCode, HandlerCode, Saved, Restored, InHandler, Called, platform_init,
             Answered, send_syscall, isr_common, isr_handler
  <1> QED BY <1>1 DEF EntryInv, Thread0

-----------------------------------------------------------------------------
(* Handlers. *)

(* What holds of an interrupted handler, as long as its record stays. *)
LEMMA OuterKept ==
  ASSUME Outer, UNCHANGED asked, NEW k \in 1 .. Len(taken) - 1,
         taken'[k] = taken[k], taken'[k + 1] = taken[k + 1]
  PROVE  /\ HandlerAt(taken[k], taken[k + 1].eip, taken[k + 1].regs, taken[k + 1].esp,
                      taken[k + 1].ram)'
         /\ taken'[k + 1].v # 128
  <1>1. Answer' = Answer
    BY DEF Answer
  <1>2. /\ HandlerAt(taken[k], taken[k + 1].eip, taken[k + 1].regs, taken[k + 1].esp,
                     taken[k + 1].ram)
        /\ taken[k + 1].v # 128
    BY DEF Outer
  <1> QED BY <1>1, <1>2 DEF HandlerAt, Left, Pushes, Eax

(* A step of the running handler leaves everything but its own state alone. *)
LEMMA HandlerStep ==
  ASSUME EntryInv, taken # <<>>, UNCHANGED <<tables, taken, asked, calls, happened>>,
         eip' \in Int, regs' \in Regs, esp' \in Int, iflag' \in Int, cs' \in Int, ram' \in Ram,
         HandlerAt(taken[Len(taken)], eip', regs', esp', ram')
  PROVE  EntryInv'
  <1>1. Answer' = Answer
    BY DEF Answer
  <1>2. Types'
    BY DEF EntryInv, Types, tables
  <1>3. Innermost'
    BY <1>1 DEF Innermost, HandlerAt, Left, Pushes, Eax
  <1>4. Thread0'
    BY <1>1 DEF EntryInv, Thread0, ThreadAt, AsksAt, ThreadStack, Preserved
  <1>5. Outer'
    <2> SUFFICES ASSUME NEW k \in 1 .. Len(taken) - 1
                 PROVE  /\ HandlerAt(taken[k], taken[k + 1].eip, taken[k + 1].regs,
                                     taken[k + 1].esp, taken[k + 1].ram)'
                        /\ taken'[k + 1].v # 128
      BY DEF Outer
    <2> QED BY OuterKept DEF EntryInv
  <1>6. Depth'
    BY DEF EntryInv, Depth
  <1>7. SetUp'
    BY DEF EntryInv, SetUp, Where, tables
  <1> QED BY <1>2, <1>3, <1>4, <1>5, <1>6, <1>7 DEF EntryInv

(* Before it pushes more, a handler has what it had. *)
LEMMA HandlerPushes ==
  ASSUME EntryInv, taken # <<>>, NEW words \in Seq(Int), Len(words) <= 8,
         NEW address, NEW next, Pushing(address, next, words),
         address \notin Saved \/ Len(words) = 1, address \notin Called
  PROVE  LET t == taken[Len(taken)]
         IN /\ HandlerAt(t, address, regs, esp, ram')
            /\ \A i \in 1 .. Len(words) : ram'[esp - i] = words[i]
            /\ eip = address /\ eip' = next /\ esp' = esp - Len(words)
            /\ regs' = regs /\ regs' \in Regs /\ esp' \in Int /\ ram' \in Ram
            /\ UNCHANGED <<iflag, cs, tables, taken, asked, calls, happened>>
            /\ iflag' \in Int /\ cs' \in Int
  <1> DEFINE t == taken[Len(taken)]
  <1>1. /\ t \in Record /\ t.v \in Vectors /\ t.esp \in Int /\ 15 <= t.esp
        /\ t.esp <= StackSize /\ HandlerAt(t, eip, regs, esp, ram)
    BY Current
  <1>2. /\ eip = address /\ eip' = next /\ Push(words)
        /\ UNCHANGED <<regs, iflag, cs, tables, taken, asked, calls, happened>>
    BY DEF Pushing, At, others
  <1>3. /\ ram \in Ram /\ regs \in Regs /\ iflag \in Int /\ cs \in Int /\ esp \in Int
    BY DEF EntryInv, Types
  <1> HIDE DEF t
  <1>4. Len(words) \in Nat /\ StackSize \in Nat
    BY InterruptEntryAssumption
  <1>5. esp = t.esp - Used(t.v, eip)
    BY <1>1 DEF HandlerAt
  <1>6. Used(t.v, eip) \in 3 .. (15 - Len(words))
    <2>1. eip \notin Called /\ (eip \notin Saved \/ Len(words) = 1)
      BY <1>2
    <2>2. /\ Used(t.v, eip) \in 3 .. 14
          /\ eip \notin Saved => Used(t.v, eip) \in 3 .. 5
      BY <2>1 DEF Used, Saved
    <2> DEFINE u == Used(t.v, eip)
               n == Len(words)
    <2>3. n \in Nat /\ n <= 8 /\ u \in 3 .. 14 /\ (u \in 3 .. 5 \/ n = 1)
      BY <1>4, <2>1, <2>2
    <2> HIDE DEF u, n
    <2>4. u \in 3 .. (15 - n)
      BY <2>3
    <2> QED BY <2>4 DEF u, n
  <1>7. Len(words) <= esp /\ esp <= StackSize
    BY <1>1, <1>3, <1>4, <1>5, <1>6
  <1>8. /\ esp' = esp - Len(words) /\ esp' \in Int /\ ram' \in Ram
        /\ \A a \in esp .. StackSize - 1 : ram'[a] = ram[a]
        /\ \A i \in 1 .. Len(words) : ram'[esp - i] = words[i]
    BY <1>2, <1>3, <1>7, PushFacts
  <1>9. HandlerAt(t, eip, regs, esp, ram')
    BY <1>1, <1>8, HandlerKept
  <1> QED BY <1>2, <1>3, <1>8, <1>9 DEF t

(* The stubs complete what the processor has pushed. *)
LEMMA StubStep ==
  ASSUME EntryInv, NEW v \in Vectors, StubRuns(v)
  PROVE  EntryInv'
  <1> DEFINE t == taken[Len(taken)]
             words == IF v \in ISR_HAS_ERR THEN <<v>> ELSE <<0, v>>
  <1>1. Pushing(Stub(v), isr_common, words) /\ eip = Stub(v)
    BY DEF StubRuns, Pushing, At
  <1>2. Stub(v) > 100 /\ Stub(v) \in Nat /\ v \in Int
    BY Stubs DEF Vectors
  <1>3. /\ Stub(v) \notin ThreadCode /\ Stub(v) \notin HandlerCode
    BY <1>2 DEF ThreadCode, HandlerCode, Saved, Restored, InHandler, Called, platform_init,
             Answered, send_syscall, isr_common, isr_handler
  <1>4. taken # <<>>
    BY <1>1, <1>3, HandlerRuns
  <1>5. t \in Record /\ t.v \in Vectors /\ t.esp \in Int /\ HandlerAt(t, eip, regs, esp, ram)
    BY <1>4, Current
  <1>6. t.v = v
    BY <1>1, <1>3, <1>5, Stubs DEF HandlerAt
  <1>7. /\ words \in Seq(Int) /\ Len(words) \in Nat /\ Len(words) <= 8
        /\ v \in ISR_HAS_ERR => Len(words) = 1 /\ words[1] = v
        /\ v \notin ISR_HAS_ERR => Len(words) = 2 /\ words[1] = 0 /\ words[2] = v
    BY <1>2
  <1> HIDE DEF words, t
  <1>8. /\ HandlerAt(t, Stub(v), regs, esp, ram')
        /\ \A i \in 1 .. Len(words) : ram'[esp - i] = words[i]
        /\ eip' = isr_common /\ esp' = esp - Len(words)
        /\ regs' = regs /\ regs' \in Regs /\ esp' \in Int /\ ram' \in Ram
        /\ UNCHANGED <<iflag, cs, tables, taken, asked, calls, happened>>
        /\ iflag' \in Int /\ cs' \in Int
    <2>1. Stub(v) \notin Saved /\ Stub(v) \notin Called
      BY <1>3 DEF HandlerCode, Saved, InHandler
    <2> QED BY <1>1, <1>4, <1>7, <2>1, HandlerPushes DEF t
  <1>9. /\ Left(t, ram') /\ regs' = t.regs
        /\ v \in HasErrorCode => esp = t.esp - 4 /\ ram'[t.esp - 4] = t.error
        /\ v \notin HasErrorCode => esp = t.esp - 3 /\ t.error = 0
    <2>1. Used(v, Stub(v)) = IF v \in HasErrorCode THEN 4 ELSE 3
      BY DEF Used
    <2>2. /\ esp = t.esp - Used(v, Stub(v)) /\ Left(t, ram') /\ regs = t.regs
          /\ esp <= t.esp - 4 => ram'[t.esp - 4] = t.error
      BY <1>6, <1>8 DEF HandlerAt
    <2>3. v \notin HasErrorCode => t.error = 0
      BY <1>5, <1>6 DEF Record
    <2> QED BY <1>5, <1>8, <2>1, <2>2, <2>3
  <1>10. esp' = t.esp - 5 /\ ram'[t.esp - 4] = t.error /\ ram'[t.esp - 5] = v
    <2>1. CASE v \in HasErrorCode
      <3>1. Len(words) = 1 /\ words[1] = v
        BY <1>7, <2>1 DEF HasErrorCode, ISR_HAS_ERR
      <3>2. ram'[esp - 1] = v
        BY <1>8, <3>1
      <3> QED BY <1>5, <1>8, <1>9, <2>1, <3>1, <3>2
    <2>2. CASE v \notin HasErrorCode
      <3>1. Len(words) = 2 /\ words[1] = 0 /\ words[2] = v
        BY <1>7, <2>2 DEF HasErrorCode, ISR_HAS_ERR
      <3>2. ram'[esp - 1] = 0 /\ ram'[esp - 2] = v
        BY <1>8, <3>1
      <3> QED BY <1>5, <1>8, <1>9, <2>2, <3>1, <3>2
    <2> QED BY <2>1, <2>2
  <1>11. HandlerAt(t, eip', regs', esp', ram')
    <2>1. isr_common # Stub(t.v)
      BY <1>2, <1>6 DEF isr_common
    <2> QED BY <1>6, <1>8, <1>9, <1>10, <2>1
         DEF HandlerAt, HandlerCode, Used, Saved, Served, InHandler, Called, Restored,
             isr_common, isr_handler
  <1> QED BY <1>4, <1>8, <1>11, HandlerStep DEF t, isr_common

(* pusha saves the registers of the interrupted code. *)
LEMMA PushAllStep ==
  ASSUME EntryInv, PushAll
  PROVE  EntryInv'
  <1> DEFINE t == taken[Len(taken)]
             words == [i \in 1 .. 8 |-> IF PushOrder[i] = "esp" THEN esp ELSE regs[PushOrder[i]]]
  <1>1. Pushing(isr_common, isr_common + 1, words) /\ eip = isr_common
    BY DEF PushAll, Pushing, At
  <1>2. taken # <<>>
    BY <1>1, HandlerRuns DEF ThreadCode, platform_init, Answered, send_syscall, isr_common
  <1>3. t \in Record /\ t.v \in Vectors /\ t.esp \in Int
    BY <1>2, Current
  <1>4. regs \in Regs /\ esp \in Int
    BY DEF EntryInv, Types
  <1>5. /\ words[1] = regs["eax"] /\ words[2] = regs["ecx"] /\ words[3] = regs["edx"]
        /\ words[4] = regs["ebx"] /\ words[5] = esp /\ words[6] = regs["ebp"]
        /\ words[7] = regs["esi"] /\ words[8] = regs["edi"]
    BY DEF PushOrder
  <1>6. words \in Seq(Int) /\ Len(words) = 8
    <2>1. \A r \in Registers : regs[r] \in Int
      BY <1>4 DEF Regs
    <2>2. \A i \in 1 .. 8 : words[i] \in Int
      BY <1>4, <1>5, <2>1 DEF Registers
    <2>3. words = [i \in 1 .. 8 |-> words[i]]
      OBVIOUS
    <2> HIDE DEF words
    <2>4. words \in [1 .. 8 -> Int]
      BY <2>2, <2>3
    <2>5. words \in Seq(Int) /\ DOMAIN words = 1 .. 8
      BY <2>4, SeqDef
    <2> QED BY <2>5
  <1> HIDE DEF words, t
  <1>7. /\ HandlerAt(t, isr_common, regs, esp, ram')
        /\ \A i \in 1 .. 8 : ram'[esp - i] = words[i]
        /\ eip' = isr_common + 1 /\ esp' = esp - 8
        /\ regs' = regs /\ regs' \in Regs /\ esp' \in Int /\ ram' \in Ram
        /\ UNCHANGED <<iflag, cs, tables, taken, asked, calls, happened>>
        /\ iflag' \in Int /\ cs' \in Int
    <2>1. isr_common \notin Saved /\ isr_common \notin Called
      BY DEF Saved, InHandler, Called, isr_common, isr_handler
    <2>2. Len(words) <= 8
      BY <1>6
    <2> QED BY <1>1, <1>2, <1>6, <2>1, <2>2, HandlerPushes DEF t
  <1>8. isr_common # Stub(t.v) /\ isr_common + 1 # Stub(t.v)
    BY <1>3, Stubs DEF isr_common
  <1>9. /\ esp = t.esp - 5 /\ Left(t, ram') /\ regs' = t.regs
        /\ ram'[t.esp - 4] = t.error /\ ram'[t.esp - 5] = t.v
    BY <1>3, <1>7, <1>8
       DEF HandlerAt, Used, Saved, InHandler, Called, isr_common, isr_handler
  <1>10. Pushes(t, ram') /\ ram'[t.esp - 6] = t.regs["eax"]
    <2>1. \A i \in 1 .. 8 : ram'[t.esp - 5 - i] = words[i]
      BY <1>7, <1>9
    <2>2. /\ ram'[t.esp - 6] = words[1] /\ ram'[t.esp - 7] = words[2]
          /\ ram'[t.esp - 8] = words[3] /\ ram'[t.esp - 9] = words[4]
          /\ ram'[t.esp - 11] = words[6] /\ ram'[t.esp - 12] = words[7]
          /\ ram'[t.esp - 13] = words[8]
      BY <1>3, <2>1
    <2> QED BY <1>5, <1>7, <1>9, <2>2 DEF Pushes
  <1>11. HandlerAt(t, eip', regs', esp', ram')
    BY <1>3, <1>7, <1>8, <1>9, <1>10
       DEF HandlerAt, HandlerCode, Used, Saved, Served, InHandler, Called, Restored,
           isr_common, isr_handler
  <1> QED BY <1>2, <1>7, <1>11, HandlerStep DEF t, isr_common

(* push esp: the address of the frame. *)
LEMMA PushFrameStep ==
  ASSUME EntryInv, PushFrame
  PROVE  EntryInv'
  <1> DEFINE t == taken[Len(taken)]
             words == <<esp>>
  <1>1. Pushing(isr_common + 1, isr_common + 2, words) /\ eip = isr_common + 1
    BY DEF PushFrame, Pushing, At
  <1>2. taken # <<>>
    BY <1>1, HandlerRuns DEF ThreadCode, platform_init, Answered, send_syscall, isr_common
  <1>3. t \in Record /\ t.v \in Vectors /\ t.esp \in Int
    BY <1>2, Current
  <1>4. words \in Seq(Int) /\ Len(words) = 1 /\ words[1] = esp
    BY DEF EntryInv, Types
  <1> HIDE DEF words, t
  <1>5. /\ HandlerAt(t, isr_common + 1, regs, esp, ram')
        /\ \A i \in 1 .. 1 : ram'[esp - i] = words[i]
        /\ eip' = isr_common + 2 /\ esp' = esp - 1
        /\ regs' = regs /\ regs' \in Regs /\ esp' \in Int /\ ram' \in Ram
        /\ UNCHANGED <<iflag, cs, tables, taken, asked, calls, happened>>
        /\ iflag' \in Int /\ cs' \in Int
    <2>1. isr_common + 1 \notin Called
      BY DEF Called, isr_common, isr_handler
    <2>2. Len(words) <= 8 /\ (isr_common + 1 \notin Saved \/ Len(words) = 1) /\ words \in Seq(Int)
      BY <1>4
    <2>3. /\ HandlerAt(t, isr_common + 1, regs, esp, ram')
          /\ \A i \in 1 .. Len(words) : ram'[esp - i] = words[i]
          /\ eip' = isr_common + 2 /\ esp' = esp - Len(words)
          /\ regs' = regs /\ regs' \in Regs /\ esp' \in Int /\ ram' \in Ram
          /\ UNCHANGED <<iflag, cs, tables, taken, asked, calls, happened>>
          /\ iflag' \in Int /\ cs' \in Int
      BY <1>1, <1>2, <2>1, <2>2, HandlerPushes DEF t
    <2> QED BY <1>4, <2>3
  <1>6. ram'[esp - 1] = esp
    BY <1>4, <1>5
  <1>7. isr_common + 1 # Stub(t.v) /\ isr_common + 2 # Stub(t.v)
    BY <1>3, Stubs DEF isr_common
  <1>8. HandlerAt(t, eip', regs', esp', ram')
    BY <1>3, <1>5, <1>6, <1>7
       DEF HandlerAt, HandlerCode, Used, Saved, Served, InHandler, Called, Restored,
           isr_common, isr_handler
  <1> QED BY <1>2, <1>5, <1>8, HandlerStep DEF t, isr_common

(* call isr_handler *)
LEMMA CallHandlerStep ==
  ASSUME EntryInv, CallHandler
  PROVE  EntryInv'
  <1> DEFINE t == taken[Len(taken)]
             words == <<isr_common + 3>>
  <1>1. Pushing(isr_common + 2, isr_handler, words) /\ eip = isr_common + 2
    BY DEF CallHandler, Pushing, At
  <1>2. taken # <<>>
    BY <1>1, HandlerRuns DEF ThreadCode, platform_init, Answered, send_syscall, isr_common
  <1>3. t \in Record /\ t.v \in Vectors /\ t.esp \in Int
    BY <1>2, Current
  <1>4. words \in Seq(Int) /\ Len(words) = 1 /\ words[1] = isr_common + 3
    BY DEF isr_common
  <1> HIDE DEF words, t
  <1>5. /\ HandlerAt(t, isr_common + 2, regs, esp, ram')
        /\ \A i \in 1 .. 1 : ram'[esp - i] = words[i]
        /\ eip' = isr_handler /\ esp' = esp - 1
        /\ regs' = regs /\ regs' \in Regs /\ esp' \in Int /\ ram' \in Ram
        /\ UNCHANGED <<iflag, cs, tables, taken, asked, calls, happened>>
        /\ iflag' \in Int /\ cs' \in Int
    <2>1. isr_common + 2 \notin Called
      BY DEF Called, isr_common, isr_handler
    <2>2. Len(words) <= 8
      BY <1>4
    <2> QED BY <1>1, <1>2, <1>4, <2>1, <2>2, HandlerPushes DEF t
  <1>6. ram'[esp - 1] = isr_common + 3
    BY <1>4, <1>5
  <1>7. isr_common + 2 # Stub(t.v) /\ isr_handler # Stub(t.v)
    BY <1>3, Stubs DEF isr_common, isr_handler
  <1>8. HandlerAt(t, eip', regs', esp', ram')
    BY <1>3, <1>5, <1>6, <1>7
       DEF HandlerAt, HandlerCode, Used, Saved, Served, InHandler, Called, Restored,
           isr_common, isr_handler
  <1> QED BY <1>2, <1>5, <1>8, HandlerStep DEF t, isr_handler

(* Instructions of a handler that drop words. *)
LEMMA HandlerDrops ==
  ASSUME EntryInv, NEW address, NEW next \in Int, NEW words \in Int,
         Dropping(address, next, words), address \in HandlerCode
  PROVE  LET t == taken[Len(taken)]
         IN /\ taken # <<>> /\ HandlerAt(t, address, regs, esp, ram)
            /\ eip = address
            /\ t \in Record /\ t.v \in Vectors /\ t.esp \in Int /\ address # Stub(t.v)
            /\ HandlerAt(t, next, regs, esp + words, ram) => EntryInv'
  <1> DEFINE t == taken[Len(taken)]
  <1>1. /\ eip = address /\ eip' = next /\ esp' = esp + words
        /\ UNCHANGED <<regs, iflag, cs, ram, tables, taken, asked, calls, happened>>
    BY DEF Dropping, At, others
  <1>2. taken # <<>>
    BY <1>1, HandlerRuns DEF ThreadCode, platform_init, Answered, send_syscall, isr_common,
          isr_handler, HandlerCode, Saved, InHandler, Called, Restored
  <1>3. t \in Record /\ t.v \in Vectors /\ t.esp \in Int /\ HandlerAt(t, eip, regs, esp, ram)
    BY <1>2, Current
  <1>4. address # Stub(t.v)
    BY <1>3, Stubs DEF isr_common, isr_handler, HandlerCode, Saved, InHandler, Called, Restored
  <1>5. regs \in Regs /\ iflag \in Int /\ cs \in Int /\ ram \in Ram /\ esp \in Int
    BY DEF EntryInv, Types
  <1>6. regs' \in Regs /\ iflag' \in Int /\ cs' \in Int /\ ram' \in Ram /\ esp' \in Int /\ eip' \in Int
    BY <1>1, <1>5
  <1>7. ASSUME HandlerAt(t, next, regs, esp + words, ram) PROVE EntryInv'
    <2>1. HandlerAt(t, eip', regs', esp', ram')
      BY <1>1, <1>7
    <2> QED BY <1>1, <1>2, <1>6, <2>1, HandlerStep
  <1> QED BY <1>1, <1>2, <1>3, <1>4, <1>7

(* isr_handler returns to isr_common. *)
LEMMA HandlerReturnsStep ==
  ASSUME EntryInv, HandlerReturns
  PROVE  EntryInv'
  <1> DEFINE t == taken[Len(taken)]
  <1>1. eip = isr_handler + 1 /\ isr_handler + 1 \in HandlerCode
    BY DEF HandlerReturns, Dropping, At, HandlerCode, Saved, InHandler, Called
  <1>2. ram[esp] = isr_common + 3 /\ isr_common + 3 \in Int
    <2>1. taken # <<>>
      BY <1>1, HandlerRuns DEF ThreadCode, platform_init, Answered, send_syscall, isr_handler
    <2>2. t \in Record /\ t.v \in Vectors /\ t.esp \in Int /\ HandlerAt(t, eip, regs, esp, ram)
      BY <2>1, Current
    <2>3. isr_handler + 1 # Stub(t.v)
      BY <2>2, Stubs DEF isr_handler
    <2> QED BY <1>1, <2>2, <2>3 DEF HandlerAt, Used, Called, isr_common
  <1>3. Dropping(isr_handler + 1, isr_common + 3, 1)
    BY <1>2 DEF HandlerReturns
  <1>4. /\ HandlerAt(t, isr_handler + 1, regs, esp, ram)
        /\ t \in Record /\ t.v \in Vectors /\ t.esp \in Int /\ isr_handler + 1 # Stub(t.v)
        /\ HandlerAt(t, isr_common + 3, regs, esp + 1, ram) => EntryInv'
    BY <1>1, <1>2, <1>3, HandlerDrops
  <1>5. isr_common + 3 # Stub(t.v)
    BY <1>4, Stubs DEF isr_common
  <1> HIDE DEF t
  <1>6. HandlerAt(t, isr_common + 3, regs, esp + 1, ram)
    BY <1>4, <1>5
       DEF HandlerAt, HandlerCode, Used, Saved, Served, InHandler, Called, Restored,
           isr_common, isr_handler
  <1> QED BY <1>4, <1>6

(* add esp, 4 *)
LEMMA DropArgumentStep ==
  ASSUME EntryInv, DropArgument
  PROVE  EntryInv'
  <1> DEFINE t == taken[Len(taken)]
  <1>1. Dropping(isr_common + 3, isr_common + 4, 1) /\ isr_common + 3 \in HandlerCode
    BY DEF DropArgument, HandlerCode, Saved, InHandler
  <1>2. isr_common + 4 \in Int
    BY DEF isr_common
  <1>4. /\ HandlerAt(t, isr_common + 3, regs, esp, ram)
        /\ t \in Record /\ t.v \in Vectors /\ t.esp \in Int /\ isr_common + 3 # Stub(t.v)
        /\ HandlerAt(t, isr_common + 4, regs, esp + 1, ram) => EntryInv'
    BY <1>1, <1>2, HandlerDrops
  <1>5. isr_common + 4 # Stub(t.v)
    BY <1>4, Stubs DEF isr_common
  <1> HIDE DEF t
  <1>6. HandlerAt(t, isr_common + 4, regs, esp + 1, ram)
    BY <1>4, <1>5
       DEF HandlerAt, HandlerCode, Used, Saved, Served, InHandler, Called, Restored,
           isr_common, isr_handler
  <1> QED BY <1>4, <1>6

(* add esp, 8: the vector and the error code. *)
LEMMA DropNumberStep ==
  ASSUME EntryInv, DropNumber
  PROVE  EntryInv'
  <1> DEFINE t == taken[Len(taken)]
  <1>1. Dropping(isr_common + 5, isr_common + 6, 2) /\ isr_common + 5 \in HandlerCode
    BY DEF DropNumber, HandlerCode, Restored
  <1>2. isr_common + 6 \in Int
    BY DEF isr_common
  <1>4. /\ HandlerAt(t, isr_common + 5, regs, esp, ram)
        /\ t \in Record /\ t.v \in Vectors /\ t.esp \in Int /\ isr_common + 5 # Stub(t.v)
        /\ HandlerAt(t, isr_common + 6, regs, esp + 2, ram) => EntryInv'
    BY <1>1, <1>2, HandlerDrops
  <1>5. isr_common + 6 # Stub(t.v)
    BY <1>4, Stubs DEF isr_common
  <1> HIDE DEF t
  <1>6. HandlerAt(t, isr_common + 6, regs, esp + 2, ram)
    BY <1>4, <1>5
       DEF HandlerAt, HandlerCode, Used, Saved, Served, InHandler, Called, Restored,
           isr_common, isr_handler
  <1> QED BY <1>4, <1>6

(* Where pusha has pushed a register. *)
LEMMA PushPlaces ==
  /\ (CHOOSE i \in 1 .. 8 : PushOrder[i] = "eax") = 1
  /\ (CHOOSE i \in 1 .. 8 : PushOrder[i] = "ecx") = 2
  /\ (CHOOSE i \in 1 .. 8 : PushOrder[i] = "edx") = 3
  /\ (CHOOSE i \in 1 .. 8 : PushOrder[i] = "ebx") = 4
  /\ (CHOOSE i \in 1 .. 8 : PushOrder[i] = "ebp") = 6
  /\ (CHOOSE i \in 1 .. 8 : PushOrder[i] = "esi") = 7
  /\ (CHOOSE i \in 1 .. 8 : PushOrder[i] = "edi") = 8
  <1>1. /\ PushOrder[1] = "eax" /\ PushOrder[2] = "ecx" /\ PushOrder[3] = "edx"
        /\ PushOrder[4] = "ebx" /\ PushOrder[5] = "esp" /\ PushOrder[6] = "ebp"
        /\ PushOrder[7] = "esi" /\ PushOrder[8] = "edi"
    BY DEF PushOrder
  <1>2. /\ \A i \in 1 .. 8 : PushOrder[i] = "eax" <=> i = 1
        /\ \A i \in 1 .. 8 : PushOrder[i] = "ecx" <=> i = 2
        /\ \A i \in 1 .. 8 : PushOrder[i] = "edx" <=> i = 3
        /\ \A i \in 1 .. 8 : PushOrder[i] = "ebx" <=> i = 4
        /\ \A i \in 1 .. 8 : PushOrder[i] = "ebp" <=> i = 6
        /\ \A i \in 1 .. 8 : PushOrder[i] = "esi" <=> i = 7
        /\ \A i \in 1 .. 8 : PushOrder[i] = "edi" <=> i = 8
    BY <1>1
  <1> QED BY <1>2

(* popa: the registers of the interrupted code are back. *)
LEMMA PopAllStep ==
  ASSUME EntryInv, PopAll
  PROVE  EntryInv'
  <1> DEFINE t == taken[Len(taken)]
  <1>1. /\ eip = isr_common + 4 /\ eip' = isr_common + 5 /\ esp' = esp + 8
        /\ UNCHANGED <<iflag, cs, ram, tables, taken, asked, calls, happened>>
    BY DEF PopAll, At, others
  <1>2. taken # <<>>
    BY <1>1, HandlerRuns DEF ThreadCode, platform_init, Answered, send_syscall, isr_common
  <1>3. /\ t \in Record /\ t.v \in Vectors /\ t.esp \in Int /\ 15 <= t.esp
        /\ t.esp <= StackSize /\ HandlerAt(t, eip, regs, esp, ram)
    BY <1>2, Current
  <1>4. ram \in Ram /\ iflag \in Int /\ cs \in Int /\ esp \in Int /\ StackSize \in Nat
    BY InterruptEntryAssumption DEF EntryInv, Types
  <1> HIDE DEF t
  <1>5. isr_common + 4 # Stub(t.v) /\ isr_common + 5 # Stub(t.v)
    BY <1>3, Stubs DEF isr_common
  <1>6. /\ esp = t.esp - 13 /\ Left(t, ram) /\ Pushes(t, ram) /\ Eax(t, ram[t.esp - 6])
        /\ ram[t.esp - 4] = t.error /\ ram[t.esp - 5] = t.v
    BY <1>1, <1>3, <1>5
       DEF HandlerAt, Used, Saved, Served, InHandler, Called, isr_common, isr_handler
  <1>7. regs' = [r \in Registers |-> ram[esp + 8 - (CHOOSE i \in 1 .. 8 : PushOrder[i] = r)]]
    BY DEF PopAll
  <1>8. /\ regs'["eax"] = ram[t.esp - 6] /\ regs'["ecx"] = ram[t.esp - 7]
        /\ regs'["edx"] = ram[t.esp - 8] /\ regs'["ebx"] = ram[t.esp - 9]
        /\ regs'["ebp"] = ram[t.esp - 11] /\ regs'["esi"] = ram[t.esp - 12]
        /\ regs'["edi"] = ram[t.esp - 13]
    <2>1. /\ regs'["eax"] = ram[esp + 8 - 1] /\ regs'["ecx"] = ram[esp + 8 - 2]
          /\ regs'["edx"] = ram[esp + 8 - 3] /\ regs'["ebx"] = ram[esp + 8 - 4]
          /\ regs'["ebp"] = ram[esp + 8 - 6] /\ regs'["esi"] = ram[esp + 8 - 7]
          /\ regs'["edi"] = ram[esp + 8 - 8]
      BY <1>7, PushPlaces DEF Registers
    <2> QED BY <1>3, <1>6, <2>1
  <1>9. \A n \in Registers \ {"eax"} : regs'[n] = t.regs[n]
    BY <1>6, <1>8 DEF Registers, Pushes
  <1>10. regs' \in Regs
    <2>1. ASSUME NEW k \in 1 .. 15 PROVE ram[t.esp - k] \in Int
      <3>1. t.esp - k \in 0 .. StackSize - 1
        BY <1>3, <1>4
      <3> QED BY <1>4, <3>1 DEF Ram
    <2>2. \A r \in Registers : regs'[r] \in Int
      BY <1>8, <2>1 DEF Registers
    <2>3. regs' = [r \in Registers |-> regs'[r]]
      BY <1>7
    <2> QED BY <2>2, <2>3 DEF Regs
  <1>11. HandlerAt(t, eip', regs', esp', ram')
    BY <1>1, <1>3, <1>5, <1>6, <1>8, <1>9
       DEF HandlerAt, HandlerCode, Used, Saved, Served, InHandler, Called, Restored,
           isr_common, isr_handler
  <1> QED BY <1>1, <1>2, <1>4, <1>10, <1>11, HandlerStep DEF t, isr_common

-----------------------------------------------------------------------------
(* isr_handler. *)

(* The offsets of the fields of InterruptFrame. *)
LEMMA FrameFields ==
  ASSUME NEW frame \in Int
  PROVE  /\ Address(frame, "edi") = frame /\ Address(frame, "esi") = frame + 1
         /\ Address(frame, "ebp") = frame + 2 /\ Address(frame, "ebx") = frame + 4
         /\ Address(frame, "edx") = frame + 5 /\ Address(frame, "ecx") = frame + 6
         /\ Address(frame, "eax") = frame + 7
         /\ Address(frame, "interrupt_number") = frame + 8
         /\ Address(frame, "error_code") = frame + 9 /\ Address(frame, "eip") = frame + 10
         /\ Address(frame, "cs") = frame + 11 /\ Address(frame, "eflags") = frame + 12
  <1> DEFINE F == InterruptFrame
  <1>1. /\ F[1] = "edi" /\ F[2] = "esi" /\ F[3] = "ebp" /\ F[4] = "esp_dummy" /\ F[5] = "ebx"
        /\ F[6] = "edx" /\ F[7] = "ecx" /\ F[8] = "eax" /\ F[9] = "interrupt_number"
        /\ F[10] = "error_code" /\ F[11] = "eip" /\ F[12] = "cs" /\ F[13] = "eflags"
    BY DEF InterruptFrame
  <1>2. ASSUME NEW k \in 1 .. 13
        PROVE  Address(frame, F[k]) = frame + k - 1
    <2>1. \A i \in 1 .. 13 : F[i] = F[k] => i = k
      BY <1>1
    <2>2. (CHOOSE i \in 1 .. 13 : F[i] = F[k]) = k
      BY <2>1
    <2> QED BY <2>2 DEF Address
  <1>3. /\ Address(frame, F[1]) = frame /\ Address(frame, F[2]) = frame + 1
        /\ Address(frame, F[3]) = frame + 2 /\ Address(frame, F[5]) = frame + 4
        /\ Address(frame, F[6]) = frame + 5 /\ Address(frame, F[7]) = frame + 6
        /\ Address(frame, F[8]) = frame + 7 /\ Address(frame, F[9]) = frame + 8
        /\ Address(frame, F[10]) = frame + 9 /\ Address(frame, F[11]) = frame + 10
        /\ Address(frame, F[12]) = frame + 11 /\ Address(frame, F[13]) = frame + 12
    <2> HIDE DEF F
    <2>1. \A k \in 1 .. 13 : Address(frame, F[k]) = frame + k - 1
      BY <1>2
    <2> QED BY <2>1
  <1> HIDE DEF F
  <1> QED BY <1>1, <1>3

(* When isr_handler is entered its argument is a frame that says what happened. *)
LEMMA FrameSays ==
  ASSUME NEW t \in Record, NEW r, HandlerAt(t, isr_handler, r, esp, ram)
  PROVE  /\ esp = t.esp - 15 /\ ram[esp + 1] = t.esp - 13
         /\ LET frame == ram[esp + 1]
            IN /\ frame \in Int
               /\ Field(frame, "interrupt_number") = t.v
               /\ Field(frame, "error_code") = t.error
               /\ \A n \in Registers : Field(frame, n) = t.regs[n]
               /\ Field(frame, "eip") = t.eip
               /\ Field(frame, "cs") = t.cs
               /\ Field(frame, "eflags") = t.iflag
               /\ Address(frame, "eax") = t.esp - 6
  <1>1. t.esp \in Int /\ t.v \in Vectors
    BY DEF Record
  <1>2. isr_handler # Stub(t.v)
    BY <1>1, Stubs DEF isr_handler
  <1>3. /\ esp = t.esp - 15 /\ Left(t, ram) /\ Pushes(t, ram) /\ ram[t.esp - 4] = t.error
        /\ ram[t.esp - 5] = t.v /\ ram[t.esp - 6] = t.regs["eax"] /\ ram[t.esp - 14] = t.esp - 13
    BY <1>1, <1>2
       DEF HandlerAt, Used, Saved, Served, InHandler, Called, isr_common, isr_handler
  <1>4. PICK frame \in Int : frame = t.esp - 13
    BY <1>1
  <1>5. ram[esp + 1] = frame
    BY <1>1, <1>3, <1>4
  <1>6. /\ Field(frame, "edi") = ram[t.esp - 13] /\ Field(frame, "esi") = ram[t.esp - 12]
        /\ Field(frame, "ebp") = ram[t.esp - 11] /\ Field(frame, "ebx") = ram[t.esp - 9]
        /\ Field(frame, "edx") = ram[t.esp - 8] /\ Field(frame, "ecx") = ram[t.esp - 7]
        /\ Field(frame, "eax") = ram[t.esp - 6] /\ Address(frame, "eax") = t.esp - 6
        /\ Field(frame, "interrupt_number") = ram[t.esp - 5]
        /\ Field(frame, "error_code") = ram[t.esp - 4] /\ Field(frame, "eip") = ram[t.esp - 3]
        /\ Field(frame, "cs") = ram[t.esp - 2] /\ Field(frame, "eflags") = ram[t.esp - 1]
    BY <1>1, <1>4, FrameFields DEF Field
  <1>7. \A n \in Registers : Field(frame, n) = t.regs[n]
    BY <1>3, <1>6 DEF Pushes, Registers
  <1> QED BY <1>3, <1>4, <1>5, <1>6, <1>7 DEF Left

(* While a handler runs the gates are there, and only int 0x80 gets to syscall_handler. *)
LEMMA SetUpInHandler ==
  ASSUME EntryInv, taken # <<>>
  PROVE  /\ gdtr = g_GDT /\ idtr = Gates
         /\ \A v \in Vectors : v # 128 => handlers[v] # "syscall_handler"
  <1>1. Where \notin {0, 1}
    BY DEF EntryInv, SetUp
  <1> QED BY <1>1 DEF EntryInv, SetUp

(* Only the outermost handler may be that of a system call. *)
LEMMA OnlyOutermost ==
  ASSUME EntryInv, NEW n \in Nat, n = Len(taken), n >= 2
  PROVE  taken[n].v # 128
  <1>1. n - 1 \in 1 .. (n - 1) /\ (n - 1) + 1 = n
    OBVIOUS
  <1>2. \A k \in 1 .. (n - 1) : taken[k + 1].v # 128
    BY DEF EntryInv, Outer
  <1>3. PICK m : m = n - 1
    OBVIOUS
  <1>4. m \in 1 .. (n - 1) /\ m + 1 = n
    BY <1>1, <1>3
  <1>5. taken[m + 1].v # 128
    BY <1>2, <1>4
  <1> QED BY <1>4, <1>5

(* The handler of a system call was asked by the thread, and is innermost. *)
LEMMA SyscallInHandler ==
  ASSUME EntryInv, taken # <<>>, taken[Len(taken)].v = 128
  PROVE  LET t == taken[Len(taken)]
         IN /\ Len(taken) = 1 /\ AsksAt(t.eip, t.regs, t.esp, t.ram)
            /\ handlers[128] = "syscall_handler"
            /\ syscall_table = [n \in 0 .. Byte - 1 |->
                                  CASE n = 0 -> "sys_read" [] n = 1 -> "sys_write"
                                    [] OTHER -> "sys_default"]
  <1>1. PICK n \in Nat \ {0} : n = Len(taken)
    BY Current
  <1>2. Len(taken) = 1
    <2>1. taken[n].v = 128
      BY <1>1
    <2>2. n = 1 \/ n >= 2
      BY <1>1
    <2> QED BY <1>1, <2>1, <2>2, OnlyOutermost
  <1>3. AsksAt(taken[1].eip, taken[1].regs, taken[1].esp, taken[1].ram)
    BY <1>2 DEF EntryInv, Thread0
  <1>4. Where \notin 0 .. 3
    BY <1>3 DEF Where, AsksAt, send_syscall
  <1> QED BY <1>2, <1>3, <1>4 DEF EntryInv, SetUp

(* syscall_handler leaves the result of the call that was asked for. *)
LEMMA SyscallResult ==
  ASSUME EntryInv, taken # <<>>, taken[Len(taken)].v = 128, NEW frame,
         Field(frame, "eax") = taken[Len(taken)].regs["eax"],
         Field(frame, "ebx") = taken[Len(taken)].regs["ebx"],
         syscall_handler(frame)
  PROVE  \E result \in Answer : /\ ram' = [ram EXCEPT ![Address(frame, "eax")] = result]
                                /\ result \in Int
  <1> DEFINE t == taken[Len(taken)]
             number == asked.number % Byte
  <1>1. AsksAt(t.eip, t.regs, t.esp, t.ram)
    BY SyscallInHandler
  <1>2. t.regs["eax"] = asked.number /\ t.regs["ebx"] = asked.arg1
    BY <1>1 DEF AsksAt
  <1>3. asked.number \in Nat /\ asked.arg1 \in Arguments
    BY <1>1 DEF AsksAt, ThreadStack, InCall, send_syscall
  <1>4. Byte \in Nat \ {0} /\ Word \in Nat
    BY Widths
  <1>5. number \in 0 .. Byte - 1
    BY <1>3, <1>4, Remainder
  <1>6. PICK result \in Results(syscall_table[number], asked.arg1) :
          ram' = [ram EXCEPT ![Address(frame, "eax")] = result]
    BY <1>2 DEF syscall_handler
  <1> HIDE DEF number
  <1>7. syscall_table[number] = IF number = 0 THEN "sys_read"
                                ELSE IF number = 1 THEN "sys_write" ELSE "sys_default"
    BY <1>5, SyscallInHandler
  <1>8. Results(syscall_table[number], asked.arg1)
          = IF number = 0 THEN 0 .. Count[asked.arg1]
            ELSE IF number = 1 THEN {Count[asked.arg1]} ELSE {MinusOne}
    BY <1>7 DEF Results
  <1>9. Count[asked.arg1] \in Nat /\ MinusOne \in Int
    <2>1. Count \in [Arguments -> Nat]
      BY InterruptEntryAssumption
    <2> QED BY <1>3, <1>4, <2>1 DEF MinusOne
  <1>10. result \in Answer
    BY <1>6, <1>8 DEF Answer, number
  <1>11. result \in Int
    BY <1>6, <1>8, <1>9
  <1> QED BY <1>6, <1>10, <1>11

(* isr_handler changes nothing of the frame but the eax of a system call. *)
LEMMA DispatchStep ==
  ASSUME EntryInv, Dispatch
  PROVE  EntryInv'
  <1> DEFINE t == taken[Len(taken)]
             frame == ram[esp + 1]
             handler == handlers[Field(frame, "interrupt_number")]
  <1>1. /\ eip = isr_handler /\ eip' = isr_handler + 1 /\ regs' = Clobbered
        /\ UNCHANGED <<esp, iflag, cs, tables, taken, asked, calls, happened>>
        /\ \/ handler = "syscall_handler" /\ syscall_handler(frame)
           \/ handler # "syscall_handler" /\ ram' = ram
    BY DEF Dispatch, At
  <1>2. taken # <<>>
    BY <1>1, HandlerRuns DEF ThreadCode, platform_init, Answered, send_syscall, isr_handler
  <1>3. /\ t \in Record /\ t.v \in Vectors /\ t.esp \in Int /\ 15 <= t.esp
        /\ t.esp <= StackSize /\ HandlerAt(t, isr_handler, regs, esp, ram)
    BY <1>1, <1>2, Current
  <1>4. /\ ram \in Ram /\ iflag \in Int /\ cs \in Int /\ esp \in Int /\ StackSize \in Nat
        /\ regs \in Regs
    BY InterruptEntryAssumption DEF EntryInv, Types
  <1>5. /\ frame \in Int /\ Field(frame, "interrupt_number") = t.v
        /\ \A n \in Registers : Field(frame, n) = t.regs[n]
        /\ Address(frame, "eax") = t.esp - 6
    <2> HIDE DEF t
    <2> QED BY <1>3, FrameSays
  <1>6. Clobbered \in Regs
    BY <1>4 DEF Clobbered, Regs, Registers
  <1>7. /\ ram' \in Ram /\ Eax(t, ram'[t.esp - 6])
        /\ \A a \in 0 .. StackSize - 1 : a # t.esp - 6 => ram'[a] = ram[a]
    <2>1. CASE t.v = 128
      <3>1. syscall_handler(frame)
        BY <1>1, <1>2, <1>5, <2>1, SyscallInHandler
      <3>2. Field(frame, "eax") = t.regs["eax"] /\ Field(frame, "ebx") = t.regs["ebx"]
        BY <1>5 DEF Registers
      <3>3. PICK result \in Answer : ram' = [ram EXCEPT ![t.esp - 6] = result] /\ result \in Int
        BY <1>2, <1>5, <2>1, <3>1, <3>2, SyscallResult
      <3>4. t.esp - 6 \in 0 .. StackSize - 1
        BY <1>3, <1>4
      <3> QED BY <1>4, <2>1, <3>3, <3>4 DEF Ram, Eax
    <2>2. CASE t.v # 128
      <3>1. ram' = ram
        BY <1>1, <1>2, <1>3, <1>5, <2>2, SetUpInHandler
      <3>2. ram[t.esp - 6] = t.regs["eax"]
        BY <1>3 DEF HandlerAt, Saved, Served, InHandler, Called, isr_common, isr_handler
      <3> QED BY <1>4, <2>2, <3>1, <3>2 DEF Eax
    <2> QED BY <2>1, <2>2
  <1> HIDE DEF t, frame, handler
  <1>8. isr_handler # Stub(t.v) /\ isr_handler + 1 # Stub(t.v)
    BY <1>3, Stubs DEF isr_handler
  <1>9. /\ esp = t.esp - 15 /\ Left(t, ram) /\ Pushes(t, ram) /\ ram[t.esp - 4] = t.error
        /\ ram[t.esp - 5] = t.v /\ ram[t.esp - 14] = t.esp - 13
        /\ ram[t.esp - 15] = isr_common + 3
    BY <1>3, <1>8
       DEF HandlerAt, Used, Saved, Served, InHandler, Called, isr_common, isr_handler
  <1>10. \A k \in 1 .. 15 : k # 6 => ram'[t.esp - k] = ram[t.esp - k]
    <2> TAKE k \in 1 .. 15
    <2>1. t.esp - k \in 0 .. StackSize - 1 /\ (k # 6 => t.esp - k # t.esp - 6)
      BY <1>3, <1>4
    <2> QED BY <1>7, <2>1
  <1>11. \A a \in t.esp .. StackSize - 1 : ram'[a] = ram[a]
    BY <1>3, <1>4, <1>7
  <1>12. Left(t, ram') /\ Pushes(t, ram')
    BY <1>9, <1>10, <1>11 DEF Left, Pushes
  <1>13. /\ ram'[t.esp - 4] = t.error /\ ram'[t.esp - 5] = t.v /\ ram'[t.esp - 14] = t.esp - 13
         /\ ram'[t.esp - 15] = isr_common + 3
    BY <1>9, <1>10
  <1>14. HandlerAt(t, eip', regs', esp', ram')
    BY <1>1, <1>3, <1>7, <1>8, <1>9, <1>12, <1>13
       DEF HandlerAt, HandlerCode, Used, Saved, Served, InHandler, Called, Restored,
           isr_common, isr_handler
  <1> QED BY <1>1, <1>2, <1>4, <1>6, <1>7, <1>14, HandlerStep DEF t, isr_handler

-----------------------------------------------------------------------------
(* Interrupts. *)

(* There is room on the stack for another handler. *)
LEMMA Room ==
  ASSUME EntryInv, taken = <<>> \/ happened < MaxInterrupts
  PROVE  /\ esp \in Int /\ esp <= StackSize /\ 15 <= esp
         /\ esp >= StackSize - 4 - 15 * Len(taken)
  <1>1. /\ StackSize \in Nat /\ MaxInterrupts \in Nat /\ esp \in Int /\ happened \in Nat
        /\ StackSize >= 4 + 15 * (MaxInterrupts + 1)
    BY InterruptEntryAssumption DEF EntryInv, Types
  <1>2. CASE taken = <<>>
    <2>1. esp = StackSize - Pushed(eip) /\ Pushed(eip) \in 0 .. 4
      BY <1>2 DEF EntryInv, Thread0, ThreadAt, ThreadStack, Pushed
    <2>2. Len(taken) = 0
      BY <1>2
    <2> QED BY <1>1, <2>1, <2>2
  <1>3. CASE taken # <<>>
    <2> DEFINE t == taken[Len(taken)]
    <2>1. /\ Len(taken) \in Nat \ {0} /\ t.esp \in Int /\ t.esp <= StackSize
          /\ HandlerAt(t, eip, regs, esp, ram)
      BY <1>3, Current
    <2>2. Len(taken) <= MaxInterrupts
      BY <1>1, <1>3, <2>1 DEF EntryInv, Depth
    <2>3. t.esp >= StackSize - 4 - 15 * (Len(taken) - 1)
      BY <2>1 DEF EntryInv, Depth
    <2> HIDE DEF t
    <2>4. esp = t.esp - Used(t.v, eip) /\ Used(t.v, eip) \in 3 .. 15
      <3>1. esp = t.esp - Used(t.v, eip)
        BY <2>1 DEF HandlerAt
      <3>2. Used(t.v, eip) \in 3 .. 15
        BY DEF Used
      <3> QED BY <3>1, <3>2
    <2> DEFINE n == Len(taken)
               u == Used(t.v, eip)
               b == t.esp
    <2>5. /\ n \in Nat /\ n <= MaxInterrupts /\ u \in 3 .. 15 /\ b \in Int /\ esp = b - u
          /\ b <= StackSize /\ b >= StackSize - 4 - 15 * (n - 1)
      BY <2>1, <2>2, <2>3, <2>4
    <2> HIDE DEF n, u, b
    <2>6. esp <= StackSize /\ 15 <= esp /\ esp >= StackSize - 4 - 15 * n
      BY <1>1, <2>5
    <2> QED BY <1>1, <2>6 DEF n
  <1> QED BY <1>2, <1>3

(* What the processor does, for a vector whose gate is installed. *)
LEMMA Enters ==
  ASSUME EntryInv, NEW v \in Vectors, NEW error \in Int, NEW from \in Int,
         Interrupt(v, error, from), gdtr = g_GDT, idtr = Gates, 15 <= esp, esp <= StackSize
  PROVE  \E t \in Record :
           /\ taken' = Append(taken, t)
           /\ t.v = v /\ t.eip = from /\ t.regs = regs /\ t.esp = esp /\ t.ram = ram
           /\ HandlerAt(t, eip', regs', esp', ram')
           /\ eip' \in Int /\ regs' \in Regs /\ esp' \in Int /\ ram' \in Ram
           /\ iflag' \in Int /\ cs' \in Int
  <1>1. /\ regs \in Regs /\ esp \in Int /\ iflag \in Int /\ cs \in Int /\ ram \in Ram
        /\ StackSize \in Nat
    BY InterruptEntryAssumption DEF EntryInv, Types
  <1> DEFINE r == [v |-> v, error |-> IF v \in HasErrorCode THEN error ELSE 0, eip |-> from,
                   iflag |-> iflag, cs |-> cs, regs |-> regs, esp |-> esp, ram |-> ram]
  <1>2. r \in Record
    BY <1>1 DEF Record
  <1>3. PICK t \in Record : t = r
    BY <1>2
  <1>4. /\ t.v = v /\ t.eip = from /\ t.regs = regs /\ t.esp = esp /\ t.ram = ram
        /\ t.iflag = iflag /\ t.cs = cs
        /\ v \in HasErrorCode => t.error = error
    BY <1>3
  <1>5. taken' = Append(taken, t)
    BY <1>3 DEF Interrupt
  <1>6. eip' = Stub(v) /\ cs' = GDT_CODE_SEGMENT /\ iflag' = 0 /\ regs' = regs
    BY GateLeadsToStub DEF Interrupt
  <1> DEFINE words == <<iflag, cs, from>> \o (IF v \in HasErrorCode THEN <<error>> ELSE <<>>)
  <1>7. Push(words)
    BY DEF Interrupt
  <1>8. /\ words \in Seq(Int) /\ Len(words) \in 3 .. 4
        /\ words[1] = iflag /\ words[2] = cs /\ words[3] = from
        /\ Len(words) = (IF v \in HasErrorCode THEN 4 ELSE 3)
        /\ v \in HasErrorCode => words[4] = error
    BY <1>1
  <1> HIDE DEF words, r
  <1>9. /\ esp' = esp - Len(words) /\ esp' \in Int /\ ram' \in Ram
        /\ \A a \in esp .. StackSize - 1 : ram'[a] = ram[a]
        /\ \A i \in 1 .. Len(words) : ram'[esp - i] = words[i]
    <2>1. Len(words) <= esp
      BY <1>1, <1>8
    <2> QED BY <1>1, <1>7, <1>8, <2>1, PushFacts
  <1>10. /\ ram'[esp - 1] = iflag /\ ram'[esp - 2] = cs /\ ram'[esp - 3] = from
         /\ v \in HasErrorCode => ram'[esp - 4] = error
    <2>1. 1 \in 1 .. Len(words) /\ 2 \in 1 .. Len(words) /\ 3 \in 1 .. Len(words)
      BY <1>8
    <2>2. v \in HasErrorCode => 4 \in 1 .. Len(words)
      BY <1>8
    <2>3. ram'[esp - 1] = words[1] /\ ram'[esp - 2] = words[2] /\ ram'[esp - 3] = words[3]
      BY <1>9, <2>1
    <2>4. v \in HasErrorCode => ram'[esp - 4] = words[4]
      BY <1>9, <2>2
    <2> QED BY <1>8, <2>3, <2>4
  <1>11. HandlerAt(t, Stub(v), regs, esp', ram')
    <2>1. Stub(v) > 100 /\ Stub(v) \in Nat
      BY Stubs
    <2>2. /\ Stub(v) \notin Saved /\ Stub(v) \notin InHandler /\ Stub(v) \notin Called
          /\ Stub(v) \notin Served /\ Stub(v) \notin Restored
      BY <2>1 DEF Saved, Restored, InHandler, Called, Served, isr_common, isr_handler
    <2>3. Left(t, ram')
      BY <1>4, <1>9, <1>10 DEF Left
    <2>4. esp' = t.esp - Used(t.v, Stub(v))
      BY <1>4, <1>8, <1>9 DEF Used
    <2>5. /\ esp' <= t.esp - 4 => ram'[t.esp - 4] = t.error
          /\ ~(esp' <= t.esp - 5)
      BY <1>1, <1>4, <1>8, <1>9, <1>10
    <2> QED BY <1>4, <2>2, <2>3, <2>4, <2>5 DEF HandlerAt
  <1>12. Stub(v) \in Int /\ GDT_CODE_SEGMENT \in Int
    BY Stubs DEF GDT_CODE_SEGMENT
  <1> QED BY <1>1, <1>4, <1>5, <1>6, <1>9, <1>11, <1>12

(* An interrupt starts a handler on top of what runs. *)
LEMMA InterruptStep ==
  ASSUME EntryInv, NEW v \in Vectors, NEW error \in Int, NEW from \in Int,
         Interrupt(v, error, from), Where \notin {0, 1}, UNCHANGED calls,
         \/ /\ v # 128 /\ from = eip
            /\ happened < MaxInterrupts /\ happened' = happened + 1
         \/ /\ v = 128 /\ eip = send_syscall + 3 /\ from = send_syscall + 4
            /\ happened' = happened
  PROVE  EntryInv'
  <1>1. gdtr = g_GDT /\ idtr = Gates
    <2>1. Where # 0
      OBVIOUS
    <2> QED BY <2>1 DEF EntryInv, SetUp
  <1>2. v = 128 => taken = <<>> /\ ThreadAt(eip, regs, esp, ram)
    BY ThreadRuns DEF ThreadCode, send_syscall
  <1>3. /\ esp \in Int /\ esp <= StackSize /\ 15 <= esp
        /\ esp >= StackSize - 4 - 15 * Len(taken)
    BY <1>2, Room
  <1>4. PICK t \in Record :
           /\ taken' = Append(taken, t)
           /\ t.v = v /\ t.eip = from /\ t.regs = regs /\ t.esp = esp /\ t.ram = ram
           /\ HandlerAt(t, eip', regs', esp', ram')
           /\ eip' \in Int /\ regs' \in Regs /\ esp' \in Int /\ ram' \in Ram
           /\ iflag' \in Int /\ cs' \in Int
    BY <1>1, <1>3, Enters
  <1>5. UNCHANGED <<gdtr, idtr, handlers, syscall_table, asked>>
    BY DEF Interrupt, tables
  <1>6. taken \in Seq(Record) /\ calls \in Nat /\ happened \in Nat
    BY DEF EntryInv, Types
  <1>7. PICK n \in Nat : n = Len(taken)
    BY <1>6
  <1>8. /\ taken' \in Seq(Record) /\ taken' # <<>> /\ Len(taken') = n + 1 /\ taken'[n + 1] = t
        /\ \A k \in 1 .. n : taken'[k] = taken[k]
    BY <1>4, <1>6, <1>7, AppendFacts, SMTT(30)
  <1>9. Answer' = Answer
    BY <1>5 DEF Answer
  <1>10. Types'
    BY <1>4, <1>5, <1>6, <1>8, SMTT(30) DEF EntryInv, Types
  <1>11. Innermost'
    <2>1. HandlerAt(t, eip, regs, esp, ram)'
      BY <1>4, <1>9 DEF HandlerAt, Left, Pushes, Eax
    <2>2. taken'[Len(taken')] = t
      BY <1>8
    <2> QED BY <2>1, <2>2 DEF Innermost
  <1>12. Outer'
    <2> SUFFICES ASSUME NEW k \in 1 .. n
                 PROVE  /\ HandlerAt(taken[k], taken[k + 1].eip, taken[k + 1].regs,
                                     taken[k + 1].esp, taken[k + 1].ram)'
                        /\ taken'[k + 1].v # 128
      BY <1>7, <1>8 DEF Outer
    <2>1. CASE k \in 1 .. (n - 1)
      <3>1. /\ k \in 1 .. n /\ k + 1 \in 1 .. n
        BY <2>1
      <3>2. /\ k \in 1 .. (Len(taken) - 1) /\ taken'[k] = taken[k]
            /\ taken'[k + 1] = taken[k + 1]
        BY <1>7, <1>8, <2>1, <3>1
      <3> QED BY <1>5, <3>2, OuterKept DEF EntryInv
    <2>2. CASE k = n
      <3>1. taken # <<>> /\ v # 128 /\ from = eip
        <4>1. taken # <<>>
          BY <1>7, <2>2
        <4> QED BY <1>2, <4>1
      <3>2. HandlerAt(taken[n], eip, regs, esp, ram)
        BY <1>7, <3>1, Current
      <3>3. taken'[k] = taken[n] /\ taken'[k + 1] = t
        BY <1>8, <2>2
      <3>4. HandlerAt(taken'[k], taken'[k + 1].eip, taken'[k + 1].regs, taken'[k + 1].esp,
                      taken'[k + 1].ram)
        BY <1>4, <3>1, <3>2, <3>3
      <3>5. HandlerAt(taken[k], taken[k + 1].eip, taken[k + 1].regs, taken[k + 1].esp,
                      taken[k + 1].ram)'
        BY <1>9, <3>4 DEF HandlerAt, Left, Pushes, Eax
      <3> QED BY <1>4, <3>1, <3>3, <3>5
    <2> QED BY <2>1, <2>2
  <1>13. CASE taken = <<>>
    <2>1. n = 0 /\ taken'[1] = t /\ ThreadAt(eip, regs, esp, ram)
      <3>1. n = 0
        BY <1>7, <1>13
      <3>2. n + 1 = 1
        BY <3>1
      <3> QED BY <1>8, <1>13, <3>1, <3>2 DEF EntryInv, Thread0
    <2>2. Thread0'
      <3>1. CASE v # 128
        <4>1. ThreadAt(t.eip, t.regs, t.esp, t.ram)
          BY <1>4, <2>1, <3>1
        <4>2. ThreadAt(taken[1].eip, taken[1].regs, taken[1].esp, taken[1].ram)'
          BY <1>5, <1>9, <2>1, <4>1 DEF ThreadAt, ThreadStack, Preserved
        <4> QED BY <1>4, <1>8, <2>1, <3>1, <4>2 DEF Thread0
      <3>2. CASE v = 128
        <4>1. AsksAt(t.eip, t.regs, t.esp, t.ram)
          BY <1>4, <2>1, <3>2
             DEF AsksAt, ThreadAt, ThreadStack, Preserved, Pushed, InCall, HasEbx, send_syscall,
                 Answered
        <4>2. AsksAt(taken[1].eip, taken[1].regs, taken[1].esp, taken[1].ram)'
          BY <1>5, <1>9, <2>1, <4>1 DEF AsksAt, ThreadStack, Preserved
        <4> QED BY <1>4, <1>8, <2>1, <3>2, <4>2 DEF Thread0
      <3> QED BY <3>1, <3>2
    <2>3. Depth'
      <3>1. Len(taken') = 1 /\ \A k \in 1 .. 1 : k = 1
        BY <1>8, <2>1
      <3>2. esp <= StackSize /\ esp >= StackSize - 4 /\ StackSize \in Nat
        BY <1>3, <1>7, <2>1, InterruptEntryAssumption
      <3>3. happened' \in Nat /\ happened' <= MaxInterrupts /\ MaxInterrupts \in Nat
        BY <1>6, InterruptEntryAssumption DEF EntryInv, Depth
      <3>4. \A k \in 1 .. Len(taken') :
              taken'[k].esp <= StackSize /\ taken'[k].esp >= StackSize - 4 - 15 * (k - 1)
        BY <1>3, <1>4, <2>1, <3>1, <3>2
      <3> QED BY <3>1, <3>3, <3>4 DEF Depth
    <2>4. SetUp'
      <3>1. Where' = from /\ Where = eip
        BY <1>4, <1>8, <1>13, <2>1 DEF Where
      <3>2. from \notin {0, 1} /\ (from \notin 0 .. 3 => eip \notin 0 .. 3)
        BY <3>1 DEF send_syscall
      <3> QED BY <1>1, <1>5, <3>1, <3>2 DEF EntryInv, SetUp, Gates, set_entry, g_GDT
    <2> QED BY <1>10, <1>11, <1>12, <2>2, <2>3, <2>4 DEF EntryInv
  <1>14. CASE taken # <<>>
    <2>1. n \in Nat \ {0} /\ v # 128 /\ 1 \in 1 .. n /\ taken'[1] = taken[1]
      <3>1. Len(taken) \in Nat \ {0}
        BY <1>14, Current
      <3>2. v # 128 /\ n \in Nat \ {0} /\ 1 \in 1 .. n
        BY <1>2, <1>7, <1>14, <3>1
      <3> QED BY <1>8, <3>2
    <2>2. Thread0'
      BY <1>5, <1>8, <1>9, <1>14, <2>1
         DEF EntryInv, Thread0, ThreadAt, AsksAt, ThreadStack, Preserved
    <2>3. Depth'
      <3>1. /\ happened < MaxInterrupts /\ happened' = happened + 1 /\ n <= happened + 1
            /\ \A k \in 1 .. n :
                  taken[k].esp <= StackSize /\ taken[k].esp >= StackSize - 4 - 15 * (k - 1)
        BY <1>7, <2>1 DEF EntryInv, Depth
      <3>2. /\ Len(taken') <= happened' + 1 /\ happened' <= MaxInterrupts
        BY <1>6, <1>8, <3>1, InterruptEntryAssumption
      <3>3. ASSUME NEW k \in 1 .. n + 1
            PROVE  taken'[k].esp <= StackSize /\ taken'[k].esp >= StackSize - 4 - 15 * (k - 1)
        <4>1. CASE k \in 1 .. n
          BY <1>8, <3>1, <4>1
        <4>2. CASE k = n + 1
          <5>1. k - 1 = n /\ taken'[k].esp = esp
            BY <1>4, <1>8, <4>2
          <5> QED BY <1>3, <1>7, <5>1
        <4> QED BY <4>1, <4>2
      <3> QED BY <1>8, <3>2, <3>3 DEF Depth
    <2>4. SetUp'
      BY <1>5, <1>8, <1>14, <2>1 DEF EntryInv, SetUp, Where
    <2> QED BY <1>10, <1>11, <1>12, <2>2, <2>3, <2>4 DEF EntryInv
  <1> QED BY <1>13, <1>14

(* Devices interrupt only once the gates are there, since IF is 0 before. *)
LEMMA DeviceStep ==
  ASSUME EntryInv, NEW line \in Lines, Device(line)
  PROVE  EntryInv'
  <1>1. 32 + line \in Vectors /\ 32 + line # 128
    <2>1. line \in 0 .. 15
      BY InterruptEntryAssumption
    <2> QED BY <2>1 DEF Vectors
  <1>2. Where \notin {0, 1}
    BY DEF EntryInv, SetUp, Device
  <1>3. /\ Interrupt(32 + line, 0, eip) /\ happened < MaxInterrupts /\ happened' = happened + 1
        /\ UNCHANGED calls
    BY DEF Device, Happens
  <1>4. eip \in Int
    BY DEF EntryInv, Types
  <1> QED BY <1>1, <1>2, <1>3, <1>4, InterruptStep

(* Exceptions do so anywhere. *)
LEMMA ExceptionStep ==
  ASSUME EntryInv, NEW v \in Exceptions, Exception(v)
  PROVE  EntryInv'
  <1>1. v \in Vectors /\ v # 128
    <2>1. v \in 0 .. 31
      BY InterruptEntryAssumption
    <2> QED BY <2>1 DEF Vectors
  <1>2. Where \notin {0, 1}
    BY DEF EntryInv, SetUp, Exception
  <1>3. /\ Interrupt(v, 77, eip) /\ happened < MaxInterrupts /\ happened' = happened + 1
        /\ UNCHANGED calls
    BY DEF Exception, Happens
  <1>4. eip \in Int
    BY DEF EntryInv, Types
  <1> QED BY <1>1, <1>2, <1>3, <1>4, InterruptStep

(* int 0x80 comes from send_syscall. *)
LEMMA Int80Step ==
  ASSUME EntryInv, Int80
  PROVE  EntryInv'
  <1>1. /\ eip = send_syscall + 3 /\ Interrupt(128, 0, send_syscall + 4)
        /\ UNCHANGED calls /\ happened' = happened
    BY DEF Int80
  <1>2. taken = <<>>
    BY <1>1, ThreadRuns DEF ThreadCode, send_syscall
  <1>3. Where \notin {0, 1}
    BY <1>1, <1>2 DEF Where, send_syscall
  <1>4. 128 \in Vectors /\ send_syscall + 4 \in Int
    BY DEF Vectors, send_syscall
  <1> QED BY <1>1, <1>3, <1>4, InterruptStep

(* iret gives back what the processor had when the handler was entered. *)
LEMMA IretFacts ==
  ASSUME EntryInv, Iret
  PROVE  LET t == taken[Len(taken)]
         IN /\ taken # <<>>
            /\ eip' = t.eip /\ cs' = t.cs /\ iflag' = t.iflag /\ esp' = t.esp
            /\ regs' = regs /\ ram' = ram
            /\ \A n \in Registers \ {"eax"} : regs[n] = t.regs[n]
            /\ Eax(t, regs["eax"])
            /\ \A a \in t.esp .. StackSize - 1 : ram[a] = t.ram[a]
  <1> DEFINE t == taken[Len(taken)]
  <1>1. /\ eip = isr_common + 6 /\ eip' = ram[esp] /\ cs' = ram[esp + 1]
        /\ iflag' = ram[esp + 2] /\ esp' = esp + 3 /\ regs' = regs /\ ram' = ram
    BY DEF Iret, At
  <1>2. taken # <<>>
    BY <1>1, HandlerRuns DEF ThreadCode, platform_init, Answered, send_syscall, isr_common
  <1>3. t \in Record /\ t.v \in Vectors /\ t.esp \in Int /\ HandlerAt(t, eip, regs, esp, ram)
    BY <1>2, Current
  <1> HIDE DEF t
  <1>4. isr_common + 6 # Stub(t.v)
    BY <1>3, Stubs DEF isr_common
  <1>5. /\ esp = t.esp - 3 /\ Left(t, ram) /\ Eax(t, regs["eax"])
        /\ \A n \in Registers \ {"eax"} : regs[n] = t.regs[n]
    BY <1>1, <1>3, <1>4
       DEF HandlerAt, Used, Saved, InHandler, Called, Restored, isr_common, isr_handler
  <1>6. esp + 1 = t.esp - 2 /\ esp + 2 = t.esp - 1 /\ esp + 3 = t.esp
    BY <1>3, <1>5
  <1> QED BY <1>1, <1>2, <1>5, <1>6 DEF t, Left

(* So the interrupted code goes on as if nothing had been. *)
LEMMA IretStep ==
  ASSUME EntryInv, Iret
  PROVE  EntryInv'
  <1>1. PICK t : t = taken[Len(taken)]
    OBVIOUS
  <1>2. /\ taken # <<>>
        /\ eip' = t.eip /\ cs' = t.cs /\ iflag' = t.iflag /\ esp' = t.esp
        /\ regs' = regs /\ ram' = ram
        /\ \A n \in Registers \ {"eax"} : regs[n] = t.regs[n]
        /\ Eax(t, regs["eax"])
        /\ \A a \in t.esp .. StackSize - 1 : ram[a] = t.ram[a]
    BY <1>1, IretFacts
  <1>3. /\ taken' = SubSeq(taken, 1, Len(taken) - 1)
        /\ UNCHANGED <<gdtr, idtr, handlers, syscall_table, asked, calls, happened>>
    BY DEF Iret, tables
  <1>4. t \in Record /\ t.esp \in Int /\ t.eip \in Int /\ t.iflag \in Int /\ t.cs \in Int
    <2>1. t \in Record
      BY <1>1, <1>2, Current
    <2> QED BY <2>1 DEF Record
  <1>5. /\ taken \in Seq(Record) /\ happened \in Nat /\ calls \in Nat /\ regs \in Regs
        /\ ram \in Ram
    BY DEF EntryInv, Types
  <1>6. PICK n \in Nat : n + 1 = Len(taken)
    <2>1. Len(taken) \in Nat \ {0}
      BY <1>2, Current
    <2>2. \A l \in Nat \ {0} : l - 1 \in Nat /\ (l - 1) + 1 = l
      OBVIOUS
    <2> QED BY <2>1, <2>2
  <1>7. /\ taken' \in Seq(Record) /\ Len(taken') = n /\ \A k \in 1 .. n : taken'[k] = taken[k]
    <2>1. Len(taken) - 1 = n
      BY <1>6
    <2> QED BY <1>2, <1>3, <1>5, <2>1, FrontFacts
  <1>8. Answer' = Answer
    BY <1>3 DEF Answer
  <1>9. Types'
    BY <1>2, <1>3, <1>4, <1>5, <1>7 DEF EntryInv, Types
  <1>10. Outer'
    <2> SUFFICES ASSUME NEW k \in 1 .. (n - 1)
                 PROVE  /\ HandlerAt(taken[k], taken[k + 1].eip, taken[k + 1].regs,
                                     taken[k + 1].esp, taken[k + 1].ram)'
                        /\ taken'[k + 1].v # 128
      BY <1>7 DEF Outer
    <2>1. k \in 1 .. n /\ k + 1 \in 1 .. n
      OBVIOUS
    <2>2. k \in 1 .. (Len(taken) - 1) /\ taken'[k] = taken[k] /\ taken'[k + 1] = taken[k + 1]
      BY <1>6, <1>7, <2>1
    <2> QED BY <1>3, <2>2, OuterKept DEF EntryInv
  <1>11. Depth'
    <2>1. /\ n + 1 <= happened + 1 /\ happened <= MaxInterrupts
          /\ \A k \in 1 .. n + 1 :
                taken[k].esp <= StackSize /\ taken[k].esp >= StackSize - 4 - 15 * (k - 1)
      BY <1>6 DEF EntryInv, Depth
    <2>2. \A k \in 1 .. n : k \in 1 .. n + 1
      OBVIOUS
    <2>3. n <= happened + 1
      BY <1>5, <2>1
    <2> QED BY <1>3, <1>7, <2>1, <2>2, <2>3 DEF Depth
  <1>12. t.v # 128 => regs = t.regs
    <2>1. t.v # 128 => \A r \in Registers : regs[r] = t.regs[r]
      BY <1>2 DEF Eax
    <2> QED BY <1>4, <1>5, <2>1 DEF Record, Regs
  <1>13. CASE n = 0
    <2>1. taken' = <<>> /\ t = taken[1]
      <3>1. taken' = <<>>
        BY <1>7, <1>13, EmptySeq
      <3>2. Len(taken) = 1
        BY <1>6, <1>13
      <3> QED BY <1>1, <3>1, <3>2
    <2>2. IF t.v = 128 THEN AsksAt(t.eip, t.regs, t.esp, t.ram)
          ELSE ThreadAt(t.eip, t.regs, t.esp, t.ram)
      BY <1>2, <2>1 DEF EntryInv, Thread0
    <2>3. ThreadAt(t.eip, regs, t.esp, ram)
      <3>1. ThreadStack(t.eip, t.esp, ram)
        <4>1. ThreadStack(t.eip, t.esp, t.ram)
          BY <2>2 DEF AsksAt, ThreadAt
        <4> QED BY <1>2, <4>1, ThreadKept
      <3>2. CASE t.v # 128
        BY <1>12, <2>2, <3>1, <3>2 DEF ThreadAt
      <3>3. CASE t.v = 128
        <4>1. regs["eax"] \in Answer
          BY <1>2, <3>3 DEF Eax
        <4>2. \A r \in Registers \ {"eax", "ebx"} : regs[r] = t.regs[r]
          BY <1>2
        <4>3. t.eip = send_syscall + 4 /\ Preserved(t.eip, t.regs)
          BY <2>2, <3>3 DEF AsksAt
        <4>4. Preserved(t.eip, regs)
          BY <4>2, <4>3 DEF Preserved
        <4> QED BY <3>1, <4>1, <4>3, <4>4
             DEF ThreadAt, ThreadCode, InCall, send_syscall, platform_init, Answered
      <3> QED BY <3>2, <3>3
    <2>4. Thread0'
      <3>1. ThreadAt(eip, regs, esp, ram)'
        BY <1>2, <1>3, <1>8, <2>3 DEF ThreadAt, ThreadStack, Preserved
      <3> QED BY <2>1, <3>1 DEF Thread0
    <2>5. Innermost'
      BY <2>1 DEF Innermost
    <2>6. SetUp'
      <3>1. Where' = t.eip /\ Where = t.eip
        BY <1>2, <2>1 DEF Where
      <3>2. Where \notin {0, 1}
        BY <1>2 DEF EntryInv, SetUp
      <3> QED BY <1>3, <3>1, <3>2 DEF EntryInv, SetUp
    <2> QED BY <1>9, <1>10, <1>11, <2>4, <2>5, <2>6 DEF EntryInv
  <1>14. CASE n # 0
    <2>1. /\ n \in 1 .. n /\ 1 \in 1 .. n /\ n \in 1 .. (Len(taken) - 1) /\ taken' # <<>>
          /\ taken[n + 1] = t /\ taken'[n] = taken[n] /\ taken'[1] = taken[1]
      <3>1. n \in 1 .. n /\ 1 \in 1 .. n /\ n \in 1 .. (Len(taken) - 1)
        BY <1>6, <1>14
      <3>2. taken' # <<>>
        BY <1>7, <1>14
      <3> QED BY <1>1, <1>6, <1>7, <3>1, <3>2
    <2>2. HandlerAt(taken[n], t.eip, t.regs, t.esp, t.ram) /\ t.v # 128
      BY <2>1 DEF EntryInv, Outer
    <2>3. taken[n] \in Record /\ taken[n].esp <= StackSize
      <3>1. n \in 1 .. Len(taken)
        BY <1>6, <2>1
      <3> QED BY <1>5, <3>1 DEF EntryInv, Depth
    <2>4. HandlerAt(taken[n], t.eip, regs, t.esp, ram)
      BY <1>2, <1>12, <2>2, <2>3, HandlerKept
    <2>5. Innermost'
      <3>1. HandlerAt(taken'[n], eip', regs', esp', ram')
        BY <1>2, <2>1, <2>4
      <3>2. HandlerAt(taken[n], eip, regs, esp, ram)'
        BY <1>8, <3>1 DEF HandlerAt, Left, Pushes, Eax
      <3> QED BY <1>7, <3>2 DEF Innermost
    <2>6. Thread0'
      BY <1>2, <1>3, <1>8, <2>1
         DEF EntryInv, Thread0, ThreadAt, AsksAt, ThreadStack, Preserved
    <2>7. SetUp'
      BY <1>2, <1>3, <2>1 DEF EntryInv, SetUp, Where
    <2> QED BY <1>9, <1>10, <1>11, <2>5, <2>6, <2>7 DEF EntryInv
  <1> QED BY <1>13, <1>14

-----------------------------------------------------------------------------
(* The thread. *)

(* A step of the thread happens when nothing is interrupted. *)
LEMMA ThreadStep ==
  ASSUME EntryInv, taken = <<>>, UNCHANGED <<taken, happened>>, calls' \in Nat,
         eip' \in Int, regs' \in Regs, esp' \in Int, iflag' \in Int, cs' \in Int, ram' \in Ram,
         handlers' \in [Vectors -> {"null", "default_exception_handler", "default_irq_handler",
                                    "default_handler", "syscall_handler",
                                    "keyboard_irq_handler"}],
         ThreadAt(eip, regs, esp, ram)', SetUp'
  PROVE  EntryInv'
  <1>1. taken' = <<>> /\ Len(taken') = 0
    OBVIOUS
  <1>2. Types'
    BY DEF EntryInv, Types
  <1>3. Thread0' /\ Innermost'
    BY <1>1 DEF Thread0, Innermost
  <1>4. Outer'
    BY <1>1 DEF Outer
  <1>5. Depth'
    BY <1>1 DEF EntryInv, Depth
  <1> QED BY <1>2, <1>3, <1>4, <1>5 DEF EntryInv

(* The first steps set up gates and handlers, and leave the rest alone. *)
LEMMA SetUpStep ==
  ASSUME EntryInv, NEW e \in 0 .. 4, eip = e, eip' = e + 1,
         UNCHANGED <<regs, esp, ram, taken, asked, calls, happened>>, iflag' \in Int,
         cs' \in Int,
         handlers' \in [Vectors -> {"null", "default_exception_handler", "default_irq_handler",
                                    "default_handler", "syscall_handler",
                                    "keyboard_irq_handler"}],
         SetUp'
  PROVE  EntryInv'
  <1>1. taken = <<>> /\ ThreadAt(eip, regs, esp, ram)
    BY ThreadRuns DEF ThreadCode, platform_init, Answered
  <1>2. ThreadAt(eip, regs, esp, ram)'
    BY <1>1 DEF ThreadAt, ThreadStack, ThreadCode, Preserved, Pushed, InCall, HasEbx,
                send_syscall, platform_init, Answered
  <1>3. /\ eip' \in Int /\ regs' \in Regs /\ esp' \in Int /\ ram' \in Ram /\ calls' \in Nat
    BY DEF EntryInv, Types
  <1> QED BY <1>1, <1>2, <1>3, ThreadStep

(* platform_init and init_keyboard. *)
LEMMA InitSteps ==
  ASSUME EntryInv,
         GdtInit \/ IdtInit \/ EnableInterrupts \/ SyscallsInit \/ RegisterKeyboard
  PROVE  EntryInv'
  <1> DEFINE H == {"null", "default_exception_handler", "default_irq_handler",
                   "default_handler", "syscall_handler", "keyboard_irq_handler"}
  <1>1. handlers \in [Vectors -> H] /\ iflag \in Int /\ cs \in Int
    BY DEF EntryInv, Types
  <1>2. eip \in 0 .. 4 => taken = <<>> /\ Where = eip
    <2>1. eip \in 0 .. 4 => taken = <<>>
      BY ThreadRuns DEF ThreadCode, platform_init, Answered
    <2> QED BY <2>1 DEF Where
  <1>3. SetUp
    BY DEF EntryInv
  <1>4. 33 \in Vectors /\ 128 \in Vectors
    BY DEF Vectors
  <1>5. CASE GdtInit
    <2>1. /\ eip = 0 /\ eip' = 0 + 1 /\ gdtr' = g_GDT /\ cs' = GDT_CODE_SEGMENT
          /\ UNCHANGED <<regs, esp, iflag, ram, idtr, handlers, taken, asked, calls, happened>>
      BY <1>5 DEF GdtInit, At, platform_init
    <2>2. Where' = 1
      BY <1>2, <2>1 DEF Where
    <2>3. SetUp'
      BY <1>2, <1>3, <2>1, <2>2 DEF SetUp
    <2>4. cs' \in Int
      BY <2>1 DEF GDT_CODE_SEGMENT
    <2> QED BY <1>1, <2>1, <2>3, <2>4, SetUpStep
  <1>6. CASE IdtInit
    <2>1. /\ eip = 1 /\ eip' = 1 + 1 /\ idtr' = Gates
          /\ handlers' = [v \in Vectors |-> IF v < 32 THEN "default_exception_handler"
                                            ELSE IF v < 48 THEN "default_irq_handler"
                                            ELSE "default_handler"]
          /\ UNCHANGED <<regs, esp, iflag, cs, ram, gdtr, taken, asked, calls, happened>>
      BY <1>6 DEF IdtInit, At, platform_init, Gates
    <2>2. Where' = 2
      BY <1>2, <2>1 DEF Where
    <2>3. Gates' = Gates /\ g_GDT' = g_GDT
      BY DEF Gates, g_GDT
    <2>4. SetUp'
      BY <1>2, <1>3, <2>1, <2>2, <2>3 DEF SetUp
    <2>5. handlers' \in [Vectors -> H]
      BY <2>1
    <2> QED BY <1>1, <2>1, <2>4, <2>5, SetUpStep
  <1>7. CASE EnableInterrupts
    <2>1. /\ eip = 2 /\ eip' = 2 + 1 /\ iflag' = 1
          /\ UNCHANGED <<regs, esp, cs, ram, gdtr, idtr, handlers, taken, asked, calls, happened>>
      BY <1>7 DEF EnableInterrupts, At, platform_init, others, tables
    <2>2. Where' = 3
      BY <1>2, <2>1 DEF Where
    <2>3. SetUp'
      BY <1>2, <1>3, <2>1, <2>2 DEF SetUp
    <2> QED BY <1>1, <2>1, <2>3, SetUpStep
  <1>8. CASE SyscallsInit
    <2>1. /\ eip = 3 /\ eip' = 3 + 1 /\ handlers' = [handlers EXCEPT ![128] = "syscall_handler"]
          /\ syscall_table' = [n \in 0 .. Byte - 1 |->
                                 CASE n = 0 -> "sys_read" [] n = 1 -> "sys_write"
                                   [] OTHER -> "sys_default"]
          /\ UNCHANGED <<regs, esp, iflag, cs, ram, gdtr, idtr, taken, asked, calls, happened>>
      BY <1>8 DEF SyscallsInit, At, platform_init, kmain
    <2>2. Where' = 4
      BY <1>2, <2>1 DEF Where
    <2>3. SetUp'
      BY <1>1, <1>2, <1>3, <1>4, <2>1, <2>2 DEF SetUp
    <2>4. handlers' \in [Vectors -> H]
      BY <1>1, <2>1
    <2> QED BY <1>1, <2>1, <2>3, <2>4, SetUpStep
  <1>9. CASE RegisterKeyboard
    <2>1. /\ eip = 4 /\ eip' = 4 + 1
          /\ handlers' = [handlers EXCEPT ![33] = "keyboard_irq_handler"]
          /\ UNCHANGED <<regs, esp, iflag, cs, ram, gdtr, idtr, syscall_table, taken, asked, calls,
                         happened>>
      BY <1>9 DEF RegisterKeyboard, At, kmain, Loop
    <2>2. Where' = 5
      BY <1>2, <2>1 DEF Where
    <2>3. SetUp'
      BY <1>1, <1>2, <1>3, <1>4, <2>1, <2>2 DEF SetUp
    <2>4. handlers' \in [Vectors -> H]
      BY <1>1, <2>1
    <2> QED BY <1>1, <2>1, <2>3, <2>4, SetUpStep
  <1> QED BY <1>5, <1>6, <1>7, <1>8, <1>9

(* A step of a system call, outside of its handler. *)
LEMMA CallStep ==
  ASSUME EntryInv, taken = <<>>, eip \notin 0 .. 3, eip' \notin 0 .. 3,
         UNCHANGED <<tables, iflag, cs, taken, happened>>, calls' \in Nat,
         eip' \in Int, regs' \in Regs, esp' \in Int, ram' \in Ram,
         ThreadAt(eip, regs, esp, ram)'
  PROVE  EntryInv'
  <1>1. Where = eip /\ Where' = eip'
    BY DEF Where
  <1>2. eip' \notin {0, 1} /\ eip \notin {0, 1} /\ eip' # 0 /\ eip # 0
    OBVIOUS
  <1>3. SetUp'
    BY <1>1, <1>2 DEF EntryInv, SetUp, tables
  <1>4. iflag' \in Int /\ cs' \in Int
    BY DEF EntryInv, Types
  <1>5. handlers' \in [Vectors -> {"null", "default_exception_handler", "default_irq_handler",
                                   "default_handler", "syscall_handler",
                                   "keyboard_irq_handler"}]
    BY DEF EntryInv, Types, tables
  <1> QED BY <1>3, <1>4, <1>5, ThreadStep

(* The caller pushes arguments and a return address. *)
LEMMA SyscallStep ==
  ASSUME EntryInv, NEW number \in Numbers, NEW arg1 \in Arguments, Syscall(number, arg1)
  PROVE  EntryInv'
  <1> DEFINE words == <<arg1, number, Answered>>
  <1>1. /\ eip = 5 /\ eip' = 16 /\ Push(words) /\ calls' = calls + 1
        /\ asked' = [number |-> number, arg1 |-> arg1, regs |-> regs, esp |-> esp]
        /\ UNCHANGED <<regs, iflag, cs, tables, taken, happened>>
    BY DEF Syscall, At, Loop, send_syscall
  <1>2. taken = <<>> /\ ThreadAt(eip, regs, esp, ram)
    BY <1>1, ThreadRuns DEF ThreadCode, platform_init, Answered
  <1>3. esp = StackSize
    <2>1. esp = StackSize - 0
      BY <1>1, <1>2
         DEF ThreadAt, ThreadStack, Pushed, InCall, send_syscall, Answered
    <2> QED BY <2>1, InterruptEntryAssumption
  <1>4. /\ regs \in Regs /\ ram \in Ram /\ calls \in Nat /\ number \in Nat /\ arg1 \in Nat
        /\ StackSize \in Nat
    BY InterruptEntryAssumption DEF EntryInv, Types
  <1>5. 15 <= esp /\ esp \in Int
    BY <1>2, Room
  <1>6. /\ words \in Seq(Int) /\ Len(words) = 3
        /\ words[1] = arg1 /\ words[2] = number /\ words[3] = Answered
    BY <1>4 DEF Answered
  <1> HIDE DEF words
  <1>7. /\ esp' = esp - 3 /\ esp' \in Int /\ ram' \in Ram
        /\ \A i \in 1 .. 3 : ram'[esp - i] = words[i]
    <2>1. Len(words) <= esp /\ esp <= StackSize
      BY <1>3, <1>4, <1>5, <1>6
    <2> QED BY <1>1, <1>4, <1>5, <1>6, <2>1, PushFacts
  <1>8. /\ ram'[StackSize - 1] = arg1 /\ ram'[StackSize - 2] = number
        /\ ram'[StackSize - 3] = Answered
    BY <1>3, <1>6, <1>7
  <1>9. ThreadAt(eip, regs, esp, ram)'
    BY <1>1, <1>3, <1>4, <1>7, <1>8
       DEF ThreadAt, ThreadStack, ThreadCode, Preserved, Pushed, InCall, HasEbx,
           send_syscall, platform_init, Answered
  <1> QED BY <1>1, <1>2, <1>4, <1>7, <1>9, CallStep

(* push ebx: the caller's. *)
LEMMA PushEbxStep ==
  ASSUME EntryInv, PushEbx
  PROVE  EntryInv'
  <1> DEFINE words == <<regs["ebx"]>>
  <1>1. /\ eip = 16 /\ eip' = 17 /\ Push(words)
        /\ UNCHANGED <<regs, iflag, cs, tables, taken, asked, calls, happened>>
    BY DEF PushEbx, Pushing, At, send_syscall, others
  <1>2. taken = <<>> /\ ThreadAt(eip, regs, esp, ram)
    BY <1>1, ThreadRuns DEF ThreadCode, send_syscall
  <1>3. esp = StackSize - 3 /\ regs["ebx"] = asked.regs["ebx"]
    BY <1>1, <1>2
       DEF ThreadAt, ThreadStack, Pushed, InCall, HasEbx, send_syscall, Answered
  <1>4. regs \in Regs /\ ram \in Ram /\ calls \in Nat /\ StackSize \in Nat
    BY InterruptEntryAssumption DEF EntryInv, Types
  <1>5. 15 <= esp /\ esp \in Int
    BY <1>2, Room
  <1>6. words \in Seq(Int) /\ Len(words) = 1 /\ words[1] = regs["ebx"]
    BY <1>4 DEF Regs, Registers
  <1> HIDE DEF words
  <1>7. /\ esp' = esp - 1 /\ esp' \in Int /\ ram' \in Ram
        /\ \A a \in esp .. StackSize - 1 : ram'[a] = ram[a]
        /\ ram'[esp - 1] = words[1]
    <2>1. Len(words) <= esp /\ esp <= StackSize
      BY <1>3, <1>4, <1>5, <1>6
    <2>2. /\ esp' = esp - Len(words) /\ esp' \in Int /\ ram' \in Ram
          /\ \A a \in esp .. StackSize - 1 : ram'[a] = ram[a]
          /\ \A i \in 1 .. Len(words) : ram'[esp - i] = words[i]
      BY <1>1, <1>4, <1>5, <1>6, <2>1, PushFacts
    <2> QED BY <1>6, <2>2
  <1>8. ThreadStack(eip, esp, ram')
    BY <1>2, <1>7, ThreadKept DEF ThreadAt
  <1>9. ThreadAt(eip, regs, esp, ram)'
    BY <1>1, <1>2, <1>3, <1>4, <1>6, <1>7, <1>8
       DEF ThreadAt, ThreadStack, ThreadCode, Preserved, Pushed, InCall, HasEbx,
           send_syscall, platform_init, Answered
  <1> QED BY <1>1, <1>2, <1>4, <1>7, <1>9, CallStep

(* mov eax, [esp + 8] *)
LEMMA MoveNumberStep ==
  ASSUME EntryInv, MoveNumber
  PROVE  EntryInv'
  <1>1. /\ eip = 17 /\ eip' = 18 /\ regs' = [regs EXCEPT !["eax"] = ram[esp + 2]]
        /\ UNCHANGED <<esp, iflag, cs, ram, tables, taken, asked, calls, happened>>
    BY DEF MoveNumber, At, send_syscall, others
  <1>2. taken = <<>> /\ ThreadAt(eip, regs, esp, ram)
    BY <1>1, ThreadRuns DEF ThreadCode, send_syscall
  <1>3. /\ regs \in Regs /\ ram \in Ram /\ calls \in Nat /\ StackSize \in Nat /\ esp \in Int
        /\ "eax" \in Registers
    BY InterruptEntryAssumption DEF EntryInv, Types, Registers
  <1>4. /\ esp = StackSize - 4 /\ ram[StackSize - 2] = asked.number /\ asked.number \in Nat
    BY <1>1, <1>2
       DEF ThreadAt, ThreadStack, Pushed, InCall, HasEbx, send_syscall, Answered
  <1>5. ram[esp + 2] = asked.number
    <2>1. esp + 2 = StackSize - 2
      BY <1>3, <1>4
    <2> QED BY <1>4, <2>1
  <1>6. regs' \in Regs /\ regs'["eax"] = asked.number
        /\ \A n \in Registers \ {"eax"} : regs'[n] = regs[n]
    BY <1>1, <1>3, <1>4, <1>5 DEF Regs
  <1>7. ThreadAt(eip, regs, esp, ram)'
    BY <1>1, <1>2, <1>6
       DEF ThreadAt, ThreadStack, ThreadCode, Preserved, Pushed, InCall, HasEbx,
           send_syscall, platform_init, Answered, Registers
  <1> QED BY <1>1, <1>2, <1>3, <1>6, <1>7, CallStep

(* mov ebx, [esp + 12] *)
LEMMA MoveArg1Step ==
  ASSUME EntryInv, MoveArg1
  PROVE  EntryInv'
  <1>1. /\ eip = 18 /\ eip' = 19 /\ regs' = [regs EXCEPT !["ebx"] = ram[esp + 3]]
        /\ UNCHANGED <<esp, iflag, cs, ram, tables, taken, asked, calls, happened>>
    BY DEF MoveArg1, At, send_syscall, others
  <1>2. taken = <<>> /\ ThreadAt(eip, regs, esp, ram)
    BY <1>1, ThreadRuns DEF ThreadCode, send_syscall
  <1>3. /\ regs \in Regs /\ ram \in Ram /\ calls \in Nat /\ StackSize \in Nat /\ esp \in Int
        /\ "ebx" \in Registers /\ Arguments \subseteq Nat
    BY InterruptEntryAssumption DEF EntryInv, Types, Registers
  <1>4. /\ esp = StackSize - 4 /\ ram[StackSize - 1] = asked.arg1 /\ asked.arg1 \in Arguments
    BY <1>1, <1>2
       DEF ThreadAt, ThreadStack, Pushed, InCall, HasEbx, send_syscall, Answered
  <1>5. ram[esp + 3] = asked.arg1 /\ asked.arg1 \in Int
    <2>1. esp + 3 = StackSize - 1
      BY <1>3, <1>4
    <2>2. Arguments \subseteq Int
      BY <1>3
    <2> QED BY <1>4, <2>1, <2>2
  <1>6. regs' \in Regs /\ regs'["ebx"] = asked.arg1
        /\ \A n \in Registers \ {"ebx"} : regs'[n] = regs[n]
    BY <1>1, <1>3, <1>4, <1>5 DEF Regs
  <1>7. ThreadAt(eip, regs, esp, ram)'
    BY <1>1, <1>2, <1>6
       DEF ThreadAt, ThreadStack, ThreadCode, Preserved, Pushed, InCall, HasEbx,
           send_syscall, platform_init, Answered, Registers
  <1> QED BY <1>1, <1>2, <1>3, <1>6, <1>7, CallStep

(* pop ebx: the caller's is back. *)
LEMMA PopEbxStep ==
  ASSUME EntryInv, PopEbx
  PROVE  EntryInv'
  <1>1. /\ eip = 20 /\ eip' = 21 /\ regs' = [regs EXCEPT !["ebx"] = ram[esp]] /\ esp' = esp + 1
        /\ UNCHANGED <<iflag, cs, ram, tables, taken, asked, calls, happened>>
    BY DEF PopEbx, At, send_syscall, others
  <1>2. taken = <<>> /\ ThreadAt(eip, regs, esp, ram)
    BY <1>1, ThreadRuns DEF ThreadCode, send_syscall
  <1>3. /\ regs \in Regs /\ ram \in Ram /\ calls \in Nat /\ StackSize \in Nat /\ esp \in Int
        /\ "ebx" \in Registers
    BY InterruptEntryAssumption DEF EntryInv, Types, Registers
  <1>4. /\ esp = StackSize - 4 /\ ram[StackSize - 4] = asked.regs["ebx"]
        /\ regs["eax"] \in Answer
    BY <1>1, <1>2
       DEF ThreadAt, ThreadStack, Pushed, InCall, HasEbx, send_syscall, Answered
  <1>5. ram[esp] \in Int
    <2>1. esp \in 0 .. StackSize - 1
      BY <1>2, <1>3, <1>4, Room
    <2> QED BY <1>3, <2>1 DEF Ram
  <1>6. /\ regs' \in Regs /\ regs'["ebx"] = asked.regs["ebx"]
        /\ \A n \in Registers \ {"ebx"} : regs'[n] = regs[n]
    BY <1>1, <1>3, <1>4, <1>5 DEF Regs
  <1>7. esp' = StackSize - 3
    BY <1>1, <1>3, <1>4
  <1>8. Answer' = Answer /\ regs'["eax"] = regs["eax"]
    BY <1>1, <1>6 DEF Answer, Registers
  <1>9. ThreadAt(eip, regs, esp, ram)'
    BY <1>1, <1>2, <1>4, <1>6, <1>7, <1>8
       DEF ThreadAt, ThreadStack, ThreadCode, Preserved, Pushed, InCall, HasEbx,
           send_syscall, platform_init, Answered, Registers
  <1>10. esp' \in Int
    BY <1>1, <1>3
  <1> QED BY <1>1, <1>2, <1>3, <1>6, <1>9, <1>10, CallStep

(* ret, to the caller. *)
LEMMA RetStep ==
  ASSUME EntryInv, Ret
  PROVE  EntryInv'
  <1>1. /\ eip = 21 /\ eip' = ram[esp] /\ esp' = esp + 1
        /\ UNCHANGED <<regs, iflag, cs, ram, tables, taken, asked, calls, happened>>
    BY DEF Ret, Dropping, At, send_syscall, others
  <1>2. taken = <<>> /\ ThreadAt(eip, regs, esp, ram)
    BY <1>1, ThreadRuns DEF ThreadCode, send_syscall
  <1>3. regs \in Regs /\ ram \in Ram /\ calls \in Nat /\ StackSize \in Nat /\ esp \in Int
    BY InterruptEntryAssumption DEF EntryInv, Types
  <1>4. esp = StackSize - 3 /\ ram[StackSize - 3] = 6 /\ regs["eax"] \in Answer
    BY <1>1, <1>2
       DEF ThreadAt, ThreadStack, Pushed, InCall, HasEbx, send_syscall, Answered
  <1>5. eip' = 6 /\ esp' = StackSize - 2 /\ esp' \in Int
    BY <1>1, <1>3, <1>4
  <1>6. Answer' = Answer
    BY <1>1 DEF Answer
  <1>7. ThreadAt(eip, regs, esp, ram)'
    BY <1>1, <1>2, <1>4, <1>5, <1>6
       DEF ThreadAt, ThreadStack, ThreadCode, Preserved, Pushed, InCall, HasEbx,
           send_syscall, platform_init, Answered
  <1> QED BY <1>1, <1>2, <1>3, <1>5, <1>7, CallStep

(* The caller drops the arguments. *)
LEMMA CallerContinuesStep ==
  ASSUME EntryInv, CallerContinues
  PROVE  EntryInv'
  <1>1. /\ eip = 6 /\ eip' = 5 /\ esp' = esp + 2
        /\ UNCHANGED <<regs, iflag, cs, ram, tables, taken, asked, calls, happened>>
    BY DEF CallerContinues, Dropping, At, Answered, Loop, others
  <1>2. taken = <<>> /\ ThreadAt(eip, regs, esp, ram)
    BY <1>1, ThreadRuns DEF ThreadCode, platform_init, Answered
  <1>3. regs \in Regs /\ ram \in Ram /\ calls \in Nat /\ StackSize \in Nat /\ esp \in Int
    BY InterruptEntryAssumption DEF EntryInv, Types
  <1>4. esp = StackSize - 2
    BY <1>1, <1>2
       DEF ThreadAt, ThreadStack, Pushed, InCall, HasEbx, send_syscall, Answered
  <1>5. esp' = StackSize /\ esp' \in Int /\ StackSize = StackSize - 0
    BY <1>1, <1>3, <1>4
  <1>6. ThreadAt(eip, regs, esp, ram)'
    BY <1>1, <1>5
       DEF ThreadAt, ThreadStack, ThreadCode, Preserved, Pushed, InCall, HasEbx,
           send_syscall, platform_init, Answered
  <1> QED BY <1>1, <1>2, <1>3, <1>5, <1>6, CallStep

-----------------------------------------------------------------------------
(* The theorems. *)

(* Initially nothing is interrupted and nothing set up. *)
LEMMA InitEntry == Init => EntryInv
  <1> SUFFICES ASSUME Init PROVE EntryInv
    OBVIOUS
  <1>1. /\ StackSize \in Nat /\ MaxInterrupts \in Nat
    BY InterruptEntryAssumption
  <1>2. /\ eip = 0 /\ esp = StackSize /\ iflag = 0 /\ cs = 8 /\ taken = <<>> /\ calls = 0
        /\ happened = 0 /\ idtr = <<>> /\ ram = [a \in 0 .. StackSize - 1 |-> 0]
        /\ handlers = [v \in Vectors |-> "null"]
    BY DEF Init, platform_init, GDT_CODE_SEGMENT
  <1>3. regs \in Regs
    BY DEF Init, Regs, Registers
  <1>4. Types
    BY <1>1, <1>2, <1>3 DEF Types, Ram
  <1>5. Thread0
    <2>1. StackSize - 0 = StackSize
      BY <1>1
    <2> QED BY <1>2, <2>1
       DEF Thread0, ThreadAt, ThreadStack, ThreadCode, Preserved, Pushed, InCall, HasEbx,
           send_syscall, platform_init, Answered
  <1>6. Outer /\ Innermost /\ Depth
    <2>1. Len(taken) = 0
      BY <1>2
    <2> QED BY <1>1, <1>2, <2>1 DEF Outer, Innermost, Depth
  <1>7. SetUp
    BY <1>2 DEF SetUp, Where
  <1> QED BY <1>4, <1>5, <1>6, <1>7 DEF EntryInv

(* Every step keeps the invariant, one lemma for each action. *)
LEMMA NextEntry == EntryInv /\ [Next]_vars => EntryInv'
  <1> SUFFICES ASSUME EntryInv, [Next]_vars PROVE EntryInv'
    OBVIOUS
  <1>1. CASE Thread
    BY <1>1, InitSteps, SyscallStep, PushEbxStep, MoveNumberStep, MoveArg1Step, Int80Step,
       PopEbxStep, RetStep, CallerContinuesStep DEF Thread
  <1>2. CASE Handling
    BY <1>2, StubStep, PushAllStep, PushFrameStep, CallHandlerStep, DispatchStep,
       HandlerReturnsStep, DropArgumentStep, PopAllStep, DropNumberStep, IretStep DEF Handling
  <1>3. CASE \E line \in Lines : Device(line)
    BY <1>3, DeviceStep
  <1>4. CASE \E v \in Exceptions : Exception(v)
    BY <1>4, ExceptionStep
  <1>5. CASE UNCHANGED vars
    <2>1. /\ UNCHANGED <<eip, regs, esp, iflag, cs, ram, gdtr, idtr, handlers, syscall_table>>
          /\ UNCHANGED <<halted, taken, asked, calls, happened>>
      BY <1>5 DEF vars, cpu, others, tables
    <2>2. Answer' = Answer
      BY <2>1 DEF Answer
    <2>3. Types' /\ Depth' /\ SetUp'
      BY <2>1 DEF EntryInv, Types, Depth, SetUp, Where
    <2>4. Thread0'
      BY <2>1, <2>2 DEF EntryInv, Thread0, ThreadAt, AsksAt, ThreadStack, Preserved
    <2>5. Innermost'
      BY <2>1, <2>2 DEF EntryInv, Innermost, HandlerAt, Left, Pushes, Eax
    <2>6. Outer'
      <3> SUFFICES ASSUME NEW k \in 1 .. Len(taken) - 1
                   PROVE  /\ HandlerAt(taken[k], taken[k + 1].eip, taken[k + 1].regs,
                                       taken[k + 1].esp, taken[k + 1].ram)'
                          /\ taken'[k + 1].v # 128
        BY <2>1 DEF Outer
      <3> QED BY <2>1, OuterKept DEF EntryInv
    <2> QED BY <2>3, <2>4, <2>5, <2>6 DEF EntryInv
  <1> QED BY <1>1, <1>2, <1>3, <1>4, <1>5 DEF Next

(***************************************************************************)
(* The way into handlers and back is as EntryInv says: every level of      *)
(* nesting has on the stack what its next instruction expects.             *)
(***************************************************************************)
THEOREM EntryCorrect == Spec => []EntryInv
  BY InitEntry, NextEntry, PTL DEF Spec

-----------------------------------------------------------------------------
(* IF is clear in every handler, the interrupted ones included. *)
Masked ==
  /\ taken # <<>> => iflag = 0
  /\ \A k \in 2 .. Len(taken) : taken[k].iflag = 0

(* Whatever interrupts comes through an interrupt gate. *)
LEMMA InterruptMasks ==
  ASSUME EntryInv, Masked, NEW v \in Vectors, NEW error \in Int, NEW from \in Int,
         Interrupt(v, error, from), Where \notin {0, 1}
  PROVE  Masked'
  <1>1. gdtr = g_GDT /\ idtr = Gates
    BY DEF EntryInv, SetUp
  <1>2. iflag' = 0
    BY <1>1, GateLeadsToStub DEF Interrupt
  <1>3. taken \in Seq(Record) /\ Len(taken) \in Nat
    BY DEF EntryInv, Types
  <1> DEFINE t == [v |-> v, error |-> IF v \in HasErrorCode THEN error ELSE 0, eip |-> from,
                   iflag |-> iflag, cs |-> cs, regs |-> regs, esp |-> esp, ram |-> ram]
  <1>4. taken' = Append(taken, t) /\ t.iflag = iflag
    BY DEF Interrupt
  <1>5. t \in Record
    BY DEF EntryInv, Types, Record
  <1> HIDE DEF t
  <1>6. /\ Len(taken') = Len(taken) + 1 /\ taken'[Len(taken) + 1] = t
        /\ \A k \in 1 .. Len(taken) : taken'[k] = taken[k]
    BY <1>3, <1>4, <1>5, AppendFacts
  <1>7. ASSUME NEW k \in 2 .. Len(taken') PROVE taken'[k].iflag = 0
    <2>1. CASE k \in 1 .. Len(taken)
      BY <1>3, <1>6, <2>1 DEF Masked
    <2>2. CASE k = Len(taken) + 1
      <3>1. Len(taken) # 0
        BY <1>3, <2>2
      <3>2. taken # <<>>
        BY <1>3, <3>1, EmptySeq
      <3> QED BY <1>4, <1>6, <2>2, <3>2 DEF Masked
    <2> QED BY <1>3, <1>6, <2>1, <2>2
  <1> QED BY <1>2, <1>7 DEF Masked

(* No step sets IF in a handler: only iret may, and then none is left. *)
LEMMA NextMasked == EntryInv /\ Masked /\ [Next]_vars => Masked'
  <1> SUFFICES ASSUME EntryInv, Masked, [Next]_vars PROVE Masked'
    OBVIOUS
  <1>1. ASSUME UNCHANGED <<iflag, taken>> PROVE Masked'
    BY <1>1 DEF Masked
  <1>2. CASE Thread
    <2>1. CASE EnableInterrupts
      <3>1. taken = <<>> /\ taken' = taken
        BY <2>1, ThreadRuns
           DEF EnableInterrupts, At, others, ThreadCode, platform_init, Answered
      <3> QED BY <3>1 DEF Masked
    <2>2. CASE Int80
      <3>1. eip = send_syscall + 3 /\ Interrupt(128, 0, send_syscall + 4)
        BY <2>2 DEF Int80
      <3>2. taken = <<>>
        BY <3>1, ThreadRuns DEF ThreadCode, send_syscall
      <3>3. Where \notin {0, 1} /\ 128 \in Vectors /\ send_syscall + 4 \in Int
        BY <3>1, <3>2 DEF Where, Vectors, send_syscall
      <3> QED BY <3>1, <3>3, InterruptMasks
    <2>3. CASE ~EnableInterrupts /\ ~Int80
      BY <1>1, <1>2, <2>3
         DEF Thread, GdtInit, IdtInit, SyscallsInit, RegisterKeyboard, Syscall, PushEbx,
             MoveNumber, MoveArg1, PopEbx, Ret, CallerContinues, Pushing, Dropping, others
    <2> QED BY <2>1, <2>2, <2>3
  <1>3. CASE Iret
    <2>1. PICK t : t = taken[Len(taken)]
      OBVIOUS
    <2>2. taken # <<>> /\ iflag' = t.iflag
      BY <1>3, <2>1, IretFacts
    <2>3. taken \in Seq(Record) /\ Len(taken) \in Nat \ {0}
      BY <2>2, Current DEF EntryInv, Types
    <2>4. taken' = SubSeq(taken, 1, Len(taken) - 1)
      BY <1>3 DEF Iret
    <2>5. /\ taken' \in Seq(Record) /\ Len(taken') = Len(taken) - 1
          /\ \A k \in 1 .. Len(taken) - 1 : taken'[k] = taken[k]
      BY <2>2, <2>3, <2>4, FrontFacts
    <2>6. \A k \in 2 .. Len(taken') : taken'[k].iflag = 0
      BY <2>3, <2>5 DEF Masked
    <2>7. ASSUME taken' # <<>> PROVE iflag' = 0
      <3>1. Len(taken') # 0
        BY <2>5, <2>7, EmptySeq
      <3>2. Len(taken) \in 2 .. Len(taken)
        BY <2>3, <2>5, <3>1
      <3> QED BY <2>1, <2>2, <3>2 DEF Masked
    <2> QED BY <2>6, <2>7 DEF Masked
  <1>4. CASE Handling /\ ~Iret
    BY <1>1, <1>4
       DEF Handling, StubRuns, PushAll, PushFrame, CallHandler, Dispatch, HandlerReturns,
           DropArgument, PopAll, DropNumber, Pushing, Dropping, others
  <1>5. ASSUME NEW line \in Lines, Device(line) PROVE Masked'
    <2>1. line \in 0 .. 15
      BY InterruptEntryAssumption
    <2>2. 32 + line \in Vectors
      BY <2>1 DEF Vectors
    <2>3. Where \notin {0, 1} /\ Interrupt(32 + line, 0, eip) /\ eip \in Int
      BY <1>5 DEF EntryInv, SetUp, Types, Device
    <2> QED BY <2>2, <2>3, InterruptMasks
  <1>6. ASSUME NEW v \in Exceptions, Exception(v) PROVE Masked'
    <2>1. v \in 0 .. 31
      BY InterruptEntryAssumption
    <2>2. v \in Vectors
      BY <2>1 DEF Vectors
    <2>3. Where \notin {0, 1} /\ Interrupt(v, 77, eip) /\ eip \in Int
      BY <1>6 DEF EntryInv, SetUp, Types, Exception
    <2> QED BY <2>2, <2>3, InterruptMasks
  <1>7. CASE UNCHANGED vars
    BY <1>1, <1>7 DEF vars, cpu, others
  <1> QED BY <1>2, <1>3, <1>4, <1>5, <1>6, <1>7 DEF Next

(***************************************************************************)
(* Whatever interrupts whatever, isr_handler is given a frame that says    *)
(* what happened, the processor is in code of the kernel, and no device    *)
(* interrupts a handler.                                                   *)
(***************************************************************************)
THEOREM EntryHandlerSeesInterrupt == Spec => []HandlerSeesInterrupt
  <1>1. ASSUME EntryInv, Masked PROVE HandlerSeesInterrupt
    <2>1. eip \in Code
      <3>1. CASE taken = <<>>
        <4>1. eip \in ThreadCode
          BY <1>1, <3>1 DEF EntryInv, Thread0, ThreadAt
        <4> QED BY <4>1 DEF ThreadCode, Code
      <3>2. CASE taken # <<>>
        <4>1. PICK v \in Vectors : eip \in HandlerCode \cup {Stub(v)}
          BY <1>1, <3>2, Current DEF HandlerAt
        <4>2. HandlerCode \subseteq Code
          BY DEF HandlerCode, Saved, InHandler, Called, Restored, Code, isr_common, isr_handler
        <4>3. Stub(v) \in Code
          BY DEF Code
        <4> QED BY <4>1, <4>2, <4>3
      <3> QED BY <3>1, <3>2
    <2>2. ASSUME eip = isr_handler
          PROVE  LET t == taken[Len(taken)]
                     frame == ram[esp + 1]
                 IN /\ Field(frame, "interrupt_number") = t.v
                    /\ Field(frame, "error_code") = t.error
                    /\ \A r \in Registers : Field(frame, r) = t.regs[r]
                    /\ Field(frame, "eip") = t.eip
                    /\ Field(frame, "cs") = t.cs
                    /\ Field(frame, "eflags") = t.iflag
      <3>1. taken # <<>>
        BY <1>1, <2>2, HandlerRuns
           DEF ThreadCode, platform_init, Answered, send_syscall, isr_handler
      <3>2. PICK t \in Record :
              t = taken[Len(taken)] /\ HandlerAt(t, isr_handler, regs, esp, ram)
        BY <1>1, <2>2, <3>1, Current
      <3> QED BY <3>2, FrameSays
    <2> QED BY <1>1, <2>1, <2>2 DEF HandlerSeesInterrupt, Masked
  <1>2. Init => Masked
    <2> SUFFICES ASSUME Init PROVE Masked
      OBVIOUS
    <2>1. taken = <<>> /\ Len(taken) = 0
      BY DEF Init
    <2> QED BY <2>1 DEF Masked
  <1> QED BY <1>1, <1>2, NextMasked, EntryCorrect, PTL DEF Spec

(***************************************************************************)
(* send_syscall returns with the answer to what its caller asked, for      *)
(* every number that fits the byte that syscall_handler looks at, and with *)
(* the registers and the stack of its caller for every number.             *)
(***************************************************************************)
THEOREM EntrySyscallsAnswered == Spec => []SyscallsAnswered
  <1>1. ASSUME EntryInv, eip = Answered
        PROVE  /\ regs["eax"] \in Answer /\ asked.number \in Nat
               /\ \A r \in Registers \ {"eax", "ecx", "edx"} : regs[r] = asked.regs[r]
               /\ esp = asked.esp - 2
    <2>1. ThreadAt(eip, regs, esp, ram)
      BY <1>1, ThreadRuns DEF ThreadCode, platform_init, Answered
    <2>2. /\ regs["eax"] \in Answer /\ regs["ebx"] = asked.regs["ebx"]
          /\ \A r \in Registers \ {"eax", "ebx"} : regs[r] = asked.regs[r]
      BY <1>1, <2>1 DEF ThreadAt, Preserved, InCall, send_syscall, Answered
    <2>3. esp = StackSize - 2 /\ asked.esp = StackSize /\ asked.number \in Nat
      BY <1>1, <2>1 DEF ThreadAt, ThreadStack, Pushed, InCall, HasEbx, send_syscall, Answered
    <2> QED BY <2>2, <2>3
  <1>2. ASSUME NEW n \in Nat, n < Byte PROVE n % Byte = n
    BY <1>2, Widths
  <1>3. EntryInv => SyscallsAnswered
    BY <1>1, <1>2 DEF SyscallsAnswered, Answer
  <1> QED BY <1>3, EntryCorrect, PTL

(* Only iret ends a handler. *)
LEMMA OnlyIretReturns ==
  ASSUME EntryInv, [Next]_vars, Len(taken') < Len(taken)
  PROVE  Iret
  <1>1. taken \in Seq(Record) /\ Len(taken) \in Nat
    BY DEF EntryInv, Types
  <1>2. taken' # taken
    BY <1>1
  <1>3. ASSUME NEW v, NEW error, NEW from, Interrupt(v, error, from) PROVE FALSE
    <2>1. PICK x : taken' = Append(taken, x)
      BY <1>3 DEF Interrupt
    <2>2. Len(taken') = Len(taken) + 1
      BY <1>1, <2>1
    <2> QED BY <1>1, <2>2
  <1>4. CASE Thread
    <2>1. CASE Int80
      BY <1>3, <2>1 DEF Int80
    <2>2. CASE ~Int80
      BY <1>2, <1>4, <2>2
         DEF Thread, GdtInit, IdtInit, EnableInterrupts, SyscallsInit, RegisterKeyboard, Syscall,
             PushEbx, MoveNumber, MoveArg1, PopEbx, Ret, CallerContinues, Pushing, Dropping, others
    <2> QED BY <2>1, <2>2
  <1>5. CASE Handling
    BY <1>2, <1>5
       DEF Handling, StubRuns, PushAll, PushFrame, CallHandler, Dispatch, HandlerReturns,
           DropArgument, PopAll, DropNumber, Pushing, Dropping, others
  <1>6. ~(\E line \in Lines : Device(line)) /\ ~(\E v \in Exceptions : Exception(v))
    BY <1>3 DEF Device, Exception
  <1>7. ~UNCHANGED vars
    BY <1>2 DEF vars, others
  <1> QED BY <1>4, <1>5, <1>6, <1>7 DEF Next

(***************************************************************************)
(* Interrupted code does not notice: iret gives it back its registers, its *)
(* flags and its stack.                                                    *)
(***************************************************************************)
THEOREM EntryInterruptedCodeResumes == Spec => InterruptedCodeResumes
  <1> DEFINE Resumes ==
               Len(taken') < Len(taken) =>
                 LET t == taken[Len(taken)]
                 IN /\ eip' = t.eip /\ cs' = t.cs /\ iflag' = t.iflag /\ esp' = t.esp
                    /\ \A r \in Registers : regs'[r] = t.regs[r] \/ (r = "eax" /\ t.v = 128)
                    /\ \A a \in t.esp .. StackSize - 1 : ram'[a] = t.ram[a]
  <1>1. ASSUME EntryInv, [Next]_vars, Len(taken') < Len(taken), NEW t, t = taken[Len(taken)]
        PROVE  /\ eip' = t.eip /\ cs' = t.cs /\ iflag' = t.iflag /\ esp' = t.esp
               /\ \A r \in Registers : regs'[r] = t.regs[r] \/ (r = "eax" /\ t.v = 128)
               /\ \A a \in t.esp .. StackSize - 1 : ram'[a] = t.ram[a]
    <2>1. Iret
      BY <1>1, OnlyIretReturns
    <2>2. /\ eip' = t.eip /\ cs' = t.cs /\ iflag' = t.iflag /\ esp' = t.esp
          /\ regs' = regs /\ ram' = ram
          /\ \A n \in Registers \ {"eax"} : regs[n] = t.regs[n]
          /\ Eax(t, regs["eax"])
          /\ \A a \in t.esp .. StackSize - 1 : ram[a] = t.ram[a]
      BY <1>1, <2>1, IretFacts
    <2> QED BY <2>2 DEF Eax
  <1>2. EntryInv /\ [Next]_vars => [Resumes]_vars
    BY <1>1
  <1>3. InterruptedCodeResumes <=> [][Resumes]_vars
    BY DEF InterruptedCodeResumes
  <1> QED BY <1>2, <1>3, EntryCorrect, PTL DEF Spec
=============================================================================
