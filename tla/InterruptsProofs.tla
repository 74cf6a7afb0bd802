-------------------------- MODULE InterruptsProofs --------------------------
(***************************************************************************)
(* Proofs about Keyboard and Interrupts: of the ring, for every size of    *)
(* it, every width of its positions that is a multiple of it and every     *)
(* translation table; then of the interrupts that fill it, for every set   *)
(* of devices and every number of keys and interrupts.                     *)
(***************************************************************************)
EXTENDS Interrupts, SequenceTheorems, TLAPS

(* Division. *)

(* Whole division: the quotient is the only q with d * q <= n < d * q + d. *)
LEMMA Quotient ==
  ASSUME NEW n \in Nat, NEW d \in Nat \ {0}
  PROVE  /\ n \div d \in Nat
         /\ d * (n \div d) <= n
         /\ n < d * (n \div d) + d
  OBVIOUS

(* A number is its quotient times the divisor, and a remainder below it. *)
LEMMA Remainder ==
  ASSUME NEW n \in Nat, NEW d \in Nat \ {0}
  PROVE  /\ n % d \in Nat
         /\ n % d < d
         /\ n = d * (n \div d) + (n % d)
  OBVIOUS

(* A product grows with its factor. *)
LEMMA Times ==
  ASSUME NEW a \in Nat, NEW b \in Nat, NEW d \in Nat \ {0}, a < b
  PROVE  d * a + d <= d * b
  OBVIOUS

(* Quotient and remainder are the only such pair. *)
LEMMA RemainderUnique ==
  ASSUME NEW n \in Nat, NEW d \in Nat \ {0}, NEW q \in Nat, NEW m \in Nat,
         n = d * q + m, m < d
  PROVE  n % d = m /\ n \div d = q
  <1> DEFINE r == n \div d
  <1>1. /\ r \in Nat /\ d * r <= n /\ n < d * r + d
        /\ n % d \in Nat /\ n = d * r + (n % d)
    BY Quotient, Remainder
  <1>2. d * q \in Nat /\ d * r \in Nat
    BY <1>1
  <1> HIDE DEF r
  <1>3. ~(q < r)
    <2> SUFFICES ASSUME q < r PROVE FALSE
      OBVIOUS
    <2>1. d * q + d <= d * r
      BY <1>1, Times
    <2> QED BY <2>1, <1>1, <1>2
  <1>4. ~(r < q)
    <2> SUFFICES ASSUME r < q PROVE FALSE
      OBVIOUS
    <2>1. d * r + d <= d * q
      BY <1>1, Times
    <2> QED BY <2>1, <1>1, <1>2
  <1>5. r = q
    BY <1>1, <1>3, <1>4
  <1>6. n % d = m
    BY <1>1, <1>2, <1>5
  <1> QED BY <1>5, <1>6 DEF r

(* Counting modulo d, once around at most. *)
LEMMA RemainderOnce ==
  ASSUME NEW n \in Nat, NEW d \in Nat \ {0}, n < 2 * d
  PROVE  n % d = IF n < d THEN n ELSE n - d
  <1>1. CASE n < d
    <2>1. n = d * 0 + n
      OBVIOUS
    <2>2. n % d = n
      BY <1>1, <2>1, RemainderUnique
    <2> QED BY <1>1, <2>2
  <1>2. CASE ~(n < d)
    <2>1. n = d * 1 + (n - d) /\ n - d \in Nat /\ n - d < d
      BY <1>2
    <2>2. n % d = n - d
      BY <2>1, RemainderUnique
    <2> QED BY <1>2, <2>2
  <1> QED BY <1>1, <1>2

(* A difference below 0 wraps. *)
LEMMA RemainderOfDifference ==
  ASSUME NEW d \in Nat \ {0}, NEW a \in 0 .. d - 1, NEW b \in 0 .. d - 1
  PROVE  (a - b) % d = IF b <= a THEN a - b ELSE a - b + d
  <1>1. CASE b <= a
    <2>1. a - b \in Nat /\ a - b < 2 * d /\ a - b < d
      BY <1>1
    <2> QED BY <1>1, <2>1, RemainderOnce
  <1>2. CASE ~(b <= a)
    <2> DEFINE n == a - b
    <2>1. n \in Int /\ n % d \in 0 .. d - 1 /\ n = d * (n \div d) + (n % d)
      OBVIOUS
    <2>2. -d < n /\ n < 0
      BY <1>2
    <2> DEFINE q == n \div d
               m == n % d
    <2>3. q \in Int
      OBVIOUS
    <2> HIDE DEF n, q, m
    <2>4. n \in Int /\ m \in 0 .. d - 1 /\ n = d * q + m
      BY <2>1 DEF q, m
    <2>5. ~(q >= 0)
      <3> SUFFICES ASSUME q >= 0 PROVE FALSE
        OBVIOUS
      <3>1. d * q \in Nat
        BY <2>3
      <3> QED BY <3>1, <2>2, <2>4
    <2>6. ~(q <= -2)
      <3> SUFFICES ASSUME q <= -2 PROVE FALSE
        OBVIOUS
      <3>1. -2 - q \in Nat
        BY <2>3
      <3>2. d * (-2 - q) \in Nat
        BY <3>1
      <3>3. d * (-2 - q) = -2 * d - d * q
        BY <2>3
      <3>4. d * q \in Int
        BY <2>3
      <3> QED BY <3>2, <3>3, <3>4, <2>2, <2>4
    <2>7. q = -1
      BY <2>3, <2>5, <2>6
    <2>8. m = n + d
      BY <2>4, <2>7
    <2> QED BY <2>8, <1>2 DEF n, m
  <1> QED BY <1>1, <1>2

-----------------------------------------------------------------------------
(* The keyboard's ring. *)

(***************************************************************************)
(* The characters that a later one has not overwritten lie where read_char *)
(* will look for them: also while the ring is overrun, since they are read *)
(* after it has been.  RingHoldsPending alone is not inductive: it says    *)
(* nothing of an overrun ring.                                             *)
(***************************************************************************)
NewestInPlace ==
  \A k \in 1 .. Len(pending) :
    k > Len(pending) - KB_BUFFER_SIZE =>
      buffer[Slot((read_pos + k - 1) % PosMod)] = pending[k]

RingInv ==
  /\ buffer \in [0 .. KB_BUFFER_SIZE - 1 -> Nat]
  /\ read_pos \in 0 .. PosMod - 1
  /\ write_pos \in 0 .. PosMod - 1
  /\ shift_held \in BOOLEAN
  /\ pending \in Seq(Nat)
  /\ Available = Len(pending)
  /\ NewestInPlace

(* What KeyboardAssumption says of the numbers. *)
LEMMA Sizes ==
  /\ KB_BUFFER_SIZE \in Nat \ {0}
  /\ PosMod \in Nat \ {0}
  /\ PosMod % KB_BUFFER_SIZE = 0
  BY KeyboardAssumption

(* A position that wraps at 2^32 keeps its slot. *)
LEMMA SlotOfWrapped ==
  ASSUME NEW n \in Nat, n < 2 * PosMod
  PROVE  Slot(n % PosMod) = n % KB_BUFFER_SIZE
  <1> DEFINE c == PosMod \div KB_BUFFER_SIZE
             low == n - PosMod
  <1>1. c \in Nat /\ PosMod = KB_BUFFER_SIZE * c
    BY Sizes, Quotient, Remainder
  <1>2. CASE n < PosMod
    BY <1>2, Sizes, RemainderOnce DEF Slot
  <1>3. CASE ~(n < PosMod)
    <2>1. low \in Nat /\ n % PosMod = low
      <3>1. low \in Nat
        BY <1>3, Sizes
      <3>2. n % PosMod = IF n < PosMod THEN n ELSE low
        BY Sizes, RemainderOnce
      <3> QED BY <1>3, <3>1, <3>2
    <2> DEFINE q == low \div KB_BUFFER_SIZE
               m == low % KB_BUFFER_SIZE
    <2>2. q \in Nat /\ m \in Nat /\ m < KB_BUFFER_SIZE /\ low = KB_BUFFER_SIZE * q + m
      BY <2>1, Sizes, Quotient, Remainder
    <2>3. n = KB_BUFFER_SIZE * (q + c) + m
      <3>1. n = low + PosMod
        BY <1>3, Sizes
      <3> HIDE DEF q, m, low, c
      <3> QED BY <3>1, <1>1, <2>2, Sizes
    <2>4. n % KB_BUFFER_SIZE = m
      <3>1. q + c \in Nat
        BY <1>1, <2>2
      <3> HIDE DEF q, m, low, c
      <3> QED BY <3>1, <2>2, <2>3, Sizes, RemainderUnique
    <2> QED BY <2>1, <2>4 DEF Slot
  <1> QED BY <1>2, <1>3

(* Positions less than a ring apart have different slots. *)
LEMMA SlotsDiffer ==
  ASSUME NEW a \in Nat, NEW b \in Nat, a < b, b < a + KB_BUFFER_SIZE
  PROVE  a % KB_BUFFER_SIZE # b % KB_BUFFER_SIZE
  <1> SUFFICES ASSUME a % KB_BUFFER_SIZE = b % KB_BUFFER_SIZE PROVE FALSE
    OBVIOUS
  <1> DEFINE K == KB_BUFFER_SIZE
             p == a \div K
             q == b \div K
             m == a % K
  <1>1. /\ p \in Nat /\ q \in Nat /\ m \in Nat /\ a = K * p + m /\ b = K * q + m
    BY Sizes, Quotient, Remainder
  <1>2. K * p \in Nat /\ K * q \in Nat /\ K \in Nat \ {0}
    BY <1>1, Sizes
  <1> HIDE DEF p, q, m
  <1>3. CASE p < q
    <2>1. K * p + K <= K * q
      BY <1>1, <1>2, <1>3, Times
    <2> HIDE DEF K
    <2> QED BY <2>1, <1>1, <1>2 DEF K
  <1>4. CASE q < p
    <2>1. K * q + K <= K * p
      BY <1>1, <1>2, <1>4, Times
    <2> HIDE DEF K
    <2> QED BY <2>1, <1>1, <1>2 DEF K
  <1>5. CASE p = q
    BY <1>1, <1>2, <1>5
  <1> QED BY <1>1, <1>3, <1>4, <1>5

(* The distance between the positions, without a remainder. *)
LEMMA Distance ==
  ASSUME NEW r \in 0 .. PosMod - 1, NEW w \in 0 .. PosMod - 1, NEW n \in 0 .. PosMod - 1
  PROVE  (w - r) % PosMod = n <=> (w = r + n \/ w = r + n - PosMod)
  <1>1. (w - r) % PosMod = IF r <= w THEN w - r ELSE w - r + PosMod
    BY Sizes, RemainderOfDifference
  <1> QED BY <1>1, Sizes

(* The slot of a position is one of the ring's. *)
LEMMA SlotInRing ==
  ASSUME NEW n \in Nat
  PROVE  n % KB_BUFFER_SIZE \in 0 .. KB_BUFFER_SIZE - 1
  <1> DEFINE m == n % KB_BUFFER_SIZE
  <1>1. m \in Nat /\ m < KB_BUFFER_SIZE
    BY Sizes, Remainder
  <1> HIDE DEF m
  <1>2. m \in 0 .. KB_BUFFER_SIZE - 1
    BY <1>1, Sizes
  <1> QED BY <1>2 DEF m

(* Moving a position on by n keeps it in range, and what it is equal to. *)
LEMMA Advance ==
  ASSUME NEW r \in 0 .. PosMod - 1, NEW n \in 0 .. PosMod - 1
  PROVE  /\ (r + n) % PosMod \in 0 .. PosMod - 1
         /\ r + n < PosMod => (r + n) % PosMod = r + n
         /\ ~(r + n < PosMod) => (r + n) % PosMod = r + n - PosMod
  <1> DEFINE e == r + n
             m == e % PosMod
  <1>1. e \in Nat /\ e < 2 * PosMod
    BY Sizes
  <1> HIDE DEF e
  <1>2. m = IF e < PosMod THEN e ELSE e - PosMod
    BY <1>1, Sizes, RemainderOnce
  <1> HIDE DEF m
  <1>3. m \in 0 .. PosMod - 1
    BY <1>1, <1>2, Sizes
  <1>4. (e < PosMod => m = e) /\ (~(e < PosMod) => m = e - PosMod)
    BY <1>2
  <1> QED BY <1>3, <1>4, Sizes DEF e, m

(* A write moves the distance on by one, and went to where the distance says. *)
LEMMA DistanceAfterWrite ==
  ASSUME NEW r \in 0 .. PosMod - 1, NEW w \in 0 .. PosMod - 1,
         NEW n \in Nat, n + 1 < PosMod, (w - r) % PosMod = n
  PROVE  /\ (w + 1) % PosMod \in 0 .. PosMod - 1
         /\ (((w + 1) % PosMod) - r) % PosMod = n + 1
         /\ (r + n) % PosMod = w
  <1> DEFINE w2 == (w + 1) % PosMod
             n2 == n + 1
             e == (r + n) % PosMod
  <1>1. n \in 0 .. PosMod - 1 /\ n2 \in 0 .. PosMod - 1 /\ 1 \in 0 .. PosMod - 1
    BY Sizes
  <1>2. w = r + n \/ w = r + n - PosMod
    BY <1>1, Distance
  <1>3. w2 \in 0 .. PosMod - 1 /\ w2 = IF w + 1 < PosMod THEN w + 1 ELSE w + 1 - PosMod
    BY <1>1, Advance
  <1>4. e = IF r + n < PosMod THEN r + n ELSE r + n - PosMod
    BY <1>1, Advance
  <1> HIDE DEF w2, e
  <1>5. w2 = r + n2 \/ w2 = r + n2 - PosMod
    BY <1>2, <1>3, Sizes
  <1> HIDE DEF n2
  <1>6. (w2 - r) % PosMod = n2
    BY <1>1, <1>3, <1>5, Distance
  <1>7. e = w
    BY <1>2, <1>4, Sizes
  <1> QED BY <1>3, <1>6, <1>7 DEF w2, e, n2

(* n reads take n off the distance, and the k-th character after them was *)
(* the (n + k)-th before them.                                            *)
LEMMA DistanceAfterReads ==
  ASSUME NEW r \in 0 .. PosMod - 1, NEW w \in 0 .. PosMod - 1,
         NEW d \in Nat, d < PosMod, (w - r) % PosMod = d, NEW n \in Nat, n <= d,
         NEW r2 \in Int, r2 = (r + n) % PosMod
  PROVE  /\ r2 \in 0 .. PosMod - 1
         /\ (w - r2) % PosMod = d - n
         /\ \A k \in 1 .. d - n : (r2 + k - 1) % PosMod = (r + (k + n) - 1) % PosMod
  <1> DEFINE d2 == d - n
  <1>1. n \in 0 .. PosMod - 1 /\ d2 \in 0 .. PosMod - 1 /\ d \in 0 .. PosMod - 1
    BY Sizes
  <1>2. w = r + d \/ w = r + d - PosMod
    BY <1>1, Distance
  <1>3. r2 \in 0 .. PosMod - 1 /\ r2 = IF r + n < PosMod THEN r + n ELSE r + n - PosMod
    BY <1>1, Advance
  <1>4. w = r2 + d2 \/ w = r2 + d2 - PosMod
    BY <1>2, <1>3, Sizes
  <1>5. ASSUME NEW k \in 1 .. d2
        PROVE  (r2 + k - 1) % PosMod = (r + (k + n) - 1) % PosMod
    <2> DEFINE a == k - 1
               b == k + n - 1
    <2>1. a \in 0 .. PosMod - 1 /\ b \in 0 .. PosMod - 1 /\ b = a + n
      BY <1>1, Sizes
    <2>2. r2 + k - 1 = r2 + a /\ r + (k + n) - 1 = r + b
      BY <1>3, Sizes
    <2> HIDE DEF a, b
    <2>3. (r2 + a) % PosMod = IF r2 + a < PosMod THEN r2 + a ELSE r2 + a - PosMod
      BY <1>3, <2>1, Advance
    <2>4. (r + b) % PosMod = IF r + b < PosMod THEN r + b ELSE r + b - PosMod
      BY <2>1, Advance
    <2>5. (r2 + a) % PosMod = (r + b) % PosMod
      <3> DEFINE x == (r2 + a) % PosMod
                 y == (r + b) % PosMod
      <3>1. x = IF r2 + a < PosMod THEN r2 + a ELSE r2 + a - PosMod
        BY <2>3
      <3>2. y = IF r + b < PosMod THEN r + b ELSE r + b - PosMod
        BY <2>4
      <3> HIDE DEF x, y
      <3>3. x = y
        BY <3>1, <3>2, <1>3, <2>1, Sizes
      <3> QED BY <3>3 DEF x, y
    <2> QED BY <2>2, <2>5
  <1> HIDE DEF d2
  <1>6. (w - r2) % PosMod = d2
    BY <1>1, <1>3, <1>4, Distance
  <1> QED BY <1>3, <1>5, <1>6 DEF d2

-----------------------------------------------------------------------------
(* The tables have a character for every scancode that is looked up. *)
LEMMA Character ==
  ASSUME NEW scancode \in Scancodes
  PROVE  Translate(scancode) \in Nat
  <1>1. ~(scancode >= KB_RELEASED) => scancode \in 0 .. KB_RELEASED - 1
    BY KeyboardAssumption DEF Scancodes
  <1> QED BY <1>1, KeyboardAssumption DEF Translate

(* A character for the ring: it goes behind the pending ones, and a full *)
(* ring loses only the oldest of those that were in place.               *)
LEMMA BufferKeepsRing ==
  ASSUME RingInv, Len(pending) + 1 < PosMod, NEW scancode \in Scancodes, Buffer(scancode)
  PROVE  RingInv'
  <1> DEFINE c == Translate(scancode)
             L == Len(pending)
  <1>1. /\ buffer' = [buffer EXCEPT ![Slot(write_pos)] = c]
        /\ write_pos' = (write_pos + 1) % PosMod
        /\ pending' = Append(pending, c)
        /\ UNCHANGED <<read_pos, shift_held>>
    BY DEF Buffer
  <1>2. c \in Nat
    BY Character
  <1> HIDE DEF c
  <1>3. /\ L \in Nat /\ Len(pending') = L + 1 /\ pending' \in Seq(Nat)
        /\ pending'[L + 1] = c
        /\ \A k \in 1 .. L : pending'[k] = pending[k]
    BY <1>1, <1>2 DEF RingInv
  <1>4. read_pos \in 0 .. PosMod - 1 /\ write_pos \in 0 .. PosMod - 1
    BY DEF RingInv
  <1>5. /\ write_pos' \in 0 .. PosMod - 1
        /\ Available' = Len(pending')
        /\ (read_pos + L) % PosMod = write_pos
    <2> HIDE DEF L
    <2>1. (write_pos - read_pos) % PosMod = L /\ L + 1 < PosMod
      BY DEF RingInv, Available, L
    <2>2. /\ (write_pos + 1) % PosMod \in 0 .. PosMod - 1
          /\ (((write_pos + 1) % PosMod) - read_pos) % PosMod = L + 1
          /\ (read_pos + L) % PosMod = write_pos
      BY <1>3, <1>4, <2>1, DistanceAfterWrite
    <2> QED BY <1>1, <1>3, <2>2 DEF Available
  <1>8. Slot(write_pos) = (read_pos + L) % KB_BUFFER_SIZE
    <2> DEFINE e == read_pos + L
    <2>1. e \in Nat /\ e < 2 * PosMod
      BY <1>3, <1>4, Sizes
    <2>2. e % PosMod = write_pos
      BY <1>5
    <2> HIDE DEF e
    <2>3. Slot(e % PosMod) = e % KB_BUFFER_SIZE
      BY <2>1, SlotOfWrapped
    <2> QED BY <2>2, <2>3 DEF e
  <1>9. Slot(write_pos) \in 0 .. KB_BUFFER_SIZE - 1
    BY <1>4, SlotInRing DEF Slot
  <1>10. buffer' \in [0 .. KB_BUFFER_SIZE - 1 -> Nat] /\ buffer'[Slot(write_pos)] = c
    BY <1>1, <1>2, <1>9 DEF RingInv
  <1>11. NewestInPlace'
    <2>0. Len(pending') = L + 1 /\ read_pos' = read_pos
      BY <1>1, <1>3
    <2> SUFFICES ASSUME NEW k \in 1 .. Len(pending'), k > Len(pending') - KB_BUFFER_SIZE
                 PROVE  buffer'[Slot((read_pos' + k - 1) % PosMod)] = pending'[k]
      BY DEF NewestInPlace
    <2> DEFINE pos == read_pos + k - 1
    <2>1. /\ pos \in Nat /\ pos < 2 * PosMod /\ k \in 1 .. L + 1 /\ k > L + 1 - KB_BUFFER_SIZE
          /\ read_pos + L \in Nat /\ pos <= read_pos + L
      BY <1>3, <1>4, <2>0, Sizes
    <2>2. /\ Slot(pos % PosMod) = pos % KB_BUFFER_SIZE
          /\ Slot(pos % PosMod) \in 0 .. KB_BUFFER_SIZE - 1
      <3> HIDE DEF pos
      <3> QED BY <2>1, SlotOfWrapped, SlotInRing
    <2>3. CASE k = L + 1
      <3>1. pos = read_pos + L
        BY <1>3, <1>4, <2>3
      <3> HIDE DEF pos
      <3>2. buffer'[Slot(pos % PosMod)] = c
        BY <3>1, <2>2, <1>8, <1>10
      <3> QED BY <3>2, <2>0, <2>3, <1>3 DEF pos
    <2>4. CASE k # L + 1
      <3>1. /\ k \in 1 .. L /\ k > L - KB_BUFFER_SIZE
            /\ pos < read_pos + L /\ read_pos + L < pos + KB_BUFFER_SIZE
        BY <1>3, <1>4, <2>1, <2>4, Sizes
      <3>2. pos % KB_BUFFER_SIZE # (read_pos + L) % KB_BUFFER_SIZE
        BY <2>1, <3>1, SlotsDiffer
      <3>3. Slot(pos % PosMod) # Slot(write_pos)
        BY <2>2, <3>2, <1>8
      <3>5. buffer'[Slot(pos % PosMod)] = buffer[Slot(pos % PosMod)]
        BY <1>1, <2>2, <3>3 DEF RingInv
      <3>6. buffer[Slot(pos % PosMod)] = pending[k]
        BY <3>1 DEF RingInv, NewestInPlace
      <3> QED BY <3>1, <3>5, <3>6, <1>3, <2>0
    <2> QED BY <2>3, <2>4
  <1> QED BY <1>1, <1>3, <1>4, <1>5, <1>10, <1>11 DEF RingInv

(* n calls of read_char, none on an empty ring: they take the n oldest. *)
LEMMA ReadsKeepRing ==
  ASSUME RingInv, NEW n \in Nat, read_chars(n)
  PROVE  RingInv' /\ Len(pending') = Len(pending) - n
  <1> DEFINE L == Len(pending)
  <1>1. /\ n <= L
        /\ read_pos' = (read_pos + n) % PosMod
        /\ pending' = SubSeq(pending, n + 1, L)
        /\ UNCHANGED <<buffer, write_pos, shift_held>>
    BY DEF read_chars, RingInv
  <1>2. /\ L \in Nat /\ pending \in Seq(Nat) /\ \A k \in 1 .. L : pending[k] \in Nat
        /\ read_pos \in 0 .. PosMod - 1 /\ write_pos \in 0 .. PosMod - 1
        /\ (write_pos - read_pos) % PosMod = L
    BY DEF RingInv, Available
  <1> HIDE DEF L
  <1>3. L \in 0 .. PosMod - 1
    <2>1. (write_pos - read_pos) % PosMod =
            IF read_pos <= write_pos THEN write_pos - read_pos ELSE write_pos - read_pos + PosMod
      BY <1>2, Sizes, RemainderOfDifference
    <2> QED BY <1>2, <2>1, Sizes
  <1>4. /\ pending' \in Seq(Nat) /\ Len(pending') = L - n
        /\ \A k \in 1 .. L - n : pending'[k] = pending[k + n]
    <2>1. \A k \in n + 1 .. L : pending[k] \in Nat
      BY <1>2
    <2>2. n + 1 \in Int /\ L \in Int
      BY <1>2
    <2>3. /\ SubSeq(pending, n + 1, L) \in Seq(Nat)
          /\ Len(SubSeq(pending, n + 1, L)) = IF n + 1 <= L THEN L - (n + 1) + 1 ELSE 0
          /\ \A k \in 1 .. L - (n + 1) + 1 : SubSeq(pending, n + 1, L)[k] = pending[(n + 1) + k - 1]
      BY <2>1, <2>2, SubSeqProperties
    <2>4. Len(pending') = L - n
      BY <1>1, <1>2, <2>3
    <2>5. ASSUME NEW k \in 1 .. L - n PROVE pending'[k] = pending[k + n]
      <3>1. k \in 1 .. L - (n + 1) + 1 /\ (n + 1) + k - 1 = k + n
        BY <1>2
      <3>2. pending'[k] = pending[(n + 1) + k - 1]
        BY <1>1, <2>3, <3>1
      <3> QED BY <3>1, <3>2
    <2> QED BY <1>1, <2>3, <2>4, <2>5
  <1>5. /\ read_pos' \in 0 .. PosMod - 1
        /\ (write_pos - read_pos') % PosMod = L - n
        /\ \A k \in 1 .. L - n : (read_pos' + k - 1) % PosMod = (read_pos + (k + n) - 1) % PosMod
    <2>1. read_pos' \in Int
      BY <1>1, <1>2, Sizes
    <2>2. L < PosMod
      BY <1>3, Sizes
    <2>3. /\ read_pos' = (read_pos + n) % PosMod /\ (write_pos - read_pos) % PosMod = L
          /\ read_pos \in 0 .. PosMod - 1 /\ write_pos \in 0 .. PosMod - 1
          /\ L \in Nat /\ n <= L
      BY <1>1, <1>2
    <2>4. read_pos' \in 0 .. PosMod - 1
      BY <2>1, <2>2, <2>3, DistanceAfterReads
    <2>5. (write_pos - read_pos') % PosMod = L - n
      BY <2>1, <2>2, <2>3, DistanceAfterReads
    <2>6. \A k \in 1 .. L - n : (read_pos' + k - 1) % PosMod = (read_pos + (k + n) - 1) % PosMod
      BY <2>1, <2>2, <2>3, DistanceAfterReads
    <2> QED BY <2>4, <2>5, <2>6
  <1>6. Available' = Len(pending')
    BY <1>1, <1>4, <1>5 DEF Available
  <1>7. NewestInPlace'
    <2> SUFFICES ASSUME NEW k \in 1 .. Len(pending'), k > Len(pending') - KB_BUFFER_SIZE
                 PROVE  buffer'[Slot((read_pos' + k - 1) % PosMod)] = pending'[k]
      BY DEF NewestInPlace
    <2>1. k \in 1 .. L - n /\ k + n \in 1 .. L /\ k + n > L - KB_BUFFER_SIZE
      BY <1>1, <1>2, <1>4, Sizes
    <2>2. buffer[Slot((read_pos + (k + n) - 1) % PosMod)] = pending[k + n]
      BY <2>1 DEF RingInv, NewestInPlace, L
    <2>3. (read_pos' + k - 1) % PosMod = (read_pos + (k + n) - 1) % PosMod
      BY <1>1, <1>5, <2>1
    <2> QED BY <1>1, <1>4, <2>1, <2>2, <2>3
  <1> QED BY <1>1, <1>2, <1>4, <1>5, <1>6, <1>7 DEF RingInv, L

(* Shift and control change nothing in the ring. *)
LEMMA ModifiersKeepRing ==
  ASSUME RingInv, shift_held' \in BOOLEAN, UNCHANGED <<buffer, read_pos, write_pos, pending>>
  PROVE  RingInv'
  BY DEF RingInv, Available, NewestInPlace

(* What handle_interrupt does for any scancode keeps the ring. *)
LEMMA HandlerKeepsRing ==
  ASSUME RingInv, Len(pending) + 1 < PosMod, NEW scancode \in Scancodes,
         handle_interrupt(scancode)
  PROVE  RingInv'
  <1>1. CASE ShiftPress(scancode) \/ ShiftRelease(scancode) \/ Ctrl(scancode) \/ Ignore(scancode)
    <2>1. shift_held' \in BOOLEAN /\ UNCHANGED <<buffer, read_pos, write_pos, pending>>
      BY <1>1 DEF ShiftPress, ShiftRelease, Ctrl, Ignore, kbVars, RingInv
    <2> QED BY <2>1, ModifiersKeepRing
  <1>2. CASE Buffer(scancode)
    BY <1>2, BufferKeepsRing
  <1> QED BY <1>1, <1>2 DEF handle_interrupt

(* Static storage is an empty ring. *)
LEMMA KbInitIsRing == KbInit => RingInv /\ Len(pending) = 0
  <1> SUFFICES ASSUME KbInit PROVE RingInv /\ Len(pending) = 0
    OBVIOUS
  <1>1. /\ pending = <<>> /\ read_pos = 0 /\ write_pos = 0 /\ shift_held = FALSE
        /\ buffer = [s \in 0 .. KB_BUFFER_SIZE - 1 |-> 0]
    BY DEF KbInit
  <1>2. Len(pending) = 0 /\ pending \in Seq(Nat)
    BY <1>1
  <1>3. 0 \in 0 .. PosMod - 1
    BY Sizes
  <1>4. Available = 0
    <2>1. (0 - 0) % PosMod = 0
      BY <1>3, Distance, Sizes
    <2> QED BY <1>1, <2>1 DEF Available
  <1>5. NewestInPlace
    BY <1>2 DEF NewestInPlace
  <1> QED BY <1>1, <1>2, <1>3, <1>4, <1>5 DEF RingInv

(* The characters that the next reads return are the oldest pending ones. *)
LEMMA RingIsQueue == RingInv => RingHoldsPending
  <1> SUFFICES ASSUME RingInv, Len(pending) <= KB_BUFFER_SIZE
               PROVE  Chars(Len(pending)) = pending
    BY DEF RingInv, RingHoldsPending
  <1>1. pending = [k \in 1 .. Len(pending) |-> pending[k]]
    BY DEF RingInv
  <1>2. \A k \in 1 .. Len(pending) :
          buffer[Slot((read_pos + k - 1) % PosMod)] = pending[k]
    BY Sizes DEF RingInv, NewestInPlace
  <1> QED BY <1>1, <1>2 DEF Chars

(***************************************************************************)
(* For every size of the ring: read_char returns what was typed, in order, *)
(* as long as no more than KB_BUFFER_SIZE characters wait, also after the  *)
(* ring was overrun and after the positions wrapped.                       *)
(***************************************************************************)
THEOREM KeyboardRingHoldsPending == KbSpec => []RingHoldsPending
  <1> DEFINE Inv == RingInv /\ Len(pending) <= MaxPending
  <1>1. KbInit => Inv
    BY KbInitIsRing, KeyboardAssumption
  <1>2. Inv /\ [KbNext]_kbVars => Inv'
    <2> SUFFICES ASSUME Inv, [KbNext]_kbVars PROVE Inv'
      OBVIOUS
    <2>1. Len(pending) \in Nat /\ MaxPending \in Nat /\ MaxPending < PosMod
          /\ PosMod \in Nat
      BY KeyboardAssumption DEF RingInv
    <2>2. ASSUME NEW scancode \in Scancodes, Len(pending) < MaxPending,
                 handle_interrupt(scancode)
          PROVE  Inv'
      <3>1. RingInv'
        BY <2>1, <2>2, HandlerKeepsRing
      <3>2. pending' = pending \/ Len(pending') = Len(pending) + 1
        BY <2>2 DEF handle_interrupt, ShiftPress, ShiftRelease, Ctrl, Ignore, Buffer, kbVars,
                    RingInv
      <3> QED BY <3>1, <3>2, <2>1, <2>2
    <2>3. CASE read_chars(1)
      BY <2>1, <2>3, ReadsKeepRing
    <2>4. CASE UNCHANGED kbVars
      BY <2>4, ModifiersKeepRing DEF kbVars, RingInv
    <2> QED BY <2>2, <2>3, <2>4 DEF KbNext
  <1> QED BY <1>1, <1>2, RingIsQueue, PTL DEF KbSpec

-----------------------------------------------------------------------------
(* Interrupts. *)

(* A handler that runs: it interrupted code that had IF set. *)
Frame == {f \in [irq : 0 .. 15, pc : {"dispatch", "eoi2", "eoi1", "iret"}, eflags : {TRUE}] :
            f.pc = "eoi2" => f.irq >= 8}

(* All gates are interrupt gates: handlers do not nest. *)
OneHandler ==
  /\ iflag = TRUE \/ iflag = FALSE
  /\ \/ stack = <<>>
     \/ iflag = FALSE /\ \E f \in Frame : stack = <<f>>

(* platform_init goes through its steps in order, and enables interrupts   *)
(* only after idt::init has filled in the default handlers.                *)
StartUp ==
  /\ handlers \in [{33, 128} -> {NoHandler, "default_irq", "keyboard", "default",
                                "syscall_handler"}]
  /\ main \in {"idt", "sti", "syscalls", "kb_init", "kb_register", "read", "done"}
  /\ main \in {"idt", "sti"} => stack = <<>> /\ iflag = FALSE
  /\ main = "idt" => handlers[33] = NoHandler
  /\ main \in {"sti", "syscalls", "kb_init", "kb_register"} => handlers[33] = "default_irq"
  /\ main \in {"read", "done"} => handlers[33] = "keyboard"

(* Only devices and the keyboard raise lines. *)
Requests == irr \subseteq DeviceIRQs \cup {1}

DispatchInv == OneHandler /\ StartUp /\ Requests

(***************************************************************************)
(* The lines in service, in terms of the one handler that may be running,  *)
(* if only spurious interrupts come in on lines 7 and 15.                  *)
(***************************************************************************)
InService1(f) == IF f.pc # "iret" /\ f.irq # 7 THEN {MasterLine(f.irq)} ELSE {}
InService2(f) == IF f.pc \in {"dispatch", "eoi2"} /\ f.irq >= 8 /\ f.irq # 15 THEN {f.irq} ELSE {}

Served ==
  /\ stack = <<>> => isr1 = {} /\ isr2 = {}
  /\ stack # <<>> => isr1 = InService1(Top) /\ isr2 = InService2(Top)

(* The keyboard is silent until its driver is registered. *)
SilentBefore == handlers[33] # "keyboard" => keyq = <<>> /\ obf = Empty

(* Scancodes on their way. *)
Codes ==
  /\ keyq \in Seq(PressCodes)
  /\ obf \in PressCodes \cup {Empty}

(* The ring, and what kmain has read, after the driver is registered ... *)
InOrder ==
  /\ buffer \in [0 .. KB_BUFFER_SIZE - 1 -> Nat]
  /\ read_pos \in 0 .. PosMod - 1
  /\ write_pos \in 0 .. PosMod - 1
  /\ typed \in Seq(Nat)
  /\ buf_ra \in Seq(Nat)
  /\ Len(buf_ra) <= WANTED
  /\ ~overrun => /\ RingInv
                 /\ Len(pending) <= KB_BUFFER_SIZE
                 /\ buf_ra \o pending = typed

(* ... and before. *)
NothingTyped ==
  handlers[33] # "keyboard" => pending = <<>> /\ typed = <<>> /\ buf_ra = <<>>

ReadInv == Codes /\ InOrder /\ NothingTyped

-----------------------------------------------------------------------------
(* The interrupt controllers' lines. *)
LEMMA Lines ==
  /\ DeviceIRQs \subseteq 0 .. 15
  /\ PressCodes \subseteq Scancodes
  /\ WANTED \in Nat
  BY InterruptsAssumption

(* What a handler's step does to a stack with one frame. *)
LEMMA OneFrame ==
  ASSUME NEW f \in Frame, stack = <<f>>
  PROVE  /\ stack # <<>> /\ Len(stack) = 1 /\ Top = f /\ stack[1] = f
         /\ \A pc : Goto(pc) => stack' = <<[f EXCEPT !.pc = pc]>>
         /\ SubSeq(stack, 1, Len(stack) - 1) = <<>>
  <1>1. stack # <<>> /\ Len(stack) = 1 /\ Top = f /\ stack[1] = f
    BY DEF Top
  <1>2. ASSUME NEW pc, Goto(pc) PROVE stack' = <<[f EXCEPT !.pc = pc]>>
    BY <1>1, <1>2 DEF Goto
  <1>3. SubSeq(stack, 1, Len(stack) - 1) = <<>>
    BY <1>1
  <1> QED BY <1>1, <1>2, <1>3

(* The processor enters a handler only from code with IF set. *)
LEMMA EnterFrame ==
  ASSUME OneHandler, iflag = TRUE, NEW irq \in 0 .. 15, Enter(irq)
  PROVE  /\ stack = <<>> /\ iflag' = FALSE
         /\ [irq |-> irq, pc |-> "dispatch", eflags |-> TRUE] \in Frame
         /\ stack' = <<[irq |-> irq, pc |-> "dispatch", eflags |-> TRUE]>>
  <1>1. stack = <<>>
    BY DEF OneHandler
  <1>2. stack' = <<[irq |-> irq, pc |-> "dispatch", eflags |-> TRUE]>> /\ iflag' = FALSE
    BY <1>1 DEF Enter
  <1> QED BY <1>1, <1>2 DEF Frame

(* The handler that runs, and where it goes. *)
LEMMA HandlerFrame ==
  ASSUME OneHandler, Handler
  PROVE  \E f \in Frame :
           /\ stack = <<f>> /\ iflag = FALSE
           /\ \/ /\ f.pc = "dispatch" /\ iflag' = iflag
                 /\ (DefaultIrqHandler \/ KeyboardIrqHandler)
                 /\ stack' = <<[f EXCEPT !.pc = IF f.irq >= 8 THEN "eoi2" ELSE "eoi1"]>>
              \/ /\ f.pc = "eoi2" /\ EoiSlave /\ iflag' = iflag
                 /\ stack' = <<[f EXCEPT !.pc = "eoi1"]>>
              \/ /\ f.pc = "eoi1" /\ EoiMaster /\ iflag' = iflag
                 /\ stack' = <<[f EXCEPT !.pc = "iret"]>>
              \/ /\ f.pc = "iret" /\ Iret /\ iflag' = TRUE
                 /\ stack' = <<>>
  <1>1. stack # <<>>
    BY DEF Handler, DefaultIrqHandler, KeyboardIrqHandler, EoiSlave, EoiMaster, Iret, Running
  <1>2. PICK f \in Frame : stack = <<f>> /\ iflag = FALSE
    BY <1>1 DEF OneHandler
  <1>3. /\ Top = f /\ \A pc : Goto(pc) => stack' = <<[f EXCEPT !.pc = pc]>>
        /\ SubSeq(stack, 1, Len(stack) - 1) = <<>>
    BY <1>2, OneFrame
  <1>4. CASE DefaultIrqHandler \/ KeyboardIrqHandler
    <2>1. f.pc = "dispatch" /\ iflag' = iflag /\ Goto(AfterDispatch)
      BY <1>3, <1>4 DEF DefaultIrqHandler, KeyboardIrqHandler, Running
    <2>2. AfterDispatch = IF f.irq >= 8 THEN "eoi2" ELSE "eoi1"
      BY <1>3 DEF AfterDispatch
    <2> QED BY <1>2, <1>3, <1>4, <2>1, <2>2
  <1>5. CASE EoiSlave
    <2>1. f.pc = "eoi2" /\ iflag' = iflag /\ Goto("eoi1")
      BY <1>3, <1>5 DEF EoiSlave, Running
    <2> QED BY <1>2, <1>3, <1>5, <2>1
  <1>6. CASE EoiMaster
    <2>1. f.pc = "eoi1" /\ iflag' = iflag /\ Goto("iret")
      BY <1>3, <1>6 DEF EoiMaster, Running
    <2> QED BY <1>2, <1>3, <1>6, <2>1
  <1>7. CASE Iret
    <2>1. f.pc = "iret" /\ iflag' = f.eflags /\ stack' = <<>>
      BY <1>3, <1>7 DEF Iret, Running
    <2>2. f.eflags = TRUE
      BY DEF Frame
    <2> QED BY <1>2, <1>7, <2>1, <2>2
  <1> QED BY <1>4, <1>5, <1>6, <1>7 DEF Handler

(* The frame after each of its steps is a frame again. *)
LEMMA NextFrame ==
  ASSUME NEW f \in Frame
  PROVE  /\ f.irq \in 0 .. 15
         /\ f.pc = "dispatch" =>
              [f EXCEPT !.pc = IF f.irq >= 8 THEN "eoi2" ELSE "eoi1"] \in Frame
         /\ [f EXCEPT !.pc = "eoi1"] \in Frame
         /\ [f EXCEPT !.pc = "iret"] \in Frame
  BY DEF Frame

(* The devices leave the processor and the kernel alone. *)
LEMMA DevicesLeaveKernel ==
  ASSUME \/ \E scancode \in PressCodes : StrikeKey(scancode)
         \/ LoadOutput
         \/ \E irq \in DeviceIRQs : Raise(irq)
  PROVE  UNCHANGED <<kbVars, isr1, isr2, iflag, stack, kernelVars>>
  BY DEF StrikeKey, LoadOutput, Raise, picVars

(* Handlers leave the table of handlers, the lines and the thread alone. *)
LEMMA HandlersLeaveThread ==
  ASSUME Handler
  PROVE  UNCHANGED <<irr, handlers, main, buf_ra>>
  BY DEF Handler, DefaultIrqHandler, KeyboardIrqHandler, EoiSlave, EoiMaster, Iret, picVars,
         kernelVars

(* Handlers do not nest, and the keyboard's is registered last. *)
LEMMA DispatchStep == DispatchInv /\ [Next]_vars => DispatchInv'
  <1> SUFFICES ASSUME DispatchInv, [Next]_vars PROVE DispatchInv'
    OBVIOUS
  <1> USE DEF DispatchInv
  <1>1. CASE \/ \E scancode \in PressCodes : StrikeKey(scancode)
             \/ LoadOutput
             \/ \E irq \in DeviceIRQs : Raise(irq)
    <2>1. UNCHANGED <<iflag, stack, handlers, main>>
      BY <1>1, DevicesLeaveKernel DEF kernelVars
    <2>2. Requests'
      BY <1>1 DEF StrikeKey, LoadOutput, Raise, Requests, picVars
    <2> QED BY <2>1, <2>2 DEF OneHandler, StartUp
  <1>2. ASSUME NEW irq \in 0 .. 15, Deliver(irq) \/ Spurious(irq) PROVE DispatchInv'
    <2>1. iflag = TRUE /\ Enter(irq) /\ UNCHANGED <<handlers, main>>
      <3>1. iflag
        BY <1>2 DEF Deliver, Spurious
      <3>2. iflag = TRUE
        BY <3>1, Zenon DEF OneHandler
      <3> QED BY <1>2, <3>2 DEF Deliver, Spurious, kernelVars
    <2>2. OneHandler'
      BY <2>1, EnterFrame DEF OneHandler
    <2>3. Requests'
      BY <1>2 DEF Deliver, Spurious, Requests
    <2>4. StartUp'
      BY <2>1 DEF StartUp
    <2> QED BY <2>2, <2>3, <2>4
  <1>3. CASE Handler
    <2>1. UNCHANGED <<irr, handlers, main>>
      BY <1>3, HandlersLeaveThread
    <2>2. OneHandler' /\ stack # <<>>
      <3>1. PICK f \in Frame :
              /\ stack = <<f>> /\ iflag = FALSE
              /\ \/ /\ f.pc = "dispatch" /\ iflag' = FALSE
                    /\ stack' = <<[f EXCEPT !.pc = IF f.irq >= 8 THEN "eoi2" ELSE "eoi1"]>>
                 \/ iflag' = FALSE /\ stack' = <<[f EXCEPT !.pc = "eoi1"]>>
                 \/ iflag' = FALSE /\ stack' = <<[f EXCEPT !.pc = "iret"]>>
                 \/ iflag' = TRUE /\ stack' = <<>>
        BY <1>3, HandlerFrame, Zenon
      <3>2. \/ iflag' = FALSE /\ \E g \in Frame : stack' = <<g>>
            \/ iflag' = TRUE /\ stack' = <<>>
        BY <3>1, NextFrame
      <3>3. stack # <<>>
        BY <3>1
      <3> QED BY <3>2, <3>3 DEF OneHandler
    <2> QED BY <2>1, <2>2 DEF StartUp, Requests
  <1>4. CASE Thread
    <2>1. stack = <<>> /\ stack' = stack
      BY <1>4 DEF Thread, IdtInit, EnableInterrupts, SyscallsInit, KeyboardInit,
                  RegisterKeyboard, ReadSyscall, KmainDone, At
    <2>2. OneHandler'
      BY <2>1 DEF OneHandler
    <2>3. Requests'
      BY <1>4 DEF Thread, IdtInit, EnableInterrupts, SyscallsInit, KeyboardInit,
                  RegisterKeyboard, ReadSyscall, KmainDone, pic_remap, Requests, picVars
    <2>4. StartUp'
      BY <1>4, <2>1 DEF Thread, IdtInit, EnableInterrupts, SyscallsInit, KeyboardInit,
                  RegisterKeyboard, ReadSyscall, KmainDone, At, StartUp, kernelVars
    <2> QED BY <2>2, <2>3, <2>4
  <1>5. CASE UNCHANGED vars
    BY <1>5 DEF vars, OneHandler, StartUp, Requests, picVars, kernelVars
  <1> QED BY <1>1, <1>2, <1>3, <1>4, <1>5 DEF Next, Interrupt

(* platform_init starts with interrupts off and no handler. *)
LEMMA DispatchStart == Init => DispatchInv
  <1> SUFFICES ASSUME Init PROVE DispatchInv
    OBVIOUS
  <1>1. OneHandler /\ Requests
    BY DEF Init, OneHandler, Requests
  <1>2. StartUp
    BY DEF Init, StartUp, NoHandler
  <1> QED BY <1>1, <1>2 DEF DispatchInv

-----------------------------------------------------------------------------
(* An EOI ends the one line that is in service. *)
LEMMA AcknowledgeOne ==
  /\ Acknowledge({}) = {}
  /\ \A n \in Nat : Acknowledge({n}) = {}
  BY DEF Acknowledge

(* Every step keeps the lines in service those of the running handler. *)
LEMMA ServedStep ==
  ASSUME DeviceIRQs \cap {7, 15} = {}
  PROVE  DispatchInv /\ Served /\ [Next]_vars => Served'
  <1> SUFFICES ASSUME DispatchInv, Served, [Next]_vars PROVE Served'
    OBVIOUS
  <1>0. OneHandler /\ Requests /\ irr \cap {2, 7, 15} = {} /\ irr \subseteq 0 .. 15
    BY InterruptsAssumption DEF DispatchInv, Requests
  <1>1. CASE \/ \E scancode \in PressCodes : StrikeKey(scancode)
             \/ LoadOutput
             \/ \E irq \in DeviceIRQs : Raise(irq)
    BY <1>1, DevicesLeaveKernel DEF Served, Top
  <1>2. ASSUME NEW irq \in 0 .. 15, Deliver(irq) \/ (irq \in {7, 15} /\ Spurious(irq))
        PROVE  Served'
    <2>1. iflag = TRUE /\ Enter(irq)
      <3>1. iflag
        BY <1>2 DEF Deliver, Spurious
      <3>2. iflag = TRUE
        BY <3>1, <1>0, Zenon DEF OneHandler
      <3> QED BY <1>2, <3>2 DEF Deliver, Spurious
    <2> DEFINE f == [irq |-> irq, pc |-> "dispatch", eflags |-> TRUE]
    <2>2. stack = <<>> /\ f \in Frame /\ stack' = <<f>>
      BY <1>0, <2>1, EnterFrame
    <2>3. Top' = f /\ stack' # <<>>
      BY <2>2 DEF Top
    <2>4. isr1 = {} /\ isr2 = {}
      BY <2>2 DEF Served
    <2>5. isr1' = InService1(f) /\ isr2' = InService2(f)
      <3>1. CASE Deliver(irq)
        <4>1. irq \in irr
          BY <3>1 DEF Deliver
        <4>2. irq # 7 /\ irq # 15
          BY <4>1, <1>0
        <4> QED BY <3>1, <4>2, <2>4 DEF Deliver, InService1, InService2
      <3>2. CASE irq \in {7, 15} /\ Spurious(irq)
        BY <3>2, <2>4 DEF Spurious, InService1, InService2, MasterLine
      <3> QED BY <1>2, <3>1, <3>2
    <2> HIDE DEF f
    <2> QED BY <2>3, <2>5 DEF Served
  <1>3. CASE Handler
    <2>1. PICK f \in Frame :
           /\ stack = <<f>>
           /\ \/ /\ f.pc = "dispatch" /\ (DefaultIrqHandler \/ KeyboardIrqHandler)
                 /\ stack' = <<[f EXCEPT !.pc = IF f.irq >= 8 THEN "eoi2" ELSE "eoi1"]>>
              \/ f.pc = "eoi2" /\ EoiSlave /\ stack' = <<[f EXCEPT !.pc = "eoi1"]>>
              \/ f.pc = "eoi1" /\ EoiMaster /\ stack' = <<[f EXCEPT !.pc = "iret"]>>
              \/ f.pc = "iret" /\ Iret /\ stack' = <<>>
      BY <1>0, <1>3, HandlerFrame, Zenon
    <2>2. /\ isr1 = InService1(f) /\ isr2 = InService2(f)
          /\ f \in [irq : 0 .. 15, pc : {"dispatch", "eoi2", "eoi1", "iret"}, eflags : {TRUE}]
          /\ f.pc = "eoi2" => f.irq >= 8
      <3>1. Top = f /\ stack # <<>>
        BY <2>1, OneFrame
      <3> QED BY <3>1 DEF Served, Frame
    <2>3. ASSUME NEW g, stack' = <<g>>, isr1' = InService1(g), isr2' = InService2(g)
          PROVE  Served'
      <3>1. Top' = g /\ stack' # <<>>
        BY <2>3 DEF Top
      <3> QED BY <2>3, <3>1 DEF Served
    <2>4. CASE /\ f.pc = "dispatch" /\ (DefaultIrqHandler \/ KeyboardIrqHandler)
               /\ stack' = <<[f EXCEPT !.pc = IF f.irq >= 8 THEN "eoi2" ELSE "eoi1"]>>
      <3> DEFINE g == [f EXCEPT !.pc = IF f.irq >= 8 THEN "eoi2" ELSE "eoi1"]
      <3>1. isr1' = isr1 /\ isr2' = isr2
        BY <2>4 DEF DefaultIrqHandler, KeyboardIrqHandler, picVars
      <3>2. InService1(g) = InService1(f) /\ InService2(g) = InService2(f)
        BY <2>2, <2>4 DEF InService1, InService2
      <3> QED BY <2>2, <2>3, <2>4, <3>1, <3>2
    <2>5. CASE f.pc = "eoi2" /\ EoiSlave /\ stack' = <<[f EXCEPT !.pc = "eoi1"]>>
      <3> DEFINE g == [f EXCEPT !.pc = "eoi1"]
      <3>1. isr1' = isr1 /\ isr2' = Acknowledge(isr2)
        BY <2>5 DEF EoiSlave
      <3>2. InService1(g) = InService1(f) /\ InService2(g) = {}
        BY <2>2, <2>5 DEF InService1, InService2
      <3>3. Acknowledge(isr2) = {}
        BY <2>2, AcknowledgeOne DEF InService2
      <3> QED BY <2>2, <2>3, <2>5, <3>1, <3>2, <3>3
    <2>6. CASE f.pc = "eoi1" /\ EoiMaster /\ stack' = <<[f EXCEPT !.pc = "iret"]>>
      <3> DEFINE g == [f EXCEPT !.pc = "iret"]
      <3>1. isr2' = isr2 /\ isr1' = Acknowledge(isr1)
        BY <2>6 DEF EoiMaster
      <3>2. InService1(g) = {} /\ InService2(g) = {} /\ InService2(f) = {}
        BY <2>2, <2>6 DEF InService1, InService2
      <3>3. Acknowledge(isr1) = {}
        BY <2>2, AcknowledgeOne DEF InService1, MasterLine
      <3> QED BY <2>2, <2>3, <2>6, <3>1, <3>2, <3>3
    <2>7. CASE f.pc = "iret" /\ Iret /\ stack' = <<>>
      <3>1. isr1' = {} /\ isr2' = {}
        BY <2>2, <2>7 DEF Iret, picVars, InService1, InService2
      <3> QED BY <2>7, <3>1 DEF Served
    <2> QED BY <2>1, <2>4, <2>5, <2>6, <2>7
  <1>4. CASE Thread
    <2>1. stack = <<>> /\ stack' = stack
      BY <1>4 DEF Thread, IdtInit, EnableInterrupts, SyscallsInit, KeyboardInit,
                  RegisterKeyboard, ReadSyscall, KmainDone, At
    <2>2. \/ isr1' = {} /\ isr2' = {}
          \/ isr1' = isr1 /\ isr2' = isr2
      BY <1>4 DEF Thread, IdtInit, EnableInterrupts, SyscallsInit, KeyboardInit,
                  RegisterKeyboard, ReadSyscall, KmainDone, pic_remap, picVars
    <2> QED BY <2>1, <2>2 DEF Served
  <1>5. CASE UNCHANGED vars
    BY <1>5 DEF vars, picVars, Served, Top
  <1> QED BY <1>1, <1>2, <1>3, <1>4, <1>5 DEF Next, Interrupt

(* The frame's lines are the ones that InServiceIsRunning names. *)
LEMMA ServedIsInService ==
  ASSUME DeviceIRQs \cap {7, 15} = {}, DispatchInv, Served
  PROVE  InServiceIsRunning
  <1>0. IsSpurious(7) /\ \A n \in Nat : IsSpurious(n) <=> n \in {7, 15}
    BY DEF IsSpurious
  <1>1. CASE stack = <<>>
    <2>1. 1 .. Len(stack) = {} /\ isr1 = {} /\ isr2 = {}
      BY <1>1 DEF Served
    <2> QED BY <2>1 DEF InServiceIsRunning
  <1>2. CASE stack # <<>>
    <2>1. PICK f \in Frame : stack = <<f>>
      BY <1>2 DEF DispatchInv, OneHandler
    <2>2. Top = f /\ 1 .. Len(stack) = {1} /\ stack[1] = f
      BY <2>1, OneFrame
    <2>3. isr1 = InService1(f) /\ isr2 = InService2(f) /\ f.irq \in 0 .. 15
      BY <1>2, <2>2, NextFrame DEF Served
    <2> QED BY <1>0, <2>2, <2>3 DEF InServiceIsRunning, InService1, InService2
  <1> QED BY <1>1, <1>2

(***************************************************************************)
(* For every set of devices that raise other lines than 7 and 15: every    *)
(* interrupt is acknowledged at the controllers it came through, and no    *)
(* acknowledgement ends anything else, spurious interrupts included.       *)
(* (On a line 7 or 15 that a device raises, nothing in the state tells a   *)
(* spurious interrupt from a real one, and the code does not ask either.)  *)
(***************************************************************************)
THEOREM InterruptsInServiceIsRunning ==
  ASSUME DeviceIRQs \cap {7, 15} = {}
  PROVE  Spec => []InServiceIsRunning
  <1>1. Init => DispatchInv /\ Served
    BY DispatchStart DEF Init, Served
  <1>2. DispatchInv /\ Served /\ [Next]_vars => (DispatchInv /\ Served)'
    BY DispatchStep, ServedStep
  <1>3. DispatchInv /\ Served => InServiceIsRunning
    BY ServedIsInService
  <1> QED BY <1>1, <1>2, <1>3, PTL DEF Spec

-----------------------------------------------------------------------------
(* What IdtInit and RegisterKeyboard do to entry 33; no other step does. *)
LEMMA HandlerOfKeyboard ==
  ASSUME DispatchInv, Thread
  PROVE  \/ handlers'[33] = handlers[33] /\ irr' = irr
         \/ handlers[33] = NoHandler /\ handlers'[33] = "default_irq"
         \/ handlers[33] = "default_irq" /\ handlers'[33] = "keyboard" /\ irr' = irr
  BY DEF Thread, IdtInit, EnableInterrupts, SyscallsInit, KeyboardInit, RegisterKeyboard,
         ReadSyscall, KmainDone, At, DispatchInv, StartUp, picVars

(* The handler that will read the scancode. *)
Reading == stack # <<>> /\ Top.irq = 1 /\ Top.pc = "dispatch"

(* A scancode that waits is about to be read, and none waits too early. *)
HeardInv ==
  /\ SilentBefore
  /\ (handlers[33] = "keyboard" /\ obf # Empty) => 1 \in irr \/ Reading

(* Every step keeps an interrupt for the scancode that waits. *)
LEMMA HeardStep ==
  ASSUME EarlyKeys = FALSE
  PROVE  DispatchInv /\ HeardInv /\ [Next]_vars => HeardInv'
  <1> SUFFICES ASSUME DispatchInv, HeardInv, [Next]_vars PROVE HeardInv'
    OBVIOUS
  <1>0. OneHandler
    BY DEF DispatchInv
  <1>1. ASSUME NEW scancode \in PressCodes, StrikeKey(scancode) PROVE HeardInv'
    BY <1>1 DEF StrikeKey, HeardInv, SilentBefore, Reading, Top, picVars, kernelVars
  <1>2. CASE LoadOutput
    BY <1>2 DEF LoadOutput, HeardInv, SilentBefore, kernelVars
  <1>3. ASSUME NEW irq \in DeviceIRQs, Raise(irq) PROVE HeardInv'
    BY <1>3 DEF Raise, HeardInv, SilentBefore, Reading, Top, kernelVars
  <1>4. ASSUME NEW irq \in 0 .. 15, Deliver(irq) \/ Spurious(irq) PROVE HeardInv'
    <2>1. iflag = TRUE /\ Enter(irq)
      <3>1. iflag
        BY <1>4 DEF Deliver, Spurious
      <3>2. iflag = TRUE
        BY <3>1, <1>0, Zenon DEF OneHandler
      <3> QED BY <1>4, <3>2 DEF Deliver, Spurious
    <2>2. stack = <<>> /\ stack' = <<[irq |-> irq, pc |-> "dispatch", eflags |-> TRUE]>>
      BY <1>0, <2>1, EnterFrame
    <2>3. irq = 1 => Reading'
      BY <2>2 DEF Reading, Top
    <2>4. UNCHANGED <<handlers, obf, keyq>> /\ (irq # 1 /\ 1 \in irr => 1 \in irr')
      BY <1>4 DEF Deliver, Spurious, deviceVars, kernelVars
    <2> QED BY <2>2, <2>3, <2>4 DEF HeardInv, SilentBefore, Reading
  <1>5. CASE Handler
    <2>1. UNCHANGED <<irr, handlers, keyq>>
      BY <1>5 DEF Handler, DefaultIrqHandler, KeyboardIrqHandler, EoiSlave, EoiMaster, Iret,
                  picVars, deviceVars, kernelVars
    <2>2. \/ obf' = Empty
          \/ obf' = obf /\ (handlers[33] = "keyboard" => ~Reading)
      BY <1>5 DEF Handler, DefaultIrqHandler, KeyboardIrqHandler, EoiSlave, EoiMaster, Iret,
                  Running, Reading, deviceVars
    <2> QED BY <2>1, <2>2 DEF HeardInv, SilentBefore
  <1>6. CASE Thread
    <2>1. stack = <<>> /\ UNCHANGED <<obf, keyq>>
      BY <1>6 DEF Thread, IdtInit, EnableInterrupts, SyscallsInit, KeyboardInit,
                  RegisterKeyboard, ReadSyscall, KmainDone, At, deviceVars
    <2> QED BY <1>6, <2>1, HandlerOfKeyboard DEF HeardInv, SilentBefore, Reading, NoHandler
  <1>7. CASE UNCHANGED vars
    BY <1>7 DEF vars, HeardInv, SilentBefore, Reading, Top, picVars, deviceVars, kernelVars
  <1> QED BY <1>1, <1>2, <1>3, <1>4, <1>5, <1>6, <1>7 DEF Next, Interrupt

(***************************************************************************)
(* The keyboard never goes deaf if no key is struck between idt::init and  *)
(* init_keyboard, for every number of keys and whatever else interrupts:   *)
(* a scancode in the controller has an interrupt that will read it.  With  *)
(* EarlyKeys the default handler acknowledges IRQ1 and leaves the scancode *)
(* where it is, which is what the run MCInterruptsEarly shows.             *)
(***************************************************************************)
THEOREM InterruptsWaitingKeyHasInterrupt ==
  ASSUME EarlyKeys = FALSE
  PROVE  Spec => []WaitingKeyHasInterrupt
  <1>1. Init => DispatchInv /\ HeardInv
    BY DispatchStart DEF Init, HeardInv, SilentBefore
  <1>2. DispatchInv /\ HeardInv /\ [Next]_vars => (DispatchInv /\ HeardInv)'
    BY DispatchStep, HeardStep
  <1>3. DispatchInv /\ HeardInv => WaitingKeyHasInterrupt
    <2> SUFFICES ASSUME DispatchInv, HeardInv, handlers[33] = "keyboard", obf # Empty, 1 \notin irr
                 PROVE  \E k \in 1 .. Len(stack) : stack[k].irq = 1 /\ stack[k].pc = "dispatch"
      BY DEF WaitingKeyHasInterrupt
    <2>1. Reading
      BY DEF HeardInv
    <2>2. PICK f \in Frame : stack = <<f>>
      BY <2>1 DEF Reading, DispatchInv, OneHandler
    <2>3. Top = f /\ Len(stack) = 1 /\ stack[1] = f
      BY <2>2, OneFrame
    <2> QED BY <2>1, <2>3 DEF Reading
  <1> QED BY <1>1, <1>2, <1>3, PTL DEF Spec

-----------------------------------------------------------------------------
(* What sys_read takes: no more than there is, and no more than is asked for. *)
LEMMA ReadCount ==
  ASSUME InOrder, NEW missing \in Nat
  PROVE  /\ sys_read(missing) \in Nat
         /\ sys_read(missing) <= missing
         /\ sys_read(missing) <= Available
  <1>1. (write_pos - read_pos) % PosMod =
          IF read_pos <= write_pos THEN write_pos - read_pos ELSE write_pos - read_pos + PosMod
    <2>1. read_pos \in 0 .. PosMod - 1 /\ write_pos \in 0 .. PosMod - 1
      BY DEF InOrder
    <2> QED BY <2>1, Sizes, RemainderOfDifference
  <1>2. Available \in Nat
    BY <1>1, Sizes DEF InOrder, Available
  <1> QED BY <1>2 DEF sys_read

(* The characters it returns. *)
LEMMA CharsRead ==
  ASSUME InOrder, NEW n \in Nat
  PROVE  Chars(n) \in Seq(Nat) /\ Len(Chars(n)) = n
  <1>1. ASSUME NEW k \in 1 .. n PROVE buffer[Slot((read_pos + k - 1) % PosMod)] \in Nat
    <2> DEFINE e == read_pos + k - 1
               m == e % PosMod
    <2>1. e \in Nat
      BY Sizes DEF InOrder
    <2> HIDE DEF e
    <2>2. m \in Nat
      BY <2>1, Sizes, Remainder
    <2> HIDE DEF m
    <2>3. Slot(m) \in 0 .. KB_BUFFER_SIZE - 1
      BY <2>2, SlotInRing DEF Slot
    <2>4. buffer[Slot(m)] \in Nat
      BY <2>3 DEF InOrder
    <2> QED BY <2>4 DEF m, e
  <1> QED BY <1>1 DEF Chars

(* Characters that are put together in another order. *)
LEMMA Associative ==
  ASSUME NEW a \in Seq(Nat), NEW b \in Seq(Nat), NEW c \in Seq(Nat)
  PROVE  (a \o b) \o c = a \o (b \o c)
  <1> DEFINE l == (a \o b) \o c
             r == a \o (b \o c)
  <1>1. l \in Seq(Nat) /\ r \in Seq(Nat) /\ Len(l) = Len(r)
    OBVIOUS
  <1>2. \A i \in 1 .. Len(l) : l[i] = r[i]
    OBVIOUS
  <1> HIDE DEF l, r
  <1>3. l = r
    BY <1>1, <1>2, SeqEqual
  <1> QED BY <1>3 DEF l, r

(* A character behind both. *)
LEMMA ConcatAppend ==
  ASSUME NEW a \in Seq(Nat), NEW b \in Seq(Nat), NEW c \in Nat
  PROVE  a \o Append(b, c) = Append(a \o b, c)
  <1> DEFINE l == a \o Append(b, c)
             r == Append(a \o b, c)
  <1>1. l \in Seq(Nat) /\ r \in Seq(Nat) /\ Len(l) = Len(r)
    OBVIOUS
  <1>2. \A i \in 1 .. Len(l) : l[i] = r[i]
    OBVIOUS
  <1> HIDE DEF l, r
  <1>3. l = r
    BY <1>1, <1>2, SeqEqual
  <1> QED BY <1>3 DEF l, r

(* Reading moves the oldest characters from the ring to kmain's buffer. *)
LEMMA ReadMoves ==
  ASSUME InOrder, ~overrun, NEW n \in Nat, n <= Len(pending)
  PROVE  (buf_ra \o Chars(n)) \o SubSeq(pending, n + 1, Len(pending)) = buf_ra \o pending
  <1> DEFINE L == Len(pending)
             s == Chars(n)
             t == SubSeq(pending, n + 1, L)
  <1>1. /\ pending \in Seq(Nat) /\ L \in Nat /\ L <= KB_BUFFER_SIZE /\ buf_ra \in Seq(Nat)
        /\ NewestInPlace
    BY DEF InOrder, RingInv
  <1>2. s \in Seq(Nat) /\ Len(s) = n
    BY CharsRead
  <1>3. \A k \in 1 .. n : s[k] = pending[k]
    <2>1. \A k \in 1 .. n : k \in 1 .. L /\ k > L - KB_BUFFER_SIZE
      BY <1>1, Sizes
    <2> QED BY <2>1, <1>1 DEF Chars, NewestInPlace
  <1> HIDE DEF s
  <1>4. SubSeq(pending, 1, n) \in Seq(Nat) /\ SubSeq(pending, 1, n) = s
    <2> DEFINE u == SubSeq(pending, 1, n)
    <2>1. u \in Seq(Nat) /\ Len(u) = n /\ \A k \in 1 .. n : u[k] = pending[k]
      BY <1>1
    <2> HIDE DEF u
    <2>2. u = s
      BY <1>2, <1>3, <2>1, SeqEqual
    <2> QED BY <2>1, <2>2 DEF u
  <1>5. t \in Seq(Nat)
    BY <1>1
  <1>6. s \o t = pending
    <2>1. 1 \in 1 .. L + 1 /\ n \in 1 - 1 .. L /\ L \in n .. L
      BY <1>1
    <2>2. SubSeq(pending, 1, n) \o SubSeq(pending, n + 1, L) = SubSeq(pending, 1, L)
      BY <1>1, <2>1, ConcatAdjacentSubSeq
    <2>3. SubSeq(pending, 1, L) = pending
      BY <1>1
    <2> QED BY <1>4, <2>2, <2>3
  <1> HIDE DEF t
  <1>7. (buf_ra \o s) \o t = buf_ra \o (s \o t)
    <2>1. buf_ra \in Seq(Nat) /\ s \in Seq(Nat) /\ t \in Seq(Nat)
      BY <1>1, <1>2, <1>5
    <2> QED BY <2>1, Associative
  <1> QED BY <1>6, <1>7 DEF s, t

(* A character that goes into the ring moves write_pos. *)
LEMMA WriteMoves ==
  ASSUME KB_BUFFER_SIZE < PosMod, write_pos \in 0 .. PosMod - 1
  PROVE  (write_pos + 1) % PosMod # write_pos /\ (write_pos + 1) % PosMod \in 0 .. PosMod - 1
  <1> DEFINE m == (write_pos + 1) % PosMod
  <1>1. 1 \in 0 .. PosMod - 1
    BY Sizes
  <1>2. m \in 0 .. PosMod - 1 /\ (m = write_pos + 1 \/ m = write_pos + 1 - PosMod)
    BY <1>1, Advance
  <1> HIDE DEF m
  <1>3. m # write_pos
    BY <1>2, Sizes
  <1> QED BY <1>2, <1>3 DEF m

(* The handler of IRQ1 keeps what kmain will read in order. *)
LEMMA KeyStep ==
  ASSUME KB_BUFFER_SIZE < PosMod, InOrder, Codes, KeyboardIrqHandler
  PROVE  InOrder'
  <1> DEFINE c == Translate(obf)
  <1>1. /\ obf \in Scancodes /\ handle_interrupt(obf) /\ buf_ra' = buf_ra
        /\ typed' = IF write_pos' = write_pos THEN typed ELSE Append(typed, c)
        /\ overrun' = (overrun \/ Len(pending') > KB_BUFFER_SIZE)
    BY Lines DEF KeyboardIrqHandler, Codes
  <1>2. c \in Nat
    BY <1>1, Character
  <1>3. /\ WANTED \in Nat /\ write_pos \in 0 .. PosMod - 1 /\ read_pos \in 0 .. PosMod - 1
        /\ buf_ra \in Seq(Nat) /\ Len(buf_ra) <= WANTED /\ typed \in Seq(Nat)
        /\ buffer \in [0 .. KB_BUFFER_SIZE - 1 -> Nat]
    BY Lines DEF InOrder
  <1>4. typed' \in Seq(Nat) /\ buf_ra' \in Seq(Nat) /\ Len(buf_ra') <= WANTED
    BY <1>1, <1>2, <1>3
  <1>5. ASSUME ~overrun'
        PROVE  ~overrun /\ RingInv /\ ~(Len(pending') > KB_BUFFER_SIZE) /\ buf_ra \o pending = typed
    BY <1>1, <1>5 DEF InOrder
  <1>6. CASE ~Buffer(obf)
    <2>1. UNCHANGED <<buffer, read_pos, write_pos, pending>>
          /\ (shift_held \in BOOLEAN => shift_held' \in BOOLEAN)
      BY <1>1, <1>6 DEF handle_interrupt, ShiftPress, ShiftRelease, Ctrl, Ignore, kbVars
    <2>2. typed' = typed
      BY <1>1, <2>1
    <2>3. ASSUME ~overrun'
          PROVE  RingInv' /\ Len(pending') <= KB_BUFFER_SIZE /\ buf_ra' \o pending' = typed'
      <3>1. RingInv /\ ~overrun /\ buf_ra \o pending = typed
        BY <1>5, <2>3
      <3>2. RingInv'
        BY <2>1, <3>1, ModifiersKeepRing DEF RingInv
      <3>3. Len(pending) <= KB_BUFFER_SIZE
        BY <3>1 DEF InOrder
      <3> QED BY <1>1, <2>1, <2>2, <3>1, <3>2, <3>3
    <2> QED BY <1>3, <1>4, <2>1, <2>3 DEF InOrder
  <1>7. CASE Buffer(obf)
    <2>1. /\ buffer' = [buffer EXCEPT ![Slot(write_pos)] = c]
          /\ write_pos' = (write_pos + 1) % PosMod
          /\ pending' = Append(pending, c)
          /\ read_pos' = read_pos
      BY <1>7 DEF Buffer
    <2> HIDE DEF c
    <2>2. write_pos' # write_pos /\ write_pos' \in 0 .. PosMod - 1
      BY <1>3, <2>1, WriteMoves
    <2>3. typed' = Append(typed, c)
      BY <1>1, <2>2
    <2>4. buffer' \in [0 .. KB_BUFFER_SIZE - 1 -> Nat]
      BY <1>2, <1>3, <2>1
    <2>5. ASSUME ~overrun'
          PROVE  RingInv' /\ Len(pending') <= KB_BUFFER_SIZE /\ buf_ra' \o pending' = typed'
      <3>1. RingInv /\ ~(Len(pending') > KB_BUFFER_SIZE) /\ buf_ra \o pending = typed
            /\ pending \in Seq(Nat)
        BY <1>5, <2>5 DEF RingInv
      <3>2. Len(pending') = Len(pending) + 1 /\ Len(pending) \in Nat
        BY <1>2, <2>1, <3>1
      <3>3. Len(pending) + 1 < PosMod /\ Len(pending') <= KB_BUFFER_SIZE
        BY <3>1, <3>2, Sizes
      <3>4. RingInv'
        BY <1>1, <1>7, <3>1, <3>3, BufferKeepsRing
      <3>5. buf_ra \o Append(pending, c) = Append(buf_ra \o pending, c)
        BY <1>2, <1>3, <3>1, ConcatAppend
      <3> QED BY <1>1, <2>1, <2>3, <3>1, <3>3, <3>4, <3>5
    <2> QED BY <1>3, <1>4, <2>1, <2>2, <2>4, <2>5 DEF InOrder
  <1> QED BY <1>6, <1>7

(* kmain's read keeps it, too. *)
LEMMA ReadStep ==
  ASSUME InOrder, ReadSyscall
  PROVE  InOrder'
  <1> DEFINE missing == WANTED - Len(buf_ra)
             n == sys_read(missing)
  <1>1. missing \in Nat /\ missing + Len(buf_ra) = WANTED /\ buf_ra \in Seq(Nat)
        /\ Len(buf_ra) \in Nat
    BY Lines DEF InOrder
  <1>2. /\ buf_ra' = buf_ra \o Chars(n) /\ read_chars(n)
        /\ typed' = typed /\ overrun' = overrun
    BY DEF ReadSyscall
  <1> HIDE DEF missing
  <1>3. n \in Nat /\ n <= missing /\ n <= Available
    BY <1>1, ReadCount
  <1> HIDE DEF n
  <1>4. Chars(n) \in Seq(Nat) /\ Len(Chars(n)) = n
    BY <1>3, CharsRead
  <1>5. buf_ra' \in Seq(Nat) /\ Len(buf_ra') <= WANTED
    BY <1>1, <1>2, <1>3, <1>4
  <1>6. read_pos' \in 0 .. PosMod - 1
    <2> DEFINE e == read_pos + n
               m == e % PosMod
    <2>1. e \in Nat
      BY <1>3, Sizes DEF InOrder
    <2> HIDE DEF e
    <2>2. m \in Nat /\ m < PosMod
      BY <2>1, Sizes, Remainder
    <2> HIDE DEF m
    <2>3. m \in 0 .. PosMod - 1
      BY <2>2, Sizes
    <2> QED BY <1>2, <2>3 DEF read_chars, m, e
  <1>7. ASSUME ~overrun
        PROVE  RingInv' /\ Len(pending') <= KB_BUFFER_SIZE /\ buf_ra' \o pending' = typed
    <2>1. /\ RingInv /\ Len(pending) <= KB_BUFFER_SIZE /\ buf_ra \o pending = typed
          /\ Len(pending) \in Nat /\ Available = Len(pending)
      BY <1>7 DEF InOrder, RingInv
    <2>2. RingInv' /\ Len(pending') = Len(pending) - n
      BY <1>2, <1>3, <2>1, ReadsKeepRing
    <2>3. pending' = SubSeq(pending, n + 1, Len(pending))
      BY <1>2 DEF read_chars
    <2>4. buf_ra' \o pending' = buf_ra \o pending
      BY <1>2, <1>3, <1>7, <2>1, <2>3, ReadMoves
    <2>5. Len(pending') <= KB_BUFFER_SIZE
      BY <1>3, <2>1, <2>2, Sizes
    <2> QED BY <2>1, <2>2, <2>4, <2>5
  <1> QED BY <1>2, <1>5, <1>6, <1>7 DEF InOrder, read_chars

(* The steps that touch neither the ring nor what was typed and read. *)
LEMMA InOrderKept ==
  ASSUME InOrder, UNCHANGED <<kbVars, typed, buf_ra, overrun>>
  PROVE  InOrder'
  BY DEF InOrder, kbVars, RingInv, Available, NewestInPlace

(* Every step keeps what kmain has read and will read in order. *)
LEMMA ReadInvStep ==
  ASSUME KB_BUFFER_SIZE < PosMod
  PROVE  DispatchInv /\ ReadInv /\ [Next]_vars => ReadInv'
  <1> SUFFICES ASSUME DispatchInv, ReadInv, [Next]_vars PROVE ReadInv'
    OBVIOUS
  <1> USE DEF ReadInv
  <1>1. CASE \/ \E scancode \in PressCodes : StrikeKey(scancode)
             \/ LoadOutput
             \/ \E irq \in DeviceIRQs : Raise(irq)
    <2>1. UNCHANGED <<kbVars, typed, buf_ra, overrun, handlers>>
      BY <1>1, DevicesLeaveKernel DEF kernelVars
    <2>2. Codes'
      <3>1. ASSUME NEW scancode \in PressCodes, StrikeKey(scancode) PROVE Codes'
        BY <3>1 DEF StrikeKey, Codes
      <3>2. CASE LoadOutput
        BY <3>2 DEF LoadOutput, Codes
      <3>3. ASSUME NEW irq \in DeviceIRQs, Raise(irq) PROVE Codes'
        BY <3>3 DEF Raise, Codes
      <3> QED BY <1>1, <3>1, <3>2, <3>3
    <2> QED BY <2>1, <2>2, InOrderKept DEF NothingTyped, kbVars
  <1>2. CASE \E irq \in 0 .. 15 : Deliver(irq) \/ Spurious(irq)
    <2>1. UNCHANGED <<kbVars, typed, buf_ra, overrun, handlers, keyq, obf>>
      BY <1>2 DEF Deliver, Spurious, kernelVars, deviceVars
    <2> QED BY <2>1, InOrderKept DEF NothingTyped, kbVars, Codes
  <1>3. CASE KeyboardIrqHandler
    <2>1. InOrder'
      BY <1>3, KeyStep
    <2>2. Codes' /\ NothingTyped'
      BY <1>3 DEF KeyboardIrqHandler, Codes, NothingTyped
    <2> QED BY <2>1, <2>2
  <1>4. CASE DefaultIrqHandler \/ EoiSlave \/ EoiMaster \/ Iret
    <2>1. UNCHANGED <<kbVars, typed, buf_ra, overrun, handlers, keyq, obf>>
      BY <1>4 DEF DefaultIrqHandler, EoiSlave, EoiMaster, Iret, kernelVars, deviceVars
    <2> QED BY <2>1, InOrderKept DEF NothingTyped, kbVars, Codes
  <1>5. CASE IdtInit \/ EnableInterrupts \/ SyscallsInit \/ RegisterKeyboard \/ KmainDone
    <2>1. UNCHANGED <<kbVars, typed, buf_ra, overrun, keyq, obf>>
      BY <1>5 DEF IdtInit, EnableInterrupts, SyscallsInit, RegisterKeyboard, KmainDone, deviceVars
    <2>2. handlers'[33] # "keyboard" => handlers[33] # "keyboard"
      BY <1>5, HandlerOfKeyboard DEF Thread, NoHandler
    <2> QED BY <2>1, <2>2, InOrderKept DEF NothingTyped, kbVars, Codes
  <1>6. CASE KeyboardInit
    <2>1. /\ read_pos' = 0 /\ write_pos' = 0 /\ shift_held' = FALSE /\ pending' = <<>>
          /\ UNCHANGED <<buffer, typed, buf_ra, overrun, handlers, keyq, obf>>
          /\ handlers[33] # "keyboard"
      BY <1>6 DEF KeyboardInit, deviceVars, At, DispatchInv, StartUp
    <2>2. typed = <<>> /\ buf_ra = <<>>
      BY <2>1 DEF NothingTyped
    <2>3. 0 \in 0 .. PosMod - 1 /\ (0 - 0) % PosMod = 0
      <3>1. 0 \in 0 .. PosMod - 1
        BY Sizes
      <3> QED BY <3>1, Distance, Sizes
    <2>4. Available' = 0 /\ Len(pending') = 0 /\ pending' \in Seq(Nat)
      BY <2>1, <2>3 DEF Available
    <2>5. NewestInPlace'
      BY <2>4 DEF NewestInPlace
    <2>6. RingInv'
      BY <2>1, <2>3, <2>4, <2>5 DEF RingInv, InOrder
    <2>7. buf_ra' \o pending' = typed'
      BY <2>1, <2>2
    <2>8. InOrder'
      BY <2>1, <2>3, <2>4, <2>6, <2>7, Sizes DEF InOrder
    <2> QED BY <2>1, <2>8 DEF NothingTyped, Codes
  <1>7. CASE ReadSyscall
    <2>1. InOrder'
      BY <1>7, ReadStep
    <2>2. UNCHANGED <<keyq, obf, handlers>> /\ handlers[33] = "keyboard"
      BY <1>7 DEF ReadSyscall, deviceVars, DispatchInv, StartUp
    <2> QED BY <2>1, <2>2 DEF NothingTyped, Codes
  <1>8. CASE UNCHANGED vars
    <2>1. UNCHANGED <<kbVars, typed, buf_ra, overrun, handlers, keyq, obf>>
      BY <1>8 DEF vars, kernelVars, deviceVars
    <2> QED BY <2>1, InOrderKept DEF NothingTyped, kbVars, Codes
  <1> QED BY <1>1, <1>2, <1>3, <1>4, <1>5, <1>6, <1>7, <1>8 DEF Next, Interrupt, Handler, Thread

(***************************************************************************)
(* For every ring whose positions outnumber its slots (256 of 2^32), every *)
(* table and every number of keys: what kmain has read, followed by what   *)
(* waits in the ring, is what was typed, as long as the ring was not       *)
(* overrun, and kmain's buffer is never overrun.                           *)
(***************************************************************************)
THEOREM InterruptsReadInOrder ==
  ASSUME KB_BUFFER_SIZE < PosMod
  PROVE  Spec => []ReadInOrder
  <1>1. Init => DispatchInv /\ ReadInv
    <2> SUFFICES ASSUME Init PROVE ReadInv
      BY DispatchStart
    <2>1. RingInv /\ pending = <<>>
      BY KbInitIsRing DEF Init, KbInit
    <2>2. /\ obf = Empty /\ keyq = <<>> /\ typed = <<>> /\ buf_ra = <<>> /\ overrun = FALSE
      BY DEF Init
    <2>3. InOrder
      BY <2>1, <2>2, Lines, Sizes DEF InOrder, RingInv
    <2> QED BY <2>1, <2>2, <2>3 DEF ReadInv, Codes, NothingTyped
  <1>2. DispatchInv /\ ReadInv /\ [Next]_vars => (DispatchInv /\ ReadInv)'
    BY DispatchStep, ReadInvStep
  <1>3. ReadInv => ReadInOrder
    BY RingIsQueue DEF ReadInv, InOrder, ReadInOrder, RingHoldsPending
  <1> QED BY <1>1, <1>2, <1>3, PTL DEF Spec
=============================================================================
