---------------------------- MODULE ConsoleProofs ----------------------------
(***************************************************************************)
(* Proofs about Console and the Framebuffer that it draws on, for every    *)
(* mode, font, string, number and segment that satisfy the assumptions of  *)
(* the modules.                                                            *)
(***************************************************************************)
EXTENDS Console, FiniteSetTheorems, FunctionTheorems, WellFoundedInduction, TLAPS

-----------------------------------------------------------------------------
(* Division. *)

(* A number is its quotient times the divisor, and a remainder below it. *)
LEMMA Remainder ==
  ASSUME NEW n \in Nat, NEW d \in Nat \ {0}
  PROVE  /\ n \div d \in Nat
         /\ n % d \in Nat
         /\ n % d < d
         /\ n = d * (n \div d) + (n % d)
  OBVIOUS

(* A product grows with its factor. *)
LEMMA Times ==
  ASSUME NEW a \in Nat, NEW b \in Nat, NEW d \in Nat \ {0}, a < b
  PROVE  d * a + d <= d * b
  OBVIOUS

(* Two sums of a multiple and a remainder are equal in both parts. *)
LEMMA SameParts ==
  ASSUME NEW d \in Nat \ {0}, NEW q \in Nat, NEW m \in Nat, m < d,
         NEW r \in Nat, NEW n \in Nat, n < d, d * q + m = d * r + n
  PROVE  q = r /\ m = n
  <1>1. d * q \in Nat /\ d * r \in Nat
    OBVIOUS
  <1>2. ASSUME q < r PROVE FALSE
    <2>1. d * q + d <= d * r
      BY <1>2, Times
    <2> QED BY <2>1, <1>1
  <1>3. ASSUME r < q PROVE FALSE
    <2>1. d * r + d <= d * q
      BY <1>3, Times
    <2> QED BY <2>1, <1>1
  <1>4. q = r
    BY <1>2, <1>3
  <1> QED BY <1>1, <1>4

(* Quotient and remainder are the only such pair. *)
LEMMA RemainderUnique ==
  ASSUME NEW d \in Nat \ {0}, NEW q \in Nat, NEW m \in Nat, m < d, NEW n \in Nat, n = d * q + m
  PROVE  n \div d = q /\ n % d = m
  <1> DEFINE r == n \div d
             k == n % d
  <1>1. r \in Nat /\ k \in Nat /\ k < d /\ n = d * r + k
    BY Remainder
  <1> HIDE DEF r, k
  <1>2. d * q + m = d * r + k
    BY <1>1
  <1>3. q = r /\ m = k
    BY <1>1, <1>2, SameParts
  <1> QED BY <1>3 DEF r, k

-----------------------------------------------------------------------------
(***************************************************************************)
(* Lines.  How far n is from start in the direction s; how far a point is  *)
(* along either axis, and off the ideal line (times the line's length).    *)
(***************************************************************************)
Ahead(s, n, start) == IF s = 1 THEN n - start ELSE start - n

Height == -ln.dy
AlongX(p) == Ahead(ln.sx, p[1], ln.from[1])
AlongY(p) == Ahead(ln.sy, p[2], ln.from[2])
Off(p) == ln.dx * AlongY(p) - Height * AlongX(p)

Flat == ln.dx >= Height
Length == IF Flat THEN ln.dx ELSE Height
Along(p) == IF Flat THEN AlongX(p) ELSE AlongY(p)
Near(p) == -Length <= 2 * Off(p) /\ 2 * Off(p) <= Length

Here == <<ln.x1, ln.y1>>
End == <<ln.x2, ln.y2>>
Points == Int \X Int

LineType ==
  /\ drawing \in BOOLEAN
  /\ ln \in [from : Points, x1 : Int, y1 : Int, x2 : Int, y2 : Int,
             dx : Nat, dy : Int, sx : {1, -1}, sy : {1, -1}, err : Int]
  /\ Height \in Nat
  /\ AlongX(End) = ln.dx /\ AlongY(End) = Height

(* The points that line has gone through: one for each of these distances. *)
Passed == IF drawing THEN 0 .. Along(Here) - 1 ELSE 0 .. Length

LineGoes ==
  /\ ln.err = Off(Here) + ln.dx - Height
  /\ Near(Here)
  /\ Along(Here) \in 0 .. Length
  /\ Length = 0 => Here = ln.from
  /\ trace \subseteq Points
  /\ \A p \in trace : Near(p) /\ Along(p) \in Passed
  /\ \A p, q \in trace : Along(p) = Along(q) => p = q
  /\ \A n \in Passed : \E p \in trace : Along(p) = n
  /\ trace = {} => Here = ln.from
  /\ trace # {} => ln.from \in trace
  /\ ~drawing => Here = End /\ End \in trace

LineInv == LineType /\ (drawing \/ trace # {} => LineGoes)

(***************************************************************************)
(* Bresenham's algorithm, for a line of length l along the longer axis and *)
(* w along the other one, at a distance of e: a step along the longer axis *)
(* is always taken, and with the other one where the test says so, the     *)
(* distance stays within half a pixel.                                     *)
(***************************************************************************)
LEMMA BresenhamStep ==
  ASSUME NEW l \in Nat, NEW w \in Nat, w <= l, NEW e \in Int, -l <= 2 * e, 2 * e <= l
  PROVE  /\ 2 * (e + l - w) >= -w
         /\ 2 * (e + l - w) <= l => -l <= 2 * (e - w + l) /\ 2 * (e - w + l) <= l
         /\ ~(2 * (e + l - w) <= l) => -l <= 2 * (e - w) /\ 2 * (e - w) <= l
  OBVIOUS

(* A multiple of l that is within half of l is 0. *)
LEMMA SmallMultiple ==
  ASSUME NEW l \in Nat, NEW n \in Int, l # 0, -l <= 2 * (l * n), 2 * (l * n) <= l
  PROVE  n = 0
  <1>1. ASSUME n >= 1 PROVE FALSE
    <2>1. l * (n - 1) \in Nat
      BY <1>1
    <2>2. l * n = l * (n - 1) + l
      OBVIOUS
    <2> QED BY <2>1, <2>2
  <1>2. ASSUME n <= -1 PROVE FALSE
    <2>1. l * (-n - 1) \in Nat
      BY <1>2
    <2>2. l * n = -(l * (-n - 1)) - l
      OBVIOUS
    <2> QED BY <2>1, <2>2
  <1> QED BY <1>1, <1>2

(* Types of the distances. *)
LEMMA Distances ==
  ASSUME LineType, NEW p \in Points
  PROVE  /\ AlongX(p) \in Int /\ AlongY(p) \in Int /\ Off(p) \in Int
         /\ ln.dx * AlongY(p) \in Int /\ Height * AlongX(p) \in Int
         /\ ln.dx \in Nat /\ Height \in Nat /\ Length \in Nat /\ Along(p) \in Int
         /\ Here \in Points /\ End \in Points /\ ln.from \in Points
  <1>1. /\ ln.dx \in Nat /\ Height \in Nat /\ Here \in Points /\ End \in Points
        /\ ln.from \in Points /\ p[1] \in Int /\ p[2] \in Int
        /\ ln.from[1] \in Int /\ ln.from[2] \in Int
    BY DEF LineType, Here, End, Points
  <1>2. AlongX(p) \in Int /\ AlongY(p) \in Int
    BY <1>1 DEF AlongX, AlongY, Ahead
  <1>3. ln.dx * AlongY(p) \in Int /\ Height * AlongX(p) \in Int
    BY <1>1, <1>2
  <1>4. Off(p) \in Int
    BY <1>3 DEF Off
  <1>5. Length \in Nat /\ Along(p) \in Int
    BY <1>1, <1>2 DEF Length, Along
  <1> QED BY <1>1, <1>2, <1>3, <1>4, <1>5

(* A point is where it is along both axes. *)
LEMMA PointOfDistances ==
  ASSUME LineType, NEW p \in Points, NEW q \in Points,
         AlongX(p) = AlongX(q), AlongY(p) = AlongY(q)
  PROVE  p = q
  <1>1. /\ p[1] \in Int /\ p[2] \in Int /\ q[1] \in Int /\ q[2] \in Int
        /\ ln.from[1] \in Int /\ ln.from[2] \in Int
        /\ p = <<p[1], p[2]>> /\ q = <<q[1], q[2]>>
    BY DEF LineType, Points
  <1>2. \A s, m, n, start : m \in Int /\ n \in Int /\ start \in Int
                             /\ Ahead(s, m, start) = Ahead(s, n, start) => m = n
    BY DEF Ahead
  <1>3. p[1] = q[1] /\ p[2] = q[2]
    BY <1>1, <1>2 DEF AlongX, AlongY
  <1> QED BY <1>1, <1>3

(* The distances of the ends. *)
LEMMA Ends ==
  ASSUME LineType
  PROVE  /\ AlongX(ln.from) = 0 /\ AlongY(ln.from) = 0 /\ Off(ln.from) = 0
         /\ Off(End) = 0 /\ Along(ln.from) = 0 /\ Along(End) = Length
  <1>1. AlongX(ln.from) = 0 /\ AlongY(ln.from) = 0
    BY DEF LineType, Points, AlongX, AlongY, Ahead
  <1>2. ln.dx \in Nat /\ Height \in Nat /\ ln.from \in Points /\ End \in Points
    BY DEF LineType, End, Points
  <1>3. Off(ln.from) = 0
    BY <1>1, <1>2 DEF Off
  <1>4. Off(End) = 0
    <2>1. ln.dx * Height = Height * ln.dx
      BY <1>2
    <2> QED BY <1>2, <2>1 DEF Off, LineType
  <1>5. Along(ln.from) = 0 /\ Along(End) = Length
    BY <1>1 DEF Along, Length, LineType
  <1> QED BY <1>1, <1>3, <1>4, <1>5

(* Where line arrives along the longer axis, it arrives. *)
LEMMA Arrives ==
  ASSUME LineType, Near(Here), Along(Here) = Length, Length = 0 => Here = ln.from
  PROVE  Here = End
  <1>0. /\ AlongX(Here) \in Int /\ AlongY(Here) \in Int /\ ln.dx \in Nat /\ Height \in Nat
        /\ Length \in Nat /\ Here \in Points /\ End \in Points /\ Off(Here) \in Int
    BY Distances DEF LineType, Here, Points
  <1>1. AlongX(End) = ln.dx /\ AlongY(End) = Height
    BY DEF LineType
  <1>2. CASE Length = 0
    <2>1. ln.dx = 0 /\ Height = 0
      BY <1>0, <1>2 DEF Length, Flat
    <2>2. AlongX(Here) = 0 /\ AlongY(Here) = 0
      BY <1>2, Ends
    <2> QED BY <1>0, <1>1, <2>1, <2>2, PointOfDistances
  <1>3. CASE Length # 0 /\ Flat
    <2> DEFINE n == AlongY(Here) - Height
    <2>1. AlongX(Here) = ln.dx /\ Length = ln.dx /\ n \in Int
      BY <1>0, <1>3 DEF Along, Length
    <2>2. Off(Here) = ln.dx * n
      <3>1. Off(Here) = ln.dx * AlongY(Here) - Height * ln.dx
        BY <2>1 DEF Off
      <3>2. ln.dx * n = ln.dx * AlongY(Here) - Height * ln.dx
        BY <1>0
      <3> QED BY <3>1, <3>2
    <2> HIDE DEF n
    <2>3. n = 0
      BY <1>0, <1>3, <2>1, <2>2, SmallMultiple DEF Near
    <2>4. AlongY(Here) = Height
      BY <1>0, <2>3 DEF n
    <2> QED BY <1>0, <1>1, <2>1, <2>4, PointOfDistances
  <1>4. CASE Length # 0 /\ ~Flat
    <2> DEFINE n == ln.dx - AlongX(Here)
    <2>1. AlongY(Here) = Height /\ Length = Height /\ n \in Int
      BY <1>0, <1>4 DEF Along, Length
    <2>2. Off(Here) = Height * n
      <3>1. Off(Here) = ln.dx * Height - Height * AlongX(Here)
        BY <2>1 DEF Off
      <3>2. Height * n = ln.dx * Height - Height * AlongX(Here)
        BY <1>0
      <3> QED BY <3>1, <3>2
    <2> HIDE DEF n
    <2>3. n = 0
      BY <1>0, <1>4, <2>1, <2>2, SmallMultiple DEF Near
    <2>4. AlongX(Here) = ln.dx
      BY <1>0, <2>3 DEF n
    <2> QED BY <1>0, <1>1, <2>1, <2>4, PointOfDistances
  <1> QED BY <1>2, <1>3, <1>4

(* What an iteration of line's loop adds to the points that it went through. *)
LEMMA TraceGrows ==
  ASSUME LineInv, drawing, trace' = trace \cup {Here}
  PROVE  /\ trace' \subseteq Points
         /\ \A p \in trace' : Near(p) /\ Along(p) \in 0 .. Along(Here)
         /\ \A p, q \in trace' : Along(p) = Along(q) => p = q
         /\ \A n \in 0 .. Along(Here) : \E p \in trace' : Along(p) = n
         /\ ln.from \in trace' /\ Here \in trace'
  <1>1. LineType /\ LineGoes
    BY DEF LineInv
  <1>2. Here \in Points /\ Along(Here) \in Nat
    <2>1. Here \in Points
      BY <1>1 DEF LineType, Here, Points
    <2>2. Length \in Nat /\ Along(Here) \in 0 .. Length
      BY <1>1, <2>1, Distances DEF LineGoes
    <2> QED BY <2>1, <2>2
  <1>3. /\ trace \subseteq Points /\ Near(Here)
        /\ \A p \in trace : Near(p) /\ Along(p) \in 0 .. Along(Here) - 1
        /\ \A p, q \in trace : Along(p) = Along(q) => p = q
        /\ \A n \in 0 .. Along(Here) - 1 : \E p \in trace : Along(p) = n
        /\ trace = {} => Here = ln.from
        /\ trace # {} => ln.from \in trace
    BY <1>1 DEF LineGoes, Passed
  <1>4. \A p \in trace' : Near(p) /\ Along(p) \in 0 .. Along(Here)
    BY <1>2, <1>3
  <1>5. \A p, q \in trace' : Along(p) = Along(q) => p = q
    BY <1>2, <1>3
  <1>6. \A n \in 0 .. Along(Here) : \E p \in trace' : Along(p) = n
    BY <1>2, <1>3
  <1> QED BY <1>2, <1>3, <1>4, <1>5, <1>6

(* The distances depend on the line only, not on where it is. *)
LEMMA DistancesStay ==
  ASSUME /\ ln'.from = ln.from /\ ln'.dx = ln.dx /\ ln'.dy = ln.dy
         /\ ln'.sx = ln.sx /\ ln'.sy = ln.sy
  PROVE  /\ Height' = Height /\ Length' = Length /\ (Flat <=> Flat')
         /\ \A p : /\ AlongX(p)' = AlongX(p) /\ AlongY(p)' = AlongY(p)
                   /\ Off(p)' = Off(p) /\ Along(p)' = Along(p) /\ (Near(p)' <=> Near(p))
  <1>1. Height' = Height
    BY DEF Height
  <1>2. ASSUME NEW p PROVE AlongX(p)' = AlongX(p) /\ AlongY(p)' = AlongY(p) /\ Off(p)' = Off(p)
    <2>1. AlongX(p)' = AlongX(p) /\ AlongY(p)' = AlongY(p)
      BY DEF AlongX, AlongY
    <2> QED BY <2>1, <1>1 DEF Off
  <1>3. Length' = Length /\ (Flat <=> Flat')
    BY <1>1 DEF Length, Flat
  <1> QED BY <1>1, <1>2, <1>3 DEF Along, Near

(* The last iteration. *)
LEMMA LineEnds ==
  ASSUME LineInv, drawing, Here = End, trace' = trace \cup {Here}, drawing' = FALSE, ln' = ln
  PROVE  LineInv'
  <1>1. LineType /\ LineGoes
    BY DEF LineInv
  <1>2. LineType'
    <2>1. Height' = Height /\ End' = End
      BY DEF Height, End
    <2>2. AlongX(End)' = AlongX(End) /\ AlongY(End)' = AlongY(End)
      BY <2>1 DEF AlongX, AlongY
    <2> QED BY <1>1, <2>1, <2>2 DEF LineType
  <1>3. Along(Here) = Length
    BY <1>1, Ends
  <1>4. /\ trace' \subseteq Points
        /\ \A p \in trace' : Near(p) /\ Along(p) \in 0 .. Length
        /\ \A p, q \in trace' : Along(p) = Along(q) => p = q
        /\ \A n \in 0 .. Length : \E p \in trace' : Along(p) = n
        /\ ln.from \in trace' /\ Here \in trace'
    BY <1>3, TraceGrows
  <1>5. /\ Length' = Length /\ Height' = Height /\ Here' = Here /\ End' = End
        /\ \A p : /\ Off(p)' = Off(p) /\ Along(p)' = Along(p) /\ (Near(p)' <=> Near(p))
    BY DistancesStay DEF Here, End
  <1>6. Off(Here)' = Off(Here) /\ Along(Here)' = Along(Here) /\ (Near(Here)' <=> Near(Here))
    BY <1>5 DEF Off, Along, AlongX, AlongY, Near, Flat, Length
  <1>7. Passed' = 0 .. Length
    BY <1>5 DEF Passed
  <1>8. LineGoes'
    BY <1>1, <1>4, <1>5, <1>6, <1>7 DEF LineGoes
  <1> QED BY <1>2, <1>8 DEF LineInv

(* How far AdvanceLine goes along each axis, and where that leads. *)
LEMMA AdvanceMoves ==
  ASSUME LineInv, drawing, AdvanceLine, drawing' = TRUE
  PROVE  LET right == 2 * ln.err >= ln.dy
             down == 2 * ln.err <= ln.dx
         IN /\ LineType'
            /\ /\ ln'.from = ln.from /\ ln'.dx = ln.dx /\ ln'.dy = ln.dy
               /\ ln'.sx = ln.sx /\ ln'.sy = ln.sy
            /\ AlongX(Here)' = AlongX(Here) + (IF right THEN 1 ELSE 0)
            /\ AlongY(Here)' = AlongY(Here) + (IF down THEN 1 ELSE 0)
            /\ Off(Here)' = Off(Here) + (IF down THEN ln.dx ELSE 0) - (IF right THEN Height ELSE 0)
            /\ ln'.err = ln.err + (IF down THEN ln.dx ELSE 0) - (IF right THEN Height ELSE 0)
  <1> DEFINE right == 2 * ln.err >= ln.dy
             down == 2 * ln.err <= ln.dx
  <1>1. /\ ln \in [from : Points, x1 : Int, y1 : Int, x2 : Int, y2 : Int,
                   dx : Nat, dy : Int, sx : {1, -1}, sy : {1, -1}, err : Int]
        /\ Height \in Nat /\ LineType
    BY DEF LineInv, LineType
  <1>2. /\ ln'.from = ln.from /\ ln'.dx = ln.dx /\ ln'.dy = ln.dy
        /\ ln'.sx = ln.sx /\ ln'.sy = ln.sy /\ ln'.x2 = ln.x2 /\ ln'.y2 = ln.y2
        /\ ln'.x1 = ln.x1 + (IF right THEN ln.sx ELSE 0)
        /\ ln'.y1 = ln.y1 + (IF down THEN ln.sy ELSE 0)
        /\ ln'.err = ln.err + (IF right THEN ln.dy ELSE 0) + (IF down THEN ln.dx ELSE 0)
        /\ ln' \in [from : Points, x1 : Int, y1 : Int, x2 : Int, y2 : Int,
                    dx : Nat, dy : Int, sx : {1, -1}, sy : {1, -1}, err : Int]
    <2> DEFINE err == ln.err + (IF right THEN ln.dy ELSE 0) + (IF down THEN ln.dx ELSE 0)
               x1 == ln.x1 + (IF right THEN ln.sx ELSE 0)
               y1 == ln.y1 + (IF down THEN ln.sy ELSE 0)
    <2>1. ln' = [ln EXCEPT !.err = err, !.x1 = x1, !.y1 = y1]
      BY <1>1 DEF AdvanceLine
    <2>2. err \in Int /\ x1 \in Int /\ y1 \in Int
      BY <1>1
    <2> HIDE DEF err, x1, y1, right, down
    <2>3. /\ ln'.from = ln.from /\ ln'.dx = ln.dx /\ ln'.dy = ln.dy
          /\ ln'.sx = ln.sx /\ ln'.sy = ln.sy /\ ln'.x2 = ln.x2 /\ ln'.y2 = ln.y2
          /\ ln'.x1 = x1 /\ ln'.y1 = y1 /\ ln'.err = err
      BY <1>1, <2>1
    <2>4. ln' \in [from : Points, x1 : Int, y1 : Int, x2 : Int, y2 : Int,
                   dx : Nat, dy : Int, sx : {1, -1}, sy : {1, -1}, err : Int]
      BY <1>1, <2>1, <2>2
    <2> QED BY <2>3, <2>4 DEF err, x1, y1
  <1>3. ln'.err = ln.err + (IF down THEN ln.dx ELSE 0) - (IF right THEN Height ELSE 0)
    BY <1>1, <1>2 DEF Height
  <1>4. /\ ln.x1 \in Int /\ ln.y1 \in Int /\ ln.from[1] \in Int /\ ln.from[2] \in Int
        /\ ln.sx \in {1, -1} /\ ln.sy \in {1, -1} /\ ln.dx \in Nat /\ Height \in Nat
    BY <1>1 DEF Points
  <1>5. AlongX(Here)' = AlongX(Here) + (IF right THEN 1 ELSE 0)
    <2>1. AlongX(Here)' = Ahead(ln.sx, ln'.x1, ln.from[1])
          /\ AlongX(Here) = Ahead(ln.sx, ln.x1, ln.from[1])
      BY <1>2 DEF AlongX, Here
    <2> QED BY <1>2, <1>4, <2>1 DEF Ahead
  <1>6. AlongY(Here)' = AlongY(Here) + (IF down THEN 1 ELSE 0)
    <2>1. AlongY(Here)' = Ahead(ln.sy, ln'.y1, ln.from[2])
          /\ AlongY(Here) = Ahead(ln.sy, ln.y1, ln.from[2])
      BY <1>2 DEF AlongY, Here
    <2> QED BY <1>2, <1>4, <2>1 DEF Ahead
  <1>7. Height' = Height
    BY <1>2 DEF Height
  <1>8. AlongX(Here) \in Int /\ AlongY(Here) \in Int
    BY <1>1, Distances DEF Here, Points
  <1>9. Off(Here)' = Off(Here) + (IF down THEN ln.dx ELSE 0) - (IF right THEN Height ELSE 0)
    <2>1. Off(Here)' = ln.dx * AlongY(Here)' - Height * AlongX(Here)'
      BY <1>2, <1>7 DEF Off
    <2>2. \A m, n \in Int : m * (n + 1) = m * n + m /\ m * (n + 0) = m * n /\ m * n \in Int
      OBVIOUS
    <2>3. ln.dx * AlongY(Here)' = ln.dx * AlongY(Here) + (IF down THEN ln.dx ELSE 0)
      BY <1>4, <1>6, <1>8, <2>2
    <2>4. Height * AlongX(Here)' = Height * AlongX(Here) + (IF right THEN Height ELSE 0)
      BY <1>4, <1>5, <1>8, <2>2
    <2>5. ln.dx * AlongY(Here) \in Int /\ Height * AlongX(Here) \in Int
      BY <1>4, <1>8, <2>2
    <2> QED BY <1>4, <2>1, <2>3, <2>4, <2>5 DEF Off
  <1>10. LineType'
    <2>1. End' = End
      BY <1>2 DEF End
    <2>2. AlongX(End)' = AlongX(End) /\ AlongY(End)' = AlongY(End)
      BY <1>2, <2>1 DEF AlongX, AlongY
    <2> QED BY <1>1, <1>2, <1>7, <2>2 DEF LineType
  <1> QED BY <1>2, <1>3, <1>5, <1>6, <1>9, <1>10

(* Any other iteration: a step along the longer axis, near the ideal line. *)
LEMMA LineAdvances ==
  ASSUME LineInv, drawing, Here # End, trace' = trace \cup {Here}, drawing' = TRUE, AdvanceLine
  PROVE  LineInv'
  <1> DEFINE right == 2 * ln.err >= ln.dy
             down == 2 * ln.err <= ln.dx
             e == Off(Here)
  <1>1. LineType /\ LineGoes
    BY DEF LineInv
  <1>2. /\ LineType'
        /\ ln'.from = ln.from /\ ln'.dx = ln.dx /\ ln'.dy = ln.dy
        /\ ln'.sx = ln.sx /\ ln'.sy = ln.sy
        /\ AlongX(Here)' = AlongX(Here) + (IF right THEN 1 ELSE 0)
        /\ AlongY(Here)' = AlongY(Here) + (IF down THEN 1 ELSE 0)
        /\ Off(Here)' = e + (IF down THEN ln.dx ELSE 0) - (IF right THEN Height ELSE 0)
        /\ ln'.err = ln.err + (IF down THEN ln.dx ELSE 0) - (IF right THEN Height ELSE 0)
    BY AdvanceMoves
  <1>3. /\ e \in Int /\ ln.dx \in Nat /\ Height \in Nat /\ Length \in Nat /\ ln.dy = -Height
        /\ AlongX(Here) \in Int /\ AlongY(Here) \in Int /\ Along(Here) \in Int
        /\ ln.err \in Int
    BY <1>1, Distances DEF LineType, Here, Points, Height
  <1>4. ln.err = e + ln.dx - Height /\ -Length <= 2 * e /\ 2 * e <= Length
    BY <1>1 DEF LineGoes, Near
  <1>5. /\ Height' = Height /\ Length' = Length /\ (Flat <=> Flat')
        /\ \A p : /\ Along(p)' = Along(p) /\ (Near(p)' <=> Near(p))
    BY <1>2, DistancesStay
  <1>6. Along(Here) < Length
    <2>1. /\ Near(Here) /\ Along(Here) \in 0 .. Length
          /\ Length = 0 => Here = ln.from
      BY <1>1 DEF LineGoes
    <2>2. Along(Here) # Length
      BY <1>1, <2>1, Arrives
    <2> QED BY <1>3, <2>1, <2>2
  <1> HIDE DEF e
  <1>7. /\ -Length <= 2 * Off(Here)' /\ 2 * Off(Here)' <= Length
        /\ Along(Here)' = Along(Here) + 1
    <2>1. CASE Flat
      <3>1. Length = ln.dx /\ Height <= ln.dx
        BY <2>1, <1>3 DEF Length, Flat
      <3>2. 2 * ln.err = 2 * (e + ln.dx - Height)
        BY <1>4
      <3>3. right
        BY <1>3, <1>4, <3>1, <3>2, BresenhamStep
      <3>4. -Length <= 2 * Off(Here)' /\ 2 * Off(Here)' <= Length
        BY <1>2, <1>3, <1>4, <3>1, <3>3
      <3>5. Along(Here)' = AlongX(Here)' /\ Along(Here) = AlongX(Here)
        BY <1>5, <2>1 DEF Along
      <3> QED BY <1>2, <3>3, <3>4, <3>5
    <2>2. CASE ~Flat
      <3>1. Length = Height /\ ln.dx <= Height
        BY <2>2, <1>3 DEF Length, Flat
      <3>2. down
        BY <1>3, <1>4, <3>1
      <3>3. -Length <= 2 * Off(Here)' /\ 2 * Off(Here)' <= Length
        BY <1>2, <1>3, <1>4, <3>1, <3>2
      <3>4. Along(Here)' = AlongY(Here)' /\ Along(Here) = AlongY(Here)
        BY <1>5, <2>2 DEF Along
      <3> QED BY <1>2, <3>2, <3>3, <3>4
    <2> QED BY <2>1, <2>2
  <1>8. Near(Here)'
    BY <1>5, <1>7 DEF Near
  <1>9. ln'.err = Off(Here)' + ln'.dx - Height'
    BY <1>2, <1>3, <1>4, <1>5
  <1>10. Along(Here)' \in 0 .. Length' /\ Length' # 0 /\ Along(Here) \in Nat
    BY <1>1, <1>3, <1>5, <1>6, <1>7 DEF LineGoes
  <1>11. Passed' = 0 .. Along(Here)
    BY <1>7, <1>10 DEF Passed
  <1>12. /\ trace' \subseteq Points
         /\ \A p \in trace' : Near(p) /\ Along(p) \in 0 .. Along(Here)
         /\ \A p, q \in trace' : Along(p) = Along(q) => p = q
         /\ \A n \in 0 .. Along(Here) : \E p \in trace' : Along(p) = n
         /\ ln.from \in trace'
    BY TraceGrows
  <1>13. LineGoes'
    BY <1>2, <1>5, <1>8, <1>9, <1>10, <1>11, <1>12 DEF LineGoes
  <1> QED BY <1>2, <1>13 DEF LineInv

(* line's locals, before its loop. *)
LEMMA LineBegins ==
  ASSUME NEW s \in Int \X Int \X Int \X Int, line(s[1], s[2], s[3], s[4])
  PROVE  LineInv'
  <1> DEFINE x1 == s[1]
             y1 == s[2]
             x2 == s[3]
             y2 == s[4]
             sx == IF x1 < x2 THEN 1 ELSE -1
             sy == IF y1 < y2 THEN 1 ELSE -1
  <1>1. x1 \in Int /\ y1 \in Int /\ x2 \in Int /\ y2 \in Int
    OBVIOUS
  <1>2. /\ drawing' = TRUE /\ trace' = {}
        /\ ln' = [from |-> <<x1, y1>>, x1 |-> x1, y1 |-> y1, x2 |-> x2, y2 |-> y2,
                  dx |-> Abs(x2 - x1), dy |-> -Abs(y2 - y1), sx |-> sx, sy |-> sy,
                  err |-> Abs(x2 - x1) + (-Abs(y2 - y1))]
    BY DEF line
  <1> HIDE DEF x1, y1, x2, y2
  <1>3. Abs(x2 - x1) \in Nat /\ Abs(y2 - y1) \in Nat
        /\ Ahead(sx, x2, x1) = Abs(x2 - x1) /\ Ahead(sy, y2, y1) = Abs(y2 - y1)
        /\ Ahead(sx, x1, x1) = 0 /\ Ahead(sy, y1, y1) = 0
    BY <1>1 DEF Abs, Ahead
  <1>4. sx \in {1, -1} /\ sy \in {1, -1}
    OBVIOUS
  <1> DEFINE w == Abs(x2 - x1)
             h == Abs(y2 - y1)
  <1>5. w \in Nat /\ h \in Nat
    BY <1>3
  <1> HIDE DEF w, h, sx, sy
  <1>6. /\ ln' \in [from : Points, x1 : Int, y1 : Int, x2 : Int, y2 : Int,
                    dx : Nat, dy : Int, sx : {1, -1}, sy : {1, -1}, err : Int]
        /\ ln'.from = <<x1, y1>> /\ ln'.x1 = x1 /\ ln'.y1 = y1 /\ ln'.x2 = x2 /\ ln'.y2 = y2
        /\ ln'.dx = w /\ ln'.dy = -h /\ ln'.sx = sx /\ ln'.sy = sy /\ ln'.err = w - h
    <2>1. ln' = [from |-> <<x1, y1>>, x1 |-> x1, y1 |-> y1, x2 |-> x2, y2 |-> y2,
                 dx |-> w, dy |-> -h, sx |-> sx, sy |-> sy, err |-> w + (-h)]
      BY <1>2 DEF w, h
    <2>2. -h \in Int /\ w + (-h) \in Int /\ w + (-h) = w - h
      BY <1>5
    <2> QED BY <1>1, <1>4, <1>5, <2>1, <2>2 DEF Points
  <1>7. Height' = h
    BY <1>5, <1>6 DEF Height
  <1>8. LineType'
    <2>1. AlongX(End)' = w /\ AlongY(End)' = h
      BY <1>3, <1>6 DEF AlongX, AlongY, End, w, h
    <2> QED BY <1>2, <1>5, <1>6, <1>7, <2>1 DEF LineType
  <1>9. AlongX(Here)' = 0 /\ AlongY(Here)' = 0
    BY <1>3, <1>6 DEF AlongX, AlongY, Here
  <1>10. Off(Here)' = 0
    BY <1>5, <1>6, <1>7, <1>9 DEF Off
  <1>11. Length' \in Nat /\ Along(Here)' = 0
    BY <1>5, <1>6, <1>7, <1>9 DEF Length, Along
  <1>12. Here' = ln'.from
    BY <1>6 DEF Here
  <1>13. Near(Here)' /\ ln'.err = Off(Here)' + ln'.dx - Height'
    <2>1. \A n \in Nat : -n <= 2 * 0 /\ 2 * 0 <= n
      OBVIOUS
    <2>2. Near(Here)'
      BY <1>10, <1>11, <2>1 DEF Near
    <2>3. w - h = 0 + w - h
      BY <1>5
    <2>4. ln'.err = Off(Here)' + ln'.dx - Height'
      BY <1>6, <1>7, <1>10, <2>3
    <2> QED BY <2>2, <2>4
  <1>14. Passed' = {}
    BY <1>2, <1>11 DEF Passed
  <1>15. Along(Here)' \in 0 .. Length'
    BY <1>11
  <1>16. LineGoes'
    BY <1>2, <1>12, <1>13, <1>14, <1>15 DEF LineGoes
  <1> QED BY <1>8, <1>16 DEF LineInv

(* Where line() is not concerned. *)
LEMMA LineStays ==
  ASSUME LineInv, ln' = ln, \/ drawing' = drawing /\ trace' = trace
                            \/ drawing' = FALSE /\ trace' = {}
  PROVE  LineInv'
  <1>1. LineType'
    <2>1. Height' = Height /\ End' = End
      BY DEF Height, End
    <2>2. AlongX(End)' = AlongX(End) /\ AlongY(End)' = AlongY(End)
      BY <2>1 DEF AlongX, AlongY
    <2> QED BY <2>1, <2>2 DEF LineInv, LineType
  <1>2. CASE drawing' = FALSE /\ trace' = {}
    BY <1>1, <1>2 DEF LineInv
  <1>3. CASE drawing' = drawing /\ trace' = trace
    <2>1. /\ Length' = Length /\ Height' = Height /\ Here' = Here /\ End' = End
          /\ \A p : /\ Off(p)' = Off(p) /\ Along(p)' = Along(p) /\ (Near(p)' <=> Near(p))
      BY DistancesStay DEF Here, End
    <2>2. Off(Here)' = Off(Here) /\ Along(Here)' = Along(Here) /\ (Near(Here)' <=> Near(Here))
      BY <2>1 DEF Off, Along, AlongX, AlongY, Near, Flat, Length
    <2>3. Passed' = Passed
      BY <1>3, <2>1, <2>2 DEF Passed
    <2>4. LineGoes => LineGoes'
      BY <1>3, <2>1, <2>2, <2>3 DEF LineGoes
    <2> QED BY <1>1, <1>3, <2>4 DEF LineInv
  <1> QED BY <1>2, <1>3

(* No line was drawn yet. *)
LEMMA InitEstablishesLineInv == FbInit => LineInv
  <1> SUFFICES ASSUME FbInit PROVE LineInv
    OBVIOUS
  <1>1. /\ ln.from = <<0, 0>> /\ ln.x2 = 0 /\ ln.y2 = 0 /\ ln.dx = 0 /\ ln.dy = 0
        /\ ln.sx = 1 /\ ln.sy = 1
        /\ ln \in [from : Points, x1 : Int, y1 : Int, x2 : Int, y2 : Int,
                   dx : Nat, dy : Int, sx : {1, -1}, sy : {1, -1}, err : Int]
    BY DEF FbInit, Points
  <1>2. Height = 0
    <2>1. \A n \in Int : n + (-n) = 0 /\ -n \in Int
      OBVIOUS
    <2>2. ln.dy \in Int /\ ln.dy = 0
      BY <1>1
    <2>3. 0 + Height = 0 /\ Height \in Int
      BY <2>1, <2>2, Zenon DEF Height
    <2> QED BY <2>3
  <1>3. AlongX(End) = 0 /\ AlongY(End) = 0
    <2>1. End = <<0, 0>> /\ Ahead(1, 0, 0) = 0
      BY <1>1 DEF End, Ahead
    <2> QED BY <1>1, <2>1 DEF AlongX, AlongY
  <1> QED BY <1>1, <1>2, <1>3 DEF LineInv, LineType, FbInit

(* Every step of the console. *)
LEMMA StepPreservesLineInv == LineInv /\ [Next]_vars => LineInv'
  <1> SUFFICES ASSUME LineInv, [Next]_vars PROVE LineInv'
    OBVIOUS
  <1>1. CASE LineRuns
    <2>1. CASE Here = End
      <3>1. trace' = trace \cup {Here} /\ drawing' = FALSE /\ ln' = ln /\ drawing
        BY <1>1, <2>1 DEF LineRuns, LineStep, Here, End
      <3> QED BY <2>1, <3>1, LineEnds
    <2>2. CASE Here # End
      <3>1. trace' = trace \cup {Here} /\ drawing' = TRUE /\ AdvanceLine /\ drawing
        BY <1>1, <2>2 DEF LineRuns, LineStep, Here, End
      <3> QED BY <2>2, <3>1, LineAdvances
    <2> QED BY <2>1, <2>2
  <1>2. CASE \E s \in Segments : Line(s)
    BY <1>2, LineBegins, ConsoleAssumption DEF Line
  <1>3. CASE Exception
    BY <1>3, LineStays DEF Exception
  <1>4. CASE UNCHANGED <<ln, drawing, trace>>
    BY <1>4, LineStays
  <1>5. [Next]_vars => \/ LineRuns \/ (\E s \in Segments : Line(s)) \/ Exception
                       \/ UNCHANGED <<ln, drawing, trace>>
    BY DEF Next, Step, Kprint, sys_write, kprint_at, kprintf, kprint, DrawStep, DrawEnd, AdvanceStep,
           AdvanceEnd, FormatStep, convert, ConvertStep, ConvertEnd, Return, fbVars, vars
  <1> QED BY <1>1, <1>2, <1>3, <1>4, <1>5

(* Signs of a product. *)
LEMMA SignedProduct ==
  ASSUME NEW s \in {1, -1}, NEW t \in {1, -1}, NEW a \in Int, NEW v \in Int
  PROVE  /\ (s * a) * (t * v) = s * (t * (a * v))
         /\ (s * a) * (t * v) = t * (s * (a * v))
  <1>1. CASE s = 1 /\ t = 1
    BY <1>1
  <1>2. CASE s = 1 /\ t = -1
    BY <1>2
  <1>3. CASE s = -1 /\ t = 1
    BY <1>3
  <1>4. CASE s = -1 /\ t = -1
    BY <1>4
  <1> QED BY <1>1, <1>2, <1>3, <1>4

(* What the drawing of a line means for its points. *)
LEMMA LineInvImplies ==
  ASSUME LineInv
  PROVE  LineIsStraight
  <1> DEFINE X == ln.x2 - ln.from[1]
             Y == ln.y2 - ln.from[2]
             longer == IF Abs(X) >= Abs(Y) THEN 1 ELSE 2
             length == IF longer = 1 THEN Abs(X) ELSE Abs(Y)
  <1>1. LineType
    BY DEF LineInv
  <1>2. /\ ln.from[1] \in Int /\ ln.from[2] \in Int /\ ln.x2 \in Int /\ ln.y2 \in Int
        /\ ln.sx \in {1, -1} /\ ln.sy \in {1, -1} /\ ln.dx \in Nat /\ Height \in Nat
    BY <1>1 DEF LineType, Points
  <1>3. /\ X \in Int /\ Y \in Int /\ X = ln.sx * ln.dx /\ Y = ln.sy * Height
        /\ Abs(X) = ln.dx /\ Abs(Y) = Height
    <2>1. Ahead(ln.sx, ln.x2, ln.from[1]) = ln.dx /\ Ahead(ln.sy, ln.y2, ln.from[2]) = Height
      BY <1>1 DEF LineType, AlongX, AlongY, End
    <2>2. X \in Int /\ Y \in Int
      BY <1>2
    <2>3. X = (IF ln.sx = 1 THEN ln.dx ELSE -ln.dx) /\ Y = (IF ln.sy = 1 THEN Height ELSE -Height)
      BY <1>2, <2>1 DEF Ahead
    <2>4. Abs(X) = ln.dx /\ Abs(Y) = Height
      BY <1>2, <2>2, <2>3 DEF Abs
    <2>5. X = ln.sx * ln.dx /\ Y = ln.sy * Height
      <3> HIDE DEF X, Y
      <3> QED BY <1>2, <2>3
    <2> QED BY <2>2, <2>4, <2>5
  <1>4. length = Length /\ (longer = 1 <=> Flat) /\ longer \in {1, 2}
    BY <1>3 DEF Length, Flat
  <1> HIDE DEF X, Y
  <1>5. CASE trace = {}
    BY <1>5 DEF LineIsStraight
  <1>6. CASE trace # {}
    <2>1. LineGoes
      BY <1>6 DEF LineInv
    <2>2. trace \subseteq Points
      BY <2>1 DEF LineGoes
    <2>3. ASSUME NEW p \in trace
          PROVE  2 * Abs(X * (p[2] - ln.from[2]) - Y * (p[1] - ln.from[1])) <= length
      <3> DEFINE u == AlongX(p)
                 v == AlongY(p)
      <3>0. p[1] \in Int /\ p[2] \in Int /\ u \in Int /\ v \in Int /\ Off(p) \in Int
            /\ Length \in Nat /\ ln.dx * v \in Int /\ Height * u \in Int
        BY <2>2, <1>1, Distances DEF Points
      <3>1. p[1] - ln.from[1] = ln.sx * u /\ p[2] - ln.from[2] = ln.sy * v
        BY <1>2, <3>0 DEF AlongX, AlongY, Ahead
      <3> HIDE DEF u, v
      <3>2. Off(p) = ln.dx * v - Height * u
        BY DEF Off, u, v
      <3>3. X * (ln.sy * v) = ln.sx * (ln.sy * (ln.dx * v))
        BY <1>2, <1>3, <3>0, SignedProduct
      <3>4. Y * (ln.sx * u) = ln.sx * (ln.sy * (Height * u))
        BY <1>2, <1>3, <3>0, SignedProduct
      <3>5. Abs(X * (ln.sy * v) - Y * (ln.sx * u)) = Abs(Off(p))
        <4> DEFINE a == ln.dx * v
                   b == Height * u
        <4>1. a \in Int /\ b \in Int /\ Off(p) = a - b
          BY <3>0, <3>2
        <4>2. X * (ln.sy * v) - Y * (ln.sx * u) = ln.sx * (ln.sy * a) - ln.sx * (ln.sy * b)
          BY <3>3, <3>4
        <4> HIDE DEF a, b
        <4> QED BY <1>2, <4>1, <4>2 DEF Abs
      <3>6. 2 * Abs(Off(p)) <= Length
        <4>1. -Length <= 2 * Off(p) /\ 2 * Off(p) <= Length
          BY <2>1 DEF LineGoes, Near
        <4> QED BY <3>0, <4>1 DEF Abs
      <3> QED BY <1>4, <3>1, <3>5, <3>6
    <2>4. ASSUME NEW p \in trace, NEW q \in trace, p[longer] = q[longer] PROVE p = q
      <3>1. Along(p) = Along(q)
        BY <1>4, <2>4 DEF Along, AlongX, AlongY
      <3> QED BY <2>1, <3>1 DEF LineGoes
    <2>5. ASSUME ~drawing
          PROVE  {ln.from, <<ln.x2, ln.y2>>} \subseteq trace /\ Cardinality(trace) = length + 1
      <3>1. /\ ln.from \in trace /\ End \in trace
            /\ \A p \in trace : Along(p) \in 0 .. Length
            /\ \A p, q \in trace : Along(p) = Along(q) => p = q
            /\ \A n \in 0 .. Length : \E p \in trace : Along(p) = n
        BY <1>6, <2>1, <2>5 DEF LineGoes, Passed
      <3> DEFINE f == [p \in trace |-> Along(p)]
      <3>2. f \in Bijection(trace, 0 .. Length)
        BY <3>1 DEF Bijection, Injection, Surjection, IsInjective
      <3>3. ExistsBijection(0 .. Length, trace)
        <4>1. ExistsBijection(trace, 0 .. Length)
          BY <3>2 DEF ExistsBijection
        <4> QED BY <4>1, Fun_ExistsBijSymmetric
      <3>4. Length \in Nat
        BY <1>2 DEF Length
      <3>5. IsFiniteSet(0 .. Length) /\ Cardinality(0 .. Length) = Length + 1
        BY <3>4, FS_Interval
      <3>6. Cardinality(trace) = Length + 1
        BY <3>3, <3>5, FS_Bijection
      <3> QED BY <1>4, <3>1, <3>6 DEF End
    <2> QED BY <2>3, <2>4, <2>5 DEF LineIsStraight, X, Y
  <1> QED BY <1>5, <1>6

(***************************************************************************)
(* line() draws the segment between its ends, for every pair of ends: one  *)
(* point for each coordinate of the longer axis, each no more than half a  *)
(* pixel off the ideal line, from the first end to the last one.           *)
(***************************************************************************)
THEOREM ConsoleLinesAreStraight == Spec => []LineIsStraight
  <1>1. Init => LineInv
    BY InitEstablishesLineInv DEF Init
  <1>2. LineInv => LineIsStraight
    BY LineInvImplies
  <1> QED BY <1>1, <1>2, StepPreservesLineInv, PTL DEF Spec

-----------------------------------------------------------------------------
(***************************************************************************)
(* The screen.  Points of it, the bytes that they take, and the text that  *)
(* it shows: text is a function from cells to characters.                  *)
(***************************************************************************)
Depth == fb.bpp \div 8
Pixels == (0 .. fb.width - 1) \X (0 .. fb.height - 1)
Used == UNION {ScanOut(p[1], p[2]) : p \in Pixels}

CellOf(p) == <<p[1] \div ADVANCE, p[2] \div CHAR_HEIGHT>>
InGlyph(p) == p[1] % ADVANCE < CHAR_WIDTH
Ink(p, c) == IF <<p[1] % ADVANCE, p[2] % CHAR_HEIGHT>> \in Font[c] THEN FG ELSE BG

(* A text with a character more. *)
Put(text, cell, c) ==
  [p \in DOMAIN text \cup {cell} |-> IF p # cell THEN text[p] ELSE c]

(* What is so at any time, whatever is printed. *)
ScreenInv ==
  /\ fb \in Modes
  /\ DOMAIN memory = 0 .. fb.pitch * fb.height - 1
  /\ \A o \in DOMAIN memory \ Used : memory[o] = Black
  /\ \A p \in Pixels \cap covered : Shows(p[1], p[2], LINE)

TextShown(text) ==
  \A p \in Pixels \ covered :
    IF CellOf(p) \in DOMAIN text /\ InGlyph(p)
    THEN Shows(p[1], p[2], Ink(p, text[CellOf(p)]))
    ELSE halting \/ IsClear(p[1], p[2])

(* What FramebufferAssumption says of a mode. *)
LEMMA ModeFacts ==
  ASSUME fb \in Modes
  PROVE  /\ fb.width \in Nat /\ fb.height \in Nat /\ fb.pitch \in Nat
         /\ Depth \in Nat \ {0} /\ Depth * fb.width <= fb.pitch
         /\ Bytes = 0 .. Depth - 1
  <1>1. /\ fb.width \in Nat /\ fb.height \in Nat /\ fb.pitch \in Nat
        /\ fb.bpp \in {16, 24, 32} /\ fb.width * (fb.bpp \div 8) <= fb.pitch
    BY FramebufferAssumption
  <1>2. Depth \in Nat \ {0}
    <2>1. 16 \div 8 = 2 /\ 24 \div 8 = 3 /\ 32 \div 8 = 4
      OBVIOUS
    <2>2. Depth = 2 \/ Depth = 3 \/ Depth = 4
      BY <1>1, <2>1 DEF Depth
    <2> QED BY <2>2
  <1>3. Bytes = 0 .. Depth - 1
    BY DEF Bytes, Depth
  <1>4. fb.width * Depth <= fb.pitch
    BY <1>1 DEF Depth
  <1>5. fb.width * Depth = Depth * fb.width
    BY <1>1, <1>2
  <1> QED BY <1>1, <1>2, <1>3, <1>4, <1>5

(* Offsets of points in the quadrant of the screen. *)
LEMMA OffsetType ==
  ASSUME fb \in Modes, NEW x \in Nat, NEW y \in Nat
  PROVE  Offset(x, y) \in Nat
  <1>1. fb.pitch \in Nat /\ Depth \in Nat
    BY ModeFacts
  <1>2. y * fb.pitch \in Nat /\ x * Depth \in Nat
    BY <1>1
  <1> QED BY <1>2 DEF Offset, Depth

(* The bytes of a point, and of its row, are where only they are. *)
LEMMA Address ==
  ASSUME fb \in Modes, NEW p \in Pixels, NEW k \in Bytes
  PROVE  /\ p[1] \in Nat /\ p[2] \in Nat /\ k \in Nat /\ k < Depth
         /\ Depth * p[1] + k \in Nat /\ Depth * p[1] + k < fb.pitch
         /\ fb.pitch * p[2] + (Depth * p[1] + k) \in 0 .. fb.pitch * fb.height - 1
         /\ Offset(p[1], p[2]) + k = fb.pitch * p[2] + (Depth * p[1] + k)
         /\ Offset(p[1], p[2]) + k \in Nat
  <1>1. /\ fb.width \in Nat /\ fb.height \in Nat /\ fb.pitch \in Nat
        /\ Depth \in Nat \ {0} /\ Depth * fb.width <= fb.pitch /\ Bytes = 0 .. Depth - 1
    BY ModeFacts
  <1> DEFINE x == p[1]
             y == p[2]
             r == Depth * x + k
  <1>2. x \in Nat /\ y \in Nat /\ x < fb.width /\ y < fb.height
    BY <1>1 DEF Pixels
  <1>3. k \in Nat /\ k < Depth
    BY <1>1
  <1> HIDE DEF x, y
  <1>4. r \in Nat /\ r < fb.pitch
    <2>1. Depth * x \in Nat /\ Depth * fb.width \in Nat
      BY <1>1, <1>2
    <2>2. Depth * x + Depth <= Depth * fb.width
      BY <1>1, <1>2, Times
    <2> QED BY <1>1, <1>3, <2>1, <2>2
  <1> HIDE DEF r
  <1>5. fb.pitch * y + r \in Nat /\ fb.pitch * y + r < fb.pitch * fb.height
    <2>1. fb.pitch * y \in Nat /\ fb.pitch * fb.height \in Nat
      BY <1>1, <1>2
    <2>0. fb.pitch \in Nat \ {0}
      BY <1>1, <1>4
    <2>2. fb.pitch * y + fb.pitch <= fb.pitch * fb.height
      BY <1>1, <1>2, <2>0, Times
    <2> QED BY <1>1, <1>4, <2>1, <2>2
  <1>6. fb.pitch * fb.height \in Nat
    BY <1>1
  <1>7. fb.pitch * y + r \in 0 .. fb.pitch * fb.height - 1
    BY <1>5, <1>6
  <1>8. Offset(x, y) + k = fb.pitch * y + r
    <2>1. Offset(x, y) = y * fb.pitch + x * Depth
      BY DEF Offset, Depth
    <2>2. y * fb.pitch = fb.pitch * y /\ x * Depth = Depth * x
          /\ fb.pitch * y \in Nat /\ Depth * x \in Nat
      BY <1>1, <1>2
    <2> QED BY <1>3, <2>1, <2>2 DEF r
  <1> QED BY <1>2, <1>3, <1>4, <1>5, <1>7, <1>8 DEF x, y, r

(* Two points have no byte in common. *)
LEMMA AddressUnique ==
  ASSUME fb \in Modes, NEW p \in Pixels, NEW k \in Bytes, NEW q \in Pixels, NEW j \in Bytes,
         Offset(p[1], p[2]) + k = Offset(q[1], q[2]) + j
  PROVE  p = q /\ k = j
  <1>1. fb.pitch \in Nat /\ Depth \in Nat \ {0}
    BY ModeFacts
  <1> DEFINE r == Depth * p[1] + k
             s == Depth * q[1] + j
  <1>2. /\ p[1] \in Nat /\ p[2] \in Nat /\ k \in Nat /\ k < Depth /\ r \in Nat /\ r < fb.pitch
        /\ Offset(p[1], p[2]) + k = fb.pitch * p[2] + r
    BY Address
  <1>3. /\ q[1] \in Nat /\ q[2] \in Nat /\ j \in Nat /\ j < Depth /\ s \in Nat /\ s < fb.pitch
        /\ Offset(q[1], q[2]) + j = fb.pitch * q[2] + s
    BY Address
  <1>4. fb.pitch * p[2] + r = fb.pitch * q[2] + s
    BY <1>2, <1>3
  <1>5. r = s /\ p[2] = q[2]
    <2> DEFINE P == fb.pitch
               y == p[2]
               z == q[2]
    <2>1. P \in Nat \ {0} /\ y \in Nat /\ z \in Nat /\ r < P /\ s < P /\ P * y + r = P * z + s
          /\ r \in Nat /\ s \in Nat
      BY <1>1, <1>2, <1>3, <1>4
    <2> HIDE DEF r, s, P, y, z
    <2>2. y = z /\ r = s
      BY <2>1, SameParts
    <2> QED BY <2>2 DEF y, z
  <1>6. p[1] = q[1] /\ k = j
    <2> DEFINE x == p[1]
               z == q[1]
    <2>1. x \in Nat /\ z \in Nat /\ Depth * x + k = Depth * z + j
      BY <1>2, <1>3, <1>5
    <2> HIDE DEF x, z
    <2>2. k \in Nat /\ k < Depth /\ j \in Nat /\ j < Depth
      BY <1>2, <1>3
    <2> HIDE DEF r, s
    <2>3. x = z /\ k = j
      BY <1>1, <2>1, <2>2, SameParts
    <2> QED BY <2>3 DEF x, z
  <1>7. p = <<p[1], p[2]>> /\ q = <<q[1], q[2]>>
    BY DEF Pixels
  <1> QED BY <1>5, <1>6, <1>7

(* Where the display finds a point is where putpixel writes it. *)
LEMMA ScanOutIs ==
  ASSUME fb \in Modes, NEW p \in Pixels
  PROVE  /\ ScanOut(p[1], p[2]) = {Offset(p[1], p[2]) + k : k \in Bytes}
         /\ ScanOut(p[1], p[2]) \subseteq 0 .. fb.pitch * fb.height - 1
         /\ \A k \in Bytes : LET o == Offset(p[1], p[2]) + k
                             IN (o % fb.pitch) % (fb.bpp \div 8) = k
  <1>1. ASSUME NEW k \in Bytes
        PROVE  /\ fb.pitch * p[2] + (fb.bpp \div 8) * p[1] + k = Offset(p[1], p[2]) + k
               /\ Offset(p[1], p[2]) + k \in 0 .. fb.pitch * fb.height - 1
               /\ ((Offset(p[1], p[2]) + k) % fb.pitch) % (fb.bpp \div 8) = k
    <2> DEFINE r == Depth * p[1] + k
               o == Offset(p[1], p[2]) + k
    <2>1. fb.pitch \in Nat /\ Depth \in Nat \ {0}
      BY ModeFacts
    <2>2. /\ p[1] \in Nat /\ p[2] \in Nat /\ k \in Nat /\ k < Depth /\ r \in Nat /\ r < fb.pitch
          /\ fb.pitch * p[2] + r \in 0 .. fb.pitch * fb.height - 1
          /\ o = fb.pitch * p[2] + r /\ o \in Nat
      BY Address
    <2>3. fb.pitch \in Nat \ {0}
      BY <2>1, <2>2
    <2>4. fb.pitch * p[2] + Depth * p[1] + k = fb.pitch * p[2] + r
      <3>1. fb.pitch * p[2] \in Nat /\ Depth * p[1] \in Nat
        BY <2>1, <2>2
      <3> QED BY <3>1, <2>2
    <2> HIDE DEF o
    <2>5. o % fb.pitch = r
      <3> HIDE DEF r
      <3> QED BY <2>2, <2>3, RemainderUnique
    <2>6. r % Depth = k
      <3> DEFINE x == p[1]
      <3>1. x \in Nat /\ r = Depth * x + k
        BY <2>2
      <3>2. r \in Nat /\ k \in Nat /\ k < Depth
        BY <2>2
      <3> HIDE DEF r, x
      <3> QED BY <2>1, <3>1, <3>2, RemainderUnique
    <2>7. (o % fb.pitch) % Depth = k
      BY <2>5, <2>6
    <2> QED BY <2>2, <2>4, <2>7 DEF Depth, o
  <1>2. ScanOut(p[1], p[2]) = {Offset(p[1], p[2]) + k : k \in Bytes}
    BY <1>1 DEF ScanOut
  <1> QED BY <1>1, <1>2

(* What the putpixels of a drawing leave at each byte of video memory. *)
LEMMA PutPixels ==
  ASSUME fb \in Modes, fb' = fb, DOMAIN memory = 0 .. fb.pitch * fb.height - 1,
         NEW colors, DOMAIN colors \subseteq Points, putpixels(colors)
  PROVE  /\ DOMAIN memory' = DOMAIN memory
         /\ \A o \in DOMAIN memory \ Used : memory'[o] = memory[o]
         /\ \A p \in Pixels \ DOMAIN colors : \A o \in ScanOut(p[1], p[2]) : memory'[o] = memory[o]
         /\ \A p \in Pixels \cap DOMAIN colors : Shows(p[1], p[2], colors[p])'
  <1> DEFINE drawn == {p \in DOMAIN colors : OnScreen(p[1], p[2])}
             written == {Offset(p[1], p[2]) + k : p \in drawn, k \in Bytes}
             point(o) == CHOOSE q \in drawn : o - Offset(q[1], q[2]) \in Bytes
             byte(o) == <<colors[point(o)], o - Offset(point(o)[1], point(o)[2])>>
  <1>1. memory' = [o \in DOMAIN memory \cup written |->
                     IF o \in written THEN byte(o) ELSE memory[o]]
    BY DEF putpixels
  <1>2. drawn = Pixels \cap DOMAIN colors
    <2>1. fb.width \in Nat /\ fb.height \in Nat
      BY ModeFacts
    <2>2. ASSUME NEW p \in Points PROVE OnScreen(p[1], p[2]) <=> p \in Pixels
      <3>1. p = <<p[1], p[2]>> /\ p[1] \in Int /\ p[2] \in Int
        BY DEF Points
      <3>2. p[1] \in 0 .. fb.width - 1 <=> p[1] >= 0 /\ p[1] < fb.width
        BY <2>1, <3>1
      <3>3. p[2] \in 0 .. fb.height - 1 <=> p[2] >= 0 /\ p[2] < fb.height
        BY <2>1, <3>1
      <3> QED BY <3>1, <3>2, <3>3 DEF OnScreen, Pixels
    <2> QED BY <2>2
  <1> HIDE DEF drawn
  <1>3. \A p \in drawn : \A k \in Bytes : memory'[Offset(p[1], p[2]) + k] = <<colors[p], k>>
    <2> SUFFICES ASSUME NEW p \in drawn, NEW k \in Bytes
                 PROVE  memory'[Offset(p[1], p[2]) + k] = <<colors[p], k>>
      OBVIOUS
    <2> DEFINE o == Offset(p[1], p[2]) + k
    <2>1. p \in Pixels
      BY <1>2
    <2>2. /\ p[1] \in Nat /\ p[2] \in Nat /\ k \in Nat /\ o \in Nat
      BY <2>1, Address
    <2>3. Offset(p[1], p[2]) \in Int
      <3>1. Offset(p[1], p[2]) \in Nat
        BY <2>2, OffsetType, Zenon
      <3> QED BY <3>1
    <2>4. o - Offset(p[1], p[2]) = k
      BY <2>2, <2>3
    <2>5. \E q \in drawn : o - Offset(q[1], q[2]) \in Bytes
      BY <2>4
    <2>6. point(o) \in drawn /\ o - Offset(point(o)[1], point(o)[2]) \in Bytes
      BY <2>5
    <2> DEFINE q == point(o)
               j == o - Offset(q[1], q[2])
    <2>7. q \in Pixels /\ j \in Bytes
      BY <2>6, <1>2
    <2> HIDE DEF q, o
    <2>8. q[1] \in Nat /\ q[2] \in Nat
      BY <2>7, ModeFacts DEF Pixels
    <2>9. Offset(q[1], q[2]) \in Int
      <3>1. ASSUME NEW x \in Nat, NEW y \in Nat PROVE Offset(x, y) \in Int
        BY OffsetType
      <3> QED BY <2>8, <3>1
    <2>10. Offset(q[1], q[2]) + j = o
      BY <2>2, <2>9
    <2>11. p = q /\ k = j
      <3> HIDE DEF j
      <3> QED BY <2>1, <2>7, <2>10, AddressUnique DEF o
    <2>12. o \in written
      BY DEF o
    <2>13. memory'[o] = byte(o)
      BY <1>1, <2>12
    <2>14. byte(o) = <<colors[q], j>>
      BY DEF q
    <2> HIDE DEF byte, j
    <2>15. memory'[o] = <<colors[p], k>>
      BY <2>11, <2>13, <2>14
    <2> QED BY <2>15 DEF o
  <1>4. written \subseteq Used /\ written \subseteq DOMAIN memory
    <2> SUFFICES ASSUME NEW p \in drawn, NEW k \in Bytes
                 PROVE  Offset(p[1], p[2]) + k \in Used /\ Offset(p[1], p[2]) + k \in DOMAIN memory
      OBVIOUS
    <2>1. p \in Pixels
      BY <1>2
    <2>2. /\ Offset(p[1], p[2]) + k \in ScanOut(p[1], p[2])
          /\ ScanOut(p[1], p[2]) \subseteq 0 .. fb.pitch * fb.height - 1
      BY <2>1, ScanOutIs
    <2> QED BY <2>1, <2>2 DEF Used
  <1> HIDE DEF byte
  <1>5. DOMAIN memory' = DOMAIN memory
    BY <1>1, <1>4
  <1>6. \A o \in DOMAIN memory \ written : memory'[o] = memory[o]
    BY <1>1, <1>4
  <1>7. ASSUME NEW p \in Pixels \ DOMAIN colors, NEW o \in ScanOut(p[1], p[2])
        PROVE  memory'[o] = memory[o]
    <2>1. p \in Pixels
      OBVIOUS
    <2>2. PICK k \in Bytes : o = Offset(p[1], p[2]) + k
      BY <2>1, ScanOutIs
    <2>3. o \in DOMAIN memory
      BY <2>1, ScanOutIs
    <2>4. o \notin written
      <3> SUFFICES ASSUME NEW q \in drawn, NEW j \in Bytes, o = Offset(q[1], q[2]) + j
                   PROVE  FALSE
        OBVIOUS
      <3>1. q \in Pixels /\ q \in DOMAIN colors
        BY <1>2
      <3>2. p = q
        BY <2>1, <2>2, <3>1, AddressUnique
      <3> QED BY <3>1, <3>2
    <2> QED BY <1>6, <2>3, <2>4
  <1>8. ASSUME NEW p \in Pixels \cap DOMAIN colors
        PROVE  Shows(p[1], p[2], colors[p])'
    <2>1. p \in drawn /\ p \in Pixels
      BY <1>2
    <2>0. ASSUME NEW k \in Bytes
          PROVE  memory'[Offset(p[1], p[2]) + k] = <<colors[p], k>>
      BY <1>3, <2>1
    <2>2. \A o \in ScanOut(p[1], p[2]) :
            memory'[o] = <<colors[p], (o % fb.pitch) % (fb.bpp \div 8)>>
      <3> SUFFICES ASSUME NEW o \in ScanOut(p[1], p[2])
                   PROVE  memory'[o] = <<colors[p], (o % fb.pitch) % (fb.bpp \div 8)>>
        OBVIOUS
      <3>1. PICK k \in Bytes : o = Offset(p[1], p[2]) + k
        BY <2>1, ScanOutIs
      <3>2. (o % fb.pitch) % (fb.bpp \div 8) = k
        BY <2>1, <3>1, ScanOutIs
      <3>3. memory'[Offset(p[1], p[2]) + k] = <<colors[p], k>>
        BY <2>0, <3>1, Zenon
      <3> QED BY <3>1, <3>2, <3>3
    <2>3. ScanOut(p[1], p[2])' = ScanOut(p[1], p[2])
      BY DEF ScanOut, Bytes
    <2> QED BY <2>2, <2>3 DEF Shows
  <1>9. \A o \in DOMAIN memory \ Used : memory'[o] = memory[o]
    BY <1>4, <1>6
  <1> QED BY <1>5, <1>7, <1>8, <1>9

-----------------------------------------------------------------------------
(* A cell of characters: its columns. *)
LEMMA Column ==
  ASSUME NEW d \in Nat \ {0}, NEW n \in Nat, NEW c \in Nat, NEW w \in Nat, w <= d
  PROVE  /\ (\E j \in 0 .. w - 1 : n = c * d + j) <=> (n \div d = c /\ n % d < w)
         /\ n \div d = c => n - c * d = n % d
  <1> DEFINE q == n \div d
             r == n % d
  <1>1. q \in Nat /\ r \in Nat /\ r < d /\ n = d * q + r
    BY Remainder
  <1>2. c * d = d * c /\ d * c \in Nat
    OBVIOUS
  <1>3. ASSUME NEW j \in 0 .. w - 1, n = c * d + j PROVE q = c /\ r < w
    <2>1. j \in Nat /\ j < d /\ j < w
      OBVIOUS
    <2>2. n = d * c + j
      BY <1>2, <1>3
    <2>3. n \div d = c /\ n % d = j
      BY <2>1, <2>2, RemainderUnique
    <2> QED BY <2>1, <2>3
  <1> HIDE DEF q, r
  <1>4. ASSUME q = c, r < w PROVE \E j \in 0 .. w - 1 : n = c * d + j
    <2>1. r \in 0 .. w - 1 /\ n = c * d + r
      BY <1>1, <1>2, <1>4
    <2> QED BY <2>1
  <1>5. q = c => n - c * d = r
    BY <1>1, <1>2
  <1> QED BY <1>3, <1>4, <1>5 DEF q, r

(* The sizes of characters. *)
LEMMA CharSizes ==
  /\ ADVANCE \in Nat \ {0} /\ CHAR_WIDTH \in Nat \ {0} /\ CHAR_WIDTH <= ADVANCE
  /\ CHAR_HEIGHT \in Nat \ {0}
  BY FramebufferAssumption, ConsoleAssumption

(* The points of a character are those of its cell, the gap excepted. *)
LEMMA BoxOfCell ==
  ASSUME fb \in Modes, NEW p \in Pixels, NEW col \in Nat, NEW row \in Nat
  PROVE  /\ p \in Box(col * ADVANCE, row * CHAR_HEIGHT) <=> CellOf(p) = <<col, row>> /\ InGlyph(p)
         /\ CellOf(p) = <<col, row>> =>
              <<p[1] - col * ADVANCE, p[2] - row * CHAR_HEIGHT>>
                = <<p[1] % ADVANCE, p[2] % CHAR_HEIGHT>>
  <1> DEFINE x == p[1]
             y == p[2]
  <1>1. x \in Nat /\ y \in Nat /\ p = <<x, y>>
    <2>1. fb.width \in Nat /\ fb.height \in Nat
      BY ModeFacts
    <2> QED BY <2>1 DEF Pixels
  <1>2. CellOf(p) = <<x \div ADVANCE, y \div CHAR_HEIGHT>> /\ (InGlyph(p) <=> x % ADVANCE < CHAR_WIDTH)
    BY DEF CellOf, InGlyph
  <1> HIDE DEF x, y
  <1>3. /\ (\E j \in 0 .. CHAR_WIDTH - 1 : x = col * ADVANCE + j)
             <=> (x \div ADVANCE = col /\ x % ADVANCE < CHAR_WIDTH)
        /\ x \div ADVANCE = col => x - col * ADVANCE = x % ADVANCE
    BY <1>1, CharSizes, Column
  <1>4. /\ (\E j \in 0 .. CHAR_HEIGHT - 1 : y = row * CHAR_HEIGHT + j)
             <=> (y \div CHAR_HEIGHT = row /\ y % CHAR_HEIGHT < CHAR_HEIGHT)
        /\ y \div CHAR_HEIGHT = row => y - row * CHAR_HEIGHT = y % CHAR_HEIGHT
    <2>1. CHAR_HEIGHT \in Nat /\ CHAR_HEIGHT <= CHAR_HEIGHT
      BY CharSizes
    <2> QED BY <1>1, <2>1, CharSizes, Column
  <1>5. y % CHAR_HEIGHT < CHAR_HEIGHT
    BY <1>1, CharSizes, Remainder
  <1>6. p \in Box(col * ADVANCE, row * CHAR_HEIGHT) <=>
          /\ \E j \in 0 .. CHAR_WIDTH - 1 : x = col * ADVANCE + j
          /\ \E j \in 0 .. CHAR_HEIGHT - 1 : y = row * CHAR_HEIGHT + j
    BY <1>1 DEF Box
  <1>7. p \in Box(col * ADVANCE, row * CHAR_HEIGHT) <=> CellOf(p) = <<col, row>> /\ InGlyph(p)
    BY <1>2, <1>3, <1>4, <1>5, <1>6
  <1>8. CellOf(p) = <<col, row>> => x - col * ADVANCE = x % ADVANCE
                                    /\ y - row * CHAR_HEIGHT = y % CHAR_HEIGHT
    BY <1>2, <1>3, <1>4
  <1> QED BY <1>7, <1>8 DEF x, y

(* A point whose bytes stay goes on showing what it showed. *)
LEMMA BytesStay ==
  ASSUME fb' = fb, NEW p, \A o \in ScanOut(p[1], p[2]) : memory'[o] = memory[o]
  PROVE  /\ \A c : Shows(p[1], p[2], c) => Shows(p[1], p[2], c)'
         /\ IsClear(p[1], p[2]) => IsClear(p[1], p[2])'
  <1>1. ScanOut(p[1], p[2])' = ScanOut(p[1], p[2])
    BY DEF ScanOut, Bytes
  <1> QED BY <1>1 DEF Shows, IsClear

(* The padding, and the points of a screen that does not change. *)
LEMMA SameScreen ==
  ASSUME fb' = fb
  PROVE  Pixels' = Pixels /\ Used' = Used
  BY DEF Pixels, Used, ScanOut, Bytes

(* The points of a character, anywhere. *)
LEMMA BoxPoints ==
  ASSUME NEW x \in Int, NEW y \in Int
  PROVE  Box(x, y) \subseteq Points
  BY CharSizes DEF Box, Points

(* draw_char keeps the padding black and the lines that it leaves. *)
LEMMA DrawKeepsScreen ==
  ASSUME ScreenInv, fb' = fb, NEW c, NEW x \in Int, NEW y \in Int, draw_char(c, x, y)
  PROVE  ScreenInv'
  <1> DEFINE colors == [p \in Box(x, y) |-> IF <<p[1] - x, p[2] - y>> \in Font[c] THEN FG ELSE BG]
  <1>1. /\ fb \in Modes /\ DOMAIN memory = 0 .. fb.pitch * fb.height - 1
        /\ \A o \in DOMAIN memory \ Used : memory[o] = Black
        /\ \A p \in Pixels \cap covered : Shows(p[1], p[2], LINE)
    BY DEF ScreenInv
  <1>2. putpixels(colors) /\ covered' = covered \ Box(x, y) /\ DOMAIN colors = Box(x, y)
    BY DEF draw_char
  <1>3. DOMAIN colors \subseteq Points
    BY <1>2, BoxPoints
  <1> HIDE DEF colors
  <1>4. /\ DOMAIN memory' = DOMAIN memory
        /\ \A o \in DOMAIN memory \ Used : memory'[o] = memory[o]
        /\ \A p \in Pixels \ DOMAIN colors : \A o \in ScanOut(p[1], p[2]) : memory'[o] = memory[o]
    BY <1>1, <1>2, <1>3, PutPixels
  <1>5. Pixels' = Pixels /\ Used' = Used
    BY SameScreen
  <1>6. ASSUME NEW p \in Pixels \cap covered' PROVE Shows(p[1], p[2], LINE)'
    <2>1. p \in Pixels \ DOMAIN colors /\ Shows(p[1], p[2], LINE)
      BY <1>1, <1>2
    <2>2. \A o \in ScanOut(p[1], p[2]) : memory'[o] = memory[o]
      BY <1>4, <2>1
    <2> QED BY <2>1, <2>2, BytesStay
  <1> QED BY <1>1, <1>4, <1>5, <1>6 DEF ScreenInv

(* draw_char at a cell writes the character into the text that is shown. *)
LEMMA DrawShowsText ==
  ASSUME ScreenInv, fb' = fb, halting' = halting, NEW c, NEW col \in Nat, NEW row \in Nat,
         draw_char(c, col * ADVANCE, row * CHAR_HEIGHT), NEW text, TextShown(text),
         NEW next, next = Put(text, <<col, row>>, c)
  PROVE  TextShown(next)'
  <1>0. next = [p \in DOMAIN text \cup {<<col, row>>} |-> IF p # <<col, row>> THEN text[p] ELSE c]
    BY DEF Put
  <1> DEFINE x == col * ADVANCE
             y == row * CHAR_HEIGHT
             colors == [p \in Box(x, y) |-> IF <<p[1] - x, p[2] - y>> \in Font[c] THEN FG ELSE BG]
  <1>1. x \in Nat /\ y \in Nat
    BY CharSizes
  <1>2. putpixels(colors) /\ covered' = covered \ Box(x, y) /\ DOMAIN colors = Box(x, y)
    BY DEF draw_char
  <1>3. DOMAIN colors \subseteq Points
    BY <1>1, <1>2, BoxPoints
  <1>4. \A p \in Box(x, y) : colors[p] = IF <<p[1] - x, p[2] - y>> \in Font[c] THEN FG ELSE BG
    OBVIOUS
  <1> HIDE DEF colors
  <1>5. /\ \A p \in Pixels \ DOMAIN colors : \A o \in ScanOut(p[1], p[2]) : memory'[o] = memory[o]
        /\ \A p \in Pixels \cap DOMAIN colors : Shows(p[1], p[2], colors[p])'
    BY <1>2, <1>3, PutPixels DEF ScreenInv
  <1>6. Pixels' = Pixels /\ fb \in Modes
    BY SameScreen DEF ScreenInv
  <1>7. ASSUME NEW p \in Pixels \ covered'
        PROVE  IF CellOf(p) \in DOMAIN next /\ InGlyph(p)
               THEN Shows(p[1], p[2], Ink(p, next[CellOf(p)]))'
               ELSE halting' \/ IsClear(p[1], p[2])'
    <2>0. p \in Pixels
      OBVIOUS
    <2>1. /\ p \in Box(x, y) <=> CellOf(p) = <<col, row>> /\ InGlyph(p)
          /\ CellOf(p) = <<col, row>> =>
               <<p[1] - x, p[2] - y>> = <<p[1] % ADVANCE, p[2] % CHAR_HEIGHT>>
      BY <1>6, <2>0, BoxOfCell
    <2>2. CASE p \in Box(x, y)
      <3>1. CellOf(p) \in DOMAIN next /\ InGlyph(p) /\ next[CellOf(p)] = c
        BY <1>0, <2>1, <2>2
      <3>2. colors[p] = Ink(p, c)
        BY <1>4, <2>1, <2>2 DEF Ink
      <3>3. Shows(p[1], p[2], colors[p])'
        BY <1>2, <1>5, <2>2
      <3>4. Shows(p[1], p[2], Ink(p, next[CellOf(p)]))'
        BY <3>1, <3>2, <3>3
      <3> QED BY <3>1, <3>4
    <2>3. CASE p \notin Box(x, y)
      <3>1. \A o \in ScanOut(p[1], p[2]) : memory'[o] = memory[o]
        BY <1>2, <1>5, <2>3
      <3>2. /\ \A a : Shows(p[1], p[2], a) => Shows(p[1], p[2], a)'
            /\ IsClear(p[1], p[2]) => IsClear(p[1], p[2])'
        BY <3>1, BytesStay
      <3>3. IF CellOf(p) \in DOMAIN text /\ InGlyph(p)
            THEN Shows(p[1], p[2], Ink(p, text[CellOf(p)]))
            ELSE halting \/ IsClear(p[1], p[2])
        BY <1>2, <2>3 DEF TextShown
      <3>4. CASE CellOf(p) \in DOMAIN next /\ InGlyph(p)
        <4>1. CellOf(p) \in DOMAIN text /\ next[CellOf(p)] = text[CellOf(p)]
          BY <1>0, <2>1, <2>3, <3>4
        <4>2. Shows(p[1], p[2], Ink(p, text[CellOf(p)]))
          BY <3>3, <3>4, <4>1
        <4>3. Shows(p[1], p[2], Ink(p, text[CellOf(p)]))'
          BY <3>2, <4>2
        <4> QED BY <3>4, <4>1, <4>3
      <3>5. CASE ~(CellOf(p) \in DOMAIN next /\ InGlyph(p))
        <4>1. ~(CellOf(p) \in DOMAIN text /\ InGlyph(p))
          BY <1>0, <3>5
        <4> QED BY <3>2, <3>3, <3>5, <4>1
      <3> QED BY <3>4, <3>5
    <2> QED BY <2>2, <2>3
  <1>8. \A p : (CellOf(p)' = CellOf(p)) /\ (InGlyph(p)' <=> InGlyph(p))
               /\ \A a : Ink(p, a)' = Ink(p, a)
    BY DEF CellOf, InGlyph, Ink
  <1> QED BY <1>6, <1>7, <1>8 DEF TextShown

(* A point of a line. *)
LEMMA LineShowsText ==
  ASSUME ScreenInv, fb' = fb, halting' = halting, NEW q \in Points,
         putpixels([p \in {q} |-> LINE]), covered' = covered \cup {q}
  PROVE  ScreenInv' /\ \A text : TextShown(text) => TextShown(text)'
  <1> DEFINE colors == [p \in {q} |-> LINE]
  <1>1. /\ fb \in Modes /\ DOMAIN memory = 0 .. fb.pitch * fb.height - 1
        /\ \A o \in DOMAIN memory \ Used : memory[o] = Black
        /\ \A p \in Pixels \cap covered : Shows(p[1], p[2], LINE)
    BY DEF ScreenInv
  <1>2. DOMAIN colors = {q} /\ colors[q] = LINE
    OBVIOUS
  <1> HIDE DEF colors
  <1>3. /\ DOMAIN memory' = DOMAIN memory
        /\ \A o \in DOMAIN memory \ Used : memory'[o] = memory[o]
        /\ \A p \in Pixels \ {q} : \A o \in ScanOut(p[1], p[2]) : memory'[o] = memory[o]
        /\ \A p \in Pixels \cap {q} : Shows(p[1], p[2], colors[p])'
    <2>1. putpixels(colors)
      BY DEF colors
    <2> QED BY <1>1, <1>2, <2>1, PutPixels
  <1>4. Pixels' = Pixels /\ Used' = Used
    BY SameScreen
  <1>5. ASSUME NEW p \in Pixels, p # q
        PROVE  /\ \A a : Shows(p[1], p[2], a) => Shows(p[1], p[2], a)'
               /\ IsClear(p[1], p[2]) => IsClear(p[1], p[2])'
    <2>1. \A o \in ScanOut(p[1], p[2]) : memory'[o] = memory[o]
      BY <1>3, <1>5
    <2> QED BY <2>1, BytesStay
  <1>6. ASSUME NEW p \in Pixels \cap covered' PROVE Shows(p[1], p[2], LINE)'
    <2>1. CASE p = q
      <3>1. Shows(p[1], p[2], colors[p])' /\ colors[p] = LINE
        BY <1>2, <1>3, <2>1
      <3> QED BY <3>1
    <2>2. CASE p # q
      BY <1>1, <1>5, <2>2
    <2> QED BY <2>1, <2>2
  <1>7. ScreenInv'
    BY <1>1, <1>3, <1>4, <1>6 DEF ScreenInv
  <1>8. ASSUME NEW text, TextShown(text) PROVE TextShown(text)'
    <2>1. ASSUME NEW p \in Pixels \ covered'
          PROVE  IF CellOf(p) \in DOMAIN text /\ InGlyph(p)
                 THEN Shows(p[1], p[2], Ink(p, text[CellOf(p)]))'
                 ELSE halting' \/ IsClear(p[1], p[2])'
      <3>1. p # q /\ p \in Pixels \ covered
        OBVIOUS
      <3>2. IF CellOf(p) \in DOMAIN text /\ InGlyph(p)
            THEN Shows(p[1], p[2], Ink(p, text[CellOf(p)]))
            ELSE halting \/ IsClear(p[1], p[2])
        BY <1>8, <3>1 DEF TextShown
      <3> QED BY <1>5, <3>1, <3>2
    <2>2. \A p : (CellOf(p)' = CellOf(p)) /\ (InGlyph(p)' <=> InGlyph(p))
                 /\ \A a : Ink(p, a)' = Ink(p, a)
      BY DEF CellOf, InGlyph, Ink
    <2> QED BY <1>4, <2>1, <2>2 DEF TextShown
  <1> QED BY <1>7, <1>8

(* Where nothing is drawn. *)
LEMMA ScreenStays ==
  ASSUME UNCHANGED <<fb, memory, covered>>
  PROVE  /\ ScreenInv => ScreenInv'
         /\ halting' = halting => \A text : TextShown(text) => TextShown(text)'
  <1>1. Pixels' = Pixels /\ Used' = Used
    BY SameScreen
  <1>2. \A p : /\ \A a : Shows(p[1], p[2], a) => Shows(p[1], p[2], a)'
               /\ IsClear(p[1], p[2]) => IsClear(p[1], p[2])'
    BY BytesStay
  <1>3. ScreenInv => ScreenInv'
    BY <1>1, <1>2 DEF ScreenInv
  <1>4. ASSUME halting' = halting, NEW text, TextShown(text) PROVE TextShown(text)'
    <2>1. \A p : (CellOf(p)' = CellOf(p)) /\ (InGlyph(p)' <=> InGlyph(p))
                 /\ \A a : Ink(p, a)' = Ink(p, a)
      BY DEF CellOf, InGlyph, Ink
    <2> QED BY <1>1, <1>2, <1>4, <2>1 DEF TextShown
  <1> QED BY <1>3, <1>4

-----------------------------------------------------------------------------
(* The types of the console's variables. *)
Locals == [start_x : Int, pos : Int, pos_y : Int, k : Nat \ {0}]
Conversions == [num : Nat, base : {8, 10, 16}, digits : Seq(Characters), of : Int]

ConsoleType ==
  /\ g_cursor_col \in Nat /\ g_cursor_row \in Nat
  /\ str \in Seq(Characters)
  /\ todo \in Seq(Items)
  /\ ds \in Locals
  /\ conv \in Conversions

(* What a conversion has for an argument. *)
LEMMA ItemFacts ==
  ASSUME NEW item \in Items
  PROVE  /\ item[1] \in {"literal", "c", "percent", "other", "end"} => item[2] \in Seq(Characters)
         /\ item[1] = "s" => item[2] \in {Null} \cup Seq(Characters)
         /\ item[1] = "d" => item[2] \in Int /\ item[3] = item[2] /\ -IntMod < item[2]
         /\ item[1] \in {"u", "o", "x"} =>
              item[2] \in Nat /\ item[3] \in Int /\ Abs(item[3]) = item[2]
  <1>1. CASE item \in TextItems
    BY <1>1 DEF TextItems
  <1>2. CASE item \in NumberItems
    BY <1>2 DEF NumberItems
  <1> QED BY <1>1, <1>2 DEF Items

(* The absolute value of an int fits an unsigned int, for the least int too. *)
LEMMA SignedItem ==
  ASSUME NEW n \in Int, n < 0, -IntMod < n
  PROVE  Signed(n) \in Items
  <1> DEFINE m == -n
  <1>1. IntMod \in Nat \ {0} /\ m \in Nat /\ m < IntMod /\ IntMod * 0 = 0 /\ 0 \in Nat
    BY ConsoleAssumption
  <1>2. m = IntMod * 0 + m
    BY <1>1
  <1>3. m % IntMod = m
    <2> HIDE DEF m
    <2> QED BY <1>1, <1>2, RemainderUnique
  <1>4. Abs(n) = m
    BY DEF Abs
  <1>5. Signed(n) = <<"u", m, n>>
    BY <1>3 DEF Signed
  <1>6. <<"u", m, n>> \in NumberItems
    BY <1>1, <1>4 DEF NumberItems
  <1> QED BY <1>5, <1>6 DEF Items

(* A character is a conversion too. *)
LEMMA TextItem ==
  ASSUME NEW s \in Seq(Characters)
  PROVE  Text("literal", s) \in Items
  BY DEF Text, Items, TextItems

(* Sequences: what kprintf takes off its format and puts before it. *)
LEMMA Prepended ==
  ASSUME NEW S, NEW s \in Seq(S), NEW e \in S
  PROVE  /\ <<>> \o s = s
         /\ <<e>> \o s \in Seq(S)
         /\ s # <<>> => Head(s) \in S /\ Tail(s) \in Seq(S)
  OBVIOUS

(* Strings of at most one character. *)
LEMMA ShortStrings ==
  ASSUME NEW S
  PROVE  <<>> \in Seq(S) /\ \A e \in S : <<e>> \in Seq(S)
  OBVIOUS

(* The strings that kprintf prints before a conversion, and a string of kputc. *)
LEMMA PrintedStrings ==
  /\ <<"-">> \in Seq(Characters) /\ <<"%">> \in Seq(Characters)
  /\ \A s \in Seq(Characters) : kputc(s) \in Seq(Characters)
  <1>1. "-" \in Characters /\ "%" \in Characters
    BY ConsoleAssumption
  <1>2. ASSUME NEW s \in Seq(Characters) PROVE kputc(s) \in Seq(Characters)
    <2>1. kputc(s) = <<>> \/ kputc(s) = s
      BY Zenon DEF kputc
    <2> QED BY <2>1, ShortStrings
  <1> QED BY <1>1, <1>2, ShortStrings, Zenon

(* kprint: the types. *)
LEMMA KprintType ==
  ASSUME ConsoleType, NEW s \in Seq(Characters), NEW col \in Nat, NEW row \in Nat,
         NEW rest \in Seq(Items), kprint(s, col, row, rest)
  PROVE  ConsoleType'
  <1>1. col * ADVANCE \in Int /\ row * CHAR_HEIGHT \in Int
    BY CharSizes
  <1>2. ds' \in Locals
    BY <1>1 DEF kprint, Locals
  <1> QED BY <1>2 DEF kprint, ConsoleType

(* A step of kprintf: the types, and that it prints or converts what it should. *)
LEMMA FormatCases ==
  ASSUME ConsoleType, FormatStep
  PROVE  \/ \E s \in Seq(Characters), rest \in Seq(Items) :
              kprint(s, g_cursor_col, g_cursor_row, rest)
         \/ \E n \in Nat, base \in {8, 10, 16}, of \in Int :
              Abs(of) = n /\ convert(n, base, of)
         \/ /\ todo' = <<>>
            /\ UNCHANGED <<fbVars, g_cursor_col, g_cursor_row, pc, str, ds, conv, cells,
                           strayed, halting>>
  <1> DEFINE item == Head(todo)
             spec == item[1]
             arg == item[2]
             of == item[3]
             rest == Tail(todo)
             print(s, more) == kprint(s, g_cursor_col, g_cursor_row, more \o rest)
  <1>1. todo \in Seq(Items) /\ todo # <<>>
    BY DEF ConsoleType, FormatStep
  <1>2. item \in Items /\ rest \in Seq(Items)
    BY <1>1
  <1>3. \/ spec \in {"literal", "c"} /\ print(kputc(arg), <<>>)
        \/ spec = "s" /\ print(IF arg = Null THEN NullText ELSE arg, <<>>)
        \/ spec = "d" /\ arg < 0 /\ print(<<"-">>, <<Signed(arg)>>)
        \/ spec = "d" /\ arg >= 0 /\ convert(arg, 10, of)
        \/ spec = "u" /\ convert(arg, 10, of)
        \/ spec = "o" /\ convert(arg, 8, of)
        \/ spec = "x" /\ convert(arg, 16, of)
        \/ spec = "percent" /\ print(<<"%">>, <<>>)
        \/ spec = "other" /\ print(<<"%">>, <<Text("literal", arg)>>)
        \/ /\ todo' = <<>>
           /\ UNCHANGED <<fbVars, g_cursor_col, g_cursor_row, pc, str, ds, conv, cells,
                          strayed, halting>>
    BY DEF FormatStep
  <1> HIDE DEF item, rest
  <1>4. /\ spec \in {"literal", "c", "percent", "other", "end"} => arg \in Seq(Characters)
        /\ spec = "s" => arg \in {Null} \cup Seq(Characters)
        /\ spec = "d" => arg \in Int /\ of = arg /\ -IntMod < arg
        /\ spec \in {"u", "o", "x"} => arg \in Nat /\ of \in Int /\ Abs(of) = arg
    BY <1>2, ItemFacts
  <1> HIDE DEF spec, arg, of
  <1>5. <<>> \o rest = rest /\ \A e \in Items : <<e>> \o rest \in Seq(Items)
    BY <1>2, Prepended
  <1>6. CASE spec \in {"literal", "c"} /\ print(kputc(arg), <<>>)
    <2>1. kputc(arg) \in Seq(Characters)
      BY <1>4, <1>6, PrintedStrings
    <2> QED BY <1>2, <1>5, <1>6, <2>1
  <1>7. CASE spec = "s" /\ print(IF arg = Null THEN NullText ELSE arg, <<>>)
    <2>1. (IF arg = Null THEN NullText ELSE arg) \in Seq(Characters)
      BY <1>4, <1>7, ConsoleAssumption
    <2> QED BY <1>2, <1>5, <1>7, <2>1
  <1>8. CASE spec = "d" /\ arg < 0 /\ print(<<"-">>, <<Signed(arg)>>)
    <2>1. Signed(arg) \in Items
      BY <1>4, <1>8, SignedItem
    <2>2. <<Signed(arg)>> \o rest \in Seq(Items)
      BY <1>5, <2>1
    <2> QED BY <1>8, <2>2, PrintedStrings
  <1>9. CASE spec = "d" /\ arg >= 0 /\ convert(arg, 10, of)
    <2>1. arg \in Nat /\ of \in Int /\ Abs(of) = arg
      BY <1>4, <1>9 DEF Abs
    <2> QED BY <1>9, <2>1
  <1>10. CASE spec = "u" /\ convert(arg, 10, of)
    BY <1>4, <1>10
  <1>11. CASE spec = "o" /\ convert(arg, 8, of)
    BY <1>4, <1>11
  <1>12. CASE spec = "x" /\ convert(arg, 16, of)
    BY <1>4, <1>12
  <1>13. CASE spec = "percent" /\ print(<<"%">>, <<>>)
    BY <1>2, <1>5, <1>13, PrintedStrings
  <1>14. CASE spec = "other" /\ print(<<"%">>, <<Text("literal", arg)>>)
    <2>1. Text("literal", arg) \in Items
      BY <1>4, <1>14, TextItem
    <2>2. <<Text("literal", arg)>> \o rest \in Seq(Items)
      BY <1>5, <2>1
    <2> QED BY <1>14, <2>2, PrintedStrings
  <1> QED BY <1>3, <1>6, <1>7, <1>8, <1>9, <1>10, <1>11, <1>12, <1>13, <1>14

(* The elements of a sequence. *)
LEMMA ElementOf ==
  ASSUME NEW S, NEW s \in Seq(S), NEW k \in 1 .. Len(s)
  PROVE  s[k] \in S
  OBVIOUS

(* A digit of a number is a character. *)
LEMMA DigitFacts ==
  ASSUME ConsoleType
  PROVE  /\ conv.num \in Nat /\ conv.base \in Nat \ {0} /\ conv.base <= 16
         /\ conv.num \div conv.base \in Nat /\ conv.num % conv.base \in 0 .. conv.base - 1
         /\ conv.num = conv.base * (conv.num \div conv.base) + (conv.num % conv.base)
         /\ LastDigit \in Characters
  <1> DEFINE n == conv.num
             b == conv.base
  <1>1. n \in Nat /\ b \in Nat \ {0} /\ b <= 16
    BY DEF ConsoleType, Conversions
  <1>2. /\ n \div b \in Nat /\ n % b \in Nat /\ n % b < b
        /\ n = b * (n \div b) + (n % b)
    <2> HIDE DEF n, b
    <2> QED BY <1>1, Remainder
  <1>3. LastDigit \in Characters
    <2>1. LastDigit = Representation[(n % b) + 1]
      BY DEF LastDigit
    <2> HIDE DEF n, b
    <2>2. (n % b) + 1 \in 1 .. 16
      BY <1>1, <1>2
    <2>3. Representation \in Seq(Characters) /\ Len(Representation) = 16
      BY ConsoleAssumption
    <2>4. \A m \in 1 .. 16 : Representation[m] \in Characters
      BY <2>3, ElementOf
    <2> QED BY <2>1, <2>2, <2>4
  <1> HIDE DEF n, b
  <1>4. n % b \in 0 .. b - 1
    BY <1>1, <1>2
  <1> QED BY <1>1, <1>2, <1>3, <1>4 DEF n, b

-----------------------------------------------------------------------------
(***************************************************************************)
(* The terminal that the screen should look like: a cursor and the text    *)
(* that it has passed.  After(t, c) is what a character makes of it.       *)
(***************************************************************************)
NextCol(t, c) ==
  IF c \in {"LF", "CR"} THEN 0
  ELSE IF c = "TAB" THEN t.col + 4
  ELSE IF c = "BS" THEN (IF t.col <= 0 THEN 0 ELSE t.col - 1)
  ELSE t.col + 1

NextRow(t, c) == IF c = "LF" THEN t.row + 1 ELSE t.row

NextText(t, c) ==
  IF c \in {"LF", "CR", "TAB"} THEN t.text
  ELSE IF c = "BS" THEN Put(t.text, <<NextCol(t, c), t.row>>, " ")
  ELSE Put(t.text, <<t.col, t.row>>, Glyph(c))

After(t, c) == [col |-> NextCol(t, c), row |-> NextRow(t, c), text |-> NextText(t, c)]

Terminal == [col |-> g_cursor_col, row |-> g_cursor_row, text |-> cells]

(* The cursor stays in the columns and rows from 0. *)
LEMMA AfterType ==
  ASSUME NEW t, t.col \in Nat, t.row \in Nat, NEW c
  PROVE  NextCol(t, c) \in Nat /\ NextRow(t, c) \in Nat
  BY DEF NextCol, NextRow

(* kprint's second loop does to the terminal what After says. *)
LEMMA AdvanceIsAfter ==
  ASSUME ConsoleType, AdvanceStep
  PROVE  Terminal' = After(Terminal, str[ds.k]) /\ g_cursor_col' \in Nat /\ g_cursor_row' \in Nat
  <1> DEFINE c == str[ds.k]
             to == Moved(c)
             t == Terminal
  <1>1. /\ g_cursor_col' = to[1] /\ g_cursor_row' = to[2]
        /\ cells' = Written(c, to)
    BY DEF AdvanceStep
  <1>2. t.col = g_cursor_col /\ t.row = g_cursor_row /\ t.text = cells
    BY DEF Terminal
  <1>3. g_cursor_col \in Nat /\ g_cursor_row \in Nat
    BY DEF ConsoleType
  <1> HIDE DEF c, t
  <1>4. to = <<NextCol(t, c), NextRow(t, c)>>
    <2>1. CASE c = "LF"
      BY <1>2, <2>1 DEF Moved, NextCol, NextRow
    <2>2. CASE c = "CR"
      BY <1>2, <2>2 DEF Moved, NextCol, NextRow
    <2>3. CASE c = "TAB"
      BY <1>2, <2>3 DEF Moved, NextCol, NextRow
    <2>4. CASE c = "BS"
      BY <1>2, <2>4 DEF Moved, NextCol, NextRow
    <2>5. CASE c \notin {"LF", "CR", "TAB", "BS"}
      BY <1>2, <2>5 DEF Moved, NextCol, NextRow
    <2> QED BY <2>1, <2>2, <2>3, <2>4, <2>5
  <1> HIDE DEF to
  <1>5. g_cursor_col' = NextCol(t, c) /\ g_cursor_row' = NextRow(t, c)
    BY <1>1, <1>4
  <1>6. Written(c, to) = NextText(t, c)
    <2>1. CASE c \in {"LF", "CR", "TAB"}
      BY <1>2, <2>1 DEF Written, NextText
    <2>2. CASE c = "BS"
      <3>1. NextRow(t, c) = t.row
        BY <2>2 DEF NextRow
      <3>2. to = <<NextCol(t, c), t.row>>
        BY <1>4, <3>1
      <3>3. Written(c, to) = Put(cells, to, " ")
        BY <2>2 DEF Written, Put
      <3>4. NextText(t, c) = Put(cells, <<NextCol(t, c), t.row>>, " ")
        BY <1>2, <2>2 DEF NextText
      <3> QED BY <3>2, <3>3, <3>4
    <2>3. CASE c \notin {"LF", "CR", "TAB", "BS"}
      <3>1. Written(c, to) = Put(cells, <<g_cursor_col, g_cursor_row>>, Glyph(c))
        BY <2>3 DEF Written, Put, cursor
      <3>2. NextText(t, c) = Put(cells, <<g_cursor_col, g_cursor_row>>, Glyph(c))
        BY <1>2, <2>3 DEF NextText
      <3> QED BY <3>1, <3>2
    <2> QED BY <2>1, <2>2, <2>3
  <1>7. Terminal' = After(t, c)
    BY <1>1, <1>5, <1>6 DEF Terminal, After
  <1>8. g_cursor_col' \in Nat /\ g_cursor_row' \in Nat
    BY <1>2, <1>3, <1>5, AfterType
  <1> QED BY <1>7, <1>8 DEF c, t

-----------------------------------------------------------------------------
(* A step of the console: the actions of Next, those of Step among them. *)
LEMMA NextCases ==
  ASSUME [Next]_vars
  PROVE  \/ \E s \in Strings : Kprint(s)
         \/ \E s \in Strings : sys_write(s)
         \/ \E s \in Strings, p \in Cells : kprint_at(s, p[1], p[2])
         \/ \E f \in Formats : kprintf(f)
         \/ \E s \in Segments : Line(s)
         \/ Exception
         \/ DrawStep \/ DrawEnd \/ AdvanceStep \/ AdvanceEnd
         \/ FormatStep \/ ConvertStep \/ ConvertEnd \/ Return \/ LineRuns
         \/ UNCHANGED vars
  BY DEF Next, Step

(* The types hold at first. *)
LEMMA InitEstablishesType == Init => ConsoleType
  BY ShortStrings DEF Init, ConsoleType, Locals, Conversions

(* Every step keeps the types. *)
LEMMA StepPreservesType == ConsoleType /\ [Next]_vars => ConsoleType'
  <1> SUFFICES ASSUME ConsoleType, [Next]_vars PROVE ConsoleType'
    OBVIOUS
  <1>0. /\ g_cursor_col \in Nat /\ g_cursor_row \in Nat /\ str \in Seq(Characters)
        /\ todo \in Seq(Items) /\ ds \in Locals /\ conv \in Conversions
    BY DEF ConsoleType
  <1>1. \A S : <<>> \in Seq(S)
    BY ShortStrings
  <1>2. ASSUME NEW s \in Strings, Kprint(s) PROVE ConsoleType'
    <2>1. kprint(s, g_cursor_col, g_cursor_row, <<>>) /\ s \in Seq(Characters)
      BY <1>2, ConsoleAssumption DEF Kprint
    <2> QED BY <1>0, <1>1, <2>1, KprintType
  <1>3. ASSUME NEW s \in Strings, sys_write(s) PROVE ConsoleType'
    <2> DEFINE f == [k \in 1 .. Len(s) |-> Text("literal", <<s[k]>>)]
    <2>1. s \in Seq(Characters) /\ Len(s) \in Nat
      BY ConsoleAssumption
    <2>2. \A k \in 1 .. Len(s) : Text("literal", <<s[k]>>) \in Items
      BY <2>1, ElementOf, ShortStrings, TextItem
    <2>3. f \in Seq(Items)
      BY <2>1, <2>2
    <2>4. kprintf(f)
      BY <1>3 DEF sys_write
    <2> HIDE DEF f
    <2> QED BY <1>0, <2>3, <2>4 DEF kprintf, ConsoleType
  <1>4. ASSUME NEW s \in Strings, NEW p \in Cells, kprint_at(s, p[1], p[2]) PROVE ConsoleType'
    <2>1. /\ kprint(s, p[1], p[2], <<>>) /\ s \in Seq(Characters)
          /\ p[1] \in Nat /\ p[2] \in Nat
      BY <1>4, ConsoleAssumption DEF kprint_at
    <2> QED BY <1>1, <2>1, KprintType
  <1>5. ASSUME NEW f \in Formats, kprintf(f) PROVE ConsoleType'
    BY <1>0, <1>5, ConsoleAssumption DEF kprintf, ConsoleType
  <1>6. ASSUME NEW s \in Segments, Line(s) PROVE ConsoleType'
    BY <1>0, <1>6 DEF Line, ConsoleType
  <1>7. CASE Exception
    BY <1>0, <1>7, ConsoleAssumption DEF Exception, ConsoleType
  <1>8. CASE DrawStep
    <2>1. ds' \in Locals
      <3> DEFINE back == IF ds.pos <= 0 THEN 0 ELSE ds.pos - ADVANCE
      <3>1. \/ ds' = [ds EXCEPT !.k = @ + 1, !.pos = ds.start_x, !.pos_y = @ + CHAR_HEIGHT]
            \/ ds' = [ds EXCEPT !.k = @ + 1, !.pos = ds.start_x]
            \/ ds' = [ds EXCEPT !.k = @ + 1, !.pos = back]
            \/ ds' = [ds EXCEPT !.k = @ + 1, !.pos = @ + 4 * ADVANCE]
            \/ ds' = [ds EXCEPT !.k = @ + 1, !.pos = @ + ADVANCE]
        BY <1>8 DEF DrawStep
      <3>2. ds.k + 1 \in Nat \ {0} /\ ds.pos \in Int /\ ds.start_x \in Int /\ ds.pos_y \in Int
        BY <1>0 DEF Locals
      <3>3. /\ back \in Int /\ ds.pos + 4 * ADVANCE \in Int /\ ds.pos + ADVANCE \in Int
            /\ ds.pos_y + CHAR_HEIGHT \in Int
        BY <3>2, CharSizes
      <3> HIDE DEF back
      <3> QED BY <1>0, <3>1, <3>2, <3>3 DEF Locals
    <2> QED BY <1>0, <1>8, <2>1 DEF DrawStep, ConsoleType
  <1>9. CASE DrawEnd
    BY <1>0, <1>9 DEF DrawEnd, ConsoleType, Locals
  <1>10. CASE AdvanceStep
    <2>1. g_cursor_col' \in Nat /\ g_cursor_row' \in Nat
      BY <1>10, AdvanceIsAfter
    <2>2. ds' \in Locals
      <3>1. ds' = [ds EXCEPT !.k = @ + 1]
        BY <1>10 DEF AdvanceStep
      <3> QED BY <1>0, <3>1 DEF Locals
    <2> QED BY <1>0, <1>10, <2>1, <2>2 DEF AdvanceStep, ConsoleType
  <1>11. CASE AdvanceEnd
    BY <1>0, <1>11 DEF AdvanceEnd, ConsoleType
  <1>12. CASE FormatStep
    <2>1. ASSUME NEW s \in Seq(Characters), NEW rest \in Seq(Items),
                 kprint(s, g_cursor_col, g_cursor_row, rest)
          PROVE  ConsoleType'
      BY <1>0, <2>1, KprintType
    <2>2. ASSUME NEW n \in Nat, NEW base \in {8, 10, 16}, NEW of \in Int, convert(n, base, of)
          PROVE  ConsoleType'
      <3>1. conv' \in Conversions
        BY <1>1, <2>2 DEF convert, Conversions
      <3>2. todo' \in Seq(Items)
        BY <1>0, <1>12, <2>2 DEF convert, FormatStep
      <3> QED BY <1>0, <2>2, <3>1, <3>2 DEF convert, ConsoleType
    <2>3. CASE /\ todo' = <<>>
               /\ UNCHANGED <<fbVars, g_cursor_col, g_cursor_row, pc, str, ds, conv, cells,
                              strayed, halting>>
      BY <1>0, <1>1, <2>3 DEF ConsoleType
    <2> QED BY <1>12, <2>1, <2>2, <2>3, FormatCases
  <1>13. CASE ConvertStep
    <2>1. LastDigit \in Characters /\ conv.num \div conv.base \in Nat
      BY DigitFacts
    <2>2. <<LastDigit>> \o conv.digits \in Seq(Characters)
      BY <1>0, <2>1, Prepended DEF Conversions
    <2>3. conv' \in Conversions
      BY <1>0, <1>13, <2>1, <2>2 DEF ConvertStep, Conversions
    <2> QED BY <1>0, <1>13, <2>3 DEF ConvertStep, ConsoleType
  <1>14. CASE ConvertEnd
    <2>1. kprint(conv.digits, g_cursor_col, g_cursor_row, todo) /\ conv.digits \in Seq(Characters)
      BY <1>0, <1>14 DEF ConvertEnd, Conversions
    <2> QED BY <1>0, <2>1, KprintType
  <1>15. CASE Return
    BY <1>0, <1>15 DEF Return, ConsoleType
  <1>16. CASE LineRuns
    BY <1>0, <1>16 DEF LineRuns, consoleVars, ConsoleType
  <1>17. CASE UNCHANGED vars
    BY <1>0, <1>17 DEF vars, consoleVars, ConsoleType
  <1> QED BY <1>2, <1>3, <1>4, <1>5, <1>6, <1>7, <1>8, <1>9, <1>10, <1>11, <1>12, <1>13,
             <1>14, <1>15, <1>16, <1>17, NextCases

-----------------------------------------------------------------------------
(***************************************************************************)
(* The text of the screen.  draw_string is ahead of the cursor: what it    *)
(* has drawn so far is what the terminal will show once kprint's second    *)
(* loop has come as far, so the invariant speaks of the states of the      *)
(* terminal H[1], H[2], ... that str leads through.  draw_string's pen is  *)
(* at the terminal's column, or only newlines and carriage returns are     *)
(* left to draw: after one of them it is back below its first character,   *)
(* and the terminal in column 0.                                           *)
(***************************************************************************)
Leads(H, n) ==
  /\ \A k \in 1 .. n : H[k].col \in Nat /\ H[k].row \in Nat
  /\ \A k \in 1 .. n - 1 : H[k + 1] = After(H[k], str[k])

OnlyBreaks(n) == \A j \in n .. Len(str) : str[j] \in {"LF", "CR"}

DrawnAhead ==
  /\ ds.k \in 1 .. Len(str) + 1
  /\ ds.start_x = g_cursor_col * ADVANCE
  /\ ~Strays(str, g_cursor_col)
  /\ \E H : /\ Leads(H, ds.k)
            /\ H[1] = Terminal
            /\ TextShown(H[ds.k].text)
            /\ ds.pos_y = H[ds.k].row * CHAR_HEIGHT
            /\ ds.pos = H[ds.k].col * ADVANCE \/ OnlyBreaks(ds.k)

CatchingUp ==
  /\ ds.k \in 1 .. Len(str) + 1
  /\ \E H : /\ Leads(H, Len(str) + 1)
            /\ H[ds.k] = Terminal
            /\ TextShown(H[Len(str) + 1].text)

TextInv ==
  ~strayed => /\ pc = "draw" => DrawnAhead
              /\ pc = "advance" => CatchingUp
              /\ pc \notin {"draw", "advance"} => TextShown(cells)

(* The next state of the terminal joins the others. *)
LEMMA LeadsOn ==
  ASSUME NEW n \in Nat \ {0}, NEW H, Leads(H, n)
  PROVE  \E G : /\ Leads(G, n + 1)
                /\ G[1] = H[1]
                /\ G[n + 1] = After(H[n], str[n])
  <1> DEFINE t == After(H[n], str[n])
             G == [k \in 1 .. n + 1 |-> IF k <= n THEN H[k] ELSE t]
  <1>1. n \in 1 .. n /\ H[n].col \in Nat /\ H[n].row \in Nat
    BY DEF Leads
  <1>2. t.col \in Nat /\ t.row \in Nat
    <2>1. NextCol(H[n], str[n]) \in Nat /\ NextRow(H[n], str[n]) \in Nat
      BY <1>1, AfterType
    <2> QED BY <2>1 DEF After
  <1>3. /\ \A k \in 1 .. n : G[k] = H[k]
        /\ G[n + 1] = t
    OBVIOUS
  <1> HIDE DEF G
  <1>4. ASSUME NEW k \in 1 .. n + 1 PROVE G[k].col \in Nat /\ G[k].row \in Nat
    <2>1. CASE k = n + 1
      BY <1>2, <1>3, <2>1
    <2>2. CASE k # n + 1
      <3>1. k \in 1 .. n
        BY <2>2
      <3> QED BY <1>3, <3>1 DEF Leads
    <2> QED BY <2>1, <2>2
  <1>5. ASSUME NEW k \in 1 .. (n + 1) - 1 PROVE G[k + 1] = After(G[k], str[k])
    <2>1. k \in 1 .. n /\ G[k] = H[k]
      BY <1>3
    <2>2. CASE k = n
      BY <1>3, <2>1, <2>2
    <2>3. CASE k # n
      <3>1. k \in 1 .. n - 1 /\ k + 1 \in 1 .. n
        BY <2>1, <2>3
      <3>2. H[k + 1] = After(H[k], str[k]) /\ G[k + 1] = H[k + 1]
        BY <1>3, <3>1 DEF Leads
      <3> QED BY <2>1, <3>2
    <2> QED BY <2>2, <2>3
  <1>6. Leads(G, n + 1)
    BY <1>4, <1>5 DEF Leads
  <1>7. G[1] = H[1]
    BY <1>3
  <1> QED BY <1>3, <1>6, <1>7 DEF t

(* kprint begins to draw where the cursor is. *)
LEMMA KprintText ==
  ASSUME ConsoleType, TextInv, pc \notin {"draw", "advance"},
         NEW s \in Seq(Characters), NEW col \in Nat, NEW row \in Nat, NEW rest,
         kprint(s, col, row, rest)
  PROVE  TextInv'
  <1> SUFFICES ASSUME ~strayed' PROVE DrawnAhead'
    BY DEF TextInv, kprint
  <1>1. ~strayed /\ ~Strays(s, col)
    BY DEF kprint
  <1>2. /\ str' = s /\ g_cursor_col' = col /\ g_cursor_row' = row /\ cells' = cells
        /\ ds'.start_x = col * ADVANCE /\ ds'.pos = col * ADVANCE
        /\ ds'.pos_y = row * CHAR_HEIGHT /\ ds'.k = 1
        /\ UNCHANGED <<fb, memory, covered, halting>>
    BY DEF kprint, fbVars
  <1>3. TextShown(cells)'
    <2>1. TextShown(cells)
      BY <1>1 DEF TextInv
    <2>2. \A text : TextShown(text) => TextShown(text)'
      BY <1>2, ScreenStays
    <2> QED BY <1>2, <2>1, <2>2
  <1>0. PICK H : H = [k \in 1 .. 1 |-> Terminal']
    OBVIOUS
  <1>4. H[1] = Terminal' /\ H[1].col = col /\ H[1].row = row /\ H[1].text = cells'
    BY <1>0, <1>2 DEF Terminal
  <1>5. Leads(H, 1)'
    <2>1. \A k \in 1 .. 1 : H[k].col \in Nat /\ H[k].row \in Nat
      BY <1>4
    <2>2. 1 .. 1 - 1 = {}
      OBVIOUS
    <2> QED BY <2>1, <2>2 DEF Leads
  <1>6. 1 \in 1 .. Len(s) + 1
    OBVIOUS
  <1>7. Strays(str, g_cursor_col)' <=> Strays(s, col)
    BY <1>2 DEF Strays
  <1> QED BY <1>1, <1>2, <1>3, <1>4, <1>5, <1>6, <1>7 DEF DrawnAhead

(* Multiples: a step of a column or a row. *)
LEMMA Columns ==
  ASSUME NEW a \in Nat \ {0}, NEW n \in Nat
  PROVE  /\ 0 * a = 0 /\ n * a \in Nat
         /\ (n + 1) * a = n * a + a
         /\ (n + 4) * a = n * a + 4 * a
         /\ (n - 1) * a = n * a - a
         /\ n * a <= 0 <=> n <= 0
  OBVIOUS

(* draw_string draws a character where the terminal shows it. *)
LEMMA DrawAdvances ==
  ASSUME ConsoleType, ScreenInv, DrawStep, DrawnAhead
  PROVE  DrawnAhead'
  <1>0. PICK n, c : n = ds.k /\ c = str[ds.k]
    OBVIOUS
  <1>1. /\ n \in 1 .. Len(str) + 1 /\ ds.start_x = g_cursor_col * ADVANCE
        /\ ~Strays(str, g_cursor_col)
    BY <1>0 DEF DrawnAhead
  <1>2. PICK H : /\ Leads(H, n)
                 /\ H[1] = Terminal
                 /\ TextShown(H[n].text)
                 /\ ds.pos_y = H[n].row * CHAR_HEIGHT
                 /\ ds.pos = H[n].col * ADVANCE \/ OnlyBreaks(n)
    BY <1>0 DEF DrawnAhead
  <1>3. /\ str \in Seq(Characters) /\ Len(str) \in Nat /\ g_cursor_col \in Nat
        /\ ds \in Locals /\ n \in Nat \ {0} /\ n <= Len(str)
    <2>1. str \in Seq(Characters) /\ ds \in Locals /\ g_cursor_col \in Nat
      BY DEF ConsoleType
    <2>2. ds.k <= Len(str)
      BY DEF DrawStep
    <2> QED BY <1>0, <2>1, <2>2 DEF Locals
  <1>4. /\ str' = str /\ g_cursor_col' = g_cursor_col /\ Terminal' = Terminal
        /\ fb' = fb /\ halting' = halting
    BY DEF DrawStep, Terminal
  <1>5. PICK G : Leads(G, n + 1) /\ G[1] = H[1] /\ G[n + 1] = After(H[n], str[n])
    BY <1>2, <1>3, LeadsOn
  <1>6. PICK t : t = H[n]
    OBVIOUS
  <1>7. /\ t.col \in Nat /\ t.row \in Nat /\ TextShown(t.text)
        /\ ds.pos_y = t.row * CHAR_HEIGHT
        /\ ds.pos = t.col * ADVANCE \/ OnlyBreaks(n)
    BY <1>2, <1>3, <1>6 DEF Leads
  <1>8. /\ G[n + 1].col = NextCol(t, c) /\ G[n + 1].row = NextRow(t, c)
        /\ G[n + 1].text = NextText(t, c)
    BY <1>0, <1>5, <1>6 DEF After
  <1>9. SUFFICES /\ ds'.k = n + 1 /\ ds'.start_x = ds.start_x
                 /\ TextShown(G[n + 1].text)'
                 /\ ds'.pos_y = G[n + 1].row * CHAR_HEIGHT
                 /\ ds'.pos = G[n + 1].col * ADVANCE \/ OnlyBreaks(n + 1)
    <2>1. Leads(G, n + 1)'
      BY <1>4, <1>5 DEF Leads
    <2>2. n + 1 \in 1 .. Len(str) + 1
      BY <1>3
    <2>3. Strays(str, g_cursor_col)' <=> Strays(str, g_cursor_col)
      BY <1>4 DEF Strays
    <2>4. OnlyBreaks(n + 1) => OnlyBreaks(n + 1)'
      BY <1>4 DEF OnlyBreaks
    <2> QED BY <1>1, <1>2, <1>4, <1>5, <1>9, <2>1, <2>2, <2>3, <2>4 DEF DrawnAhead
  <1>10. /\ 0 * ADVANCE = 0 /\ t.col * ADVANCE \in Nat /\ t.row * CHAR_HEIGHT \in Nat
         /\ (t.row + 1) * CHAR_HEIGHT = t.row * CHAR_HEIGHT + CHAR_HEIGHT
         /\ (t.col + 1) * ADVANCE = t.col * ADVANCE + ADVANCE
         /\ (t.col + 4) * ADVANCE = t.col * ADVANCE + 4 * ADVANCE
         /\ (t.col - 1) * ADVANCE = t.col * ADVANCE - ADVANCE
         /\ t.col * ADVANCE <= 0 <=> t.col <= 0
    BY <1>7, CharSizes, Columns
  <1>11. c \notin {"LF", "CR"} => ds.pos = t.col * ADVANCE
    BY <1>0, <1>3, <1>7 DEF OnlyBreaks
  <1>12. c \in {"LF", "CR"} => ds.start_x = 0 * ADVANCE \/ OnlyBreaks(n + 1)
    <2> SUFFICES ASSUME c \in {"LF", "CR"}, g_cursor_col # 0 PROVE OnlyBreaks(n + 1)
      BY <1>1
    <2>1. ASSUME NEW j \in n + 1 .. Len(str) PROVE str[j] \in {"LF", "CR"}
      <3>1. n \in 1 .. Len(str) /\ j \in 1 .. Len(str) /\ n < j
        BY <1>3
      <3> QED BY <1>0, <1>1, <3>1 DEF Strays
    <2> QED BY <2>1 DEF OnlyBreaks
  <1>13. UNCHANGED <<memory, covered>> => \A text : TextShown(text) => TextShown(text)'
    BY <1>4, ScreenStays
  <1>14. CASE c = "LF"
    <2>1. /\ ds' = [ds EXCEPT !.k = @ + 1, !.pos = ds.start_x, !.pos_y = @ + CHAR_HEIGHT]
          /\ UNCHANGED <<memory, covered>>
      BY <1>14, <1>0 DEF DrawStep
    <2>2. G[n + 1].col = 0 /\ G[n + 1].row = t.row + 1 /\ G[n + 1].text = t.text
      BY <1>8, <1>14 DEF NextCol, NextRow, NextText
    <2>3. /\ ds'.k = n + 1 /\ ds'.pos = ds.start_x /\ ds'.pos_y = ds.pos_y + CHAR_HEIGHT
          /\ ds'.start_x = ds.start_x
      BY <1>3, <2>1, <1>0 DEF Locals
    <2>4. TextShown(G[n + 1].text)'
      BY <1>7, <1>13, <2>1, <2>2
    <2> QED BY <1>7, <1>10, <1>12, <1>14, <2>2, <2>3, <2>4
  <1>15. CASE c = "CR"
    <2>1. /\ ds' = [ds EXCEPT !.k = @ + 1, !.pos = ds.start_x]
          /\ UNCHANGED <<memory, covered>>
      BY <1>15, <1>0 DEF DrawStep
    <2>2. G[n + 1].col = 0 /\ G[n + 1].row = t.row /\ G[n + 1].text = t.text
      BY <1>8, <1>15 DEF NextCol, NextRow, NextText
    <2>3. /\ ds'.k = n + 1 /\ ds'.pos = ds.start_x /\ ds'.pos_y = ds.pos_y
          /\ ds'.start_x = ds.start_x
      BY <1>3, <2>1, <1>0 DEF Locals
    <2>4. TextShown(G[n + 1].text)'
      BY <1>7, <1>13, <2>1, <2>2
    <2> QED BY <1>7, <1>10, <1>12, <1>15, <2>2, <2>3, <2>4
  <1>16. CASE c = "TAB"
    <2>1. /\ ds' = [ds EXCEPT !.k = @ + 1, !.pos = @ + 4 * ADVANCE]
          /\ UNCHANGED <<memory, covered>>
      BY <1>16, <1>0 DEF DrawStep
    <2>2. G[n + 1].col = t.col + 4 /\ G[n + 1].row = t.row /\ G[n + 1].text = t.text
      BY <1>8, <1>16 DEF NextCol, NextRow, NextText
    <2>3. /\ ds'.k = n + 1 /\ ds'.pos = ds.pos + 4 * ADVANCE /\ ds'.pos_y = ds.pos_y
          /\ ds'.start_x = ds.start_x
      BY <1>3, <2>1, <1>0 DEF Locals
    <2>4. TextShown(G[n + 1].text)'
      BY <1>7, <1>13, <2>1, <2>2
    <2> QED BY <1>7, <1>10, <1>11, <1>16, <2>2, <2>3, <2>4
  <1>17. CASE c = "BS"
    <2> DEFINE back == IF ds.pos <= 0 THEN 0 ELSE ds.pos - ADVANCE
               col == NextCol(t, c)
    <2>1. /\ draw_char(" ", back, ds.pos_y)
          /\ ds' = [ds EXCEPT !.k = @ + 1, !.pos = back]
      BY <1>17, <1>0 DEF DrawStep
    <2>2. col = (IF t.col <= 0 THEN 0 ELSE t.col - 1) /\ G[n + 1].col = col
      BY <1>8, <1>17 DEF NextCol
    <2>3. col \in Nat /\ back = col * ADVANCE
      BY <1>7, <1>10, <1>11, <1>17, <2>2
    <2>4. G[n + 1].row = t.row /\ G[n + 1].text = Put(t.text, <<col, t.row>>, " ")
      BY <1>8, <1>17 DEF NextRow, NextText
    <2> HIDE DEF back, col
    <2>5. /\ ds'.k = n + 1 /\ ds'.pos = back /\ ds'.pos_y = ds.pos_y
          /\ ds'.start_x = ds.start_x
      BY <1>3, <2>1, <1>0 DEF Locals
    <2>6. draw_char(" ", col * ADVANCE, t.row * CHAR_HEIGHT)
      BY <1>7, <2>1, <2>3
    <2>7. TextShown(G[n + 1].text)'
      BY <1>4, <1>7, <2>3, <2>4, <2>6, DrawShowsText
    <2> QED BY <1>7, <2>2, <2>3, <2>4, <2>5, <2>7
  <1>18. CASE c \notin {"LF", "CR", "BS", "TAB"}
    <2>1. /\ draw_char(Glyph(c), ds.pos, ds.pos_y)
          /\ ds' = [ds EXCEPT !.k = @ + 1, !.pos = @ + ADVANCE]
      BY <1>18, <1>0 DEF DrawStep
    <2>2. /\ G[n + 1].col = t.col + 1 /\ G[n + 1].row = t.row
          /\ G[n + 1].text = Put(t.text, <<t.col, t.row>>, Glyph(c))
      BY <1>8, <1>18 DEF NextCol, NextRow, NextText
    <2>3. /\ ds'.k = n + 1 /\ ds'.pos = ds.pos + ADVANCE /\ ds'.pos_y = ds.pos_y
          /\ ds'.start_x = ds.start_x
      BY <1>3, <2>1, <1>0 DEF Locals
    <2>4. draw_char(Glyph(c), t.col * ADVANCE, t.row * CHAR_HEIGHT)
      BY <1>7, <1>11, <1>18, <2>1
    <2>5. TextShown(G[n + 1].text)'
      BY <1>4, <1>7, <2>2, <2>4, DrawShowsText
    <2> QED BY <1>7, <1>10, <1>11, <1>18, <2>2, <2>3, <2>5
  <1> QED BY <1>14, <1>15, <1>16, <1>17, <1>18

(* draw_string is done: it has drawn all that the terminal will show. *)
LEMMA DrawEnds ==
  ASSUME ConsoleType, DrawEnd, DrawnAhead
  PROVE  CatchingUp'
  <1>1. PICK H : Leads(H, ds.k) /\ H[1] = Terminal /\ TextShown(H[ds.k].text)
    BY DEF DrawnAhead
  <1>2. ds.k = Len(str) + 1 /\ Len(str) \in Nat
    <2>1. Len(str) \in Nat /\ ds.k \in 1 .. Len(str) + 1 /\ ds.k > Len(str)
      BY DEF ConsoleType, DrawnAhead, DrawEnd
    <2> QED BY <2>1
  <1>3. /\ str' = str /\ Terminal' = Terminal /\ ds'.k = 1
        /\ UNCHANGED <<fb, memory, covered, halting>>
    BY DEF DrawEnd, Terminal, fbVars, ConsoleType, Locals
  <1>4. Leads(H, Len(str) + 1) /\ Leads(H, Len(str) + 1)'
    BY <1>1, <1>2, <1>3 DEF Leads
  <1>5. TextShown(H[Len(str) + 1].text)'
    <2>1. PICK text : text = H[Len(str) + 1].text
      OBVIOUS
    <2>2. TextShown(text)'
      BY <1>1, <1>2, <1>3, <2>1, ScreenStays
    <2> QED BY <1>3, <2>1, <2>2
  <1>6. 1 \in 1 .. Len(str) + 1
    BY <1>2
  <1> QED BY <1>1, <1>3, <1>4, <1>5, <1>6 DEF CatchingUp

(* The cursor follows, through the same states of the terminal. *)
LEMMA CursorFollows ==
  ASSUME ConsoleType, AdvanceStep, CatchingUp
  PROVE  CatchingUp'
  <1>1. PICK H : /\ Leads(H, Len(str) + 1) /\ H[ds.k] = Terminal
                 /\ TextShown(H[Len(str) + 1].text)
    BY DEF CatchingUp
  <1>2. Len(str) \in Nat /\ ds.k \in 1 .. Len(str)
    <2>1. Len(str) \in Nat /\ ds.k \in 1 .. Len(str) + 1 /\ ds.k <= Len(str)
      BY DEF ConsoleType, CatchingUp, AdvanceStep
    <2> QED BY <2>1
  <1>3. str' = str /\ ds'.k = ds.k + 1 /\ UNCHANGED <<fb, memory, covered, halting>>
    BY DEF AdvanceStep, fbVars, ConsoleType, Locals
  <1>4. H[ds.k + 1] = Terminal'
    <2>1. Terminal' = After(Terminal, str[ds.k])
      BY AdvanceIsAfter
    <2>2. ds.k \in 1 .. (Len(str) + 1) - 1
      BY <1>2
    <2> QED BY <1>1, <2>1, <2>2 DEF Leads
  <1>5. Leads(H, Len(str) + 1)'
    BY <1>1, <1>3 DEF Leads
  <1>6. TextShown(H[Len(str) + 1].text)'
    <2>1. PICK text : text = H[Len(str) + 1].text
      OBVIOUS
    <2>2. TextShown(text)'
      BY <1>1, <1>3, <2>1, ScreenStays
    <2> QED BY <1>3, <2>1, <2>2
  <1>7. ds.k + 1 \in 1 .. Len(str) + 1
    BY <1>2
  <1> QED BY <1>3, <1>4, <1>5, <1>6, <1>7 DEF CatchingUp

(* The second loop is done: the cursor has passed all that is shown. *)
LEMMA CursorArrives ==
  ASSUME ConsoleType, AdvanceEnd, CatchingUp
  PROVE  TextShown(cells)'
  <1>1. PICK H : H[ds.k] = Terminal /\ TextShown(H[Len(str) + 1].text)
    BY DEF CatchingUp
  <1>2. ds.k = Len(str) + 1
    <2>1. Len(str) \in Nat /\ ds.k \in 1 .. Len(str) + 1 /\ ds.k > Len(str)
      BY DEF ConsoleType, CatchingUp, AdvanceEnd
    <2> QED BY <2>1
  <1>3. TextShown(cells)
    BY <1>1, <1>2 DEF Terminal
  <1>4. cells' = cells /\ UNCHANGED <<fb, memory, covered, halting>>
    BY DEF AdvanceEnd, fbVars
  <1> QED BY <1>3, <1>4, ScreenStays

(* Steps that leave the text and where it is printed alone. *)
LEMMA TextStays ==
  ASSUME TextInv, UNCHANGED <<g_cursor_col, g_cursor_row, str, ds, cells, strayed>>,
         \A text : TextShown(text) => TextShown(text)',
         pc' = pc \/ {pc, pc'} \cap {"draw", "advance"} = {}
  PROVE  TextInv'
  <1>1. Terminal' = Terminal
    BY DEF Terminal
  <1>2. ASSUME NEW H, NEW n PROVE Leads(H, n) => Leads(H, n)'
    BY DEF Leads
  <1>3. \A n : OnlyBreaks(n) => OnlyBreaks(n)'
    BY DEF OnlyBreaks
  <1>4. DrawnAhead => DrawnAhead'
    <2> SUFFICES ASSUME DrawnAhead PROVE DrawnAhead'
      OBVIOUS
    <2>1. PICK H : /\ Leads(H, ds.k) /\ H[1] = Terminal /\ TextShown(H[ds.k].text)
                   /\ ds.pos_y = H[ds.k].row * CHAR_HEIGHT
                   /\ ds.pos = H[ds.k].col * ADVANCE \/ OnlyBreaks(ds.k)
      BY DEF DrawnAhead
    <2>2. PICK n, text : n = ds.k /\ text = H[ds.k].text
      OBVIOUS
    <2>3. Leads(H, n)' /\ TextShown(text)' /\ (OnlyBreaks(n) => OnlyBreaks(n)')
      BY <1>2, <1>3, <2>1, <2>2
    <2>4. Strays(str, g_cursor_col)' <=> Strays(str, g_cursor_col)
      BY DEF Strays
    <2> QED BY <1>1, <2>1, <2>2, <2>3, <2>4 DEF DrawnAhead
  <1>5. CatchingUp => CatchingUp'
    <2> SUFFICES ASSUME CatchingUp PROVE CatchingUp'
      OBVIOUS
    <2>1. PICK H : /\ Leads(H, Len(str) + 1) /\ H[ds.k] = Terminal
                   /\ TextShown(H[Len(str) + 1].text)
      BY DEF CatchingUp
    <2>2. PICK n, text : n = Len(str) + 1 /\ text = H[Len(str) + 1].text
      OBVIOUS
    <2>3. Leads(H, n)' /\ TextShown(text)'
      BY <1>2, <2>1, <2>2
    <2> QED BY <1>1, <2>1, <2>2, <2>3 DEF CatchingUp
  <1>6. TextShown(cells) => TextShown(cells)'
    OBVIOUS
  <1> QED BY <1>4, <1>5, <1>6 DEF TextInv

-----------------------------------------------------------------------------
(* Nothing is on the screen at first, and nothing has been printed. *)
LEMMA InitEstablishesText == Init => ScreenInv /\ TextInv
  <1> SUFFICES ASSUME Init PROVE ScreenInv /\ TextInv
    OBVIOUS
  <1>1. /\ fb \in Modes /\ memory = [o \in 0 .. fb.pitch * fb.height - 1 |-> Black]
        /\ covered = {} /\ cells = <<>> /\ pc = "idle"
    BY DEF Init, FbInit
  <1>2. ScreenInv
    BY <1>1 DEF ScreenInv
  <1>3. \A p \in Pixels : IsClear(p[1], p[2])
    <2> SUFFICES ASSUME NEW p \in Pixels PROVE IsClear(p[1], p[2])
      OBVIOUS
    <2>1. ScanOut(p[1], p[2]) \subseteq DOMAIN memory
      BY <1>1, ScanOutIs
    <2> QED BY <1>1, <2>1 DEF IsClear
  <1>4. TextShown(cells)
    BY <1>1, <1>3 DEF TextShown
  <1> QED BY <1>1, <1>2, <1>4 DEF TextInv

(* Every step keeps the screen and the text in order. *)
LEMMA StepPreservesText ==
  ASSUME ConsoleType, LineInv, ScreenInv, TextInv, [Next]_vars
  PROVE  ScreenInv' /\ TextInv'
  <1>0. UNCHANGED <<fb, memory, covered>> =>
          /\ ScreenInv'
          /\ halting' = halting => \A text : TextShown(text) => TextShown(text)'
    BY ScreenStays
  <1>1. /\ g_cursor_col \in Nat /\ g_cursor_row \in Nat /\ ds \in Locals
        /\ conv \in Conversions /\ todo \in Seq(Items)
    BY DEF ConsoleType
  <1>2. ASSUME pc \notin {"draw", "advance"}, NEW s \in Seq(Characters), NEW col \in Nat,
               NEW row \in Nat, NEW rest, kprint(s, col, row, rest)
        PROVE  ScreenInv' /\ TextInv'
    <2>1. TextInv'
      BY <1>2, KprintText
    <2>2. UNCHANGED <<fb, memory, covered>>
      BY <1>2 DEF kprint, fbVars
    <2> QED BY <1>0, <2>1, <2>2
  <1>3. ASSUME NEW s \in Strings, Kprint(s) PROVE ScreenInv' /\ TextInv'
    <2>1. /\ kprint(s, g_cursor_col, g_cursor_row, <<>>) /\ s \in Seq(Characters)
          /\ pc \notin {"draw", "advance"}
      BY <1>3, ConsoleAssumption DEF Kprint, Idle
    <2> QED BY <1>1, <1>2, <2>1
  <1>4. ASSUME NEW f, kprintf(f) PROVE ScreenInv' /\ TextInv'
    <2>1. /\ UNCHANGED <<fb, memory, covered, halting>> /\ pc = "idle" /\ pc' = "format"
          /\ UNCHANGED <<g_cursor_col, g_cursor_row, str, ds, cells, strayed>>
      BY <1>4 DEF kprintf, Idle, fbVars
    <2> QED BY <1>0, <2>1, TextStays
  <1>5. ASSUME NEW s \in Strings, sys_write(s) PROVE ScreenInv' /\ TextInv'
    BY <1>4, <1>5 DEF sys_write
  <1>6. ASSUME NEW s \in Strings, NEW p \in Cells, kprint_at(s, p[1], p[2])
        PROVE  ScreenInv' /\ TextInv'
    <2>1. /\ kprint(s, p[1], p[2], <<>>) /\ s \in Seq(Characters)
          /\ p[1] \in Nat /\ p[2] \in Nat /\ pc \notin {"draw", "advance"}
      BY <1>6, ConsoleAssumption DEF kprint_at, Idle
    <2> QED BY <1>2, <2>1
  <1>7. ASSUME NEW s \in Segments, Line(s) PROVE ScreenInv' /\ TextInv'
    <2>1. /\ UNCHANGED <<fb, memory, covered, halting>> /\ pc' = pc
          /\ UNCHANGED <<g_cursor_col, g_cursor_row, str, ds, cells, strayed>>
      BY <1>7 DEF Line, line
    <2> QED BY <1>0, <2>1, TextStays
  <1>8. CASE Exception
    <2>1. /\ UNCHANGED <<fb, memory, covered>> /\ cells' = <<>> /\ halting' = TRUE
          /\ pc' = "format"
      BY <1>8 DEF Exception
    <2>2. TextShown(cells)'
      BY <2>1 DEF TextShown
    <2> QED BY <1>0, <2>1, <2>2 DEF TextInv
  <1>9. CASE DrawStep
    <2>1. /\ pc = "draw" /\ pc' = "draw" /\ strayed' = strayed
          /\ fb' = fb /\ halting' = halting
      BY <1>9 DEF DrawStep
    <2>2. TextInv'
      <3>1. DrawnAhead => DrawnAhead'
        BY <1>9, DrawAdvances
      <3> QED BY <2>1, <3>1 DEF TextInv
    <2>3. \/ UNCHANGED <<memory, covered>>
          \/ \E c, x : x \in Int /\ draw_char(c, x, ds.pos_y)
      <3>1. ds.pos \in Int /\ (IF ds.pos <= 0 THEN 0 ELSE ds.pos - ADVANCE) \in Int
        BY <1>1, CharSizes DEF Locals
      <3> QED BY <1>9, <3>1 DEF DrawStep
    <2>4. ds.pos_y \in Int
      BY <1>1 DEF Locals
    <2> QED BY <1>0, <2>1, <2>2, <2>3, <2>4, DrawKeepsScreen
  <1>10. CASE DrawEnd
    <2>1. /\ UNCHANGED <<fb, memory, covered>> /\ strayed' = strayed
          /\ pc = "draw" /\ pc' = "advance"
      BY <1>10 DEF DrawEnd, fbVars
    <2>2. DrawnAhead => CatchingUp'
      BY <1>10, DrawEnds
    <2> QED BY <1>0, <2>1, <2>2 DEF TextInv
  <1>11. CASE AdvanceStep
    <2>1. /\ UNCHANGED <<fb, memory, covered>> /\ strayed' = strayed
          /\ pc = "advance" /\ pc' = "advance"
      BY <1>11 DEF AdvanceStep, fbVars
    <2>2. CatchingUp => CatchingUp'
      BY <1>11, CursorFollows
    <2> QED BY <1>0, <2>1, <2>2 DEF TextInv
  <1>12. CASE AdvanceEnd
    <2>1. /\ UNCHANGED <<fb, memory, covered>> /\ strayed' = strayed
          /\ pc = "advance" /\ pc' = "format"
      BY <1>12 DEF AdvanceEnd, fbVars
    <2>2. CatchingUp => TextShown(cells)'
      BY <1>12, CursorArrives
    <2> QED BY <1>0, <2>1, <2>2 DEF TextInv
  <1>13. CASE FormatStep
    <2>0. pc = "format"
      BY <1>13 DEF FormatStep
    <2>1. ASSUME NEW s \in Seq(Characters), NEW rest \in Seq(Items),
                 kprint(s, g_cursor_col, g_cursor_row, rest)
          PROVE  ScreenInv' /\ TextInv'
      BY <1>1, <1>2, <2>0, <2>1
    <2>2. ASSUME NEW n, NEW base, NEW of, convert(n, base, of)
          PROVE  ScreenInv' /\ TextInv'
      <3>1. /\ UNCHANGED <<fb, memory, covered, halting>> /\ pc' = "convert"
            /\ UNCHANGED <<g_cursor_col, g_cursor_row, str, ds, cells, strayed>>
        BY <2>2 DEF convert, fbVars
      <3> QED BY <1>0, <2>0, <3>1, TextStays
    <2>3. CASE /\ todo' = <<>>
               /\ UNCHANGED <<fbVars, g_cursor_col, g_cursor_row, pc, str, ds, conv, cells,
                              strayed, halting>>
      <3>1. UNCHANGED <<fb, memory, covered>>
        BY <2>3 DEF fbVars
      <3> QED BY <1>0, <2>3, <3>1, TextStays
    <2> QED BY <1>13, <2>1, <2>2, <2>3, FormatCases
  <1>14. CASE ConvertStep
    <2>1. /\ UNCHANGED <<fb, memory, covered, halting>> /\ pc' = pc
          /\ UNCHANGED <<g_cursor_col, g_cursor_row, str, ds, cells, strayed>>
      BY <1>14 DEF ConvertStep, fbVars
    <2> QED BY <1>0, <2>1, TextStays
  <1>15. CASE ConvertEnd
    <2>1. /\ kprint(conv.digits, g_cursor_col, g_cursor_row, todo)
          /\ conv.digits \in Seq(Characters) /\ pc = "convert"
      BY <1>1, <1>15 DEF ConvertEnd, Conversions
    <2> QED BY <1>1, <1>2, <2>1
  <1>16. CASE Return
    <2>1. /\ UNCHANGED <<fb, memory, covered, halting>> /\ pc = "format"
          /\ pc' \in {"halt", "idle"}
          /\ UNCHANGED <<g_cursor_col, g_cursor_row, str, ds, cells, strayed>>
      BY <1>16 DEF Return, fbVars
    <2> QED BY <1>0, <2>1, TextStays
  <1>17. CASE LineRuns
    <2>1. /\ putpixels([p \in {Here} |-> LINE]) /\ covered' = covered \cup {Here}
          /\ fb' = fb /\ halting' = halting /\ pc' = pc
          /\ UNCHANGED <<g_cursor_col, g_cursor_row, str, ds, cells, strayed>>
      BY <1>17 DEF LineRuns, LineStep, consoleVars, Here
    <2>2. Here \in Points
      BY DEF LineInv, LineType, Here, Points
    <2>3. ScreenInv' /\ \A text : TextShown(text) => TextShown(text)'
      BY <2>1, <2>2, LineShowsText
    <2> QED BY <2>1, <2>3, TextStays
  <1>18. CASE UNCHANGED vars
    <2>1. /\ UNCHANGED <<fb, memory, covered, halting>> /\ pc' = pc
          /\ UNCHANGED <<g_cursor_col, g_cursor_row, str, ds, cells, strayed>>
      BY <1>18 DEF vars, consoleVars, fbVars
    <2> QED BY <1>0, <2>1, TextStays
  <1> QED BY <1>3, <1>4, <1>5, <1>6, <1>7, <1>8, <1>9, <1>10, <1>11, <1>12, <1>13,
             <1>14, <1>15, <1>16, <1>17, <1>18, NextCases

ConsoleInv == ConsoleType /\ LineInv /\ ScreenInv /\ TextInv

(* The invariant says of the screen between calls what ScreenShowsText does. *)
LEMMA InvImpliesScreen == ConsoleInv => ScreenShowsText
  <1> SUFFICES ASSUME ScreenInv, TextInv, pc \in {"idle", "halt"}, ~strayed
               PROVE  ScreenShowsText
    BY DEF ConsoleInv, ScreenShowsText
  <1>1. TextShown(cells)
    BY DEF TextInv
  <1>2. /\ DOMAIN memory = 0 .. fb.pitch * fb.height - 1
        /\ \A o \in DOMAIN memory \ Used : memory[o] = Black
    BY DEF ScreenInv
  <1>3. ASSUME NEW p \in Pixels
        PROVE  IF p \in covered THEN Shows(p[1], p[2], LINE)
               ELSE IF CellOf(p) \in DOMAIN cells /\ InGlyph(p)
               THEN Shows(p[1], p[2], Ink(p, cells[CellOf(p)]))
               ELSE halting \/ IsClear(p[1], p[2])
    BY <1>1 DEF ScreenInv, TextShown
  <1> QED BY <1>2, <1>3 DEF ScreenShowsText, Pixels, Used, CellOf, InGlyph, Ink

(* The console's invariant. *)
THEOREM ConsoleCorrect == Spec => []ConsoleInv
  <1>1. Init => ConsoleInv
    BY InitEstablishesType, InitEstablishesLineInv, InitEstablishesText DEF Init, ConsoleInv
  <1>2. ConsoleInv /\ [Next]_vars => ConsoleInv'
    BY StepPreservesType, StepPreservesLineInv, StepPreservesText DEF ConsoleInv
  <1> QED BY <1>1, <1>2, PTL DEF Spec

(***************************************************************************)
(* Between calls the screen shows the text that the cursor has passed, on  *)
(* every mode that VBE may report, for any strings, formats and lines, and *)
(* an exception at any moment, as long as no string was printed that goes  *)
(* on after a newline and began in the middle of a line (Strays): on all   *)
(* others draw_string's loop and kprint's second one agree.                *)
(***************************************************************************)
THEOREM ConsoleScreenShowsText == Spec => []ScreenShowsText
  BY ConsoleCorrect, InvImpliesScreen, PTL

-----------------------------------------------------------------------------
(***************************************************************************)
(* Numbers.  While convert runs, the argument is what is left of it, times *)
(* a power of the base, and the value of the digits so far.  Digits are    *)
(* put in front of the others, and ValueOf reads from the front, so the    *)
(* invariant has the powers P[0], P[1], ... and the values V[k] of the     *)
(* first k digits.                                                         *)
(***************************************************************************)
Digit(c) == (CHOOSE m \in 1 .. Len(Representation) : Representation[m] = c) - 1

Powers(P, n, b) ==
  /\ P[0] = 1
  /\ \A k \in 0 .. n : P[k] \in Nat
  /\ \A k \in 1 .. n : P[k] = P[k - 1] * b

Values(V, s, b) ==
  /\ V[0] = 0
  /\ \A k \in 0 .. Len(s) : V[k] \in Nat
  /\ \A k \in 1 .. Len(s) : Digit(s[k]) \in Nat /\ V[k] = V[k - 1] * b + Digit(s[k])

NumberInv ==
  pc = "convert" =>
    LET n == Len(conv.digits)
    IN /\ \E P, V : /\ Powers(P, n, conv.base) /\ Values(V, conv.digits, conv.base)
                    /\ conv.num * P[n] + V[n] = Abs(conv.of)
       /\ n > 1 /\ conv.num = 0 => conv.digits[1] # Representation[1]

(* A set of natural numbers has a least one. *)
LEMMA LeastNat ==
  ASSUME NEW T \in SUBSET Nat, T # {}
  PROVE  \E m \in T : \A k \in T : ~(k < m)
  <1> DEFINE R == {ss \in Nat \X Nat : ss[1] < ss[2]}
  <1>1. IsWellFoundedOn(R, Nat)
    BY NatLessThanWellFounded, Zenon DEF OpToRel
  <1>2. PICK m \in T : \A k \in T : ~(<<k, m>> \in R)
    <2> HIDE DEF R
    <2> QED BY <1>1, WFMin
  <1>3. ASSUME NEW k \in T PROVE ~(k < m)
    BY <1>2
  <1> QED BY <1>2, <1>3

(* What ValueOf computes is the value of all the digits. *)
LEMMA ValueOfIs ==
  ASSUME NEW s, Len(s) \in Nat, NEW b, NEW V, Values(V, s, b)
  PROVE  ValueOf(s, b) = V[Len(s)]
  <1> DEFINE S == 0 .. Len(s)
             Eq(g) == g = [n \in S |-> IF n = 0 THEN 0 ELSE g[n - 1] * b + Digit(s[n])]
             F == [n \in S |-> V[n]]
             value == CHOOSE g : Eq(g)
  <1>1. ValueOf(s, b) = value[Len(s)]
    BY DEF ValueOf, Digit
  <1>2. ASSUME NEW n \in S PROVE F[n] = IF n = 0 THEN 0 ELSE F[n - 1] * b + Digit(s[n])
    <2>1. CASE n = 0
      BY <2>1 DEF Values
    <2>2. CASE n # 0
      <3>1. n \in 1 .. Len(s) /\ n - 1 \in S
        BY <2>2
      <3>2. V[n] = V[n - 1] * b + Digit(s[n]) /\ F[n] = V[n] /\ F[n - 1] = V[n - 1]
        BY <3>1 DEF Values
      <3> QED BY <2>2, <3>2
    <2> QED BY <2>1, <2>2
  <1>3. Eq(F)
    <2> DEFINE G == [n \in S |-> IF n = 0 THEN 0 ELSE F[n - 1] * b + Digit(s[n])]
    <2>1. \A n \in S : F[n] = G[n]
      BY <1>2
    <2>2. F = G
      BY <2>1
    <2> QED BY <2>2
  <1>4. Eq(value)
    <2> HIDE DEF F, Eq
    <2> QED BY <1>3
  <1> HIDE DEF value
  <1>5. \A n \in S : value[n] = IF n = 0 THEN 0 ELSE value[n - 1] * b + Digit(s[n])
    BY <1>4
  <1> DEFINE T == {n \in S : value[n] # V[n]}
  <1>6. T = {}
    <2> SUFFICES ASSUME T # {} PROVE FALSE
      OBVIOUS
    <2>1. PICK m \in T : \A k \in T : ~(k < m)
      <3>1. T \in SUBSET Nat
        OBVIOUS
      <3> HIDE DEF T
      <3> QED BY <3>1, LeastNat
    <2>2. m \in S /\ value[m] # V[m]
      OBVIOUS
    <2>3. CASE m = 0
      BY <1>5, <2>2, <2>3 DEF Values
    <2>4. CASE m # 0
      <3>1. m - 1 \in S /\ m \in 1 .. Len(s) /\ m - 1 < m
        BY <2>2, <2>4
      <3>2. value[m - 1] = V[m - 1]
        BY <2>1, <3>1
      <3>3. value[m] = value[m - 1] * b + Digit(s[m]) /\ V[m] = V[m - 1] * b + Digit(s[m])
        BY <1>5, <2>2, <2>4, <3>1 DEF Values
      <3> QED BY <2>2, <3>2, <3>3
    <2> QED BY <2>3, <2>4
  <1> QED BY <1>1, <1>6

(* No two digits are alike. *)
LEMMA DigitOf ==
  ASSUME NEW m \in 0 .. 15
  PROVE  Digit(Representation[m + 1]) = m
  <1> DEFINE c == Representation[m + 1]
             j == CHOOSE n \in 1 .. 16 : Representation[n] = c
  <1>1. m + 1 \in 1 .. 16
    OBVIOUS
  <1>2. \E n \in 1 .. 16 : Representation[n] = c
    BY <1>1
  <1>3. j \in 1 .. 16 /\ Representation[j] = c
    BY <1>2
  <1>4. j = m + 1
    <2> HIDE DEF j
    <2> QED BY <1>1, <1>3, ConsoleAssumption
  <1>5. Digit(c) = j - 1
    BY ConsoleAssumption DEF Digit
  <1> HIDE DEF j, c
  <1>6. Digit(c) = m
    BY <1>4, <1>5
  <1> QED BY <1>6 DEF c

(* The sum of a digit and the value of the others, a digit later. *)
LEMMA Horner ==
  ASSUME NEW d \in Nat, NEW p \in Nat, NEW v \in Nat, NEW b \in Nat, NEW e \in Nat
  PROVE  d * (p * b) + (v * b + e) = (d * p + v) * b + e
  OBVIOUS

(* A product of natural numbers. *)
LEMMA ProductType ==
  ASSUME NEW d \in Nat, NEW p \in Nat
  PROVE  d * p \in Nat
  OBVIOUS

(* A sum of a product and a natural number. *)
LEMMA SumType ==
  ASSUME NEW d \in Nat, NEW p \in Nat, NEW v \in Nat
  PROVE  d * p + v \in Nat
  <1>1. d * p \in Nat
    BY ProductType
  <1> QED BY <1>1

(* What is left of the number, and the digit that is taken off it. *)
LEMMA DigitTaken ==
  ASSUME NEW q \in Nat, NEW r \in Nat, NEW b \in Nat, NEW p \in Nat, NEW v \in Nat
  PROVE  q * (p * b) + (r * p + v) = (b * q + r) * p + v
  OBVIOUS

(* A digit in front: powers and values. *)
LEMMA DigitInFront ==
  ASSUME NEW s \in Seq(Characters), NEW b \in Nat, NEW P, NEW V,
         Powers(P, Len(s), b), Values(V, s, b), NEW c, NEW d \in Nat, Digit(c) = d,
         NEW z, Len(z) = Len(s) + 1, z[1] = c, \A k \in 2 .. Len(s) + 1 : z[k] = s[k - 1]
  PROVE  \E Q, W : /\ Powers(Q, Len(s) + 1, b) /\ Values(W, z, b)
                   /\ Q[Len(s) + 1] = P[Len(s)] * b
                   /\ W[Len(s) + 1] = d * P[Len(s)] + V[Len(s)]
  <1> DEFINE n == Len(s)
  <1>1. n \in Nat
    OBVIOUS
  <1>2. Len(z) = n + 1 /\ z[1] = c /\ \A k \in 2 .. n + 1 : z[k] = s[k - 1]
    OBVIOUS
  <1>3. /\ P[0] = 1 /\ V[0] = 0
        /\ \A k \in 0 .. n : P[k] \in Nat /\ V[k] \in Nat
        /\ \A k \in 1 .. n : /\ P[k] = P[k - 1] * b /\ V[k] = V[k - 1] * b + Digit(s[k])
                             /\ Digit(s[k]) \in Nat
    BY DEF Powers, Values
  <1> HIDE DEF n
  <1> DEFINE Q == [k \in 0 .. n + 1 |-> IF k <= n THEN P[k] ELSE P[n] * b]
             W == [k \in 0 .. n + 1 |-> IF k = 0 THEN 0 ELSE d * P[k - 1] + V[k - 1]]
  <1>4. /\ \A k \in 0 .. n : Q[k] = P[k]
        /\ Q[n + 1] = P[n] * b
        /\ W[0] = 0
        /\ \A k \in 1 .. n + 1 : W[k] = d * P[k - 1] + V[k - 1]
    BY <1>1
  <1>5. W[n + 1] = d * P[n] + V[n]
    BY <1>1, <1>4
  <1> HIDE DEF Q, W
  <1>6. Powers(Q, n + 1, b)
    <2>1. Q[0] = 1
      BY <1>1, <1>3, <1>4
    <2>2. P[n] * b \in Nat
      <3>1. P[n] \in Nat
        BY <1>1, <1>3
      <3> QED BY <3>1, ProductType
    <2>3. ASSUME NEW k \in 0 .. n + 1 PROVE Q[k] \in Nat
      <3>1. k = n + 1 \/ k \in 0 .. n
        BY <1>1
      <3> QED BY <1>3, <1>4, <2>2, <3>1
    <2>4. ASSUME NEW k \in 1 .. n + 1 PROVE Q[k] = Q[k - 1] * b
      <3>1. CASE k = n + 1
        <4>1. k - 1 = n /\ n \in 0 .. n
          BY <1>1, <3>1
        <4>2. Q[k] = P[n] * b /\ Q[k - 1] = P[n]
          BY <1>4, <3>1, <4>1
        <4> QED BY <4>2
      <3>2. CASE k # n + 1
        <4>1. k \in 1 .. n /\ k \in 0 .. n /\ k - 1 \in 0 .. n
          BY <1>1, <3>2
        <4>2. Q[k] = P[k] /\ Q[k - 1] = P[k - 1] /\ P[k] = P[k - 1] * b
          BY <1>3, <1>4, <4>1
        <4> QED BY <4>2
      <3> QED BY <3>1, <3>2
    <2> QED BY <2>1, <2>3, <2>4 DEF Powers
  <1>7. Values(W, z, b)
    <2>1. ASSUME NEW k \in 1 .. n + 1 PROVE W[k] \in Nat
      <3>1. PICK p, v : p = P[k - 1] /\ v = V[k - 1]
        OBVIOUS
      <3>2. p \in Nat /\ v \in Nat
        <4>1. k - 1 \in 0 .. n
          BY <1>1
        <4> QED BY <1>3, <3>1, <4>1
      <3>3. W[k] = d * p + v
        BY <1>4, <3>1
      <3>4. d * p + v \in Nat
        BY <3>2, SumType
      <3> QED BY <3>3, <3>4
    <2>2. ASSUME NEW k \in 1 .. n + 1 PROVE W[k] = W[k - 1] * b + Digit(z[k])
      <3>1. CASE k = 1
        <4>1. k - 1 = 0 /\ W[k] = d * P[0] + V[0] /\ z[k] = c
          BY <1>2, <1>4, <3>1
        <4>2. W[k] = d /\ W[k - 1] = 0
          BY <1>3, <1>4, <4>1
        <4> QED BY <4>1, <4>2
      <3>2. CASE k # 1
        <4>1. k - 1 \in 1 .. n /\ k \in 2 .. n + 1 /\ (k - 1) - 1 \in 0 .. n /\ k - 1 \in 0 .. n
              /\ k - 1 \in 1 .. n + 1
          BY <1>1, <3>2
        <4> DEFINE p == P[(k - 1) - 1]
                   v == V[(k - 1) - 1]
                   e == Digit(s[k - 1])
        <4>2. p \in Nat /\ v \in Nat /\ P[k - 1] = p * b /\ V[k - 1] = v * b + e /\ e \in Nat
          BY <1>3, <4>1
        <4>3. W[k] = d * P[k - 1] + V[k - 1] /\ W[k - 1] = d * p + v /\ Digit(z[k]) = e
          BY <1>2, <1>4, <4>1
        <4> HIDE DEF p, v, e
        <4>4. d * (p * b) + (v * b + e) = (d * p + v) * b + e
          BY <4>2, Horner
        <4> QED BY <4>2, <4>3, <4>4
      <3> QED BY <3>1, <3>2
    <2>3. \A k \in 0 .. n + 1 : W[k] \in Nat
      BY <1>1, <1>4, <2>1
    <2>4. ASSUME NEW k \in 1 .. n + 1 PROVE Digit(z[k]) \in Nat
      <3>1. CASE k = 1
        BY <1>2, <3>1
      <3>2. CASE k # 1
        <4>1. k - 1 \in 1 .. n /\ k \in 2 .. n + 1
          BY <1>1, <3>2
        <4> QED BY <1>2, <1>3, <4>1
      <3> QED BY <3>1, <3>2
    <2> QED BY <1>2, <1>4, <2>2, <2>3, <2>4 DEF Values
  <1> QED BY <1>4, <1>5, <1>6, <1>7 DEF n

(* convert begins with all of its argument. *)
LEMMA NumberBegins ==
  ASSUME NEW n \in Nat, NEW base, NEW of, Abs(of) = n, convert(n, base, of)
  PROVE  NumberInv'
  <1>1. conv' = [num |-> n, base |-> base, digits |-> <<>>, of |-> of]
    BY DEF convert
  <1>2. conv'.num = n /\ conv'.base = base /\ conv'.digits = <<>> /\ conv'.of = of
    BY <1>1
  <1> DEFINE P == [k \in 0 .. 0 |-> 1]
             V == [k \in 0 .. 0 |-> 0]
  <1>3. Len(<<>>) = 0
    OBVIOUS
  <1>4. Powers(P, 0, base) /\ Values(V, <<>>, base)
    BY <1>3 DEF Powers, Values
  <1>5. n * P[0] + V[0] = n
    OBVIOUS
  <1> HIDE DEF P, V
  <1>6. \E A, B : /\ Powers(A, 0, base) /\ Values(B, <<>>, base)
                  /\ n * A[0] + B[0] = Abs(of)
    BY <1>4, <1>5
  <1> QED BY <1>2, <1>3, <1>6 DEF NumberInv

(* A digit is taken off the number and put in front of the others. *)
LEMMA NumberGoesOn ==
  ASSUME ConsoleType, NumberInv, ConvertStep
  PROVE  NumberInv'
  <1>1. PICK n, b, s, m, c : n = conv.num /\ b = conv.base /\ s = conv.digits
                             /\ m = Len(conv.digits) /\ c = LastDigit
    OBVIOUS
  <1>2. PICK q, r : q = n \div b /\ r = n % b
    OBVIOUS
  <1>3. /\ n \in Nat /\ b \in Nat \ {0} /\ b <= 16 /\ q \in Nat /\ r \in 0 .. b - 1
        /\ n = b * q + r
    BY <1>1, <1>2, DigitFacts
  <1>4. s \in Seq(Characters) /\ m = Len(s) /\ m \in Nat
    BY <1>1 DEF ConsoleType, Conversions
  <1>5. r \in 0 .. 15 /\ r \in Nat /\ c = Representation[r + 1] /\ Digit(c) = r
    <2>1. r \in 0 .. 15 /\ r \in Nat
      BY <1>3
    <2>2. c = Representation[r + 1]
      BY <1>1, <1>2 DEF LastDigit
    <2> QED BY <2>1, <2>2, DigitOf
  <1>6. PICK z : z = <<c>> \o s
    OBVIOUS
  <1>7. conv'.num = q /\ conv'.base = b /\ conv'.digits = z /\ conv'.of = conv.of
    <2>1. conv' = [conv EXCEPT !.num = conv.num \div conv.base,
                               !.digits = <<LastDigit>> \o conv.digits]
      BY DEF ConvertStep
    <2>2. conv \in Conversions
      BY DEF ConsoleType
    <2> QED BY <1>1, <1>2, <1>6, <2>1, <2>2 DEF Conversions
  <1>8. PICK P, V : Powers(P, m, b) /\ Values(V, s, b) /\ n * P[m] + V[m] = Abs(conv.of)
    BY <1>1 DEF NumberInv, ConvertStep
  <1>9. /\ Len(z) = m + 1 /\ z[1] = c
        /\ \E Q, W : /\ Powers(Q, m + 1, b) /\ Values(W, z, b)
                     /\ Q[m + 1] = P[m] * b
                     /\ W[m + 1] = r * P[m] + V[m]
    <2>1. /\ Powers(P, Len(s), b) /\ Values(V, s, b) /\ s \in Seq(Characters) /\ b \in Nat
          /\ r \in Nat /\ Digit(c) = r
      BY <1>3, <1>4, <1>5, <1>8
    <2>2. Len(z) = Len(s) + 1 /\ z[1] = c /\ \A k \in 2 .. Len(s) + 1 : z[k] = s[k - 1]
      BY <1>6, <2>1
    <2>3. \E Q, W : /\ Powers(Q, Len(s) + 1, b) /\ Values(W, z, b)
                    /\ Q[Len(s) + 1] = P[Len(s)] * b
                    /\ W[Len(s) + 1] = r * P[Len(s)] + V[Len(s)]
      BY <2>1, <2>2, DigitInFront
    <2> QED BY <1>4, <2>2, <2>3
  <1>10. PICK Q, W : /\ Powers(Q, m + 1, b) /\ Values(W, z, b)
                     /\ Q[m + 1] = P[m] * b
                     /\ W[m + 1] = r * P[m] + V[m]
    BY <1>9
  <1>11. q * Q[m + 1] + W[m + 1] = Abs(conv.of)
    <2>1. PICK p, v : p = P[m] /\ v = V[m]
      OBVIOUS
    <2>2. p \in Nat /\ v \in Nat /\ q \in Nat /\ r \in Nat /\ b \in Nat
      BY <1>3, <1>4, <1>5, <1>8, <2>1 DEF Powers, Values
    <2>3. q * (p * b) + (r * p + v) = (b * q + r) * p + v
      BY <2>2, DigitTaken
    <2>4. q * Q[m + 1] + W[m + 1] = n * p + v
      BY <1>3, <1>10, <2>1, <2>3, Zenon
    <2> QED BY <1>8, <2>1, <2>4
  <1>12. m + 1 > 1 /\ q = 0 => z[1] # Representation[1]
    <2> SUFFICES ASSUME m + 1 > 1, q = 0, z[1] = Representation[1] PROVE FALSE
      OBVIOUS
    <2>1. m # 0
      BY <1>4
    <2>2. n # 0
      <3>1. s # <<>>
        BY <1>4, <2>1
      <3> QED BY <1>1, <3>1 DEF ConvertStep
    <2>3. r + 1 = 1
      <3>1. Representation[r + 1] = Representation[1] /\ r + 1 \in 1 .. 16 /\ 1 \in 1 .. 16
        BY <1>5, <1>9
      <3> QED BY <3>1, ConsoleAssumption
    <2>4. b * q = 0
      BY <1>3
    <2> QED BY <1>3, <1>5, <2>2, <2>3, <2>4
  <1>13. Abs(conv.of)' = Abs(conv.of)
    BY <1>7
  <1> QED BY <1>7, <1>9, <1>10, <1>11, <1>12, <1>13 DEF NumberInv

(* Every step keeps the numbers in order. *)
LEMMA StepPreservesNumbers ==
  ASSUME ConsoleType, NumberInv, [Next]_vars
  PROVE  NumberInv'
  <1>1. ASSUME NEW s, NEW col, NEW row, NEW rest, kprint(s, col, row, rest) PROVE NumberInv'
    BY <1>1 DEF kprint, NumberInv
  <1>2. ASSUME pc' = pc \/ pc' # "convert", conv' = conv PROVE NumberInv'
    BY <1>2 DEF NumberInv
  <1>3. ASSUME NEW s \in Strings, Kprint(s) PROVE NumberInv'
    BY <1>1, <1>3 DEF Kprint
  <1>4. ASSUME NEW f, kprintf(f) PROVE NumberInv'
    BY <1>2, <1>4 DEF kprintf
  <1>5. ASSUME NEW s \in Strings, sys_write(s) PROVE NumberInv'
    BY <1>4, <1>5 DEF sys_write
  <1>6. ASSUME NEW s \in Strings, NEW p \in Cells, kprint_at(s, p[1], p[2]) PROVE NumberInv'
    BY <1>1, <1>6 DEF kprint_at
  <1>7. ASSUME NEW s \in Segments, Line(s) PROVE NumberInv'
    BY <1>2, <1>7 DEF Line
  <1>8. CASE Exception
    BY <1>2, <1>8 DEF Exception
  <1>9. CASE DrawStep
    BY <1>2, <1>9 DEF DrawStep
  <1>10. CASE DrawEnd
    BY <1>2, <1>10 DEF DrawEnd
  <1>11. CASE AdvanceStep
    BY <1>2, <1>11 DEF AdvanceStep
  <1>12. CASE AdvanceEnd
    BY <1>2, <1>12 DEF AdvanceEnd
  <1>13. CASE FormatStep
    BY <1>1, <1>2, <1>13, FormatCases, NumberBegins
  <1>14. CASE ConvertStep
    BY <1>14, NumberGoesOn
  <1>15. CASE ConvertEnd
    BY <1>1, <1>15 DEF ConvertEnd
  <1>16. CASE Return
    BY <1>2, <1>16 DEF Return
  <1>17. CASE LineRuns
    BY <1>2, <1>17 DEF LineRuns, consoleVars
  <1>18. CASE UNCHANGED vars
    BY <1>2, <1>18 DEF vars, consoleVars
  <1> QED BY <1>3, <1>4, <1>5, <1>6, <1>7, <1>8, <1>9, <1>10, <1>11, <1>12, <1>13,
             <1>14, <1>15, <1>16, <1>17, <1>18, NextCases

(* convert ends with nothing left: the digits are those of the argument. *)
LEMMA NumberEnds ==
  ASSUME ConsoleType, NumberInv, [Next]_vars, pc = "convert", pc' = "draw"
  PROVE  /\ str' # <<>>
         /\ ValueOf(str', conv.base) = Abs(conv.of)
         /\ Len(str') > 1 => str'[1] # Representation[1]
  <1>1. ConvertEnd
    BY NextCases DEF Kprint, kprint_at, kprintf, sys_write, Line, Idle, Exception, DrawStep,
       DrawEnd, AdvanceStep, AdvanceEnd, FormatStep, ConvertStep, Return, LineRuns,
       consoleVars, vars
  <1>2. str' = conv.digits /\ conv.digits # <<>> /\ conv.num = 0
    BY <1>1 DEF ConvertEnd, kprint
  <1>3. PICK n : n = Len(conv.digits)
    OBVIOUS
  <1>4. n \in Nat
    BY <1>3 DEF ConsoleType, Conversions
  <1>5. PICK P, V : /\ Powers(P, n, conv.base) /\ Values(V, conv.digits, conv.base)
                    /\ conv.num * P[n] + V[n] = Abs(conv.of)
    BY <1>3 DEF NumberInv
  <1>6. P[n] \in Nat /\ V[n] \in Nat
    BY <1>3, <1>4, <1>5 DEF Powers, Values
  <1>7. V[n] = Abs(conv.of)
    BY <1>2, <1>5, <1>6
  <1>8. ValueOf(conv.digits, conv.base) = V[n]
    BY <1>3, <1>4, <1>5, ValueOfIs
  <1>9. n > 1 => conv.digits[1] # Representation[1]
    BY <1>2, <1>3 DEF NumberInv
  <1> QED BY <1>2, <1>3, <1>7, <1>8, <1>9

(***************************************************************************)
(* What kprintf prints for a number of any size, in any of the three       *)
(* bases, is that number, and the least int is no exception.               *)
(***************************************************************************)
THEOREM ConsoleNumbersAreRight == Spec => NumbersAreRight
  <1>1. Init => NumberInv
    BY DEF Init, NumberInv
  <1>2. ConsoleType /\ NumberInv /\ [Next]_vars => NumberInv'
    BY StepPreservesNumbers
  <1>3. ConsoleType /\ NumberInv /\ [Next]_vars =>
          [(pc = "convert" /\ pc' = "draw") =>
             /\ str' # <<>>
             /\ ValueOf(str', conv.base) = Abs(conv.of)
             /\ Len(str') > 1 => str'[1] # Representation[1]]_vars
    BY NumberEnds
  <1>4. ConsoleInv => ConsoleType
    BY DEF ConsoleInv
  <1>5. Spec => []NumberInv
    BY <1>1, <1>2, <1>4, ConsoleCorrect, PTL DEF Spec
  <1> QED BY <1>3, <1>4, <1>5, ConsoleCorrect, PTL DEF Spec, NumbersAreRight
=============================================================================
