---------------------------- MODULE Framebuffer ----------------------------
(***************************************************************************)
(* Pixels, characters and lines (src/src/driver/fb): putpixel writes the   *)
(* bytes of one pixel into video memory, draw_char a glyph, and line a     *)
(* segment, by Bresenham's algorithm, one pixel per iteration.             *)
(*                                                                         *)
(* Video memory is a function from offsets to bytes; a byte of a colour is *)
(* <<colour, which>>.  What putpixel writes outside of the memory that the *)
(* mode has would show up as a larger domain.                              *)
(***************************************************************************)
EXTENDS Integers, FiniteSets

CONSTANTS
  Modes,        \* what VBE may report: set of [width, height, pitch, bpp]
  CHAR_WIDTH,
  CHAR_HEIGHT,
  Font,         \* character |-> the pixels of its glyph that are set
  FG, BG, LINE  \* colours: text, its background, lines

ASSUME FramebufferAssumption ==
  /\ \A m \in Modes : /\ m.width \in Nat /\ m.height \in Nat /\ m.pitch \in Nat
                      /\ m.bpp \in {16, 24, 32}
                      /\ m.width * (m.bpp \div 8) <= m.pitch
  /\ CHAR_WIDTH \in Nat \ {0} /\ CHAR_HEIGHT \in Nat \ {0}
  /\ \A c \in DOMAIN Font :
       Font[c] \subseteq (0 .. CHAR_WIDTH - 1) \X (0 .. CHAR_HEIGHT - 1)
  /\ Cardinality({FG, BG, LINE}) = 3

VARIABLES
  fb,       \* get_framebuffer_info(): the mode
  memory,   \* offset |-> byte
  drawing,  \* is line() running?
  ln,       \* its parameters and locals
  trace,    \* the points that the latest line went through
  covered   \* the points that show a line: nothing was drawn there since

fbVars == <<drawing, ln, trace, covered, fb, memory>>

Black == <<"clear", 0>>

Abs(n) == IF n < 0 THEN -n ELSE n

-----------------------------------------------------------------------------
OnScreen(x, y) == x >= 0 /\ y >= 0 /\ x < fb.width /\ y < fb.height

Bytes == 0 .. fb.bpp \div 8 - 1

(* Mutant: rows are taken to be as long as the screen is wide. *)
OffsetNoPadding(x, y) == y * fb.width * (fb.bpp \div 8) + x * (fb.bpp \div 8)

(* "use pitch, not width": rows may be padded. *)
Offset(x, y) == y * fb.pitch + x * (fb.bpp \div 8)

(***************************************************************************)
(* A putpixel for every point of colors; points outside of the screen are  *)
(* dropped.  (What \E binds here, TLC evaluates only once.)                *)
(***************************************************************************)
putpixels(colors) ==
  \E drawn \in {{p \in DOMAIN colors : OnScreen(p[1], p[2])}} :
    \E written \in {{Offset(p[1], p[2]) + k : p \in drawn, k \in Bytes}} :
      LET byte(o) == LET p == CHOOSE q \in drawn : o - Offset(q[1], q[2]) \in Bytes
                     IN <<colors[p], o - Offset(p[1], p[2])>>
      IN memory' = [o \in DOMAIN memory \cup written |->
                      IF o \in written THEN byte(o) ELSE memory[o]]

(* The points of a character whose upper left corner is at x, y. *)
Box(x, y) == {<<x + cx, y + cy>> : cx \in 0 .. CHAR_WIDTH - 1, cy \in 0 .. CHAR_HEIGHT - 1}

(* draw_char: set bits in one colour, the others in the background's. *)
draw_char(c, x, y) ==
  /\ putpixels([p \in Box(x, y) |->
                  IF <<p[1] - x, p[2] - y>> \in Font[c] THEN FG ELSE BG])
  /\ covered' = covered \ Box(x, y)

-----------------------------------------------------------------------------
FbInit ==
  /\ fb \in Modes
  /\ memory = [o \in 0 .. fb.pitch * fb.height - 1 |-> Black]
  /\ drawing = FALSE
  /\ ln = [from |-> <<0, 0>>, x1 |-> 0, y1 |-> 0, x2 |-> 0, y2 |-> 0,
           dx |-> 0, dy |-> 0, sx |-> 1, sy |-> 1, err |-> 0]
  /\ trace = {}
  /\ covered = {}

(* line: its locals. *)
line(x1, y1, x2, y2) ==
  LET dx == Abs(x2 - x1)
      dy == -Abs(y2 - y1)
  IN
  /\ drawing' = TRUE
  /\ ln' = [from |-> <<x1, y1>>, x1 |-> x1, y1 |-> y1, x2 |-> x2, y2 |-> y2,
            dx |-> dx, dy |-> dy,
            sx |-> IF x1 < x2 THEN 1 ELSE -1,
            sy |-> IF y1 < y2 THEN 1 ELSE -1,
            err |-> dx + dy]
  /\ trace' = {}
  /\ UNCHANGED <<fb, memory, covered>>

(* Mutant: the second test sees the error that the first one changed. *)
AdvanceLineSequential ==
  LET right == 2 * ln.err >= ln.dy
      err == ln.err + (IF right THEN ln.dy ELSE 0)
      down == 2 * err <= ln.dx
  IN ln' = [ln EXCEPT !.err = err + (IF down THEN ln.dx ELSE 0),
                      !.x1 = @ + (IF right THEN ln.sx ELSE 0),
                      !.y1 = @ + (IF down THEN ln.sy ELSE 0)]

(* The end of an iteration: a step along one axis or both. *)
AdvanceLine ==
  LET right == 2 * ln.err >= ln.dy
      down == 2 * ln.err <= ln.dx
  IN ln' = [ln EXCEPT !.err = @ + (IF right THEN ln.dy ELSE 0) + (IF down THEN ln.dx ELSE 0),
                      !.x1 = @ + (IF right THEN ln.sx ELSE 0),
                      !.y1 = @ + (IF down THEN ln.sy ELSE 0)]

(* An iteration of line's loop. *)
LineStep ==
  LET here == <<ln.x1, ln.y1>>
      done == ln.x1 = ln.x2 /\ ln.y1 = ln.y2
  IN
  /\ drawing
  /\ putpixels([p \in {here} |-> LINE])
  /\ trace' = trace \cup {here}
  /\ covered' = covered \cup {here}
  /\ drawing' = ~done
  /\ IF done THEN UNCHANGED ln ELSE AdvanceLine
  /\ UNCHANGED fb

-----------------------------------------------------------------------------
(* Where the display finds the bytes of a point: a row takes pitch bytes. *)
ScanOut(x, y) == {fb.pitch * y + (fb.bpp \div 8) * x + k : k \in Bytes}

(* What the screen shows at a point, if its bytes are those of one colour. *)
Shows(x, y, color) ==
  \A o \in ScanOut(x, y) : memory[o] = <<color, (o % fb.pitch) % (fb.bpp \div 8)>>

IsClear(x, y) == \A o \in ScanOut(x, y) : memory[o] = Black

(***************************************************************************)
(* A line is the segment between its ends: along the longer axis it has    *)
(* one point for every coordinate, each no more than half a pixel off the  *)
(* ideal line, and it goes from one end to the other, whatever its slope   *)
(* and direction and wherever it leaves the screen.                        *)
(***************************************************************************)
LineIsStraight ==
  LET X == ln.x2 - ln.from[1]
      Y == ln.y2 - ln.from[2]
      longer == IF Abs(X) >= Abs(Y) THEN 1 ELSE 2
      length == IF longer = 1 THEN Abs(X) ELSE Abs(Y)
  IN
  /\ \A p \in trace :
       2 * Abs(X * (p[2] - ln.from[2]) - Y * (p[1] - ln.from[1])) <= length
  /\ \A p, q \in trace : p[longer] = q[longer] => p = q
  /\ (trace # {} /\ ~drawing) =>
       /\ {ln.from, <<ln.x2, ln.y2>>} \subseteq trace
       /\ Cardinality(trace) = length + 1
=============================================================================
