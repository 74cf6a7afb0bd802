------------------------------ MODULE Console ------------------------------
(***************************************************************************)
(* The text console (src/src/driver/fb/kprint.cpp and string.cpp) on the   *)
(* framebuffer: kprint draws a string at the cursor and then moves the     *)
(* cursor over the same string a second time, each by rules of its own;    *)
(* kprintf prints its format character by character and converts numbers   *)
(* one digit at a time.  Nothing is scrolled and nothing is locked: an     *)
(* exception may arrive between any two steps and prints its report from   *)
(* wherever the cursor is.                                                 *)
(*                                                                         *)
(* A character is the name of its code ("LF", "a"); a character without a  *)
(* glyph in Font is one that draw_string does not print.  A conversion of  *)
(* kprintf is a triple: its letter, its argument, a string or a number,    *)
(* and again the number as kprintf was given it.                           *)
(***************************************************************************)
EXTENDS Framebuffer, Sequences

CONSTANTS
  ADVANCE,         \* pixels from one character to the next: a glyph and a gap
  IntMod,          \* 2^w, for the w bits of an int
  Characters,      \* the characters of strings and formats
  BufferSize,      \* convert's buffer, with the terminating NUL
  Representation,  \* the digits
  Null, NullText,  \* a null pointer, and what %s prints for it
  Strings,         \* arguments of kprint and buffers of sys_write
  Cells,           \* arguments of kprint_at: columns and rows
  Formats,         \* formats of kprintf with their arguments
  Report,          \* what default_exception_handler prints
  Segments,        \* arguments of line
  MaxCalls         \* bound: calls and exceptions

(***************************************************************************)
(* The conversions of a format.  Text is a string, but %s may get a null   *)
(* pointer; a number is an int for %d, else it is unsigned, or it is what  *)
(* is left of a negative int once its sign is printed.                     *)
(***************************************************************************)
TextItems ==
  ({"literal", "c", "percent", "other", "end"} \X Seq(Characters) \X {0})
    \cup ({"s"} \X ({Null} \cup Seq(Characters)) \X {0})

NumberItems ==
  {item \in {"d"} \X Int \X Int : item[3] = item[2] /\ -IntMod < item[2]}
    \cup {item \in {"u", "o", "x"} \X Nat \X Int : Abs(item[3]) = item[2]}

Items == TextItems \cup NumberItems

ASSUME ConsoleAssumption ==
  /\ ADVANCE \in Nat /\ CHAR_WIDTH <= ADVANCE
  /\ IntMod \in Nat \ {0}
  /\ Representation \in Seq(Characters) /\ Len(Representation) = 16
  /\ \A m, n \in 1 .. 16 : Representation[m] = Representation[n] => m = n
  /\ {"-", "%"} \subseteq Characters
  /\ NullText \in Seq(Characters)
  /\ Strings \subseteq Seq(Characters)
  /\ Cells \subseteq Nat \X Nat
  /\ Formats \subseteq Seq(Items) /\ Report \in Seq(Items)
  /\ Segments \subseteq Int \X Int \X Int \X Int

VARIABLES
  g_cursor_col, g_cursor_row,
  pc,        \* "idle", in "format", "convert", "draw", "advance", or "halt"
  todo,      \* the conversions that kprintf has not reached
  str,       \* the string of the running kprint
  ds,        \* draw_string's locals, and the index k into str
  conv,      \* convert's locals
  cells,     \* the text that the cursor has passed: <<column, row>> |-> character
  strayed,   \* has a string been drawn away from the cursor?
  halting,   \* is default_exception_handler running?
  calls

cursor == <<g_cursor_col, g_cursor_row>>
consoleVars == <<pc, ds, conv, g_cursor_col, g_cursor_row, str, cells, strayed, halting,
                 calls, todo>>
vars == <<consoleVars, fbVars>>

Glyph(c) == IF c \in DOMAIN Font THEN c ELSE "?"

Init ==
  /\ FbInit
  /\ g_cursor_col = 0 /\ g_cursor_row = 0
  /\ pc = "idle"
  /\ todo = <<>>
  /\ str = <<>>
  /\ ds = [start_x |-> 0, pos |-> 0, pos_y |-> 0, k |-> 1]
  /\ conv = [num |-> 0, base |-> 10, digits |-> <<>>, of |-> 0]
  /\ cells = <<>>
  /\ strayed = FALSE
  /\ halting = FALSE
  /\ calls = 0

-----------------------------------------------------------------------------
(***************************************************************************)
(* Where draw_string and kprint part: after a newline or a carriage return *)
(* the former goes on below its first character, the latter in column 0.   *)
(***************************************************************************)
Strays(s, col) ==
  col # 0 /\ \E i, j \in 1 .. Len(s) :
                i < j /\ s[i] \in {"LF", "CR"} /\ s[j] \notin {"LF", "CR"}

(* kprint, up to draw_string's loop: the pixels of the cursor's cell. *)
kprint(s, col, row, rest) ==
  /\ pc' = "draw"
  /\ todo' = rest
  /\ str' = s
  /\ ds' = [start_x |-> col * ADVANCE, pos |-> col * ADVANCE,
            pos_y |-> row * CHAR_HEIGHT, k |-> 1]
  /\ g_cursor_col' = col /\ g_cursor_row' = row
  /\ strayed' = (strayed \/ Strays(s, col))
  /\ UNCHANGED <<fbVars, conv, cells, halting>>

(* The string of one character that kputc prints; NUL ends it at once. *)
kputc(s) == IF s = <<"NUL">> THEN <<>> ELSE s

Text(spec, s) == <<spec, s, 0>>
Number(spec, n) == <<spec, n, n>>

(* An iteration of draw_string's loop. *)
DrawStep ==
  /\ pc = "draw" /\ ds.k <= Len(str)
  /\ LET c == str[ds.k]
         back == IF ds.pos <= 0 THEN 0 ELSE ds.pos - ADVANCE
     IN
     \/ /\ c = "LF"
        /\ ds' = [ds EXCEPT !.k = @ + 1, !.pos = ds.start_x, !.pos_y = @ + CHAR_HEIGHT]
        /\ UNCHANGED <<memory, covered>>
     \/ /\ c = "CR"
        /\ ds' = [ds EXCEPT !.k = @ + 1, !.pos = ds.start_x]
        /\ UNCHANGED <<memory, covered>>
     \/ /\ c = "BS"
        /\ draw_char(" ", back, ds.pos_y)
        /\ ds' = [ds EXCEPT !.k = @ + 1, !.pos = back]
     \/ /\ c = "TAB"
        /\ ds' = [ds EXCEPT !.k = @ + 1, !.pos = @ + 4 * ADVANCE]
        /\ UNCHANGED <<memory, covered>>
     \/ /\ c \notin {"LF", "CR", "BS", "TAB"}
        /\ draw_char(Glyph(c), ds.pos, ds.pos_y)
        /\ ds' = [ds EXCEPT !.k = @ + 1, !.pos = @ + ADVANCE]
  /\ UNCHANGED <<pc, fb, drawing, ln, trace, g_cursor_col, g_cursor_row, todo, str, conv,
                 cells, strayed, halting, calls>>

(* draw_string is done, or returned early; kprint goes over the string again. *)
DrawEnd ==
  /\ pc = "draw" /\ ds.k > Len(str)
  /\ pc' = "advance"
  /\ ds' = [ds EXCEPT !.k = 1]
  /\ UNCHANGED <<fbVars, g_cursor_col, g_cursor_row, todo, str, conv, cells, strayed,
                 halting, calls>>

(* The cursor after a character. *)
Moved(c) ==
  CASE c = "LF"  -> <<0, g_cursor_row + 1>>
    [] c = "CR"  -> <<0, g_cursor_row>>
    [] c = "TAB" -> <<g_cursor_col + 4, g_cursor_row>>
    [] c = "BS"  -> <<IF g_cursor_col <= 0 THEN 0 ELSE g_cursor_col - 1, g_cursor_row>>
    [] OTHER     -> <<g_cursor_col + 1, g_cursor_row>>

(* What a terminal whose cursor moves so would show: a backspace erases. *)
Written(c, to) ==
  LET cell == IF c = "BS" THEN to ELSE cursor
  IN IF c \in {"LF", "CR", "TAB"}
     THEN cells
     ELSE [p \in DOMAIN cells \cup {cell} |->
             IF p # cell THEN cells[p] ELSE IF c = "BS" THEN " " ELSE Glyph(c)]

(* Mutant: a while loop, whose "continue" after a carriage return skips the increment. *)
AdvanceStepContinues ==
  /\ pc = "advance" /\ ds.k <= Len(str)
  /\ LET c == str[ds.k]
         to == Moved(c)
     IN /\ g_cursor_col' = to[1] /\ g_cursor_row' = to[2]
        /\ cells' = Written(c, to)
        /\ ds' = [ds EXCEPT !.k = IF c = "CR" THEN @ ELSE @ + 1]
  /\ UNCHANGED <<fbVars, pc, todo, str, conv, strayed, halting, calls>>

(* An iteration of kprint's loop. *)
AdvanceStep ==
  /\ pc = "advance" /\ ds.k <= Len(str)
  /\ LET c == str[ds.k]
         to == Moved(c)
     IN /\ g_cursor_col' = to[1] /\ g_cursor_row' = to[2]
        /\ cells' = Written(c, to)
  /\ ds' = [ds EXCEPT !.k = @ + 1]
  /\ UNCHANGED <<fbVars, pc, todo, str, conv, strayed, halting, calls>>

AdvanceEnd ==
  /\ pc = "advance" /\ ds.k > Len(str)
  /\ pc' = "format"
  /\ UNCHANGED <<fbVars, g_cursor_col, g_cursor_row, todo, str, ds, conv, cells, strayed,
                 halting, calls>>

-----------------------------------------------------------------------------
(* Mutant: the sign is printed, and the number is still negative. *)
SignedSame(arg) == <<"u", arg % IntMod, arg>>

(* What is left of a negative %d once its sign is printed: an unsigned int. *)
Signed(arg) == <<"u", (-arg) % IntMod, arg>>

(* convert, up to its loop. *)
convert(arg, base, of) ==
  /\ pc' = "convert"
  /\ conv' = [num |-> arg, base |-> base, digits |-> <<>>, of |-> of]
  /\ todo' = Tail(todo)
  /\ UNCHANGED <<fbVars, g_cursor_col, g_cursor_row, str, ds, cells, strayed, halting>>

(* An iteration of kprintf's loop: a character of the format, or a conversion. *)
FormatStep ==
  /\ pc = "format" /\ todo # <<>>
  /\ UNCHANGED calls
  /\ LET spec == Head(todo)[1]
         arg == Head(todo)[2]
         of == Head(todo)[3]
         print(s, rest) == kprint(s, g_cursor_col, g_cursor_row, rest \o Tail(todo))
     IN
     \/ spec \in {"literal", "c"} /\ print(kputc(arg), <<>>)
     \/ spec = "s" /\ print(IF arg = Null THEN NullText ELSE arg, <<>>)
     \/ spec = "d" /\ arg < 0 /\ print(<<"-">>, <<Signed(arg)>>)
     \/ spec = "d" /\ arg >= 0 /\ convert(arg, 10, of)
     \/ spec = "u" /\ convert(arg, 10, of)
     \/ spec = "o" /\ convert(arg, 8, of)
     \/ spec = "x" /\ convert(arg, 16, of)
     \/ spec = "percent" /\ print(<<"%">>, <<>>)
     \/ spec = "other" /\ print(<<"%">>, <<Text("literal", arg)>>)
     \/ /\ spec = "end"         \* a % that ends the format
        /\ todo' = <<>>
        /\ UNCHANGED <<fbVars, g_cursor_col, g_cursor_row, pc, str, ds, conv, cells,
                       strayed, halting>>

LastDigit == Representation[(conv.num % conv.base) + 1]

(***************************************************************************)
(* An iteration of convert's do loop, from the last digit to the first.    *)
(* There is no step that would write below the buffer.                     *)
(***************************************************************************)
ConvertStep ==
  /\ pc = "convert" /\ (conv.digits = <<>> \/ conv.num # 0)
  /\ Len(conv.digits) < BufferSize - 1
  /\ conv' = [conv EXCEPT !.num = @ \div conv.base,
                          !.digits = <<LastDigit>> \o @]
  /\ UNCHANGED <<fbVars, g_cursor_col, g_cursor_row, pc, todo, str, ds, cells, strayed,
                 halting, calls>>

ConvertEnd ==
  /\ pc = "convert" /\ conv.digits # <<>> /\ conv.num = 0
  /\ kprint(conv.digits, g_cursor_col, g_cursor_row, todo)
  /\ UNCHANGED calls

(* The call returns; default_exception_handler does not: cli, hlt. *)
Return ==
  /\ pc = "format" /\ todo = <<>>
  /\ pc' = IF halting THEN "halt" ELSE "idle"
  /\ UNCHANGED <<fbVars, g_cursor_col, g_cursor_row, todo, str, ds, conv, cells, strayed,
                 halting, calls>>

-----------------------------------------------------------------------------
Idle == pc = "idle" /\ ~drawing
NewCall == calls < MaxCalls /\ calls' = calls + 1

Kprint(s) == Idle /\ NewCall /\ kprint(s, g_cursor_col, g_cursor_row, <<>>)

kprint_at(s, col, row) == Idle /\ NewCall /\ kprint(s, col, row, <<>>)

kprintf(format) ==
  /\ Idle /\ NewCall
  /\ pc' = "format"
  /\ todo' = format
  /\ UNCHANGED <<fbVars, g_cursor_col, g_cursor_row, str, ds, conv, cells, strayed, halting>>

(* sys_write: a kputc for each of the characters of the buffer. *)
sys_write(buf) == kprintf([i \in 1 .. Len(buf) |-> Text("literal", <<buf[i]>>)])

Line(s) ==
  /\ Idle /\ NewCall
  /\ line(s[1], s[2], s[3], s[4])
  /\ UNCHANGED <<g_cursor_col, g_cursor_row, pc, todo, str, ds, conv, cells, strayed, halting>>

(***************************************************************************)
(* default_exception_handler: whatever was running is over.  The handler   *)
(* begins at the cursor, which may be behind what draw_string has drawn;   *)
(* from here on only the report is text that the screen should show.       *)
(***************************************************************************)
Exception ==
  /\ pc # "halt" /\ ~halting /\ NewCall
  /\ pc' = "format"
  /\ todo' = Report
  /\ halting' = TRUE
  /\ cells' = <<>>
  /\ strayed' = FALSE
  /\ drawing' = FALSE
  /\ trace' = {}
  /\ UNCHANGED <<fb, memory, ln, covered, g_cursor_col, g_cursor_row, str, ds, conv>>

LineRuns == LineStep /\ UNCHANGED consoleVars

Step == \/ DrawStep \/ DrawEnd \/ AdvanceStep \/ AdvanceEnd
        \/ FormatStep \/ ConvertStep \/ ConvertEnd \/ Return \/ LineRuns

Next == \/ \E s \in Strings : Kprint(s) \/ sys_write(s)
        \/ \E s \in Strings, p \in Cells : kprint_at(s, p[1], p[2])
        \/ \E f \in Formats : kprintf(f)
        \/ \E s \in Segments : Line(s)
        \/ Exception
        \/ Step

Spec == Init /\ [][Next]_vars /\ WF_vars(Step)

-----------------------------------------------------------------------------
(***************************************************************************)
(* Between calls the screen, byte by byte, is what the text, the           *)
(* backspaces and the lines that were printed leave on a terminal with     *)
(* kprint's cursor: draw_string and kprint's second loop agree, rows are   *)
(* found by the pitch, text that leaves the screen is dropped and not      *)
(* wrapped, and nothing is written into the padding or past the end.  This *)
(* holds as long as no string begun in the middle of a line goes on after  *)
(* a newline in it.  After an exception, wherever it struck, it holds of   *)
(* the report.                                                             *)
(***************************************************************************)
ScreenShowsText ==
  (pc \in {"idle", "halt"} /\ ~drawing /\ ~strayed) =>
    LET cellAt(x, y) == <<x \div ADVANCE, y \div CHAR_HEIGHT>>
        inGlyph(x) == x % ADVANCE < CHAR_WIDTH
        pixels == (0 .. fb.width - 1) \X (0 .. fb.height - 1)
        used == UNION {ScanOut(p[1], p[2]) : p \in pixels}
    IN
    /\ DOMAIN memory = 0 .. fb.pitch * fb.height - 1
    /\ \A o \in DOMAIN memory \ used : memory[o] = Black
    /\ \A p \in pixels :
         IF p \in covered THEN Shows(p[1], p[2], LINE)
         ELSE IF cellAt(p[1], p[2]) \in DOMAIN cells /\ inGlyph(p[1])
         THEN Shows(p[1], p[2],
                IF <<p[1] % ADVANCE, p[2] % CHAR_HEIGHT>> \in Font[cells[cellAt(p[1], p[2])]]
                THEN FG ELSE BG)
         ELSE halting \/ IsClear(p[1], p[2])

(* The number that a string of digits stands for. *)
ValueOf(s, base) ==
  LET digit(c) == (CHOOSE i \in 1 .. Len(Representation) : Representation[i] = c) - 1
      value[n \in 0 .. Len(s)] == IF n = 0 THEN 0 ELSE value[n - 1] * base + digit(s[n])
  IN value[Len(s)]

(***************************************************************************)
(* What convert returns are the digits of its argument without the sign,   *)
(* at least one and none of them a leading zero, for the least int too,    *)
(* whose negation does not fit.                                            *)
(***************************************************************************)
NumbersAreRight ==
  [][(pc = "convert" /\ pc' = "draw") =>
       /\ str' # <<>>
       /\ ValueOf(str', conv.base) = Abs(conv.of)
       /\ Len(str') > 1 => str'[1] # Representation[1]]_vars

(* Every call returns, and an exception stops the machine. *)
CallsEnd == (pc \notin {"idle", "halt"} \/ drawing) ~> (pc \in {"idle", "halt"} /\ ~drawing)
=============================================================================
