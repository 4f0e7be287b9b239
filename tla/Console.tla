------------------------------ MODULE Console -------------------------------
(***************************************************************************)
(* The text console (src/kernel/drivers/console.cpp) on a back buffer whose *)
(* changed rectangle is copied to the screen (framebuffer.cpp), with a      *)
(* cursor that is drawn by inverting pixels.  The module follows where the  *)
(* code writes, and not what: a pixel is written, inverted, or out of date  *)
(* on the screen.                                                           *)
(*                                                                          *)
(* write is called from system calls with interrupts off.  The echo of a    *)
(* key calls put after `sti; hlt', with interrupts on: the timer's          *)
(* cursor_tick, or another task's write, may come between put's hiding of   *)
(* the cursor and the rest of it.                                           *)
(***************************************************************************)
EXTENDS Integers, Sequences, FiniteSets, FiniteSetsExt

CONSTANTS
    CW, CH,     \* the font: width and height of a character
    Screens,    \* the modes the boot loader may set, [w, h]
    LIMIT,      \* sizeof(ansi) - 1
    PERIOD,     \* CURSOR_BLINK_PERIOD
    none

VARIABLES
    con,        \* the console's static variables, and the back buffer
    pc          \* the character whose echo is under way, or none

console_vars == <<con, pc>>

Screen(s) == (0 .. s.w - 1) \X (0 .. s.h - 1)
Block(s) == (s.x .. s.x + CW - 1) \X (s.y .. s.y + CH - 1)
OnScreen(s) == Block(s) \subseteq Screen(s)

\* Pixels that get a new colour, whatever they were.
Paint(s, P) ==
    [s EXCEPT !.inverted = @ \ P, !.ghost = @ \ P, !.stale = @ \cup (P \cap Screen(s)),
              !.wild = @ \/ ~ P \subseteq Screen(s)]

\* The smallest rectangle around what was marked, given by its corners.
mark_dirty(s, x0, y0, x1, y1) ==
    IF x0 = x1 THEN s
    ELSE IF s.dirty = none THEN [s EXCEPT !.dirty = <<x0, y0, x1, y1>>]
    ELSE [s EXCEPT !.dirty = << Min({@[1], x0}), Min({@[2], y0}), Max({@[3], x1}), Max({@[4], y1}) >>]

mark_block(s) == mark_dirty(s, s.x, s.y, s.x + CW, s.y + CH)
mark_all(s) == mark_dirty(s, 0, 0, s.w, s.h)

Rect(d) == IF d = none THEN {} ELSE (d[1] .. d[3] - 1) \X (d[2] .. d[4] - 1)

\* swap_rect stops at the last row but not at the last column; a negative
\* width is a huge unsigned one.
flush_dirty(s) ==
    LET d == s.dirty
    IN  IF d = none THEN s
        ELSE [s EXCEPT !.dirty = none, !.stale = @ \ Rect(d),
                       !.wild = @ \/ d[3] < d[1] \/ (d[3] > s.w /\ d[4] >= s.h)]

draw_cursor_block(s) ==
    mark_block([s EXCEPT !.inverted = SymDiff(@, Block(s) \cap Screen(s)),
                         !.stale = @ \cup (Block(s) \cap Screen(s)),
                         !.wild = @ \/ ~ OnScreen(s)])

\* Inverting a cursor that was never drawn draws it.
hide(s) ==
    IF ~ s.visible THEN s
    ELSE [draw_cursor_block(s) EXCEPT !.visible = FALSE, !.blink = 0, !.undrawn = FALSE,
            !.ghost = IF s.undrawn THEN SymDiff(@, Block(s) \cap Screen(s)) ELSE @]

\* Mutant: only the line that becomes free is marked.
scroll_last(s) ==
    LET Up(P) == {<<p[1], p[2] - CH>> : p \in {q \in P : q[2] >= CH}}
    IN  mark_dirty([s EXCEPT !.inverted = Up(@), !.ghost = Up(@), !.stale = Screen(s)],
                   0, s.h - CH, s.w, s.h)

scroll(s) ==
    LET Up(P) == {<<p[1], p[2] - CH>> : p \in {q \in P : q[2] >= CH}}
    IN  IF s.h <= CH THEN s
        ELSE mark_all([s EXCEPT !.inverted = Up(@), !.ghost = Up(@), !.stale = Screen(s)])

newline(s) ==
    IF s.y + 2 * CH > s.h THEN [scroll(s) EXCEPT !.x = 0] ELSE [s EXCEPT !.x = 0, !.y = @ + CH]

Wrapped(s) == IF s.x + CW >= s.w THEN newline(s) ELSE s

draw_char(s) == Wrapped([mark_block(Paint(s, Block(s))) EXCEPT !.x = @ + CW])

\* Mutant: back to the column behind the last one.
backspace_wide(s0) ==
    LET s == hide(s0)
        t == IF s.x >= CW THEN [s EXCEPT !.x = @ - CW]
             ELSE [s EXCEPT !.y = @ - CH, !.x = (s.w \div CW) * CW]
    IN  IF s.x < CW /\ s.y < CH THEN s
        ELSE flush_dirty(mark_dirty(mark_block(Paint(t, Block(t) \cap Screen(t))),
                                    s.x, s.y, s.x + CW, s.y + CH))

\* To the left, or to the last column of the line above; nothing, and no
\* flush, in the first column of the first line.
backspace(s0) ==
    LET s == hide(s0)
        t == IF s.x >= CW THEN [s EXCEPT !.x = @ - CW]
             ELSE [s EXCEPT !.y = @ - CH, !.x = (s.w \div CW - 1) * CW]
    IN  IF s.x < CW /\ s.y < CH THEN s
        ELSE flush_dirty(mark_dirty(mark_block(Paint(t, Block(t) \cap Screen(t))),
                                    s.x, s.y, s.x + CW, s.y + CH))

fb_clear(s) == Paint(s, Screen(s))

clear(s) == flush_dirty(mark_all([fb_clear(s) EXCEPT !.x = 0, !.y = 0]))

\* mode 0 from the cursor on, 1 up to the cursor, 2 all of the line.
clear_line(s, mode) ==
    LET start == IF mode = 0 THEN s.x ELSE 0
        end == IF mode = 1 THEN s.x ELSE s.w
    IN  mark_dirty(Paint(s, ((start .. end - 1) \X (s.y .. s.y + CH - 1)) \cap Screen(s)),
                   start, s.y, end, s.y + CH)
----------------------------------------------------------------------------
\* A cursor movement marks the place that it leaves and the one it reaches.
Move(s, x, y) ==
    flush_dirty(mark_block([mark_block(s) EXCEPT !.x = x, !.y = y]))

\* Moves that do not look whether the whole character fits.
Stray(s) == [s EXCEPT !.strayed = @ \/ ~ OnScreen(s)]

handle_ansi(s, t) ==
    LET rows == s.h \div CH
        cols == s.w \div CW
    IN  CASE t.k = "H" -> Move(s, (Min({t.n, cols}) - 1) * CW, (Min({t.n, rows}) - 1) * CH)
          [] t.k = "A" -> Move(s, s.x, Max({0, s.y - t.n * CH}))
          [] t.k = "B" -> Stray(Move(s, s.x, IF s.y + t.n * CH >= s.h THEN s.h - CH ELSE s.y + t.n * CH))
          [] t.k = "C" -> Stray(Move(s, IF s.x + t.n * CW >= s.w THEN s.w - CW ELSE s.x + t.n * CW, s.y))
          [] t.k = "D" -> Move(s, Max({0, s.x - t.n * CW}), s.y)
          [] t.k = "K" -> flush_dirty(clear_line(s, t.n))
          [] t.k = "J" -> flush_dirty(IF t.n = 2 THEN clear(s) ELSE s)
          [] t.k = "h" -> [s EXCEPT !.visible = TRUE, !.undrawn = @ \/ ~ s.visible]
          [] t.k = "l" -> [hide(s) EXCEPT !.blink = s.blink]
          [] OTHER     -> s

\* A byte after ESC: a letter ends the sequence, and so does the last place of
\* the buffer, then without a command.
parse(s, t) ==
    LET pos == s.pos + 1
        kind == IF s.pos > 0 THEN s.escape ELSE IF t.k = "[" THEN "csi" ELSE "other"
        letter == t.k \notin {"[", "nl", "cr", "bs", "tab"}
        ran == IF letter /\ kind = "csi" THEN handle_ansi(s, t) ELSE s
    IN  flush_dirty(IF letter \/ pos >= LIMIT THEN [ran EXCEPT !.escape = "no", !.pos = 0]
                    ELSE [s EXCEPT !.escape = kind, !.pos = pos])

\* put, after it has hidden the cursor.
rest(s, t) ==
    IF t.k = "esc" THEN [s EXCEPT !.escape = "start", !.pos = 0]
    ELSE IF s.escape # "no" THEN parse(s, t)
    ELSE CASE t.k = "nl" -> flush_dirty(newline(s))
           [] t.k = "cr" -> [s EXCEPT !.x = 0]
           [] t.k = "bs" -> backspace(s)
           [] t.k = "tab" -> Stray(flush_dirty([s EXCEPT !.x = @ + 4 * CW]))
           [] OTHER      -> flush_dirty(draw_char(Wrapped(s)))

\* What is put: characters, control characters, and a final letter together
\* with its parameter.
Token ==
    [k : {"char", "nl", "cr", "bs", "tab", "esc", "["}, n : {1}]
    \cup [k : {"h", "l"}, n : {25}]
    \cup [k : {"A", "B", "C", "D", "H"}, n : {1, 9}]
    \cup [k : {"K"}, n : 0 .. 2] \cup [k : {"J"}, n : {0, 2}]

\* Bounds: one tab past the edge, and one ghost at a time.  A letter outside
\* a sequence is a character.
Sensible(s, t) ==
    /\ t.k = "tab" /\ s.escape = "no" => s.x < s.w
    /\ t.k = "h" => s.ghost = {} /\ ~ s.strayed
    /\ t.k \in {"A", "B", "C", "D", "H", "K", "J", "h", "l"} => s.escape = "csi"
----------------------------------------------------------------------------
Boot(m) ==
    [w |-> m.w, h |-> m.h, x |-> 0, y |-> 0, visible |-> TRUE, blink |-> 0,
     escape |-> "no", pos |-> 0, dirty |-> none, inverted |-> {}, stale |-> {},
     \* history: the cursor counts as visible and is not drawn; what was
     \* inverted by hiding it; a step of put ran with the cursor visible; a
     \* movement left the screen; a write left the buffer
     undrawn |-> TRUE, ghost |-> {}, raced |-> FALSE, strayed |-> FALSE, wild |-> FALSE]

ConsoleInit ==
    /\ con \in {Boot(m) : m \in Screens}
    /\ pc = none

write(t) ==
    /\ Sensible(con, t)
    /\ con' = rest(hide(con), t)
    /\ UNCHANGED pc

\* The echo of a key, with interrupts on.
echo(t) ==
    /\ pc = none
    /\ t.k \in {"char", "nl", "bs"} /\ ~ con.strayed
    /\ con' = hide(con)
    /\ pc' = t

echo_rest ==
    /\ pc # none
    /\ con' = [rest(con, pc) EXCEPT !.raced = @ \/ con.visible]
    /\ pc' = none

cursor_tick ==
    /\ con' = IF con.blink + 1 < PERIOD THEN [con EXCEPT !.blink = @ + 1]
              ELSE [flush_dirty(draw_cursor_block(con)) EXCEPT
                      !.blink = 0, !.visible = ~ con.visible, !.undrawn = FALSE,
                      !.ghost = IF con.undrawn THEN SymDiff(@, Block(con) \cap Screen(con)) ELSE @]
    /\ UNCHANGED pc

\* After a write outside the buffer anything may be overwritten, and after a
\* disturbed echo the traces of the cursor are no longer followed.
Lost == (con.wild \/ con.raced) /\ UNCHANGED console_vars

ConsoleNext ==
    \/ /\ ~ con.wild /\ ~ con.raced
       /\ (\E t \in Token : write(t) \/ echo(t)) \/ echo_rest \/ cursor_tick
    \/ Lost

ConsoleSpec == ConsoleInit /\ [][ConsoleNext]_console_vars
----------------------------------------------------------------------------
\* The cursor leaves no trace: the only inverted pixels are those under a
\* visible cursor, however the text was written, scrolled and erased around
\* it, except where the code hides a cursor that it had declared visible and
\* not drawn (at boot, and by ESC[?25h), and after a tick or another task's
\* put came into the middle of an echo.
NoTrace ==
    ~ con.raced /\ ~ con.strayed =>
      con.inverted = SymDiff(con.ghost, IF con.visible /\ ~ con.undrawn THEN Block(con) ELSE {})

\* What is not yet on the screen lies in the rectangle that the next flush
\* copies: no change is ever forgotten.
DirtyCovers == ~ con.wild => con.stale \subseteq Rect(con.dirty)

\* The cursor, and with it all that is drawn without a check, stays on the
\* screen, unless a tab, ESC[B or ESC[C has taken it over the edge: a tab is
\* not limited at all, and the other two let it stand where a part of it does
\* not fit when the mode is no multiple of the font.
StaysOnScreen == ~ con.strayed => OnScreen(con) /\ ~ con.wild
=============================================================================
