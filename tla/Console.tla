------------------------------- MODULE Console -------------------------------
(***************************************************************************)
(* The graphic console: drivers/display/console.cpp over font.cpp and      *)
(* vbe.cpp.  Positions are pixels; a character is the lowest row of its    *)
(* 8x8 glyph that is lit, Blank if none is.  Of the frame buffer the model *)
(* keeps which cells show a glyph.                                         *)
(*                                                                         *)
(* vbe_put_pixel reports an address outside of the buffer with LOG_ERROR,  *)
(* which prints to this console, below the screen again: the recursion     *)
(* ends in the exhaustion of the stack.  That is the state lost.           *)
(***************************************************************************)
EXTENDS Integers

CONSTANTS Width, Height,    \* of the frame buffer, in pixels
          Glyphs,           \* lowest lit rows of the printable characters
          LastLine          \* bound of the model: lines below it are not begun

MARGIN == 10                \* CONSOLE_MARGIN
Blank == -1

ASSUME ConsoleAssumption ==
    /\ Width \in Nat /\ Width > 2 * MARGIN + 8
    /\ Height \in Nat /\ Height > 2 * MARGIN + 8
    /\ Glyphs \subseteq Blank .. 7
    /\ LastLine \in Nat

VARIABLES cursor_x, cursor_y,
          drawn,            \* the cells that show a glyph, by their upper left
          lost,
          last              \* the last call: "none", "put" or "clear"

vars == <<cursor_x, cursor_y, drawn, lost, last>>

screen_usable_height == Height - MARGIN
screen_usable_width  == Width - MARGIN

Cell(px, py) == [x |-> px, y |-> py]

\* Newlines alone take the cursor below the screen without end.
Running == ~lost /\ cursor_y <= LastLine

\* font_draw_char touches no row below low of the cell at height y, and none at
\* all for a character without a lit pixel.
OnScreen(y, low) == low = Blank \/ y + low < Height

\* vbe_scroll_up moves the picture eight rows up.
Scrolled(cells) == {Cell(c.x, c.y - 8) : c \in {d \in cells : d.y > 0}}

console_init ==
    /\ cursor_x = MARGIN /\ cursor_y = MARGIN
    /\ drawn = {} /\ lost = FALSE /\ last = "none"

\* Variant: the picture stays where it is.
Settle_still(px, py, cells) ==
    LET wrap == px >= screen_usable_width
        y    == IF wrap THEN py + 10 ELSE py
        full == y >= screen_usable_height
    IN  /\ cursor_x' = IF wrap THEN MARGIN ELSE px
        /\ cursor_y' = IF full THEN y - 8 ELSE y
        /\ drawn' = cells
\* Variant: the column is not checked.
Settle_wide(px, py, cells) ==
    LET full == py >= screen_usable_height
    IN  /\ cursor_x' = px
        /\ cursor_y' = IF full THEN py - 8 ELSE py
        /\ drawn' = IF full THEN Scrolled(cells) ELSE cells
\* The end of console_put_char: wrap at the right margin, scroll at the lower.
Settle(px, py, cells) ==
    LET wrap == px >= screen_usable_width
        y    == IF wrap THEN py + 10 ELSE py
        full == y >= screen_usable_height
    IN  /\ cursor_x' = IF wrap THEN MARGIN ELSE px
        /\ cursor_y' = IF full THEN y - 8 ELSE y
        /\ drawn' = IF full THEN Scrolled(cells) ELSE cells

put_glyph(low) ==
    /\ Running /\ OnScreen(cursor_y, low)
    /\ Settle(cursor_x + 8, cursor_y,
              IF low = Blank THEN drawn
                             ELSE drawn \cup {Cell(cursor_x, cursor_y)})
    /\ last' = "put" /\ UNCHANGED lost

put_glyph_below(low) ==
    /\ Running /\ ~OnScreen(cursor_y, low)
    /\ lost' = TRUE /\ last' = "put"
    /\ UNCHANGED <<cursor_x, cursor_y, drawn>>

newline ==
    /\ Running
    /\ Settle(MARGIN, cursor_y + 10, drawn)
    /\ last' = "put" /\ UNCHANGED lost

tab ==
    /\ Running
    /\ Settle(cursor_x + 32, cursor_y, drawn)
    /\ last' = "put" /\ UNCHANGED lost

\* Variant: the glyph stays on the screen.
backspace_keep ==
    /\ Running
    /\ cursor_x > MARGIN => OnScreen(cursor_y, 7)
    /\ LET x == IF cursor_x > MARGIN THEN cursor_x - 8 ELSE cursor_x
       IN  Settle(x, cursor_y, drawn)
    /\ last' = "put" /\ UNCHANGED lost
\* The character before the cursor is erased, the cursor is on it then.
backspace ==
    /\ Running
    /\ cursor_x > MARGIN => OnScreen(cursor_y, 7)
    /\ LET x == IF cursor_x > MARGIN THEN cursor_x - 8 ELSE cursor_x
       IN  Settle(x, cursor_y, IF x = cursor_x THEN drawn
                               ELSE drawn \ {Cell(x, cursor_y)})
    /\ last' = "put" /\ UNCHANGED lost

backspace_below ==
    /\ Running /\ cursor_x > MARGIN /\ ~OnScreen(cursor_y, 7)
    /\ lost' = TRUE /\ last' = "put" /\ cursor_x' = cursor_x - 8
    /\ UNCHANGED <<cursor_y, drawn>>

\* The clear command: clean_screen of drivers/screen.cpp writes the text
\* memory at 0xB8000 and nothing of the frame buffer or of this console.
clean_screen ==
    /\ Running
    /\ last' = "clear"
    /\ UNCHANGED <<cursor_x, cursor_y, drawn, lost>>

Next == \/ \E low \in Glyphs : put_glyph(low) \/ put_glyph_below(low)
        \/ newline \/ tab \/ backspace \/ backspace_below
        \/ clean_screen

Spec == console_init /\ [][Next]_vars
-----------------------------------------------------------------------------
(* Properties *)

\* The cursor stays between the margins on the grid of eight columns, so that
\* the unsigned cursor_x -= 8 of a backspace never passes the left margin and
\* every glyph ends before the right edge (console.cpp:45-55).
CursorInColumns ==
    /\ cursor_x \in MARGIN .. screen_usable_width - 1
    /\ (cursor_x - MARGIN) % 8 = 0
    /\ cursor_y \in Nat

\* No glyph is drawn over another.
GlyphsApart ==
    \A c, d \in drawn :
      c # d => \/ c.y + 8 <= d.y \/ d.y + 8 <= c.y
               \/ c.x + 8 <= d.x \/ d.x + 8 <= c.x

\* The place under the cursor and to the right of it is empty.
CursorFree ==
    \A c \in drawn :
      \/ c.y + 8 <= cursor_y
      \/ c.y <= cursor_y /\ c.x + 8 <= cursor_x

\* What is on the screen is readable, and so is what is typed next: a glyph
\* only sets pixels, so characters that overlap would not be.  Lines stay ten
\* rows apart although the picture and the cursor are scrolled by eight, and a
\* backspace leaves an empty place (console.cpp:38-58, 62-65).
Readable == GlyphsApart /\ CursorFree

\* Every pixel of a character is inside of the frame buffer; vbe_put_pixel
\* calls the contrary an error (vbe.cpp:29-32).
PixelsInBounds == ~lost

\* The help text's "Clear screen" (kernel.cpp:61).
ClearClears == last = "clear" => drawn = {}
=============================================================================
