--------------------------- MODULE ConsoleProofs ---------------------------
(***************************************************************************)
(* Text stays readable on a screen of any size: however it is wrapped,     *)
(* scrolled and erased, no glyph is drawn over another and the cursor      *)
(* keeps to its columns.                                                   *)
(***************************************************************************)
EXTENDS Console, TLAPS

\* Where a cell may be that was drawn before the cursor came to x, y: on a line at
\* least ten rows above, or on the cursor's own line to the left of it.
Behind(c, x, y) == c.y + 10 <= y \/ (c.y = y /\ c.x + 8 <= x)

\* A position in a column.
InColumn(x) == x \in Nat /\ x >= MARGIN /\ (x - MARGIN) % 8 = 0

\* Cells in columns, apart from each other, and behind the cursor.
Laid(cells, x, y) ==
    /\ \A c \in cells : /\ c = Cell(c.x, c.y) /\ c.x \in Int /\ c.y \in Int
                        /\ (c.x - MARGIN) % 8 = 0
                        /\ Behind(c, x, y)
    /\ \A c, d \in cells :
         c # d => \/ c.y + 8 <= d.y \/ d.y + 8 <= c.y
                  \/ c.x + 8 <= d.x \/ d.x + 8 <= c.x

\* The cell of a glyph, all eight rows of it, is above the lower edge: what was drawn
\* below it in part was scrolled by the same call.
Inside == \A c \in drawn : c.y + 7 < Height

Inv == CursorInColumns /\ Laid(drawn, cursor_x, cursor_y) /\ Inside

\* Scrolling keeps cells as they are to each other and to the cursor.
LEMMA ScrolledLaid ==
  ASSUME NEW cells, NEW x \in Int, NEW y \in Int, Laid(cells, x, y)
  PROVE  Laid(Scrolled(cells), x, y - 8)
<1>1. ASSUME NEW c \in Scrolled(cells)
      PROVE  \E d \in cells : c = Cell(d.x, d.y - 8)
  BY DEF Scrolled
<1>2. ASSUME NEW c \in Scrolled(cells)
      PROVE  /\ c = Cell(c.x, c.y) /\ c.x \in Int /\ c.y \in Int
             /\ (c.x - MARGIN) % 8 = 0 /\ Behind(c, x, y - 8)
  <2>1. PICK d \in cells : c = Cell(d.x, d.y - 8)
    BY <1>1
  <2>2. c.x = d.x /\ c.y = d.y - 8
    BY <2>1 DEF Cell
  <2>3. d.x \in Int /\ d.y \in Int /\ (d.x - MARGIN) % 8 = 0 /\ Behind(d, x, y)
    BY DEF Laid
  <2> QED BY <2>1, <2>2, <2>3 DEF Behind
<1>3. ASSUME NEW c \in Scrolled(cells), NEW d \in Scrolled(cells), c # d
      PROVE  \/ c.y + 8 <= d.y \/ d.y + 8 <= c.y
             \/ c.x + 8 <= d.x \/ d.x + 8 <= c.x
  <2>1. PICK c0 \in cells : c = Cell(c0.x, c0.y - 8)
    BY <1>1
  <2>2. PICK d0 \in cells : d = Cell(d0.x, d0.y - 8)
    BY <1>1
  <2>3. c.x = c0.x /\ c.y = c0.y - 8 /\ d.x = d0.x /\ d.y = d0.y - 8
    BY <2>1, <2>2 DEF Cell
  <2>4. c0.x \in Int /\ c0.y \in Int /\ d0.x \in Int /\ d0.y \in Int
    BY DEF Laid
  <2>5. c0 # d0
    BY <1>3, <2>1, <2>2
  <2>6. \/ c0.y + 8 <= d0.y \/ d0.y + 8 <= c0.y
        \/ c0.x + 8 <= d0.x \/ d0.x + 8 <= c0.x
    BY <2>5 DEF Laid
  <2> QED BY <2>3, <2>4, <2>6
<1> QED BY <1>2, <1>3 DEF Laid

\* Cells stay behind a cursor that moves to the right, or to a line below.
LEMMA FurtherLaid ==
  ASSUME NEW cells, NEW x \in Int, NEW y \in Int, Laid(cells, x, y),
         NEW x1 \in Int, NEW y1 \in Int, (y1 = y /\ x <= x1) \/ y1 = y + 10
  PROVE  Laid(cells, x1, y1)
<1>1. ASSUME NEW c \in cells PROVE Behind(c, x1, y1)
  <2>1. c.x \in Int /\ c.y \in Int /\ Behind(c, x, y)
    BY DEF Laid
  <2> QED BY <2>1 DEF Behind
<1> QED BY <1>1 DEF Laid

\* The end of console_put_char, from any position a character may leave.
LEMMA SettleKeeps ==
  ASSUME NEW px, NEW py, NEW cells, InColumn(px), py \in Nat,
         Laid(cells, px, py), Settle(px, py, cells),
         \A c \in cells : c.y + 7 < Height \/ (c.y = py /\ py < Height)
  PROVE  Inv'
<1> DEFINE wrap == px >= screen_usable_width
           x == IF wrap THEN MARGIN ELSE px
           y == IF wrap THEN py + 10 ELSE py
           full == y >= screen_usable_height
<1>1. px \in Int /\ py \in Int /\ MARGIN \in Int
      /\ screen_usable_width \in Int /\ screen_usable_height \in Int
      /\ screen_usable_width > MARGIN + 8 /\ screen_usable_height > 8
  BY ConsoleAssumption DEF InColumn, MARGIN, screen_usable_width, screen_usable_height
<1>2. x \in MARGIN .. screen_usable_width - 1 /\ (x - MARGIN) % 8 = 0 /\ y \in Nat
  BY <1>1 DEF InColumn, MARGIN
<1>3. Laid(cells, x, y)
  BY <1>1, <1>2, FurtherLaid
<1>4. cursor_x' = x /\ cursor_y' = (IF full THEN y - 8 ELSE y)
      /\ drawn' = IF full THEN Scrolled(cells) ELSE cells
  BY DEF Settle
<1> HIDE DEF x, y
<1>5. full => y - 8 \in Nat
  BY <1>1, <1>2
<1>6. CursorInColumns'
  BY <1>2, <1>4, <1>5 DEF CursorInColumns, screen_usable_width
<1>7. x \in Int /\ y \in Int
  BY <1>1, <1>2
<1>8. Laid(drawn', cursor_x', cursor_y')
  BY <1>3, <1>4, <1>7, ScrolledLaid
<1>9. ASSUME NEW c \in drawn' PROVE c.y + 7 < Height
  <2>1. y >= py /\ Height \in Int
    BY <1>1, ConsoleAssumption DEF y
  <2>2. CASE full
    <3>1. PICK d \in cells : c = Cell(d.x, d.y - 8)
      BY <1>4, <2>2 DEF Scrolled
    <3>2. c.y = d.y - 8 /\ d.y \in Int
      BY <3>1 DEF Cell, Laid
    <3>3. d.y + 7 < Height \/ (d.y = py /\ py < Height)
      OBVIOUS
    <3> QED BY <1>1, <2>1, <3>2, <3>3
  <2>3. CASE ~full
    <3>1. c \in cells
      BY <1>4, <2>3
    <3>2. c.y \in Int /\ (c.y + 7 < Height \/ (c.y = py /\ py < Height))
      BY <3>1 DEF Laid
    <3> QED BY <1>1, <1>7, <2>1, <2>3, <3>2 DEF screen_usable_height, MARGIN
  <2> QED BY <2>2, <2>3
<1> QED BY <1>6, <1>8, <1>9 DEF Inv, Inside

\* What the invariant says of the cursor.
LEMMA Cursor ==
  ASSUME Inv
  PROVE  /\ InColumn(cursor_x) /\ cursor_x \in Int
         /\ cursor_y \in Nat /\ cursor_y \in Int /\ Laid(drawn, cursor_x, cursor_y)
         /\ \A c \in drawn : c.y + 7 < Height
<1>1. screen_usable_width \in Int
  BY ConsoleAssumption DEF screen_usable_width, MARGIN
<1> QED BY <1>1 DEF Inv, Inside, CursorInColumns, InColumn, MARGIN

\* A glyph is drawn at the cursor, which moves on by a column.
LEMMA GlyphLaid ==
  ASSUME Inv
  PROVE  Laid(drawn \cup {Cell(cursor_x, cursor_y)}, cursor_x + 8, cursor_y)
<1> DEFINE new == Cell(cursor_x, cursor_y)
<1>1. new.x = cursor_x /\ new.y = cursor_y /\ new = Cell(new.x, new.y)
  BY DEF Cell
<1>2. /\ cursor_x \in Int /\ cursor_y \in Int /\ (cursor_x - MARGIN) % 8 = 0
      /\ Laid(drawn, cursor_x, cursor_y) /\ Laid(drawn, cursor_x + 8, cursor_y)
  BY Cursor, FurtherLaid DEF InColumn
<1>3. Behind(new, cursor_x + 8, cursor_y)
  BY <1>1, <1>2 DEF Behind
<1>4. ASSUME NEW c \in drawn
      PROVE  c.y + 8 <= new.y \/ c.x + 8 <= new.x
  <2>1. c.x \in Int /\ c.y \in Int /\ Behind(c, cursor_x, cursor_y)
    BY <1>2 DEF Laid
  <2> QED BY <1>1, <1>2, <2>1 DEF Behind
<1> HIDE DEF new
<1> QED BY <1>1, <1>2, <1>3, <1>4 DEF Laid

\* The last glyph of the cursor's line is erased, if one is there.
LEMMA ErasedLaid ==
  ASSUME Inv, cursor_x > MARGIN
  PROVE  /\ InColumn(cursor_x - 8)
         /\ Laid(drawn \ {Cell(cursor_x - 8, cursor_y)}, cursor_x - 8, cursor_y)
<1>1. /\ cursor_x \in Int /\ cursor_y \in Int /\ (cursor_x - MARGIN) % 8 = 0
      /\ Laid(drawn, cursor_x, cursor_y)
  BY Cursor DEF InColumn
<1>2. InColumn(cursor_x - 8)
  BY <1>1 DEF InColumn, MARGIN
<1>3. ASSUME NEW c \in drawn \ {Cell(cursor_x - 8, cursor_y)}
      PROVE  Behind(c, cursor_x - 8, cursor_y)
  <2>1. c = Cell(c.x, c.y) /\ c.x \in Int /\ c.y \in Int /\ (c.x - MARGIN) % 8 = 0
        /\ Behind(c, cursor_x, cursor_y)
    BY <1>1 DEF Laid
  <2>2. c.y = cursor_y => c.x # cursor_x - 8
    BY <2>1
  <2> QED BY <1>1, <2>1, <2>2 DEF Behind, MARGIN
<1> QED BY <1>1, <1>2, <1>3 DEF Laid

\* The screen is empty at first.
LEMMA Initially == console_init => Inv
<1>1. MARGIN <= screen_usable_width - 1
  BY ConsoleAssumption DEF MARGIN, screen_usable_width
<1> QED BY <1>1, ConsoleAssumption
        DEF console_init, Inv, Inside, CursorInColumns, Laid, MARGIN, screen_usable_width

\* Every call keeps the invariant.
LEMMA Inductive == Inv /\ [Next]_vars => Inv'
<1> SUFFICES ASSUME Inv, [Next]_vars PROVE Inv'
  OBVIOUS
<1>1. ASSUME NEW low \in Glyphs, put_glyph(low) PROVE Inv'
  <2>1. InColumn(cursor_x + 8)
    BY Cursor DEF InColumn, MARGIN
  <2>2. CASE low = Blank
    <3>1. Laid(drawn, cursor_x + 8, cursor_y)
      BY Cursor, FurtherLaid
    <3> QED BY <1>1, <2>1, <2>2, <3>1, Cursor, SettleKeeps DEF put_glyph
  <2>3. CASE low # Blank
    <3>1. cursor_y < Height
      BY <1>1, <2>3, Cursor, ConsoleAssumption DEF put_glyph, OnScreen, Blank
    <3>2. ASSUME NEW c \in drawn \cup {Cell(cursor_x, cursor_y)}
          PROVE  c.y + 7 < Height \/ (c.y = cursor_y /\ cursor_y < Height)
      BY <3>1, Cursor DEF Cell
    <3> QED BY <1>1, <2>1, <2>3, <3>2, GlyphLaid, Cursor, SettleKeeps DEF put_glyph
  <2> QED BY <2>2, <2>3
<1>2. CASE newline
  <2>1. Laid(drawn, MARGIN, cursor_y + 10) /\ InColumn(MARGIN) /\ cursor_y + 10 \in Nat
    BY Cursor, FurtherLaid DEF InColumn, MARGIN
  <2> QED BY <1>2, <2>1, Cursor, SettleKeeps DEF newline
<1>3. CASE tab
  <2>1. Laid(drawn, cursor_x + 32, cursor_y)
    BY Cursor, FurtherLaid
  <2>2. InColumn(cursor_x + 32)
    BY Cursor DEF InColumn, MARGIN
  <2> QED BY <1>3, <2>1, <2>2, Cursor, SettleKeeps DEF tab
<1>4. CASE backspace
  <2>1. CASE cursor_x > MARGIN
    <3>1. cursor_x - 8 # cursor_x
      BY Cursor
    <3>2. Settle(cursor_x - 8, cursor_y, drawn \ {Cell(cursor_x - 8, cursor_y)})
      BY <1>4, <2>1, <3>1 DEF backspace
    <3> QED BY <2>1, <3>2, ErasedLaid, Cursor, SettleKeeps
  <2>2. CASE ~(cursor_x > MARGIN)
    <3>1. Settle(cursor_x, cursor_y, drawn)
      BY <1>4, <2>2 DEF backspace
    <3> QED BY <3>1, Cursor, SettleKeeps
  <2> QED BY <2>1, <2>2
<1>5. ASSUME NEW low \in Glyphs, put_glyph_below(low) PROVE Inv'
  BY <1>5 DEF put_glyph_below, Inv, Inside, CursorInColumns, screen_usable_width
<1>6. CASE backspace_below
  <2>1. /\ InColumn(cursor_x - 8) /\ cursor_x' = cursor_x - 8
        /\ UNCHANGED <<cursor_y, drawn>> /\ ~(cursor_y + 7 < Height)
    BY <1>6, ErasedLaid DEF backspace_below, OnScreen
  <2>2. ASSUME NEW c \in drawn PROVE Behind(c, cursor_x - 8, cursor_y)
    <3>1. c.y # cursor_y /\ Behind(c, cursor_x, cursor_y)
      BY <2>1, Cursor DEF Laid
    <3> QED BY <3>1 DEF Behind
  <2>3. Laid(drawn, cursor_x - 8, cursor_y)
    BY <2>2, Cursor DEF Laid
  <2>4. CursorInColumns'
    BY <2>1, Cursor, ConsoleAssumption
       DEF Inv, CursorInColumns, InColumn, screen_usable_width, MARGIN
  <2> QED BY <2>1, <2>3, <2>4, Cursor DEF Inv, Inside
<1>7. CASE clean_screen \/ UNCHANGED vars
  BY <1>7 DEF clean_screen, vars, Inv, Inside, CursorInColumns, screen_usable_width
<1> QED BY <1>1, <1>2, <1>3, <1>4, <1>5, <1>6, <1>7 DEF Next

\* The unsigned column never passes the left margin, every glyph ends before the
\* right edge, and the cursor's row is never negative though the console scrolls
\* (console.cpp:45-58, 62-65).
THEOREM CursorKeepsColumns == Spec => []CursorInColumns
<1>1. Inv => CursorInColumns
  BY DEF Inv
<1> QED BY <1>1, Initially, Inductive, PTL DEF Spec

\* Text is readable on a screen of any size: lines stay ten rows apart though the
\* picture and the cursor are scrolled by eight (console.cpp:38-58, 62-65).
THEOREM TextReadable == Spec => []Readable
<1>1. Inv => Readable
  <2> SUFFICES ASSUME Inv PROVE GlyphsApart /\ CursorFree
    BY DEF Readable
  <2>1. GlyphsApart
    BY DEF Inv, Laid, GlyphsApart
  <2>2. ASSUME NEW c \in drawn
        PROVE  c.y + 8 <= cursor_y \/ (c.y <= cursor_y /\ c.x + 8 <= cursor_x)
    <3>1. c.x \in Int /\ c.y \in Int /\ Behind(c, cursor_x, cursor_y)
      BY Cursor DEF Laid
    <3> QED BY <3>1, Cursor DEF Behind
  <2> QED BY <2>1, <2>2 DEF CursorFree
<1> QED BY <1>1, Initially, Inductive, PTL DEF Spec
=============================================================================
