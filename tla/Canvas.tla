------------------------------- MODULE Canvas -------------------------------
(***************************************************************************)
(* The two places that are drawn on. The dashboard's thread                 *)
(* (src/tooling/tooling_nexus_main.c) collects pulses, draws its widgets    *)
(* (tooling_nexus_widgets.c) on a canvas of characters and sends the canvas *)
(* to the terminal (tooling_nexus_canvas.c). The surface of pixels          *)
(* (src/web/web_surface.c) is painted tile by tile                          *)
(* (src/web/web_raster_tiler.c) where the card table (src/core/memory.c)    *)
(* says it was written.                                                    *)
(***************************************************************************)
EXTENDS Integers, Sequences, FiniteSets, Folds, SequencesExt, TLC

CONSTANTS Terminals,   \* bound: the sizes of the terminal, <<columns, rows>>
          MaxColumns,  \* CANVAS_MAX_WIDTH
          MaxRows,     \* CANVAS_MAX_HEIGHT
          Widgets,     \* where the loop puts its widgets, from names to <<x, y, w, h>>
          Gauge,       \* 10: the cells of a tank
          MaxPulses,   \* bound: the pulses emitted
          PulseTypes,  \* bound: <<type, payload>>
          MaxRounds,   \* bound: the frames drawn
          Surfaces,    \* bound: <<width, height>> of the surfaces, in pixels
          LineAlign,   \* 64 bytes: what a row of pixels is rounded up to, in pixels
          TileSize,    \* WLD_TILE_SIZE
          Tiles,       \* WLD_TILES_X, WLD_TILES_Y
          CardPixels,  \* CARD_SIZE, in pixels
          Elements,    \* bound: the elements to paint
          Paints,      \* bound: colours
          MaxPaints    \* bound: clears and elements of a surface

ASSUME CanvasAssumption ==
  /\ MaxColumns \in Nat \ {0} /\ MaxRows \in Nat \ {0} /\ Gauge \in Nat
  /\ LineAlign \in Nat \ {0} /\ TileSize \in Nat \ {0} /\ CardPixels \in Nat \ {0}
  /\ Terminals \subseteq Nat \X Nat /\ Surfaces \subseteq Nat \X Nat /\ Tiles \in Nat \X Nat
  /\ Widgets \in [{"pages", "gauge", "tank"} -> Nat \X Nat \X Nat \X Nat]
  /\ \A el \in Elements : el.x \in Int /\ el.y \in Int /\ el.w \in Int /\ el.h \in Int

VARIABLES nexusRunning, thread, caller, \* the flag, the thread's step, what the main thread does
          bus, stats,                   \* pulses not collected, currentStats
          canvas, terminal, rounds      \* masterCanvas, what the terminal shows (external)

nexusVars == <<nexusRunning, thread, caller, bus, stats, canvas, terminal, rounds>>

VARIABLES surface, cards,               \* the surface's pixels, the dirty cards
          painted,                      \* the tiles rendered since the last clear (history)
          elements, counted, changes

surfaceVars == <<surface, cards, painted, elements, counted, changes>>

-----------------------------------------------------------------------------
Least(a, b) == IF a < b THEN a ELSE b
Most(a, b) == IF a < b THEN b ELSE a
EmptyCell == [char |-> " ", color |-> "default", bold |-> FALSE]
DefaultPen == [color |-> "default", bold |-> FALSE]
EmptyCanvas == [width |-> 0, height |-> 0, cell |-> <<>>]

\* db_canvas_clear: the canvas takes the size of the terminal, up to its own.
Cleared(size) ==
  LET w == Least(size[1], MaxColumns)
      h == Least(size[2], MaxRows)
  IN  [width |-> w, height |-> h, cell |-> [p \in (0 .. w - 1) \X (0 .. h - 1) |-> EmptyCell]]

Put(x, y, char, color, bold) == [at |-> <<x, y>>, cell |-> [char |-> char, color |-> color, bold |-> bold]]

\* db_canvas_put: what lies outside is left out.
db_canvas_put(c, put) ==
  IF put.at \in DOMAIN c.cell THEN [c EXCEPT !.cell[put.at] = put.cell] ELSE c

DrawText(x, y, text, color) == [i \in DOMAIN text |-> Put(x + i - 1, y, text[i], color, FALSE)]

\* draw_frame: the lines above and below, the ones at the sides, then the title.
Frame(x, y, w, h, title) ==
  FlattenSeq([i \in 1 .. w |-> <<Put(x + i - 1, y, "-", "gray", FALSE),
                                 Put(x + i - 1, y + h - 1, "-", "gray", FALSE)>>])
  \o FlattenSeq([i \in 1 .. h |-> <<Put(x, y + i - 1, "|", "gray", FALSE),
                                    Put(x + w - 1, y + i - 1, "|", "gray", FALSE)>>])
  \o DrawText(x + 2, y, title, "white")

\* db_widget_draw_pagemap: a pattern that shows no page
Sample(n) == CASE n = 1 -> <<"S", "cyan">> [] n = 2 -> <<"N", "magenta">>
               [] n = 3 -> <<"#", "red">>  [] OTHER -> <<".", "gray">>
PageMap(x, y, w, h) ==
  Frame(x, y, w, h, <<"P">>)
  \o FlattenSeq([r \in 1 .. Most(h - 2, 0) |->
       [c \in 1 .. Most(w - 2, 0) |->
         LET s == Sample(((r - 1) * (c - 1)) % 15) IN Put(x + c, y + r, s[1], s[2], FALSE)]])

\* db_widget_draw_neural_gauge: the lowest cells are lit, as many as the level says.
NeuralGauge(x, y, h, level, score) ==
  Frame(x, y, 4, h, <<"G">>)
  \o [i \in 1 .. Most(h - 4, 0) |->
       Put(x + 1, y + 1 + i, ">", IF i - 1 >= h - 4 - level THEN "cyan" ELSE "gray", TRUE)]
  \o DrawText(x + 2, y + h - 2, score, "yellow")

\* db_widget_draw_heaptank: of one tank, the cells that are full
HeapTank(x, y, filled) ==
  Frame(x, y, Gauge + 2, 3, <<"H">>)
  \o [i \in 1 .. Gauge |-> Put(x + i, y + 1, IF i <= filled THEN "=" ELSE " ", "green", TRUE)]

\* One round of drawing: the widgets in their order, the line of status last. The
\* tanks are always given the same two numbers.
Drawing(c, s) ==
  LET p == Widgets.pages g == Widgets.gauge t == Widgets.tank
  IN  PageMap(p[1], p[2], p[3], p[4])
      \o NeuralGauge(g[1], g[2], g[4], s.level, <<ToString(s.similarity)>>)
      \o HeapTank(t[1], t[2], Gauge \div 2)
      \o DrawText(2, c.height - 2, <<"R", ToString(s.reads), "W", ToString(s.writes)>>, "cyan")
Drawn(c, s) == FoldLeft(db_canvas_put, c, Drawing(c, s))

-----------------------------------------------------------------------------
\* What a terminal does with a frame (external): it starts at home with the pen it
\* has; a change of colour or weight in the canvas sends the colour's code, and the
\* code of bold when it is bold, and none to end it. A row's end behind the last row
\* of the terminal moves everything up.
Places(c) == [i \in 1 .. c.width * c.height |-> <<(i - 1) % c.width, (i - 1) \div c.width>>]

\* mutant: the code is sent when colour and weight have both changed
SendsWhenBoth(cell, last) == cell.color # last.color /\ cell.bold # last.bold

\* db_canvas_render: a code is sent where a cell differs from the one before.
Sends(cell, last) == cell.color # last.color \/ cell.bold # last.bold

\* The pen after the codes: colour zero is the code that resets everything.
Recolored(pen, cell) ==
  [color |-> cell.color,
   bold |-> cell.bold \/ (pen.bold /\ cell.color # "default")]

\* A cell is sent: what was sent of the last one, the pen, and what each place shows.
Printed(c, acc, p) ==
  LET cell == c.cell[p]
      now  == IF Sends(cell, acc.last) THEN Recolored(acc.pen, cell) ELSE acc.pen
      seen == [char |-> cell.char, color |-> now.color, bold |-> now.bold]
  IN  [last |-> [color |-> cell.color, bold |-> cell.bold], pen |-> now,
       shown |-> [q \in {p} \union DOMAIN acc.shown |-> IF q = p THEN seen ELSE acc.shown[q]]]

Sent(c, pen) ==
  FoldLeft(LAMBDA acc, p : Printed(c, acc, p),
           [last |-> DefaultPen, pen |-> pen, shown |-> <<>>], Places(c))

Rendered(term, c) ==
  LET sent   == Sent(c, term.pen)
      screen == [p \in DOMAIN term.screen |->
                   IF p \in DOMAIN sent.shown THEN sent.shown[p] ELSE term.screen[p]]
      bottom == term.size[2] - 1
      lost   == Most(0, c.height - bottom)
  IN  [term EXCEPT
         !.pen = sent.pen, !.opened = term.pen, !.showing = TRUE,
         !.screen = [p \in DOMAIN screen |->
                       IF p[2] + lost <= bottom THEN screen[<<p[1], p[2] + lost>>] ELSE EmptyCell]]

BlankScreen(size) == [p \in (0 .. size[1] - 1) \X (0 .. size[2] - 1) |-> EmptyCell]

-----------------------------------------------------------------------------
NoStats == [reads |-> 0, writes |-> 0, level |-> 0, similarity |-> 0, reclaimed |-> 0]

NexusInit ==
  /\ nexusRunning = FALSE /\ thread = "none" /\ caller = "free"
  /\ bus = <<>> /\ stats = NoStats /\ rounds = 0 /\ canvas = EmptyCanvas
  /\ \E size \in Terminals : terminal = [size |-> size, pen |-> DefaultPen, opened |-> DefaultPen,
                                     cursor |-> TRUE, showing |-> FALSE, screen |-> BlankScreen(size)]

\* walia_nexus_start empties the bus; the counts of an earlier thread stay.
walia_nexus_start ==
  /\ caller = "free" /\ ~nexusRunning
  /\ nexusRunning' = TRUE /\ bus' = <<>>
  /\ thread' = "init"
  /\ UNCHANGED <<caller, stats, canvas, terminal, rounds>>
\* pthread_create fails: the flag is taken back
StartFails == /\ caller = "free" /\ ~nexusRunning /\ bus' = <<>>
              /\ UNCHANGED <<nexusRunning, thread, caller, stats, canvas, terminal, rounds>>

\* walia_nexus_stop lowers the flag and waits for the thread.
walia_nexus_stop == /\ caller = "free" /\ nexusRunning
                    /\ nexusRunning' = FALSE /\ caller' = "joining"
                    /\ UNCHANGED <<thread, bus, stats, canvas, terminal, rounds>>
Join == /\ caller = "joining" /\ thread = "ended"
        /\ caller' = "free" /\ thread' = "none"
        /\ UNCHANGED <<nexusRunning, bus, stats, canvas, terminal, rounds>>

Pulse == /\ nexusRunning /\ Len(bus) < MaxPulses
         /\ \E pulse \in PulseTypes : bus' = Append(bus, pulse)
         /\ UNCHANGED <<nexusRunning, thread, caller, stats, canvas, terminal, rounds>>

\* db_canvas_init
InitTerminal == /\ thread = "init"
                /\ thread' = "top"
                /\ terminal' = [terminal EXCEPT !.cursor = FALSE, !.showing = FALSE,
                                               !.screen = BlankScreen(terminal.size)]
                /\ UNCHANGED <<nexusRunning, caller, bus, stats, canvas, rounds>>

Counted(s, pulse) ==
  CASE pulse[1] = "read" -> [s EXCEPT !.reads = @ + 1]
    [] pulse[1] = "write" -> [s EXCEPT !.writes = @ + 1]
    [] pulse[1] = "hop" -> [s EXCEPT !.level = pulse[2]]
    [] pulse[1] = "math" -> [s EXCEPT !.similarity = pulse[2]]
    [] pulse[1] = "sweep" -> [s EXCEPT !.reclaimed = @ + pulse[2]]
    [] OTHER -> s

\* One more turn of the loop: the flag is looked at here and nowhere else.
ProcessPulses == /\ thread = "top" /\ nexusRunning /\ rounds < MaxRounds
                 /\ stats' = FoldLeft(Counted, stats, bus) /\ bus' = <<>>
                 /\ thread' = "draw" /\ rounds' = rounds + 1
                 /\ UNCHANGED <<nexusRunning, caller, canvas, terminal>>

\* The clear asks for the size of the terminal; the widgets are drawn.
Draw == /\ thread = "draw"
        /\ canvas' = Drawn(Cleared(terminal.size), stats)
        /\ thread' = "render"
        /\ UNCHANGED <<nexusRunning, caller, bus, stats, terminal, rounds>>

\* The terminal's window is changed by its user between two frames.
Resize == /\ thread = "top"
          /\ \E size \in Terminals \ {terminal.size} :
               terminal' = [terminal EXCEPT !.size = size, !.screen = BlankScreen(size),
                                            !.showing = FALSE]
          /\ UNCHANGED <<nexusRunning, thread, caller, bus, stats, canvas, rounds>>

Render == /\ thread = "render"
          /\ terminal' = Rendered(terminal, canvas)
          /\ thread' = "top"
          /\ UNCHANGED <<nexusRunning, caller, bus, stats, canvas, rounds>>

\* db_canvas_shutdown
Shutdown == /\ thread = "top" /\ ~nexusRunning
            /\ thread' = "ended"
            /\ terminal' = [terminal EXCEPT !.pen = DefaultPen, !.cursor = TRUE]
            /\ UNCHANGED <<nexusRunning, caller, bus, stats, canvas, rounds>>

NexusNext == \/ walia_nexus_start \/ StartFails \/ walia_nexus_stop \/ Join \/ Pulse
             \/ InitTerminal \/ ProcessPulses \/ Draw \/ Resize \/ Render \/ Shutdown

\* The order in which the cells of a row and the rows are sent.
Before(p, q) == p[2] < q[2] \/ (p[2] = q[2] /\ p[1] <= q[1])
Plain(cell) == cell.color = "default" /\ ~cell.bold

\* The first cell that is not plain is where the first code of a frame is sent: from
\* there on the colour is the canvas's, before it the last frame's (opened, a history).
Begun(c, p) == \E q \in DOMAIN c.cell : Before(q, p) /\ ~Plain(c.cell[q])

\* Where the weight is set: bold is begun at each bold cell, and nothing ends it but the
\* code of colour zero.
Turns(c, p) ==
  {q \in DOMAIN c.cell : /\ Before(q, p)
                         /\ c.cell[q].bold \/ (c.cell[q].color = "default" /\ Begun(c, q))}

\* What is shown of a cell: its character; its colour, once the frame has begun; and not
\* its own weight but that of the last cell that set one.
LooksAs(c, opened, p, shown) ==
  /\ shown.char = c.cell[p].char
  /\ shown.color = IF Begun(c, p) THEN c.cell[p].color ELSE opened.color
  /\ Turns(c, p) = {} => shown.bold = opened.bold
  /\ \A q \in Turns(c, p) :
       (\A r \in Turns(c, p) : Before(r, q)) => shown.bold = c.cell[q].bold

FrameOn(term, c) ==
  LET lost == Most(0, c.height - (term.size[2] - 1))
  IN  \A p \in DOMAIN c.cell :
        p[2] >= lost => LooksAs(c, term.opened, p, term.screen[<<p[1], p[2] - lost>>])

\* A frame shows every character of the canvas, up to the first row when the canvas is
\* as high as the terminal, which the end of the last row moves out. The colours are as
\* drawn from the first cell on that is not plain, the cells before it keep the colour
\* and weight the last frame ended with (tooling_nexus_canvas.c:92). Bold is as drawn
\* only where it is on: boldCodes[false] is empty (tooling_nexus_canvas.c:29), so every
\* cell that is not bold is shown bold when it follows a bold one, in this frame or
\* in the last, with no cell of the default colour between them.
FrameShown == terminal.showing /\ thread # "render" => FrameOn(terminal, canvas)

\* Once the dashboard was stopped no thread draws, the cursor is back and what the
\* program prints next has the terminal's own colour.
TerminalRestored ==
  caller = "free" /\ ~nexusRunning =>
    thread = "none" /\ terminal.cursor /\ terminal.pen = DefaultPen

-----------------------------------------------------------------------------
\* walia_surface_new: rows are rounded up to the alignment.
Stride(width) == ((width + LineAlign - 1) \div LineAlign) * LineAlign
NewSurface(size) ==
  [width |-> size[1], height |-> size[2], stride |-> Stride(size[1]), hardware |-> FALSE,
   pixels |-> [a \in 0 .. Stride(size[1]) * size[2] - 1 |-> 0], clear |-> 0]

\* The card of a pixel; memory of the hardware has none.
CardOf(a) == a \div CardPixels
MarkCard(s, a) == IF s.hardware THEN {} ELSE {CardOf(a)}
IsCardDirty(s, a) == ~s.hardware /\ CardOf(a) \in cards

SurfaceInit == /\ \E size \in Surfaces : surface = NewSurface(size)
               /\ cards = {0} /\ painted = {} /\ elements = <<>> /\ counted = 0 /\ changes = 0

\* walia_surface_map_hardware: the pixels are the frame buffer's.
walia_surface_map_hardware ==
  /\ ~surface.hardware /\ changes < MaxPaints /\ changes' = changes + 1
  /\ \E p \in Paints : surface' = [surface EXCEPT
                         !.hardware = TRUE, !.clear = p,
                         !.pixels = [a \in DOMAIN @ |-> p]]
  /\ painted' = {}
  /\ UNCHANGED <<cards, elements, counted>>

\* walia_surface_clear: every pixel and the padding, but one card.
walia_surface_clear(color) ==
  /\ changes < MaxPaints /\ changes' = changes + 1
  /\ surface' = [surface EXCEPT !.pixels = [a \in DOMAIN @ |-> color], !.clear = color]
  /\ cards' = cards \cup MarkCard(surface, 0)
  /\ painted' = {}
  /\ UNCHANGED <<elements, counted>>

\* walia_element_new, and what the script sets in the element.
walia_element_new(el) == /\ changes < MaxPaints /\ changes' = changes + 1 /\ painted = {}
                         /\ elements' = Append(elements, el)
                         /\ UNCHANGED <<surface, cards, painted, counted>>

TileSet == (0 .. Tiles[1] - 1) \X (0 .. Tiles[2] - 1)

\* element_intersects_tile: a shared edge is enough.
Intersects(el, t) ==
  LET x1 == t[1] * TileSize y1 == t[2] * TileSize
  IN  ~ \/ el.x > x1 + TileSize \/ el.x + el.w < x1
        \/ el.y > y1 + TileSize \/ el.y + el.h < y1

\* The pixels of a tile that lie on the surface.
PixelsOf(t) ==
  {p \in (t[1] * TileSize .. t[1] * TileSize + TileSize - 1)
           \X (t[2] * TileSize .. t[2] * TileSize + TileSize - 1) :
     p[1] < surface.width /\ p[2] < surface.height}

Met(t) == {i \in DOMAIN elements : elements[i].visible /\ Intersects(elements[i], t)}
Address(p) == p[2] * surface.stride + p[1]

\* db_raster_render_tile: every element that meets the tile fills all of it, so the
\* last one is what remains.
db_raster_render_tile(t) ==
  /\ t \notin painted
  /\ LET addresses == {Address(p) : p \in PixelsOf(t)}
         met       == Met(t)
     IN  surface' = IF met = {} THEN surface
                    ELSE LET last == CHOOSE i \in met : \A j \in met : j <= i
                         IN  [surface EXCEPT !.pixels =
                                [a \in DOMAIN @ |-> IF a \in addresses THEN elements[last].color ELSE @[a]]]
  /\ painted' = painted \cup {t}
  /\ UNCHANGED <<cards, elements, counted, changes>>

\* db_raster_process_surface: the tiles whose first pixel lies in a dirty card are
\* counted; their tasks reach no worker, and the cards are cleared.
db_raster_process_surface ==
  LET first(t) == t[2] * TileSize * surface.stride + t[1] * TileSize
      dirty == {t \in TileSet : IsCardDirty(surface, first(t))}
  IN  /\ counted' = Cardinality(dirty)
      /\ cards' = IF dirty = {} THEN cards ELSE {}
      /\ UNCHANGED <<surface, painted, elements, changes>>

SurfaceNext ==
  \/ walia_surface_map_hardware
  \/ \E p \in Paints : walia_surface_clear(p)
  \/ \E el \in Elements : walia_element_new(el)
  \/ \E t \in TileSet : db_raster_render_tile(t)
  \/ db_raster_process_surface

\* Tiles may be painted in any order, or at once by several workers: each writes its
\* own pixels only, never the padding between two rows, and a pixel inside a visible
\* element shows that element or one that came after it.
Inside(p, el) == /\ el.visible /\ p[1] >= el.x /\ p[1] < el.x + el.w
                 /\ p[2] >= el.y /\ p[2] < el.y + el.h
TilesApart ==
  LET tileOf(p) == <<p[1] \div TileSize, p[2] \div TileSize>>
  IN  \A x \in 0 .. surface.stride - 1, y \in 0 .. surface.height - 1 :
        LET p == <<x, y>> seen == surface.pixels[Address(p)]
        IN  IF x >= surface.width \/ tileOf(p) \notin painted
            THEN seen = surface.clear
            ELSE \A i \in DOMAIN elements : Inside(p, elements[i]) =>
                   \E j \in DOMAIN elements : j >= i /\ seen = elements[j].color

\* What is drawn is what is seen (each stated above).
DrawnAsSeen == FrameShown /\ TerminalRestored /\ TilesApart
=============================================================================
