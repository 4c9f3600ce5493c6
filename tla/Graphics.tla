------------------------------ MODULE Graphics ------------------------------
(***************************************************************************)
(* The drawing primitives of kernel/graphics.c on the back buffer, a       *)
(* linear array, and the copy to the frame buffer, a memory with its own   *)
(* distance between rows.  Arguments are what the callers mean (signed);   *)
(* the primitives take them modulo Word, which is 2^32, and every sum on   *)
(* them wraps.  A loop that paints a set of pixels is one step; the line,  *)
(* whose loop might not end, is drawn a step per iteration (Line).         *)
(*                                                                         *)
(* A colour is one 8-bit channel, since the three are computed alike.      *)
(* request and calls are not in the code: they hold the last call and how  *)
(* many there were.  overrun says that a store missed the back buffer;     *)
(* what happens after that is not modelled.                                *)
(***************************************************************************)
EXTENDS Line, Sequences, FiniteSets

CONSTANTS
  Word, Byte,                 (* 2^32 and 2^8                               *)
  BACKBUFFER_PIXELS,          (* MAX_BACKBUFFER_SIZE / 4                    *)
  Modes, FALLBACK,            (* the modes the boot loader may report, and the one without *)
  FONT_WIDTH, FONT_HEIGHT,
  Glyph,                      (* the points of each character that are set  *)
  Coordinates, Lengths,       (* positions and sizes callers pass           *)
  Colors, Texts,
  ICON_WIDTH, Names,          (* of desktop icons                           *)
  MaxCalls                    (* bound: how many calls are made             *)

Byte4 == 4   \* bytes in a pixel
NEWLINE == 10
Mode == [width : 1 .. Word - 1, height : 1 .. Word - 1, pitch : 0 .. Word - 1]

ASSUME GraphicsAssumption ==
  /\ Word \in Nat /\ Byte \in Nat \ {0} /\ Byte <= Word
  /\ BACKBUFFER_PIXELS \in 0 .. Word
  /\ Modes \cup {FALLBACK} \subseteq Mode
  /\ FONT_WIDTH \in Nat /\ FONT_HEIGHT \in Nat
  /\ Coordinates \subseteq Int /\ Lengths \subseteq 1 .. Word - 1
  /\ Colors \subseteq 0 .. Byte - 1 /\ ICON_WIDTH \in 0 .. Word - 1
  /\ MaxCalls \in Nat

CharCells == (0 .. FONT_WIDTH - 1) \X (0 .. FONT_HEIGHT - 1)

(* A word has room for what is drawn: a screen's pixels and its frame      *)
(* buffer lie in the address space, and no screen, position, size or text  *)
(* comes near half a word.                                                 *)
(* Glyphs are as large as the font has them, and none is drawn for the     *)
(* character that ends a line.                                             *)
ASSUME RangeAssumption ==
  /\ \A m \in Modes \cup {FALLBACK} :
       /\ m.width <= Word \div 8 /\ m.height <= Word \div 8
       /\ Byte4 * (m.width * m.height) <= Word /\ Byte * m.height <= Word
       /\ m.height * m.pitch <= Word
  /\ Coordinates \subseteq -(Word \div 8) .. Word \div 8
  /\ Lengths \subseteq 1 .. Word \div 8 /\ ICON_WIDTH <= Word \div 8
  /\ 2 * FONT_WIDTH <= Word \div 8 /\ 2 * FONT_HEIGHT <= Word \div 8
  /\ \A s \in Texts \cup Names :
       /\ s \in Seq(DOMAIN Glyph \cup {NEWLINE})
       /\ FONT_WIDTH * (Len(s) + 1) <= Word \div 8
       /\ FONT_HEIGHT * (Len(s) + 1) <= Word \div 8
  /\ \A c \in DOMAIN Glyph : Glyph[c] \subseteq CharCells
  /\ NEWLINE \notin DOMAIN Glyph

VARIABLES
  mode,           (* fb_width, fb_height and fb_pitch   *)
  backbuffer,
  framebuffer,    (* byte by byte: part i of a pixel's colour *)
  overrun, request, calls

vars == <<line_vars, mode, backbuffer, framebuffer, overrun, request, calls>>

fb_width == mode.width
fb_height == mode.height
Cells == 0 .. BACKBUFFER_PIXELS - 1

U32(n) == n % Word
U8(n) == n % Byte

-----------------------------------------------------------------------------
(* Stores *)

Index(p) == U32(p[2] * fb_width + p[1])

(* Store an image, a colour for each pixel of a set *)
Paint(image) ==
  LET at(i) == {p \in DOMAIN image : Index(p) = i} IN
  /\ backbuffer' = [i \in Cells |-> IF at(i) = {} THEN backbuffer[i]
                                    ELSE image[CHOOSE p \in at(i) : TRUE]]
  /\ overrun' = (overrun \/ \E p \in DOMAIN image : Index(p) \notin Cells)

Visible == (0 .. fb_width - 1) \X (0 .. fb_height - 1)

(* Mutant: the size of the screen is taken for its last column and row *)
Clipped_Inclusive(S) == S \cap ((0 .. fb_width) \X (0 .. fb_height))

Clipped(S) == S \cap Visible

(* for (n = a; n < a + length && n < limit; n++) *)
Span(a, length, limit) == {n \in a .. limit - 1 : n < U32(a + length)}

graphics_put_pixel(x, y, color) ==
  Paint([p \in Clipped({<<U32(x), U32(y)>>}) |-> color])

graphics_get_pixel(x, y) ==
  IF <<x, y>> \in Visible THEN backbuffer[Index(<<x, y>>)] ELSE 0

graphics_fill_rect(x, y, width, height, color) ==
  LET X == Span(U32(x), width, fb_width)
      Y == Span(U32(y), height, fb_height)
  IN  Paint([p \in X \X Y |-> color])

graphics_draw_rect(x, y, width, height, color) ==
  LET X == Span(U32(x), width, fb_width)
      Y == Span(U32(y), height, fb_height)
      rows == {n \in {U32(y), U32(y + height - 1)} : n < fb_height}
      columns == {n \in {U32(x), U32(x + width - 1)} : n < fb_width}
  IN  Paint([p \in (X \X rows) \cup (columns \X Y) |-> color])

(* One channel: the difference, the product and the quotient are unsigned *)
lerp_color(c1, c2, t, max) == U8(c1 + U32(U32(c2 - c1) * t) \div max)

(* Mutant: the colour is computed from the row of the screen *)
graphics_fill_gradient_v_ByScreenRow(x, y, width, height, top, bottom) ==
  LET X == Span(U32(x), width, fb_width)
      Y == {py \in 0 .. height - 1 : \A n \in 0 .. py : U32(y + n) < fb_height}
  IN  Paint([p \in X \X {U32(y + py) : py \in Y} |->
               lerp_color(top, bottom, p[2], height)])

graphics_fill_gradient_v(x, y, width, height, top, bottom) ==
  LET X == Span(U32(x), width, fb_width)
      Y == {py \in 0 .. height - 1 : \A n \in 0 .. py : U32(y + n) < fb_height}
  IN  Paint([p \in X \X {U32(y + py) : py \in Y} |->
               lerp_color(top, bottom, U32(p[2] - y), height)])

-----------------------------------------------------------------------------
(* Text *)

(* font_get_char, as a set of points *)
font_get_char(c) == Glyph[c]

At(S, o) == {<<U32(o[1] + p[1]), U32(o[2] + p[2])>> : p \in S}

(* The variables cx and y of the loop before each character *)
Pens(x, y, s) ==
  LET pen[k \in 1 .. Len(s) + 1] ==
        IF k = 1 THEN <<U32(x), U32(y)>>
        ELSE IF s[k - 1] = NEWLINE THEN <<U32(x), U32(pen[k - 1][2] + FONT_HEIGHT)>>
        ELSE <<U32(pen[k - 1][1] + FONT_WIDTH), pen[k - 1][2]>>
  IN  pen

Drawn(s) == {k \in 1 .. Len(s) : s[k] # NEWLINE}

graphics_draw_char(x, y, c, fg, bg) ==
  LET ink == At(font_get_char(c), <<U32(x), U32(y)>>)
  IN  Paint([p \in Clipped(At(CharCells, <<U32(x), U32(y)>>)) |->
               IF p \in ink THEN fg ELSE bg])

InkOf(x, y, s) == UNION {At(font_get_char(s[k]), Pens(x, y, s)[k]) : k \in Drawn(s)}
CellsOf(x, y, s) == UNION {At(CharCells, Pens(x, y, s)[k]) : k \in Drawn(s)}

graphics_draw_string(x, y, s, fg, bg) ==
  LET ink == InkOf(x, y, s)
  IN  Paint([p \in Clipped(CellsOf(x, y, s)) |-> IF p \in ink THEN fg ELSE bg])

graphics_draw_string_transparent(x, y, s, fg) ==
  Paint([p \in Clipped(InkOf(x, y, s)) |-> fg])

(* draw_desktop_icon centres a name below its icon: the length of the text *)
(* is unsigned, and so is the room it leaves                               *)
text_x(x, s) == U32(x + U32(ICON_WIDTH - FONT_WIDTH * Len(s)) \div 2)

-----------------------------------------------------------------------------
(* Whole buffers *)

Filled(color) == [i \in Cells |-> IF i < U32(fb_width * fb_height) THEN color
                                  ELSE backbuffer[i]]

graphics_clear(color) ==
  /\ backbuffer' = Filled(color)
  /\ overrun' = (overrun \/ U32(fb_width * fb_height) > BACKBUFFER_PIXELS)

FrameBytes(m) == 0 .. (m.height - 1) * m.pitch + Byte4 * m.width - 1

(* Mutant: the rows of the frame buffer are taken to be adjacent *)
RowStart_Adjacent(y) == y * fb_width * Byte4

(* Where memcpy puts row y.  When the rows are adjacent in both memories   *)
(* one memcpy puts all of them, at the same places.                        *)
RowStart(y) == U32(y * mode.pitch)

(* The rows that are put over byte a, of which the last one stays *)
RowsOver(a) == {y \in 0 .. fb_height - 1 :
                  a - RowStart(y) \in 0 .. Byte4 * fb_width - 1}
LastRow(a) == CHOOSE y \in RowsOver(a) : \A z \in RowsOver(a) : z <= y

(* The byte of the back buffer that ends up at byte a *)
SourceByte(a) == LastRow(a) * fb_width * Byte4 + (a - RowStart(LastRow(a)))

graphics_swap_buffers ==
  /\ framebuffer' =
       [a \in FrameBytes(mode) |->
          IF RowsOver(a) # {} THEN [color |-> backbuffer[SourceByte(a) \div Byte4],
                              part |-> SourceByte(a) % Byte4]
          ELSE framebuffer[a]]
  /\ UNCHANGED <<backbuffer, overrun>>

Black == 0

(* graphics_init, with or without frame buffer information, clears the screen *)
graphics_init ==
  /\ mode \in Modes \cup {FALLBACK}
  /\ backbuffer = [i \in Cells |-> Black]
  /\ overrun = (U32(fb_width * fb_height) > BACKBUFFER_PIXELS)
  /\ framebuffer = [a \in FrameBytes(mode) |-> [color |-> Black, part |-> 0]]

-----------------------------------------------------------------------------
(* The calls *)

Init ==
  /\ LineInit
  /\ graphics_init
  /\ request = [op |-> "none"] /\ calls = 0

Call(r) ==
  /\ ~drawing /\ ~overrun /\ calls < MaxCalls
  /\ calls' = calls + 1 /\ request' = r
  /\ UNCHANGED mode

PutPixel ==
  \E x, y \in Coordinates, c \in Colors :
    /\ Call([op |-> "pixel", x |-> x, y |-> y, color |-> c])
    /\ graphics_put_pixel(x, y, c)
    /\ UNCHANGED <<line_vars, framebuffer>>

FillRect ==
  \E x, y \in Coordinates, w, h \in Lengths, c \in Colors :
    /\ Call([op |-> "rectangle", x |-> x, y |-> y, w |-> w, h |-> h, color |-> c])
    /\ graphics_fill_rect(x, y, w, h, c)
    /\ UNCHANGED <<line_vars, framebuffer>>

DrawRect ==
  \E x, y \in Coordinates, w, h \in Lengths, c \in Colors :
    /\ Call([op |-> "frame", x |-> x, y |-> y, w |-> w, h |-> h, color |-> c])
    /\ graphics_draw_rect(x, y, w, h, c)
    /\ UNCHANGED <<line_vars, framebuffer>>

FillGradient ==
  \E x, y \in Coordinates, w, h \in Lengths, c, d \in Colors :
    /\ Call([op |-> "gradient", x |-> x, y |-> y, w |-> w, h |-> h,
             color |-> c, bottom |-> d])
    /\ graphics_fill_gradient_v(x, y, w, h, c, d)
    /\ UNCHANGED <<line_vars, framebuffer>>

TextRequest(x, y, s, c, opaque, d) ==
  [op |-> "text", x |-> x, y |-> y, text |-> s, color |-> c,
   opaque |-> opaque, paper |-> d]

DrawChar ==
  \E x, y \in Coordinates, char \in DOMAIN Glyph, c, d \in Colors :
    /\ Call(TextRequest(x, y, <<char>>, c, TRUE, d))
    /\ graphics_draw_char(x, y, char, c, d)
    /\ UNCHANGED <<line_vars, framebuffer>>

DrawString ==
  \E x, y \in Coordinates, s \in Texts, c, d \in Colors :
    /\ Call(TextRequest(x, y, s, c, TRUE, d))
    /\ graphics_draw_string(x, y, s, c, d)
    /\ UNCHANGED <<line_vars, framebuffer>>

DrawStringTransparent ==
  \E x, y \in Coordinates, s \in Texts, c \in Colors :
    /\ Call(TextRequest(x, y, s, c, FALSE, c))
    /\ graphics_draw_string_transparent(x, y, s, c)
    /\ UNCHANGED <<line_vars, framebuffer>>

DrawLabel ==
  \E x, y \in Coordinates, s \in Names, c \in Colors :
    /\ Call([op |-> "label", x |-> x, y |-> y, w |-> ICON_WIDTH, text |-> s,
             color |-> c, opaque |-> FALSE, paper |-> c])
    /\ graphics_draw_string_transparent(text_x(x, s), y, s, c)
    /\ UNCHANGED <<line_vars, framebuffer>>

ClearScreen ==
  \E c \in Colors :
    /\ Call([op |-> "clear", color |-> c])
    /\ graphics_clear(c)
    /\ UNCHANGED <<line_vars, framebuffer>>

SwapBuffers ==
  /\ Call([op |-> "show"])
  /\ graphics_swap_buffers
  /\ UNCHANGED line_vars

BeginLine ==
  \E p, q \in Ends, c \in Colors :
    /\ Call([op |-> "line", from |-> p, to |-> q, color |-> c])
    /\ Begin(p, q)
    /\ UNCHANGED <<backbuffer, framebuffer, overrun>>

(* One iteration of the loop: the point, if it is on the screen, and a step *)
PlotPoint ==
  /\ drawing
  /\ Paint([p \in Clipped({pos}) |-> request.color])
  /\ Advance \/ Finish
  /\ UNCHANGED <<mode, framebuffer, request, calls>>

Next == PutPixel \/ FillRect \/ DrawRect \/ FillGradient \/ DrawChar
          \/ DrawString \/ DrawStringTransparent \/ DrawLabel \/ ClearScreen
          \/ SwapBuffers \/ BeginLine \/ PlotPoint

(* Nothing else runs while a line is drawn, but for interrupts that return *)
Spec == Init /\ [][Next]_vars /\ WF_vars(PlotPoint)

-----------------------------------------------------------------------------
(* Properties *)

Fits(m) == m.width * m.height <= BACKBUFFER_PIXELS

(* The types of the variables; a mode that fits keeps the screen inside    *)
(* the back buffer.                                                        *)
TypeOK ==
  /\ mode \in Mode
  /\ backbuffer \in [Cells -> 0 .. Byte - 1]
  /\ overrun \in BOOLEAN /\ calls \in 0 .. MaxCalls

(* No primitive, whatever position and size it is given, negative and      *)
(* wrapped ones included, stores outside the back buffer, provided the     *)
(* mode fits in it, which graphics_init does not test.                     *)
StaysInBackBuffer == Fits(mode) => ~overrun

(* The back buffer, read as graphics_get_pixel reads it.  (With no picture *)
(* to show, black.)                                                        *)
picture == [p \in Visible |-> IF overrun THEN Black
                              ELSE graphics_get_pixel(p[1], p[2])]
C == INSTANCE Canvas
       WITH Color <- 0 .. Byte - 1, FontWidth <- FONT_WIDTH, FontHeight <- FONT_HEIGHT,
            Lit <- font_get_char, LineFeed <- NEWLINE

(* The two calls whose result is not what was asked for, and all that is   *)
(* true of it: a label wider than its icon is not drawn at all, and a      *)
(* gradient to a lower value fills its box with stripes of any colours.    *)
LabelMissing(r) ==
  r.op = "label" /\ r.w < FONT_WIDTH * Len(r.text) /\ picture' = picture
FallingStripes(r) == r.op = "gradient" /\ r.bottom < r.color /\ C!Stripes(r)
Misdrawn == LabelMissing(request') \/ FallingStripes(request')

(* Every call but these two changes the back buffer into the picture its   *)
(* request describes: no primitive reaches a pixel it is not asked to, on  *)
(* another row in particular.                                              *)
ImplementsCanvas == C!Init /\ [][C!Next \/ Misdrawn]_(C!vars)

(* gui.c:127, "Draw label (centered below icon)", and graphics.c:143,      *)
(* "Helper to interpolate colors for gradient": the name of an icon, long  *)
(* or short, is drawn with its middle at the middle of the icon, and the   *)
(* rows of a gradient lead from its first colour towards its second.       *)
LabelsAndGradientsAsAsked ==
  [][/\ DrawLabel => C!Label(request')
     /\ FillGradient => C!Gradient(request')]_vars

(* What the frame buffer shows after a copy is the picture, wherever its   *)
(* rows begin: at a pixel's place are the four parts of that pixel.        *)
Shows(p, a) ==
  \A i \in 0 .. Byte4 - 1 :
    framebuffer[a + i] = [color |-> graphics_get_pixel(p[1], p[2]), part |-> i]
SwapShowsPicture ==
  [][SwapBuffers /\ mode.pitch >= fb_width * Byte4 =>
       \A p \in Visible : Shows(p, p[2] * mode.pitch + p[1] * Byte4)']_vars
=============================================================================
