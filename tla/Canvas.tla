------------------------------- MODULE Canvas -------------------------------
(***************************************************************************)
(* What the drawing primitives of kernel/graphics.c promise: a picture,    *)
(* as a colour for each point of the screen, and requests with signed      *)
(* coordinates.  There are no buffer indices, no loops and no 32-bit       *)
(* words.  What the comments of the code say is promised in full: a        *)
(* gradient interpolates between its colours (graphics.c:143), a label is  *)
(* centred (gui.c:127).  Of what begins left of the screen or above it     *)
(* they say nothing: it is not drawn, and of a frame some edges may be.    *)
(***************************************************************************)
EXTENDS Integers, Sequences, FiniteSets

CONSTANTS
  Color,                    (* the colours a pixel may have          *)
  FontWidth, FontHeight,
  Lit(_),                   (* the points of a character's glyph     *)
  LineFeed                  (* the character that ends a line        *)

VARIABLES
  picture,    (* [Screen -> Color] *)
  request     (* the last request  *)

vars == <<picture, request>>

Screen == DOMAIN picture

Box(r) == {p \in Screen : /\ p[1] \in r.x .. r.x + r.w - 1
                          /\ p[2] \in r.y .. r.y + r.h - 1}
Edges(r) == {p \in Box(r) : \/ p[1] \in {r.x, r.x + r.w - 1}
                            \/ p[2] \in {r.y, r.y + r.h - 1}}
OnScreen(r) == r.x >= 0 /\ r.y >= 0
Filled(r) == IF OnScreen(r) THEN Box(r) ELSE {}

PaintExactly(S, c) == picture' = [p \in Screen |-> IF p \in S THEN c ELSE picture[p]]
Keeps(S) == DOMAIN picture' = Screen /\ \A p \in S : picture'[p] = picture[p]

Pixel(r) == PaintExactly({<<r.x, r.y>>}, r.color)

Rectangle(r) == PaintExactly(Filled(r), r.color)

Frame(r) ==
  /\ Keeps(Screen \ Edges(r))
  /\ \A p \in Edges(r) : \/ picture'[p] = r.color
                         \/ ~OnScreen(r) /\ picture'[p] = picture[p]

Between(n, a, b) == n \in a .. b \/ n \in b .. a

(* Rows of one colour, the first of them in the first colour *)
Stripes(r) ==
  /\ Keeps(Screen \ Filled(r))
  /\ \A p \in Filled(r) : /\ picture'[p] \in Color
                          /\ p[2] = r.y => picture'[p] = r.color
  /\ \A p, q \in Filled(r) : p[2] = q[2] => picture'[p] = picture'[q]

(* Stripes that never pass the second colour and never turn back on the    *)
(* way to it, be it higher or lower                                        *)
Gradient(r) ==
  /\ Stripes(r)
  /\ \A p \in Filled(r) :
       /\ Between(picture'[p], r.color, r.bottom)
       /\ \A q \in Filled(r) :
            p[2] <= q[2] => Between(picture'[p], r.color, picture'[q])

(* Where the k-th character of a text stands *)
LineStart(s, k) ==
  CHOOSE j \in 0 .. k - 1 : /\ j = 0 \/ s[j] = LineFeed
                            /\ \A i \in j + 1 .. k - 1 : s[i] # LineFeed
LineNo(s, k) == Cardinality({j \in 1 .. k - 1 : s[j] = LineFeed})
Corner(r, k) == <<r.x + FontWidth * (k - 1 - LineStart(r.text, k)),
                  r.y + FontHeight * LineNo(r.text, k)>>

Shifted(S, o) == {<<p[1] + o[1], p[2] + o[2]>> : p \in S}
Printed(r) == {k \in 1 .. Len(r.text) : r.text[k] # LineFeed}
Ink(r) == UNION {Shifted(Lit(r.text[k]), Corner(r, k)) : k \in Printed(r)}
Paper(r) ==
  UNION {Shifted((0 .. FontWidth - 1) \X (0 .. FontHeight - 1), Corner(r, k))
           : k \in Printed(r)}

Text(r) ==
  picture' = [p \in Screen |-> IF p \in Ink(r) THEN r.color
                               ELSE IF p \in Paper(r) /\ r.opaque THEN r.paper
                               ELSE picture[p]]

(* A text in the middle of the width it is given, or across it *)
Label(r) == Text([r EXCEPT !.x = @ + (r.w - FontWidth * Len(r.text)) \div 2])

Clear(r) == PaintExactly(Screen, r.color)

Effect(r) ==
  \/ r.op = "pixel" /\ Pixel(r)
  \/ r.op = "rectangle" /\ Rectangle(r)
  \/ r.op = "frame" /\ Frame(r)
  \/ r.op = "gradient" /\ Gradient(r)
  \/ r.op = "text" /\ Text(r)
  \/ r.op = "label" /\ Label(r)
  \/ r.op = "clear" /\ Clear(r)
  \/ r.op \in {"line", "show"} /\ UNCHANGED picture

(* While a line is drawn, a point in the box of its ends changes *)
Stroke ==
  /\ request.op = "line" /\ UNCHANGED request
  /\ \E p \in Screen :
       /\ Between(p[1], request.from[1], request.to[1])
       /\ Between(p[2], request.from[2], request.to[2])
       /\ PaintExactly({p}, request.color)

(* A screen of any size, in one colour *)
Init ==
  /\ request = [op |-> "none"]
  /\ \A p, q \in Screen : picture[p] = picture[q]

Next == Effect(request') \/ Stroke

Spec == Init /\ [][Next]_vars
=============================================================================
