------------------------------ MODULE TftShapes ------------------------------
(***************************************************************************)
(* The shapes of TFT/src/utility/Adafruit_GFX.cpp as the display of        *)
(* Adafruit_ST7735.cpp shows them: which pixels the integer algorithms     *)
(* set.  A sketch draws shapes onto a cleared screen, one at a time, with  *)
(* its outline, its area or both; they may reach over the right and the    *)
(* lower edge.  Colours, text and images are left out.                     *)
(***************************************************************************)
EXTENDS Integers, Sequences, FiniteSets, FiniteSetsExt

CONSTANTS WIDTH, HEIGHT,
          Corners,      \* coordinates of corners and ends, also beyond the screen
          Centres, Radii,
          SHORT         \* the first number a 16-bit integer does not hold

ASSUME TftAssumption == /\ WIDTH \in Nat \ {0} /\ HEIGHT \in Nat \ {0} /\ SHORT \in Nat
                        /\ Corners \cup Centres \cup Radii \subseteq Nat
                        \* No sum of two coordinates, and no error term, leaves its 16 bits.
                        /\ \A n \in Corners \cup Centres \cup Radii : 2 * n + 3 < SHORT

VARIABLES shape,               \* what was drawn last, <<>> on a cleared screen
          outline, area        \* the pixels of stroke and of fill
tftVars == <<shape, outline, area>>

Screen == (0 .. WIDTH - 1) \X (0 .. HEIGHT - 1)
Points == Corners \X Corners
Magnitude(n) == IF n < 0 THEN -n ELSE n
Trunc(a, b) == IF (a >= 0) = (b >= 0) THEN Magnitude(a) \div Magnitude(b) ELSE -(Magnitude(a) \div Magnitude(b))

\* drawFastHLine, drawFastVLine, fillRect, for lengths that are not negative
HLine(x, y, w) == (x .. x + w - 1) \X {y}
VLine(x, y, h) == {x} \X (y .. y + h - 1)
Block(x, y, w, h) == (x .. x + w - 1) \X (y .. y + h - 1)

-----------------------------------------------------------------------------
\* drawLine(): the row and its error, column after column
NextRow(l, dx, dy, ystep) == IF l.err >= dy THEN [l EXCEPT !.err = l.err - dy]
                             ELSE [y |-> l.y + ystep, err |-> l.err - dy + dx]
Rows(y0, dx, dy, ystep) ==
    LET at[k \in 0 .. dx] == IF k = 0 THEN [y |-> y0, err |-> dx \div 2] ELSE NextRow(at[k - 1], dx, dy, ystep)
    IN at
DrawLine(p, q) ==
    LET steep == Magnitude(q[2] - p[2]) > Magnitude(q[1] - p[1])
        Turned(r) == IF steep THEN <<r[2], r[1]>> ELSE r
        from == IF Turned(p)[1] > Turned(q)[1] THEN Turned(q) ELSE Turned(p)
        to == IF Turned(p)[1] > Turned(q)[1] THEN Turned(p) ELSE Turned(q)
        dx == to[1] - from[1]
        rows == Rows(from[2], dx, Magnitude(to[2] - from[2]), IF from[2] < to[2] THEN 1 ELSE -1)
    IN {Turned(<<from[1] + k, rows[k].y>>) : k \in 0 .. dx}

\* line(): a horizontal or vertical one has the length of the difference.
LinePixels(p, q) ==
    IF p[1] = q[1] THEN VLine(p[1], Min({p[2], q[2]}), Magnitude(p[2] - q[2]))
    ELSE IF p[2] = q[2] THEN HLine(Min({p[1], q[1]}), p[2], Magnitude(p[1] - q[1]))
    ELSE DrawLine(p, q)

DrawTriangle(p, q, r) == DrawLine(p, q) \cup DrawLine(q, r) \cup DrawLine(r, p)

\* fillTriangle(): the corners from the top to the bottom by three swaps, then a row at a
\* time between the long side and one of the two others
Upper(a, b) == IF a[2] > b[2] THEN b ELSE a
Lower(a, b) == IF a[2] > b[2] THEN a ELSE b
Crossing(u, v, y) == u[1] + Trunc((v[1] - u[1]) * (y - u[2]), v[2] - u[2])
FillTriangle(p, q, r) ==
    LET first == Upper(p, q)
        second == Upper(Lower(p, q), r)
        top == Upper(first, second)
        middle == Lower(first, second)
        bottom == Lower(Lower(p, q), r)
        xs == {top[1], middle[1], bottom[1]}
        last == IF middle[2] = bottom[2] THEN middle[2] ELSE middle[2] - 1
        Row(y, a, b) == HLine(Min({a, b}), y, Magnitude(b - a) + 1)
    IN IF top[2] = bottom[2] THEN HLine(Min(xs), top[2], Max(xs) - Min(xs) + 1)
       ELSE UNION {Row(y, IF y <= last THEN Crossing(top, middle, y) ELSE Crossing(middle, bottom, y),
                       Crossing(top, bottom, y)) : y \in top[2] .. bottom[2]}

-----------------------------------------------------------------------------
\* The points of an eighth of a circle, as drawCircle() and its helpers compute them
NextStep(l) == LET y == IF l.f >= 0 THEN l.y - 1 ELSE l.y
               IN [x |-> l.x + 1, y |-> y, f |-> l.f - (IF l.f >= 0 THEN 2 * y ELSE 0) + 2 * l.x + 3]
Steps(r) == LET at[k \in 0 .. r] == IF k = 0 THEN [x |-> 0, y |-> r, f |-> 1 - r] ELSE NextStep(at[k - 1])
            IN at
Eighth(r) == LET at == Steps(r)
             IN {at[k] : k \in {k \in 1 .. r : at[k - 1].x < at[k - 1].y}}
Quarter(r) == UNION {{<<e.x, e.y>>, <<e.y, e.x>>} : e \in Eighth(r)}

DrawCircle(x0, y0, r) ==
    {<<x0, y0 + r>>, <<x0, y0 - r>>, <<x0 + r, y0>>, <<x0 - r, y0>>}
        \cup {<<x0 + sx * d[1], y0 + sy * d[2]>> : sx \in {-1, 1}, sy \in {-1, 1}, d \in Quarter(r)}
\* drawCircleHelper() of one corner; sx, sy: to which side it opens
DrawCircleHelper(x0, y0, r, sx, sy) == {<<x0 + sx * d[1], y0 + sy * d[2]>> : d \in Quarter(r)}
FillCircleHelper(x0, y0, r, sides, delta) ==
    UNION {VLine(x0 + s * d[1], y0 - d[2], 2 * d[2] + 1 + delta) : s \in sides, d \in Quarter(r)}
FillCircle(x0, y0, r) == VLine(x0, y0 - r, 2 * r + 1) \cup FillCircleHelper(x0, y0, r, {-1, 1}, 0)

DrawRoundRect(x, y, w, h, r) ==
    UNION {HLine(x + r, y, w - 2 * r), HLine(x + r, y + h - 1, w - 2 * r),
           VLine(x, y + r, h - 2 * r), VLine(x + w - 1, y + r, h - 2 * r),
           DrawCircleHelper(x + r, y + r, r, -1, -1), DrawCircleHelper(x + w - r - 1, y + r, r, 1, -1),
           DrawCircleHelper(x + w - r - 1, y + h - r - 1, r, 1, 1), DrawCircleHelper(x + r, y + h - r - 1, r, -1, 1)}
\* Mutant: the sides of the corners reach a pixel too far.
FillRoundRectLong(x, y, w, h, r) ==
    UNION {Block(x + r, y, w - 2 * r, h),
           FillCircleHelper(x + w - r - 1, y + r, r, {1}, h - 2 * r),
           FillCircleHelper(x + r, y + r, r, {-1}, h - 2 * r)}
FillRoundRect(x, y, w, h, r) ==
    UNION {Block(x + r, y, w - 2 * r, h),
           FillCircleHelper(x + w - r - 1, y + r, r, {1}, h - 2 * r - 1),
           FillCircleHelper(x + r, y + r, r, {-1}, h - 2 * r - 1)}
DrawRect(x, y, w, h) == UNION {HLine(x, y, w), HLine(x, y + h - 1, w), VLine(x, y, h), VLine(x + w - 1, y, h)}

-----------------------------------------------------------------------------
TftInit == shape = <<>> /\ outline = {} /\ area = {}

\* The pixels beyond the right and the lower edge are clipped.
Shows(what, drawn, filled) == shape' = what /\ outline' = drawn \cap Screen /\ area' = filled \cap Screen
\* The products of fillTriangle() are left out where they do not fit.
Fits(p, q) == Magnitude((q[1] - p[1]) * (q[2] - p[2])) < SHORT

TftLine == shape = <<>> /\ \E p, q \in Points : Shows(<<"line", p, q>>, LinePixels(p, q), {})
TftTriangle ==
    /\ shape = <<>>
    /\ \E p, q, r \in Points : /\ Fits(p, q) /\ Fits(q, r) /\ Fits(p, r)
                              /\ Shows(<<"triangle", p, q, r>>, DrawTriangle(p, q, r), FillTriangle(p, q, r))
\* Of a circle that reaches over the left or the upper edge only the outline is clipped.
TftCircle ==
    /\ shape = <<>>
    /\ \E x, y \in Centres, r \in Radii \ {0} :
          Shows(<<"circle", <<x, y>>, r>>, DrawCircle(x, y, r), IF x >= r /\ y >= r THEN FillCircle(x, y, r) ELSE {})
TftRect ==
    /\ shape = <<>>
    /\ \E p \in Points, w, h \in Corners \ {0}, r \in Radii :
          /\ 2 * r <= w /\ 2 * r <= h
          /\ Shows(<<"rect", p, w, h, r>>,
                   IF r = 0 THEN DrawRect(p[1], p[2], w, h) ELSE DrawRoundRect(p[1], p[2], w, h, r),
                   IF r = 0 THEN Block(p[1], p[2], w, h) ELSE FillRoundRect(p[1], p[2], w, h, r))
Background == shape # <<>> /\ shape' = <<>> /\ outline' = {} /\ area' = {}
TftNext == TftLine \/ TftTriangle \/ TftCircle \/ TftRect \/ Background
-----------------------------------------------------------------------------
\* What the shapes are, without the algorithms.
Box(a, b) == (Min({a[1], b[1]}) .. Max({a[1], b[1]})) \X (Min({a[2], b[2]}) .. Max({a[2], b[2]}))
Square(n) == n * n
Cross(a, b, p) == (b[1] - a[1]) * (p[2] - a[2]) - (b[2] - a[2]) * (p[1] - a[1])
Hull(pixels) == UNION {VLine(e[1][1], e[1][2], e[2][2] - e[1][2] + 1) : e \in {e \in pixels \X pixels : e[1][1] = e[2][1]}}

\* Within half a step of the line, and one for every step
Near(p, q) == LET long == Max({Magnitude(q[1] - p[1]), Magnitude(q[2] - p[2])})
              IN {s \in Box(p, q) : 2 * Magnitude(Cross(p, q, s)) <= long}
IsLine(pixels, p, q) ==
    LET along == IF Magnitude(q[2] - p[2]) > Magnitude(q[1] - p[1]) THEN 2 ELSE 1
    IN /\ pixels \subseteq Near(p, q) /\ {p, q} \cap Screen \subseteq pixels
       /\ \A s \in Near(p, q) : {t \in Near(p, q) : t[along] = s[along]} \subseteq Screen =>
             Cardinality({t \in pixels : t[along] = s[along]}) = 1

\* All points of the triangle, and none a whole step beside it
IsTriangle(pixels, p, q, r) ==
    LET edges == {e \in {p, q, r} \X {p, q, r} : e[1][2] < e[2][2]}
        Spans(e) == (e[2][1] - e[1][1])
        Crossed(s) == {e \in edges : e[1][2] <= s[2] /\ s[2] <= e[2][2]}
        Beside(e, s, step) == (s[1] - e[1][1] + step) * (e[2][2] - e[1][2]) - Spans(e) * (s[2] - e[1][2])
    IN \A s \in Screen :
         /\ (\E e, f \in Crossed(s) : Beside(e, s, 0) >= 0 /\ Beside(f, s, 0) <= 0) => s \in pixels
         /\ s \in pixels /\ edges # {} => \E e, f \in Crossed(s) : Beside(e, s, 1) > 0 /\ Beside(f, s, -1) < 0

IsCircle(pixels, c, r) ==
    \A s \in pixels : LET d == Square(s[1] - c[1]) + Square(s[2] - c[2])
                      IN Square(2 * r - 1) <= 4 * d /\ 4 * d <= Square(2 * r + 1)

\* What is asked of each shape
LineDrawn == shape[2][1] # shape[3][1] /\ shape[2][2] # shape[3][2] => IsLine(outline, shape[2], shape[3])
CircleDrawn ==
    LET x == shape[2][1]
        y == shape[2][2]
        r == shape[3]
    IN IsCircle(outline, shape[2], r) /\ (x >= r /\ y >= r => area = Hull(DrawCircle(x, y, r)) \cap Screen)
RectDrawn ==
    LET p == shape[2]
        w == shape[3]
        h == shape[4]
        r == shape[5]
    IN /\ outline \subseteq Block(p[1], p[2], w, h)
       /\ r = 0 => area = Block(p[1], p[2], w, h) \cap Screen
       /\ r > 0 /\ h > 2 => area = Hull(DrawRoundRect(p[1], p[2], w, h, r)) \cap Screen
\* A line keeps within half a pixel of the true one and has no gaps; a triangle is filled
\* without gaps and never a pixel too wide, whatever the order of its corners; a circle keeps
\* within half a pixel of its radius, and circles and rounded rectangles are filled exactly up
\* to their outlines (lines 52-359).  Of a rounded rectangle of two rows the first and the last
\* column are not filled: drawFastVLine() is called with length 0.
DrawsTheShape ==
    shape # <<>> => /\ shape[1] = "line" => LineDrawn
                    /\ shape[1] = "triangle" => IsTriangle(area, shape[2], shape[3], shape[4])
                    /\ shape[1] = "circle" => CircleDrawn
                    /\ shape[1] = "rect" => RectDrawn

(* Not true of this code (README, known disagreements). *)

\* line() draws both of its ends, as it does when it is neither horizontal nor vertical.
LineHasItsEnds == shape # <<>> /\ shape[1] = "line" => {shape[2], shape[3]} \cap Screen \subseteq outline
=============================================================================
