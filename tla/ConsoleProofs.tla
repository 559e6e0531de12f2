----------------------------- MODULE ConsoleProofs -----------------------------
(* Proofs about what the user sees: the terminal (Screen), for every geometry,   *)
(* and the history and the calculator of the shell (Shell), for every number of  *)
(* slots and every width of an int.                                              *)
EXTENDS Screen, Shell, SequenceTheorems, WellFoundedInduction, TLAPS

-----------------------------------------------------------------------------
(* Induction and recursion.                                                *)

LEMMA LeastElement ==
  ASSUME NEW S \in SUBSET Nat, S # {}
  PROVE  \E x \in S : \A j \in S : x <= j
<1> DEFINE R == OpToRel(<, Nat)
<1>1. IsWellFoundedOn(R, Nat)
  BY NatLessThanWellFounded
<1>2. ASSUME NEW x \in Nat, NEW y \in Nat, y < x
      PROVE  <<y, x>> \in R
  BY <1>2 DEF OpToRel
<1> HIDE DEF R
<1>3. PICK x \in S : \A y \in S : ~ (<<y, x>> \in R)
  BY <1>1, WFMin
<1>4. ASSUME NEW y \in S
      PROVE  x <= y
  <2>1. x \in Nat /\ y \in Nat
    OBVIOUS
  <2>2. ~ (y < x)
    BY <2>1, <1>2, <1>3
  <2> QED
    BY <2>1, <2>2
<1> QED
  BY <1>4

\* Induction up to n, for a set of numbers.
LEMMA Induction ==
  ASSUME NEW n \in Nat, NEW S, 0 \in S, \A i \in 1 .. n : i - 1 \in S => i \in S
  PROVE  \A i \in 0 .. n : i \in S
<1> DEFINE T == (0 .. n) \ S
<1> SUFFICES ASSUME T # {}
             PROVE  FALSE
  OBVIOUS
<1>1. T \in SUBSET Nat
  OBVIOUS
<1>2. PICK m \in T : \A j \in T : m <= j
  <2> HIDE DEF T
  <2> QED
    BY <1>1, LeastElement
<1>3. m \in 1 .. n /\ m - 1 \in 0 .. n /\ ~ (m <= m - 1)
  BY <1>2
<1>4. m - 1 \in S
  BY <1>2, <1>3
<1> QED
  BY <1>2, <1>3, <1>4

\* A recursion over 0 .. n whose step is a function defines a function.
Steps(n, X, g) == \A y \in X, i \in 1 .. n : g[<<y, i>>] \in X
IsIteration(f, n, x, g) == f[0] = x /\ \A i \in 1 .. n : f[i] = g[<<f[i - 1], i>>]
HasIteration(n, X, x, g) == \E f \in [0 .. n -> X] : IsIteration(f, n, x, g)

LEMMA Iteration ==
  ASSUME NEW n \in Nat, NEW X, NEW x \in X, NEW g, Steps(n, X, g)
  PROVE  HasIteration(n, X, x, g)
<1> USE DEF Steps, IsIteration, HasIteration
<1> DEFINE Good == {m \in 0 .. n : \E f \in [0 .. m -> X] :
                      f[0] = x /\ \A i \in 1 .. m : f[i] = g[<<f[i - 1], i>>]}
<1>1. 0 \in Good
  <2> DEFINE f == [i \in 0 .. 0 |-> x]
  <2>1. f \in [0 .. 0 -> X] /\ f[0] = x
    OBVIOUS
  <2> HIDE DEF f
  <2>2. \A i \in 1 .. 0 : f[i] = g[<<f[i - 1], i>>]
    OBVIOUS
  <2>3. 0 \in 0 .. n
    OBVIOUS
  <2> QED
    BY <2>1, <2>2, <2>3
<1>2. ASSUME NEW m \in 1 .. n, m - 1 \in Good
      PROVE  m \in Good
  <2>1. PICK f \in [0 .. m - 1 -> X] :
          f[0] = x /\ \A i \in 1 .. m - 1 : f[i] = g[<<f[i - 1], i>>]
    BY <1>2
  <2> DEFINE h == [i \in 0 .. m |-> IF i = m THEN g[<<f[m - 1], m>>] ELSE f[i]]
  <2>2. g[<<f[m - 1], m>>] \in X
    OBVIOUS
  <2>3. h \in [0 .. m -> X] /\ h[0] = x
    BY <2>1, <2>2
  <2>4. ASSUME NEW i \in 1 .. m
        PROVE  h[i] = g[<<h[i - 1], i>>]
    <3>1. i - 1 \in 0 .. m - 1 /\ i - 1 # m /\ h[i - 1] = f[i - 1]
      OBVIOUS
    <3>2. CASE i = m
      <4>1. h[m] = g[<<f[m - 1], m>>]
        OBVIOUS
      <4> HIDE DEF h
      <4> QED
        BY <3>1, <3>2, <4>1
    <3>3. CASE i # m
      <4>1. i \in 1 .. m - 1 /\ h[i] = f[i]
        BY <3>3
      <4> QED
        BY <2>1, <3>1, <4>1
    <3> QED
      BY <3>2, <3>3
  <2> HIDE DEF h
  <2> QED
    BY <2>3, <2>4
<1> HIDE DEF Good
<1>3. n \in Good
  BY <1>1, <1>2, Induction
<1> QED
  BY <1>3 DEF Good

-----------------------------------------------------------------------------
(* Arithmetic.                                                             *)

LEMMA Quotient ==
  ASSUME NEW m \in Nat \ {0}, NEW a \in Nat
  PROVE  a \div m \in Nat /\ a % m \in 0 .. m - 1 /\ a = (a \div m) * m + (a % m)
<1>1. PICK q \in Int, r \in 0 .. m - 1 : a \div m = q /\ a % m = r /\ a = m * q + r
  OBVIOUS
<1>2. q >= 0
  <2>1. CASE q < 0
    <3>1. m * q <= 0 - m
      BY <2>1
    <3>2. a = m * q + r
      BY <1>1
    <3> QED
      BY <3>1, <3>2
  <2> QED
    BY <2>1
<1>3. m * q = q * m
  OBVIOUS
<1>4. q \in Nat /\ a = q * m + r
  BY <1>1, <1>2, <1>3
<1> QED
  BY <1>1, <1>4, Zenon

LEMMA Multiples ==
  ASSUME NEW m \in Nat \ {0}, NEW p \in Nat, NEW q \in Nat, p < q
  PROVE  p * m + m <= q * m /\ p * m \in Nat /\ q * m \in Nat
<1>1. PICK d \in Nat : q = p + 1 + d
  <2>1. q - p - 1 \in Nat /\ q = p + 1 + (q - p - 1)
    OBVIOUS
  <2> QED
    BY <2>1
<1>2. q * m = p * m + m + d * m
  BY <1>1
<1>3. p * m \in Nat /\ d * m \in Nat /\ q * m \in Nat
  OBVIOUS
<1> QED
  BY <1>2, <1>3

\* A number is cut into quotient and remainder in one way.
LEMMA CutOnce ==
  ASSUME NEW m \in Nat \ {0}, NEW p \in Nat, NEW q \in Nat,
         NEW r \in 0 .. m - 1, NEW s \in 0 .. m - 1,
         p * m + r = q * m + s
  PROVE  p = q /\ r = s
<1>1. ~ (p < q)
  <2> SUFFICES ASSUME p < q PROVE FALSE
    OBVIOUS
  <2>1. p * m + m <= q * m /\ p * m \in Nat /\ q * m \in Nat
    BY Multiples
  <2> QED
    BY <2>1
<1>2. ~ (q < p)
  <2> SUFFICES ASSUME q < p PROVE FALSE
    OBVIOUS
  <2>1. q * m + m <= p * m /\ p * m \in Nat /\ q * m \in Nat
    BY Multiples
  <2> QED
    BY <2>1
<1>3. p = q
  BY <1>1, <1>2
<1>4. p * m \in Nat
  OBVIOUS
<1> QED
  BY <1>3, <1>4

LEMMA QuotientOf ==
  ASSUME NEW m \in Nat \ {0}, NEW q \in Nat, NEW r \in 0 .. m - 1
  PROVE  (q * m + r) \div m = q /\ (q * m + r) % m = r
<1>1. q * m + r \in Nat
  OBVIOUS
<1> DEFINE a == q * m + r
<1>2. a \in Nat /\ a = q * m + r
  BY <1>1
<1> HIDE DEF a
<1>3. a \div m \in Nat /\ a % m \in 0 .. m - 1 /\ a = (a \div m) * m + (a % m)
  BY <1>2, Quotient
<1>4. a \div m = q /\ a % m = r
  BY <1>2, <1>3, CutOnce
<1> QED
  BY <1>4 DEF a

-----------------------------------------------------------------------------
(* The terminal.                                                           *)

LEMMA GeometryIs ==
  /\ Width \in Nat \ {0} /\ WorkTop \in Nat \ {0} /\ Height \in Nat /\ WorkTop + 2 < Height
  /\ 0 \in 0 .. Height - 1 /\ WorkTop \in 0 .. Height - 1 /\ 0 \in 0 .. Width - 1
BY GeometryAssumption

LEMMA CellsAre ==
  ASSUME NEW r \in 0 .. Height - 1, NEW c \in 0 .. Width - 1
  PROVE  /\ r * Width + c \in Cells
         /\ (r * Width + c) \div Width = r
         /\ (r * Width + c) % Width = c
<1>1. PICK w \in Nat \ {0}, h \in Nat : w = Width /\ h = Height
  BY GeometryIs
<1>2. r \in Nat /\ r < h /\ c \in 0 .. w - 1
  BY <1>1
<1>3. r * w + w <= h * w /\ r * w \in Nat /\ h * w \in Nat
  BY <1>1, <1>2, Multiples
<1>4. h * w = w * h
  BY <1>1
<1>5. r * w + c \in 0 .. w * h - 1
  BY <1>1, <1>2, <1>3, <1>4
<1>6. (r * w + c) \div w = r /\ (r * w + c) % w = c
  BY <1>1, <1>2, QuotientOf
<1> QED
  BY <1>1, <1>5, <1>6 DEF Cells

Terms == [cell : [Cells -> Chars], col : 0 .. Width - 1, row : 0 .. Height - 1,
          hw : Cells, spoilt : BOOLEAN]
Keys  == Chars \cup {NL, BS}

\* A terminal that is as its fields say, with the cursor where it writes next.
At(cells, r, c, sp) ==
  [cell |-> cells, col |-> c, row |-> r, hw |-> r * Width + c, spoilt |-> sp]
\* What a wrap at the bottom leaves of it.
BelowTop(cells) == [i \in Cells |-> IF i >= WorkTop * Width THEN Blank ELSE cells[i]]
Wrapped(cells)  == At(BelowTop(cells), WorkTop, 0, TRUE)

\* Blank behind the cursor, but for the clock and the footer.
BlankBehind(cells, p) ==
  \A i \in Cells \ (Footer \cup Header) : i >= p => cells[i] = Blank
SoundTerms == {t \in Terms : t.hw = Here(t) /\ BlankBehind(t.cell, Here(t))}

LEMMA AtIs ==
  ASSUME NEW cells \in [Cells -> Chars], NEW r \in 0 .. Height - 1, NEW c \in 0 .. Width - 1,
         NEW sp \in BOOLEAN
  PROVE  /\ At(cells, r, c, sp) \in Terms
         /\ At(cells, r, c, sp).hw = Here(At(cells, r, c, sp))
         /\ Here(At(cells, r, c, sp)) = r * Width + c
         /\ At(cells, r, c, sp).cell = cells /\ At(cells, r, c, sp).spoilt = sp
         /\ At(cells, r, c, sp).row = r /\ At(cells, r, c, sp).col = c
BY CellsAre DEF At, Terms, Here

LEMMA AtSound ==
  ASSUME NEW cells \in [Cells -> Chars], NEW r \in 0 .. Height - 1, NEW c \in 0 .. Width - 1,
         NEW sp \in BOOLEAN, BlankBehind(cells, r * Width + c)
  PROVE  At(cells, r, c, sp) \in SoundTerms
BY AtIs DEF SoundTerms

LEMMA SoundIs ==
  ASSUME NEW t \in SoundTerms
  PROVE  /\ t.cell \in [Cells -> Chars] /\ t.row \in 0 .. Height - 1
         /\ t.col \in 0 .. Width - 1 /\ t.spoilt \in BOOLEAN /\ t \in Terms
         /\ Here(t) \in Cells /\ Here(t) = t.row * Width + t.col /\ t.hw = Here(t)
         /\ BlankBehind(t.cell, Here(t))
         /\ Here(t) \div Width = t.row /\ Here(t) % Width = t.col
<1>1. t \in Terms /\ t.hw = Here(t) /\ BlankBehind(t.cell, Here(t))
  BY DEF SoundTerms
<1>2. /\ t.cell \in [Cells -> Chars] /\ t.row \in 0 .. Height - 1
      /\ t.col \in 0 .. Width - 1 /\ t.spoilt \in BOOLEAN
  BY <1>1 DEF Terms
<1>3. Here(t) = t.row * Width + t.col
  BY DEF Here
<1> QED
  BY <1>1, <1>2, <1>3, CellsAre

\* The operations on a terminal that is given by its fields.
Term(cells, c, r, h, sp) == [cell |-> cells, col |-> c, row |-> r, hw |-> h, spoilt |-> sp]

LEMMA TermIs ==
  ASSUME NEW t \in Terms
  PROVE  t = Term(t.cell, t.col, t.row, t.hw, t.spoilt)
BY DEF Terms, Term

LEMMA TermFields ==
  ASSUME NEW cells, NEW c, NEW r, NEW h, NEW sp
  PROVE  /\ Term(cells, c, r, h, sp).cell = cells
         /\ Term(cells, c, r, h, sp).col = c
         /\ Term(cells, c, r, h, sp).row = r
         /\ Term(cells, c, r, h, sp).hw = h
         /\ Term(cells, c, r, h, sp).spoilt = sp
BY DEF Term

LEMMA MoveIs ==
  ASSUME NEW cells, NEW c, NEW r, NEW h, NEW sp, NEW nr, NEW nc
  PROVE  Move(Term(cells, c, r, h, sp), nr, nc) = Term(cells, nc, nr, h, sp)
BY DEF Term, Move

LEMMA UpdateIs ==
  ASSUME NEW cells, NEW c, NEW r, NEW h, NEW sp
  PROVE  update_cursor(Term(cells, c, r, h, sp)) = At(cells, r, c, sp)
<1>1. Here(Term(cells, c, r, h, sp)) = r * Width + c
  BY TermFields DEF Here
<1>2. [Term(cells, c, r, h, sp) EXCEPT !.hw = r * Width + c] = Term(cells, c, r, r * Width + c, sp)
  BY DEF Term
<1> QED
  BY <1>1, <1>2 DEF update_cursor, At, Term

LEMMA SpoilIs ==
  ASSUME NEW cells, NEW c, NEW r, NEW h, NEW sp
  PROVE  Spoil(Term(cells, c, r, h, sp)) = Term(cells, c, r, h, TRUE)
<1>1. ASSUME NEW v
      PROVE  [Term(cells, c, r, h, sp) EXCEPT !.spoilt = v] = Term(cells, c, r, h, v)
  BY DEF Term
<1> QED
  BY <1>1 DEF Spoil

LEMMA UnspoilIs ==
  ASSUME NEW cells, NEW c, NEW r, NEW h, NEW sp
  PROVE  [Term(cells, c, r, h, sp) EXCEPT !.spoilt = FALSE] = Term(cells, c, r, h, FALSE)
<1>1. ASSUME NEW v
      PROVE  [Term(cells, c, r, h, sp) EXCEPT !.spoilt = v] = Term(cells, c, r, h, v)
  BY DEF Term
<1> QED
  BY <1>1

LEMMA PutIs ==
  ASSUME NEW cells, NEW c, NEW r, NEW h, NEW sp, NEW i, NEW k
  PROVE  Put(Term(cells, c, r, h, sp), i, k) = Term([cells EXCEPT ![i] = k], c, r, h, sp)
BY DEF Term, Put

LEMMA ClearIs ==
  ASSUME NEW cells, NEW c, NEW r, NEW h, NEW sp, NEW row
  PROVE  terminal_clear_area(Term(cells, c, r, h, sp), row)
           = At([i \in Cells |-> IF i >= row * Width THEN Blank ELSE cells[i]], row, 0, sp)
<1> DEFINE t == Term(cells, c, r, h, sp)
           new == [i \in Cells |-> IF i >= row * Width THEN Blank ELSE cells[i]]
<1>1. [i \in Cells |-> IF i >= row * Width THEN Blank ELSE t.cell[i]] = new
  BY TermFields
<1> HIDE DEF new
<1>2. [t EXCEPT !.cell = new] = Term(new, c, r, h, sp)
  BY DEF Term
<1> HIDE DEF t
<1>3. terminal_clear_area(t, row) = update_cursor(Move([t EXCEPT !.cell = new], row, 0))
  BY <1>1 DEF terminal_clear_area
<1>4. terminal_clear_area(t, row) = update_cursor(Term(new, 0, row, h, sp))
  BY <1>2, <1>3, MoveIs
<1> QED
  BY <1>4, UpdateIs DEF t, new

\* The end of terminal_putc.
LEMMA WrapIs ==
  ASSUME NEW cells, NEW c \in 0 .. Width, NEW r \in 0 .. Height, NEW h, NEW sp
  PROVE  update_cursor(Wrap(Term(cells, c, r, h, sp)))
           = IF c < Width THEN IF r < Height THEN At(cells, r, c, sp) ELSE Wrapped(cells)
             ELSE IF r + 1 < Height THEN At(cells, r + 1, 0, sp) ELSE Wrapped(cells)
<1> DEFINE t == Term(cells, c, r, h, sp)
           d == IF c < Width THEN c ELSE 0
           q == IF c < Width THEN r ELSE r + 1
           u == Term(cells, d, q, h, sp)
<1>1. u = IF t.col >= Width THEN Move(t, t.row + 1, 0) ELSE t
  <2>1. t.col = c /\ t.row = r
    BY TermFields
  <2>2. CASE c < Width
    <3>1. ~ (c >= Width)
      BY <2>2, GeometryIs
    <3> QED
      BY <2>1, <2>2, <3>1
  <2>3. CASE ~ (c < Width)
    <3>1. c >= Width
      BY <2>3, GeometryIs
    <3>2. Move(t, r + 1, 0) = Term(cells, 0, r + 1, h, sp)
      BY MoveIs
    <3> QED
      BY <2>1, <2>3, <3>1, <3>2
  <2> QED
    BY <2>2, <2>3
<1>2. u.row = q
  BY TermFields
<1> HIDE DEF t, u
<1>3. Wrap(t) = IF u.row >= Height THEN Spoil(terminal_clear_area(u, WorkTop)) ELSE u
  BY <1>1 DEF Wrap
<1>4. CASE q < Height
  <2>1. ~ (u.row >= Height)
    BY <1>2, <1>4, GeometryIs
  <2>2. Wrap(t) = u
    BY <1>3, <2>1
  <2>3. update_cursor(Wrap(t)) = At(cells, q, d, sp)
    BY <2>2, UpdateIs DEF u
  <2> QED
    BY <1>4, <2>3 DEF t
<1>5. CASE ~ (q < Height)
  <2>1. u.row >= Height
    BY <1>2, <1>5, GeometryIs
  <2>2. Wrap(t) = Spoil(terminal_clear_area(u, WorkTop))
    BY <1>3, <2>1
  <2>3. terminal_clear_area(u, WorkTop) = At(BelowTop(cells), WorkTop, 0, sp)
    BY ClearIs DEF u, BelowTop
  <2>4. At(BelowTop(cells), WorkTop, 0, sp)
          = Term(BelowTop(cells), 0, WorkTop, WorkTop * Width + 0, sp)
    BY DEF At, Term
  <2>5. Wrap(t) = Term(BelowTop(cells), 0, WorkTop, WorkTop * Width + 0, TRUE)
    BY <2>2, <2>3, <2>4, SpoilIs
  <2>6. update_cursor(Wrap(t)) = Wrapped(cells)
    BY <2>5, UpdateIs DEF Wrapped
  <2> QED
    BY <1>5, <2>6 DEF t
<1> QED
  BY <1>4, <1>5

LEMMA PutNewLine ==
  ASSUME NEW t \in Terms
  PROVE  terminal_putc(t, NL) = IF t.row + 1 < Height THEN At(t.cell, t.row + 1, 0, t.spoilt)
                                ELSE Wrapped(t.cell)
<1>1. t = Term(t.cell, t.col, t.row, t.hw, t.spoilt) /\ t.row \in 0 .. Height - 1
  BY TermIs DEF Terms
<1>2. terminal_putc(t, NL) = update_cursor(Wrap(Move(t, t.row + 1, 0)))
  BY DEF terminal_putc, NL, BS
<1>3. Move(t, t.row + 1, 0) = Term(t.cell, 0, t.row + 1, t.hw, t.spoilt)
  BY <1>1, MoveIs
<1>4. 0 \in 0 .. Width /\ t.row + 1 \in 0 .. Height /\ 0 < Width
  BY <1>1, GeometryIs
<1>5. update_cursor(Wrap(Term(t.cell, 0, t.row + 1, t.hw, t.spoilt)))
        = IF t.row + 1 < Height THEN At(t.cell, t.row + 1, 0, t.spoilt) ELSE Wrapped(t.cell)
  BY <1>4, WrapIs
<1> QED
  BY <1>2, <1>3, <1>5

LEMMA PutBackspace ==
  ASSUME NEW t \in Terms
  PROVE  terminal_putc(t, BS)
           = IF t.col > 0 THEN At([t.cell EXCEPT ![Here(t) - 1] = Blank], t.row, t.col - 1, t.spoilt)
             ELSE At(t.cell, t.row, 0, TRUE)
<1>1. /\ t = Term(t.cell, t.col, t.row, t.hw, t.spoilt)
      /\ t.row \in 0 .. Height - 1 /\ t.col \in 0 .. Width - 1
  BY TermIs DEF Terms
<1>2. t.col \in 0 .. Width /\ t.row \in 0 .. Height /\ t.row < Height /\ t.col < Width
  BY <1>1, GeometryIs
<1>3. CASE t.col > 0
  <2>1. terminal_putc(t, BS) = update_cursor(Wrap(Erase(t)))
    BY <1>3 DEF terminal_putc, BS, NL
  <2> DEFINE new == [t.cell EXCEPT ![Here(t) - 1] = Blank]
  <2>2. Move(t, t.row, t.col - 1) = Term(t.cell, t.col - 1, t.row, t.hw, t.spoilt)
    BY <1>1, MoveIs
  <2>3. Erase(t) = Term(new, t.col - 1, t.row, t.hw, t.spoilt)
    BY <2>2, PutIs DEF Erase
  <2> HIDE DEF new
  <2>4. t.col - 1 \in 0 .. Width /\ t.col - 1 < Width
    BY <1>1, <1>3, GeometryIs
  <2>5. update_cursor(Wrap(Term(new, t.col - 1, t.row, t.hw, t.spoilt)))
          = At(new, t.row, t.col - 1, t.spoilt)
    BY <1>2, <2>4, WrapIs
  <2> QED
    BY <1>3, <2>1, <2>3, <2>5 DEF new
<1>4. CASE ~ (t.col > 0)
  <2>1. t.col = 0
    BY <1>1, <1>4, GeometryIs
  <2>2. terminal_putc(t, BS) = update_cursor(Wrap(Spoil(t)))
    BY <2>1 DEF terminal_putc, BS, NL
  <2>3. Spoil(t) = Term(t.cell, t.col, t.row, t.hw, TRUE)
    BY <1>1, SpoilIs
  <2>4. update_cursor(Wrap(Term(t.cell, t.col, t.row, t.hw, TRUE))) = At(t.cell, t.row, t.col, TRUE)
    BY <1>2, WrapIs
  <2> QED
    BY <1>4, <2>1, <2>2, <2>3, <2>4
<1> QED
  BY <1>3, <1>4

LEMMA PutPrintable ==
  ASSUME NEW t \in Terms, NEW c \in Chars
  PROVE  LET new == [t.cell EXCEPT ![Here(t)] = c] IN
           terminal_putc(t, c)
             = IF t.col + 1 < Width THEN At(new, t.row, t.col + 1, t.spoilt)
               ELSE IF t.row + 1 < Height THEN At(new, t.row + 1, 0, t.spoilt) ELSE Wrapped(new)
<1> DEFINE new == [t.cell EXCEPT ![Here(t)] = c]
<1>1. /\ t = Term(t.cell, t.col, t.row, t.hw, t.spoilt)
      /\ t.row \in 0 .. Height - 1 /\ t.col \in 0 .. Width - 1
  BY TermIs DEF Terms
<1>2. c # NL /\ c # BS
  BY TextAssumption DEF Chars, Blank, Mark, NL, BS
<1>3. terminal_putc(t, c) = update_cursor(Wrap(Move(Put(t, Here(t), c), t.row, t.col + 1)))
  BY <1>2 DEF terminal_putc
<1>4. Put(t, Here(t), c) = Term(new, t.col, t.row, t.hw, t.spoilt)
  BY <1>1, PutIs
<1> HIDE DEF new
<1>5. Move(Put(t, Here(t), c), t.row, t.col + 1) = Term(new, t.col + 1, t.row, t.hw, t.spoilt)
  BY <1>4, MoveIs
<1>6. t.col + 1 \in 0 .. Width /\ t.row \in 0 .. Height /\ t.row < Height
  BY <1>1, GeometryIs
<1>7. update_cursor(Wrap(Term(new, t.col + 1, t.row, t.hw, t.spoilt)))
        = IF t.col + 1 < Width THEN At(new, t.row, t.col + 1, t.spoilt)
          ELSE IF t.row + 1 < Height THEN At(new, t.row + 1, 0, t.spoilt) ELSE Wrapped(new)
  BY <1>6, WrapIs
<1> QED
  BY <1>3, <1>5, <1>7 DEF new

\* The first position of a row, and of the next.
LEMMA RowsAre ==
  ASSUME NEW r \in Nat
  PROVE  /\ r * Width \in Nat /\ (r + 1) * Width \in Nat
         /\ (r + 1) * Width = r * Width + Width
<1>1. PICK w \in Nat : w = Width
  BY GeometryIs
<1>2. r * w \in Nat /\ (r + 1) * w = r * w + w
  OBVIOUS
<1> QED
  BY <1>1, <1>2

LEMMA WrappedSound ==
  ASSUME NEW cells \in [Cells -> Chars]
  PROVE  Wrapped(cells) \in SoundTerms /\ Wrapped(cells).row >= 1 /\ Wrapped(cells).spoilt
<1>1. BelowTop(cells) \in [Cells -> Chars]
  BY DEF BelowTop, Chars
<1>2. WorkTop \in 0 .. Height - 1 /\ 0 \in 0 .. Width - 1 /\ WorkTop >= 1
      /\ WorkTop * Width + 0 = WorkTop * Width
  BY GeometryIs, RowsAre
<1>3. BlankBehind(BelowTop(cells), WorkTop * Width + 0)
  BY <1>2 DEF BlankBehind, BelowTop
<1> QED
  BY <1>1, <1>2, <1>3, AtSound, AtIs DEF Wrapped

\* A character keeps the terminal sound, and the cursor below the header.
LEMMA PutSound ==
  ASSUME NEW t \in SoundTerms, NEW c \in Keys
  PROVE  /\ terminal_putc(t, c) \in SoundTerms
         /\ t.row >= 1 \/ c = NL => terminal_putc(t, c).row >= 1
         /\ t.spoilt => terminal_putc(t, c).spoilt
<1>1. /\ t \in Terms /\ t.cell \in [Cells -> Chars] /\ t.row \in 0 .. Height - 1
      /\ t.col \in 0 .. Width - 1 /\ t.spoilt \in BOOLEAN
      /\ Here(t) \in Cells /\ Here(t) = t.row * Width + t.col
      /\ BlankBehind(t.cell, Here(t))
  BY SoundIs
<1>2. PICK w \in Nat \ {0}, m \in Nat, h \in Nat :
        /\ w = Width /\ m = t.row * Width /\ h = Height
        /\ (t.row + 1) * Width = m + w
  BY <1>1, GeometryIs, RowsAre
<1>3. Cells \subseteq Int
  BY GeometryIs DEF Cells
<1>4. CASE c = NL
  <2>1. CASE t.row + 1 < Height
    <3>1. terminal_putc(t, c) = At(t.cell, t.row + 1, 0, t.spoilt)
      BY <1>1, <1>4, <2>1, PutNewLine
    <3>2. t.row + 1 \in 0 .. Height - 1 /\ 0 \in 0 .. Width - 1
      BY <1>1, <2>1, GeometryIs
    <3>3. PICK p \in Int, q \in Int : /\ p = Here(t) /\ q = (t.row + 1) * Width + 0
                                     /\ q >= p
      BY <1>1, <1>2
    <3>4. BlankBehind(t.cell, p) => BlankBehind(t.cell, q)
      BY <1>3, <3>3 DEF BlankBehind
    <3>5. BlankBehind(t.cell, (t.row + 1) * Width + 0)
      BY <1>1, <3>3, <3>4
    <3> QED
      BY <1>1, <3>1, <3>2, <3>5, AtSound, AtIs
  <2>2. CASE ~ (t.row + 1 < Height)
    <3>1. terminal_putc(t, c) = Wrapped(t.cell)
      BY <1>1, <1>4, <2>2, PutNewLine
    <3> QED
      BY <1>1, <3>1, WrappedSound
  <2> QED
    BY <2>1, <2>2
<1>5. CASE c = BS /\ t.col > 0
  <2> DEFINE new == [t.cell EXCEPT ![Here(t) - 1] = Blank]
  <2>1. terminal_putc(t, c) = At(new, t.row, t.col - 1, t.spoilt)
    BY <1>1, <1>5, PutBackspace
  <2>2. /\ t.col - 1 \in 0 .. Width - 1
        /\ t.row * Width + (t.col - 1) = Here(t) - 1 /\ Here(t) \in Int
    BY <1>1, <1>2, <1>5
  <2>3. new \in [Cells -> Chars]
    BY <1>1 DEF Chars
  <2>4. BlankBehind(new, Here(t) - 1)
    <3>1. ASSUME NEW i \in Cells \ (Footer \cup Header), i >= Here(t) - 1
          PROVE  new[i] = Blank
      <4>1. i \in Int /\ (i = Here(t) - 1 \/ (i # Here(t) - 1 /\ i >= Here(t)))
        BY <1>3, <2>2, <3>1
      <4> QED
        BY <1>1, <4>1 DEF BlankBehind
    <3> QED
      BY <3>1 DEF BlankBehind
  <2> HIDE DEF new
  <2> QED
    BY <1>1, <1>5, <2>1, <2>2, <2>3, <2>4, AtSound, AtIs DEF BS, NL
<1>6. CASE c = BS /\ ~ (t.col > 0)
  <2>1. terminal_putc(t, c) = At(t.cell, t.row, 0, TRUE)
    BY <1>1, <1>6, PutBackspace
  <2>2. 0 \in 0 .. Width - 1 /\ t.row * Width + 0 = Here(t)
    BY <1>1, <1>2, <1>6
  <2>3. BlankBehind(t.cell, t.row * Width + 0)
    BY <1>1, <2>2
  <2>4. At(t.cell, t.row, 0, TRUE) \in SoundTerms
    BY <1>1, <2>2, <2>3, AtSound
  <2>5. At(t.cell, t.row, 0, TRUE).row = t.row /\ At(t.cell, t.row, 0, TRUE).spoilt
    BY DEF At
  <2>6. c # NL
    BY <1>6 DEF NL, BS
  <2> QED
    BY <2>1, <2>4, <2>5, <2>6
<1>7. CASE c \in Chars
  <2> DEFINE new == [t.cell EXCEPT ![Here(t)] = c]
  <2>1. terminal_putc(t, c)
          = IF t.col + 1 < Width THEN At(new, t.row, t.col + 1, t.spoilt)
            ELSE IF t.row + 1 < Height THEN At(new, t.row + 1, 0, t.spoilt) ELSE Wrapped(new)
    BY <1>1, <1>7, PutPrintable
  <2>2. new \in [Cells -> Chars]
    BY <1>1, <1>7
  <2>3. BlankBehind(new, Here(t) + 1)
    <3>1. ASSUME NEW i \in Cells \ (Footer \cup Header), i >= Here(t) + 1
          PROVE  new[i] = Blank
      <4>2. PICK p \in Int : p = Here(t)
        BY <1>1, <1>3
      <4>3. i \in Int /\ i >= p + 1
        BY <1>3, <3>1, <4>2
      <4>1. i \in Int /\ i # Here(t) /\ i >= Here(t)
        BY <4>2, <4>3
      <4> QED
        BY <1>1, <4>1 DEF BlankBehind
    <3> QED
      BY <3>1 DEF BlankBehind
  <2> HIDE DEF new
  <2>0. c # NL
    BY <1>7, TextAssumption DEF Chars, Blank, Mark, NL
  <2>4. CASE t.col + 1 < Width
    <3>1. t.col + 1 \in 0 .. Width - 1 /\ t.row * Width + (t.col + 1) = Here(t) + 1
      BY <1>1, <1>2, <2>4
    <3> QED
      BY <1>1, <2>0, <2>1, <2>2, <2>3, <2>4, <3>1, AtSound, AtIs
  <2>5. CASE ~ (t.col + 1 < Width) /\ t.row + 1 < Height
    <3>1. /\ t.row + 1 \in 0 .. Height - 1 /\ 0 \in 0 .. Width - 1 /\ t.row + 1 >= 1
          /\ (t.row + 1) * Width + 0 = Here(t) + 1
      BY <1>1, <1>2, <2>5
    <3> QED
      BY <1>1, <2>0, <2>1, <2>2, <2>3, <2>5, <3>1, AtSound, AtIs
  <2>6. CASE ~ (t.col + 1 < Width) /\ ~ (t.row + 1 < Height)
    BY <1>1, <2>1, <2>2, <2>6, WrappedSound
  <2> QED
    BY <2>4, <2>5, <2>6
<1> QED
  BY <1>4, <1>5, <1>6, <1>7 DEF Keys

LEMMA WrittenIs ==
  ASSUME NEW t \in SoundTerms, NEW s \in Seq(Keys)
  PROVE  /\ Written(t, s) \in [0 .. Len(s) -> SoundTerms]
         /\ Written(t, s)[0] = t
         /\ \A i \in 1 .. Len(s) : Written(t, s)[i] = terminal_putc(Written(t, s)[i - 1], s[i])
<1> DEFINE len == Len(s)
           X == SoundTerms
           Turn(y, i) == terminal_putc(y, s[i])
           g == [p \in X \X (1 .. len) |-> Turn(p[1], p[2])]
           E(f) == f = [n \in 0 .. len |-> IF n = 0 THEN t ELSE Turn(f[n - 1], n)]
           w == Written(t, s)
<1>1. len \in Nat /\ t \in X
  OBVIOUS
<1>2. \A y \in X, i \in 1 .. len : Turn(y, i) \in X
  <2>1. \A i \in 1 .. len : s[i] \in Keys
    OBVIOUS
  <2> QED
    BY <2>1, PutSound
<1>3. w = CHOOSE h : E(h)
  BY DEF Written
<1> HIDE DEF X, Turn, len
<1>4. HasIteration(len, X, t, g)
  <2>1. Steps(len, X, g)
    BY <1>2 DEF Steps
  <2> HIDE DEF g
  <2> QED
    BY <1>1, <2>1, Iteration
<1>5. PICK f \in [0 .. len -> X] :
        f[0] = t /\ \A i \in 1 .. len : f[i] = Turn(f[i - 1], i)
  <2>1. ASSUME NEW y \in X, NEW i \in 1 .. len
        PROVE  g[<<y, i>>] = Turn(y, i)
    OBVIOUS
  <2> HIDE DEF g
  <2>2. PICK f \in [0 .. len -> X] : f[0] = t /\ \A i \in 1 .. len : f[i] = g[<<f[i - 1], i>>]
    BY <1>4 DEF HasIteration, IsIteration
  <2>3. \A i \in 1 .. len : f[i - 1] \in X
    BY <1>1
  <2> QED
    BY <2>1, <2>2, <2>3
<1>6. E(f)
  <2>1. ASSUME NEW n \in 0 .. len, n # 0
        PROVE  f[n] = Turn(f[n - 1], n)
    <3>1. n \in 1 .. len
      BY <1>1, <2>1
    <3> QED
      BY <1>5, <3>1
  <2>2. f = [n \in 0 .. len |-> f[n]]
    OBVIOUS
  <2> QED
    BY <1>5, <2>1, <2>2
<1> HIDE DEF g
<1>7. E(w)
  <2> HIDE DEF E, w
  <2> QED
    BY <1>3, <1>6
<1> HIDE DEF w
<1>8. \A n \in 0 .. len : w[n] = IF n = 0 THEN t ELSE Turn(w[n - 1], n)
  BY <1>7
<1>9. w = [n \in 0 .. len |-> w[n]]
  BY <1>7
<1>10. w[0] = t /\ \A n \in 1 .. len : w[n] = Turn(w[n - 1], n)
  <2>1. 0 \in 0 .. len /\ \A n \in 1 .. len : n \in 0 .. len /\ n # 0
    BY <1>1
  <2> QED
    BY <1>8, <2>1
<1>11. \A n \in 0 .. len : w[n] \in X
  <2> DEFINE S == {n \in 0 .. len : w[n] \in X}
  <2>1. 0 \in S
    BY <1>1, <1>10
  <2>2. ASSUME NEW n \in 1 .. len, n - 1 \in S
        PROVE  n \in S
    <3>1. w[n] = Turn(w[n - 1], n) /\ w[n - 1] \in X
      BY <1>10, <2>2
    <3>2. n \in 0 .. len
      BY <1>1
    <3> QED
      BY <1>2, <3>1, <3>2
  <2> HIDE DEF S
  <2>3. \A n \in 0 .. len : n \in S
    BY <1>1, <2>1, <2>2, Induction
  <2> QED
    BY <2>3 DEF S
<1>12. w \in [0 .. len -> X]
  BY <1>9, <1>11
<1> QED
  BY <1>10, <1>12 DEF len, X, w, Turn

\* Has the text s a new line?
Breaks(s) == \E k \in 1 .. Len(s) : s[k] = NL

LEMMA WriteSound ==
  ASSUME NEW t \in SoundTerms, NEW s \in Seq(Keys)
  PROVE  /\ terminal_writestring(t, s) \in SoundTerms
         /\ t.row >= 1 \/ Breaks(s) => terminal_writestring(t, s).row >= 1
         /\ t.spoilt => terminal_writestring(t, s).spoilt
<1> DEFINE w == Written(t, s)
           len == Len(s)
<1>0. len \in Nat
  OBVIOUS
<1>1. /\ w \in [0 .. len -> SoundTerms] /\ w[0] = t
      /\ \A i \in 1 .. len : w[i] = terminal_putc(w[i - 1], s[i])
  BY WrittenIs
<1>2. terminal_writestring(t, s) = w[len]
  BY DEF terminal_writestring
<1>3. \A i \in 1 .. len : s[i] \in Keys
  OBVIOUS
<1> HIDE DEF w, len
<1> DEFINE S == {i \in 0 .. len :
                   /\ t.row >= 1 \/ (\E k \in 1 .. i : s[k] = NL) => w[i].row >= 1
                   /\ t.spoilt => w[i].spoilt}
<1>4. 0 \in S
  BY <1>0, <1>1
<1>5. ASSUME NEW i \in 1 .. len, i - 1 \in S
      PROVE  i \in S
  <2>1. w[i - 1] \in SoundTerms /\ w[i] = terminal_putc(w[i - 1], s[i]) /\ i \in 0 .. len
    BY <1>0, <1>1
  <2>2. /\ t.row >= 1 \/ (\E k \in 1 .. i - 1 : s[k] = NL) => w[i - 1].row >= 1
        /\ t.spoilt => w[i - 1].spoilt
    BY <1>5
  <2>3. /\ w[i - 1].row >= 1 \/ s[i] = NL => w[i].row >= 1
        /\ w[i - 1].spoilt => w[i].spoilt
    BY <1>3, <2>1, PutSound
  <2>4. \A k \in 1 .. i : k \in 1 .. i - 1 \/ k = i
    BY <1>0
  <2> QED
    BY <2>1, <2>2, <2>3, <2>4
<1> HIDE DEF S
<1>6. len \in S
  <2>1. \A i \in 0 .. len : i \in S
    BY <1>0, <1>4, <1>5, Induction
  <2> QED
    BY <1>0, <2>1
<1>7. /\ t.row >= 1 \/ (\E k \in 1 .. len : s[k] = NL) => w[len].row >= 1
      /\ t.spoilt => w[len].spoilt
  BY <1>6 DEF S
<1>8. w[len] \in SoundTerms
  BY <1>0, <1>1
<1> QED
  BY <1>2, <1>7, <1>8 DEF Breaks, len

\* What else the kernel draws.
LEMMA ClearSound ==
  ASSUME NEW t \in SoundTerms, NEW r \in 0 .. Height - 1
  PROVE  /\ terminal_clear_area(t, r) \in SoundTerms
         /\ terminal_clear_area(t, r).row = r
<1> DEFINE new == [i \in Cells |-> IF i >= r * Width THEN Blank ELSE t.cell[i]]
<1>1. t = Term(t.cell, t.col, t.row, t.hw, t.spoilt) /\ t.cell \in [Cells -> Chars] /\ t.spoilt \in BOOLEAN
  BY SoundIs, TermIs
<1>2. terminal_clear_area(t, r) = At(new, r, 0, t.spoilt)
  BY <1>1, ClearIs
<1>3. new \in [Cells -> Chars]
  BY <1>1 DEF Chars
<1>4. r * Width + 0 = r * Width /\ 0 \in 0 .. Width - 1
  BY GeometryIs, RowsAre
<1>5. BlankBehind(new, r * Width + 0)
  BY <1>4 DEF BlankBehind
<1> HIDE DEF new
<1> QED
  BY <1>1, <1>2, <1>3, <1>4, <1>5, AtSound, AtIs

LEMMA FillIs ==
  ASSUME NEW t \in Terms, NEW cells, NEW c
  PROVE  Fill(t, cells, c)
           = Term([i \in Cells |-> IF i \in cells THEN c ELSE t.cell[i]], t.col, t.row, t.hw, t.spoilt)
<1> DEFINE new == [i \in Cells |-> IF i \in cells THEN c ELSE t.cell[i]]
<1>1. t = Term(t.cell, t.col, t.row, t.hw, t.spoilt)
  BY TermIs
<1>2. Fill(t, cells, c) = [t EXCEPT !.cell = new]
  BY DEF Fill
<1> HIDE DEF new
<1>3. ASSUME NEW x, NEW col, NEW row, NEW h, NEW sp
      PROVE  [Term(x, col, row, h, sp) EXCEPT !.cell = new] = Term(new, col, row, h, sp)
  BY DEF Term
<1>4. [Term(t.cell, t.col, t.row, t.hw, t.spoilt) EXCEPT !.cell = new]
        = Term(new, t.col, t.row, t.hw, t.spoilt)
  BY <1>3
<1>5. Fill(t, cells, c) = Term(new, t.col, t.row, t.hw, t.spoilt)
  BY <1>1, <1>2, <1>4
<1> QED
  BY <1>5 DEF new

LEMMA FillSound ==
  ASSUME NEW t \in SoundTerms, NEW cells \in {Header, Footer}
  PROVE  /\ Fill(t, cells, Mark) \in SoundTerms
         /\ Fill(t, cells, Mark).row = t.row /\ Fill(t, cells, Mark).spoilt = t.spoilt
         /\ Here(Fill(t, cells, Mark)) = Here(t)
         /\ \A i \in Cells \ cells : Fill(t, cells, Mark).cell[i] = t.cell[i]
<1> DEFINE new == [i \in Cells |-> IF i \in cells THEN Mark ELSE t.cell[i]]
           u == Fill(t, cells, Mark)
<1>1. /\ t \in Terms /\ t.cell \in [Cells -> Chars] /\ t.row \in 0 .. Height - 1
      /\ t.col \in 0 .. Width - 1 /\ t.spoilt \in BOOLEAN
      /\ Here(t) = t.row * Width + t.col /\ t.hw = Here(t)
      /\ BlankBehind(t.cell, Here(t))
  BY SoundIs
<1>2. u = Term(new, t.col, t.row, t.row * Width + t.col, t.spoilt)
  BY <1>1, FillIs
<1>3. u = At(new, t.row, t.col, t.spoilt)
  BY <1>2 DEF At, Term
<1>4. new \in [Cells -> Chars]
  BY <1>1 DEF Chars
<1>5. BlankBehind(new, t.row * Width + t.col)
  BY <1>1 DEF BlankBehind
<1>6. \A i \in Cells \ cells : new[i] = t.cell[i]
  OBVIOUS
<1> HIDE DEF new, u
<1>7. u \in SoundTerms
  BY <1>1, <1>3, <1>4, <1>5, AtSound
<1>8. u.row = t.row /\ u.spoilt = t.spoilt /\ Here(u) = Here(t) /\ u.cell = new
  BY <1>1, <1>3, <1>4, AtIs
<1> QED
  BY <1>6, <1>7, <1>8 DEF u

LEMMA FooterSound ==
  ASSUME NEW t \in SoundTerms
  PROVE  draw_footer(t) \in SoundTerms /\ draw_footer(t).row = t.row
BY FillSound DEF draw_footer

LEMMA ClockSound ==
  ASSUME NEW t \in SoundTerms
  PROVE  /\ update_live_clock(t) \in SoundTerms
         /\ update_live_clock(t).row = t.row /\ update_live_clock(t).spoilt = t.spoilt
         /\ Here(update_live_clock(t)) = Here(t)
         /\ \A i \in Cells \ (Footer \cup Header) : update_live_clock(t).cell[i] = t.cell[i]
<1> DEFINE u == Fill(t, Header, Mark)
           v == Fill(u, Footer, Mark)
<1>1. /\ u \in SoundTerms /\ u.row = t.row /\ u.spoilt = t.spoilt /\ Here(u) = Here(t)
      /\ \A i \in Cells \ Header : u.cell[i] = t.cell[i]
  BY FillSound
<1> HIDE DEF u
<1>2. /\ v \in SoundTerms /\ v.row = u.row /\ v.spoilt = u.spoilt /\ Here(v) = Here(u)
      /\ \A i \in Cells \ Footer : v.cell[i] = u.cell[i]
  BY <1>1, FillSound
<1>3. update_live_clock(t) = v
  BY DEF update_live_clock, draw_footer, u
<1> HIDE DEF v
<1> QED
  BY <1>1, <1>2, <1>3

LEMMA KeysAre == Mark \in Keys /\ NL \in Keys /\ BS \in Keys /\ Blank \in Keys
BY DEF Keys, Chars

LEMMA DashboardSound ==
  ASSUME NEW t \in SoundTerms
  PROVE  draw_dashboard(t) \in SoundTerms /\ draw_dashboard(t).row >= 1
<1> DEFINE rule == <<NL>> \o [i \in 1 .. Width |-> Mark] \o <<NL>>
           u == Fill(terminal_clear_area(t, 0), Header, Mark)
<1>1. u \in SoundTerms
  BY ClearSound, FillSound, GeometryIs
<1>2. rule \in Seq(Keys) /\ Breaks(rule)
  <2> DEFINE marks == [i \in 1 .. Width |-> Mark]
  <2>1. PICK w \in Nat : w = Width
    BY GeometryIs
  <2>2. marks \in Seq(Keys) /\ Len(marks) = w
    BY <2>1, KeysAre
  <2> HIDE DEF marks
  <2>3. <<NL>> \in Seq(Keys) /\ Len(<<NL>>) = 1 /\ <<NL>>[1] = NL
    BY KeysAre
  <2>4. /\ <<NL>> \o marks \in Seq(Keys) /\ Len(<<NL>> \o marks) = w + 1
        /\ (<<NL>> \o marks)[1] = NL
    BY <2>1, <2>2, <2>3
  <2>5. PICK x \in Seq(Keys) : x = <<NL>> \o marks
    BY <2>4
  <2>6. x \o <<NL>> \in Seq(Keys) /\ Len(x \o <<NL>>) = w + 2 /\ (x \o <<NL>>)[1] = NL
    BY <2>1, <2>3, <2>4, <2>5
  <2>7. rule = x \o <<NL>>
    BY <2>5 DEF marks
  <2>8. 1 \in 1 .. w + 2
    BY <2>1
  <2> QED
    BY <2>6, <2>7, <2>8 DEF Breaks
<1>3. draw_dashboard(t) = draw_footer(terminal_writestring(u, rule))
  BY DEF draw_dashboard
<1> HIDE DEF rule, u
<1>4. terminal_writestring(u, rule) \in SoundTerms /\ terminal_writestring(u, rule).row >= 1
  BY <1>1, <1>2, WriteSound
<1> QED
  BY <1>3, <1>4, FooterSound

LEMMA LoginSound ==
  ASSUME NEW t \in SoundTerms
  PROVE  Login(t) \in SoundTerms /\ Login(t).row >= 1
<1> DEFINE title == <<NL, NL, Mark, NL>>
           u == terminal_clear_area(t, 0)
<1>1. u \in SoundTerms
  BY ClearSound, GeometryIs
<1>2. title \in Seq(Keys) /\ Len(title) = 4 /\ title[1] = NL
  BY KeysAre
<1>3. Breaks(title)
  BY <1>2 DEF Breaks
<1>4. Login(t) = draw_footer(terminal_writestring(u, title))
  BY DEF Login
<1> HIDE DEF title, u
<1>5. terminal_writestring(u, title) \in SoundTerms /\ terminal_writestring(u, title).row >= 1
  BY <1>1, <1>2, <1>3, WriteSound
<1> QED
  BY <1>4, <1>5, FooterSound

-----------------------------------------------------------------------------
(* The line on the terminal.                                               *)

TextKeys == Letters \cup {NL}

\* The place behind a character at place q.
After(q, c) == IF c = NL THEN (q \div Width + 1) * Width ELSE q + 1

LEMMA AfterIs ==
  ASSUME NEW q \in Nat, NEW c
  PROVE  After(q, c) \in Nat /\ After(q, c) > q
<1>1. PICK w \in Nat \ {0} : w = Width
  BY GeometryIs
<1>2. PICK d \in Nat, r \in 0 .. w - 1 : d = q \div w /\ q = d * w + r
  BY Quotient
<1>3. d * w \in Nat /\ (d + 1) * w = d * w + w
  OBVIOUS
<1>4. (q \div Width + 1) * Width = d * w + w
  BY <1>1, <1>2, <1>3
<1> QED
  BY <1>1, <1>2, <1>3, <1>4 DEF After

LEMMA PlacesAre ==
  ASSUME NEW p \in Nat, NEW s \in Seq(TextKeys)
  PROVE  /\ Places(p, s) \in [0 .. Len(s) -> Nat]
         /\ Places(p, s)[0] = p
         /\ \A i \in 1 .. Len(s) : Places(p, s)[i] = After(Places(p, s)[i - 1], s[i])
<1> DEFINE len == Len(s)
           Turn(y, i) == After(y, s[i])
           g == [x \in Nat \X (1 .. len) |-> Turn(x[1], x[2])]
           E(f) == f = [n \in 0 .. len |-> IF n = 0 THEN p ELSE Turn(f[n - 1], n)]
           w == Places(p, s)
<1>1. len \in Nat
  OBVIOUS
<1>2. \A y \in Nat, i \in 1 .. len : Turn(y, i) \in Nat
  BY AfterIs
<1>3. w = CHOOSE h : E(h)
  BY DEF Places, After
<1> HIDE DEF Turn, len
<1>4. HasIteration(len, Nat, p, g)
  <2>1. Steps(len, Nat, g)
    BY <1>2 DEF Steps
  <2> HIDE DEF g
  <2> QED
    BY <1>1, <2>1, Iteration
<1>5. PICK f \in [0 .. len -> Nat] :
        f[0] = p /\ \A i \in 1 .. len : f[i] = Turn(f[i - 1], i)
  <2>1. ASSUME NEW y \in Nat, NEW i \in 1 .. len
        PROVE  g[<<y, i>>] = Turn(y, i)
    OBVIOUS
  <2> HIDE DEF g
  <2>2. PICK f \in [0 .. len -> Nat] : f[0] = p /\ \A i \in 1 .. len : f[i] = g[<<f[i - 1], i>>]
    BY <1>4 DEF HasIteration, IsIteration
  <2>3. \A i \in 1 .. len : f[i - 1] \in Nat
    BY <1>1
  <2> QED
    BY <2>1, <2>2, <2>3
<1>6. E(f)
  <2>1. ASSUME NEW n \in 0 .. len, n # 0
        PROVE  f[n] = Turn(f[n - 1], n)
    <3>1. n \in 1 .. len
      BY <1>1, <2>1
    <3> QED
      BY <1>5, <3>1
  <2>2. f = [n \in 0 .. len |-> f[n]]
    OBVIOUS
  <2> QED
    BY <1>5, <2>1, <2>2
<1> HIDE DEF g
<1>7. E(w)
  <2> HIDE DEF E, w
  <2> QED
    BY <1>3, <1>6
<1> HIDE DEF w
<1>8. \A n \in 0 .. len : w[n] = IF n = 0 THEN p ELSE Turn(w[n - 1], n)
  BY <1>7
<1>9. w = [n \in 0 .. len |-> w[n]]
  BY <1>7
<1>10. w[0] = p /\ \A n \in 1 .. len : w[n] = Turn(w[n - 1], n)
  <2>1. 0 \in 0 .. len /\ \A n \in 1 .. len : n \in 0 .. len /\ n # 0
    BY <1>1
  <2> QED
    BY <1>8, <2>1
<1>11. \A n \in 0 .. len : w[n] \in Nat
  <2> DEFINE S == {n \in 0 .. len : w[n] \in Nat}
  <2>1. 0 \in S
    BY <1>1, <1>10
  <2>2. ASSUME NEW n \in 1 .. len, n - 1 \in S
        PROVE  n \in S
    <3>1. w[n] = Turn(w[n - 1], n) /\ w[n - 1] \in Nat
      BY <1>10, <2>2
    <3>2. n \in 0 .. len
      BY <1>1
    <3> QED
      BY <1>2, <3>1, <3>2
  <2> HIDE DEF S
  <2>3. \A n \in 0 .. len : n \in S
    BY <1>1, <2>1, <2>2, Induction
  <2> QED
    BY <2>3 DEF S
<1>12. w \in [0 .. len -> Nat]
  BY <1>9, <1>11
<1> QED
  BY <1>10, <1>12 DEF len, w, Turn

\* The places of the characters of s, the first at p.
ArePlaces(place, n, p, s) ==
  /\ place \in [0 .. n -> Nat]
  /\ place[0] = p
  /\ \A i \in 1 .. n : place[i] = After(place[i - 1], s[i])

LEMMA PlacesGrow ==
  ASSUME NEW n \in Nat, NEW p \in Nat, NEW s, NEW place, ArePlaces(place, n, p, s)
  PROVE  \A j \in 0 .. n : \A i \in 0 .. n : i < j => place[i] < place[j]
<1>1. \A i \in 0 .. n : place[i] \in Nat
  BY DEF ArePlaces
<1> DEFINE S == {j \in 0 .. n : \A i \in 0 .. n : i < j => place[i] < place[j]}
<1>2. 0 \in S
  OBVIOUS
<1>3. ASSUME NEW j \in 1 .. n, j - 1 \in S
      PROVE  j \in S
  <2>1. PICK k \in 0 .. n : k = j - 1 /\ j \in 0 .. n
    OBVIOUS
  <2>2. place[j] = After(place[k], s[j])
    BY <2>1 DEF ArePlaces
  <2>3. place[j] > place[k] /\ place[j] \in Nat /\ place[k] \in Nat
    BY <1>1, <2>1, <2>2, AfterIs
  <2>4. ASSUME NEW i \in 0 .. n, i < j
        PROVE  place[i] < place[j]
    <3>1. i = k \/ i < k
      BY <2>1, <2>4
    <3>2. CASE i < k
      <4>1. place[i] < place[k] /\ place[i] \in Nat
        BY <1>1, <1>3, <2>1, <3>2
      <4>2. PICK a \in Nat, b \in Nat, c \in Nat : a = place[i] /\ b = place[k] /\ c = place[j]
        BY <2>3, <4>1
      <4> QED
        BY <2>3, <4>1, <4>2
    <3> QED
      BY <2>3, <3>1, <3>2
  <2> QED
    BY <2>1, <2>4
<1> HIDE DEF S
<1>4. \A j \in 0 .. n : j \in S
  BY <1>2, <1>3, Induction
<1> QED
  BY <1>4 DEF S

\* The first characters have the same places, whatever follows them.
LEMMA PlacesPrefix ==
  ASSUME NEW n \in Nat, NEW m \in Nat, n <= m, NEW p \in Nat, NEW r, NEW s, NEW f, NEW g,
         ArePlaces(f, n, p, r), ArePlaces(g, m, p, s), \A i \in 1 .. n : r[i] = s[i]
  PROVE  \A i \in 0 .. n : f[i] = g[i]
<1> DEFINE S == {i \in 0 .. n : f[i] = g[i]}
<1>1. 0 \in S
  BY DEF ArePlaces
<1>2. ASSUME NEW i \in 1 .. n, i - 1 \in S
      PROVE  i \in S
  <2>1. i \in 1 .. m /\ i \in 0 .. n /\ f[i - 1] = g[i - 1]
    BY <1>2
  <2>2. f[i] = After(f[i - 1], r[i]) /\ g[i] = After(g[i - 1], s[i]) /\ r[i] = s[i]
    BY <2>1 DEF ArePlaces
  <2> QED
    BY <2>1, <2>2
<1> HIDE DEF S
<1>3. \A i \in 0 .. n : i \in S
  BY <1>1, <1>2, Induction
<1> QED
  BY <1>3 DEF S

\* The terminal shows the first i characters of s, with the cursor behind them.
ShowsAt(cells, q, c) == c # NL /\ q \notin Footer => cells[q] = c
Tracks(t, s, place, i) ==
  t.spoilt \/ (Here(t) = place[i] /\ \A j \in 1 .. i : ShowsAt(t.cell, place[j - 1], s[j]))

\* A character is written behind them.
LEMMA TracksStep ==
  ASSUME NEW n \in Nat, NEW p \in Nat, NEW s, NEW place, ArePlaces(place, n, p, s),
         NEW t \in SoundTerms, NEW i \in 1 .. n, s[i] \in TextKeys,
         Tracks(t, s, place, i - 1)
  PROVE  Tracks(terminal_putc(t, s[i]), s, place, i)
<1> DEFINE u == terminal_putc(t, s[i])
<1>1. s[i] \in Keys
  BY DEF TextKeys, Keys, Chars
<1>2. /\ t \in Terms /\ t.cell \in [Cells -> Chars] /\ t.row \in 0 .. Height - 1
      /\ t.col \in 0 .. Width - 1 /\ t.spoilt \in BOOLEAN
      /\ Here(t) \in Cells /\ Here(t) = t.row * Width + t.col /\ Here(t) \div Width = t.row
  BY SoundIs
<1>3. CASE t.spoilt
  <2>1. u.spoilt
    BY <1>1, <1>3, PutSound
  <2> QED
    BY <2>1 DEF Tracks
<1>4. CASE ~ t.spoilt
  <2>1. Here(t) = place[i - 1] /\ \A j \in 1 .. i - 1 : ShowsAt(t.cell, place[j - 1], s[j])
    BY <1>4 DEF Tracks
  <2>2. place[i] = After(Here(t), s[i])
    BY <2>1 DEF ArePlaces
  <2>3. PICK w \in Nat \ {0}, m \in Nat, h \in Nat :
          /\ w = Width /\ m = t.row * Width /\ h = Height /\ (t.row + 1) * Width = m + w
    <3>1. PICK r \in Nat : r = t.row
      BY <1>2, GeometryIs
    <3>2. r * Width \in Nat /\ (r + 1) * Width = r * Width + Width
      BY RowsAre
    <3> QED
      BY <3>1, <3>2, GeometryIs
  <2>4. \A j \in 1 .. i : j \in 1 .. i - 1 \/ j = i
    OBVIOUS
  <2>5. ASSUME NEW cells, Wrapped(cells) = u
        PROVE  Tracks(u, s, place, i)
    BY <2>5 DEF Tracks, Wrapped, At
  <2>6. CASE s[i] = NL
    <3>1. u = IF t.row + 1 < Height THEN At(t.cell, t.row + 1, 0, t.spoilt) ELSE Wrapped(t.cell)
      BY <1>2, <2>6, PutNewLine
    <3>2. CASE t.row + 1 < Height
      <4>1. t.row + 1 \in 0 .. Height - 1 /\ 0 \in 0 .. Width - 1
        BY <1>2, <3>2, GeometryIs
      <4>2. u.cell = t.cell /\ Here(u) = (t.row + 1) * Width + 0
        BY <1>2, <3>1, <3>2, <4>1, AtIs
      <4>3. Here(u) = place[i]
        BY <1>2, <2>2, <2>3, <2>6, <4>2 DEF After
      <4>4. ShowsAt(u.cell, place[i - 1], s[i])
        BY <2>6 DEF ShowsAt
      <4> QED
        BY <2>1, <2>4, <4>2, <4>3, <4>4 DEF Tracks
    <3> QED
      BY <2>5, <3>1, <3>2
  <2>7. CASE s[i] # NL
    <3> DEFINE new == [t.cell EXCEPT ![Here(t)] = s[i]]
    <3>1. s[i] \in Chars
      BY <2>7 DEF TextKeys, Chars
    <3>2. u = IF t.col + 1 < Width THEN At(new, t.row, t.col + 1, t.spoilt)
              ELSE IF t.row + 1 < Height THEN At(new, t.row + 1, 0, t.spoilt) ELSE Wrapped(new)
      BY <1>2, <3>1, PutPrintable
    <3>3. new \in [Cells -> Chars] /\ new[Here(t)] = s[i]
      BY <1>2, <3>1
    <3>4. ASSUME NEW j \in 1 .. i - 1
          PROVE  ShowsAt(new, place[j - 1], s[j])
      <4>1. j - 1 \in 0 .. n /\ i - 1 \in 0 .. n /\ j - 1 < i - 1
        OBVIOUS
      <4>2. place[j - 1] < place[i - 1] /\ place[i - 1] \in Nat /\ place[j - 1] \in Nat
        BY <4>1, PlacesGrow DEF ArePlaces
      <4>3. PICK a \in Nat, b \in Nat : a = place[j - 1] /\ b = place[i - 1] /\ a # b
        BY <4>2
      <4>4. place[j - 1] # Here(t)
        BY <2>1, <4>3
      <4>5. new[place[j - 1]] = t.cell[place[j - 1]]
        BY <1>2, <4>4
      <4>6. ShowsAt(t.cell, place[j - 1], s[j])
        BY <2>1
      <4> HIDE DEF new
      <4> QED
        BY <4>5, <4>6 DEF ShowsAt
    <3>5. ShowsAt(new, place[i - 1], s[i])
      BY <2>1, <3>3 DEF ShowsAt
    <3> HIDE DEF new
    <3>6. ASSUME NEW r \in 0 .. Height - 1, NEW c \in 0 .. Width - 1,
                 r * Width + c = Here(t) + 1, u = At(new, r, c, t.spoilt)
          PROVE  Tracks(u, s, place, i)
      <4>1. u.cell = new /\ Here(u) = Here(t) + 1
        BY <1>2, <3>3, <3>6, AtIs
      <4>2. Here(u) = place[i]
        BY <2>2, <2>7, <4>1 DEF After
      <4> QED
        BY <2>4, <3>4, <3>5, <4>1, <4>2 DEF Tracks
    <3>7. CASE t.col + 1 < Width
      <4>1. t.col + 1 \in 0 .. Width - 1 /\ t.row * Width + (t.col + 1) = Here(t) + 1
        BY <1>2, <2>3, <3>7
      <4> QED
        BY <1>2, <3>2, <3>6, <3>7, <4>1
    <3>8. CASE ~ (t.col + 1 < Width) /\ t.row + 1 < Height
      <4>1. /\ t.row + 1 \in 0 .. Height - 1 /\ 0 \in 0 .. Width - 1
            /\ (t.row + 1) * Width + 0 = Here(t) + 1
          <5>0. PICK r \in 0 .. h - 1, c \in 0 .. w - 1 : r = t.row /\ c = t.col
          BY <1>2, <2>3
        <5>3. r + 1 < h /\ ~ (c + 1 < w)
          BY <2>3, <3>8, <5>0
        <5>4. r + 1 \in 0 .. h - 1 /\ r + 1 >= 1 /\ c + 1 = w
          BY <5>3
        <5>1. t.row + 1 \in 0 .. h - 1 /\ t.row + 1 >= 1 /\ t.col + 1 = w
          BY <5>0, <5>4
        <5>2. (t.row + 1) * Width + 0 = m + w /\ Here(t) + 1 = m + w
          BY <1>2, <2>3, <5>1
        <5> QED
          BY <2>3, <5>1, <5>2, GeometryIs
      <4> QED
        BY <3>2, <3>6, <3>8, <4>1
    <3> QED
      BY <2>5, <3>2, <3>7, <3>8
  <2> HIDE DEF u
  <2> QED
    BY <2>6, <2>7 DEF u
<1> QED
  BY <1>2, <1>3, <1>4

\* The last character of them is erased.
LEMMA TracksErase ==
  ASSUME NEW n \in Nat \ {0}, NEW p \in Nat, NEW s, NEW place, ArePlaces(place, n, p, s),
         NEW t \in SoundTerms, Tracks(t, s, place, n)
  PROVE  Tracks(terminal_putc(t, BS), s, place, n - 1)
<1> DEFINE u == terminal_putc(t, BS)
<1>2. /\ t \in Terms /\ t.cell \in [Cells -> Chars] /\ t.row \in 0 .. Height - 1
      /\ t.col \in 0 .. Width - 1 /\ t.spoilt \in BOOLEAN
      /\ Here(t) \in Cells /\ Here(t) = t.row * Width + t.col
  BY SoundIs
<1>3. CASE t.spoilt
  <2>1. u.spoilt
    BY <1>3, PutSound, KeysAre
  <2> QED
    BY <2>1 DEF Tracks
<1>4. CASE ~ (t.col > 0)
  <2>1. u = At(t.cell, t.row, 0, TRUE)
    BY <1>2, <1>4, PutBackspace
  <2>2. u.spoilt
    BY <2>1 DEF At
  <2> QED
    BY <2>2 DEF Tracks
<1>5. CASE ~ t.spoilt /\ t.col > 0
  <2>1. Here(t) = place[n] /\ \A j \in 1 .. n : ShowsAt(t.cell, place[j - 1], s[j])
    BY <1>5 DEF Tracks
  <2>2. PICK k \in 0 .. n : k = n - 1
    OBVIOUS
  <2>3. n \in 1 .. n /\ n \in 0 .. n
    OBVIOUS
  <2>4. place[n] = After(place[k], s[n]) /\ place[k] \in Nat
    BY <2>2, <2>3 DEF ArePlaces
  <2>5. s[n] # NL
    <3> SUFFICES ASSUME s[n] = NL
                 PROVE  FALSE
      OBVIOUS
    <3>1. PICK w \in Nat \ {0}, d \in Nat : w = Width /\ d = place[k] \div Width
      BY <2>4, GeometryIs, Quotient
    <3>2. Here(t) = (d + 1) * w
      BY <2>1, <2>4, <3>1 DEF After
    <3>3. PICK r \in Nat, c \in 0 .. w - 1 : r = t.row /\ c = t.col /\ c > 0
      BY <1>2, <1>5, <3>1, GeometryIs
    <3>4. Here(t) = r * w + c
      BY <1>2, <3>1, <3>3
    <3>5. d + 1 \in Nat /\ (d + 1) * w + 0 = r * w + c /\ 0 \in 0 .. w - 1
      <4>1. (d + 1) * w \in Nat
        BY <3>1
      <4> QED
        BY <3>2, <3>4, <4>1
    <3>6. 0 = c
      BY <3>5, CutOnce
    <3> QED
      BY <3>3, <3>6
  <2>6. Here(t) = place[k] + 1
    BY <2>1, <2>4, <2>5 DEF After
  <2>7. Here(t) - 1 = place[k]
    BY <2>4, <2>6
  <2> DEFINE new == [t.cell EXCEPT ![Here(t) - 1] = Blank]
  <2>8. u = At(new, t.row, t.col - 1, t.spoilt)
    BY <1>2, <1>5, PutBackspace
  <2>9. new \in [Cells -> Chars]
    BY <1>2 DEF Chars
  <2>10. t.col - 1 \in 0 .. Width - 1 /\ t.row * Width + (t.col - 1) = Here(t) - 1
    <3>1. PICK w \in Nat \ {0}, m \in Nat : w = Width /\ m = t.row * Width
      <4>1. PICK r \in Nat : r = t.row
        BY <1>2, GeometryIs
      <4> QED
        BY <4>1, GeometryIs, RowsAre
    <3> QED
      BY <1>2, <1>5, <3>1
  <2>11. ASSUME NEW j \in 1 .. n - 1
         PROVE  ShowsAt(new, place[j - 1], s[j])
    <3>1. j - 1 \in 0 .. n /\ j - 1 < k /\ j \in 1 .. n
      BY <2>2
    <3>2. place[j - 1] < place[k]
      BY <3>1, PlacesGrow
    <3>3. place[j - 1] # Here(t) - 1
      <4>1. PICK a \in Nat, b \in Nat : a = place[j - 1] /\ b = place[k] /\ a # b
        BY <2>4, <3>1, <3>2 DEF ArePlaces
      <4> QED
        BY <2>7, <4>1
    <3>4. new[place[j - 1]] = t.cell[place[j - 1]]
      BY <1>2, <3>3
    <3>5. ShowsAt(t.cell, place[j - 1], s[j])
      BY <2>1, <3>1
    <3> HIDE DEF new
    <3> QED
      BY <3>4, <3>5 DEF ShowsAt
  <2> HIDE DEF new
  <2>12. u.cell = new /\ Here(u) = Here(t) - 1
    BY <1>2, <2>8, <2>9, <2>10, AtIs
  <2> HIDE DEF u
  <2>13. Here(u) = place[n - 1]
    BY <2>2, <2>7, <2>12
  <2>14. Tracks(u, s, place, n - 1)
    BY <2>11, <2>12, <2>13 DEF Tracks
  <2> QED
    BY <2>14 DEF u
<1> QED
  BY <1>2, <1>3, <1>4, <1>5

\* The clock and the footer are drawn.
LEMMA TracksClock ==
  ASSUME NEW n \in Nat, NEW p \in Nat, p >= Width, NEW s, NEW place, ArePlaces(place, n, p, s),
         NEW t \in SoundTerms, Tracks(t, s, place, n)
  PROVE  Tracks(update_live_clock(t), s, place, n)
<1> DEFINE u == update_live_clock(t)
<1>1. /\ u.spoilt = t.spoilt /\ Here(u) = Here(t)
      /\ \A i \in Cells \ (Footer \cup Header) : u.cell[i] = t.cell[i]
  BY ClockSound
<1>2. t.spoilt \in BOOLEAN /\ Here(t) \in Cells
  BY SoundIs
<1> HIDE DEF u
<1>3. CASE t.spoilt
  BY <1>1, <1>3 DEF Tracks, u
<1>4. CASE ~ t.spoilt
  <2>1. Here(t) = place[n] /\ \A j \in 1 .. n : ShowsAt(t.cell, place[j - 1], s[j])
    BY <1>4 DEF Tracks
  <2>2. ASSUME NEW j \in 1 .. n
        PROVE  ShowsAt(u.cell, place[j - 1], s[j])
    <3>1. PICK k \in 0 .. n : k = j - 1 /\ k < n /\ (k = 0 \/ 0 < k)
      OBVIOUS
    <3>2. place[k] \in Nat /\ place[0] = p /\ place[n] \in Nat
      BY DEF ArePlaces
    <3>3. 0 \in 0 .. n /\ n \in 0 .. n
      OBVIOUS
    <3>4. place[k] < place[n] /\ (0 < k => place[0] < place[k])
      BY <3>1, <3>3, PlacesGrow
    <3>5. PICK q \in Nat, e \in Nat : q = place[k] /\ e = place[n] /\ q < e /\ p <= q
      BY <3>1, <3>2, <3>4
    <3>6. PICK w \in Nat \ {0} : w = Width
      BY GeometryIs
    <3>7. q \in Cells
      <4>1. PICK size \in Nat : Cells = 0 .. size - 1
        BY GeometryIs DEF Cells
      <4> QED
        BY <1>2, <2>1, <3>5, <4>1
    <3>8. q \notin Header
      <4> SUFFICES ASSUME q \in Header
                   PROVE  FALSE
        OBVIOUS
      <4>1. q \div w = 0
        BY <3>6 DEF Header, Row
      <4>2. PICK d \in Nat, r \in 0 .. w - 1 : d = q \div w /\ q = d * w + r
        BY Quotient
      <4>3. q = r
        BY <4>1, <4>2
      <4> QED
        BY <3>5, <3>6, <4>3
    <3>9. q \notin Footer => u.cell[q] = t.cell[q]
      BY <1>1, <3>7, <3>8
    <3>10. ShowsAt(t.cell, q, s[j])
      BY <2>1, <3>1, <3>5
    <3>11. ShowsAt(u.cell, q, s[j])
      BY <3>9, <3>10 DEF ShowsAt
    <3> QED
      BY <3>1, <3>5, <3>11
  <2> QED
    BY <1>1, <2>1, <2>2 DEF Tracks, u
<1> QED
  BY <1>2, <1>3, <1>4

-----------------------------------------------------------------------------
(* The invariant of the terminal.                                          *)

\* The line and the terminal belong together.
Follows(t, s, p) == Tracks(t, s, Places(p, s), Len(s))
LineTexts == {s \in Seq(TextKeys) : Len(s) <= MaxLine}

ScreenInv ==
  /\ mode \in {"login", "shell", "editor"}
  /\ line \in LineTexts
  /\ start \in Cells /\ start >= Width
  /\ term \in SoundTerms /\ term.row >= 1
  /\ Follows(term, line, start)

LEMMA PlacesHold ==
  ASSUME NEW p \in Nat, NEW s \in Seq(TextKeys)
  PROVE  ArePlaces(Places(p, s), Len(s), p, s)
BY PlacesAre DEF ArePlaces

\* A position below the header.
LEMMA BelowHeader ==
  ASSUME NEW t \in SoundTerms, t.row >= 1
  PROVE  Here(t) \in Cells /\ Here(t) \in Nat /\ Here(t) >= Width
<1>1. Here(t) \in Cells /\ Here(t) = t.row * Width + t.col /\ t.row \in 0 .. Height - 1
      /\ t.col \in 0 .. Width - 1
  BY SoundIs
<1>2. PICK w \in Nat \ {0}, r \in Nat, c \in Nat : w = Width /\ r + 1 = t.row /\ c = t.col
  <2>1. t.row - 1 \in Nat /\ t.row - 1 + 1 = t.row /\ t.col \in Nat
    BY <1>1, GeometryIs
  <2> QED
    BY <2>1, GeometryIs
<1>3. (r + 1) * w = r * w + w /\ r * w \in Nat
  OBVIOUS
<1>4. Here(t) = r * w + w + c
  BY <1>1, <1>2, <1>3
<1> QED
  BY <1>1, <1>2, <1>3, <1>4

\* An empty line follows any cursor.
LEMMA FollowsEmpty ==
  ASSUME NEW t \in SoundTerms
  PROVE  Follows(t, <<>>, Here(t))
<1>1. <<>> \in Seq(TextKeys) /\ Len(<<>>) = 0
  OBVIOUS
<1>2. PICK p \in Nat : p = Here(t)
  <2>1. Here(t) \in Cells
    BY SoundIs
  <2> QED
    BY <2>1, GeometryIs DEF Cells
<1>3. ArePlaces(Places(p, <<>>), 0, p, <<>>)
  BY <1>1, PlacesHold
<1>4. Places(p, <<>>)[0] = p
  BY <1>3 DEF ArePlaces
<1> QED
  BY <1>1, <1>2, <1>4 DEF Follows, Tracks

\* A text that is written at the cursor follows it.
LEMMA FollowsText ==
  ASSUME NEW t \in SoundTerms, NEW s \in Seq(TextKeys)
  PROVE  Follows(terminal_writestring(t, s), s, Here(t))
<1> DEFINE n == Len(s)
           w == Written(t, s)
<1>1. PICK p \in Nat : p = Here(t)
  <2>1. Here(t) \in Cells
    BY SoundIs
  <2> QED
    BY <2>1, GeometryIs DEF Cells
<1> DEFINE place == Places(p, s)
<1>2. n \in Nat /\ \A i \in 1 .. n : s[i] \in TextKeys
  OBVIOUS
<1>3. s \in Seq(Keys)
  BY DEF TextKeys, Keys, Chars
<1>4. /\ w \in [0 .. n -> SoundTerms] /\ w[0] = t
      /\ \A i \in 1 .. n : w[i] = terminal_putc(w[i - 1], s[i])
  BY <1>3, WrittenIs
<1>5. ArePlaces(place, n, p, s)
  BY PlacesHold
<1>6. terminal_writestring(t, s) = w[n]
  BY DEF terminal_writestring
<1> HIDE DEF n, w, place
<1> DEFINE S == {i \in 0 .. n : Tracks(w[i], s, place, i)}
<1>7. 0 \in S
  <2>1. Tracks(t, s, place, 0)
    BY <1>1, <1>5 DEF Tracks, ArePlaces
  <2> QED
    BY <1>2, <1>4, <2>1
<1>8. ASSUME NEW i \in 1 .. n, i - 1 \in S
      PROVE  i \in S
  <2>1. i \in 0 .. n /\ i - 1 \in 0 .. n
    BY <1>2
  <2>2. w[i - 1] \in SoundTerms /\ w[i] = terminal_putc(w[i - 1], s[i]) /\ s[i] \in TextKeys
    BY <1>2, <1>4, <2>1
  <2>3. Tracks(w[i - 1], s, place, i - 1)
    BY <1>8
  <2>4. Tracks(terminal_putc(w[i - 1], s[i]), s, place, i)
    BY <1>2, <1>5, <2>2, <2>3, TracksStep
  <2> QED
    BY <2>1, <2>2, <2>4
<1> HIDE DEF S
<1>9. n \in S
  <2>1. \A i \in 0 .. n : i \in S
    BY <1>2, <1>7, <1>8, Induction
  <2> QED
    BY <1>2, <2>1
<1>10. Tracks(w[n], s, place, n)
  BY <1>9 DEF S
<1> QED
  BY <1>1, <1>6, <1>10 DEF Follows, place, n

\* A line begins on any sound terminal.
LEMMA BeginInv ==
  ASSUME NEW m \in {"login", "shell", "editor"}, NEW t \in SoundTerms, t.row >= 1,
         NEW s \in LineTexts, Begin(m, t, s)
  PROVE  ScreenInv'
<1> DEFINE u == [t EXCEPT !.spoilt = FALSE]
<1>1. /\ t = Term(t.cell, t.col, t.row, t.hw, t.spoilt)
      /\ t.cell \in [Cells -> Chars] /\ t.row \in 0 .. Height - 1 /\ t.col \in 0 .. Width - 1
      /\ t.hw = t.row * Width + t.col /\ BlankBehind(t.cell, t.row * Width + t.col)
  BY SoundIs, TermIs
<1>2. u = At(t.cell, t.row, t.col, FALSE)
  <2>2. [Term(t.cell, t.col, t.row, t.hw, t.spoilt) EXCEPT !.spoilt = FALSE]
          = Term(t.cell, t.col, t.row, t.hw, FALSE)
    BY UnspoilIs
  <2>3. u = Term(t.cell, t.col, t.row, t.row * Width + t.col, FALSE)
    BY <1>1, <2>2
  <2> QED
    BY <2>3 DEF Term, At
<1> HIDE DEF u
<1>3. u \in SoundTerms /\ u.row = t.row
  <2>1. u \in SoundTerms
    BY <1>1, <1>2, AtSound
  <2> QED
    BY <1>2, <2>1 DEF At
<1>4. mode' = m /\ line' = s /\ start' = Here(u) /\ term' = terminal_writestring(u, s)
  BY DEF Begin, u
<1>5. s \in Seq(TextKeys) /\ s \in Seq(Keys)
  BY DEF LineTexts, TextKeys, Keys, Chars
<1>6. term' \in SoundTerms /\ term'.row >= 1
  BY <1>3, <1>4, <1>5, WriteSound
<1>7. Follows(term', line', start')
  BY <1>3, <1>4, <1>5, FollowsText
<1>8. start' \in Cells /\ start' >= Width
  BY <1>3, <1>4, BelowHeader
<1> QED
  BY <1>4, <1>6, <1>7, <1>8 DEF ScreenInv

LEMMA PromptInv ==
  ASSUME NEW m \in {"login", "shell", "editor"}, NEW t \in SoundTerms, t.row >= 1, PromptOn(m, t)
  PROVE  ScreenInv'
<1> DEFINE u == terminal_writestring(t, Prompt)
<1>1. Prompt \in Seq(Keys)
  BY KeysAre DEF Prompt
<1>2. u \in SoundTerms /\ u.row >= 1
  BY <1>1, WriteSound
<1>3. <<>> \in LineTexts
  <2>1. <<>> \in Seq(TextKeys) /\ Len(<<>>) = 0
    OBVIOUS
  <2> QED
    BY <2>1, TextAssumption DEF LineTexts
<1>4. Begin(m, u, <<>>)
  BY DEF PromptOn
<1> HIDE DEF u
<1> QED
  BY <1>2, <1>3, <1>4, BeginInv

\* The first characters of a text follow as they do within a longer one.
LEMMA FollowsPrefix ==
  ASSUME NEW p \in Nat, NEW r \in Seq(TextKeys), NEW s \in Seq(TextKeys),
         Len(r) <= Len(s), \A i \in 1 .. Len(r) : r[i] = s[i], NEW t
  PROVE  Follows(t, r, p) <=> Tracks(t, s, Places(p, s), Len(r))
<1>1. PICK n \in Nat, m \in Nat : n = Len(r) /\ m = Len(s) /\ n <= m
  OBVIOUS
<1>2. PICK f, g : f = Places(p, r) /\ g = Places(p, s)
  OBVIOUS
<1>3. ArePlaces(f, n, p, r) /\ ArePlaces(g, m, p, s)
  BY <1>1, <1>2, PlacesHold
<1>4. \A i \in 1 .. n : r[i] = s[i]
  BY <1>1
<1>5. \A i \in 0 .. n : f[i] = g[i]
  BY <1>1, <1>3, <1>4, PlacesPrefix
<1>6. \A i \in 1 .. n : i - 1 \in 0 .. n
  BY <1>1
<1>7. n \in 0 .. n
  BY <1>1
<1>8. Tracks(t, r, f, n) <=> Tracks(t, s, g, n)
  BY <1>4, <1>5, <1>6, <1>7 DEF Tracks
<1> QED
  BY <1>1, <1>2, <1>8 DEF Follows

LEMMA StartIs ==
  ASSUME ScreenInv
  PROVE  start \in Nat /\ start \in Cells /\ start >= Width
BY GeometryIs DEF ScreenInv, Cells

LEMMA TypeStep ==
  ASSUME ScreenInv, NEW c \in Letters \cup {NL}, Type(c)
  PROVE  ScreenInv'
<1>1. /\ mode \in {"login", "shell", "editor"} /\ line \in Seq(TextKeys)
      /\ term \in SoundTerms /\ term.row >= 1 /\ Follows(term, line, start)
  BY DEF ScreenInv, LineTexts
<1>2. /\ Len(line) < MaxLine /\ line' = Append(line, c) /\ term' = terminal_putc(term, c)
      /\ mode' = mode /\ start' = start
  BY DEF Type
<1>3. c \in TextKeys /\ c \in Keys
  BY DEF TextKeys, Keys, Chars
<1>20. PICK m \in Nat : m = Len(line)
  BY <1>1
<1>21. PICK s : s = Append(line, c)
  OBVIOUS
<1>22. /\ s \in Seq(TextKeys) /\ Len(s) = m + 1 /\ s[m + 1] = c
       /\ \A i \in 1 .. m : s[i] = line[i]
  BY <1>1, <1>3, <1>20, <1>21
<1>23. PICK n \in Nat : n = m + 1 /\ m = n - 1
  BY <1>20
<1>24. PICK k \in 1 .. n : k = n
  BY <1>20, <1>23
<1>4. /\ s \in Seq(TextKeys) /\ s = Append(line, c) /\ n = Len(s) /\ k = n
      /\ Len(line) = n - 1 /\ s[k] = c
      /\ \A i \in 1 .. n - 1 : s[i] = line[i]
  BY <1>20, <1>21, <1>22, <1>23, <1>24
<1>5. start \in Nat /\ start \in Cells /\ start >= Width
  BY StartIs
<1>6. PICK place : place = Places(start, s) /\ ArePlaces(place, n, start, s)
  BY <1>4, <1>5, PlacesHold
<1>7. Tracks(term, s, place, n - 1)
  <2>1. Len(line) <= Len(s) /\ \A i \in 1 .. Len(line) : line[i] = s[i]
    BY <1>4
  <2>2. Tracks(term, s, Places(start, s), Len(line))
    BY <1>1, <1>4, <1>5, <2>1, FollowsPrefix
  <2> QED
    BY <1>4, <1>6, <2>2
<1>8. Tracks(terminal_putc(term, s[k]), s, place, n)
  <2>1. s[k] \in TextKeys /\ Tracks(term, s, place, k - 1)
    BY <1>3, <1>4, <1>7
  <2> QED
    BY <1>1, <1>4, <1>5, <1>6, <2>1, TracksStep
<1>9. Follows(term', line', start')
  BY <1>2, <1>4, <1>6, <1>8 DEF Follows
<1>10. term' \in SoundTerms /\ term'.row >= 1
  BY <1>1, <1>2, <1>3, PutSound
<1>11. line' \in LineTexts
  BY <1>2, <1>4, TextAssumption DEF LineTexts
<1> QED
  BY <1>1, <1>2, <1>5, <1>9, <1>10, <1>11 DEF ScreenInv

LEMMA BackspaceStep ==
  ASSUME ScreenInv, Backspace
  PROVE  ScreenInv'
<1>1. /\ mode \in {"login", "shell", "editor"} /\ line \in Seq(TextKeys) /\ Len(line) <= MaxLine
      /\ term \in SoundTerms /\ term.row >= 1 /\ Follows(term, line, start)
  BY DEF ScreenInv, LineTexts
<1>2. /\ line # <<>> /\ line' = Front(line) /\ term' = terminal_putc(term, BS)
      /\ mode' = mode /\ start' = start
  BY DEF Backspace
<1>3. PICK r \in Seq(TextKeys), n \in Nat \ {0} :
        /\ r = Front(line) /\ n = Len(line) /\ Len(r) = n - 1
        /\ \A i \in 1 .. n - 1 : r[i] = line[i]
  <2>1. PICK n \in Nat \ {0} : n = Len(line)
    BY <1>1, <1>2
  <2>2. Front(line) = SubSeq(line, 1, n - 1)
    BY <2>1 DEF Front
  <2>3. /\ SubSeq(line, 1, n - 1) \in Seq(TextKeys) /\ Len(SubSeq(line, 1, n - 1)) = n - 1
        /\ \A i \in 1 .. n - 1 : SubSeq(line, 1, n - 1)[i] = line[i]
    BY <1>1, <2>1
  <2> QED
    BY <2>1, <2>2, <2>3
<1>4. start \in Nat /\ start \in Cells /\ start >= Width
  BY StartIs
<1>5. PICK place : place = Places(start, line) /\ ArePlaces(place, n, start, line)
  BY <1>1, <1>3, <1>4, PlacesHold
<1>6. Tracks(term, line, place, n)
  BY <1>1, <1>3, <1>5 DEF Follows
<1>7. Tracks(terminal_putc(term, BS), line, place, n - 1)
  BY <1>1, <1>3, <1>4, <1>5, <1>6, TracksErase
<1>8. Follows(term', r, start)
  <2>1. Len(r) <= Len(line) /\ \A i \in 1 .. Len(r) : r[i] = line[i]
    BY <1>3
  <2>2. Tracks(term', line, Places(start, line), Len(r))
    BY <1>2, <1>3, <1>5, <1>7
  <2> QED
    BY <1>1, <1>3, <1>4, <2>1, <2>2, FollowsPrefix
<1>9. term' \in SoundTerms /\ term'.row >= 1
  BY <1>1, <1>2, PutSound, KeysAre
<1>10. line' \in LineTexts
  BY <1>1, <1>2, <1>3, TextAssumption DEF LineTexts
<1> QED
  BY <1>1, <1>2, <1>3, <1>4, <1>8, <1>9, <1>10 DEF ScreenInv

LEMMA LiveClockStep ==
  ASSUME ScreenInv, LiveClock
  PROVE  ScreenInv'
<1>1. /\ mode \in {"login", "shell", "editor"} /\ line \in LineTexts /\ line \in Seq(TextKeys)
      /\ term \in SoundTerms /\ term.row >= 1 /\ Follows(term, line, start)
  BY DEF ScreenInv, LineTexts
<1>2. term' = update_live_clock(term) /\ mode' = mode /\ line' = line /\ start' = start
  BY DEF LiveClock
<1>3. start \in Nat /\ start \in Cells /\ start >= Width
  BY StartIs
<1>4. PICK n, place :
        /\ n \in Nat /\ n = Len(line) /\ place = Places(start, line)
        /\ ArePlaces(place, n, start, line)
  BY <1>1, <1>3, PlacesHold
<1>5. Tracks(update_live_clock(term), line, place, n)
  BY <1>1, <1>3, <1>4, TracksClock DEF Follows
<1>6. Follows(term', line', start')
  BY <1>2, <1>4, <1>5 DEF Follows
<1>7. term' \in SoundTerms /\ term'.row >= 1
  BY <1>1, <1>2, ClockSound
<1> QED
  BY <1>1, <1>2, <1>3, <1>6, <1>7 DEF ScreenInv

\* The new line of a line that is entered.
LEMMA EnteredSound ==
  ASSUME ScreenInv
  PROVE  terminal_putc(term, NL) \in SoundTerms /\ terminal_putc(term, NL).row >= 1
BY PutSound, KeysAre DEF ScreenInv

LEMMA EnterAtLoginStep ==
  ASSUME ScreenInv, EnterAtLogin
  PROVE  ScreenInv'
<1> DEFINE t == terminal_putc(term, NL)
           denied == <<Mark, NL, NL>>
<1>1. t \in SoundTerms /\ t.row >= 1
  BY EnteredSound
<1>2. <<>> \in Seq(Keys) /\ denied \in Seq(Keys)
  BY KeysAre
<1>3. \/ \E out \in {<<>>, denied} : PromptOn("login", terminal_writestring(t, out))
      \/ PromptOn("shell", draw_dashboard(t))
  BY DEF EnterAtLogin
<1> HIDE DEF t, denied
<1>4. ASSUME NEW out \in {<<>>, denied}, PromptOn("login", terminal_writestring(t, out))
      PROVE  ScreenInv'
  <2>1. terminal_writestring(t, out) \in SoundTerms /\ terminal_writestring(t, out).row >= 1
    BY <1>1, <1>2, WriteSound
  <2> QED
    BY <1>4, <2>1, PromptInv
<1>5. CASE PromptOn("shell", draw_dashboard(t))
  BY <1>1, <1>5, DashboardSound, PromptInv
<1> QED
  BY <1>3, <1>4, <1>5

LEMMA CommandStep ==
  ASSUME ScreenInv, Command
  PROVE  ScreenInv'
<1> DEFINE t == terminal_putc(term, NL)
           clear == terminal_clear_area(t, WorkTop)
           top == terminal_clear_area(t, 0)
           said == <<Mark, NL>>
           skip == <<NL>>
<1>1. t \in SoundTerms /\ t.row >= 1
  BY EnteredSound
<1>2. <<>> \in Seq(Keys) /\ said \in Seq(Keys) /\ skip \in Seq(Keys)
  BY KeysAre
<1>3. clear \in SoundTerms /\ clear.row >= 1 /\ top \in SoundTerms
  <2> HIDE DEF t
  <2> QED
    BY <1>1, ClearSound, GeometryIs
<1>4. \/ \E u \in {t, clear}, out \in {<<>>, said} : PromptOn("shell", terminal_writestring(u, out))
      \/ PromptOn("login", terminal_writestring(Login(t), skip))
      \/ \E s \in Texts : Begin("editor", terminal_writestring(top, EditorTitle), s)
  BY DEF Command
<1> HIDE DEF t, clear, top, said, skip
<1>5. ASSUME NEW u \in {t, clear}, NEW out \in {<<>>, said},
             PromptOn("shell", terminal_writestring(u, out))
      PROVE  ScreenInv'
  <2>1. terminal_writestring(u, out) \in SoundTerms /\ terminal_writestring(u, out).row >= 1
    BY <1>1, <1>2, <1>3, WriteSound
  <2> QED
    BY <1>5, <2>1, PromptInv
<1>6. CASE PromptOn("login", terminal_writestring(Login(t), skip))
  <2>1. Login(t) \in SoundTerms /\ Login(t).row >= 1
    BY <1>1, LoginSound
  <2>2. /\ terminal_writestring(Login(t), skip) \in SoundTerms
        /\ terminal_writestring(Login(t), skip).row >= 1
    BY <1>2, <2>1, WriteSound
  <2> QED
    BY <1>6, <2>2, PromptInv
<1>7. ASSUME NEW s \in Texts, Begin("editor", terminal_writestring(top, EditorTitle), s)
      PROVE  ScreenInv'
  <2>1. EditorTitle \in Seq(Keys) /\ Len(EditorTitle) = 5 /\ EditorTitle[2] = NL
    BY KeysAre DEF EditorTitle
  <2>2. Breaks(EditorTitle)
    BY <2>1 DEF Breaks
  <2>3. /\ terminal_writestring(top, EditorTitle) \in SoundTerms
        /\ terminal_writestring(top, EditorTitle).row >= 1
    BY <1>3, <2>1, <2>2, WriteSound
  <2>4. s \in LineTexts
    BY TextAssumption DEF LineTexts, TextKeys
  <2> QED
    BY <1>7, <2>3, <2>4, BeginInv
<1> QED
  BY <1>4, <1>5, <1>6, <1>7

LEMMA LeaveEditorStep ==
  ASSUME ScreenInv, LeaveEditor
  PROVE  ScreenInv'
<1>1. PromptOn("shell", draw_dashboard(terminal_clear_area(term, 0)))
  BY DEF LeaveEditor
<1>2. terminal_clear_area(term, 0) \in SoundTerms
  BY ClearSound, GeometryIs DEF ScreenInv
<1> QED
  BY <1>1, <1>2, DashboardSound, PromptInv

LEMMA ScreenInit == Init => ScreenInv
<1> SUFFICES ASSUME Init
             PROVE  ScreenInv
  OBVIOUS
<1> DEFINE dark == [i \in Cells |-> Blank]
           prompt == <<NL>> \o Prompt
<1>1. Blanks \in SoundTerms
  <2>1. dark \in [Cells -> Chars]
    BY DEF Chars
  <2>2. 0 * Width + 0 = 0 /\ 0 \in 0 .. Height - 1 /\ 0 \in 0 .. Width - 1
    BY GeometryIs
  <2>3. BlankBehind(dark, 0 * Width + 0)
    BY DEF BlankBehind
  <2> HIDE DEF dark
  <2>4. At(dark, 0, 0, FALSE) \in SoundTerms
    BY <2>1, <2>2, <2>3, AtSound
  <2>5. Blanks = At(dark, 0, 0, FALSE)
    BY <2>2 DEF Blanks, At, dark
  <2> QED
    BY <2>4, <2>5
<1>2. prompt \in Seq(Keys)
  <2>1. <<NL>> \in Seq(Keys) /\ Prompt \in Seq(Keys)
    BY KeysAre DEF Prompt
  <2> QED
    BY <2>1
<1>3. mode = "login" /\ line = <<>> /\ term = terminal_writestring(Login(Blanks), prompt)
      /\ start = Here(term)
  BY DEF Init
<1> HIDE DEF prompt
<1>4. term \in SoundTerms /\ term.row >= 1
  BY <1>1, <1>2, <1>3, LoginSound, WriteSound
<1>5. start \in Cells /\ start >= Width
  BY <1>3, <1>4, BelowHeader
<1>6. Follows(term, line, start)
  BY <1>3, <1>4, FollowsEmpty
<1>7. line \in LineTexts
  <2>1. <<>> \in Seq(TextKeys) /\ Len(<<>>) = 0
    OBVIOUS
  <2> QED
    BY <1>3, <2>1, TextAssumption DEF LineTexts
<1> QED
  BY <1>3, <1>4, <1>5, <1>6, <1>7 DEF ScreenInv

LEMMA ScreenNext == ScreenInv /\ [Next]_vars => ScreenInv'
<1> SUFFICES ASSUME ScreenInv, [Next]_vars
             PROVE  ScreenInv'
  OBVIOUS
<1>1. ASSUME NEW c \in Letters \cup {NL}, Type(c)
      PROVE  ScreenInv'
  BY <1>1, TypeStep
<1>2. CASE Backspace
  BY <1>2, BackspaceStep
<1>3. CASE EnterAtLogin
  BY <1>3, EnterAtLoginStep
<1>4. CASE Command
  BY <1>4, CommandStep
<1>5. CASE LeaveEditor
  BY <1>5, LeaveEditorStep
<1>6. CASE LiveClock
  BY <1>6, LiveClockStep
<1>7. CASE UNCHANGED vars
  BY <1>7 DEF vars, ScreenInv
<1> QED
  BY <1>1, <1>2, <1>3, <1>4, <1>5, <1>6, <1>7 DEF Next

LEMMA ScreenInvariance == Spec => []ScreenInv
BY ScreenInit, ScreenNext, PTL DEF Spec

\* The cursor is on the screen, below the header, where the hardware shows it, after
\* any sequence of outputs, keys and overlays, for every geometry.
THEOREM CursorIsOnScreen == Spec => []TypeOK
<1>1. ScreenInv => TypeOK
  <2> SUFFICES ASSUME ScreenInv
               PROVE  TypeOK
    OBVIOUS
  <2>1. term \in SoundTerms /\ term.row >= 1
    BY DEF ScreenInv
  <2>2. /\ term.cell \in [Cells -> Chars] /\ term.col \in 0 .. Width - 1
        /\ term.row \in 0 .. Height - 1 /\ term.hw = Here(term)
    BY <2>1, SoundIs
  <2>3. term.row \in 1 .. Height - 1
    BY <2>1, <2>2, GeometryIs
  <2> QED
    BY <2>2, <2>3 DEF TypeOK, ScreenInv, LineTexts, TextKeys
<1> QED
  BY <1>1, ScreenInvariance, PTL

\* The screen shows the line that the kernel has, with the cursor behind it, unless
\* the bottom was reached or an erase went over the start of a row.
THEOREM ScreenShowsLine == Spec => []LineIsShown
<1>1. ScreenInv => LineIsShown
  <2> SUFFICES ASSUME ScreenInv, ~ term.spoilt
               PROVE  LET place == Places(start, line) IN
                        /\ Here(term) = place[Len(line)]
                        /\ \A i \in DOMAIN line :
                             line[i] # NL /\ place[i - 1] \notin Footer
                               => term.cell[place[i - 1]] = line[i]
    BY DEF LineIsShown
  <2>1. Tracks(term, line, Places(start, line), Len(line)) /\ line \in Seq(TextKeys)
    BY DEF ScreenInv, Follows, LineTexts
  <2>2. DOMAIN line = 1 .. Len(line)
    BY <2>1
  <2> QED
    BY <2>1, <2>2 DEF Tracks, ShowsAt
<1> QED
  BY <1>1, ScreenInvariance, PTL

\* Nothing but the footer is shown behind the cursor.
THEOREM NothingBehindCursor == Spec => []BlankBehindCursor
<1>1. ScreenInv => BlankBehindCursor
  <2> SUFFICES ASSUME ScreenInv, NEW i \in Cells \ Footer, i >= Here(term)
               PROVE  term.cell[i] = Blank
    BY DEF BlankBehindCursor
  <2>1. term \in SoundTerms /\ term.row >= 1
    BY DEF ScreenInv
  <2>2. Here(term) \in Nat /\ Here(term) >= Width /\ BlankBehind(term.cell, Here(term))
    BY <2>1, BelowHeader, SoundIs
  <2>3. PICK w \in Nat \ {0}, k \in Nat, p \in Nat :
          w = Width /\ k = i /\ p = Here(term) /\ k >= p /\ p >= w
    <3>1. PICK size \in Nat : Cells = 0 .. size - 1
      BY GeometryIs DEF Cells
    <3>2. PICK k \in Nat, p \in Nat : k = i /\ p = Here(term)
      BY <2>2, <3>1
    <3> QED
      BY <2>2, <3>2, GeometryIs
  <2>4. i \notin Header
    <3> SUFFICES ASSUME i \in Header
                 PROVE  FALSE
      OBVIOUS
    <3>1. k \div w = 0
      BY <2>3 DEF Header, Row
    <3>2. PICK d \in Nat, r \in 0 .. w - 1 : d = k \div w /\ k = d * w + r
      BY Quotient
    <3>3. k = r
      BY <3>1, <3>2
    <3> QED
      BY <2>3, <3>3
  <2> QED
    BY <2>2, <2>4 DEF BlankBehind
<1> QED
  BY <1>1, ScreenInvariance, PTL

-----------------------------------------------------------------------------
(* The words of the shell.                                                 *)

LEMMA Remainder ==
  ASSUME NEW m \in Nat \ {0}, NEW n \in Int, 0 - m <= n, n <= m
  PROVE  n % m = IF n < 0 THEN n + m ELSE IF n < m THEN n ELSE 0
<1> DEFINE q == n \div m
           r == n % m
<1>1. q \in Int /\ r \in 0 .. m - 1 /\ n = m * q + r
  OBVIOUS
<1> HIDE DEF q, r
<1>2. q = -1 \/ q = 0 \/ q = 1
  <2>1. CASE q < -1
    <3>1. m * q <= 0 - (2 * m)
      BY <1>1, <2>1
    <3> QED
      BY <1>1, <3>1
  <2>2. CASE q > 1
    <3>1. m * q >= 2 * m
      BY <1>1, <2>2
    <3> QED
      BY <1>1, <3>1
  <2> QED
    BY <1>1, <2>1, <2>2
<1>3. r = IF n < 0 THEN n + m ELSE IF n < m THEN n ELSE 0
  BY <1>1, <1>2
<1> QED
  BY <1>3 DEF r

LEMMA IntIs ==
  /\ IntMin \in Int /\ IntMax \in Int /\ IntMin < -1 /\ IntMax = 0 - IntMin - 1
  /\ Word \in Nat \ {0} /\ Word = 0 - 2 * IntMin
<1>1. Word \in Nat /\ Word % 4 = 0 /\ Word > 40
  BY ShellAssumption
<1>2. PICK h \in Nat : Word = 2 * h /\ h = Word \div 2 /\ h > 20
  BY <1>1
<1> QED
  BY <1>2 DEF IntMin, IntMax

\* A number that fits an int is not changed.
LEMMA WrapKeeps ==
  ASSUME NEW n \in IntMin .. IntMax
  PROVE  WrapInt(n) = n
<1>1. PICK lo \in Int, w \in Nat \ {0} : lo = IntMin /\ w = Word /\ IntMax = 0 - lo - 1 /\ w = 0 - 2 * lo
  BY IntIs
<1>2. n \in Int /\ lo <= n /\ n <= 0 - lo - 1
  BY <1>1
<1>3. PICK x \in Int : x = n - lo /\ 0 <= x /\ x < w /\ 0 - w <= x /\ x <= w
  BY <1>1, <1>2
<1>7. x % w = IF x < 0 THEN x + w ELSE IF x < w THEN x ELSE 0
  BY <1>3, Remainder
<1>6. x % w = x
  BY <1>3, <1>7
<1>4. (n - lo) % w = n - lo
  BY <1>3, <1>6
<1>5. WrapInt(n) = ((n - lo) % w) + lo
  BY <1>1 DEF WrapInt
<1> QED
  BY <1>2, <1>4, <1>5

-----------------------------------------------------------------------------
(* The calculator.                                                         *)

\* Of the two divisions, only that of the smallest number by -1 is not guarded.
LEMMA CalcFaults ==
  ASSUME NEW x, NEW o, NEW y, calc(x, o, y).fault
  PROVE  atoi(x) = IntMin /\ atoi(y) = -1
<1>1. o \in {"/", "%"} /\ ~ ZeroGuard(o, atoi(y)) /\ Faults(atoi(x), atoi(y))
  BY DEF calc, Printed, DivByZero, Exception, ZeroGuard
<1> QED
  BY <1>1 DEF ZeroGuard, Faults

LEMMA CalcHalts ==
  ASSUME NEW x \in Nat, NEW o, NEW y \in Nat, calc(x, o, y).fault
  PROVE  ~ InRange(x) /\ ~ InRange(y)
<1>1. WrapInt(x) = IntMin /\ WrapInt(y) = -1
  BY CalcFaults DEF atoi
<1>2. ~ InRange(x)
  <2> SUFFICES ASSUME InRange(x)
               PROVE  FALSE
    OBVIOUS
  <2>1. x \in IntMin .. IntMax /\ x # IntMin
    BY IntIs DEF InRange
  <2> QED
    BY <1>1, <2>1, WrapKeeps
<1>3. ~ InRange(y)
  <2> SUFFICES ASSUME InRange(y)
               PROVE  FALSE
    OBVIOUS
  <2>1. y \in IntMin .. IntMax /\ y # -1
    BY IntIs DEF InRange
  <2> QED
    BY <1>1, <2>1, WrapKeeps
<1> QED
  BY <1>2, <1>3

-----------------------------------------------------------------------------
(* The decimal digits.                                                     *)

AddDigit(v, d) == 10 * v + d

LEMMA ValuesAre ==
  ASSUME NEW s \in Seq(Nat)
  PROVE  /\ Values(s) \in [0 .. Len(s) -> Nat]
         /\ Values(s)[0] = 0
         /\ \A i \in 1 .. Len(s) : Values(s)[i] = AddDigit(Values(s)[i - 1], s[i])
<1> DEFINE len == Len(s)
           X == Nat
           Turn(y, i) == AddDigit(y, s[i])
           g == [p \in X \X (1 .. len) |-> Turn(p[1], p[2])]
           E(f) == f = [n \in 0 .. len |-> IF n = 0 THEN 0 ELSE Turn(f[n - 1], n)]
           w == Values(s)
<1>1. len \in Nat /\ 0 \in X
  OBVIOUS
<1>2. \A y \in X, i \in 1 .. len : Turn(y, i) \in X
  BY DEF AddDigit
<1>3. w = CHOOSE h : E(h)
  BY DEF Values, AddDigit
<1> HIDE DEF X, Turn, len
<1>4. HasIteration(len, X, 0, g)
  <2>1. Steps(len, X, g)
    BY <1>2 DEF Steps
  <2> HIDE DEF g
  <2> QED
    BY <1>1, <2>1, Iteration
<1>5. PICK f \in [0 .. len -> X] :
        f[0] = 0 /\ \A i \in 1 .. len : f[i] = Turn(f[i - 1], i)
  <2>1. ASSUME NEW y \in X, NEW i \in 1 .. len
        PROVE  g[<<y, i>>] = Turn(y, i)
    OBVIOUS
  <2> HIDE DEF g
  <2>2. PICK f \in [0 .. len -> X] : f[0] = 0 /\ \A i \in 1 .. len : f[i] = g[<<f[i - 1], i>>]
    BY <1>4 DEF HasIteration, IsIteration
  <2>3. \A i \in 1 .. len : f[i - 1] \in X
    BY <1>1
  <2> QED
    BY <2>1, <2>2, <2>3
<1>6. E(f)
  <2>1. ASSUME NEW n \in 0 .. len, n # 0
        PROVE  f[n] = Turn(f[n - 1], n)
    <3>1. n \in 1 .. len
      BY <1>1, <2>1
    <3> QED
      BY <1>5, <3>1
  <2>2. f = [n \in 0 .. len |-> f[n]]
    OBVIOUS
  <2> QED
    BY <1>5, <2>1, <2>2
<1> HIDE DEF g
<1>7. E(w)
  <2> HIDE DEF E, w
  <2> QED
    BY <1>3, <1>6
<1> HIDE DEF w
<1>8. \A n \in 0 .. len : w[n] = IF n = 0 THEN 0 ELSE Turn(w[n - 1], n)
  BY <1>7
<1>9. w = [n \in 0 .. len |-> w[n]]
  BY <1>7
<1>10. w[0] = 0 /\ \A n \in 1 .. len : w[n] = Turn(w[n - 1], n)
  <2>1. 0 \in 0 .. len /\ \A n \in 1 .. len : n \in 0 .. len /\ n # 0
    BY <1>1
  <2> QED
    BY <1>8, <2>1
<1>11. \A n \in 0 .. len : w[n] \in X
  <2> DEFINE S == {n \in 0 .. len : w[n] \in X}
  <2>1. 0 \in S
    BY <1>1, <1>10
  <2>2. ASSUME NEW n \in 1 .. len, n - 1 \in S
        PROVE  n \in S
    <3>1. w[n] = Turn(w[n - 1], n) /\ w[n - 1] \in X
      BY <1>10, <2>2
    <3>2. n \in 0 .. len
      BY <1>1
    <3> QED
      BY <1>2, <3>1, <3>2
  <2> HIDE DEF S
  <2>3. \A n \in 0 .. len : n \in S
    BY <1>1, <2>1, <2>2, Induction
  <2> QED
    BY <2>3 DEF S
<1>12. w \in [0 .. len -> X]
  BY <1>9, <1>11
<1> QED
  BY <1>10, <1>12 DEF len, X, w, Turn

Number(s) == Values(s)[Len(s)]

LEMMA NumberOfAppend ==
  ASSUME NEW s \in Seq(Nat), NEW d \in Nat
  PROVE  Number(Append(s, d)) = 10 * Number(s) + d /\ Number(s) \in Nat
<1>1. PICK m \in Nat : m = Len(s)
  OBVIOUS
<1>2. PICK t : t = Append(s, d)
  OBVIOUS
<1>3. /\ t \in Seq(Nat) /\ Len(t) = m + 1 /\ t[m + 1] = d
      /\ \A i \in 1 .. m : t[i] = s[i]
  BY <1>1, <1>2
<1>4. PICK f, g : f = Values(s) /\ g = Values(t)
  OBVIOUS
<1>5. /\ f[0] = 0 /\ f \in [0 .. m -> Nat]
      /\ \A i \in 1 .. m : f[i] = AddDigit(f[i - 1], s[i])
  BY <1>1, <1>4, ValuesAre
<1>6. /\ g[0] = 0
      /\ \A i \in 1 .. m + 1 : g[i] = AddDigit(g[i - 1], t[i])
  BY <1>3, <1>4, ValuesAre
<1> DEFINE S == {i \in 0 .. m : f[i] = g[i]}
<1>7. 0 \in S
  BY <1>5, <1>6
<1>8. ASSUME NEW i \in 1 .. m, i - 1 \in S
      PROVE  i \in S
  <2>1. i \in 1 .. m + 1 /\ i \in 0 .. m /\ f[i - 1] = g[i - 1]
    BY <1>8
  <2> QED
    BY <1>3, <1>5, <1>6, <2>1
<1> HIDE DEF S
<1>9. m \in S
  <2>1. \A i \in 0 .. m : i \in S
    BY <1>7, <1>8, Induction
  <2> QED
    BY <2>1
<1>10. f[m] = g[m] /\ f[m] \in Nat
  BY <1>5, <1>9 DEF S
<1>11. g[m + 1] = AddDigit(g[m], d)
  <2>1. PICK k \in 1 .. m + 1 : k = m + 1 /\ k - 1 = m
    OBVIOUS
  <2> QED
    BY <1>3, <1>6, <2>1
<1> QED
  BY <1>1, <1>2, <1>3, <1>4, <1>10, <1>11 DEF Number, AddDigit

LEMMA NumberOfDigit ==
  ASSUME NEW d \in Nat
  PROVE  Number(<<d>>) = d
<1>1. <<d>> \in Seq(Nat) /\ Len(<<d>>) = 1 /\ <<d>>[1] = d
  OBVIOUS
<1>2. PICK f : f = Values(<<d>>)
  OBVIOUS
<1>3. f[0] = 0 /\ \A i \in 1 .. 1 : f[i] = AddDigit(f[i - 1], <<d>>[i])
  BY <1>1, <1>2, ValuesAre
<1>4. PICK k \in 1 .. 1 : k = 1 /\ k - 1 = 0
  OBVIOUS
<1>5. f[1] = AddDigit(0, d)
  BY <1>1, <1>3, <1>4
<1> QED
  BY <1>1, <1>2, <1>5 DEF Number, AddDigit

\* The first digit that was found ends the number.
LEMMA ReverseIs ==
  ASSUME NEW d \in Nat, NEW s \in Seq(Nat)
  PROVE  /\ reverse(<<d>> \o s) = Append(reverse(s), d)
         /\ reverse(s) \in Seq(Nat) /\ reverse(<<d>>) = <<d>>
<1>1. PICK m \in Nat : m = Len(s) /\ DOMAIN s = 1 .. m
  OBVIOUS
<1>2. PICK t : t = <<d>> \o s
  OBVIOUS
<1>3. /\ t \in Seq(Nat) /\ Len(t) = m + 1 /\ DOMAIN t = 1 .. m + 1 /\ t[1] = d
      /\ \A i \in 1 .. m : t[i + 1] = s[i]
  <2>1. <<d>> \in Seq(Nat) /\ Len(<<d>>) = 1 /\ <<d>>[1] = d
    OBVIOUS
  <2>2. \A i \in 1 .. m : i + 1 \in 1 .. m + 1 /\ i + 1 > 1 /\ (i + 1) - 1 = i
    BY <1>1
  <2> QED
    BY <1>1, <1>2, <2>1, <2>2
<1>4. PICK r : r = reverse(s)
  OBVIOUS
<1>5. r = [i \in 1 .. m |-> s[m + 1 - i]]
  BY <1>1, <1>4 DEF reverse
<1>6. r \in Seq(Nat) /\ Len(r) = m /\ \A i \in 1 .. m : r[i] = s[m + 1 - i]
  <2>1. \A i \in 1 .. m : m + 1 - i \in 1 .. m
    BY <1>1
  <2>2. \A i \in 1 .. m : s[m + 1 - i] \in Nat
    BY <1>1, <2>1
  <2> QED
    BY <1>1, <1>5, <2>2
<1>7. PICK q : q = Append(r, d)
  OBVIOUS
<1>8. /\ q \in Seq(Nat) /\ Len(q) = m + 1 /\ q[m + 1] = d
      /\ \A i \in 1 .. m : q[i] = r[i]
  BY <1>6, <1>7
<1>9. PICK v : v = reverse(t)
  OBVIOUS
<1>10. v = [i \in 1 .. m + 1 |-> t[m + 1 + 1 - i]]
  BY <1>3, <1>9 DEF reverse
<1>11. v \in Seq(Nat) /\ Len(v) = m + 1 /\ \A i \in 1 .. m + 1 : v[i] = t[m + 1 + 1 - i]
  <2>1. \A i \in 1 .. m + 1 : m + 1 + 1 - i \in 1 .. m + 1
    OBVIOUS
  <2>2. \A i \in 1 .. m + 1 : t[m + 1 + 1 - i] \in Nat
    BY <1>3, <2>1
  <2> QED
    BY <1>10, <2>2
<1>12. ASSUME NEW i \in 1 .. m + 1
       PROVE  v[i] = q[i]
  <2>1. v[i] = t[m + 1 + 1 - i]
    BY <1>11
  <2>2. CASE i = m + 1
    <3>1. m + 1 + 1 - i = 1
      BY <2>2
    <3> QED
      BY <1>3, <1>8, <2>1, <2>2, <3>1
  <2>3. CASE i # m + 1
    <3>1. PICK j \in 1 .. m : j = m + 1 - i /\ j + 1 = m + 1 + 1 - i /\ i \in 1 .. m
      BY <2>3
    <3> QED
      BY <1>3, <1>6, <1>8, <2>1, <3>1
  <2> QED
    BY <2>2, <2>3
<1>13. v = q
  BY <1>8, <1>11, <1>12, SeqEqual
<1>14. reverse(<<d>>) = <<d>>
  <2>1. DOMAIN <<d>> = 1 .. 1 /\ Len(<<d>>) = 1 /\ <<d>>[1] = d
    OBVIOUS
  <2>2. reverse(<<d>>) = [i \in 1 .. 1 |-> <<d>>[1 + 1 - i]]
    BY <2>1 DEF reverse
  <2>3. \A i \in 1 .. 1 : 1 + 1 - i = 1
    OBVIOUS
  <2>4. <<d>> = [i \in 1 .. 1 |-> d]
    OBVIOUS
  <2> QED
    BY <2>1, <2>2, <2>3, <2>4
<1> QED
  BY <1>2, <1>4, <1>6, <1>7, <1>9, <1>13, <1>14

LEMMA QuotIs ==
  ASSUME NEW n \in Int
  PROVE  /\ Quot(n, 10) \in Int /\ Rem(n, 10) \in Int
         /\ Quot(n, 10) > 0 => Quot(n, 10) < n
         /\ n >= 0 => Rem(n, 10) \in Nat /\ n = 10 * Quot(n, 10) + Rem(n, 10) /\ Quot(n, 10) \in Nat
<1>1. CASE n >= 0
  <2>1. Quot(n, 10) = n \div 10
    BY <1>1 DEF Quot, Abs
  <2>2. Rem(n, 10) = n - 10 * (n \div 10)
    BY <2>1 DEF Rem
  <2> QED
    BY <1>1, <2>1, <2>2
<1>2. CASE n < 0
  <2>1. Quot(n, 10) = -((-n) \div 10)
    BY <1>2 DEF Quot, Abs
  <2>2. Rem(n, 10) = n - 10 * Quot(n, 10)
    BY DEF Rem
  <2> QED
    BY <1>2, <2>1, <2>2
<1> QED
  BY <1>1, <1>2

\* The loop over the digits of n, given the digits of smaller numbers.
DigitsFrom(f, n) ==
  IF Quot(n, 10) > 0 THEN <<Rem(n, 10)>> \o f[Quot(n, 10)] ELSE <<Rem(n, 10)>>
AreDigits(f, m) ==
  f \in [IntMin .. m -> Seq(Int)] /\ \A n \in IntMin .. m : f[n] = DigitsFrom(f, n)

LEMMA DigitsExist ==
  \E f : AreDigits(f, IntMax)
<1>1. PICK lo \in Int, hi \in Nat : lo = IntMin /\ hi = IntMax /\ lo < 0
  BY IntIs
<1> DEFINE S == {m \in 0 .. hi : \E f : AreDigits(f, m)}
<1>2. 0 \in S
  <2> DEFINE f == [n \in lo .. 0 |-> <<Rem(n, 10)>>]
  <2>1. \A n \in lo .. 0 : n \in Int /\ <<Rem(n, 10)>> \in Seq(Int) /\ ~ (Quot(n, 10) > 0)
    <3> SUFFICES ASSUME NEW n \in lo .. 0
                 PROVE  n \in Int /\ <<Rem(n, 10)>> \in Seq(Int) /\ ~ (Quot(n, 10) > 0)
      OBVIOUS
    <3>1. n \in Int /\ n <= 0
      BY <1>1
    <3>2. Rem(n, 10) \in Int /\ Quot(n, 10) \in Int /\ (Quot(n, 10) > 0 => Quot(n, 10) < n)
      BY <3>1, QuotIs
    <3>3. <<Rem(n, 10)>> \in Seq(Int)
      BY <3>2
    <3> QED
      BY <3>1, <3>2, <3>3
  <2>2. f \in [lo .. 0 -> Seq(Int)]
    BY <2>1
  <2>3. \A n \in lo .. 0 : f[n] = DigitsFrom(f, n)
    BY <2>1 DEF DigitsFrom
  <2> HIDE DEF f
  <2>4. AreDigits(f, 0)
    BY <1>1, <2>2, <2>3 DEF AreDigits
  <2> QED
    BY <1>1, <2>4
<1>3. ASSUME NEW m \in 1 .. hi, m - 1 \in S
      PROVE  m \in S
  <2>1. PICK k, f : k \in 0 .. hi /\ k = m - 1 /\ AreDigits(f, k)
    BY <1>3
  <2>2. f \in [lo .. k -> Seq(Int)] /\ \A n \in lo .. k : f[n] = DigitsFrom(f, n)
    BY <1>1, <2>1 DEF AreDigits
  <2> DEFINE h == [n \in lo .. m |-> IF n = m THEN DigitsFrom(f, m) ELSE f[n]]
  <2>3. ASSUME NEW n \in lo .. m
        PROVE  DigitsFrom(f, n) \in Seq(Int) /\ DigitsFrom(h, n) = DigitsFrom(f, n)
    <3>1. n \in Int /\ Quot(n, 10) \in Int /\ Rem(n, 10) \in Int
          /\ (Quot(n, 10) > 0 => Quot(n, 10) < n)
      BY <1>1, QuotIs
    <3>2. <<Rem(n, 10)>> \in Seq(Int)
      BY <3>1
    <3>3. CASE ~ (Quot(n, 10) > 0)
      BY <3>2, <3>3 DEF DigitsFrom
    <3>4. CASE Quot(n, 10) > 0
      <4>1. PICK q \in lo .. k : q = Quot(n, 10) /\ q # m /\ q \in lo .. m
        BY <1>1, <2>1, <3>1, <3>4
      <4>2. f[q] \in Seq(Int) /\ h[q] = f[q]
        BY <2>2, <4>1
      <4>3. <<Rem(n, 10)>> \o f[q] \in Seq(Int)
        BY <3>2, <4>2
      <4> HIDE DEF h
      <4> QED
        BY <3>4, <4>1, <4>2, <4>3 DEF DigitsFrom
    <3> QED
      BY <3>3, <3>4
  <2>4. \A n \in lo .. m : n # m => n \in lo .. k
    BY <1>1, <2>1
  <2>5. ASSUME NEW n \in lo .. m
        PROVE  h[n] \in Seq(Int) /\ h[n] = DigitsFrom(h, n)
    <3>1. CASE n = m
      <4>1. h[n] = DigitsFrom(f, n)
        BY <3>1
      <4> HIDE DEF h
      <4> QED
        BY <2>3, <4>1
    <3>2. CASE n # m
      <4>1. h[n] = f[n] /\ n \in lo .. k
        BY <2>4, <3>2
      <4>2. f[n] = DigitsFrom(f, n)
        BY <2>2, <4>1
      <4> HIDE DEF h
      <4> QED
        BY <2>3, <4>1, <4>2
    <3> QED
      BY <3>1, <3>2
  <2>6. h \in [lo .. m -> Seq(Int)]
    <3>1. h = [n \in lo .. m |-> h[n]]
      OBVIOUS
    <3> HIDE DEF h
    <3> QED
      BY <2>5, <3>1
  <2> HIDE DEF h
  <2>7. AreDigits(h, m)
    BY <1>1, <2>5, <2>6 DEF AreDigits
  <2>8. m \in 0 .. hi
    BY <1>1
  <2> QED
    BY <2>7, <2>8
<1> HIDE DEF S
<1>4. hi \in S
  <2>1. \A m \in 0 .. hi : m \in S
    BY <1>1, <1>2, <1>3, Induction
  <2> QED
    BY <1>1, <2>1
<1> QED
  BY <1>1, <1>4 DEF S

LEMMA DigitsAre ==
  \A n \in IntMin .. IntMax : Digits[n] = DigitsFrom(Digits, n)
<1> DEFINE D == IntMin .. IntMax
           E(f) == f = [n \in D |-> DigitsFrom(f, n)]
<1>1. Digits = CHOOSE f : E(f)
  BY DEF Digits, DigitsFrom
<1>2. PICK f : AreDigits(f, IntMax)
  BY DigitsExist
<1>3. E(f)
  <2>1. f \in [D -> Seq(Int)] /\ \A n \in D : f[n] = DigitsFrom(f, n)
    BY <1>2 DEF AreDigits
  <2>2. f = [n \in D |-> f[n]]
    BY <2>1
  <2> HIDE DEF D
  <2> QED
    BY <2>1, <2>2
<1>4. E(Digits)
  <2> HIDE DEF E
  <2> QED
    BY <1>1, <1>3
<1>5. \A n \in D : Digits[n] = DigitsFrom(Digits, n)
  <2> HIDE DEF D
  <2> QED
    BY <1>4
<1> QED
  BY <1>5

\* The digits of a number that is not negative are those of that number.
LEMMA DigitsGiveNumber ==
  ASSUME NEW n \in 0 .. IntMax
  PROVE  Number(reverse(Digits[n])) = n
<1>1. PICK lo \in Int, hi \in Nat : lo = IntMin /\ hi = IntMax /\ lo < 0
  BY IntIs
<1> DEFINE S == {m \in 0 .. hi : \A j \in 0 .. m :
                   Digits[j] \in Seq(Nat) /\ Number(reverse(Digits[j])) = j}
<1>2. ASSUME NEW j \in 0 .. hi,
             \A k \in 0 .. hi : k < j => Digits[k] \in Seq(Nat) /\ Number(reverse(Digits[k])) = k
      PROVE  Digits[j] \in Seq(Nat) /\ Number(reverse(Digits[j])) = j
  <2>1. j \in IntMin .. IntMax /\ j \in Int /\ j >= 0
    BY <1>1
  <2>2. PICK q \in Nat, r \in Nat :
          q = Quot(j, 10) /\ r = Rem(j, 10) /\ j = 10 * q + r /\ (q > 0 => q < j)
    BY <2>1, QuotIs
  <2>3. Digits[j] = IF q > 0 THEN <<r>> \o Digits[q] ELSE <<r>>
    BY <2>1, <2>2, DigitsAre DEF DigitsFrom
  <2>4. CASE q > 0
    <3>1. q \in 0 .. hi /\ q < j
      BY <1>1, <2>2, <2>4
    <3>2. Digits[q] \in Seq(Nat) /\ Number(reverse(Digits[q])) = q
      BY <1>2, <3>1
    <3>3. PICK s \in Seq(Nat) : s = Digits[q]
      BY <3>2
    <3>4. reverse(<<r>> \o s) = Append(reverse(s), r) /\ reverse(s) \in Seq(Nat)
      BY ReverseIs
    <3>5. Number(Append(reverse(s), r)) = 10 * Number(reverse(s)) + r
      BY <3>4, NumberOfAppend
    <3>6. <<r>> \o s \in Seq(Nat)
      <4>1. <<r>> \in Seq(Nat)
        OBVIOUS
      <4> QED
        BY <4>1
    <3>7. Digits[j] = <<r>> \o s
      BY <2>3, <2>4, <3>3
    <3> QED
      BY <2>2, <3>2, <3>3, <3>4, <3>5, <3>6, <3>7
  <2>5. CASE ~ (q > 0)
    <3>0. q = 0
      BY <2>2, <2>5
    <3>4. r = j
      BY <2>2, <3>0
    <3>1. Digits[j] = <<r>> /\ r = j
      BY <2>3, <2>5, <3>4
    <3>2. <<r>> \in Seq(Nat)
      OBVIOUS
    <3>3. reverse(<<r>>) = <<r>>
      BY <3>2, ReverseIs
    <3> QED
      BY <3>1, <3>2, <3>3, NumberOfDigit
  <2> QED
    BY <2>4, <2>5
<1>3. 0 \in S
  <2>1. \A k \in 0 .. hi : ~ (k < 0)
    BY <1>1
  <2>2. 0 \in 0 .. hi
    BY <1>1
  <2>3. Digits[0] \in Seq(Nat) /\ Number(reverse(Digits[0])) = 0
    BY <1>2, <2>1, <2>2
  <2>4. \A j \in 0 .. 0 : j = 0
    OBVIOUS
  <2> QED
    BY <2>2, <2>3, <2>4
<1>4. ASSUME NEW m \in 1 .. hi, m - 1 \in S
      PROVE  m \in S
  <2>1. \A j \in 0 .. m - 1 : Digits[j] \in Seq(Nat) /\ Number(reverse(Digits[j])) = j
    BY <1>4
  <2>2. m \in 0 .. hi /\ \A k \in 0 .. hi : k < m => k \in 0 .. m - 1
    BY <1>1
  <2>3. Digits[m] \in Seq(Nat) /\ Number(reverse(Digits[m])) = m
    BY <1>2, <2>1, <2>2
  <2>4. \A j \in 0 .. m : j = m \/ j \in 0 .. m - 1
    BY <1>1
  <2> QED
    BY <2>1, <2>2, <2>3, <2>4
<1> HIDE DEF S
<1>5. hi \in S
  <2>1. \A m \in 0 .. hi : m \in S
    BY <1>1, <1>3, <1>4, Induction
  <2> QED
    BY <1>1, <2>1
<1> QED
  BY <1>1, <1>5 DEF S

\* itoa prints the number, unless it is the least one.
LEMMA ItoaIs ==
  ASSUME NEW n, InRange(n)
  PROVE  Value(itoa(n)) = n
<1>1. PICK lo \in Int, hi \in Nat : lo = IntMin /\ hi = IntMax /\ hi = 0 - lo - 1 /\ lo < 0
  BY IntIs
<1>2. n \in Int /\ lo + 1 <= n /\ n <= hi
  BY <1>1 DEF InRange
<1>3. PICK a \in 0 .. hi : a = Abs(n) /\ n = IF n < 0 THEN 0 - a ELSE a
  <2>1. Abs(n) \in 0 .. hi /\ n = IF n < 0 THEN 0 - Abs(n) ELSE Abs(n)
    BY <1>1, <1>2 DEF Abs
  <2> QED
    BY <2>1
<1>4. a \in IntMin .. IntMax /\ a \in 0 .. IntMax
  BY <1>1
<1>5. WrapInt(a) = a
  BY <1>4, WrapKeeps
<1>6. PICK d : d = reverse(Digits[a])
  OBVIOUS
<1>7. Number(d) = a
  BY <1>4, <1>6, DigitsGiveNumber
<1>8. itoa(n) = [minus |-> n < 0, digits |-> d]
  BY <1>3, <1>5, <1>6 DEF itoa
<1>9. itoa(n).digits = d
  BY <1>8
<1>10. Values(itoa(n).digits)[Len(itoa(n).digits)] = a
  BY <1>7, <1>9 DEF Number
<1>11. CASE n < 0
  <2>1. itoa(n).minus
    <3>1. itoa(n) = [minus |-> TRUE, digits |-> d]
      BY <1>8, <1>11
    <3>2. [minus |-> TRUE, digits |-> d].minus
      OBVIOUS
    <3> QED
      BY <3>1, <3>2
  <2>2. Value(itoa(n)) = (-1) * a
    BY <1>10, <2>1 DEF Value
  <2>3. a \in Int /\ n = 0 - a
    BY <1>1, <1>3, <1>11
  <2> QED
    BY <2>2, <2>3
<1>12. CASE ~ (n < 0)
  <2>1. ~ itoa(n).minus
    <3>0. (n < 0) = FALSE
      BY <1>12
    <3>1. itoa(n) = [minus |-> FALSE, digits |-> d]
      BY <1>8, <3>0, Zenon
    <3>2. ~ [minus |-> FALSE, digits |-> d].minus
      OBVIOUS
    <3> QED
      BY <3>1, <3>2
  <2>2. Value(itoa(n)) = 1 * a
    BY <1>10, <2>1 DEF Value
  <2>3. a \in Int /\ n = a
    BY <1>1, <1>3, <1>12
  <2> QED
    BY <2>2, <2>3
<1> QED
  BY <1>11, <1>12

\* Division of numbers that are not negative.
LEMMA QuotRemAre ==
  ASSUME NEW x \in Nat, NEW y \in Nat \ {0}
  PROVE  Quot(x, y) = x \div y /\ Rem(x, y) = x % y
<1>1. ~ (x < 0) /\ ~ (y < 0)
  OBVIOUS
<1>2. Quot(x, y) = x \div y
  BY <1>1 DEF Quot, Abs
<1>3. PICK q \in Nat, r \in 0 .. y - 1 : q = x \div y /\ r = x % y /\ x = q * y + r
  BY Quotient
<1>4. q * y = y * q /\ y * q \in Nat
  OBVIOUS
<1>5. Rem(x, y) = x - y * q
  BY <1>2, <1>3 DEF Rem
<1>6. Rem(x, y) = r
  BY <1>3, <1>4, <1>5
<1> QED
  BY <1>2, <1>3, <1>6

\* The result that the calculator should print.
Exact(x, o, y) ==
  CASE o = "+" -> x + y
    [] o = "-" -> x - y
    [] o = "*" -> x * y
    [] o = "/" /\ y # 0 -> x \div y
    [] o = "%" /\ y # 0 -> x % y
    [] OTHER -> 0

LEMMA CalcGivesExact ==
  ASSUME NEW x \in Nat, NEW o, NEW y \in Nat, InRange(x), InRange(y), InRange(Exact(x, o, y)),
         o \in {"/", "%"} => y # 0
  PROVE  calc(x, o, y).shown /\ Value(calc(x, o, y).text) = Exact(x, o, y)
<1>1. PICK lo \in Int, hi \in Nat : lo = IntMin /\ hi = IntMax /\ hi = 0 - lo - 1 /\ lo < 0
  BY IntIs
<1>2. \A n : InRange(n) => n \in IntMin .. IntMax
  BY <1>1 DEF InRange
<1>3. atoi(x) = x /\ atoi(y) = y
  BY <1>2, WrapKeeps DEF atoi
<1>4. ~ ZeroGuard(o, y)
  BY DEF ZeroGuard
<1>5. o \in {"/", "%"} => ~ Faults(x, y)
  BY DEF Faults
<1>6. calc(x, o, y) = Printed(FALSE, Exact(x, o, y))
  <2>1. CASE o = "+"
    <3>1. Exact(x, o, y) = x + y
      BY <2>1 DEF Exact
    <3>2. WrapInt(x + y) = x + y
      BY <1>2, <3>1, WrapKeeps
    <3>3. calc(x, o, y) = Printed(FALSE, WrapInt(x + y))
      BY <1>3, <1>4, <2>1 DEF calc
    <3> QED
      BY <3>1, <3>2, <3>3
  <2>2. CASE o = "-"
    <3>1. Exact(x, o, y) = x - y
      BY <2>2 DEF Exact
    <3>2. WrapInt(x - y) = x - y
      BY <1>2, <3>1, WrapKeeps
    <3>3. calc(x, o, y) = Printed(FALSE, WrapInt(x - y))
      BY <1>3, <1>4, <2>2 DEF calc
    <3> QED
      BY <3>1, <3>2, <3>3
  <2>3. CASE o = "*"
    <3>1. Exact(x, o, y) = x * y
      BY <2>3 DEF Exact
    <3>2. WrapInt(x * y) = x * y
      BY <1>2, <3>1, WrapKeeps
    <3>3. calc(x, o, y) = Printed(FALSE, WrapInt(x * y))
      BY <1>3, <1>4, <2>3 DEF calc
    <3> QED
      BY <3>1, <3>2, <3>3
  <2>4. CASE o = "/"
    <3>1. Exact(x, o, y) = x \div y /\ y \in Nat \ {0}
      BY <2>4 DEF Exact
    <3>2. Quot(x, y) = x \div y
      BY <3>1, QuotRemAre
    <3>3. calc(x, o, y) = Printed(FALSE, Quot(x, y))
      BY <1>3, <1>4, <1>5, <2>4 DEF calc
    <3> QED
      BY <3>1, <3>2, <3>3
  <2>5. CASE o = "%"
    <3>1. Exact(x, o, y) = x % y /\ y \in Nat \ {0}
      BY <2>5 DEF Exact
    <3>2. Rem(x, y) = x % y
      BY <3>1, QuotRemAre
    <3>3. calc(x, o, y) = Printed(FALSE, Rem(x, y))
      BY <1>3, <1>4, <1>5, <2>5 DEF calc
    <3> QED
      BY <3>1, <3>2, <3>3
  <2>6. CASE o \notin {"+", "-", "*", "/", "%"}
    <3>1. Exact(x, o, y) = 0
      BY <2>6 DEF Exact
    <3>2. calc(x, o, y) = Printed(FALSE, 0)
      BY <1>3, <1>4, <2>6 DEF calc
    <3> QED
      BY <3>1, <3>2
  <2> QED
    BY <2>1, <2>2, <2>3, <2>4, <2>5, <2>6
<1>7. PICK e : e = Exact(x, o, y)
  OBVIOUS
<1>8. Value(itoa(e)) = e
  BY <1>7, ItoaIs
<1>9. Printed(FALSE, e).shown /\ Printed(FALSE, e).text = itoa(e)
  BY DEF Printed
<1> QED
  BY <1>6, <1>7, <1>8, <1>9

-----------------------------------------------------------------------------
(* The history.                                                            *)

\* The list y of shown lines, and the line l if it is not empty.
AddShown(y, l) == IF l # "" THEN Append(y, l) ELSE y

LEMMA ShownAre ==
  ASSUME NEW V, NEW s \in Seq(V)
  PROVE  /\ Shown(s) \in [0 .. Len(s) -> Seq(V)]
         /\ Shown(s)[0] = <<>>
         /\ \A i \in 1 .. Len(s) : Shown(s)[i] = AddShown(Shown(s)[i - 1], s[i])
<1> DEFINE len == Len(s)
           X == Seq(V)
           Turn(y, i) == AddShown(y, s[i])
           g == [p \in X \X (1 .. len) |-> Turn(p[1], p[2])]
           E(f) == f = [n \in 0 .. len |-> IF n = 0 THEN <<>> ELSE Turn(f[n - 1], n)]
           w == Shown(s)
<1>1. len \in Nat /\ <<>> \in X
  OBVIOUS
<1>2. \A y \in X, i \in 1 .. len : Turn(y, i) \in X
  <2>1. \A i \in 1 .. len : s[i] \in V
    OBVIOUS
  <2>2. ASSUME NEW y \in Seq(V), NEW v \in V
        PROVE  AddShown(y, v) \in Seq(V)
    <3>1. y \in Seq(V) /\ v \in V
      BY <2>2
    <3>2. Append(y, v) \in Seq(V)
      BY <3>1, AppendProperties
    <3> QED
      BY <3>1, <3>2, Zenon DEF AddShown
  <2> HIDE DEF len
  <2> QED
    BY <2>1, <2>2
<1>3. w = CHOOSE h : E(h)
  BY DEF Shown, AddShown
<1> HIDE DEF X, Turn, len
<1>4. HasIteration(len, X, <<>>, g)
  <2>1. Steps(len, X, g)
    BY <1>2 DEF Steps
  <2> HIDE DEF g
  <2> QED
    BY <1>1, <2>1, Iteration
<1>5. PICK f \in [0 .. len -> X] :
        f[0] = <<>> /\ \A i \in 1 .. len : f[i] = Turn(f[i - 1], i)
  <2>1. ASSUME NEW y \in X, NEW i \in 1 .. len
        PROVE  g[<<y, i>>] = Turn(y, i)
    OBVIOUS
  <2> HIDE DEF g
  <2>2. PICK f \in [0 .. len -> X] : f[0] = <<>> /\ \A i \in 1 .. len : f[i] = g[<<f[i - 1], i>>]
    BY <1>4 DEF HasIteration, IsIteration
  <2>3. \A i \in 1 .. len : f[i - 1] \in X
    BY <1>1
  <2> QED
    BY <2>1, <2>2, <2>3
<1>6. E(f)
  <2>1. ASSUME NEW n \in 0 .. len, n # 0
        PROVE  f[n] = Turn(f[n - 1], n)
    <3>1. n \in 1 .. len
      BY <1>1, <2>1
    <3> QED
      BY <1>5, <3>1
  <2>2. f = [n \in 0 .. len |-> f[n]]
    OBVIOUS
  <2> QED
    BY <1>5, <2>1, <2>2
<1> HIDE DEF g
<1>7. E(w)
  <2> HIDE DEF E, w
  <2> QED
    BY <1>3, <1>6
<1> HIDE DEF w
<1>8. \A n \in 0 .. len : w[n] = IF n = 0 THEN <<>> ELSE Turn(w[n - 1], n)
  BY <1>7
<1>9. w = [n \in 0 .. len |-> w[n]]
  BY <1>7
<1>10. w[0] = <<>> /\ \A n \in 1 .. len : w[n] = Turn(w[n - 1], n)
  <2>1. 0 \in 0 .. len /\ \A n \in 1 .. len : n \in 0 .. len /\ n # 0
    BY <1>1
  <2> QED
    BY <1>8, <2>1
<1>11. \A n \in 0 .. len : w[n] \in X
  <2> DEFINE S == {n \in 0 .. len : w[n] \in X}
  <2>1. 0 \in S
    BY <1>1, <1>10
  <2>2. ASSUME NEW n \in 1 .. len, n - 1 \in S
        PROVE  n \in S
    <3>1. w[n] = Turn(w[n - 1], n) /\ w[n - 1] \in X
      BY <1>10, <2>2
    <3>2. n \in 0 .. len
      BY <1>1
    <3> QED
      BY <1>2, <3>1, <3>2
  <2> HIDE DEF S
  <2>3. \A n \in 0 .. len : n \in S
    BY <1>1, <2>1, <2>2, Induction
  <2> QED
    BY <2>3 DEF S
<1>12. w \in [0 .. len -> X]
  BY <1>9, <1>11
<1> QED
  BY <1>10, <1>12 DEF len, X, w, Turn

\* s is r, of n lines, and m - n empty lines behind it.
PaddedTo(r, n, s, m) ==
  /\ n <= m /\ \A i \in 1 .. n : s[i] = r[i]
  /\ \A i \in n + 1 .. m : s[i] = ""

\* Empty lines at the end of a list are not shown.
LEMMA NonEmptyPrefix ==
  ASSUME NEW V, NEW r \in Seq(V), NEW s \in Seq(V), PaddedTo(r, Len(r), s, Len(s))
  PROVE  NonEmpty(s) = NonEmpty(r)
<1>1. PICK n \in Nat : n = Len(r)
  OBVIOUS
<1>2. PICK m \in Nat : m = Len(s)
  OBVIOUS
<1>3. PaddedTo(r, n, s, m)
  BY <1>1, <1>2
<1>4. n <= m
  BY <1>3 DEF PaddedTo
<1>5. PICK f, g : f = Shown(r) /\ g = Shown(s)
  OBVIOUS
<1>6. f[0] = <<>> /\ \A i \in 1 .. n : f[i] = AddShown(f[i - 1], r[i])
  BY <1>1, <1>5, ShownAre
<1>7. g[0] = <<>> /\ \A i \in 1 .. m : g[i] = AddShown(g[i - 1], s[i])
  BY <1>2, <1>5, ShownAre
<1>8. (\A i \in 1 .. n : s[i] = r[i]) /\ (\A i \in n + 1 .. m : s[i] = "")
  BY <1>3 DEF PaddedTo
<1> DEFINE S == {i \in 0 .. m : g[i] = IF i <= n THEN f[i] ELSE f[n]}
<1>9. 0 \in S
  BY <1>4, <1>6, <1>7
<1>10. ASSUME NEW i \in 1 .. m, i - 1 \in S
      PROVE  i \in S
  <2>1. i \in 0 .. m /\ g[i] = AddShown(g[i - 1], s[i])
    BY <1>7
  <2>2. g[i - 1] = IF i - 1 <= n THEN f[i - 1] ELSE f[n]
    BY <1>10
  <2>3. CASE i <= n
    <3>1. i \in 1 .. n /\ i - 1 <= n
      BY <1>4, <2>3
    <3>2. g[i] = f[i]
      BY <1>6, <1>8, <2>1, <2>2, <3>1
    <3> QED
      BY <2>1, <2>3, <3>2
  <2>4. CASE ~ (i <= n)
    <3>1. i \in n + 1 .. m /\ (i - 1 = n \/ ~ (i - 1 <= n))
      BY <1>4, <2>4
    <3>2. g[i - 1] = f[n]
      BY <1>4, <2>2, <3>1
    <3>3. g[i] = f[n]
      BY <1>8, <2>1, <3>1, <3>2 DEF AddShown
    <3> QED
      BY <2>1, <2>4, <3>3
  <2> QED
    BY <2>3, <2>4
<1> HIDE DEF S
<1>11. m \in S
  <2>1. \A i \in 0 .. m : i \in S
    BY <1>4, <1>9, <1>10, Induction
  <2> QED
    BY <1>4, <2>1
<1>12. g[m] = IF m <= n THEN f[m] ELSE f[n]
  BY <1>11 DEF S
<1>13. g[m] = f[n]
  <2>1. m <= n => m = n
    BY <1>4
  <2> QED
    BY <1>12, <2>1
<1> QED
  BY <1>1, <1>2, <1>5, <1>13 DEF NonEmpty

\* The k-th slot before slot i.
Before(i, k) == (i - k) % Slots

LEMMA BeforeIs ==
  ASSUME NEW i \in 0 .. Slots - 1, NEW k \in 1 .. Slots
  PROVE  Before(i, k) = IF k <= i THEN i - k ELSE i - k + Slots
<1>1. Slots \in Nat \ {0}
  BY ShellAssumption
<1>2. i - k \in Int /\ 0 - Slots <= i - k /\ i - k <= Slots /\ i - k < Slots
  BY <1>1
<1>3. (i - k) % Slots = IF i - k < 0 THEN i - k + Slots ELSE i - k
  BY <1>1, <1>2, Remainder
<1> QED
  BY <1>1, <1>3 DEF Before

\* The ring h, with idx the next slot, holds the lines e.
Recent(h, idx, e) == \A k \in 1 .. Len(e) : h[Before(idx, k)] = e[Len(e) + 1 - k]
\* Before the first lap the slots are filled from the first one.
FirstLap(h, idx, e) ==
  Len(e) < Slots => idx = Len(e) /\ \A i \in idx .. Slots - 1 : h[i] = ""

\* The list that begins behind the k-th line.
Rotated(e, k) == SubSeq(e, k + 1, Len(e)) \o SubSeq(e, 1, k)

LEMMA RotatedIs ==
  ASSUME NEW V, NEW e \in Seq(V), NEW k \in 1 .. Len(e)
  PROVE  /\ Rotated(e, k) \in Seq(V) /\ Len(Rotated(e, k)) = Len(e)
         /\ \A i \in 1 .. Len(e) - k : Rotated(e, k)[i] = e[k + i]
         /\ \A i \in Len(e) - k + 1 .. Len(e) : Rotated(e, k)[i] = e[i - (Len(e) - k)]
<1>1. PICK n \in Nat : n = Len(e) /\ k \in 1 .. n
  <2>1. Len(e) \in Nat
    OBVIOUS
  <2> QED
    BY <2>1
<1>2. PICK a, b : a = SubSeq(e, k + 1, n) /\ b = SubSeq(e, 1, k)
  OBVIOUS
<1>3. /\ b \in Seq(V) /\ Len(b) = k /\ \A i \in 1 .. k : b[i] = e[i]
  BY <1>1, <1>2
<1>4. /\ a \in Seq(V) /\ Len(a) = n - k /\ \A i \in 1 .. n - k : a[i] = e[k + i]
  <2>1. CASE k = n
    <3>1. a = <<>>
      BY <1>1, <1>2, <2>1, SubSeqEmpty
    <3>2. <<>> \in Seq(V) /\ Len(<<>>) = 0
      OBVIOUS
    <3> QED
      BY <1>1, <2>1, <3>1, <3>2
  <2>2. CASE k < n
    BY <1>1, <1>2, <2>2
  <2> QED
    BY <1>1, <2>1, <2>2
<1>5. PICK p \in Nat : p = n - k
  <2>1. n - k \in Nat
    BY <1>1
  <2> QED
    BY <2>1
<1>6. /\ a \o b \in Seq(V) /\ Len(a \o b) = n
      /\ \A i \in 1 .. p : (a \o b)[i] = a[i]
      /\ \A i \in p + 1 .. n : (a \o b)[i] = b[i - p]
  <2>1. Len(a \o b) = p + k /\ p + k = n /\ Len(a) = p
    BY <1>1, <1>3, <1>4, <1>5
  <2> QED
    BY <1>3, <1>4, <2>1
<1>7. Rotated(e, k) = a \o b
  BY <1>1, <1>2 DEF Rotated
<1>8. \A i \in p + 1 .. n : i - p \in 1 .. k
  BY <1>1, <1>5
<1> HIDE DEF Rotated
<1> QED
  BY <1>1, <1>3, <1>4, <1>5, <1>6, <1>7, <1>8

\* The slots in their order are a rotation of the lines.
LEMMA RingIsRotation ==
  ASSUME NEW V, NEW h, \A i \in 0 .. Slots - 1 : h[i] \in V, NEW idx \in 0 .. Slots - 1,
         NEW e \in Seq(V), Len(e) \in 1 .. Slots, Recent(h, idx, e), FirstLap(h, idx, e)
  PROVE  \E k \in 1 .. Len(e) : show_history(h) = NonEmpty(Rotated(e, k))
<1>1. PICK n \in Nat \ {0}, m \in Nat \ {0} : n = Len(e) /\ m = Slots /\ n <= m
  BY ShellAssumption
<1>2. PICK q : q = [i \in 1 .. Slots |-> h[i - 1]]
  OBVIOUS
<1>3. q \in Seq(V) /\ Len(q) = m /\ \A i \in 1 .. m : q[i] = h[i - 1]
  <2>1. \A i \in 1 .. m : i - 1 \in 0 .. Slots - 1
    BY <1>1
  <2>2. \A i \in 1 .. m : h[i - 1] \in V
    BY <2>1
  <2> QED
    BY <1>1, <1>2, <2>2
<1>4. show_history(h) = NonEmpty(q)
  BY <1>2 DEF show_history
<1>5. ASSUME NEW k \in 1 .. n, NEW i \in 1 .. m, Before(idx, k) = i - 1
      PROVE  q[i] = e[n + 1 - k]
  BY <1>1, <1>3, <1>5 DEF Recent
<1>6. \A k \in 1 .. n : Before(idx, k) = IF k <= idx THEN idx - k ELSE idx - k + m
  <2>1. \A k \in 1 .. n : k \in 1 .. Slots
    BY <1>1
  <2> QED
    BY <1>1, <2>1, BeforeIs
<1>7. CASE n < m
  <2>1. idx = n /\ \A i \in n .. m - 1 : h[i] = ""
    BY <1>1, <1>7 DEF FirstLap
  <2>2. ASSUME NEW i \in 1 .. n
        PROVE  q[i] = e[i]
    <3>1. PICK k : k = n + 1 - i
      OBVIOUS
    <3>2. n \in Nat /\ m \in Nat /\ n <= m
      BY <1>1
    <3>3. k \in 1 .. n /\ k <= n /\ n + 1 - k = i /\ n - k = i - 1 /\ i \in 1 .. m
      BY <3>1, <3>2
    <3>4. Before(idx, k) = IF k <= idx THEN idx - k ELSE idx - k + m
      BY <1>6, <3>3
    <3>5. Before(idx, k) = i - 1
      BY <2>1, <3>3, <3>4
    <3> QED
      BY <1>5, <3>3, <3>5
  <2>3. ASSUME NEW i \in n + 1 .. m
        PROVE  q[i] = ""
    <3>1. i \in 1 .. m /\ i - 1 \in n .. m - 1
      BY <1>1
    <3> QED
      BY <1>3, <2>1, <3>1
  <2>4. PICK k \in 1 .. n : k = n /\ n - k = 0
    BY <1>1
  <2>5. PICK r : r = Rotated(e, k)
    OBVIOUS
  <2>6. /\ r \in Seq(V) /\ Len(r) = n
        /\ \A i \in n - k + 1 .. n : r[i] = e[i - (n - k)]
    BY <1>1, <2>5, RotatedIs
  <2>7. \A i \in 1 .. n : r[i] = e[i]
    BY <1>1, <2>4, <2>6
  <2>8. NonEmpty(q) = NonEmpty(r)
    <3>1. PaddedTo(r, n, q, m)
      BY <1>1, <2>2, <2>3, <2>7 DEF PaddedTo
    <3> QED
      BY <1>3, <2>6, <3>1, NonEmptyPrefix
  <2> QED
    BY <1>1, <1>4, <2>5, <2>8
<1>8. CASE n = m
  <2>1. idx \in 0 .. m - 1
    BY <1>1
  <2>2. PICK k \in 1 .. n : k = m - idx /\ n - k = idx
    BY <1>1, <1>8, <2>1
  <2>3. PICK r : r = Rotated(e, k)
    OBVIOUS
  <2>4. /\ r \in Seq(V) /\ Len(r) = n
        /\ \A i \in 1 .. n - k : r[i] = e[k + i]
        /\ \A i \in n - k + 1 .. n : r[i] = e[i - (n - k)]
    BY <1>1, <2>3, RotatedIs
  <2>5. ASSUME NEW i \in 1 .. n
        PROVE  q[i] = r[i]
    <3>1. CASE i <= idx
      <4>1. PICK j \in 1 .. n : j = idx - i + 1 /\ j <= idx /\ n + 1 - j = k + i
        BY <1>1, <1>8, <2>1, <2>2, <3>1
      <4>2. Before(idx, j) = i - 1 /\ i \in 1 .. m
        BY <1>1, <1>6, <1>8, <2>1, <4>1
      <4>3. q[i] = e[k + i]
        BY <1>5, <4>1, <4>2
      <4>4. i \in 1 .. n - k
        BY <2>1, <2>2, <3>1
      <4> QED
        BY <2>4, <4>3, <4>4
    <3>2. CASE i > idx
      <4>1. PICK j \in 1 .. n : j = idx - i + 1 + m /\ ~ (j <= idx) /\ n + 1 - j = i - idx
        BY <1>1, <1>8, <2>1, <3>2
      <4>2. Before(idx, j) = i - 1 /\ i \in 1 .. m
        BY <1>1, <1>6, <1>8, <2>1, <4>1
      <4>3. q[i] = e[i - idx]
        BY <1>5, <4>1, <4>2
      <4>4. i \in n - k + 1 .. n /\ i - (n - k) = i - idx
        BY <1>1, <2>1, <2>2, <3>2
      <4> QED
        BY <2>4, <4>3, <4>4
    <3> QED
      BY <2>1, <3>1, <3>2
  <2>6. NonEmpty(q) = NonEmpty(r)
    <3>1. PaddedTo(r, n, q, m)
      <4>1. n <= m /\ \A i \in n + 1 .. m : FALSE
        BY <1>1, <1>8
      <4> QED
        BY <2>5, <4>1 DEF PaddedTo
    <3> QED
      BY <1>3, <2>4, <3>1, NonEmptyPrefix
  <2> QED
    BY <1>1, <1>4, <2>3, <2>6
<1> QED
  BY <1>1, <1>7, <1>8

\* The inductive invariant: what the slots hold is known on the first lap too.
ShellInv ==
  /\ ShellTypeOK
  /\ HistoryIsRecent
  /\ FirstLap(history, hist_idx, Kept(entered))
  /\ HistoryIsARotation
  /\ CalcIsExact
  /\ OnlyOverflowHalts

\* The lines as the slots keep them: one for each, of the same place.
LEMMA KeptIs ==
  ASSUME NEW q \in Seq(Lines)
  PROVE  /\ Kept(q) \in Seq(Slotted) /\ Len(Kept(q)) = Len(q)
         /\ \A i \in 1 .. Len(q) : Kept(q)[i] = SlotText(q[i])
<1>1. PICK n \in Nat : n = Len(q)
  OBVIOUS
<1>2. DOMAIN q = 1 .. n /\ \A i \in 1 .. n : q[i] \in Lines
  BY <1>1
<1>3. Kept(q) = [i \in 1 .. n |-> SlotText(q[i])]
  BY <1>2 DEF Kept
<1>4. \A i \in 1 .. n : SlotText(q[i]) \in Slotted
  BY <1>2 DEF Slotted
<1> QED
  BY <1>1, <1>3, <1>4

\* To keep the lines of a longer list is to lengthen the list that is kept, and so
\* for the list without its first line.
LEMMA KeptAfter ==
  ASSUME NEW q \in Seq(Lines), Len(q) <= Slots, NEW l \in Lines
  PROVE  Kept(IF Len(Append(q, l)) > Slots THEN Tail(Append(q, l)) ELSE Append(q, l))
           = LET e == Append(Kept(q), SlotText(l)) IN IF Len(e) > Slots THEN Tail(e) ELSE e
<1>1. PICK n \in Nat : n = Len(q)
  OBVIOUS
<1>2. PICK a : a = Append(q, l)
  OBVIOUS
<1>3. a \in Seq(Lines) /\ Len(a) = n + 1 /\ a[n + 1] = l /\ \A i \in 1 .. n : a[i] = q[i]
  BY <1>1, <1>2
<1>4. PICK k, ka : k = Kept(q) /\ ka = Kept(a)
  OBVIOUS
<1>5. k \in Seq(Slotted) /\ Len(k) = n /\ \A i \in 1 .. n : k[i] = SlotText(q[i])
  BY <1>1, <1>4, KeptIs
<1>6. ka \in Seq(Slotted) /\ Len(ka) = n + 1 /\ \A i \in 1 .. n + 1 : ka[i] = SlotText(a[i])
  BY <1>3, <1>4, KeptIs
<1>7. PICK t : t = SlotText(l)
  OBVIOUS
<1>8. t \in Slotted
  BY <1>7 DEF Slotted
<1>9. ka = Append(k, t)
  <2>1. Append(k, t) \in Seq(Slotted) /\ Len(Append(k, t)) = n + 1
    BY <1>5, <1>8
  <2>2. Append(k, t)[n + 1] = t /\ \A i \in 1 .. n : Append(k, t)[i] = k[i]
    BY <1>5, <1>8
  <2>3. n + 1 \in 1 .. n + 1 /\ \A i \in 1 .. n + 1 : i = n + 1 \/ i \in 1 .. n
    BY <1>1
  <2>4. ASSUME NEW i \in 1 .. n + 1
        PROVE  ka[i] = Append(k, t)[i]
    <3>1. CASE i = n + 1
      BY <1>3, <1>6, <1>7, <2>2, <3>1
    <3>2. CASE i \in 1 .. n
      <4>1. ka[i] = SlotText(a[i]) /\ a[i] = q[i] /\ k[i] = SlotText(q[i])
        BY <1>3, <1>5, <1>6, <3>2
      <4> QED
        BY <2>2, <3>2, <4>1
    <3> QED
      BY <2>3, <3>1, <3>2
  <2> QED
    BY <1>6, <2>1, <2>4, SeqEqual
<1>10. Kept(Tail(a)) = Tail(ka)
  <2>1. Tail(a) \in Seq(Lines) /\ Len(Tail(a)) = n /\ \A i \in 1 .. n : Tail(a)[i] = a[i + 1]
    BY <1>1, <1>3
  <2>2. Tail(ka) \in Seq(Slotted) /\ Len(Tail(ka)) = n /\ \A i \in 1 .. n : Tail(ka)[i] = ka[i + 1]
    BY <1>1, <1>6
  <2>3. PICK b, kb : b = Tail(a) /\ kb = Kept(b)
    OBVIOUS
  <2>4. kb \in Seq(Slotted) /\ Len(kb) = n /\ \A i \in 1 .. n : kb[i] = SlotText(b[i])
    BY <2>1, <2>3, KeptIs
  <2>5. \A i \in 1 .. n : i + 1 \in 1 .. n + 1
    BY <1>1
  <2>6. \A i \in 1 .. n : kb[i] = Tail(ka)[i]
    BY <1>6, <2>1, <2>2, <2>3, <2>4, <2>5
  <2>7. kb = Tail(ka)
    BY <2>2, <2>4, <2>6, SeqEqual
  <2> QED
    BY <2>3, <2>7
<1>11. CASE n + 1 > Slots
  BY <1>2, <1>3, <1>4, <1>6, <1>7, <1>9, <1>10, <1>11
<1>12. CASE ~ (n + 1 > Slots)
  BY <1>2, <1>3, <1>4, <1>6, <1>7, <1>9, <1>12
<1> QED
  BY <1>11, <1>12

LEMMA NextSlotIs ==
  ASSUME NEW i \in 0 .. Slots - 1
  PROVE  NextSlot(i) = IF i + 1 < Slots THEN i + 1 ELSE 0
<1>1. Slots \in Nat \ {0}
  BY ShellAssumption
<1>2. i + 1 \in Int /\ 0 - Slots <= i + 1 /\ i + 1 <= Slots /\ ~ (i + 1 < 0)
  BY <1>1
<1>3. (i + 1) % Slots = IF i + 1 < Slots THEN i + 1 ELSE 0
  BY <1>1, <1>2, Remainder
<1> QED
  BY <1>3 DEF NextSlot

\* A line that is entered takes the slot of the oldest one, and every other keeps
\* its place in the order.
LEMMA AddHistory ==
  ASSUME ShellInv, NEW ln \in Lines, add_history(ln)
  PROVE  /\ ShellTypeOK'
         /\ Kept(entered') \in Seq(Slotted) /\ Len(Kept(entered')) \in 1 .. Slots
         /\ HistoryIsRecent'
         /\ FirstLap(history', hist_idx', Kept(entered'))
<1>0. Slots \in Nat \ {0}
  BY ShellAssumption
<1> DEFINE l == SlotText(ln)
           old == Kept(entered)
           new == Kept(entered')
<1>a. l \in Slotted /\ history' = [history EXCEPT ![hist_idx] = l]
  BY DEF add_history, Slotted
<1>b. entered \in Seq(Lines) /\ Len(entered) <= Slots
  BY DEF ShellInv, ShellTypeOK
<1>c. entered' = IF Len(Append(entered, ln)) > Slots THEN Tail(Append(entered, ln))
                 ELSE Append(entered, ln)
  BY DEF add_history
<1>d. old \in Seq(Slotted) /\ Len(old) = Len(entered) /\ Len(old) <= Slots
  BY <1>b, KeptIs
<1>e. new = LET e == Append(old, l) IN IF Len(e) > Slots THEN Tail(e) ELSE e
  BY <1>b, <1>c, KeptAfter
<1>f. \A k \in 1 .. Len(old) : history[(hist_idx - k) % Slots] = old[Len(old) + 1 - k]
  BY DEF ShellInv, HistoryIsRecent
<1>g. FirstLap(history, hist_idx, old)
  BY DEF ShellInv
<1> HIDE DEF l, old, new
<1>1. /\ history' \in [0 .. Slots - 1 -> Slotted]
      /\ history'[hist_idx] = l
      /\ \A i \in 0 .. Slots - 1 : i # hist_idx => history'[i] = history[i]
  BY <1>a DEF ShellInv, ShellTypeOK
<1>2. hist_idx \in 0 .. Slots - 1 /\ hist_idx' = IF hist_idx + 1 < Slots THEN hist_idx + 1 ELSE 0
  BY NextSlotIs DEF ShellInv, ShellTypeOK, add_history
<1>3. hist_idx' \in 0 .. Slots - 1
  BY <1>0, <1>2
<1>4. /\ new \in Seq(Slotted) /\ Len(new) \in 1 .. Slots
      /\ Len(new) <= Len(old) + 1
      /\ new[Len(new)] = l
      /\ \A k \in 2 .. Len(new) :
           new[Len(new) + 1 - k] = old[Len(old) + 1 - (k - 1)]
  <2> DEFINE e == Append(old, l)
  <2>1. /\ old \in Seq(Slotted) /\ Len(old) \in Nat /\ Len(old) <= Slots
        /\ e \in Seq(Slotted) /\ Len(e) = Len(old) + 1 /\ e[Len(old) + 1] = l
        /\ \A i \in 1 .. Len(old) : e[i] = old[i]
    BY <1>a, <1>d
  <2>2. new = IF Len(e) > Slots THEN Tail(e) ELSE e
    BY <1>e
  <2> HIDE DEF e
  <2>3. CASE Len(old) < Slots
    <3>1. new = e
      BY <1>0, <2>1, <2>2, <2>3
    <3>2. ASSUME NEW k \in 2 .. Len(e)
          PROVE  e[Len(e) + 1 - k] = old[Len(old) + 1 - (k - 1)]
      <4>1. Len(e) + 1 - k = Len(old) + 1 - (k - 1) /\ Len(e) + 1 - k \in 1 .. Len(old)
        BY <2>1
      <4> QED
        BY <2>1, <4>1
    <3>3. Len(e) \in 1 .. Slots /\ e[Len(e)] = l
      BY <1>0, <2>1, <2>3
    <3>4. new \in Seq(Slotted) /\ Len(new) = Len(old) + 1 /\ Len(new) \in 1 .. Slots
      BY <2>1, <3>1, <3>3
    <3>5. new[Len(new)] = l
      BY <3>1, <3>3
    <3>6. \A k \in 2 .. Len(new) : new[Len(new) + 1 - k] = old[Len(old) + 1 - (k - 1)]
      BY <3>1, <3>2
    <3>7. Len(new) <= Len(old) + 1
      BY <2>1, <3>4
    <3> QED
      BY <3>4, <3>5, <3>6, <3>7
  <2>4. CASE Len(old) = Slots
    <3>1. new = Tail(e)
      BY <1>0, <2>1, <2>2, <2>4
    <3>2. /\ Tail(e) \in Seq(Slotted) /\ Len(Tail(e)) = Slots
          /\ \A i \in 1 .. Slots : Tail(e)[i] = e[i + 1]
      BY <1>0, <2>1, <2>4
    <3>3. ASSUME NEW k \in 2 .. Slots
          PROVE  Tail(e)[Slots + 1 - k] = old[Slots + 1 - (k - 1)]
      <4>1. /\ Slots + 1 - k \in 1 .. Slots /\ Slots + 1 - k + 1 = Slots + 1 - (k - 1)
            /\ Slots + 1 - (k - 1) \in 1 .. Slots
        BY <1>0
      <4> QED
        BY <2>1, <2>4, <3>2, <4>1
    <3>4. Slots \in 1 .. Slots /\ Tail(e)[Slots] = l
      BY <1>0, <2>1, <2>4, <3>2
    <3>5. new \in Seq(Slotted) /\ Len(new) = Slots /\ Len(new) \in 1 .. Slots
      BY <3>1, <3>2, <3>4
    <3>6. new[Len(new)] = l
      BY <3>1, <3>4, <3>5
    <3> QED
      BY <2>1, <2>4, <3>1, <3>3, <3>5, <3>6
  <2>5. Len(old) < Slots \/ Len(old) = Slots
    BY <1>0, <2>1
  <2> QED
    BY <2>3, <2>4, <2>5, Zenon
<1>5. ASSUME NEW k \in 1 .. Len(new)
      PROVE  history'[(hist_idx' - k) % Slots] = new[Len(new) + 1 - k]
  <2>1. k \in 1 .. Slots /\ Len(new) \in Nat
    BY <1>0, <1>4
  <2>2. (hist_idx' - k) % Slots = IF k <= hist_idx' THEN hist_idx' - k ELSE hist_idx' - k + Slots
    BY <1>3, <2>1, BeforeIs DEF Before
  <2>3. CASE k = 1
    <3>1. (hist_idx' - k) % Slots = hist_idx
      BY <1>0, <1>2, <2>2, <2>3
    <3>2. Len(new) + 1 - k = Len(new)
      BY <2>1, <2>3
    <3> QED
      BY <1>1, <1>4, <3>1, <3>2
  <2>4. CASE k > 1
    <3>1. k \in 2 .. Len(new) /\ k - 1 \in 1 .. Len(old) /\ k - 1 \in 1 .. Slots
          /\ k - 1 < Slots
      <4>1. Len(old) \in Nat /\ Len(old) <= Slots
        BY <1>d
      <4> QED
        BY <1>0, <1>4, <2>1, <2>4, <4>1
    <3>2. (hist_idx - (k - 1)) % Slots
            = IF k - 1 <= hist_idx THEN hist_idx - (k - 1) ELSE hist_idx - (k - 1) + Slots
      BY <1>2, <3>1, BeforeIs DEF Before
    <3>3. /\ (hist_idx' - k) % Slots = (hist_idx - (k - 1)) % Slots
          /\ (hist_idx - (k - 1)) % Slots \in 0 .. Slots - 1
          /\ (hist_idx - (k - 1)) % Slots # hist_idx
      BY <1>0, <1>2, <2>2, <3>1, <3>2
    <3>4. history[(hist_idx - (k - 1)) % Slots] = old[Len(old) + 1 - (k - 1)]
      BY <1>f, <3>1
    <3> QED
      BY <1>1, <1>4, <3>1, <3>3, <3>4
  <2> QED
    BY <2>1, <2>3, <2>4
<1>6. FirstLap(history', hist_idx', new)
  <2> SUFFICES ASSUME Len(new) < Slots
               PROVE  hist_idx' = Len(new) /\ \A i \in hist_idx' .. Slots - 1 : history'[i] = ""
    BY DEF FirstLap
  <2>1. PICK n \in Nat, m \in Nat : n = Len(old) /\ m = Slots /\ n <= m
    BY <1>0, <1>d
  <2>2. Len(new) = IF n < m THEN n + 1 ELSE m
    <3>1. Len(Append(old, l)) = n + 1 /\ Append(old, l) \in Seq(Slotted)
      BY <1>a, <1>d, <2>1
    <3>2. new = IF n + 1 > m THEN Tail(Append(old, l)) ELSE Append(old, l)
      BY <1>e, <2>1, <3>1
    <3>3. Len(Tail(Append(old, l))) = n
      BY <2>1, <3>1
    <3> QED
      BY <2>1, <3>1, <3>2, <3>3
  <2>3. n + 1 < m /\ Len(new) = n + 1
    BY <2>1, <2>2
  <2>4. hist_idx = n /\ \A i \in n .. m - 1 : history[i] = ""
    <3>1. Len(old) < Slots
      BY <2>1, <2>3
    <3>2. hist_idx = Len(old) /\ \A i \in hist_idx .. Slots - 1 : history[i] = ""
      BY <1>g, <3>1 DEF FirstLap
    <3> QED
      BY <2>1, <3>2
  <2>5. hist_idx' = n + 1
    BY <1>2, <2>1, <2>3, <2>4
  <2>6. ASSUME NEW i \in n + 1 .. m - 1
        PROVE  history'[i] = ""
    <3>1. i \in 0 .. m - 1 /\ i # n /\ i \in n .. m - 1
      OBVIOUS
    <3>2. i \in 0 .. Slots - 1 /\ i # hist_idx
      BY <2>1, <2>4, <3>1
    <3> QED
      BY <1>1, <2>4, <3>1, <3>2
  <2> QED
    BY <2>1, <2>3, <2>5, <2>6
<1>7. entered' \in Seq(Lines) /\ Len(entered') <= Slots
  <2> DEFINE a == Append(entered, ln)
  <2>1. a \in Seq(Lines) /\ Len(a) = Len(entered) + 1 /\ Len(entered) \in Nat
    BY <1>b
  <2>2. entered' = IF Len(a) > Slots THEN Tail(a) ELSE a
    BY <1>c
  <2> HIDE DEF a
  <2>3. CASE Len(a) > Slots
    <3>1. Tail(a) \in Seq(Lines) /\ Len(Tail(a)) = Len(entered)
      BY <2>1
    <3> QED
      BY <1>b, <2>2, <2>3, <3>1
  <2>4. CASE ~ (Len(a) > Slots)
    BY <1>0, <2>1, <2>2, <2>4
  <2> QED
    BY <2>3, <2>4
<1>8. ShellTypeOK'
  BY <1>1, <1>3, <1>7 DEF ShellTypeOK
<1>9. HistoryIsRecent'
  BY <1>5 DEF HistoryIsRecent, new
<1> QED
  BY <1>4, <1>6, <1>8, <1>9 DEF new

-----------------------------------------------------------------------------

LEMMA ShellInitInv == ShellInit => ShellInv
<1> SUFFICES ASSUME ShellInit
             PROVE  ShellInv
  OBVIOUS
<1>1. Slots \in Nat \ {0}
  BY ShellAssumption
<1>2. history \in [0 .. Slots - 1 -> Slotted] /\ \A i \in 0 .. Slots - 1 : history[i] = ""
  <2>1. history = [i \in 0 .. Slots - 1 |-> ""]
    BY DEF ShellInit
  <2> QED
    BY <2>1 DEF Slotted
<1>3. hist_idx = 0 /\ hist_idx \in 0 .. Slots - 1
  <2>1. 0 \in 0 .. Slots - 1
    BY <1>1
  <2> QED
    BY <2>1 DEF ShellInit
<1>4. entered \in Seq(Lines) /\ Len(entered) = 0
  <2>1. entered = <<>>
    BY DEF ShellInit
  <2>2. <<>> \in Seq(Lines) /\ Len(<<>>) = 0
    OBVIOUS
  <2> QED
    BY <2>1, <2>2
<1>5. Len(Kept(entered)) = 0
  BY <1>4, KeptIs
<1>6. HistoryIsRecent
  BY <1>5 DEF HistoryIsRecent
<1>7. FirstLap(history, hist_idx, Kept(entered))
  BY <1>2, <1>3, <1>5 DEF FirstLap
<1>8. last = [line |-> "", handler |-> "none", rest |-> ""]
  BY DEF ShellInit
<1>9. HistoryIsARotation /\ CalcIsExact /\ OnlyOverflowHalts
  BY <1>8 DEF HistoryIsARotation, CalcIsExact, OnlyOverflowHalts
<1>10. ShellTypeOK
  <2>1. Len(entered) <= Slots
    BY <1>1, <1>4
  <2> QED
    BY <1>2, <1>3, <1>4, <2>1 DEF ShellTypeOK
<1> QED
  BY <1>6, <1>7, <1>9, <1>10 DEF ShellInv

\* history, entered as a line, shows a rotation of the lines.
LEMMA EnterStep ==
  ASSUME ShellInv, NEW ln \in Lines, Enter(ln)
  PROVE  ShellInv'
<1>1. add_history(ln)
  BY DEF Enter
<1>2. /\ ShellTypeOK'
      /\ Kept(entered') \in Seq(Slotted) /\ Len(Kept(entered')) \in 1 .. Slots
      /\ HistoryIsRecent' /\ FirstLap(history', hist_idx', Kept(entered'))
  BY <1>1, AddHistory
<1>3. "sum" \notin DOMAIN last'
  BY DEF Enter
<1>4. OnlyOverflowHalts' /\ CalcIsExact'
  BY <1>3 DEF OnlyOverflowHalts, CalcIsExact
<1>5. HistoryIsARotation'
  <2> DEFINE kept == Kept(entered')
  <2> SUFFICES ASSUME last'.handler = "history"
               PROVE  \E k \in 1 .. Len(kept) : last'.printed = NonEmpty(Rotated(kept, k))
    BY DEF HistoryIsARotation, Rotated
  <2>1. last'.printed = show_history(history')
    BY DEF Enter
  <2>2. Recent(history', hist_idx', kept)
    BY <1>2 DEF Recent, Before, HistoryIsRecent
  <2>3. hist_idx' \in 0 .. Slots - 1 /\ \A i \in 0 .. Slots - 1 : history'[i] \in Slotted
    BY <1>2 DEF ShellTypeOK
  <2>4. kept \in Seq(Slotted) /\ Len(kept) \in 1 .. Slots /\ FirstLap(history', hist_idx', kept)
    BY <1>2
  <2> HIDE DEF kept
  <2>5. \E k \in 1 .. Len(kept) : show_history(history') = NonEmpty(Rotated(kept, k))
    BY <2>2, <2>3, <2>4, RingIsRotation
  <2> QED
    BY <2>1, <2>5
<1> QED
  BY <1>2, <1>4, <1>5 DEF ShellInv

LEMMA CalcStep ==
  ASSUME ShellInv, NEW ln \in Lines, NEW sum \in Sums, Calc(ln, sum)
  PROVE  ShellInv'
<1>1. add_history(ln)
  BY DEF Calc
<1>2. ShellTypeOK' /\ HistoryIsRecent' /\ FirstLap(history', hist_idx', Kept(entered'))
  BY <1>1, AddHistory
<1>3. /\ last'.sum = sum /\ last'.result = calc(sum[1], sum[2], sum[3])
      /\ last'.handler = "calc"
  BY DEF Calc
<1>4. sum[1] \in Nat /\ sum[3] \in Nat
  BY ShellAssumption
<1>5. OnlyOverflowHalts'
  BY <1>3, <1>4, CalcHalts DEF OnlyOverflowHalts
<1>6. CalcIsExact'
  <2>1. PICK x, o, y : x = sum[1] /\ o = sum[2] /\ y = sum[3] /\ x \in Nat /\ y \in Nat
    BY <1>4
  <2>2. InRange(x) /\ InRange(y) /\ InRange(Exact(x, o, y)) /\ (o \in {"/", "%"} => y # 0)
          => calc(x, o, y).shown /\ Value(calc(x, o, y).text) = Exact(x, o, y)
    BY <2>1, CalcGivesExact
  <2> QED
    BY <1>3, <2>1, <2>2 DEF CalcIsExact, Exact
<1>7. HistoryIsARotation'
  BY <1>3 DEF HistoryIsARotation
<1> QED
  BY <1>2, <1>5, <1>6, <1>7 DEF ShellInv

LEMMA ShellNextInv == ShellInv /\ [ShellNext]_shellVars => ShellInv'
<1> SUFFICES ASSUME ShellInv, [ShellNext]_shellVars
             PROVE  ShellInv'
  OBVIOUS
<1>1. ASSUME NEW ln \in Lines, Enter(ln)
      PROVE  ShellInv'
  BY <1>1, EnterStep
<1>2. ASSUME NEW ln \in Lines, NEW sum \in Sums, Calc(ln, sum)
      PROVE  ShellInv'
  BY <1>2, CalcStep
<1>3. CASE UNCHANGED shellVars
  BY <1>3 DEF ShellInv, ShellTypeOK, shellVars, FirstLap, HistoryIsRecent, HistoryIsARotation, CalcIsExact,
              OnlyOverflowHalts
<1> QED
  BY <1>1, <1>2, <1>3 DEF ShellNext

LEMMA ShellInvariance == ShellSpec => []ShellInv
  BY ShellInitInv, ShellNextInv, PTL DEF ShellSpec

\* The slots before the next one hold the last lines that were entered, the last one
\* first and each up to the length of a slot, whatever the number of slots and their
\* length.
THEOREM HistoryCorrect == ShellSpec => []HistoryIsRecent
<1>1. ShellInv => HistoryIsRecent
  BY DEF ShellInv
<1> QED
  BY <1>1, ShellInvariance, PTL

\* The calculator stops the kernel only if neither number fits an int, whatever
\* the width of an int.
THEOREM HaltsCorrect == ShellSpec => []OnlyOverflowHalts
<1>1. ShellInv => OnlyOverflowHalts
  BY DEF ShellInv
<1> QED
  BY <1>1, ShellInvariance, PTL

\* history shows the last lines that were entered, each once and up to the length of
\* a slot, in a rotation of their order, for every number of slots and length.
THEOREM HistoryRotates == ShellSpec => []HistoryIsARotation
<1>1. ShellInv => HistoryIsARotation
  BY DEF ShellInv
<1> QED
  BY <1>1, ShellInvariance, PTL

\* Numbers and results that fit an int are printed exactly: atoi, the calculation,
\* the loop of itoa over the digits and reverse lose nothing, for every width.
THEOREM CalcCorrect == ShellSpec => []CalcIsExact
<1>1. ShellInv => CalcIsExact
  BY DEF ShellInv
<1> QED
  BY <1>1, ShellInvariance, PTL

================================================================================
