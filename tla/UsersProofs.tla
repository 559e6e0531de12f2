------------------------------ MODULE UsersProofs ------------------------------
(* Proofs about Users: what load_users_from_disk makes of a text that            *)
(* save_users_to_disk wrote, whole or cut anywhere, and from it what a loss of   *)
(* power leaves of the accounts.                                                 *)
EXTENDS Users, FiniteSetTheorems, SequenceTheorems, WellFoundedInduction, TLAPS

-----------------------------------------------------------------------------
(* Induction and recursion.                                                *)

LEMMA LeastElement ==
  ASSUME NEW S \in SUBSET Nat, S # {}
  PROVE  First(S) \in S /\ \A j \in S : First(S) <= j
<1> DEFINE R == OpToRel(<, Nat)
<1>1. IsWellFoundedOn(R, Nat)
  BY NatLessThanWellFounded
<1>2. ASSUME NEW x \in Nat, NEW y \in Nat, y < x
      PROVE  <<y, x>> \in R
  BY <1>2 DEF OpToRel
<1> HIDE DEF R
<1>3. PICK x \in S : \A y \in S : ~ (<<y, x>> \in R)
  BY <1>1, WFMin
<1>4. ASSUME NEW y \in S
      PROVE  x <= y
  <2>1. x \in Nat /\ y \in Nat
    OBVIOUS
  <2>2. ~ (y < x)
    BY <2>1, <1>2, <1>3
  <2> QED
    BY <2>1, <2>2
<1> QED
  BY <1>4 DEF First

\* Induction up to n, for a set of numbers.
LEMMA Induction ==
  ASSUME NEW n \in Nat, NEW S, 0 \in S, \A i \in 1 .. n : i - 1 \in S => i \in S
  PROVE  \A i \in 0 .. n : i \in S
<1> DEFINE T == (0 .. n) \ S
<1> SUFFICES ASSUME T # {}
             PROVE  FALSE
  OBVIOUS
<1>1. T \in SUBSET Nat
  OBVIOUS
<1> DEFINE m == First(T)
<1>2. m \in T /\ \A j \in T : m <= j
  <2> HIDE DEF T
  <2> QED
    BY <1>1, LeastElement
<1> HIDE DEF m
<1>3. m \in 1 .. n /\ m - 1 \in 0 .. n /\ ~ (m <= m - 1)
  BY <1>2
<1>4. m - 1 \in S
  BY <1>2, <1>3
<1> QED
  BY <1>2, <1>3, <1>4

\* A recursion over 0 .. n whose step is a function defines a function.
Steps(n, X, g) == \A y \in X, i \in 1 .. n : g[<<y, i>>] \in X
IsIteration(f, n, x, g) == f[0] = x /\ \A i \in 1 .. n : f[i] = g[<<f[i - 1], i>>]
HasIteration(n, X, x, g) == \E f \in [0 .. n -> X] : IsIteration(f, n, x, g)

LEMMA Iteration ==
  ASSUME NEW n \in Nat, NEW X, NEW x \in X, NEW g, Steps(n, X, g)
  PROVE  HasIteration(n, X, x, g)
<1> USE DEF Steps, IsIteration, HasIteration
<1> DEFINE Good == {m \in 0 .. n : \E f \in [0 .. m -> X] :
                      f[0] = x /\ \A i \in 1 .. m : f[i] = g[<<f[i - 1], i>>]}
<1>1. 0 \in Good
  <2> DEFINE f == [i \in 0 .. 0 |-> x]
  <2>1. f \in [0 .. 0 -> X] /\ f[0] = x
    OBVIOUS
  <2> HIDE DEF f
  <2>2. \A i \in 1 .. 0 : f[i] = g[<<f[i - 1], i>>]
    OBVIOUS
  <2>3. 0 \in 0 .. n
    OBVIOUS
  <2> QED
    BY <2>1, <2>2, <2>3
<1>2. ASSUME NEW m \in 1 .. n, m - 1 \in Good
      PROVE  m \in Good
  <2>1. PICK f \in [0 .. m - 1 -> X] :
          f[0] = x /\ \A i \in 1 .. m - 1 : f[i] = g[<<f[i - 1], i>>]
    BY <1>2
  <2> DEFINE h == [i \in 0 .. m |-> IF i = m THEN g[<<f[m - 1], m>>] ELSE f[i]]
  <2>2. g[<<f[m - 1], m>>] \in X
    OBVIOUS
  <2>3. h \in [0 .. m -> X] /\ h[0] = x
    BY <2>1, <2>2
  <2>4. ASSUME NEW i \in 1 .. m
        PROVE  h[i] = g[<<h[i - 1], i>>]
    <3>1. i - 1 \in 0 .. m - 1 /\ i - 1 # m /\ h[i - 1] = f[i - 1]
      OBVIOUS
    <3>2. CASE i = m
      <4>1. h[m] = g[<<f[m - 1], m>>]
        OBVIOUS
      <4> HIDE DEF h
      <4> QED
        BY <3>1, <3>2, <4>1
    <3>3. CASE i # m
      <4>1. i \in 1 .. m - 1 /\ h[i] = f[i]
        BY <3>3
      <4> QED
        BY <2>1, <3>1, <4>1
    <3> QED
      BY <3>2, <3>3
  <2> HIDE DEF h
  <2> QED
    BY <2>3, <2>4
<1> HIDE DEF Good
<1>3. n \in Good
  BY <1>1, <1>2, Induction
<1> QED
  BY <1>3 DEF Good

-----------------------------------------------------------------------------
(* Accounts and tables.                                                    *)

Tables == [Indices -> [active : BOOLEAN, username : Fields, password : Fields]]

\* What a line of users.db can hold: a name without a colon, and not an empty one.
PlainName(n) == n # <<>> /\ Without(Colon, n)
Plain(u)     == PlainName(u.username) /\ Without(Newline, u.password)
PlainAccounts == {a \in Accounts : Plain(a)}

\* The first k entries are the active ones.
Filled(us, k) ==
  /\ us \in Tables
  /\ k \in 0 .. MaxUsers
  /\ \A i \in Indices : us[i].active <=> i < k

AccountOf(u) == [username |-> u.username, password |-> u.password]
FirstAccounts(us, n) == [i \in 1 .. n |-> AccountOf(us[i - 1])]

LEMMA ConstantsAre ==
  /\ MaxUsers \in Nat \ {0} /\ FieldLen \in Nat \ {0}
  /\ SectorSize \in Nat /\ DbLimit \in Nat \ {0} /\ DbLimit = SectorSize - 2
  /\ Colon # Newline /\ Zero # Colon /\ Zero # Newline /\ Zero \notin Bytes
  /\ Colon \in Bytes /\ Newline \in Bytes
  BY UsersAssumption DEF Bytes

LEMMA FieldIsText ==
  ASSUME NEW s \in Fields
  PROVE  s \in Seq(Bytes) /\ Len(s) \in 0 .. FieldLen
<1>1. PICK n \in 0 .. FieldLen : s \in [1 .. n -> Bytes]
  BY DEF Fields
<1>2. n \in Nat
  BY ConstantsAre
<1>3. s \in Seq(Bytes)
  BY <1>1, <1>2, SeqDef
<1>4. Len(s) = n
  BY <1>1, <1>2, <1>3, LenProperties
<1> QED
  BY <1>3, <1>4

LEMMA TextIsField ==
  ASSUME NEW s \in Seq(Bytes), Len(s) <= FieldLen
  PROVE  s \in Fields
<1>1. Len(s) \in 0 .. FieldLen /\ s \in [1 .. Len(s) -> Bytes]
  BY ConstantsAre, LenProperties
<1> QED
  BY <1>1 DEF Fields

LEMMA ConcatIs ==
  ASSUME NEW S, NEW s \in Seq(S), NEW t \in Seq(S)
  PROVE  /\ s \o t \in Seq(S) /\ Len(s \o t) = Len(s) + Len(t)
         /\ \A j \in 1 .. Len(s) : (s \o t)[j] = s[j]
         /\ \A j \in 1 .. Len(t) : (s \o t)[Len(s) + j] = t[j]
<1>1. Len(s) \in Nat /\ Len(t) \in Nat
  OBVIOUS
<1>2. \A j \in 1 .. Len(t) : /\ Len(s) + j \in 1 .. Len(s) + Len(t)
                            /\ ~ (Len(s) + j <= Len(s)) /\ Len(s) + j - Len(s) = j
  BY <1>1
<1>3. /\ s \o t \in Seq(S) /\ Len(s \o t) = Len(s) + Len(t)
      /\ \A i \in 1 .. Len(s) + Len(t) : (s \o t)[i] = IF i <= Len(s) THEN s[i] ELSE t[i - Len(s)]
  BY ConcatProperties
<1> QED
  BY <1>1, <1>2, <1>3

LEMMA SingleIs ==
  ASSUME NEW S, NEW x \in S
  PROVE  <<x>> \in Seq(S) /\ Len(<<x>>) = 1 /\ <<x>>[1] = x
  OBVIOUS

\* The bytes of l are those of a line, and those behind s in t.
IsLine(l, x, y) ==
  /\ Len(l) = Len(x) + Len(y) + 2
  /\ \A j \in 1 .. Len(x) : l[j] = x[j]
  /\ l[Len(x) + 1] = Colon
  /\ \A j \in 1 .. Len(y) : l[Len(x) + 1 + j] = y[j]
  /\ l[Len(x) + Len(y) + 2] = Newline
Follows(t, s, l) ==
  /\ Len(t) = Len(s) + Len(l)
  /\ \A j \in 1 .. Len(l) : t[Len(s) + j] = l[j]

LEMMA LineIs ==
  ASSUME NEW u, NEW x \in Fields, NEW y \in Fields, u.username = x, u.password = y
  PROVE  Line(u) \in Seq(Bytes) /\ IsLine(Line(u), x, y)
<1> DEFINE a == x \o <<Colon>>
           b == a \o y
<1>0. PICK n \in Nat, w \in Nat : n = Len(x) /\ w = Len(y)
  BY FieldIsText, ConstantsAre
<1>1. /\ x \in Seq(Bytes) /\ y \in Seq(Bytes)
      /\ <<Colon>> \in Seq(Bytes) /\ <<Newline>> \in Seq(Bytes)
  BY FieldIsText, ConstantsAre
<1>2. /\ a \in Seq(Bytes) /\ Len(a) = n + 1 /\ a[n + 1] = Colon
      /\ \A j \in 1 .. n : a[j] = x[j]
  <2>1. /\ Len(<<Colon>>) = 1 /\ <<Colon>>[1] = Colon /\ 1 \in 1 .. 1
    OBVIOUS
  <2> QED
    BY <1>0, <1>1, <2>1, ConcatIs
<1> HIDE DEF a
<1>3. /\ b \in Seq(Bytes) /\ Len(b) = n + 1 + w
      /\ \A j \in 1 .. n + 1 : b[j] = a[j]
      /\ \A j \in 1 .. w : b[n + 1 + j] = y[j]
  <2>1. /\ b \in Seq(Bytes) /\ Len(b) = Len(a) + Len(y)
        /\ \A j \in 1 .. Len(a) : b[j] = a[j]
        /\ \A j \in 1 .. Len(y) : b[Len(a) + j] = y[j]
    <3>1. a \in Seq(Bytes) /\ y \in Seq(Bytes)
      BY <1>1, <1>2
    <3> QED
      BY <3>1, ConcatIs
  <2> HIDE DEF b
  <2> QED
    BY <1>0, <1>2, <2>1
<1>4. Line(u) = b \o <<Newline>>
  BY DEF Line, a
<1> HIDE DEF b
<1>5. /\ Line(u) \in Seq(Bytes) /\ Len(Line(u)) = n + w + 2
      /\ \A j \in 1 .. n + 1 + w : Line(u)[j] = b[j]
      /\ Line(u)[n + w + 2] = Newline
  <2>1. /\ Len(<<Newline>>) = 1 /\ <<Newline>>[1] = Newline /\ 1 \in 1 .. 1
    OBVIOUS
  <2>2. /\ Line(u) \in Seq(Bytes) /\ Len(Line(u)) = Len(b) + Len(<<Newline>>)
        /\ \A j \in 1 .. Len(b) : Line(u)[j] = b[j]
        /\ \A j \in 1 .. Len(<<Newline>>) : Line(u)[Len(b) + j] = <<Newline>>[j]
    <3>1. b \in Seq(Bytes) /\ <<Newline>> \in Seq(Bytes)
      BY <1>1, <1>3
    <3> QED
      BY <1>4, <3>1, ConcatIs
  <2>3. Line(u)[Len(b) + 1] = Newline /\ Len(Line(u)) = Len(b) + 1
    BY <2>1, <2>2
  <2>4. Len(b) + 1 = n + w + 2 /\ Len(b) = n + 1 + w
    BY <1>0, <1>3
  <2> QED
    BY <2>2, <2>3, <2>4
<1>6. \A j \in 1 .. n : j \in 1 .. n + 1 /\ j \in 1 .. n + 1 + w
  BY <1>0
<1>7. \A j \in 1 .. w : n + 1 + j \in 1 .. n + 1 + w
  BY <1>0
<1>8. n + 1 \in 1 .. n + 1 /\ n + 1 \in 1 .. n + 1 + w
  BY <1>0
<1>9. \A j \in 1 .. n : Line(u)[j] = x[j]
  BY <1>2, <1>3, <1>5, <1>6
<1>10. \A j \in 1 .. w : Line(u)[n + 1 + j] = y[j]
  BY <1>3, <1>5, <1>7
<1> QED
  BY <1>0, <1>2, <1>3, <1>5, <1>8, <1>9, <1>10 DEF IsLine

-----------------------------------------------------------------------------
(* The text of a table.                                                    *)

Piece(us, i) == IF us[i].active THEN Line(us[i]) ELSE <<>>

\* The texts of the first n entries.
LineTexts(us) ==
  LET upto[n \in 0 .. MaxUsers] ==
        IF n = 0 THEN <<>>
        ELSE upto[n - 1] \o (IF us[n - 1].active THEN Line(us[n - 1]) ELSE <<>>)
  IN  upto

LEMMA LinesAreTexts ==
  ASSUME NEW us
  PROVE  Lines(us) = LineTexts(us)[MaxUsers]
  BY DEF Lines, LineTexts

LEMMA PieceIs ==
  ASSUME NEW us \in Tables, NEW i \in Indices
  PROVE  Piece(us, i) \in Seq(Bytes)
<1>1. us[i].username \in Fields /\ us[i].password \in Fields
  BY DEF Tables
<1> QED
  <2>1. Line(us[i]) \in Seq(Bytes)
    BY <1>1, LineIs
  <2> QED
    BY <2>1 DEF Piece

LEMMA LineTextsAre ==
  ASSUME NEW us \in Tables
  PROVE  /\ LineTexts(us) \in [0 .. MaxUsers -> Seq(Bytes)]
         /\ LineTexts(us)[0] = <<>>
         /\ \A n \in 1 .. MaxUsers : LineTexts(us)[n] = LineTexts(us)[n - 1] \o Piece(us, n - 1)
<1> DEFINE g == [p \in Seq(Bytes) \X (1 .. MaxUsers) |-> p[1] \o Piece(us, p[2] - 1)]
           E(f) == f = [n \in 0 .. MaxUsers |-> IF n = 0 THEN <<>>
                                                ELSE f[n - 1] \o Piece(us, n - 1)]
<1>1. \A n \in 1 .. MaxUsers : n - 1 \in Indices
  BY ConstantsAre DEF Indices
<1>2. \A n \in 1 .. MaxUsers : Piece(us, n - 1) \in Seq(Bytes)
  BY <1>1, PieceIs
<1>4. HasIteration(MaxUsers, Seq(Bytes), <<>>, g)
  <2>1. <<>> \in Seq(Bytes) /\ MaxUsers \in Nat
    BY ConstantsAre
  <2>2. ASSUME NEW x \in Seq(Bytes), NEW i \in 1 .. MaxUsers
        PROVE  g[<<x, i>>] \in Seq(Bytes)
    <3>1. x \o Piece(us, i - 1) \in Seq(Bytes)
      BY <1>2, ConcatIs
    <3> QED
      BY <3>1
  <2> HIDE DEF g
  <2>3. Steps(MaxUsers, Seq(Bytes), g)
    BY <2>2 DEF Steps
  <2> QED
    BY <2>1, <2>3, Iteration
<1>5. PICK f \in [0 .. MaxUsers -> Seq(Bytes)] :
        f[0] = <<>> /\ \A i \in 1 .. MaxUsers : f[i] = f[i - 1] \o Piece(us, i - 1)
  <2>1. ASSUME NEW x \in Seq(Bytes), NEW i \in 1 .. MaxUsers
        PROVE  g[<<x, i>>] = x \o Piece(us, i - 1)
    OBVIOUS
  <2> HIDE DEF g
  <2>2. PICK f \in [0 .. MaxUsers -> Seq(Bytes)] :
          f[0] = <<>> /\ \A i \in 1 .. MaxUsers : f[i] = g[<<f[i - 1], i>>]
    BY <1>4 DEF HasIteration, IsIteration
  <2>3. \A i \in 1 .. MaxUsers : f[i - 1] \in Seq(Bytes)
    BY ConstantsAre
  <2> QED
    BY <2>1, <2>2, <2>3
<1>6. E(f)
  <2>1. \A n \in 0 .. MaxUsers : f[n] = IF n = 0 THEN <<>> ELSE f[n - 1] \o Piece(us, n - 1)
    <3>1. ASSUME NEW n \in 0 .. MaxUsers, n # 0
          PROVE  f[n] = f[n - 1] \o Piece(us, n - 1)
      <4>1. n \in 1 .. MaxUsers
        BY <3>1, ConstantsAre
      <4> QED
        BY <1>5, <4>1
    <3> QED
      BY <1>5, <3>1
  <2>2. f = [n \in 0 .. MaxUsers |-> f[n]]
    OBVIOUS
  <2> QED
    BY <2>1, <2>2
<1>7. E(LineTexts(us))
  <2>1. LineTexts(us) = CHOOSE h : E(h)
    BY DEF LineTexts, Piece
  <2> HIDE DEF E
  <2> QED
    BY <1>6, <2>1
<1> HIDE DEF g
<1> DEFINE t == LineTexts(us)
<1>8. /\ t[0] = <<>>
      /\ \A n \in 1 .. MaxUsers : t[n] = t[n - 1] \o Piece(us, n - 1)
      /\ t = [n \in 0 .. MaxUsers |-> t[n]]
  <2>1. t = [n \in 0 .. MaxUsers |-> IF n = 0 THEN <<>> ELSE t[n - 1] \o Piece(us, n - 1)]
    BY <1>7
  <2> HIDE DEF t
  <2>2. \A n \in 0 .. MaxUsers : t[n] = IF n = 0 THEN <<>> ELSE t[n - 1] \o Piece(us, n - 1)
    BY <2>1
  <2>3. 0 \in 0 .. MaxUsers /\ \A n \in 1 .. MaxUsers : n \in 0 .. MaxUsers /\ n # 0
    BY ConstantsAre
  <2>4. t = [n \in 0 .. MaxUsers |-> t[n]]
    BY <2>1
  <2> QED
    BY <2>2, <2>3, <2>4
<1> HIDE DEF t
<1>9. \A n \in 0 .. MaxUsers : t[n] \in Seq(Bytes)
  <2> DEFINE S == {n \in 0 .. MaxUsers : t[n] \in Seq(Bytes)}
  <2>1. 0 \in S
    <3>1. <<>> \in Seq(Bytes) /\ 0 \in 0 .. MaxUsers
      BY ConstantsAre
    <3> QED
      BY <1>8, <3>1
  <2>2. ASSUME NEW n \in 1 .. MaxUsers, n - 1 \in S
        PROVE  n \in S
    <3>1. t[n - 1] \in Seq(Bytes) /\ Piece(us, n - 1) \in Seq(Bytes)
      BY <1>2, <2>2
    <3>2. t[n - 1] \o Piece(us, n - 1) \in Seq(Bytes)
      BY <3>1, ConcatIs
    <3>3. t[n] = t[n - 1] \o Piece(us, n - 1)
      BY <1>8
    <3>4. n \in 0 .. MaxUsers
      BY ConstantsAre
    <3> QED
      BY <3>2, <3>3, <3>4
  <2> HIDE DEF S
  <2>3. \A n \in 0 .. MaxUsers : n \in S
    BY <2>1, <2>2, ConstantsAre, Induction
  <2> QED
    BY <2>3 DEF S
<1> QED
  BY <1>8, <1>9 DEF t

LEMMA TextIs ==
  ASSUME NEW us \in Tables, NEW n \in 0 .. MaxUsers
  PROVE  LineTexts(us)[n] \in Seq(Bytes) /\ Len(LineTexts(us)[n]) \in Nat
<1>1. LineTexts(us) \in [0 .. MaxUsers -> Seq(Bytes)]
  BY LineTextsAre
<1> DEFINE t == LineTexts(us)[n]
<1>2. t \in Seq(Bytes)
  BY <1>1
<1> HIDE DEF t
<1>3. Len(t) \in Nat
  BY <1>2
<1> QED
  BY <1>2, <1>3 DEF t

LEMMA TextStep ==
  ASSUME NEW us \in Tables, NEW n \in Indices
  PROVE  LineTexts(us)[n + 1] = LineTexts(us)[n] \o Piece(us, n)
<1>1. \A i \in 1 .. MaxUsers : LineTexts(us)[i] = LineTexts(us)[i - 1] \o Piece(us, i - 1)
  BY LineTextsAre
<1>2. PICK i \in 1 .. MaxUsers : i = n + 1 /\ i - 1 = n
  BY ConstantsAre DEF Indices
<1>3. LineTexts(us)[i] = LineTexts(us)[i - 1] \o Piece(us, i - 1)
  BY <1>1
<1> QED
  BY <1>2, <1>3

\* An entry adds its piece behind the text.
LEMMA NextText ==
  ASSUME NEW us \in Tables, NEW n \in Indices
  PROVE  LET f == LineTexts(us) IN
           /\ Len(f[n + 1]) = Len(f[n]) + Len(Piece(us, n)) /\ Len(Piece(us, n)) \in Nat
           /\ \A j \in 1 .. Len(f[n]) : f[n + 1][j] = f[n][j]
           /\ \A j \in 1 .. Len(Piece(us, n)) : f[n + 1][Len(f[n]) + j] = Piece(us, n)[j]
<1> DEFINE f == LineTexts(us)
<1>1. n \in 0 .. MaxUsers /\ n + 1 \in 1 .. MaxUsers /\ n + 1 - 1 = n
  BY ConstantsAre DEF Indices
<1>2. f[n + 1] = f[n] \o Piece(us, n)
  BY TextStep
<1>3. f[n] \in Seq(Bytes) /\ Piece(us, n) \in Seq(Bytes)
  BY <1>1, TextIs, PieceIs
<1> HIDE DEF f
<1>4. Len(Piece(us, n)) \in Nat
  BY <1>3
<1> QED
  BY <1>2, <1>3, <1>4, ConcatIs DEF f

LEMMA TextPrefix ==
  ASSUME NEW us \in Tables, NEW m \in 0 .. MaxUsers, NEW n \in 0 .. m
  PROVE  LET f == LineTexts(us) IN
           Len(f[n]) <= Len(f[m]) /\ \A j \in 1 .. Len(f[n]) : f[m][j] = f[n][j]
<1> DEFINE f == LineTexts(us)
           Extends(i, k) == Len(f[i]) <= Len(f[k]) /\ \A j \in 1 .. Len(f[i]) : f[k][j] = f[i][j]
           S == {k \in 0 .. MaxUsers : n <= k => Extends(n, k)}
<1>1. n \in 0 .. MaxUsers /\ MaxUsers \in Nat
  BY ConstantsAre
<1>2. Extends(n, n)
  BY <1>1, TextIs
<1>3. 0 \in S
  <2>1. n <= 0 => n = 0
    OBVIOUS
  <2> HIDE DEF Extends
  <2>2. 0 \in 0 .. MaxUsers
    BY <1>1
  <2> QED
    BY <1>2, <2>1, <2>2
<1>4. ASSUME NEW k \in 1 .. MaxUsers, k - 1 \in S
      PROVE  k \in S
  <2>1. k - 1 \in Indices /\ k - 1 + 1 = k /\ k \in 0 .. MaxUsers /\ k - 1 \in 0 .. MaxUsers
    BY ConstantsAre DEF Indices
  <2>2. CASE n = k
    BY <1>2, <2>1, <2>2
  <2>3. CASE n <= k - 1
    <3>1. Extends(n, k - 1)
      BY <1>4, <2>3
    <3>2. /\ Len(f[k]) = Len(f[k - 1]) + Len(Piece(us, k - 1)) /\ Len(Piece(us, k - 1)) \in Nat
          /\ \A j \in 1 .. Len(f[k - 1]) : f[k][j] = f[k - 1][j]
      BY <2>1, NextText
    <3>3. Len(f[n]) \in Nat /\ Len(f[k - 1]) \in Nat
      BY <1>1, <2>1, TextIs
    <3> HIDE DEF f
    <3>4. Extends(n, k)
      <4>1. Len(f[n]) <= Len(f[k - 1]) /\ \A j \in 1 .. Len(f[n]) : f[k - 1][j] = f[n][j]
        BY <3>1
      <4>2. \A j \in 1 .. Len(f[n]) : j \in 1 .. Len(f[k - 1])
        BY <3>3, <4>1
      <4>3. Len(f[n]) <= Len(f[k])
        <5>1. PICK a \in Nat, b \in Nat, c \in Nat :
                a = Len(f[k - 1]) /\ b = Len(Piece(us, k - 1)) /\ c = Len(f[n])
          BY <3>2, <3>3
        <5>2. Len(f[k]) = a + b /\ c <= a
          BY <3>2, <4>1, <5>1
        <5>3. c <= a => c <= a + b
          OBVIOUS
        <5> QED
          BY <5>1, <5>2, <5>3
      <4> QED
        BY <3>2, <4>1, <4>2, <4>3
    <3> QED
      BY <2>1, <3>4
  <2>4. n <= k => n = k \/ n <= k - 1
    BY <1>1
  <2> HIDE DEF Extends
  <2> QED
    BY <2>1, <2>2, <2>3, <2>4
<1> HIDE DEF S
<1>5. m \in S
  BY <1>1, <1>3, <1>4, Induction
<1> QED
  BY <1>5 DEF S

\* Tables that agree on the entries before m have the same text up to there.
LEMMA SameTexts ==
  ASSUME NEW us \in Tables, NEW vs \in Tables, NEW m \in 0 .. MaxUsers,
         \A i \in Indices : i < m => Piece(us, i) = Piece(vs, i)
  PROVE  LineTexts(us)[m] = LineTexts(vs)[m]
<1> DEFINE S == {k \in 0 .. MaxUsers : k <= m => LineTexts(us)[k] = LineTexts(vs)[k]}
<1>1. 0 \in S
  <2>1. LineTexts(us)[0] = <<>> /\ LineTexts(vs)[0] = <<>>
    BY LineTextsAre
  <2>2. 0 \in 0 .. MaxUsers
    BY ConstantsAre
  <2> QED
    BY <2>1, <2>2
<1>2. ASSUME NEW k \in 1 .. MaxUsers, k - 1 \in S
      PROVE  k \in S
  <2>1. k - 1 \in Indices /\ k \in 0 .. MaxUsers
    BY ConstantsAre DEF Indices
  <2>2. SUFFICES ASSUME k <= m
                 PROVE  LineTexts(us)[k] = LineTexts(vs)[k]
    BY <2>1
  <2>3. Piece(us, k - 1) = Piece(vs, k - 1)
    BY <2>1, <2>2
  <2>4. k - 1 <= m
    BY <2>2
  <2>5. LineTexts(us)[k - 1] = LineTexts(vs)[k - 1]
    BY <1>2, <2>4
  <2>6. /\ LineTexts(us)[k] = LineTexts(us)[k - 1] \o Piece(us, k - 1)
        /\ LineTexts(vs)[k] = LineTexts(vs)[k - 1] \o Piece(vs, k - 1)
    <3>1. k - 1 + 1 = k
      OBVIOUS
    <3> QED
      BY <2>1, <3>1, TextStep
  <2> QED
    BY <2>3, <2>5, <2>6
<1> HIDE DEF S
<1>3. m \in S
  BY <1>1, <1>2, Induction, ConstantsAre
<1> QED
  BY <1>3 DEF S

\* The entries that are not active add nothing.
LEMMA LinesAre ==
  ASSUME NEW us, NEW k, Filled(us, k)
  PROVE  Lines(us) = LineTexts(us)[k]
<1> DEFINE f == LineTexts(us)
           S == {n \in 0 .. MaxUsers : k <= n => f[n] = f[k]}
<1>1. k \in 0 .. MaxUsers /\ MaxUsers \in Nat /\ us \in Tables
  BY ConstantsAre DEF Filled
<1>2. 0 \in S
  BY <1>1
<1>3. ASSUME NEW n \in 1 .. MaxUsers, n - 1 \in S
      PROVE  n \in S
  <2>1. n - 1 \in Indices /\ n \in 0 .. MaxUsers
    BY ConstantsAre DEF Indices
  <2>2. CASE k <= n - 1
    <3>1. Piece(us, n - 1) = <<>>
      BY <2>1, <2>2, <1>1 DEF Piece, Filled
    <3>2. f[n] = f[n - 1] \o <<>> /\ f[n - 1] \in Seq(Bytes)
      <4>1. n - 1 + 1 = n /\ n - 1 \in 0 .. MaxUsers
        BY <1>1
      <4> QED
        BY <1>1, <2>1, <3>1, <4>1, TextIs, TextStep
    <3>3. f[n] = f[n - 1]
      BY <3>2, ConcatEmptySeq
    <3>4. f[n] = f[k]
      BY <1>3, <2>2, <3>3
    <3> QED
      BY <2>1, <3>4
  <2>3. CASE ~ (k <= n - 1)
    <3>1. k <= n => k = n
      BY <1>1, <2>3
    <3> QED
      BY <2>1, <3>1
  <2> QED
    BY <2>2, <2>3
<1> HIDE DEF S
<1>4. MaxUsers \in S
  BY <1>1, <1>2, <1>3, Induction
<1>5. k <= MaxUsers
  BY <1>1
<1> QED
  BY <1>4, <1>5, LinesAreTexts DEF S

\* A line of an active entry.
LEMMA NextLine ==
  ASSUME NEW us, NEW k, Filled(us, k), NEW n \in 0 .. k - 1
  PROVE  /\ Follows(LineTexts(us)[n + 1], LineTexts(us)[n], Line(us[n]))
         /\ Len(Line(us[n])) \in Nat /\ Len(Line(us[n])) >= 2
<1>1. n \in Indices /\ us \in Tables /\ n < k
  BY ConstantsAre DEF Filled, Indices
<1>2. Piece(us, n) = Line(us[n])
  BY <1>1 DEF Piece, Filled
<1>3. PICK x \in Fields, y \in Fields : us[n].username = x /\ us[n].password = y
  BY <1>1 DEF Tables
<1>4. Len(Line(us[n])) = Len(x) + Len(y) + 2
  BY <1>3, LineIs DEF IsLine
<1>5. Len(x) \in Nat /\ Len(y) \in Nat
  BY FieldIsText, ConstantsAre
<1>6. Len(Line(us[n])) \in Nat /\ Len(Line(us[n])) >= 2
  BY <1>4, <1>5
<1> QED
  <2> DEFINE f == LineTexts(us)
  <2>1. /\ Len(f[n + 1]) = Len(f[n]) + Len(Piece(us, n))
        /\ \A j \in 1 .. Len(Piece(us, n)) : f[n + 1][Len(f[n]) + j] = Piece(us, n)[j]
    BY <1>1, NextText
  <2> HIDE DEF f
  <2>2. /\ Len(f[n + 1]) = Len(f[n]) + Len(Line(us[n]))
        /\ \A j \in 1 .. Len(Line(us[n])) : f[n + 1][Len(f[n]) + j] = Line(us[n])[j]
    BY <1>2, <2>1
  <2> QED
    BY <1>6, <2>2 DEF f, Follows

HasLength(t, s, l) == \E n \in Nat : n = Len(l) /\ n >= 2 /\ Len(t) = Len(s) + n

LEMMA LineLength ==
  ASSUME NEW us, NEW k, Filled(us, k), NEW n \in 0 .. k - 1
  PROVE  HasLength(LineTexts(us)[n + 1], LineTexts(us)[n], Line(us[n]))
<1>1. /\ Follows(LineTexts(us)[n + 1], LineTexts(us)[n], Line(us[n]))
      /\ Len(Line(us[n])) \in Nat /\ Len(Line(us[n])) >= 2
  BY NextLine
<1> QED
  BY <1>1 DEF Follows, HasLength

LEMMA TextIsLong ==
  ASSUME NEW us, NEW k, Filled(us, k), NEW n \in 0 .. k
  PROVE  Len(LineTexts(us)[n]) >= n
<1> DEFINE f == LineTexts(us)
           S == {i \in 0 .. k : Len(f[i]) >= i}
<1>1. k \in Nat /\ us \in Tables /\ \A i \in 0 .. k : i \in 0 .. MaxUsers
  BY ConstantsAre DEF Filled
<1>2. \A i \in 0 .. k : Len(f[i]) \in Nat
  BY <1>1, TextIs
<1>3. 0 \in S
  BY <1>1, <1>2
<1>4. ASSUME NEW i \in 1 .. k, i - 1 \in S
      PROVE  i \in S
  <2>1. i - 1 \in 0 .. k - 1 /\ i - 1 + 1 = i
    BY <1>1
  <2>2. /\ Len(f[i]) = Len(f[i - 1]) + Len(Line(us[i - 1]))
        /\ Len(Line(us[i - 1])) \in Nat /\ Len(Line(us[i - 1])) >= 2
    BY <2>1, NextLine DEF Follows
  <2>3. Len(f[i - 1]) >= i - 1 /\ Len(f[i - 1]) \in Nat
    BY <1>1, <1>2, <1>4
  <2> HIDE DEF f
  <2>4. Len(f[i]) >= i
    <3>1. PICK a \in Nat, b \in Nat : a = Len(f[i - 1]) /\ b = Len(Line(us[i - 1]))
      BY <2>2, <2>3
    <3>2. Len(f[i]) = a + b /\ b >= 2 /\ a >= i - 1
      BY <2>2, <2>3, <3>1
    <3>3. (b >= 2 /\ a >= i - 1) => a + b >= i
      BY <1>1
    <3> QED
      BY <3>2, <3>3
  <2> QED
    BY <2>4, <1>1 DEF f
<1> HIDE DEF S
<1>5. n \in S
  BY <1>1, <1>3, <1>4, Induction
<1> QED
  BY <1>5 DEF S

-----------------------------------------------------------------------------
(* The accounts of a table.                                                *)

LEMMA AccountIs ==
  ASSUME NEW us \in Tables, NEW i \in Indices
  PROVE  AccountOf(us[i]) \in Accounts
  BY DEF Tables, AccountOf, Accounts

LEMMA FirstAccountsAre ==
  ASSUME NEW us \in Tables, NEW n \in 0 .. MaxUsers
  PROVE  /\ FirstAccounts(us, n) \in Seq(Accounts) /\ Len(FirstAccounts(us, n)) = n
         /\ \A i \in 1 .. n : FirstAccounts(us, n)[i] = AccountOf(us[i - 1])
<1>1. n \in Nat /\ \A i \in 1 .. n : i - 1 \in Indices
  BY ConstantsAre DEF Indices
<1>2. \A i \in 1 .. n : AccountOf(us[i - 1]) \in Accounts
  BY <1>1, AccountIs
<1>3. FirstAccounts(us, n) \in [1 .. n -> Accounts]
  BY <1>2 DEF FirstAccounts
<1>4. FirstAccounts(us, n) \in Seq(Accounts)
  BY <1>1, <1>3, SeqDef
<1>5. Len(FirstAccounts(us, n)) = n
  BY <1>1, <1>3, <1>4, LenProperties
<1> QED
  BY <1>4, <1>5 DEF FirstAccounts

LEMMA NextAccount ==
  ASSUME NEW us \in Tables, NEW n \in Indices
  PROVE  FirstAccounts(us, n + 1) = FirstAccounts(us, n) \o <<AccountOf(us[n])>>
<1> DEFINE s == FirstAccounts(us, n)
           t == FirstAccounts(us, n + 1)
           x == <<AccountOf(us[n])>>
<1>1. n \in Nat /\ n \in 0 .. MaxUsers /\ n + 1 \in 0 .. MaxUsers
  BY ConstantsAre DEF Indices
<1>2. /\ s \in Seq(Accounts) /\ Len(s) = n /\ \A i \in 1 .. n : s[i] = AccountOf(us[i - 1])
      /\ t \in Seq(Accounts) /\ Len(t) = n + 1
      /\ \A i \in 1 .. n + 1 : t[i] = AccountOf(us[i - 1])
  BY <1>1, FirstAccountsAre
<1>3. x \in Seq(Accounts) /\ Len(x) = 1 /\ x[1] = AccountOf(us[n])
  BY AccountIs
<1> HIDE DEF s, t, x
<1>4. /\ s \o x \in Seq(Accounts) /\ Len(s \o x) = Len(s) + Len(x)
      /\ \A i \in 1 .. Len(s) : (s \o x)[i] = s[i]
      /\ \A i \in 1 .. Len(x) : (s \o x)[Len(s) + i] = x[i]
  <2>1. s \in Seq(Accounts) /\ x \in Seq(Accounts)
    BY <1>2, <1>3
  <2> QED
    BY <2>1, ConcatIs
<1> DEFINE y == s \o x
<1>5. y \in Seq(Accounts) /\ Len(y) = n + 1
  BY <1>1, <1>2, <1>3, <1>4
<1>6. \A i \in 1 .. n : y[i] = s[i]
  BY <1>2, <1>4
<1>7. y[n + 1] = AccountOf(us[n])
  BY <1>2, <1>3, <1>4
<1> HIDE DEF y
<1>8. ASSUME NEW i \in 1 .. n + 1
      PROVE  t[i] = y[i]
  <2>1. CASE i = n + 1
    <3>1. i - 1 = n
      BY <1>1, <2>1
    <3> QED
      BY <1>2, <1>7, <2>1, <3>1
  <2>2. CASE i # n + 1
    <3>1. i \in 1 .. n
      BY <1>1, <2>2
    <3> QED
      BY <1>2, <1>6, <3>1
  <2> QED
    BY <2>1, <2>2
<1>9. t = y
  BY <1>2, <1>5, <1>8, SeqEqual
<1> QED
  BY <1>9 DEF s, t, x, y

\* The accounts of the first n entries.
RegisteredUpTo(us) ==
  LET upto[n \in 0 .. MaxUsers] ==
        IF n = 0 THEN <<>>
        ELSE upto[n - 1] \o
             (IF us[n - 1].active
              THEN <<[username |-> us[n - 1].username, password |-> us[n - 1].password]>>
              ELSE <<>>)
  IN  upto

LEMMA RegisteredIs ==
  ASSUME NEW us, NEW k, Filled(us, k)
  PROVE  Registered(us) = FirstAccounts(us, k)
<1> DEFINE Upto(n) == IF n <= k THEN n ELSE k
           Part(i) == IF us[i].active THEN <<AccountOf(us[i])>> ELSE <<>>
           E(f) == f = [n \in 0 .. MaxUsers |-> IF n = 0 THEN <<>> ELSE f[n - 1] \o Part(n - 1)]
           w == [n \in 0 .. MaxUsers |-> FirstAccounts(us, Upto(n))]
           t == RegisteredUpTo(us)
<1>1. k \in 0 .. MaxUsers /\ MaxUsers \in Nat /\ us \in Tables
  BY ConstantsAre DEF Filled
<1>2. FirstAccounts(us, 0) = <<>>
  <2>1. FirstAccounts(us, 0) \in Seq(Accounts) /\ Len(FirstAccounts(us, 0)) = 0
    BY <1>1, FirstAccountsAre
  <2> QED
    BY <2>1, EmptySeq
<1>3. ASSUME NEW n \in 1 .. MaxUsers
      PROVE  FirstAccounts(us, Upto(n)) = FirstAccounts(us, Upto(n - 1)) \o Part(n - 1)
  <2>1. n - 1 \in Indices /\ n - 1 + 1 = n
    BY <1>1 DEF Indices
  <2>2. CASE n <= k
    <3>1. Part(n - 1) = <<AccountOf(us[n - 1])>> /\ Upto(n) = n /\ Upto(n - 1) = n - 1
      BY <1>1, <2>1, <2>2 DEF Filled
    <3>2. FirstAccounts(us, n - 1 + 1) = FirstAccounts(us, n - 1) \o <<AccountOf(us[n - 1])>>
      BY <1>1, <2>1, NextAccount
    <3> QED
      BY <2>1, <3>1, <3>2
  <2>3. CASE ~ (n <= k)
    <3>1. Part(n - 1) = <<>> /\ Upto(n) = k /\ Upto(n - 1) = k
      BY <1>1, <2>1, <2>3 DEF Filled
    <3>2. FirstAccounts(us, k) \in Seq(Accounts)
      BY <1>1, FirstAccountsAre
    <3>3. FirstAccounts(us, k) \o <<>> = FirstAccounts(us, k)
      BY <3>2, ConcatEmptySeq
    <3> QED
      BY <3>1, <3>3
  <2> QED
    BY <2>2, <2>3
<1>4. E(w)
  <2>1. w[0] = <<>>
    BY <1>1, <1>2
  <2>2. ASSUME NEW n \in 0 .. MaxUsers, n # 0
        PROVE  w[n] = w[n - 1] \o Part(n - 1)
    <3>1. n \in 1 .. MaxUsers /\ n - 1 \in 0 .. MaxUsers
      BY <1>1, <2>2
    <3>2. w[n] = FirstAccounts(us, Upto(n)) /\ w[n - 1] = FirstAccounts(us, Upto(n - 1))
      BY <3>1
    <3> QED
      BY <1>3, <3>1, <3>2
  <2>3. w = [n \in 0 .. MaxUsers |-> w[n]]
    OBVIOUS
  <2> HIDE DEF w, Part
  <2>4. \A n \in 0 .. MaxUsers : w[n] = IF n = 0 THEN <<>> ELSE w[n - 1] \o Part(n - 1)
    BY <2>1, <2>2
  <2> QED
    BY <2>3, <2>4
<1>5. E(t)
  <2>1. t = CHOOSE f : E(f)
    BY DEF RegisteredUpTo, AccountOf
  <2> HIDE DEF E, w, t
  <2> QED
    BY <1>4, <2>1
<1>6. t[0] = <<>> /\ \A n \in 1 .. MaxUsers : t[n] = t[n - 1] \o Part(n - 1)
  <2> HIDE DEF t, Part
  <2>1. \A n \in 0 .. MaxUsers : t[n] = IF n = 0 THEN <<>> ELSE t[n - 1] \o Part(n - 1)
    BY <1>5
  <2>2. 0 \in 0 .. MaxUsers /\ \A n \in 1 .. MaxUsers : n \in 0 .. MaxUsers /\ n # 0
    BY <1>1
  <2> QED
    BY <2>1, <2>2
<1> HIDE DEF t, Part
<1> DEFINE S == {n \in 0 .. MaxUsers : t[n] = FirstAccounts(us, Upto(n))}
<1>7. 0 \in S
  <2>1. Upto(0) = 0 /\ 0 \in 0 .. MaxUsers
    BY <1>1
  <2> HIDE DEF Upto
  <2> QED
    BY <1>2, <1>6, <2>1
<1>8. ASSUME NEW n \in 1 .. MaxUsers, n - 1 \in S
      PROVE  n \in S
  <2>1. n \in 0 .. MaxUsers
    BY <1>1
  <2> HIDE DEF Upto
  <2>2. t[n - 1] = FirstAccounts(us, Upto(n - 1))
    BY <1>8
  <2>3. t[n] = FirstAccounts(us, Upto(n))
    BY <1>3, <1>6, <2>2
  <2> QED
    BY <2>1, <2>3
<1> HIDE DEF S
<1>9. MaxUsers \in S
  BY <1>1, <1>7, <1>8, Induction
<1>10. t[MaxUsers] = FirstAccounts(us, k)
  BY <1>1, <1>9 DEF S
<1>11. Registered(us) = RegisteredUpTo(us)[MaxUsers]
  BY DEF Registered, RegisteredUpTo
<1> QED
  BY <1>10, <1>11 DEF t

-----------------------------------------------------------------------------
(* A turn of load_users_from_disk.                                         *)

Texts == Seq(Bytes \cup {Zero})

\* The text ends before position e.
Over(text, e) == e > Len(text) \/ text[e] = Zero

LEMMA FieldEndIs ==
  ASSUME NEW text \in Texts, NEW stop, NEW p \in Nat, NEW e \in p .. p + FieldLen,
         e > Len(text) \/ e = p + FieldLen \/ text[e] \in {stop, Zero},
         \A i \in p .. e - 1 : i <= Len(text) /\ text[i] \notin {stop, Zero}
  PROVE  FieldEnd(text, p, stop) = e
<1> DEFINE S == {i \in p .. p + FieldLen :
                   i > Len(text) \/ i = p + FieldLen \/ text[i] \in {stop, Zero}}
<1>1. FieldLen \in Nat /\ e \in Nat /\ Len(text) \in Nat
  BY ConstantsAre DEF Texts
<1>2. e \in S
  OBVIOUS
<1>3. ASSUME NEW i \in S
      PROVE  e <= i
  <2> SUFFICES ASSUME i < e
               PROVE  FALSE
    BY <1>1
  <2>1. i \in p .. e - 1 /\ i # p + FieldLen
    BY <1>1
  <2>2. i <= Len(text) /\ text[i] \notin {stop, Zero}
    BY <2>1
  <2>3. i > Len(text) \/ text[i] \in {stop, Zero}
    BY <2>1
  <2>4. i \in Nat
    BY <1>1, <2>1
  <2> QED
    BY <1>1, <2>2, <2>3, <2>4
<1>4. S \in SUBSET Nat
  BY <1>1
<1>5. FieldEnd(text, p, stop) = First(S)
  BY DEF FieldEnd
<1> HIDE DEF S
<1>6. First(S) \in S /\ \A i \in S : First(S) <= i
  BY <1>2, <1>4, LeastElement
<1>7. First(S) <= e /\ e <= First(S) /\ First(S) \in Nat
  BY <1>2, <1>3, <1>4, <1>6
<1> QED
  BY <1>1, <1>5, <1>7

LEMMA FieldEndRange ==
  ASSUME NEW text \in Texts, NEW stop, NEW p \in 1 .. Len(text) + 1
  PROVE  LET e == FieldEnd(text, p, stop) IN
           /\ e \in p .. Len(text) + 1 /\ e - p <= FieldLen
           /\ \A i \in p .. e - 1 : text[i] \notin {stop, Zero}
           /\ (e = p) => (p > Len(text) \/ text[p] \in {stop, Zero})
<1> DEFINE S == {i \in p .. p + FieldLen :
                   i > Len(text) \/ i = p + FieldLen \/ text[i] \in {stop, Zero}}
           e == First(S)
<1>1. FieldLen \in Nat \ {0} /\ Len(text) \in Nat /\ p \in Nat /\ p >= 1
  BY ConstantsAre DEF Texts
<1>2. p + FieldLen \in S /\ S \in SUBSET Nat
  BY <1>1
<1>3. e \in S /\ \A i \in S : e <= i
  <2> HIDE DEF S
  <2> QED
    BY <1>2, LeastElement
<1>4. FieldEnd(text, p, stop) = e
  BY DEF FieldEnd
<1> HIDE DEF e
<1>5. e \in p .. p + FieldLen /\ e \in Nat
  BY <1>1, <1>3
<1>6. ASSUME NEW i \in p .. e - 1
      PROVE  i <= Len(text) /\ text[i] \notin {stop, Zero}
  <2>1. i \in p .. p + FieldLen /\ ~ (e <= i) /\ i \in Nat
    BY <1>1, <1>5
  <2>2. i \notin S
    BY <1>3, <2>1
  <2> QED
    BY <1>1, <2>1, <2>2
<1>7. e <= Len(text) + 1
  <2>1. CASE e = p
    BY <1>1, <2>1
  <2>2. CASE e # p
    <3>1. e - 1 \in p .. e - 1
      BY <1>1, <1>5, <2>2
    <3>2. e - 1 <= Len(text)
      BY <1>6, <3>1
    <3> QED
      BY <1>1, <1>5, <3>2
  <2> QED
    BY <2>1, <2>2
<1>8. (e = p) => (p > Len(text) \/ text[p] \in {stop, Zero})
  BY <1>1, <1>3
<1>9. e \in p .. Len(text) + 1 /\ e - p <= FieldLen
  BY <1>1, <1>5, <1>7
<1> QED
  BY <1>4, <1>6, <1>8, <1>9

LEMMA SubSeqIs ==
  ASSUME NEW S, NEW s \in Seq(S), NEW a \in 1 .. Len(s) + 1, NEW b \in a - 1 .. Len(s)
  PROVE  /\ SubSeq(s, a, b) \in Seq(S) /\ Len(SubSeq(s, a, b)) = b - a + 1
         /\ \A i \in 1 .. b - a + 1 : SubSeq(s, a, b)[i] = s[a + i - 1]
<1>1. Len(s) \in Nat /\ a \in Nat /\ b \in Int /\ a - 1 <= b /\ b <= Len(s)
  OBVIOUS
<1>2. \A i \in 1 .. b - a + 1 : a + i - 1 \in 1 .. Len(s) /\ a + i - 1 = a + (i - 1)
  BY <1>1
<1>3. \A i \in a .. b : s[i] \in S
  BY <1>1, ElementOfSeq
<1> QED
  BY <1>1, <1>2, <1>3

\* The first n bytes of a field.
Shorter(s, n) == [i \in 1 .. (IF n < 0 THEN 0 ELSE IF n < Len(s) THEN n ELSE Len(s)) |-> s[i]]

LEMMA ShorterIs ==
  ASSUME NEW s \in Fields, NEW n \in Int
  PROVE  LET m == IF n < 0 THEN 0 ELSE IF n < Len(s) THEN n ELSE Len(s) IN
           /\ Shorter(s, n) \in Fields /\ Len(Shorter(s, n)) = m
           /\ \A i \in 1 .. m : Shorter(s, n)[i] = s[i]
           /\ n >= Len(s) => Shorter(s, n) = s
<1> DEFINE m == IF n < 0 THEN 0 ELSE IF n < Len(s) THEN n ELSE Len(s)
<1>1. s \in Seq(Bytes) /\ Len(s) \in 0 .. FieldLen /\ FieldLen \in Nat /\ Len(s) \in Nat
  BY FieldIsText, ConstantsAre
<1>2. m \in 0 .. FieldLen /\ m <= Len(s) /\ m \in Nat /\ (n >= Len(s) => m = Len(s))
  BY <1>1
<1>3. Shorter(s, n) = [i \in 1 .. m |-> s[i]]
  BY DEF Shorter
<1> HIDE DEF m
<1>4. \A i \in 1 .. m : i \in 1 .. Len(s) /\ s[i] \in Bytes
  BY <1>1, <1>2, ElementOfSeq
<1>5. Shorter(s, n) \in [1 .. m -> Bytes]
  BY <1>3, <1>4
<1>6. Shorter(s, n) \in Seq(Bytes)
  BY <1>2, <1>5, SeqDef
<1>7. Len(Shorter(s, n)) = m
  BY <1>2, <1>5, <1>6, LenProperties
<1>8. Shorter(s, n) \in Fields
  BY <1>1, <1>2, <1>6, <1>7, TextIsField
<1>9. ASSUME n >= Len(s)
      PROVE  Shorter(s, n) = s
  <2>1. m = Len(s)
    BY <1>2, <1>9
  <2>2. \A i \in 1 .. Len(s) : Shorter(s, n)[i] = s[i]
    BY <1>3, <2>1
  <2> QED
    BY <1>1, <1>6, <1>7, <2>1, <2>2, SeqEqual
<1> QED
  BY <1>3, <1>7, <1>8, <1>9 DEF m

\* The first m bytes of the field s stand at position q; a field ends at e.
Holds(text, q, s, m) ==
  /\ q \in 1 .. Len(text) + 1 /\ m \in 0 .. Len(s) /\ q + m - 1 <= Len(text)
  /\ \A j \in 1 .. m : text[q + j - 1] = s[j]
Ends(text, e, stop) == e > Len(text) \/ text[e] \in {stop, Zero}

LEMMA FieldRead ==
  ASSUME NEW text \in Texts, NEW stop \in Bytes, NEW s \in Fields, Without(stop, s),
         NEW q, NEW m, Holds(text, q, s, m), Ends(text, q + m, stop)
  PROVE  FieldEnd(text, q, stop) = q + m /\ SubSeq(text, q, q + m - 1) = Shorter(s, m)
<1>0. PICK len \in Nat, n \in Nat : len = Len(text) /\ n = Len(s)
  BY FieldIsText, ConstantsAre DEF Texts
<1>1. /\ s \in Seq(Bytes) /\ n \in 0 .. FieldLen /\ FieldLen \in Nat
      /\ q \in Nat /\ m \in Nat /\ Zero \notin Bytes
      /\ q \in 1 .. len + 1 /\ m \in 0 .. n /\ q + m - 1 <= len
      /\ \A j \in 1 .. m : text[q + j - 1] = s[j]
      /\ (q + m > len \/ text[q + m] \in {stop, Zero})
  <2>1. s \in Seq(Bytes) /\ n \in 0 .. FieldLen /\ FieldLen \in Nat /\ Zero \notin Bytes
    BY <1>0, FieldIsText, ConstantsAre
  <2>2. /\ q \in 1 .. len + 1 /\ m \in 0 .. n /\ q + m - 1 <= len
        /\ \A j \in 1 .. m : text[q + j - 1] = s[j]
        /\ (q + m > len \/ text[q + m] \in {stop, Zero})
    BY <1>0 DEF Holds, Ends
  <2>3. q \in Nat /\ m \in Nat
    BY <1>0, <2>2
  <2> QED
    BY <2>1, <2>2, <2>3
<1>2. m <= FieldLen /\ q + m \in q .. q + FieldLen
  BY <1>1
<1>3. ASSUME NEW i \in q .. q + m - 1
      PROVE  i <= len /\ text[i] \notin {stop, Zero}
  <2>1. PICK j \in 1 .. m : q + j - 1 = i
    <3>1. i - q + 1 \in 1 .. m /\ q + (i - q + 1) - 1 = i
      BY <1>1
    <3> QED
      BY <3>1
  <2>2. text[i] = s[j]
    BY <1>1, <2>1
  <2>6. j \in 1 .. Len(s)
    BY <1>0, <1>1, <2>1
  <2>3. s[j] \in Bytes
    BY <1>1, <2>6, ElementOfSeq
  <2>4. s[j] # stop
    BY <1>1, <2>6 DEF Without
  <2>5. i <= len
    BY <1>1
  <2> QED
    BY <1>1, <2>2, <2>3, <2>4, <2>5
<1>4. FieldEnd(text, q, stop) = q + m
  <2>1. PICK e \in q .. q + FieldLen : e = q + m
    BY <1>2
  <2>2. e > Len(text) \/ e = q + FieldLen \/ text[e] \in {stop, Zero}
    BY <1>0, <1>1, <2>1
  <2>3. ASSUME NEW i \in q .. e - 1
        PROVE  i <= Len(text) /\ text[i] \notin {stop, Zero}
    <3>1. i \in q .. q + m - 1
      BY <1>1, <2>1
    <3> QED
      BY <1>0, <1>3, <3>1
  <2>4. q \in Nat
    BY <1>1
  <2>5. FieldEnd(text, q, stop) = e
    BY <2>2, <2>3, <2>4, FieldEndIs
  <2> QED
    BY <2>1, <2>5
<1>5. PICK z \in q - 1 .. len : z = q + m - 1 /\ z - q + 1 = m
  BY <1>1
<1> DEFINE t == SubSeq(text, q, q + m - 1)
<1>6. /\ t \in Texts /\ Len(t) = m /\ \A i \in 1 .. m : t[i] = text[q + i - 1]
  <2>1. text \in Seq(Bytes \cup {Zero}) /\ q \in 1 .. Len(text) + 1 /\ z \in q - 1 .. Len(text)
    BY <1>0, <1>1, <1>5 DEF Texts
  <2>2. /\ SubSeq(text, q, z) \in Seq(Bytes \cup {Zero}) /\ Len(SubSeq(text, q, z)) = z - q + 1
        /\ \A i \in 1 .. z - q + 1 : SubSeq(text, q, z)[i] = text[q + i - 1]
    BY <2>1, SubSeqIs
  <2> QED
    BY <1>5, <2>2 DEF Texts
<1>7. \A i \in 1 .. m : t[i] = s[i]
  BY <1>1, <1>6
<1> HIDE DEF t
<1>8. /\ Shorter(s, m) \in Fields /\ Len(Shorter(s, m)) = m
      /\ \A i \in 1 .. m : Shorter(s, m)[i] = s[i]
  <2>1. m \in Int /\ ~ (m < 0) /\ (IF m < n THEN m ELSE n) = m
    BY <1>1
  <2> QED
    BY <1>0, <2>1, ShorterIs
<1>9. Shorter(s, m) \in Texts
  BY <1>8, FieldIsText DEF Texts
<1>10. t = Shorter(s, m)
  <2>1. \A i \in 1 .. Len(t) : t[i] = Shorter(s, m)[i]
    BY <1>6, <1>7, <1>8
  <2>2. Len(t) = Len(Shorter(s, m))
    BY <1>6, <1>8
  <2> QED
    BY <1>6, <1>9, <2>1, <2>2, SeqEqual DEF Texts
<1> QED
  BY <1>4, <1>10 DEF t

\* What the first d bytes of a line give.
Cut(u, d) == [username |-> Shorter(u.username, d),
              password |-> Shorter(u.password, d - Len(u.username) - 1)]

LEMMA CutIs ==
  ASSUME NEW u, NEW x \in Fields, NEW y \in Fields, u.username = x, u.password = y,
         PlainName(x), Without(Newline, y), NEW d \in Nat \ {0}
  PROVE  /\ Cut(u, d) = [username |-> Shorter(x, d), password |-> Shorter(y, d - Len(x) - 1)]
         /\ d >= Len(x) + Len(y) + 1 => Cut(u, d) = AccountOf(u)
<1>1. Cut(u, d) = [username |-> Shorter(x, d), password |-> Shorter(y, d - Len(x) - 1)]
  BY DEF Cut
<1>2. PICK n \in Nat, w \in Nat : n = Len(x) /\ w = Len(y)
  BY FieldIsText, ConstantsAre
<1>3. ASSUME d >= n + w + 1
      PROVE  Shorter(x, d) = x /\ Shorter(y, d - n - 1) = y
  <2>1. d \in Int /\ d >= n /\ d - n - 1 \in Int /\ d - n - 1 >= w
    BY <1>3
  <2> QED
    BY <1>2, <2>1, ShorterIs
<1>4. d >= n + w + 1 => Cut(u, d) = AccountOf(u)
  BY <1>1, <1>2, <1>3 DEF AccountOf
<1> QED
  BY <1>1, <1>2, <1>4

\* The turn at p reads this name and this password, and goes on at next.
Reads(text, p, name, password, next) ==
  /\ p <= Len(text) /\ ~ (p > Len(text)) /\ text[p] # Zero
  /\ \E nameEnd, pass, passEnd \in Nat :
       /\ nameEnd # p
       /\ FieldEnd(text, p, Colon) = nameEnd /\ SubSeq(text, p, nameEnd - 1) = name
       /\ Skip(text, nameEnd, Colon) = pass
       /\ FieldEnd(text, pass, Newline) = passEnd /\ SubSeq(text, pass, passEnd - 1) = password
       /\ Skip(text, passEnd, Newline) = next

LEMMA TurnIs ==
  ASSUME NEW text, NEW p, NEW r, Len(r) # MaxUsers, NEW name, NEW password, NEW next,
         Reads(text, p, name, password, next)
  PROVE  ParseLine(text, [at |-> p, found |-> r])
           = [at |-> next, found |-> Append(r, [username |-> name, password |-> password])]
  BY DEF ParseLine, Reads

\* The first d bytes of the line of the name x and the password y stand at p,
\* and nothing follows unless the line is whole.
Shows(text, p, d, x, y) ==
  LET n == Len(x)
      w == Len(y)
  IN  /\ p \in Nat \ {0} /\ d \in 1 .. n + w + 2 /\ p + d - 1 <= Len(text)
      /\ \A j \in 1 .. n : j <= d => text[p + j - 1] = x[j]
      /\ d > n => text[p + n] = Colon
      /\ \A j \in 1 .. w : n + 1 + j <= d => text[p + n + j] = y[j]
      /\ d = n + w + 2 => text[p + n + w + 1] = Newline
      /\ d < n + w + 2 => Over(text, p + d)

LEMMA TurnOnText ==
  ASSUME NEW text \in Texts, NEW x \in Fields, NEW y \in Fields, PlainName(x),
         Without(Newline, y), NEW p, NEW d, Shows(text, p, d, x, y), NEW r, Len(r) # MaxUsers
  PROVE  ParseLine(text, [at |-> p, found |-> r])
           = [at |-> p + d,
              found |-> Append(r, [username |-> Shorter(x, d),
                                   password |-> Shorter(y, d - Len(x) - 1)])]
<1>0. PICK len \in Nat, n \in Nat, w \in Nat : len = Len(text) /\ n = Len(x) /\ w = Len(y)
  BY FieldIsText, ConstantsAre DEF Texts
<1>1. /\ p \in Nat /\ p >= 1 /\ d \in Nat /\ d >= 1 /\ d <= n + w + 2 /\ p + d - 1 <= len
      /\ d > n => text[p + n] = Colon
      /\ d = n + w + 2 => text[p + n + w + 1] = Newline
      /\ d < n + w + 2 => p + d > Len(text) \/ text[p + d] = Zero
  BY <1>0 DEF Shows, Over
<1>2. /\ \A j \in 1 .. n : j <= d => text[p + j - 1] = x[j]
      /\ \A j \in 1 .. w : n + 1 + j <= d => text[p + n + j] = y[j]
  BY <1>0 DEF Shows
<1>3. n >= 1
  <2>1. x \in Seq(Bytes) /\ x # <<>>
    BY FieldIsText DEF PlainName
  <2>2. Len(x) # 0
    BY <2>1, EmptySeq
  <2> QED
    BY <1>0, <2>2
<1>4. /\ Colon \in Bytes /\ Newline \in Bytes /\ Zero \notin Bytes /\ Zero # Colon /\ Zero # Newline
      /\ Without(Colon, x)
  BY ConstantsAre DEF PlainName
<1>5. text[p] # Zero /\ p <= Len(text) /\ ~ (p > Len(text))
  <2>1. x[1] \in Bytes
    <3>1. x \in Seq(Bytes) /\ 1 \in 1 .. Len(x)
      BY <1>0, <1>3, FieldIsText
    <3> QED
      BY <3>1, ElementOfSeq
  <2>2. p + 1 - 1 = p /\ 1 \in 1 .. n
    BY <1>1, <1>3
  <2>3. text[p] = x[1]
    BY <1>1, <1>2, <2>2
  <2>4. p <= len /\ ~ (p > len)
    BY <1>1
  <2> QED
    BY <1>0, <1>4, <2>1, <2>3, <2>4
<1>6. CASE d <= n
  <2>1. PICK e \in Nat : e = p + d /\ p # e /\ e >= 1 /\ e - 1 <= len
    BY <1>1
  <2>2. e > Len(text) \/ text[e] = Zero
    BY <1>1, <1>6, <2>1
  <2>3. Holds(text, p, x, d)
    <3>1. p \in 1 .. len + 1 /\ d \in 0 .. n /\ p + d - 1 <= len
      BY <1>1, <1>6
    <3>2. \A j \in 1 .. d : j \in 1 .. n /\ j <= d
      BY <1>1, <1>6
    <3> QED
      BY <1>0, <1>2, <3>1, <3>2 DEF Holds
  <2>4. FieldEnd(text, p, Colon) = p + d /\ SubSeq(text, p, p + d - 1) = Shorter(x, d)
    <3>1. Ends(text, p + d, Colon)
      BY <2>1, <2>2 DEF Ends
    <3> QED
      BY <1>4, <2>3, <3>1, FieldRead
  <2>5. Skip(text, e, Colon) = e /\ Skip(text, e, Newline) = e
    <3>1. e > Len(text) => ~ (e <= Len(text))
      BY <1>0, <2>1
    <3> QED
      BY <1>4, <2>2, <3>1 DEF Skip
  <2>6. FieldEnd(text, e, Newline) = e + 0 /\ SubSeq(text, e, e + 0 - 1) = Shorter(y, 0)
    <3>1. Holds(text, e, y, 0)
      <4>1. e \in 1 .. len + 1 /\ 0 \in 0 .. w /\ e + 0 - 1 <= len
        BY <2>1
      <4> QED
        BY <1>0, <4>1 DEF Holds
    <3>2. Ends(text, e + 0, Newline)
      <4>1. e + 0 = e
        BY <2>1
      <4> QED
        BY <2>2, <4>1 DEF Ends
    <3> QED
      BY <1>4, <3>1, <3>2, FieldRead
  <2>7. Shorter(y, 0) = Shorter(y, d - n - 1)
    <3>1. d - n - 1 < 0
      BY <1>1, <1>6
    <3>2. Shorter(y, d - n - 1) = [i \in 1 .. 0 |-> y[i]]
      BY <3>1 DEF Shorter
    <3>3. Shorter(y, 0) = [i \in 1 .. 0 |-> y[i]]
      <4>1. (IF 0 < w THEN 0 ELSE w) = 0 /\ ~ (0 < 0)
        OBVIOUS
      <4> QED
        BY <1>0, <4>1 DEF Shorter
    <3> QED
      BY <3>2, <3>3
  <2>8. e + 0 = e
    BY <2>1
  <2>9. FieldEnd(text, p, Colon) = e /\ SubSeq(text, p, e - 1) = Shorter(x, d)
    BY <1>1, <2>1, <2>4
  <2>10. FieldEnd(text, e, Newline) = e /\ SubSeq(text, e, e - 1) = Shorter(y, d - n - 1)
    BY <2>6, <2>7, <2>8
  <2>11. ParseLine(text, [at |-> p, found |-> r])
           = [at |-> e, found |-> Append(r, [username |-> Shorter(x, d),
                                             password |-> Shorter(y, d - n - 1)])]
    <3>1. Reads(text, p, Shorter(x, d), Shorter(y, d - n - 1), e)
      BY <1>5, <2>1, <2>5, <2>9, <2>10 DEF Reads
    <3> QED
      BY <3>1, TurnIs
  <2> QED
    BY <1>0, <2>1, <2>11
<1>7. CASE d > n
  <2> DEFINE k == IF d = n + w + 2 THEN w ELSE d - n - 1
  <2>1. PICK e \in Nat, q \in Nat, m \in Nat :
          e = p + n /\ q = p + n + 1 /\ q = e + 1 /\ m = k
    <3>1. p + n \in Nat /\ p + n + 1 \in Nat /\ k \in Nat
      BY <1>1, <1>7
    <3> QED
      BY <3>1
  <2>2. /\ e # p /\ e <= len /\ n \in 0 .. n /\ p \in 1 .. len + 1 /\ p + n - 1 <= len
        /\ q \in 1 .. len + 1 /\ m \in 0 .. w /\ q + m - 1 <= len
    BY <1>1, <1>3, <1>7, <2>1
  <2>3. FieldEnd(text, p, Colon) = p + n /\ SubSeq(text, p, p + n - 1) = Shorter(x, n)
    <3>1. \A j \in 1 .. n : j <= d
      BY <1>1, <1>7
    <3>2. Holds(text, p, x, n)
      BY <1>0, <1>2, <2>2, <3>1 DEF Holds
    <3>3. Ends(text, p + n, Colon)
      BY <1>1, <1>7 DEF Ends
    <3> QED
      BY <1>4, <3>2, <3>3, FieldRead
  <2>4. Shorter(x, n) = Shorter(x, d)
    <3>1. n \in Int /\ d \in Int /\ n >= n /\ d >= n
      BY <1>1, <1>7
    <3> QED
      BY <1>0, <3>1, ShorterIs
  <2>5. Skip(text, e, Colon) = q
    BY <1>0, <1>1, <1>7, <2>1, <2>2 DEF Skip
  <2>6. FieldEnd(text, q, Newline) = q + m /\ SubSeq(text, q, q + m - 1) = Shorter(y, m)
    <3>1. \A j \in 1 .. m : j \in 1 .. w /\ n + 1 + j <= d /\ q + j - 1 = p + n + j
      BY <1>1, <2>1, <2>2
    <3>2. Holds(text, q, y, m)
      BY <1>0, <1>2, <2>2, <3>1 DEF Holds
    <3>3. Ends(text, q + m, Newline)
      <4>1. CASE d = n + w + 2
        <5>1. q + m = p + n + w + 1
          BY <1>1, <2>1, <4>1
        <5> QED
          BY <1>1, <4>1, <5>1 DEF Ends
      <4>2. CASE d # n + w + 2
        <5>1. q + m = p + d /\ d < n + w + 2
          BY <1>1, <2>1, <4>2
        <5> QED
          BY <1>1, <5>1 DEF Ends
      <4> QED
        BY <4>1, <4>2
    <3> QED
      BY <1>4, <3>2, <3>3, FieldRead
  <2>7. Shorter(y, m) = Shorter(y, d - n - 1)
    <3>1. CASE d = n + w + 2
      <4>1. m \in Int /\ d - n - 1 \in Int /\ m >= w /\ d - n - 1 >= w
        BY <1>1, <2>1, <3>1
      <4> QED
        BY <1>0, <4>1, ShorterIs
    <3>2. CASE d # n + w + 2
      BY <2>1, <3>2
    <3> QED
      BY <3>1, <3>2
  <2>8. PICK z \in Nat, f \in Nat : z = q + m /\ f = p + d
    BY <1>1, <2>1
  <2>9. Skip(text, z, Newline) = f
    <3>1. CASE d = n + w + 2
      <4>1. z = p + n + w + 1 /\ z <= len /\ z + 1 = f
        BY <1>1, <2>1, <2>8, <3>1
      <4> QED
        BY <1>0, <1>1, <3>1, <4>1 DEF Skip
    <3>2. CASE d # n + w + 2
      <4>1. z = f /\ d < n + w + 2
        BY <1>1, <2>1, <2>8, <3>2
      <4>2. z > Len(text) \/ text[z] = Zero
        BY <1>1, <2>8, <4>1
      <4>3. z > Len(text) => ~ (z <= Len(text))
        BY <1>0, <2>8
      <4> QED
        BY <1>4, <4>1, <4>2, <4>3 DEF Skip
    <3> QED
      BY <3>1, <3>2
  <2> HIDE DEF k
  <2>10. FieldEnd(text, p, Colon) = e /\ SubSeq(text, p, e - 1) = Shorter(x, d)
    BY <1>1, <2>1, <2>3, <2>4
  <2>11. FieldEnd(text, q, Newline) = z /\ SubSeq(text, q, z - 1) = Shorter(y, d - n - 1)
    BY <2>6, <2>7, <2>8
  <2>12. ParseLine(text, [at |-> p, found |-> r])
           = [at |-> f, found |-> Append(r, [username |-> Shorter(x, d),
                                             password |-> Shorter(y, d - n - 1)])]
    <3>1. Reads(text, p, Shorter(x, d), Shorter(y, d - n - 1), f)
      BY <1>5, <2>2, <2>5, <2>9, <2>10, <2>11 DEF Reads
    <3> QED
      BY <3>1, TurnIs
  <2> QED
    BY <1>0, <2>8, <2>12
<1>8. d <= n \/ d > n
  BY <1>1
<1> QED
  BY <1>6, <1>7, <1>8

-----------------------------------------------------------------------------
(* The turns of load_users_from_disk.                                      *)

Turns(text) ==
  LET turn[n \in 0 .. Len(text)] ==
        IF n = 0 THEN [at |-> 1, found |-> <<>>] ELSE ParseLine(text, turn[n - 1])
  IN  turn

FoundLists   == {r \in Seq(PlainAccounts) : Len(r) \in 0 .. MaxUsers}
States(text) == [at : 1 .. Len(text) + 1, found : FoundLists]

LEMMA ParseTurns ==
  ASSUME NEW text
  PROVE  Parse(text) = Turns(text)[Len(text)].found
  BY DEF Parse, Turns

LEMMA SkipRange ==
  ASSUME NEW text \in Texts, NEW p \in 1 .. Len(text) + 1, NEW byte
  PROVE  Skip(text, p, byte) \in 1 .. Len(text) + 1
<1>1. PICK len \in Nat : len = Len(text)
  BY DEF Texts
<1>2. p <= len => p + 1 \in 1 .. len + 1
  BY <1>1
<1> QED
  BY <1>1, <1>2 DEF Skip

\* A field that was read holds neither its stop byte nor a zero.
LEMMA FieldIs ==
  ASSUME NEW text \in Texts, NEW stop, NEW p \in 1 .. Len(text) + 1,
         NEW e, e = FieldEnd(text, p, stop)
  PROVE  /\ e \in p .. Len(text) + 1
         /\ SubSeq(text, p, e - 1) \in Fields /\ Without(stop, SubSeq(text, p, e - 1))
         /\ e # p => SubSeq(text, p, e - 1) # <<>>
<1>1. PICK len \in Nat, q \in Nat : len = Len(text) /\ q = p /\ q >= 1 /\ q <= len + 1
  BY DEF Texts
<1>2. /\ e \in q .. len + 1 /\ e - q <= FieldLen
      /\ \A i \in q .. e - 1 : text[i] \notin {stop, Zero}
  BY <1>1, FieldEndRange
<1>3. PICK z \in q - 1 .. len : z = e - 1 /\ z - q + 1 = e - q
  BY <1>1, <1>2
<1> DEFINE t == SubSeq(text, q, z)
<1>4. /\ t \in Texts /\ Len(t) = z - q + 1 /\ \A i \in 1 .. z - q + 1 : t[i] = text[q + i - 1]
  <2>1. text \in Seq(Bytes \cup {Zero}) /\ q \in 1 .. Len(text) + 1 /\ z \in q - 1 .. Len(text)
    BY <1>1, <1>3 DEF Texts
  <2> QED
    BY <2>1, SubSeqIs DEF Texts
<1>5. t = SubSeq(text, p, e - 1)
  BY <1>1, <1>3
<1> HIDE DEF t
<1>6. PICK n \in Nat : n = e - q /\ n = Len(t)
  BY <1>1, <1>2, <1>3, <1>4
<1>7. ASSUME NEW i \in 1 .. n
      PROVE  t[i] \in Bytes /\ t[i] # stop
  <2>1. t[i] = text[q + i - 1]
    BY <1>3, <1>4, <1>6
  <2>2. q + i - 1 \in q .. e - 1
    BY <1>1, <1>2, <1>6
  <2>3. t[i] \notin {stop, Zero}
    BY <1>2, <2>1, <2>2
  <2>4. t[i] \in Bytes \cup {Zero}
    BY <1>4, <1>6, ElementOfSeq DEF Texts
  <2> QED
    BY <2>3, <2>4
<1>8. t \in Seq(Bytes)
  <2>1. t = [i \in 1 .. n |-> t[i]]
    BY <1>4, <1>6, LenProperties DEF Texts
  <2>2. t \in [1 .. n -> Bytes]
    BY <1>7, <2>1
  <2> QED
    BY <2>2, SeqDef
<1>9. t \in Fields
  BY <1>2, <1>6, <1>8, TextIsField
<1>10. Without(stop, t)
  <2>1. DOMAIN t = 1 .. n
    BY <1>6, <1>8, LenProperties
  <2> QED
    BY <1>7, <2>1 DEF Without
<1>11. e # p => t # <<>>
  <2>1. e # p => n # 0
    BY <1>1, <1>2, <1>6
  <2> QED
    BY <1>6, <2>1
<1> QED
  BY <1>1, <1>2, <1>5, <1>9, <1>10, <1>11

LEMMA ParseLineIs ==
  ASSUME NEW text \in Texts, NEW s \in States(text)
  PROVE  ParseLine(text, s) \in States(text)
<1>1. PICK len \in Nat : len = Len(text)
  BY DEF Texts
<1>2. s.at \in 1 .. len + 1 /\ s.found \in FoundLists
  BY <1>1 DEF States
<1> SUFFICES ASSUME ~ (s.at > Len(text) \/ text[s.at] = Zero \/ Len(s.found) = MaxUsers)
             PROVE  ParseLine(text, s) \in States(text)
  BY DEF ParseLine
<1> DEFINE nameEnd == FieldEnd(text, s.at, Colon)
           pass    == Skip(text, nameEnd, Colon)
           passEnd == FieldEnd(text, pass, Newline)
           name    == SubSeq(text, s.at, nameEnd - 1)
           word    == SubSeq(text, pass, passEnd - 1)
           next    == IF nameEnd = s.at THEN s.found
                      ELSE Append(s.found, [username |-> name, password |-> word])
<1>3. /\ nameEnd \in s.at .. len + 1 /\ name \in Fields /\ Without(Colon, name)
      /\ nameEnd # s.at => name # <<>>
  BY <1>1, <1>2, FieldIs
<1>4. ParseLine(text, s) = [at |-> Skip(text, passEnd, Newline), found |-> next]
  BY DEF ParseLine
<1> HIDE DEF nameEnd, name
<1>5. nameEnd \in 1 .. len + 1
  BY <1>2, <1>3
<1>6. pass \in 1 .. len + 1
  BY <1>1, <1>5, SkipRange
<1> HIDE DEF pass
<1>7. passEnd \in pass .. len + 1 /\ word \in Fields /\ Without(Newline, word)
  BY <1>1, <1>6, FieldIs
<1> HIDE DEF passEnd, word
<1>8. Skip(text, passEnd, Newline) \in 1 .. len + 1
  <2>1. passEnd \in 1 .. len + 1
    BY <1>6, <1>7
  <2> QED
    BY <1>1, <2>1, SkipRange
<1>9. next \in FoundLists
  <2>1. CASE nameEnd = s.at
    BY <1>2, <2>1
  <2>2. CASE nameEnd # s.at
    <3> DEFINE a == [username |-> name, password |-> word]
    <3>1. a \in PlainAccounts
      BY <1>3, <1>7, <2>2 DEF PlainAccounts, Accounts, Plain, PlainName
    <3>2. next = Append(s.found, a)
      BY <2>2
    <3> HIDE DEF a, next
    <3>3. PICK r \in Seq(PlainAccounts) : r = s.found /\ Len(r) \in 0 .. MaxUsers /\ Len(r) # MaxUsers
      BY <1>2 DEF FoundLists
    <3>4. Append(r, a) \in Seq(PlainAccounts) /\ Len(Append(r, a)) = Len(r) + 1
      BY <3>1, AppendProperties
    <3>5. Len(r) + 1 \in 0 .. MaxUsers
      BY <3>3, ConstantsAre
    <3> QED
      BY <3>2, <3>3, <3>4, <3>5 DEF FoundLists
  <2> QED
    BY <2>1, <2>2
<1> HIDE DEF next
<1> QED
  BY <1>1, <1>4, <1>8, <1>9 DEF States

LEMMA FirstState ==
  ASSUME NEW text \in Texts
  PROVE  [at |-> 1, found |-> <<>>] \in States(text)
<1>1. 1 \in 1 .. Len(text) + 1
  BY DEF Texts
<1>2. <<>> \in FoundLists
  <2>1. <<>> \in Seq(PlainAccounts) /\ Len(<<>>) = 0
    OBVIOUS
  <2> QED
    BY <2>1, ConstantsAre DEF FoundLists
<1> QED
  BY <1>1, <1>2 DEF States

LEMMA TurnsAre ==
  ASSUME NEW text \in Texts
  PROVE  /\ Turns(text) \in [0 .. Len(text) -> States(text)]
         /\ Turns(text)[0] = [at |-> 1, found |-> <<>>]
         /\ \A n \in 1 .. Len(text) : Turns(text)[n] = ParseLine(text, Turns(text)[n - 1])
<1> DEFINE len == Len(text)
           X == States(text)
           x == [at |-> 1, found |-> <<>>]
           Turn(y) == ParseLine(text, y)
           g == [p \in X \X (1 .. len) |-> Turn(p[1])]
           E(f) == f = [n \in 0 .. len |-> IF n = 0 THEN x ELSE Turn(f[n - 1])]
           t == Turns(text)
<1>1. len \in Nat /\ x \in X
  BY FirstState DEF Texts
<1>2. \A y \in X : Turn(y) \in X
  BY ParseLineIs
<1>3. t = CHOOSE h : E(h)
  BY DEF Turns
<1> HIDE DEF X, x, Turn, len
<1>4. HasIteration(len, X, x, g)
  <2>1. Steps(len, X, g)
    BY <1>2 DEF Steps
  <2> HIDE DEF g
  <2> QED
    BY <1>1, <2>1, Iteration
<1>5. PICK f \in [0 .. len -> X] :
        f[0] = x /\ \A i \in 1 .. len : f[i] = Turn(f[i - 1])
  <2>1. ASSUME NEW y \in X, NEW i \in 1 .. len
        PROVE  g[<<y, i>>] = Turn(y)
    OBVIOUS
  <2> HIDE DEF g
  <2>2. PICK f \in [0 .. len -> X] : f[0] = x /\ \A i \in 1 .. len : f[i] = g[<<f[i - 1], i>>]
    BY <1>4 DEF HasIteration, IsIteration
  <2>3. \A i \in 1 .. len : f[i - 1] \in X
    BY <1>1
  <2> QED
    BY <2>1, <2>2, <2>3
<1>6. E(f)
  <2>1. ASSUME NEW n \in 0 .. len, n # 0
        PROVE  f[n] = Turn(f[n - 1])
    <3>1. n \in 1 .. len
      BY <1>1, <2>1
    <3> QED
      BY <1>5, <3>1
  <2>2. f = [n \in 0 .. len |-> f[n]]
    OBVIOUS
  <2> QED
    BY <1>5, <2>1, <2>2
<1> HIDE DEF g
<1>7. E(t)
  <2> HIDE DEF E, t
  <2> QED
    BY <1>3, <1>6
<1> HIDE DEF t
<1>8. \A n \in 0 .. len : t[n] = IF n = 0 THEN x ELSE Turn(t[n - 1])
  BY <1>7
<1>9. t = [n \in 0 .. len |-> t[n]]
  BY <1>7
<1>10. t[0] = x /\ \A n \in 1 .. len : t[n] = Turn(t[n - 1])
  <2>1. 0 \in 0 .. len /\ \A n \in 1 .. len : n \in 0 .. len /\ n # 0
    BY <1>1
  <2> QED
    BY <1>8, <2>1
<1>11. \A n \in 0 .. len : t[n] \in X
  <2> DEFINE S == {n \in 0 .. len : t[n] \in X}
  <2>1. 0 \in S
    BY <1>1, <1>10
  <2>2. ASSUME NEW n \in 1 .. len, n - 1 \in S
        PROVE  n \in S
    <3>1. t[n] = Turn(t[n - 1]) /\ t[n - 1] \in X
      BY <1>10, <2>2
    <3>2. n \in 0 .. len
      BY <1>1
    <3> QED
      BY <1>2, <3>1, <3>2
  <2> HIDE DEF S
  <2>3. \A n \in 0 .. len : n \in S
    BY <1>1, <2>1, <2>2, Induction
  <2> QED
    BY <2>3 DEF S
<1>12. t \in [0 .. len -> X]
  BY <1>9, <1>11
<1> QED
  BY <1>10, <1>12 DEF len, X, x, t, Turn

\* Where the text is over, the turns are idle.
LEMMA Idle ==
  ASSUME NEW text \in Texts, NEW n \in 0 .. Len(text), Over(text, Turns(text)[n].at)
  PROVE  Turns(text)[Len(text)] = Turns(text)[n]
<1> DEFINE t == Turns(text)
           S == {i \in 0 .. Len(text) : n <= i => t[i] = t[n]}
<1>1. Len(text) \in Nat
  BY DEF Texts
<1>2. \A i \in 1 .. Len(text) : t[i] = ParseLine(text, t[i - 1])
  BY TurnsAre
<1>3. ParseLine(text, t[n]) = t[n]
  BY DEF ParseLine, Over
<1> HIDE DEF t
<1>4. 0 \in S
  BY <1>1
<1>5. ASSUME NEW i \in 1 .. Len(text), i - 1 \in S
      PROVE  i \in S
  <2>1. i \in 0 .. Len(text)
    BY <1>1
  <2>2. CASE n <= i - 1
    <3>1. t[i - 1] = t[n]
      BY <1>5, <2>2
    <3> QED
      BY <1>2, <1>3, <2>1, <3>1
  <2>3. CASE ~ (n <= i - 1)
    <3>1. n <= i => i = n
      BY <1>1, <2>3
    <3> QED
      BY <2>1, <3>1
  <2> QED
    BY <2>2, <2>3
<1> HIDE DEF S
<1>6. Len(text) \in S
  <2>1. \A i \in 0 .. Len(text) : i \in S
    BY <1>1, <1>4, <1>5, Induction
  <2> QED
    BY <1>1, <2>1
<1>7. n <= Len(text)
  BY <1>1
<1> QED
  BY <1>6, <1>7 DEF S, t

-----------------------------------------------------------------------------
(* A text that save_users_to_disk wrote, cut anywhere.                     *)

\* The text shows the first c bytes of the lines of the first k entries, and no more.
Agrees(us, k, text, c) ==
  /\ Filled(us, k) /\ \A i \in 0 .. k - 1 : Plain(us[i])
  /\ text \in Texts /\ c \in 0 .. Len(LineTexts(us)[k]) /\ c <= Len(text)
  /\ \A j \in 1 .. c : text[j] = LineTexts(us)[k][j]
  /\ Over(text, c + 1)

\* The bytes of line i that the text shows.
Shown(us, c, i) ==
  IF c < Len(LineTexts(us)[i + 1]) THEN c - Len(LineTexts(us)[i]) ELSE Len(Line(us[i]))

LEMMA EntryIs ==
  ASSUME NEW us, NEW k, Filled(us, k), NEW i \in 0 .. k - 1
  PROVE  /\ i \in Indices /\ us \in Tables /\ k \in 0 .. MaxUsers
         /\ us[i].username \in Fields /\ us[i].password \in Fields
<1>1. i \in Indices /\ us \in Tables /\ k \in 0 .. MaxUsers
  BY ConstantsAre DEF Filled, Indices
<1> QED
  BY <1>1 DEF Tables

LEMMA LineShows ==
  ASSUME NEW us, NEW k, NEW text, NEW c, Agrees(us, k, text, c),
         NEW i \in 0 .. k - 1, Len(LineTexts(us)[i]) < c
  PROVE  Shows(text, Len(LineTexts(us)[i]) + 1, Shown(us, c, i), us[i].username, us[i].password)
<1> DEFINE f == LineTexts(us)
           l == Line(us[i])
<1>1. Filled(us, k) /\ text \in Texts /\ k \in Nat
  BY ConstantsAre DEF Agrees, Filled
<1>2. PICK x \in Fields, y \in Fields : us[i].username = x /\ us[i].password = y
  BY <1>1, EntryIs
<1>3. PICK n \in Nat, w \in Nat, len \in Nat : n = Len(x) /\ w = Len(y) /\ len = Len(text)
  BY <1>1, FieldIsText, ConstantsAre DEF Texts
<1>4. /\ Len(l) = n + w + 2
      /\ \A j \in 1 .. n : l[j] = x[j]
      /\ l[n + 1] = Colon
      /\ \A j \in 1 .. w : l[n + 1 + j] = y[j]
      /\ l[n + w + 2] = Newline
  <2>1. IsLine(l, x, y)
    BY <1>2, LineIs
  <2> HIDE DEF l
  <2> QED
    BY <1>3, <2>1 DEF IsLine
<1>5. /\ Len(f[i + 1]) = Len(f[i]) + Len(l)
      /\ \A j \in 1 .. Len(l) : f[i + 1][Len(f[i]) + j] = l[j]
  <2>1. Follows(f[i + 1], f[i], l)
    BY <1>1, NextLine
  <2> HIDE DEF f, l
  <2> QED
    BY <2>1 DEF Follows
<1>6. /\ Len(f[i + 1]) <= Len(f[k])
      /\ \A j \in 1 .. Len(f[i + 1]) : f[k][j] = f[i + 1][j]
  <2>1. us \in Tables /\ k \in 0 .. MaxUsers /\ i + 1 \in 0 .. k
    BY <1>1, EntryIs
  <2> QED
    BY <2>1, TextPrefix
<1>7. PICK a \in Nat, z \in Nat : a = Len(f[i]) /\ z = Len(f[k])
  <2>1. us \in Tables /\ i \in 0 .. MaxUsers /\ k \in 0 .. MaxUsers
    BY <1>1, EntryIs, ConstantsAre DEF Indices
  <2> QED
    BY <2>1, TextIs
<1>8. /\ c \in 0 .. z /\ c <= len /\ a < c
      /\ \A j \in 1 .. c : text[j] = f[k][j]
      /\ c + 1 > Len(text) \/ text[c + 1] = Zero
  BY <1>3, <1>7 DEF Agrees, Over
<1> DEFINE d == Shown(us, c, i)
<1>9. d = IF c < a + n + w + 2 THEN c - a ELSE n + w + 2
  <2>1. PICK b \in Nat : b = a + (n + w + 2) /\ b = a + n + w + 2
    OBVIOUS
  <2>2. Len(f[i + 1]) = b
    <3> HIDE DEF f, l
    <3> QED
      BY <1>4, <1>5, <1>7, <2>1
  <2> QED
    BY <1>4, <1>7, <2>1, <2>2 DEF Shown
<1> HIDE DEF f, l, d
<1>10. /\ d \in 1 .. n + w + 2 /\ a + 1 + d - 1 <= len /\ a + d <= c
       /\ d < n + w + 2 => a + 1 + d = c + 1
  BY <1>8, <1>9
<1>11. ASSUME NEW j \in 1 .. n + w + 2, j <= d
       PROVE  text[a + j] = l[j]
  <2>1. PICK o \in Nat : o = a + j /\ o \in 1 .. c /\ o \in 1 .. a + (n + w + 2)
    BY <1>8, <1>10, <1>11
  <2>2. o \in 1 .. Len(f[i + 1]) /\ j \in 1 .. Len(l)
    BY <1>4, <1>5, <1>7, <2>1
  <2>3. text[o] = f[k][o] /\ f[k][o] = f[i + 1][o]
    BY <1>6, <1>8, <2>1, <2>2
  <2>4. f[i + 1][a + j] = l[j]
    BY <1>5, <1>7, <2>2
  <2> QED
    BY <2>1, <2>3, <2>4
<1>12. ASSUME NEW j \in 1 .. n, j <= d
       PROVE  text[a + 1 + j - 1] = x[j]
  <2>1. a + 1 + j - 1 = a + j /\ j \in 1 .. n + w + 2
    BY <1>8
  <2> QED
    BY <1>4, <1>11, <1>12, <2>1
<1>13. d > n => text[a + 1 + n] = Colon
  <2>1. PICK o \in 1 .. n + w + 2 : o = n + 1
    BY <1>3
  <2>2. a + 1 + n = a + o /\ (d > n => o <= d)
    BY <1>10, <2>1
  <2> QED
    BY <1>4, <1>11, <2>1, <2>2
<1>14. ASSUME NEW j \in 1 .. w, n + 1 + j <= d
       PROVE  text[a + 1 + n + j] = y[j]
  <2>1. PICK o \in 1 .. n + w + 2 : o = n + 1 + j
    BY <1>3
  <2>2. a + 1 + n + j = a + o /\ o <= d
    BY <1>10, <1>14, <2>1
  <2> QED
    BY <1>4, <1>11, <2>1, <2>2
<1>15. d = n + w + 2 => text[a + 1 + n + w + 1] = Newline
  <2>1. PICK o \in 1 .. n + w + 2 : o = n + w + 2
    BY <1>3
  <2>2. a + 1 + n + w + 1 = a + o /\ (d = n + w + 2 => o <= d)
    BY <1>10, <2>1
  <2> QED
    BY <1>4, <1>11, <2>1, <2>2
<1>16. d < n + w + 2 => Over(text, a + 1 + d)
  BY <1>8, <1>10 DEF Over
<1>17. a + 1 \in Nat \ {0}
  BY <1>7
<1>18. Shows(text, a + 1, d, x, y)
  BY <1>3, <1>10, <1>12, <1>13, <1>14, <1>15, <1>16, <1>17 DEF Shows
<1> QED
  BY <1>2, <1>7, <1>18 DEF f, d

\* The turn that reads line i.
LEMMA TurnOnLine ==
  ASSUME NEW us, NEW k, NEW text, NEW c, Agrees(us, k, text, c),
         NEW i \in 0 .. k - 1, Len(LineTexts(us)[i]) < c, NEW r, Len(r) # MaxUsers
  PROVE  ParseLine(text, [at |-> Len(LineTexts(us)[i]) + 1, found |-> r])
           = [at |-> Len(LineTexts(us)[i]) + 1 + Shown(us, c, i),
              found |-> Append(r, Cut(us[i], Shown(us, c, i)))]
<1> DEFINE p == Len(LineTexts(us)[i]) + 1
           d == Shown(us, c, i)
<1>1. Filled(us, k) /\ text \in Texts /\ Plain(us[i])
  BY DEF Agrees
<1>2. PICK x \in Fields, y \in Fields : us[i].username = x /\ us[i].password = y
  BY <1>1, EntryIs
<1>3. Shows(text, p, d, x, y)
  BY <1>2, LineShows
<1>4. PlainName(x) /\ Without(Newline, y)
  BY <1>1, <1>2 DEF Plain
<1> HIDE DEF p, d
<1>5. ParseLine(text, [at |-> p, found |-> r])
        = [at |-> p + d, found |-> Append(r, [username |-> Shorter(x, d),
                                              password |-> Shorter(y, d - Len(x) - 1)])]
  BY <1>1, <1>3, <1>4, TurnOnText
<1>6. Cut(us[i], d) = [username |-> Shorter(x, d), password |-> Shorter(y, d - Len(x) - 1)]
  BY <1>2 DEF Cut
<1> QED
  BY <1>5, <1>6 DEF p, d

LEMMA LengthsAre ==
  ASSUME NEW us, NEW k, NEW text, NEW c, Agrees(us, k, text, c)
  PROVE  /\ Filled(us, k) /\ us \in Tables /\ k \in 0 .. MaxUsers /\ k \in Nat /\ MaxUsers \in Nat
         /\ text \in Texts /\ Len(text) \in Nat /\ c \in Nat /\ c <= Len(text)
         /\ c <= Len(LineTexts(us)[k])
         /\ \A i \in 0 .. k : Len(LineTexts(us)[i]) \in Nat
<1>1. Filled(us, k) /\ us \in Tables /\ k \in 0 .. MaxUsers /\ k \in Nat /\ MaxUsers \in Nat
  BY ConstantsAre DEF Agrees, Filled
<1>2. \A i \in 0 .. k : Len(LineTexts(us)[i]) \in Nat
  <2>1. \A i \in 0 .. k : i \in 0 .. MaxUsers
    BY <1>1
  <2> QED
    BY <1>1, <2>1, TextIs
<1>3. /\ text \in Texts /\ c \in 0 .. Len(LineTexts(us)[k]) /\ c <= Len(text)
  BY DEF Agrees
<1>4. Len(text) \in Nat
  BY <1>3 DEF Texts
<1>5. c \in Nat /\ c <= Len(LineTexts(us)[k])
  <2>1. k \in 0 .. k
    BY <1>1
  <2>2. PICK z \in Nat : z = Len(LineTexts(us)[k])
    BY <1>2, <2>1
  <2> QED
    BY <1>3, <2>2
<1> QED
  BY <1>1, <1>2, <1>3, <1>4, <1>5

\* A whole line gives its account.
LEMMA WholeLine ==
  ASSUME NEW us, NEW k, NEW text, NEW c, Agrees(us, k, text, c),
         NEW i \in 0 .. k - 1, NEW d \in Nat, d >= Len(Line(us[i])) - 1
  PROVE  Cut(us[i], d) = AccountOf(us[i])
<1>1. Filled(us, k) /\ Plain(us[i])
  BY DEF Agrees
<1>2. PICK x \in Fields, y \in Fields : us[i].username = x /\ us[i].password = y
  BY <1>1, EntryIs
<1>3. PICK n \in Nat, w \in Nat : n = Len(x) /\ w = Len(y)
  BY FieldIsText, ConstantsAre
<1>4. Len(Line(us[i])) = n + w + 2
  BY <1>2, <1>3, LineIs DEF IsLine
<1>5. d >= n + w + 1 /\ d \in Nat \ {0}
  BY <1>3, <1>4
<1>6. PlainName(x) /\ Without(Newline, y)
  BY <1>1, <1>2 DEF Plain
<1> QED
  BY <1>2, <1>3, <1>5, <1>6, CutIs

\* After m turns the first m lines are read, as long as the text shows them.
LEMMA WholeLines ==
  ASSUME NEW us, NEW k, NEW text, NEW c, Agrees(us, k, text, c),
         NEW m \in 0 .. k, Len(LineTexts(us)[m]) <= c
  PROVE  /\ m \in 0 .. Len(text)
         /\ Turns(text)[m] = [at |-> Len(LineTexts(us)[m]) + 1, found |-> FirstAccounts(us, m)]
<1> DEFINE f == LineTexts(us)
           t == Turns(text)
           R(i) == [at |-> Len(f[i]) + 1, found |-> FirstAccounts(us, i)]
           S == {i \in 0 .. m : t[i] = R(i)}
<1>1. /\ Filled(us, k) /\ us \in Tables /\ k \in 0 .. MaxUsers /\ k \in Nat /\ MaxUsers \in Nat
      /\ text \in Texts /\ Len(text) \in Nat /\ c \in Nat /\ c <= Len(text)
      /\ \A i \in 0 .. k : Len(f[i]) \in Nat
  BY LengthsAre
<1>2. m \in 0 .. Len(text)
  <2>1. Len(f[m]) >= m
    BY <1>1, TextIsLong
  <2>2. PICK z \in Nat : z = Len(f[m])
    BY <1>1
  <2>3. z >= m /\ z <= c
    BY <2>1, <2>2
  <2> HIDE DEF f
  <2> QED
    BY <1>1, <2>3
<1>3. t[0] = [at |-> 1, found |-> <<>>] /\ \A i \in 1 .. Len(text) : t[i] = ParseLine(text, t[i - 1])
  BY <1>1, TurnsAre
<1>4. 0 \in S
  <2>1. FirstAccounts(us, 0) = <<>>
    <3>1. 0 \in 0 .. MaxUsers
      BY <1>1
    <3>2. FirstAccounts(us, 0) \in Seq(Accounts) /\ Len(FirstAccounts(us, 0)) = 0
      BY <1>1, <3>1, FirstAccountsAre
    <3> QED
      BY <3>2, EmptySeq
  <2>2. f[0] = <<>>
    BY <1>1, LineTextsAre
  <2> HIDE DEF f, t
  <2> QED
    BY <1>3, <2>1, <2>2
<1>5. ASSUME NEW i \in 1 .. m, i - 1 \in S
      PROVE  i \in S
  <2>1. PICK h \in 0 .. k - 1 : h = i - 1 /\ h + 1 = i
    BY <1>1
  <2>2. h \in Indices /\ h \in 0 .. MaxUsers /\ i \in 0 .. k /\ h \in 0 .. k /\ i \in 1 .. Len(text)
    BY <1>1, <1>2, <2>1 DEF Indices
  <2>3. t[h] = R(h) /\ t[i] = ParseLine(text, t[h])
    BY <1>3, <1>5, <2>1, <2>2
  <2>4. /\ Len(f[h + 1]) = Len(f[h]) + Len(Line(us[h]))
        /\ Len(Line(us[h])) \in Nat /\ Len(Line(us[h])) >= 2
    BY <1>1, NextLine DEF Follows
  <2>5. Len(f[i]) <= Len(f[m])
    <3>1. m \in 0 .. MaxUsers /\ i \in 0 .. m
      BY <1>1
    <3> QED
      BY <1>1, <3>1, TextPrefix
  <2>6. PICK a \in Nat, b \in Nat, l \in Nat, z \in Nat :
          a = Len(f[h]) /\ b = Len(f[i]) /\ l = Len(Line(us[h])) /\ z = Len(f[m])
    BY <1>1, <2>2, <2>4
  <2> HIDE DEF f, t
  <2>7. b = a + l /\ l >= 2 /\ a < c /\ ~ (c < b) /\ a + 1 + l = b + 1 /\ l >= l - 1
    <3>1. b = a + l /\ l >= 2 /\ b <= z /\ z <= c
      BY <2>1, <2>4, <2>5, <2>6 DEF f
    <3> QED
      BY <1>1, <3>1
  <2>8. Shown(us, c, h) = l
    BY <2>1, <2>6, <2>7 DEF Shown, f
  <2>9. Len(FirstAccounts(us, h)) # MaxUsers /\ FirstAccounts(us, h) \in Seq(Accounts)
    <3>1. Len(FirstAccounts(us, h)) = h /\ FirstAccounts(us, h) \in Seq(Accounts)
      BY <1>1, <2>2, FirstAccountsAre
    <3>2. h # MaxUsers
      BY <1>1, <2>1
    <3> QED
      BY <3>1, <3>2
  <2>10. ParseLine(text, [at |-> Len(LineTexts(us)[h]) + 1, found |-> FirstAccounts(us, h)])
          = [at |-> Len(LineTexts(us)[h]) + 1 + Shown(us, c, h),
             found |-> Append(FirstAccounts(us, h), Cut(us[h], Shown(us, c, h)))]
    <3>1. Len(LineTexts(us)[h]) < c
      BY <2>6, <2>7 DEF f
    <3> QED
      BY <2>9, <3>1, TurnOnLine
  <2>11. Cut(us[h], l) = AccountOf(us[h])
    BY <2>6, <2>7, WholeLine
  <2>12. Append(FirstAccounts(us, h), AccountOf(us[h])) = FirstAccounts(us, i)
    <3>1. AccountOf(us[h]) \in Accounts
      BY <1>1, <2>2, AccountIs
    <3>2. Append(FirstAccounts(us, h), AccountOf(us[h])) = FirstAccounts(us, h) \o <<AccountOf(us[h])>>
      BY <2>9, <3>1, AppendIsConcat
    <3>3. FirstAccounts(us, h + 1) = FirstAccounts(us, h) \o <<AccountOf(us[h])>>
      BY <1>1, <2>2, NextAccount
    <3> QED
      BY <2>1, <3>2, <3>3
  <2>13. ParseLine(text, R(h)) = [at |-> a + 1 + l, found |-> Append(FirstAccounts(us, h), AccountOf(us[h]))]
    BY <2>6, <2>8, <2>10, <2>11 DEF f
  <2>14. t[i] = R(i)
    BY <2>3, <2>6, <2>7, <2>12, <2>13
  <2> QED
    BY <1>1, <2>14
<1> HIDE DEF S
<1>6. m \in S
  <2>1. m \in Nat
    BY <1>1
  <2>2. \A i \in 0 .. m : i \in S
    BY <1>4, <1>5, <2>1, Induction
  <2> QED
    BY <2>1, <2>2
<1> QED
  BY <1>2, <1>6 DEF S

\* What load_users_from_disk makes of it: the accounts of the whole lines, and
\* what is left of the next one.
LEMMA ParseCut ==
  ASSUME NEW us, NEW k, NEW text, NEW c, Agrees(us, k, text, c),
         NEW m \in 0 .. k, Len(LineTexts(us)[m]) <= c,
         m < k => c < Len(LineTexts(us)[m + 1])
  PROVE  Parse(text) = IF c = Len(LineTexts(us)[m]) THEN FirstAccounts(us, m)
                       ELSE Append(FirstAccounts(us, m), Cut(us[m], c - Len(LineTexts(us)[m])))
<1> DEFINE t == Turns(text)
           a == Len(LineTexts(us)[m])
<1>1. /\ Filled(us, k) /\ us \in Tables /\ k \in 0 .. MaxUsers /\ k \in Nat /\ MaxUsers \in Nat
      /\ text \in Texts /\ Len(text) \in Nat /\ c \in Nat /\ c <= Len(text)
      /\ c <= Len(LineTexts(us)[k]) /\ a \in Nat
  BY LengthsAre
<1>2. m \in 0 .. Len(text) /\ t[m] = [at |-> a + 1, found |-> FirstAccounts(us, m)]
  BY WholeLines
<1>3. Parse(text) = t[Len(text)].found
  BY ParseTurns
<1>4. Over(text, c + 1)
  BY DEF Agrees
<1>5. CASE c = a
  <2>1. t[m].at = c + 1
    BY <1>2, <1>5
  <2>2. t[Len(text)] = t[m]
    BY <1>1, <1>2, <1>4, <2>1, Idle
  <2> QED
    BY <1>2, <1>3, <1>5, <2>2
<1>6. CASE c # a
  <2>1. a < c /\ m # k
    <3>1. a <= c
      OBVIOUS
    <3>2. m = k => c <= a
      BY <1>1
    <3> HIDE DEF a
    <3> QED
      BY <1>1, <1>6, <3>1, <3>2
  <2>2. m \in 0 .. k - 1 /\ m < k
    BY <1>1, <2>1
  <2>3. Shown(us, c, m) = c - a
    BY <2>2 DEF Shown
  <2>4. Len(FirstAccounts(us, m)) # MaxUsers
    <3>1. m \in 0 .. MaxUsers /\ m # MaxUsers
      BY <1>1, <2>2
    <3>2. Len(FirstAccounts(us, m)) = m
      BY <1>1, <3>1, FirstAccountsAre
    <3> QED
      BY <3>1, <3>2
  <2>5. ParseLine(text, [at |-> a + 1, found |-> FirstAccounts(us, m)])
          = [at |-> a + 1 + Shown(us, c, m),
             found |-> Append(FirstAccounts(us, m), Cut(us[m], Shown(us, c, m)))]
    BY <2>1, <2>2, <2>4, TurnOnLine
  <2>6. m + 1 \in 1 .. Len(text) /\ m + 1 - 1 = m
    <3>1. a >= m
      BY <1>1, TextIsLong
    <3> HIDE DEF a
    <3> QED
      BY <1>1, <2>1, <3>1
  <2>7. t[m + 1] = ParseLine(text, t[m])
    <3>1. \A i \in 1 .. Len(text) : t[i] = ParseLine(text, t[i - 1])
      BY <1>1, TurnsAre
    <3> HIDE DEF t
    <3> QED
      BY <2>6, <3>1
  <2> HIDE DEF a
  <2>8. a + 1 + (c - a) = c + 1
    BY <1>1
  <2>9. t[m + 1] = [at |-> c + 1, found |-> Append(FirstAccounts(us, m), Cut(us[m], c - a))]
    BY <1>2, <2>3, <2>5, <2>7, <2>8
  <2>10. t[Len(text)] = t[m + 1]
    <3>1. PICK i \in 0 .. Len(text) : i = m + 1
      BY <1>1, <2>6
    <3>2. Over(text, t[i].at)
      BY <1>4, <2>9, <3>1
    <3>3. t[Len(text)] = t[i]
      BY <1>1, <3>2, Idle
    <3> QED
      BY <3>1, <3>3
  <2> QED
    BY <1>3, <1>6, <2>9, <2>10 DEF a
<1> QED
  BY <1>5, <1>6

\* There is a last whole line.
LEMMA LastWhole ==
  ASSUME NEW us, NEW k, NEW text, NEW c, Agrees(us, k, text, c)
  PROVE  \E m \in 0 .. k : /\ Len(LineTexts(us)[m]) <= c
                           /\ m < k => c < Len(LineTexts(us)[m + 1])
<1> DEFINE f == LineTexts(us)
           S == {i \in 0 .. k : Len(f[i]) <= c}
<1>1. /\ us \in Tables /\ k \in Nat /\ c \in Nat
      /\ \A i \in 0 .. k : Len(f[i]) \in Nat
  BY LengthsAre
<1> SUFFICES ASSUME \A m \in 0 .. k : Len(f[m]) <= c => m < k /\ ~ (c < Len(f[m + 1]))
             PROVE  FALSE
  OBVIOUS
<1>2. f[0] = <<>>
  BY <1>1, LineTextsAre
<1> HIDE DEF f
<1>3. 0 \in S
  BY <1>1, <1>2
<1>4. ASSUME NEW i \in 1 .. k, i - 1 \in S
      PROVE  i \in S
  <2>1. PICK h \in 0 .. k : h = i - 1 /\ h + 1 = i
    BY <1>1
  <2>2. Len(f[h]) <= c
    BY <1>4, <2>1
  <2>3. ~ (c < Len(f[i])) /\ i \in 0 .. k
    BY <1>1, <2>1, <2>2
  <2>4. Len(f[i]) \in Nat
    BY <1>1, <2>3
  <2>5. Len(f[i]) <= c
    BY <1>1, <2>3, <2>4
  <2> QED
    BY <2>3, <2>5
<1> HIDE DEF S
<1>5. k \in S
  <2>1. k \in Nat /\ k \in 0 .. k
    BY <1>1
  <2>2. \A i \in 0 .. k : i \in S
    BY <1>3, <1>4, <2>1, Induction
  <2> QED
    BY <2>1, <2>2
<1>6. Len(f[k]) <= c /\ k \in 0 .. k /\ ~ (k < k)
  BY <1>1, <1>5 DEF S
<1> QED
  BY <1>6

LEMMA BytesInTexts ==
  /\ \A s \in Seq(Bytes) : s \in Texts
  BY DEF Texts

\* What is saved of a table: the lines, up to the length of the buffer.
LEMMA TextOf ==
  ASSUME NEW us, NEW k, Filled(us, k)
  PROVE  LET f == LineTexts(us)[k]
             n == IF Len(f) > DbLimit THEN DbLimit ELSE Len(f)
         IN  /\ Text(us) \in Seq(Bytes) /\ Len(Text(us)) = n
             /\ \A j \in 1 .. n : Text(us)[j] = f[j]
<1> DEFINE f == LineTexts(us)[k]
<1>1. us \in Tables /\ k \in 0 .. MaxUsers
  BY DEF Filled
<1>2. f \in Seq(Bytes) /\ Len(f) \in Nat /\ DbLimit \in Nat
  BY <1>1, TextIs, ConstantsAre
<1>3. Text(us) = IF Len(f) > DbLimit THEN SubSeq(f, 1, DbLimit) ELSE f
  BY LinesAre DEF Text
<1> HIDE DEF f
<1>4. ASSUME Len(f) > DbLimit
      PROVE  /\ SubSeq(f, 1, DbLimit) \in Seq(Bytes) /\ Len(SubSeq(f, 1, DbLimit)) = DbLimit
             /\ \A j \in 1 .. DbLimit : SubSeq(f, 1, DbLimit)[j] = f[j]
  <2>1. 1 \in 1 .. Len(f) + 1 /\ DbLimit \in 1 - 1 .. Len(f) /\ DbLimit - 1 + 1 = DbLimit
    BY <1>2, <1>4
  <2>2. \A j \in 1 .. DbLimit : 1 + j - 1 = j
    BY <1>2
  <2> QED
    BY <1>2, <2>1, <2>2, SubSeqIs
<1> QED
  BY <1>2, <1>3, <1>4 DEF f

LEMMA PaddedIs ==
  ASSUME NEW text \in Seq(Bytes)
  PROVE  /\ Padded(text) \in [1 .. SectorSize -> Bytes \cup {Zero}]
         /\ Padded(text) \in Texts /\ Len(Padded(text)) = SectorSize
         /\ \A j \in 1 .. SectorSize : Padded(text)[j] = IF j <= Len(text) THEN text[j] ELSE Zero
<1>1. PICK len \in Nat : len = Len(text)
  OBVIOUS
<1>2. ASSUME NEW j \in 1 .. SectorSize
      PROVE  (IF j <= Len(text) THEN text[j] ELSE Zero) \in Bytes \cup {Zero}
  <2>1. j <= Len(text) => j \in 1 .. Len(text)
    BY <1>1, ConstantsAre
  <2> QED
    BY <2>1, ElementOfSeq
<1>3. Padded(text) \in [1 .. SectorSize -> Bytes \cup {Zero}]
  BY <1>2 DEF Padded
<1>4. Padded(text) \in Seq(Bytes \cup {Zero})
  BY <1>3, ConstantsAre, SeqDef
<1>5. Len(Padded(text)) = SectorSize
  BY <1>3, <1>4, ConstantsAre, LenProperties
<1>6. \A j \in 1 .. SectorSize : Padded(text)[j] = IF j <= Len(text) THEN text[j] ELSE Zero
  BY DEF Padded
<1> QED
  BY <1>3, <1>4, <1>5, <1>6 DEF Texts

LEMMA FrontIs ==
  ASSUME NEW S, NEW s \in Seq(S), NEW n \in 0 .. Len(s)
  PROVE  /\ SubSeq(s, 1, n) \in Seq(S) /\ Len(SubSeq(s, 1, n)) = n
         /\ \A i \in 1 .. n : SubSeq(s, 1, n)[i] = s[i]
<1>1. PICK len \in Nat : len = Len(s)
  OBVIOUS
<1>2. 1 \in 1 .. Len(s) + 1 /\ n \in 1 - 1 .. Len(s) /\ n - 1 + 1 = n /\ n \in Nat
  BY <1>1
<1>3. \A i \in 1 .. n : 1 + i - 1 = i
  BY <1>2
<1> QED
  BY <1>2, <1>3, SubSeqIs

\* The length of what is read back from the first z bytes of the sector.
Kept(us, k, z) ==
  LET n == Len(LineTexts(us)[k])
      o == IF n > DbLimit THEN DbLimit ELSE n
  IN  IF o < z THEN o ELSE z

LEMMA AgreesStored ==
  ASSUME NEW us, NEW k, Filled(us, k), \A i \in 0 .. k - 1 : Plain(us[i]),
         NEW z \in 0 .. SectorSize
  PROVE  Agrees(us, k, SubSeq(Padded(Text(us)), 1, z), Kept(us, k, z))
<1> DEFINE f == LineTexts(us)[k]
           t == Text(us)
           text == SubSeq(Padded(t), 1, z)
           c == Kept(us, k, z)
<1>1. us \in Tables /\ k \in 0 .. MaxUsers
  BY DEF Filled
<1>2. PICK n \in Nat, o \in Nat, lim \in Nat :
        n = Len(f) /\ lim = DbLimit /\ o = IF n > lim THEN lim ELSE n
  BY <1>1, TextIs, ConstantsAre
<1>3. t \in Seq(Bytes) /\ Len(t) = o /\ \A j \in 1 .. o : t[j] = f[j]
  BY <1>2, TextOf
<1>4. c = IF o < z THEN o ELSE z
  BY <1>2 DEF Kept
<1> HIDE DEF f, t, c
<1>5. SectorSize \in Nat /\ DbLimit = SectorSize - 2
  BY ConstantsAre
<1>6. /\ text \in Texts /\ Len(text) = z
      /\ \A i \in 1 .. z : text[i] = IF i <= o THEN t[i] ELSE Zero
  <2>1. /\ Padded(t) \in Texts /\ Len(Padded(t)) = SectorSize
        /\ \A j \in 1 .. SectorSize : Padded(t)[j] = IF j <= o THEN t[j] ELSE Zero
    BY <1>3, PaddedIs
  <2>2. /\ text \in Texts /\ Len(text) = z
        /\ \A i \in 1 .. z : text[i] = Padded(t)[i]
    BY <2>1, FrontIs DEF Texts
  <2>3. \A i \in 1 .. z : i \in 1 .. SectorSize
    BY <1>5
  <2> HIDE DEF text
  <2> QED
    BY <2>1, <2>2, <2>3
<1> HIDE DEF text
<1>7. c \in 0 .. n /\ c <= z /\ c <= o /\ c \in Nat /\ z \in Nat
  BY <1>2, <1>4, <1>5
<1>8. ASSUME NEW j \in 1 .. c
      PROVE  text[j] = f[j]
  <2>1. j \in 1 .. z /\ j <= o /\ j \in 1 .. o
    BY <1>2, <1>7
  <2> QED
    BY <1>3, <1>6, <2>1
<1>9. Over(text, c + 1)
  <2>1. CASE o < z
    <3>1. c + 1 \in 1 .. z /\ ~ (c + 1 <= o)
      BY <1>2, <1>4, <1>7, <2>1
    <3> QED
      BY <1>6, <3>1 DEF Over
  <2>2. CASE ~ (o < z)
    <3>1. c + 1 > z
      BY <1>4, <1>7, <2>2
    <3> QED
      BY <1>6, <3>1 DEF Over
  <2> QED
    BY <2>1, <2>2
<1> QED
  BY <1>2, <1>6, <1>7, <1>8, <1>9 DEF Agrees, f, t, text, c

\* Cut behind a whole line, or in front of its newline, the text gives whole accounts.
LEMMA ParseWhole ==
  ASSUME NEW us, NEW k, NEW text, NEW c, Agrees(us, k, text, c), NEW b \in 0 .. k,
         c = Len(LineTexts(us)[b]) \/ (b # 0 /\ c = Len(LineTexts(us)[b]) - 1)
  PROVE  Parse(text) = FirstAccounts(us, b)
<1> DEFINE f == LineTexts(us)
<1>1. /\ Filled(us, k) /\ us \in Tables /\ k \in 0 .. MaxUsers /\ k \in Nat /\ MaxUsers \in Nat
      /\ c \in Nat /\ \A i \in 0 .. k : Len(f[i]) \in Nat
  BY LengthsAre
<1>2. CASE c = Len(f[b])
  <2>1. ASSUME b < k
        PROVE  c < Len(f[b + 1])
    <3>1. b \in 0 .. k - 1
      BY <1>1, <2>1
    <3>2. PICK l \in Nat : l = Len(Line(us[b])) /\ l >= 2 /\ Len(f[b + 1]) = Len(f[b]) + l
      BY <1>1, <3>1, LineLength DEF HasLength
    <3> HIDE DEF f
    <3>3. Len(f[b + 1]) = c + l
      BY <1>2, <3>2
    <3>4. c < c + l
      BY <1>1, <3>2
    <3> QED
      BY <3>3, <3>4
  <2>2. Len(f[b]) <= c
    BY <1>1, <1>2
  <2> QED
    BY <1>2, <2>1, <2>2, ParseCut
<1>3. CASE b # 0 /\ c = Len(f[b]) - 1
  <2>1. PICK h \in 0 .. k - 1 : h + 1 = b
    <3>1. b - 1 \in 0 .. k - 1 /\ b - 1 + 1 = b
      BY <1>1, <1>3
    <3> QED
      BY <3>1
  <2>2. PICK l \in Nat : l = Len(Line(us[h])) /\ l >= 2 /\ Len(f[b]) = Len(f[h]) + l
    BY <1>1, <2>1, LineLength DEF HasLength
  <2>3. PICK a \in Nat : a = Len(f[h]) /\ h \in 0 .. k
    BY <1>1
  <2> HIDE DEF f
  <2>4. c = a + l - 1 /\ a < c /\ a <= c /\ c < Len(f[b]) /\ c - a = l - 1 /\ c # a
    <3>1. c = (a + l) - 1
      BY <1>3, <2>2, <2>3
    <3>2. Len(f[b]) = a + l
      BY <2>2, <2>3
    <3>3. PICK e \in Nat : e = a + l
      OBVIOUS
    <3>4. c = e - 1 /\ Len(f[b]) = e
      BY <3>1, <3>2, <3>3
    <3>5. a < e - 1 /\ a <= e - 1 /\ e - 1 < e /\ e - 1 - a = l - 1 /\ e - 1 # a /\ e - 1 = a + l - 1
      BY <2>2, <3>3
    <3> HIDE DEF f
    <3> QED
      BY <3>4, <3>5
  <2>5. Parse(text) = Append(FirstAccounts(us, h), Cut(us[h], c - a))
    <3>1. Len(LineTexts(us)[h]) <= c /\ (h < k => c < Len(LineTexts(us)[h + 1]))
      BY <2>1, <2>3, <2>4 DEF f
    <3> QED
      BY <2>3, <2>4, <3>1, ParseCut DEF f
  <2>6. Cut(us[h], c - a) = AccountOf(us[h])
    <3>1. c - a \in Nat /\ c - a >= Len(Line(us[h])) - 1
      BY <2>2, <2>4
    <3> QED
      BY <3>1, WholeLine
  <2>7. Append(FirstAccounts(us, h), AccountOf(us[h])) = FirstAccounts(us, b)
    <3>1. h \in Indices /\ h \in 0 .. MaxUsers
      BY <1>1 DEF Indices
    <3>2. AccountOf(us[h]) \in Accounts /\ FirstAccounts(us, h) \in Seq(Accounts)
      BY <1>1, <3>1, AccountIs, FirstAccountsAre
    <3>3. Append(FirstAccounts(us, h), AccountOf(us[h])) = FirstAccounts(us, h) \o <<AccountOf(us[h])>>
      BY <3>2, AppendIsConcat
    <3>4. FirstAccounts(us, h + 1) = FirstAccounts(us, h) \o <<AccountOf(us[h])>>
      BY <1>1, <3>1, NextAccount
    <3> QED
      BY <2>1, <3>3, <3>4
  <2> QED
    BY <2>5, <2>6, <2>7
<1> QED
  BY <1>2, <1>3

\* The accounts of the whole lines, and at most one more.
Shape(r, us, k, m) ==
  /\ r \in Seq(Accounts) /\ Len(r) \in m .. k
  /\ \A i \in 1 .. m : r[i] = AccountOf(us[i - 1])

LEMMA ParseShape ==
  ASSUME NEW us, NEW k, NEW text, NEW c, Agrees(us, k, text, c),
         NEW m \in 0 .. k, Len(LineTexts(us)[m]) <= c,
         m < k => c < Len(LineTexts(us)[m + 1])
  PROVE  /\ Shape(Parse(text), us, k, m)
         /\ c # Len(LineTexts(us)[m]) =>
              /\ m < k /\ Len(Parse(text)) = m + 1
              /\ Parse(text)[m + 1] = Cut(us[m], c - Len(LineTexts(us)[m]))
<1>1. /\ Filled(us, k) /\ us \in Tables /\ k \in 0 .. MaxUsers /\ k \in Nat /\ MaxUsers \in Nat
      /\ c \in Nat /\ c <= Len(LineTexts(us)[k]) /\ \A i \in 0 .. k : Len(LineTexts(us)[i]) \in Nat
  BY LengthsAre
<1>2. PICK a \in Nat : a = Len(LineTexts(us)[m])
  BY <1>1
<1> DEFINE s == FirstAccounts(us, m)
<1>3. s \in Seq(Accounts) /\ Len(s) = m /\ \A i \in 1 .. m : s[i] = AccountOf(us[i - 1])
  <2>1. m \in 0 .. MaxUsers
    BY <1>1
  <2> QED
    BY <1>1, <2>1, FirstAccountsAre
<1> HIDE DEF s
<1>4. CASE c = a
  <2>1. Parse(text) = s
    BY <1>2, <1>4, ParseCut DEF s
  <2>2. m \in m .. k
    BY <1>1
  <2> QED
    BY <1>2, <1>3, <1>4, <2>1, <2>2 DEF Shape
<1>5. CASE c # a
  <2> DEFINE x == Cut(us[m], c - a)
  <2>1. Parse(text) = Append(s, x)
    BY <1>2, <1>5, ParseCut DEF s
  <2>2. m < k
    <3>1. m = k => c <= a
      BY <1>1, <1>2
    <3>2. a <= c
      BY <1>2
    <3> QED
      BY <1>1, <1>5, <3>1, <3>2
  <2>3. x \in Accounts
    <3>1. m \in 0 .. k - 1
      BY <1>1, <2>2
    <3>2. PICK y \in Fields, z \in Fields : us[m].username = y /\ us[m].password = z
      BY <1>1, <3>1, EntryIs
    <3>3. PICK n \in Nat : n = Len(y)
      BY FieldIsText, ConstantsAre
    <3>4. c - a \in Int /\ c - a - n - 1 \in Int
      BY <1>1
    <3>5. Shorter(y, c - a) \in Fields /\ Shorter(z, c - a - n - 1) \in Fields
      BY <3>4, ShorterIs
    <3> QED
      BY <3>2, <3>3, <3>5 DEF Cut, Accounts
  <2> HIDE DEF x
  <2>4. /\ Append(s, x) \in Seq(Accounts) /\ Len(Append(s, x)) = Len(s) + 1
        /\ \A i \in 1 .. Len(s) : Append(s, x)[i] = s[i]
        /\ Append(s, x)[Len(s) + 1] = x
    BY <1>3, <2>3, AppendProperties
  <2> DEFINE r == Append(s, x)
  <2> HIDE DEF r
  <2>5. r \in Seq(Accounts) /\ Len(r) = m + 1 /\ r[m + 1] = x /\ \A i \in 1 .. m : r[i] = s[i]
    BY <1>3, <2>4 DEF r
  <2>6. m + 1 \in m .. k
    BY <1>1, <2>2
  <2>7. Shape(r, us, k, m)
    BY <1>3, <2>5, <2>6 DEF Shape
  <2> QED
    BY <1>2, <2>1, <2>2, <2>5, <2>7 DEF r, x
<1> QED
  BY <1>4, <1>5

\* However far the text goes, the accounts whose lines it shows whole are read.
LEMMA ParseFront ==
  ASSUME NEW us, NEW k, NEW text, NEW c, Agrees(us, k, text, c), NEW n \in 0 .. k,
         Len(LineTexts(us)[n]) <= c
  PROVE  FirstOf(Parse(text), n) = FirstAccounts(us, n)
<1> DEFINE f == LineTexts(us)
<1>1. /\ Filled(us, k) /\ us \in Tables /\ k \in 0 .. MaxUsers /\ k \in Nat /\ MaxUsers \in Nat
      /\ c \in Nat /\ \A i \in 0 .. k : Len(f[i]) \in Nat
  BY LengthsAre
<1>2. PICK m \in 0 .. k : Len(f[m]) <= c /\ (m < k => c < Len(f[m + 1]))
  BY LastWhole
<1>3. n <= m
  <2> SUFFICES ASSUME ~ (n <= m)
               PROVE  FALSE
    OBVIOUS
  <2>1. m < k /\ m + 1 \in 0 .. k /\ m + 1 \in 0 .. n /\ n \in 0 .. MaxUsers
    BY <1>1
  <2>2. Len(f[m + 1]) <= Len(f[n])
    BY <1>1, <2>1, TextPrefix
  <2>3. PICK a \in Nat, b \in Nat : a = Len(f[m + 1]) /\ b = Len(f[n])
    BY <1>1, <2>1
  <2>4. c < a /\ a <= b /\ b <= c
    BY <1>2, <2>1, <2>2, <2>3
  <2> HIDE DEF f
  <2> QED
    BY <1>1, <2>4
<1>4. /\ FirstAccounts(us, m) \in Seq(Accounts) /\ Len(FirstAccounts(us, m)) = m
      /\ FirstAccounts(us, n) \in Seq(Accounts) /\ Len(FirstAccounts(us, n)) = n
      /\ \A i \in 1 .. n : FirstAccounts(us, n)[i] = FirstAccounts(us, m)[i]
  <2>1. m \in 0 .. MaxUsers /\ n \in 0 .. MaxUsers /\ \A i \in 1 .. n : i \in 1 .. m
    BY <1>1, <1>3
  <2>2. /\ FirstAccounts(us, m) \in Seq(Accounts) /\ Len(FirstAccounts(us, m)) = m
        /\ \A i \in 1 .. m : FirstAccounts(us, m)[i] = AccountOf(us[i - 1])
    BY <1>1, <2>1, FirstAccountsAre
  <2>3. /\ FirstAccounts(us, n) \in Seq(Accounts) /\ Len(FirstAccounts(us, n)) = n
        /\ \A i \in 1 .. n : FirstAccounts(us, n)[i] = AccountOf(us[i - 1])
    BY <1>1, <2>1, FirstAccountsAre
  <2> QED
    BY <2>1, <2>2, <2>3
<1>5. PICK r \in Seq(Accounts) :
        /\ r = Parse(text) /\ Len(r) \in Nat /\ Len(r) >= m
        /\ \A i \in 1 .. m : r[i] = FirstAccounts(us, m)[i]
  <2>1. Shape(Parse(text), us, k, m)
    BY <1>2, ParseShape
  <2>2. PICK r \in Seq(Accounts) : r = Parse(text) /\ Len(r) \in m .. k
                                   /\ \A i \in 1 .. m : r[i] = AccountOf(us[i - 1])
    BY <2>1 DEF Shape
  <2>3. m \in 0 .. MaxUsers
    BY <1>1
  <2>4. \A i \in 1 .. m : FirstAccounts(us, m)[i] = AccountOf(us[i - 1])
    BY <1>1, <2>3, FirstAccountsAre
  <2>5. Len(r) \in Nat /\ Len(r) >= m
    BY <1>1, <2>2
  <2> QED
    BY <2>2, <2>4, <2>5
<1>6. n \in 0 .. Len(r)
  BY <1>1, <1>3, <1>5
<1>7. /\ SubSeq(r, 1, n) \in Seq(Accounts) /\ Len(SubSeq(r, 1, n)) = n
      /\ \A i \in 1 .. n : SubSeq(r, 1, n)[i] = r[i]
  BY <1>6, FrontIs
<1>8. \A i \in 1 .. n : SubSeq(r, 1, n)[i] = FirstAccounts(us, n)[i]
  <2>1. \A i \in 1 .. n : i \in 1 .. m
    BY <1>1, <1>3
  <2> QED
    BY <1>4, <1>5, <1>7, <2>1
<1>9. SubSeq(r, 1, n) = FirstAccounts(us, n)
  BY <1>4, <1>7, <1>8, SeqEqual
<1> QED
  BY <1>5, <1>9 DEF FirstOf

-----------------------------------------------------------------------------
(* Tables that are loaded.                                                 *)

LEMMA LoadedIs ==
  ASSUME NEW r \in Seq(Accounts), Len(r) \in 0 .. MaxUsers
  PROVE  /\ Filled(Loaded(r), Len(r))
         /\ \A i \in 0 .. Len(r) - 1 : /\ i + 1 \in 1 .. Len(r)
                                       /\ AccountOf(Loaded(r)[i]) = r[i + 1]
                                       /\ Loaded(r)[i].username = r[i + 1].username
                                       /\ Loaded(r)[i].password = r[i + 1].password
<1>1. PICK n \in Nat : n = Len(r) /\ n \in 0 .. MaxUsers /\ MaxUsers \in Nat
  BY ConstantsAre
<1>2. ASSUME NEW i \in 0 .. n - 1
      PROVE  i \in Indices /\ i < n /\ i + 1 \in 1 .. n /\ r[i + 1] \in Accounts
  <2>1. i + 1 \in 1 .. n /\ i \in Indices /\ i < n
    BY <1>1 DEF Indices
  <2> QED
    BY <1>1, <2>1, ElementOfSeq
<1>3. <<>> \in Fields
  <2>1. <<>> \in Seq(Bytes) /\ Len(<<>>) = 0 /\ 0 <= FieldLen
    BY ConstantsAre
  <2> QED
    BY <2>1, TextIsField
<1>4. ASSUME NEW i \in Indices
      PROVE  /\ Loaded(r)[i] \in [active : BOOLEAN, username : Fields, password : Fields]
             /\ Loaded(r)[i].active <=> i < n
             /\ i < n => /\ AccountOf(Loaded(r)[i]) = r[i + 1]
                         /\ Loaded(r)[i].username = r[i + 1].username
                         /\ Loaded(r)[i].password = r[i + 1].password
  <2>1. Loaded(r)[i] = IF i < n THEN User(r[i + 1]) ELSE NoUser
    BY <1>1 DEF Loaded
  <2>2. CASE i < n
    <3>1. i \in 0 .. n - 1
      BY <1>1, <2>2 DEF Indices
    <3>2. r[i + 1] \in Accounts
      BY <1>2, <3>1
    <3> QED
      BY <2>1, <2>2, <3>2 DEF User, AccountOf, Accounts
  <2>3. CASE ~ (i < n)
    BY <1>3, <2>1, <2>3 DEF NoUser
  <2> QED
    BY <2>2, <2>3
<1>5. Loaded(r) \in Tables
  <2>1. Loaded(r) = [i \in Indices |-> Loaded(r)[i]]
    BY DEF Loaded
  <2> QED
    BY <1>4, <2>1 DEF Tables
<1> QED
  BY <1>1, <1>2, <1>4, <1>5 DEF Filled

LEMMA LoadedAccounts ==
  ASSUME NEW r \in Seq(Accounts), Len(r) \in 0 .. MaxUsers
  PROVE  FirstAccounts(Loaded(r), Len(r)) = r
<1>1. PICK n \in Nat : n = Len(r) /\ n \in 0 .. MaxUsers
  BY ConstantsAre
<1>2. /\ Filled(Loaded(r), n)
      /\ \A i \in 0 .. n - 1 : AccountOf(Loaded(r)[i]) = r[i + 1]
  BY <1>1, LoadedIs
<1> DEFINE v == Loaded(r)
           s == FirstAccounts(v, n)
<1>3. /\ s \in Seq(Accounts) /\ Len(s) = n /\ \A i \in 1 .. n : s[i] = AccountOf(v[i - 1])
  <2>1. v \in Tables
    BY <1>2 DEF Filled
  <2> HIDE DEF v
  <2> QED
    BY <1>1, <2>1, FirstAccountsAre
<1> HIDE DEF v, s
<1>4. ASSUME NEW i \in 1 .. n
      PROVE  s[i] = r[i]
  <2>1. i - 1 \in 0 .. n - 1 /\ i - 1 + 1 = i
    BY <1>1
  <2>2. AccountOf(v[i - 1]) = r[i - 1 + 1]
    BY <1>2, <2>1 DEF v
  <2> QED
    BY <1>3, <2>1, <2>2
<1>5. s = r
  BY <1>1, <1>3, <1>4, SeqEqual
<1> QED
  BY <1>1, <1>5 DEF v, s

\* Tables that agree on the first n accounts have the same first n lines.
LEMMA SameAccounts ==
  ASSUME NEW us, NEW k, Filled(us, k), NEW vs, NEW l, Filled(vs, l), NEW n \in Nat,
         n <= k, n <= l, \A i \in 0 .. n - 1 : AccountOf(us[i]) = AccountOf(vs[i])
  PROVE  LineTexts(us)[n] = LineTexts(vs)[n]
<1>1. /\ us \in Tables /\ vs \in Tables /\ k \in 0 .. MaxUsers /\ MaxUsers \in Nat
      /\ \A i \in Indices : us[i].active <=> i < k
      /\ \A i \in Indices : vs[i].active <=> i < l
      /\ l \in 0 .. MaxUsers
  BY ConstantsAre DEF Filled
<1>2. ASSUME NEW i \in Indices, i < n
      PROVE  Piece(us, i) = Piece(vs, i)
  <2>1. i \in 0 .. n - 1 /\ i < k /\ i < l
    BY <1>1, <1>2 DEF Indices
  <2>2. AccountOf(us[i]) = AccountOf(vs[i])
    BY <2>1
  <2>3. us[i].username = vs[i].username /\ us[i].password = vs[i].password
    BY <2>2 DEF AccountOf
  <2>4. Line(us[i]) = Line(vs[i])
    BY <2>3 DEF Line
  <2>5. us[i].active /\ vs[i].active
    BY <1>1, <2>1
  <2> QED
    BY <2>4, <2>5 DEF Piece
<1>3. n \in 0 .. MaxUsers
  BY <1>1
<1> QED
  BY <1>1, <1>2, <1>3, SameTexts

\* The first n accounts, loaded, are saved as the first n lines.
LEMMA LinesOfFirst ==
  ASSUME NEW us, NEW k, Filled(us, k), NEW n \in 0 .. k
  PROVE  Lines(Loaded(FirstAccounts(us, n))) = LineTexts(us)[n]
<1> DEFINE r == FirstAccounts(us, n)
           v == Loaded(r)
<1>1. us \in Tables /\ k \in 0 .. MaxUsers /\ k \in Nat /\ MaxUsers \in Nat
  BY ConstantsAre DEF Filled
<1>2. n \in 0 .. MaxUsers /\ n \in Nat /\ n <= k
  BY <1>1
<1>3. r \in Seq(Accounts) /\ Len(r) = n /\ \A i \in 1 .. n : r[i] = AccountOf(us[i - 1])
  BY <1>1, <1>2, FirstAccountsAre
<1> HIDE DEF r
<1>4. /\ Filled(v, n)
      /\ \A i \in 0 .. n - 1 : i + 1 \in 1 .. n /\ AccountOf(v[i]) = r[i + 1]
  BY <1>2, <1>3, LoadedIs
<1> HIDE DEF v
<1>5. ASSUME NEW i \in 0 .. n - 1
      PROVE  AccountOf(v[i]) = AccountOf(us[i])
  <2>1. PICK j \in 1 .. n : j = i + 1 /\ j - 1 = i
    BY <1>2
  <2>2. r[j] = AccountOf(us[j - 1])
    BY <1>3
  <2> QED
    BY <1>4, <2>1, <2>2
<1>6. LineTexts(v)[n] = LineTexts(us)[n]
  <2>1. n <= n
    BY <1>2
  <2> QED
    BY <1>2, <1>4, <1>5, <2>1, SameAccounts
<1>7. Lines(v) = LineTexts(v)[n]
  BY <1>4, LinesAre
<1> QED
  BY <1>6, <1>7 DEF r, v

LEMMA FirstOfAccounts ==
  ASSUME NEW us, NEW k, Filled(us, k), NEW n \in 0 .. k
  PROVE  FirstOf(FirstAccounts(us, k), n) = FirstAccounts(us, n)
<1>1. us \in Tables /\ k \in 0 .. MaxUsers /\ n \in 0 .. MaxUsers /\ k \in Nat /\ n \in Nat
  BY ConstantsAre DEF Filled
<1> DEFINE s == FirstAccounts(us, k)
           t == FirstAccounts(us, n)
<1>2. /\ s \in Seq(Accounts) /\ Len(s) = k /\ \A i \in 1 .. k : s[i] = AccountOf(us[i - 1])
  BY <1>1, FirstAccountsAre
<1>3. /\ t \in Seq(Accounts) /\ Len(t) = n /\ \A i \in 1 .. n : t[i] = AccountOf(us[i - 1])
  BY <1>1, FirstAccountsAre
<1> HIDE DEF s, t
<1>4. /\ SubSeq(s, 1, n) \in Seq(Accounts) /\ Len(SubSeq(s, 1, n)) = n
      /\ \A i \in 1 .. n : SubSeq(s, 1, n)[i] = s[i]
  BY <1>2, FrontIs
<1>5. \A i \in 1 .. n : i \in 1 .. k
  BY <1>1
<1>6. SubSeq(s, 1, n) = t
  BY <1>2, <1>3, <1>4, <1>5, SeqEqual
<1> QED
  BY <1>6 DEF s, t, FirstOf

Disks == [present : BOOLEAN, size : 0 .. SectorSize - 1,
          sector : [1 .. SectorSize -> Bytes \cup {Zero}]]

LEMMA StoredIs ==
  ASSUME NEW d \in Disks
  PROVE  Stored(d) \in Texts /\ Len(Stored(d)) = d.size
<1>1. d.size \in 0 .. SectorSize - 1 /\ d.sector \in [1 .. SectorSize -> Bytes \cup {Zero}]
  BY DEF Disks
<1>2. d.sector \in Seq(Bytes \cup {Zero})
  BY <1>1, ConstantsAre, SeqDef
<1>3. Len(d.sector) = SectorSize
  BY <1>1, <1>2, ConstantsAre, LenProperties
<1>4. d.size \in 0 .. Len(d.sector)
  BY <1>1, <1>3, ConstantsAre
<1> QED
  BY <1>2, <1>4, FrontIs DEF Stored, Texts

LEMMA ParseIs ==
  ASSUME NEW text \in Texts
  PROVE  Parse(text) \in FoundLists
<1>1. Len(text) \in 0 .. Len(text)
  BY DEF Texts
<1>2. Turns(text)[Len(text)] \in States(text)
  BY <1>1, TurnsAre
<1> QED
  BY <1>2, ParseTurns DEF States

LEMMA FoundAre ==
  ASSUME NEW r \in FoundLists
  PROVE  r \in Seq(Accounts) /\ Len(r) \in 0 .. MaxUsers /\ \A i \in 1 .. Len(r) : r[i] \in PlainAccounts
<1>1. r \in Seq(PlainAccounts) /\ Len(r) \in 0 .. MaxUsers
  BY DEF FoundLists
<1>2. PlainAccounts \subseteq Accounts
  BY DEF PlainAccounts
<1>3. \A i \in 1 .. Len(r) : r[i] \in PlainAccounts
  BY <1>1, ElementOfSeq
<1>4. PICK n \in Nat : n = Len(r)
  BY <1>1
<1>5. r \in [1 .. n -> Accounts]
  <2>1. r = [i \in 1 .. n |-> r[i]]
    BY <1>1, <1>4, LenProperties
  <2> QED
    BY <1>2, <1>3, <1>4, <2>1
<1>6. r \in Seq(Accounts)
  BY <1>5, SeqDef
<1> QED
  BY <1>1, <1>3, <1>6

LEMMA DefaultIsFound ==
  <<DefaultUser>> \in FoundLists
<1>1. DefaultUser \in PlainAccounts
  BY UsersAssumption DEF PlainAccounts, Plain, PlainName
<1>2. <<DefaultUser>> \in Seq(PlainAccounts) /\ Len(<<DefaultUser>>) = 1
  BY <1>1
<1> QED
  BY <1>2, ConstantsAre DEF FoundLists

\* A table that is loaded from the disk.
LEMMA FoundTable ==
  ASSUME NEW r \in FoundLists
  PROVE  Filled(Loaded(r), Len(r)) /\ \A i \in 0 .. Len(r) - 1 : Plain(Loaded(r)[i])
<1>1. r \in Seq(Accounts) /\ Len(r) \in 0 .. MaxUsers /\ \A i \in 1 .. Len(r) : r[i] \in PlainAccounts
  BY FoundAre
<1>2. /\ Filled(Loaded(r), Len(r))
      /\ \A i \in 0 .. Len(r) - 1 : /\ i + 1 \in 1 .. Len(r)
                                    /\ Loaded(r)[i].username = r[i + 1].username
                                    /\ Loaded(r)[i].password = r[i + 1].password
  BY <1>1, LoadedIs
<1>3. ASSUME NEW i \in 0 .. Len(r) - 1
      PROVE  Plain(Loaded(r)[i])
  <2>1. r[i + 1] \in PlainAccounts
    BY <1>1, <1>2
  <2> QED
    BY <1>2, <2>1 DEF PlainAccounts, Plain
<1> QED
  BY <1>2, <1>3

-----------------------------------------------------------------------------
(* The inductive invariant.                                                *)

Jobs == [stage : {"idle", "data", "table"}, kind : {"none", "add", "passwd", "edit"},
         text : Seq(Bytes), new : BOOLEAN, was : Texts]

TypeInv ==
  /\ phase \in {"off", "boot", "login", "session"}
  /\ \E k : Filled(users, k)
  /\ current_user \in Fields
  /\ db \in Disks
  /\ job \in Jobs /\ Len(job.text) < SectorSize

\* What a write in progress, or one that is none, says of the disk.
OnDisk ==
  /\ job.stage # "idle" /\ job.kind # "none"
  /\ job.new <=> ~ db.present
  /\ db.present => db.size = Len(job.was)
  /\ db.present /\ job.stage = "data" => Stored(db) = job.was
  /\ job.stage = "table" => db.sector = Padded(job.text)

\* What it says of the table.
InTable ==
  /\ job.kind \in {"add", "passwd"} => job.text = Text(users)
  /\ job.kind = "passwd" => /\ Named(users, current_user) # {}
                            /\ users[First(Named(users, current_user))].password \in Passwords

JobInv ==
  /\ phase \in {"off", "login"} => job = NoJob
  /\ job # NoJob => OnDisk /\ InTable

UsersInv == TypeInv /\ JobInv

LEMMA SizesAre == SectorSize \in Nat /\ DbLimit < SectorSize /\ 0 < SectorSize
<1>1. SectorSize \in Nat /\ DbLimit \in Nat /\ DbLimit = SectorSize - 2
  BY ConstantsAre
<1> QED
  BY <1>1

LEMMA NoJobIs ==
  NoJob \in Jobs /\ Len(NoJob.text) < SectorSize /\ NoJob.kind = "none"
<1>1. <<>> \in Seq(Bytes) /\ <<>> \in Texts /\ Len(<<>>) = 0
  BY DEF Texts
<1> QED
  BY <1>1, SizesAre DEF NoJob, Jobs

LEMMA NoTable ==
  Filled([i \in Indices |-> NoUser], 0)
<1>1. <<>> \in Fields
  <2>1. <<>> \in Seq(Bytes) /\ Len(<<>>) = 0 /\ 0 <= FieldLen
    BY ConstantsAre
  <2> QED
    BY <2>1, TextIsField
<1>2. 0 \in 0 .. MaxUsers /\ \A i \in Indices : ~ (i < 0)
  BY ConstantsAre DEF Indices
<1> QED
  BY <1>1, <1>2 DEF Filled, Tables, NoUser

LEMMA TextFits ==
  ASSUME NEW us, NEW k, Filled(us, k)
  PROVE  Text(us) \in Seq(Bytes) /\ Len(Text(us)) < SectorSize /\ Len(Text(us)) <= DbLimit
<1>1. us \in Tables /\ k \in 0 .. MaxUsers
  BY DEF Filled
<1>2. PICK n \in Nat, lim \in Nat, size \in Nat :
        n = Len(LineTexts(us)[k]) /\ lim = DbLimit /\ size = SectorSize /\ lim < size
  BY <1>1, TextIs, ConstantsAre, SizesAre
<1>3. Text(us) \in Seq(Bytes) /\ Len(Text(us)) = IF n > lim THEN lim ELSE n
  BY <1>2, TextOf
<1>4. (IF n > lim THEN lim ELSE n) <= lim
  OBVIOUS
<1>5. PICK m \in Nat : m = Len(Text(us)) /\ m <= lim
  BY <1>3, <1>4
<1> QED
  BY <1>2, <1>3, <1>5

LEMMA ActiveAre ==
  ASSUME NEW us, NEW k, Filled(us, k)
  PROVE  Active(us) = 0 .. k - 1 /\ k \in Nat /\ MaxUsers \in Nat
<1>1. /\ k \in 0 .. MaxUsers /\ MaxUsers \in Nat /\ k \in Nat
      /\ \A i \in Indices : us[i].active <=> i < k
  BY ConstantsAre DEF Filled
<1>2. \A i : i \in 0 .. k - 1 <=> i \in Indices /\ i < k
  BY <1>1 DEF Indices
<1>3. Active(us) = {i \in Indices : i < k}
  BY <1>1 DEF Active
<1> QED
  BY <1>1, <1>2, <1>3

\* A new account goes behind the others.
LEMMA FreeEntry ==
  ASSUME NEW us, NEW k, Filled(us, k), Active(us) # Indices
  PROVE  First(Indices \ Active(us)) = k /\ k \in Indices
<1>1. Active(us) = 0 .. k - 1 /\ k \in Nat /\ MaxUsers \in Nat /\ k <= MaxUsers
  <2>1. k \in 0 .. MaxUsers
    BY DEF Filled
  <2>2. Active(us) = 0 .. k - 1 /\ k \in Nat /\ MaxUsers \in Nat
    BY ActiveAre
  <2> QED
    BY <2>1, <2>2
<1>2. k \in Indices
  <2>1. k # MaxUsers
    BY <1>1 DEF Indices
  <2> QED
    BY <1>1, <2>1 DEF Indices
<1> DEFINE S == Indices \ Active(us)
<1>3. k \in S /\ S \in SUBSET Nat /\ \A j \in S : k <= j
  BY <1>1, <1>2 DEF Indices
<1> HIDE DEF S
<1>4. First(S) \in S /\ \A j \in S : First(S) <= j
  BY <1>3, LeastElement
<1>5. First(S) = k
  <2>1. PICK f \in Nat : f = First(S)
    BY <1>3, <1>4
  <2>2. f <= k /\ k <= f
    BY <1>3, <1>4, <2>1
  <2> QED
    BY <1>1, <2>1, <2>2
<1> QED
  BY <1>2, <1>5 DEF S

LEMMA AddedEntry ==
  ASSUME NEW us, NEW k, Filled(us, k), k \in Indices, NEW n \in Fields, NEW p \in Fields,
         NEW vs, vs = [us EXCEPT ![k] = [active |-> TRUE, username |-> n, password |-> p]]
  PROVE  Filled(vs, k + 1)
<1>1. /\ us \in Tables /\ k \in Nat /\ MaxUsers \in Nat
      /\ \A i \in Indices : us[i].active <=> i < k
  BY ConstantsAre DEF Filled
<1>2. k + 1 \in 0 .. MaxUsers
  BY <1>1 DEF Indices
<1>3. vs \in Tables
  BY <1>1 DEF Tables
<1>4. ASSUME NEW i \in Indices
      PROVE  vs[i].active <=> i < k + 1
  <2>1. CASE i = k
    <3>1. vs[i].active /\ i < k + 1
      BY <1>1, <2>1 DEF Tables
    <3> QED
      BY <3>1
  <2>2. CASE i # k
    <3>1. vs[i] = us[i]
      BY <1>1, <2>2 DEF Tables
    <3>2. i < k + 1 <=> i < k
      BY <1>1, <2>2 DEF Indices
    <3> QED
      BY <1>1, <3>1, <3>2
  <2> QED
    BY <2>1, <2>2
<1> QED
  BY <1>2, <1>3, <1>4 DEF Filled

\* Only the password of entry i differs.
Changed(us, vs, i) ==
  \A j \in Indices : /\ vs[j].active = us[j].active
                     /\ vs[j].username = us[j].username
                     /\ j # i => vs[j] = us[j]

WithPassword(us, i, p) == [us EXCEPT ![i].password = p]

LEMMA ChangedEntry ==
  ASSUME NEW us, NEW k, Filled(us, k), NEW i \in Indices, NEW p \in Fields,
         NEW vs, vs = WithPassword(us, i, p)
  PROVE  Filled(vs, k) /\ vs[i].password = p /\ Changed(us, vs, i)
<1>1. /\ us \in Tables /\ k \in 0 .. MaxUsers
      /\ \A j \in Indices : us[j].active <=> j < k
  BY DEF Filled
<1>2. vs \in Tables
  BY <1>1 DEF Tables, WithPassword
<1>3. \A j \in Indices : /\ vs[j].active = us[j].active
                         /\ vs[j].username = us[j].username
                         /\ j # i => vs[j] = us[j]
  BY <1>1 DEF Tables, WithPassword
<1>4. vs[i].password = p
  BY <1>1 DEF Tables, WithPassword
<1> QED
  BY <1>1, <1>2, <1>3, <1>4 DEF Filled, Changed

LEMMA NamedIs ==
  ASSUME NEW us, NEW n, Named(us, n) # {}
  PROVE  First(Named(us, n)) \in Named(us, n) /\ First(Named(us, n)) \in Indices
<1>1. Named(us, n) \in SUBSET Nat /\ Named(us, n) \subseteq Indices
  BY ConstantsAre DEF Named, Active, Indices
<1>2. First(Named(us, n)) \in Named(us, n)
  BY <1>1, LeastElement
<1> QED
  BY <1>1, <1>2

\* fs_write_file begins.
LEMMA SaveIs ==
  ASSUME db \in Disks, db' = db, NEW kind \in {"add", "passwd", "edit"},
         NEW text \in Seq(Bytes), Len(text) < SectorSize, Save(kind, text)
  PROVE  /\ job' \in Jobs /\ Len(job'.text) < SectorSize
         /\ job'.kind = kind /\ job'.text = text
         /\ OnDisk'
<1>1. /\ job' = [stage |-> "data", kind |-> kind, text |-> text,
                 new |-> ~ db.present, was |-> IF db.present THEN Stored(db) ELSE <<>>]
  BY DEF Save, FirstStage
<1>2. Stored(db) \in Texts /\ Len(Stored(db)) = db.size /\ <<>> \in Texts
  BY StoredIs DEF Texts
<1>3. Stored(db') = Stored(db)
  OBVIOUS
<1>4. job' \in Jobs
  BY <1>1, <1>2 DEF Jobs, Disks
<1>5. OnDisk'
  BY <1>1, <1>2, <1>3 DEF OnDisk
<1> QED
  BY <1>1, <1>4, <1>5

LEMMA BootInv ==
  ASSUME UsersInv, Boot
  PROVE  UsersInv'
<1> USE DEF UsersInv, TypeInv
<1>1. phase = "off" /\ job = NoJob
  BY DEF JobInv, Boot
<1>2. Reloaded(db) \in FoundLists
  <2>1. Stored(db) \in Texts
    BY StoredIs
  <2> QED
    BY <2>1, ParseIs, DefaultIsFound DEF Reloaded
<1>3. users' = Loaded(Reloaded(db)) /\ db' = db /\ current_user' = current_user
  BY DEF Boot
<1>4. PICK k : Filled(users', k)
  BY <1>2, <1>3, FoundTable
<1>5. CASE db.present
  <2>1. phase' = "login" /\ job' = NoJob
    BY <1>1, <1>5 DEF Boot
  <2> QED
    BY <1>3, <1>4, <2>1, NoJobIs DEF JobInv
<1>6. CASE ~ db.present
  <2>1. phase' = "boot" /\ Save("add", Text(users'))
    BY <1>6 DEF Boot
  <2>2. Text(users') \in Seq(Bytes) /\ Len(Text(users')) < SectorSize
    BY <1>4, TextFits
  <2>3. /\ job' \in Jobs /\ Len(job'.text) < SectorSize
        /\ job'.kind = "add" /\ job'.text = Text(users')
        /\ OnDisk'
    BY <1>3, <2>1, <2>2, SaveIs
  <2>4. InTable'
    BY <2>3 DEF InTable
  <2> QED
    BY <1>3, <1>4, <2>1, <2>3, <2>4 DEF JobInv
<1> QED
  BY <1>5, <1>6

LEMMA PasswdInv ==
  ASSUME UsersInv, NEW p \in Passwords, Passwd(p)
  PROVE  UsersInv'
<1> USE DEF UsersInv, TypeInv
<1> DEFINE i == First(Named(users, current_user))
<1>1. /\ Named(users, current_user) # {}
      /\ users' = [users EXCEPT ![i].password = p]
      /\ Save("passwd", Text(users'))
      /\ phase' = phase /\ current_user' = current_user /\ db' = db /\ phase = "session"
  BY DEF Passwd, Ready
<1>2. i \in Named(users, current_user) /\ i \in Indices
  BY <1>1, NamedIs
<1>3. p \in Fields
  BY UsersAssumption
<1>4. PICK k : Filled(users, k)
  OBVIOUS
<1> HIDE DEF i
<1>5. Filled(users', k) /\ users'[i].password = p /\ Changed(users, users', i)
  <2>1. users' = WithPassword(users, i, p)
    BY <1>1 DEF WithPassword
  <2> QED
    BY <1>2, <1>3, <1>4, <2>1, ChangedEntry
<1>6. Named(users', current_user) = Named(users, current_user)
  BY <1>5 DEF Named, Active, Changed
<1>7. Text(users') \in Seq(Bytes) /\ Len(Text(users')) < SectorSize
  BY <1>5, TextFits
<1>8. /\ job' \in Jobs /\ Len(job'.text) < SectorSize
      /\ job'.kind = "passwd" /\ job'.text = Text(users')
      /\ OnDisk'
  BY <1>1, <1>7, SaveIs
<1>9. InTable'
  BY <1>1, <1>5, <1>6, <1>8 DEF InTable, i
<1> QED
  BY <1>1, <1>5, <1>8, <1>9 DEF JobInv

LEMMA UserAddInv ==
  ASSUME UsersInv, NEW n \in Usernames, NEW p \in Passwords, UserAdd(n, p)
  PROVE  UsersInv'
<1> USE DEF UsersInv, TypeInv
<1> DEFINE i == First(Indices \ Active(users))
<1>1. /\ Active(users) # Indices
      /\ users' = [users EXCEPT ![i] = [active |-> TRUE, username |-> n, password |-> p]]
      /\ Save("add", Text(users'))
      /\ phase' = phase /\ current_user' = current_user /\ db' = db /\ phase = "session"
  BY DEF UserAdd, Ready
<1>2. PICK k : Filled(users, k)
  OBVIOUS
<1>3. n \in Fields /\ p \in Fields
  BY UsersAssumption
<1>4. i = k /\ k \in Indices
  BY <1>1, <1>2, FreeEntry
<1> HIDE DEF i
<1>5. Filled(users', k + 1)
  BY <1>1, <1>2, <1>3, <1>4, AddedEntry
<1>6. Text(users') \in Seq(Bytes) /\ Len(Text(users')) < SectorSize
  BY <1>5, TextFits
<1>7. /\ job' \in Jobs /\ Len(job'.text) < SectorSize
      /\ job'.kind = "add" /\ job'.text = Text(users')
      /\ OnDisk'
  BY <1>1, <1>6, SaveIs
<1>8. InTable'
  BY <1>7 DEF InTable
<1> QED
  BY <1>1, <1>5, <1>7, <1>8 DEF JobInv

LEMMA EditInv ==
  ASSUME UsersInv, NEW text \in EditedTexts, Edit(text)
  PROVE  UsersInv'
<1> USE DEF UsersInv, TypeInv
<1>1. /\ Save("edit", text) /\ phase = "session"
      /\ phase' = phase /\ users' = users /\ current_user' = current_user /\ db' = db
  BY DEF Edit, Ready
<1>2. text \in Seq(Bytes) /\ Len(text) < SectorSize
  BY UsersAssumption
<1>3. /\ job' \in Jobs /\ Len(job'.text) < SectorSize /\ job'.kind = "edit" /\ OnDisk'
  BY <1>1, <1>2, SaveIs
<1>4. InTable'
  BY <1>3 DEF InTable
<1> QED
  BY <1>1, <1>3, <1>4 DEF JobInv

LEMMA WriteSectorInv ==
  ASSUME UsersInv, WriteSector
  PROVE  UsersInv'
<1> USE DEF UsersInv, TypeInv
<1>1. /\ job.stage = "data" /\ users' = users /\ current_user' = current_user
      /\ db' = [db EXCEPT !.sector = Padded(job.text)]
      /\ job' = [job EXCEPT !.stage = "table"] /\ phase' = phase
  BY DEF WriteSector, FirstStage
<1>2. job.text \in Seq(Bytes) /\ job # NoJob
  BY <1>1 DEF Jobs, NoJob
<1>3. Padded(job.text) \in [1 .. SectorSize -> Bytes \cup {Zero}]
  BY <1>2, PaddedIs
<1>4. /\ db' \in Disks /\ db'.present = db.present /\ db'.size = db.size
      /\ db'.sector = Padded(job.text)
  BY <1>1, <1>3 DEF Disks
<1>5. /\ job' \in Jobs /\ job'.stage = "table" /\ job'.kind = job.kind /\ job'.text = job.text
      /\ job'.new = job.new /\ job'.was = job.was
  BY <1>1 DEF Jobs
<1>6. OnDisk /\ InTable
  BY <1>2 DEF JobInv
<1>7. OnDisk'
  BY <1>4, <1>5, <1>6 DEF OnDisk
<1>8. InTable'
  BY <1>1, <1>5, <1>6 DEF InTable
<1>9. phase \notin {"off", "login"}
  BY <1>2 DEF JobInv
<1> QED
  BY <1>1, <1>4, <1>5, <1>7, <1>8, <1>9 DEF JobInv

LEMMA WriteTableInv ==
  ASSUME UsersInv, WriteTable
  PROVE  UsersInv'
<1> USE DEF UsersInv, TypeInv
<1>1. /\ job.stage = "table" /\ users' = users /\ current_user' = current_user
      /\ db' = [db EXCEPT !.present = TRUE, !.size = Len(job.text)]
      /\ job' = NoJob /\ phase' \in {phase, "login"}
  BY DEF WriteTable, FirstStage, EndJob
<1>2. Len(job.text) \in 0 .. SectorSize - 1
  <2>1. PICK n \in Nat : n = Len(job.text)
    BY DEF Jobs
  <2> QED
    BY <2>1, SizesAre
<1>3. db' \in Disks
  BY <1>1, <1>2 DEF Disks
<1> QED
  BY <1>1, <1>3, NoJobIs DEF JobInv

LEMMA NoRoomInv ==
  ASSUME UsersInv, NoRoom
  PROVE  UsersInv'
  BY NoJobIs DEF UsersInv, TypeInv, JobInv, NoRoom, EndJob

LEMMA PowerOffInv ==
  ASSUME UsersInv, PowerOff
  PROVE  UsersInv'
<1>1. Filled(users', 0)
  BY NoTable DEF PowerOff
<1>2. current_user' \in Fields
  <2>1. <<>> \in Seq(Bytes) /\ Len(<<>>) = 0 /\ 0 <= FieldLen
    BY ConstantsAre
  <2> QED
    BY <2>1, TextIsField DEF PowerOff
<1> QED
  BY <1>1, <1>2, NoJobIs DEF UsersInv, TypeInv, JobInv, PowerOff

LEMMA LoginInv ==
  ASSUME UsersInv, NEW i \in Active(users), Login(users[i].username, users[i].password)
  PROVE  UsersInv'
<1>1. PICK k : Filled(users, k)
  BY DEF UsersInv, TypeInv
<1>2. i \in Indices /\ users \in Tables
  BY <1>1 DEF Active, Filled
<1>3. users[i].username \in Fields
  BY <1>2 DEF Tables
<1> QED
  BY <1>3 DEF UsersInv, TypeInv, JobInv, Login

LEMMA LogoutInv ==
  ASSUME UsersInv, Logout
  PROVE  UsersInv'
  BY DEF UsersInv, TypeInv, JobInv, Logout, Ready

LEMMA RemoveInv ==
  ASSUME UsersInv, Remove
  PROVE  UsersInv'
<1>1. db' \in Disks
  BY DEF UsersInv, TypeInv, Remove, Disks
<1>2. job' = NoJob /\ phase' = phase /\ users' = users /\ current_user' = current_user
  BY DEF Remove, Ready
<1> QED
  BY <1>1, <1>2, NoJobIs DEF UsersInv, TypeInv, JobInv

LEMMA InitInv ==
  Init => UsersInv
<1> SUFFICES ASSUME Init
             PROVE  UsersInv
  OBVIOUS
<1>1. Padded(<<>>) \in [1 .. SectorSize -> Bytes \cup {Zero}]
  <2>1. <<>> \in Seq(Bytes)
    OBVIOUS
  <2> QED
    BY <2>1, PaddedIs
<1>2. 0 \in 0 .. SectorSize - 1
  BY SizesAre
<1>3. db \in Disks
  BY <1>1, <1>2 DEF Init, Disks
<1>4. Filled(users, 0)
  BY NoTable DEF Init
<1>5. current_user \in Fields
  <2>1. <<>> \in Seq(Bytes) /\ Len(<<>>) = 0 /\ 0 <= FieldLen
    BY ConstantsAre
  <2> QED
    BY <2>1, TextIsField DEF Init
<1> QED
  BY <1>3, <1>4, <1>5, NoJobIs DEF Init, UsersInv, TypeInv, JobInv

LEMMA NextInv ==
  UsersInv /\ [Next]_vars => UsersInv'
<1> SUFFICES ASSUME UsersInv, [Next]_vars
             PROVE  UsersInv'
  OBVIOUS
<1>1. CASE Boot
  BY <1>1, BootInv
<1>2. CASE \E i \in Active(users) : Login(users[i].username, users[i].password)
  BY <1>2, LoginInv
<1>3. CASE \E p \in Passwords : Passwd(p)
  BY <1>3, PasswdInv
<1>4. CASE \E n \in Usernames, p \in Passwords : UserAdd(n, p)
  BY <1>4, UserAddInv
<1>5. CASE \E text \in EditedTexts : Edit(text)
  BY <1>5, EditInv
<1>6. CASE Remove
  BY <1>6, RemoveInv
<1>7. CASE Logout
  BY <1>7, LogoutInv
<1>8. CASE WriteSector
  BY <1>8, WriteSectorInv
<1>9. CASE WriteTable
  BY <1>9, WriteTableInv
<1>10. CASE NoRoom
  BY <1>10, NoRoomInv
<1>11. CASE PowerOff
  BY <1>11, PowerOffInv
<1>12. CASE UNCHANGED vars
  BY <1>12 DEF vars, UsersInv, TypeInv, JobInv, OnDisk, InTable
<1> QED
  BY <1>1, <1>2, <1>3, <1>4, <1>5, <1>6, <1>7, <1>8, <1>9, <1>10, <1>11, <1>12 DEF Next, Command

\* What every state satisfies: the accounts fill the table from its start, and a
\* write in progress says what is on the disk.
THEOREM Invariance == Spec => []UsersInv
<1> QED
  BY InitInv, NextInv, PTL DEF Spec

\* The active accounts fill the table from its start, whatever was typed into
\* users.db and however often it is saved, torn and loaded: add_user, which takes the
\* first free entry, leaves no gap, and neither does load_users_from_disk.
AccountsFromFront == \E k \in 0 .. MaxUsers : \A i \in Indices : users[i].active <=> i < k
THEOREM NoGapInTable == Spec => []AccountsFromFront
<1>1. UsersInv => AccountsFromFront
  BY DEF UsersInv, TypeInv, Filled, AccountsFromFront
<1> QED
  BY <1>1, Invariance, PTL

\* The variables keep their types: in particular a text that is saved, and the size
\* of users.db, always fit the sector, wherever the text of a long table is cut.
THEOREM TypesAreCorrect == Spec => []TypeOK
<1>1. ASSUME UsersInv
      PROVE  TypeOK
  <2>1. PICK k : Filled(users, k)
    BY <1>1 DEF UsersInv, TypeInv
  <2>2. users \in [Indices -> [active : BOOLEAN, username : Fields, password : Fields]]
    BY <2>1 DEF Filled, Tables
  <2>3. 0 .. SectorSize - 1 \subseteq 0 .. SectorSize
    BY SizesAre
  <2>4. db.present \in BOOLEAN /\ db.size \in 0 .. SectorSize
        /\ db.sector \in [1 .. SectorSize -> Bytes \cup {Zero}]
    BY <1>1, <2>3 DEF UsersInv, TypeInv, Disks
  <2> QED
    BY <1>1, <2>2, <2>4 DEF UsersInv, TypeInv, TypeOK, Jobs
<1> QED
  BY <1>1, Invariance, PTL

-----------------------------------------------------------------------------
(* What a reload gives, where no name holds the byte that ends a name.     *)

PlainNames == \A n \in Usernames : Without(Colon, n)
PlainInv   == \A i \in Active(users) : Plain(users[i])

LEMMA PlainNext ==
  ASSUME PlainNames, UsersInv, PlainInv, [Next]_vars
  PROVE  PlainInv'
<1>1. PICK k : Filled(users, k)
  BY DEF UsersInv, TypeInv
<1>2. CASE Boot
  <2>1. Reloaded(db) \in FoundLists
    <3>1. Stored(db) \in Texts
      BY StoredIs DEF UsersInv, TypeInv
    <3> QED
      BY <3>1, ParseIs, DefaultIsFound DEF Reloaded
  <2>2. PICK r \in FoundLists : users' = Loaded(r)
    BY <1>2, <2>1 DEF Boot
  <2>3. Filled(users', Len(r)) /\ \A i \in 0 .. Len(r) - 1 : Plain(users'[i])
    BY <2>2, FoundTable
  <2>4. Active(users') = 0 .. Len(r) - 1
    BY <2>3, ActiveAre
  <2> QED
    BY <2>3, <2>4 DEF PlainInv
<1>3. ASSUME NEW p \in Passwords, Passwd(p)
      PROVE  PlainInv'
  <2> DEFINE i == First(Named(users, current_user))
  <2>1. users' = WithPassword(users, i, p) /\ Named(users, current_user) # {}
    BY <1>3 DEF Passwd, WithPassword
  <2>2. i \in Named(users, current_user) /\ i \in Indices
    BY <2>1, NamedIs
  <2> HIDE DEF i
  <2>3. p \in Fields /\ Without(Newline, p)
    BY UsersAssumption
  <2>4. users'[i].password = p /\ Changed(users, users', i)
    BY <1>1, <2>1, <2>2, <2>3, ChangedEntry
  <2>5. ASSUME NEW j \in Active(users')
        PROVE  Plain(users'[j])
    <3>1. j \in Indices /\ users'[j].active
      BY DEF Active
    <3>2. j \in Active(users) /\ users'[j].username = users[j].username
      BY <2>4, <3>1 DEF Changed, Active
    <3>3. Plain(users[j])
      BY <3>2 DEF PlainInv
    <3>4. Without(Newline, users'[j].password)
      <4>1. CASE j = i
        BY <2>3, <2>4, <4>1
      <4>2. CASE j # i
        <5>1. users'[j] = users[j]
          BY <2>4, <3>1, <4>2 DEF Changed
        <5> QED
          BY <3>3, <5>1 DEF Plain
      <4> QED
        BY <4>1, <4>2
    <3> QED
      BY <3>2, <3>3, <3>4 DEF Plain
  <2> QED
    BY <2>5 DEF PlainInv
<1>4. ASSUME NEW n \in Usernames, NEW p \in Passwords, UserAdd(n, p)
      PROVE  PlainInv'
  <2>1. Active(users) # Indices
    BY <1>4 DEF UserAdd
  <2>2. First(Indices \ Active(users)) = k /\ k \in Indices
    BY <1>1, <2>1, FreeEntry
  <2>3. users' = [users EXCEPT ![k] = [active |-> TRUE, username |-> n, password |-> p]]
    BY <1>4, <2>2 DEF UserAdd
  <2>4. users \in Tables
    BY <1>1 DEF Filled
  <2>5. n # <<>> /\ Without(Colon, n) /\ Without(Newline, p)
    BY UsersAssumption DEF PlainNames
  <2>6. ASSUME NEW j \in Active(users')
        PROVE  Plain(users'[j])
    <3>1. j \in Indices /\ users'[j].active
      BY DEF Active
    <3>2. CASE j = k
      <4>1. users'[j] = [active |-> TRUE, username |-> n, password |-> p]
        BY <2>3, <2>4, <3>1, <3>2 DEF Tables
      <4> QED
        BY <2>5, <4>1 DEF Plain, PlainName
    <3>3. CASE j # k
      <4>1. users'[j] = users[j]
        BY <2>3, <2>4, <3>1, <3>3 DEF Tables
      <4> QED
        BY <3>1, <4>1 DEF PlainInv, Active
    <3> QED
      BY <3>2, <3>3
  <2> QED
    BY <2>6 DEF PlainInv
<1>5. CASE PowerOff
  <2>1. Active(users') = {}
    BY <1>5 DEF PowerOff, Active, NoUser
  <2> QED
    BY <2>1 DEF PlainInv
<1>6. CASE users' = users
  BY <1>6 DEF PlainInv
<1> QED
  BY <1>2, <1>3, <1>4, <1>5, <1>6
     DEF Next, Command, vars, Edit, Remove, Logout, Login, WriteSector, WriteTable, NoRoom

LEMMA PlainInvariance ==
  ASSUME PlainNames
  PROVE  Spec => [](UsersInv /\ PlainInv)
<1>1. Init => PlainInv
  BY DEF Init, PlainInv, Active, NoUser
<1>2. UsersInv /\ PlainInv /\ [Next]_vars => PlainInv'
  BY PlainNext
<1> QED
  BY <1>1, <1>2, InitInv, NextInv, PTL DEF Spec

\* The table in a state: k accounts, which a reload can read.
LEMMA TableIs ==
  ASSUME UsersInv, PlainInv
  PROVE  \E k : /\ Filled(users, k) /\ \A i \in 0 .. k - 1 : Plain(users[i])
                /\ Registered(users) = FirstAccounts(users, k)
<1>1. PICK k : Filled(users, k)
  BY DEF UsersInv, TypeInv
<1>2. Active(users) = 0 .. k - 1
  BY <1>1, ActiveAre
<1>3. \A i \in 0 .. k - 1 : Plain(users[i])
  BY <1>2 DEF PlainInv
<1> QED
  BY <1>1, <1>3, RegisteredIs

\* A text that is stored whole.
LEMMA SavedText ==
  ASSUME NEW us, NEW k, Filled(us, k), \A i \in 0 .. k - 1 : Plain(us[i]),
         NEW n \in 0 .. k, Len(LineTexts(us)[n]) <= DbLimit,
         NEW text, text = SubSeq(Padded(Text(us)), 1, Len(Text(us)))
  PROVE  FirstOf(Parse(text), n) = FirstAccounts(us, n)
<1> DEFINE f == LineTexts(us)
           z == Len(Text(us))
<1>1. us \in Tables /\ k \in 0 .. MaxUsers /\ k \in Nat /\ MaxUsers \in Nat
  BY ConstantsAre DEF Filled
<1>2. PICK a \in Nat, b \in Nat, lim \in Nat : a = Len(f[n]) /\ b = Len(f[k]) /\ lim = DbLimit
  <2>1. n \in 0 .. MaxUsers /\ k \in 0 .. MaxUsers
    BY <1>1
  <2>2. Len(f[n]) \in Nat /\ Len(f[k]) \in Nat
    BY <1>1, <2>1, TextIs
  <2> QED
    BY <2>2, ConstantsAre
<1>3. a <= b /\ a <= lim
  <2>1. Len(f[n]) <= Len(f[k])
    BY <1>1, TextPrefix
  <2> QED
    BY <1>2, <2>1
<1>4. z = IF b > lim THEN lim ELSE b
  BY <1>2, TextOf
<1>5. z \in 0 .. SectorSize
  <2>1. z < SectorSize
    BY TextFits
  <2> HIDE DEF z
  <2>2. z \in Nat
    BY <1>4
  <2> QED
    BY <2>1, <2>2, SizesAre
<1>6. Kept(us, k, z) = z
  <2> HIDE DEF z
  <2> QED
    BY <1>2, <1>4 DEF Kept
<1>7. Agrees(us, k, text, z)
  BY <1>5, <1>6, AgreesStored
<1>8. Len(f[n]) <= z
  <2> HIDE DEF z
  <2> QED
    BY <1>2, <1>3, <1>4
<1> QED
  BY <1>7, <1>8, ParseFront

\* What passwd and useradd have saved is what the next boot loads, every account
\* whose line fits in the text, in the same order and with the same password.
THEOREM SavedAccountsAreLoaded ==
  ASSUME PlainNames
  PROVE  Spec => SavedIsLoaded
<1>1. ASSUME UsersInv, PlainInv, [Next]_vars,
             job.kind \in {"add", "passwd"}, job' = NoJob, db'.present, phase' # "off",
             NEW n \in 0 .. Len(Registered(users)),
             Len(Lines(Loaded(FirstOf(Registered(users), n)))) <= DbLimit
      PROVE  FirstOf(Reloaded(db'), n) = FirstOf(Registered(users), n)
  <2>1. PICK k : /\ Filled(users, k) /\ \A i \in 0 .. k - 1 : Plain(users[i])
                 /\ Registered(users) = FirstAccounts(users, k)
    BY <1>1, TableIs
  <2>2. n \in 0 .. k
    <3>1. users \in Tables /\ k \in 0 .. MaxUsers
      BY <2>1 DEF Filled
    <3>2. Len(FirstAccounts(users, k)) = k
      BY <3>1, FirstAccountsAre
    <3> QED
      BY <1>1, <2>1, <3>2
  <2>3. FirstOf(Registered(users), n) = FirstAccounts(users, n)
    BY <2>1, <2>2, FirstOfAccounts
  <2>4. Len(LineTexts(users)[n]) <= DbLimit
    BY <1>1, <2>1, <2>2, <2>3, LinesOfFirst
  <2>5. job # NoJob /\ job' # job /\ OnDisk /\ InTable /\ phase \notin {"off", "login"}
    BY <1>1 DEF NoJob, UsersInv, JobInv
  <2>6. WriteTable
    <3>1. ~ NoRoom
      BY <1>1 DEF NoRoom
    <3>2. ~ WriteSector
      BY <1>1, <2>5 DEF WriteSector, FirstStage, NoJob
    <3>3. ~ PowerOff
      BY <1>1 DEF PowerOff
    <3>4. ~ Boot
      BY <2>5 DEF Boot
    <3>5. ~ (\E i \in Active(users) : Login(users[i].username, users[i].password))
      BY <2>5 DEF Login
    <3>6. ~ Command
      BY <2>5 DEF Command, Passwd, UserAdd, Edit, Remove, Logout, Ready
    <3>7. ~ (UNCHANGED vars)
      BY <2>5 DEF vars
    <3> QED
      BY <1>1, <3>1, <3>2, <3>3, <3>4, <3>5, <3>6, <3>7 DEF Next
  <2>7. /\ job.stage = "table" /\ db' = [db EXCEPT !.present = TRUE, !.size = Len(job.text)]
        /\ db.sector = Padded(job.text) /\ job.text = Text(users)
    BY <1>1, <2>5, <2>6 DEF WriteTable, OnDisk, InTable
  <2>8. db'.present /\ db'.sector = Padded(Text(users)) /\ db'.size = Len(Text(users))
    BY <1>1, <2>7 DEF UsersInv, TypeInv, Disks
  <2>9. Stored(db') = SubSeq(Padded(Text(users)), 1, Len(Text(users)))
    BY <2>8 DEF Stored
  <2>10. Reloaded(db') = Parse(Stored(db'))
    BY <2>8 DEF Reloaded
  <2>11. FirstOf(Parse(Stored(db')), n) = FirstAccounts(users, n)
    BY <2>1, <2>2, <2>4, <2>9, SavedText
  <2> QED
    BY <2>3, <2>10, <2>11
<1>2. UsersInv /\ PlainInv /\ [Next]_vars =>
        [(job.kind \in {"add", "passwd"} /\ job' = NoJob /\ db'.present /\ phase' # "off")
         => \A n \in 0 .. Len(Registered(users)) :
              Len(Lines(Loaded(FirstOf(Registered(users), n)))) <= DbLimit
              => FirstOf(Reloaded(db'), n) = FirstOf(Registered(users), n)]_vars
  BY <1>1
<1> QED
  BY <1>2, PlainInvariance, PTL DEF Spec, SavedIsLoaded

-----------------------------------------------------------------------------
(* Loss of power in the middle of useradd.                                 *)

\* The lines of the first accounts, as a text of their own.
LEMMA FrontAgrees ==
  ASSUME NEW us, NEW k, Filled(us, k), \A i \in 0 .. k - 1 : Plain(us[i]), NEW b \in 0 .. k
  PROVE  Parse(LineTexts(us)[b]) = FirstAccounts(us, b)
<1> DEFINE f == LineTexts(us)
<1>1. us \in Tables /\ k \in 0 .. MaxUsers /\ b \in 0 .. MaxUsers
  BY ConstantsAre DEF Filled
<1>2. PICK t \in Seq(Bytes), c \in Nat : t = f[b] /\ c = Len(t)
  BY <1>1, TextIs
<1>3. c <= Len(f[k]) /\ \A j \in 1 .. c : f[k][j] = t[j]
  <2>1. Len(f[b]) <= Len(f[k]) /\ \A j \in 1 .. Len(f[b]) : f[k][j] = f[b][j]
    BY <1>1, TextPrefix
  <2> HIDE DEF f
  <2> QED
    BY <1>2, <2>1
<1>4. t \in Texts /\ Over(t, c + 1)
  <2>1. c + 1 > c
    OBVIOUS
  <2> QED
    BY <1>2, <2>1, BytesInTexts DEF Over
<1>5. c \in 0 .. Len(f[k]) /\ c <= Len(t)
  <2>1. PICK z \in Nat : z = Len(f[k])
    BY <1>1, TextIs
  <2> HIDE DEF f
  <2> QED
    BY <1>2, <1>3, <2>1
<1>6. Agrees(us, k, t, c)
  BY <1>3, <1>4, <1>5 DEF Agrees
<1> QED
  BY <1>2, <1>6, ParseWhole

\* The new text under the old size: the old accounts, at worst without the last newline.
LEMMA OldSize ==
  ASSUME NEW us, NEW k, Filled(us, k), \A i \in 0 .. k - 1 : Plain(us[i]), NEW b \in 0 .. k,
         NEW z \in 0 .. SectorSize - 1, z = Len(LineTexts(us)[b])
  PROVE  Parse(SubSeq(Padded(Text(us)), 1, z)) = FirstAccounts(us, b)
<1> DEFINE f == LineTexts(us)
           c == Kept(us, k, z)
<1>1. us \in Tables /\ k \in 0 .. MaxUsers /\ b \in 0 .. MaxUsers
  BY ConstantsAre DEF Filled
<1>2. PICK n \in Nat, lim \in Nat : n = Len(f[k]) /\ lim = DbLimit /\ z <= lim + 1 /\ z \in 0 .. SectorSize
  <2>1. Len(f[k]) \in Nat
    BY <1>1, TextIs
  <2>2. SectorSize \in Nat /\ DbLimit \in Nat /\ DbLimit = SectorSize - 2
    BY ConstantsAre
  <2>3. z <= DbLimit + 1 /\ z \in 0 .. SectorSize
    BY <2>2
  <2> QED
    BY <2>1, <2>2, <2>3
<1>3. z <= n
  <2>1. Len(f[b]) <= Len(f[k])
    BY <1>1, TextPrefix
  <2> QED
    BY <1>2, <2>1
<1>4. z # 0 => b # 0
  <2>1. f[0] = <<>>
    BY <1>1, LineTextsAre
  <2> QED
    BY <2>1
<1>5. Agrees(us, k, SubSeq(Padded(Text(us)), 1, z), c)
  BY <1>2, AgreesStored
<1>6. c = IF (IF n > lim THEN lim ELSE n) < z THEN (IF n > lim THEN lim ELSE n) ELSE z
  BY <1>2 DEF Kept
<1> HIDE DEF c
<1>7. c = z \/ (z # 0 /\ c = z - 1)
  BY <1>2, <1>3, <1>6
<1> QED
  BY <1>4, <1>5, <1>7, ParseWhole

\* A loss of power in the middle of useradd leaves the accounts as they were, or
\* with the new one, and never half of it.
THEOREM UserAddIsAtomic ==
  ASSUME PlainNames
  PROVE  Spec => []AddIsAtomic
<1> DEFINE after  == Registered(users)
           before == FirstOf(after, Len(after) - 1)
<1>1. ASSUME UsersInv, PlainInv, job.kind = "add", job.new \/ WasSaved(before)
      PROVE  Reloaded(db) \in {IF job.new THEN <<DefaultUser>> ELSE before, after}
  <2>1. PICK k : /\ Filled(users, k) /\ \A i \in 0 .. k - 1 : Plain(users[i])
                 /\ Registered(users) = FirstAccounts(users, k)
    BY <1>1, TableIs
  <2>2. OnDisk /\ InTable
    BY <1>1 DEF NoJob, UsersInv, JobInv
  <2>3. CASE job.new
    BY <2>2, <2>3 DEF OnDisk, Reloaded
  <2>4. CASE ~ job.new
    <3>1. WasSaved(before)
      BY <1>1, <2>4
    <3>2. PICK b \in 0 .. k : before = FirstAccounts(users, b)
      <4>1. users \in Tables /\ k \in 0 .. MaxUsers /\ k \in Nat
        BY <2>1, ConstantsAre DEF Filled
      <4>2. FirstAccounts(users, k) \in Seq(Accounts) /\ Len(FirstAccounts(users, k)) = k
        BY <4>1, FirstAccountsAre
      <4>3. CASE k = 0
        <5>1. before = <<>>
          <6>1. 0 - 1 < 1 /\ 0 - 1 \in Int /\ 1 \in Int
            OBVIOUS
          <6>2. SubSeq(after, 1, 0 - 1) = <<>>
            BY <6>1, SubSeqEmpty
          <6> QED
            BY <2>1, <4>2, <4>3, <6>2 DEF FirstOf
        <5>2. FirstAccounts(users, 0) = <<>>
          BY <4>2, <4>3, EmptySeq
        <5>3. 0 \in 0 .. k
          BY <4>1
        <5> QED
          BY <5>1, <5>2, <5>3
      <4>4. CASE k # 0
        <5>1. k - 1 \in 0 .. k
          BY <4>1, <4>4
        <5>2. before = FirstOf(FirstAccounts(users, k), k - 1)
          BY <2>1, <4>2
        <5> QED
          BY <2>1, <5>1, <5>2, FirstOfAccounts
      <4> QED
        BY <4>3, <4>4
    <3> HIDE DEF before
    <3>3. job.was = LineTexts(users)[b] /\ db.present
      BY <2>1, <2>2, <2>4, <3>1, <3>2, LinesOfFirst DEF WasSaved, OnDisk
    <3>4. Reloaded(db) = Parse(Stored(db))
      BY <3>3 DEF Reloaded
    <3>5. CASE job.stage = "data"
      <4>1. Stored(db) = LineTexts(users)[b]
        BY <2>2, <3>3, <3>5 DEF OnDisk
      <4> QED
        BY <2>1, <2>4, <3>2, <3>4, <4>1, FrontAgrees
    <3>6. CASE job.stage = "table"
      <4>1. /\ db.size = Len(LineTexts(users)[b]) /\ db.size \in 0 .. SectorSize - 1
            /\ db.sector = Padded(Text(users))
        BY <1>1, <2>2, <3>3, <3>6 DEF OnDisk, InTable, UsersInv, TypeInv, Disks
      <4>2. Stored(db) = SubSeq(Padded(Text(users)), 1, db.size)
        BY <4>1 DEF Stored
      <4>3. Parse(Stored(db)) = FirstAccounts(users, b)
        BY <2>1, <4>1, <4>2, OldSize
      <4> QED
        BY <2>4, <3>2, <3>4, <4>3
    <3>7. job.stage \in {"data", "table"}
      BY <1>1, <2>2 DEF OnDisk, UsersInv, TypeInv, Jobs
    <3> QED
      BY <3>5, <3>6, <3>7
  <2> QED
    BY <2>3, <2>4
<1>2. UsersInv /\ PlainInv => AddIsAtomic
  BY <1>1 DEF AddIsAtomic
<1> QED
  BY <1>2, PlainInvariance, PTL

-----------------------------------------------------------------------------
(* Loss of power in the middle of passwd.                                  *)

\* The old size and the new text, cut, reach behind the colon of the line that
\* changes: a is the length of the lines before it, n, w, u those of its name
\* and of its new and old password.
LEMMA CutReaches ==
  ASSUME NEW a \in Nat, NEW n \in Nat, NEW w \in Nat, NEW u \in Nat, NEW all \in Nat,
         NEW z \in Nat, NEW lim \in Nat, w >= 1, a + (n + w + 2) <= all,
         a + (n + u + 2) <= z, z <= lim + 1,
         NEW c, c = IF (IF all > lim THEN lim ELSE all) < z
                    THEN (IF all > lim THEN lim ELSE all) ELSE z
  PROVE  c \in Nat /\ c > a /\ c - a - n - 1 \in Nat /\ (c - a - n - 1 = 0 => u = 0)
  OBVIOUS

\* The account i has its name and its old password, or a part of the new one.
KeepsAccount(r, us, k, i, v) ==
  /\ r \in Seq(Accounts) /\ Len(r) \in i + 1 .. k
  /\ \A j \in 1 .. i : r[j] = AccountOf(us[j - 1])
  /\ r[i + 1].username = us[i].username
  /\ \/ r[i + 1].password = v
     \/ \E n \in 1 .. Len(us[i].password) : r[i + 1].password = SubSeq(us[i].password, 1, n)

LEMMA ShorterIsFront ==
  ASSUME NEW s \in Fields, NEW n \in 0 .. Len(s)
  PROVE  SubSeq(s, 1, n) = Shorter(s, n)
<1>1. s \in Seq(Bytes) /\ Len(s) \in Nat
  BY FieldIsText, ConstantsAre
<1>2. /\ SubSeq(s, 1, n) \in Seq(Bytes) /\ Len(SubSeq(s, 1, n)) = n
      /\ \A i \in 1 .. n : SubSeq(s, 1, n)[i] = s[i]
  BY <1>1, FrontIs
<1>3. n \in Int /\ (IF n < 0 THEN 0 ELSE IF n < Len(s) THEN n ELSE Len(s)) = n
  BY <1>1
<1>4. /\ Shorter(s, n) \in Fields /\ Len(Shorter(s, n)) = n
      /\ \A i \in 1 .. n : Shorter(s, n)[i] = s[i]
  BY <1>3, ShorterIs
<1>5. Shorter(s, n) \in Seq(Bytes)
  BY <1>4, FieldIsText
<1> QED
  BY <1>2, <1>4, <1>5, SeqEqual

LEMMA PasswdCut ==
  ASSUME NEW us, NEW k, Filled(us, k), \A j \in 0 .. k - 1 : Plain(us[j]),
         NEW vs, Filled(vs, k), NEW i \in 0 .. k - 1,
         NEW x \in Fields, NEW y \in Fields, NEW v \in Fields, y # <<>>,
         us[i].username = x, us[i].password = y, vs[i].username = x, vs[i].password = v,
         \A j \in 0 .. i - 1 : AccountOf(us[j]) = AccountOf(vs[j]),
         NEW z \in 0 .. SectorSize - 1, z = Len(LineTexts(vs)[k])
  PROVE  KeepsAccount(Parse(SubSeq(Padded(Text(us)), 1, z)), us, k, i, v)
<1> DEFINE f == LineTexts(us)
           g == LineTexts(vs)
           c == Kept(us, k, z)
           text == SubSeq(Padded(Text(us)), 1, z)
           r == Parse(text)
<1>1. /\ us \in Tables /\ vs \in Tables /\ k \in 0 .. MaxUsers /\ k \in Nat /\ MaxUsers \in Nat
      /\ i \in 0 .. MaxUsers /\ i \in Nat /\ i <= k /\ i + 1 \in 0 .. k /\ i + 1 \in 0 .. MaxUsers
  BY ConstantsAre DEF Filled
<1>2. PICK n \in Nat, w \in Nat, u \in Nat : n = Len(x) /\ w = Len(y) /\ u = Len(v)
  BY FieldIsText, ConstantsAre
<1>3. w >= 1
  <2>1. y \in Seq(Bytes) /\ y # <<>>
    BY FieldIsText
  <2>2. Len(y) # 0
    BY <2>1, EmptySeq
  <2> QED
    BY <1>2, <2>2
<1>4. PICK a \in Nat, all \in Nat, lim \in Nat :
        a = Len(f[i]) /\ all = Len(f[k]) /\ lim = DbLimit /\ z <= lim + 1 /\ z \in 0 .. SectorSize
        /\ z \in Nat
  <2>1. Len(f[i]) \in Nat /\ Len(f[k]) \in Nat
    BY <1>1, TextIs
  <2>2. SectorSize \in Nat /\ DbLimit \in Nat /\ DbLimit = SectorSize - 2
    BY ConstantsAre
  <2>3. z <= DbLimit + 1 /\ z \in 0 .. SectorSize /\ z \in Nat
    BY <2>2
  <2> QED
    BY <2>1, <2>2, <2>3
<1>5. a + (n + w + 2) <= all
  <2>1. Len(Line(us[i])) = n + w + 2
    BY <1>2, LineIs DEF IsLine
  <2>2. Len(f[i + 1]) = Len(f[i]) + Len(Line(us[i]))
    BY NextLine DEF Follows
  <2>3. Len(f[i + 1]) <= Len(f[k])
    BY <1>1, TextPrefix
  <2> HIDE DEF f
  <2> QED
    BY <1>4, <2>1, <2>2, <2>3
<1>6. a + (n + u + 2) <= z
  <2>1. Len(Line(vs[i])) = n + u + 2
    <3>1. IsLine(Line(vs[i]), x, v)
      BY LineIs
    <3> QED
      BY <1>2, <3>1 DEF IsLine
  <2>2. Len(g[i + 1]) = Len(g[i]) + Len(Line(vs[i]))
    BY NextLine DEF Follows
  <2>3. Len(g[i + 1]) <= Len(g[k])
    BY <1>1, TextPrefix
  <2>4. f[i] = g[i]
    BY <1>1, SameAccounts
  <2> HIDE DEF f, g
  <2>5. Len(g[i]) = a /\ z = Len(g[k])
    BY <1>4, <2>4 DEF g
  <2> QED
    BY <1>4, <2>1, <2>2, <2>3, <2>5
<1>7. Agrees(us, k, text, c)
  BY <1>4, AgreesStored
<1>8. c = IF (IF all > lim THEN lim ELSE all) < z THEN (IF all > lim THEN lim ELSE all) ELSE z
  BY <1>4 DEF Kept
<1> HIDE DEF c, text, r
<1>9. c \in Nat /\ c > a /\ c - a - n - 1 \in Nat /\ (c - a - n - 1 = 0 => u = 0)
  <2>1. PICK o \in Nat :
          o = IF (IF all > lim THEN lim ELSE all) < z THEN (IF all > lim THEN lim ELSE all) ELSE z
    BY <1>4
  <2>2. z \in Nat /\ z <= lim + 1
    BY <1>4
  <2>3. o \in Nat /\ o > a /\ o - a - n - 1 \in Nat /\ (o - a - n - 1 = 0 => u = 0)
    BY <1>3, <1>5, <1>6, <2>1, <2>2, CutReaches
  <2> QED
    BY <1>8, <2>1, <2>3
<1>10. PICK m \in 0 .. k : Len(f[m]) <= c /\ (m < k => c < Len(f[m + 1]))
  BY <1>7, LastWhole
<1>11. m >= i
  <2> SUFFICES ASSUME ~ (m >= i)
               PROVE  FALSE
    OBVIOUS
  <2>1. m < k /\ m + 1 \in 0 .. i /\ m + 1 \in 0 .. MaxUsers
    BY <1>1
  <2>2. Len(f[m + 1]) <= Len(f[i])
    BY <1>1, <2>1, TextPrefix
  <2>3. PICK b \in Nat : b = Len(f[m + 1])
    BY <1>1, <2>1, TextIs
  <2> HIDE DEF f
  <2>4. b <= a /\ c < b
    BY <1>4, <1>10, <2>1, <2>2, <2>3
  <2> QED
    BY <1>9, <2>4
<1>12. /\ Shape(r, us, k, m)
       /\ c # Len(f[m]) => m < k /\ Len(r) = m + 1 /\ r[m + 1] = Cut(us[m], c - Len(f[m]))
  BY <1>7, <1>10, ParseShape DEF r
<1>13. CASE m = i
  <2>1. c # Len(f[i])
    BY <1>4, <1>9
  <2> HIDE DEF f
  <2>2. Len(r) = i + 1 /\ r[i + 1] = Cut(us[i], c - a)
    BY <1>4, <1>12, <1>13, <2>1
  <2>3. PICK d \in Int, e \in Nat : d = c - a /\ e = d - n - 1 /\ d >= n /\ (e = 0 => u = 0)
    <3>1. c - a \in Int /\ c - a >= n
      BY <1>9
    <3> QED
      BY <1>9, <3>1
  <2>4. Cut(us[i], d) = [username |-> Shorter(x, d), password |-> Shorter(y, e)]
    BY <1>2, <2>3 DEF Cut
  <2>5. Shorter(x, d) = x
    BY <1>2, <2>3, ShorterIs
  <2>6. \/ Shorter(y, e) = v
        \/ \E l \in 1 .. Len(y) : Shorter(y, e) = SubSeq(y, 1, l)
    <3>1. CASE e = 0
      <4>1. v = <<>>
        <5>1. v \in Seq(Bytes) /\ Len(v) = 0
          BY <1>2, <2>3, <3>1, FieldIsText
        <5> QED
          BY <5>1, EmptySeq
      <4>2. Shorter(y, 0) = <<>>
        <5>1. 0 \in 0 .. Len(y) /\ y \in Seq(Bytes)
          BY <1>2, FieldIsText
        <5>2. Shorter(y, 0) = SubSeq(y, 1, 0)
          BY <5>1, ShorterIsFront
        <5> QED
          BY <5>2, SubSeqEmpty
      <4> QED
        BY <3>1, <4>1, <4>2
    <3>2. CASE e >= 1 /\ e <= w
      <4>1. e \in 0 .. Len(y) /\ e \in 1 .. Len(y)
        BY <1>2, <3>2
      <4>2. Shorter(y, e) = SubSeq(y, 1, e)
        BY <4>1, ShorterIsFront
      <4> QED
        BY <4>1, <4>2
    <3>3. CASE e > w
      <4>1. w \in 0 .. Len(y) /\ w \in 1 .. Len(y) /\ w \in Int /\ e \in Int /\ w >= w /\ e >= w
        BY <1>2, <1>3, <3>3
      <4>2. Shorter(y, e) = y /\ Shorter(y, w) = y
        BY <1>2, <4>1, ShorterIs
      <4>3. Shorter(y, w) = SubSeq(y, 1, w)
        BY <4>1, ShorterIsFront
      <4> QED
        BY <4>1, <4>2, <4>3
    <3>4. e = 0 \/ (e >= 1 /\ e <= w) \/ e > w
      BY <1>2, <2>3
    <3> QED
      BY <3>1, <3>2, <3>3, <3>4
  <2>7. r[i + 1].username = x /\ r[i + 1].password = Shorter(y, e)
    BY <2>2, <2>3, <2>4, <2>5
  <2>8. Len(r) \in i + 1 .. k
    BY <1>1, <2>2
  <2>9. r \in Seq(Accounts) /\ \A j \in 1 .. i : r[j] = AccountOf(us[j - 1])
    BY <1>12, <1>13 DEF Shape
  <2> QED
    BY <2>6, <2>7, <2>8, <2>9 DEF KeepsAccount, r, text
<1>14. CASE m # i
  <2>1. i + 1 \in 1 .. m /\ i + 1 - 1 = i /\ \A j \in 1 .. i : j \in 1 .. m
    BY <1>1, <1>11, <1>14
  <2>2. r \in Seq(Accounts) /\ Len(r) \in m .. k /\ \A j \in 1 .. m : r[j] = AccountOf(us[j - 1])
    BY <1>12 DEF Shape
  <2>3. Len(r) \in i + 1 .. k
    BY <1>1, <2>1, <2>2
  <2>4. r[i + 1] = AccountOf(us[i])
    <3>1. PICK j \in 1 .. m : j = i + 1 /\ j - 1 = i
      BY <2>1
    <3>2. r[j] = AccountOf(us[j - 1])
      BY <2>2
    <3> QED
      BY <3>1, <3>2
  <2>5. y = SubSeq(y, 1, w) /\ w \in 1 .. Len(y)
    <3>1. w \in 0 .. Len(y) /\ w \in 1 .. Len(y) /\ w \in Int /\ w >= Len(y)
      BY <1>2, <1>3
    <3>2. Shorter(y, w) = y
      BY <3>1, ShorterIs
    <3> QED
      BY <3>1, <3>2, ShorterIsFront
  <2>6. r[i + 1].username = us[i].username /\ r[i + 1].password = y
    BY <2>4 DEF AccountOf
  <2> QED
    BY <2>1, <2>2, <2>3, <2>5, <2>6 DEF KeepsAccount, r, text
<1> QED
  BY <1>13, <1>14 DEF r, text

\* The accounts that were saved when passwd began, as a table.
LEMMA OldTable ==
  ASSUME NEW us, NEW k, Filled(us, k), NEW i \in 0 .. k - 1, NEW old \in FoundLists,
         Len(old) = k,
         \A n \in 1 .. k : IF n = i + 1 THEN old[n].username = us[n - 1].username
                           ELSE old[n] = AccountOf(us[n - 1])
  PROVE  /\ Filled(Loaded(old), k) /\ FirstAccounts(Loaded(old), k) = old
         /\ Loaded(old)[i].username = us[i].username
         /\ Loaded(old)[i].password = old[i + 1].password
         /\ old[i + 1].password \in Fields
         /\ \A j \in 0 .. i - 1 : AccountOf(us[j]) = AccountOf(Loaded(old)[j])
<1> DEFINE vs == Loaded(old)
<1>1. k \in 0 .. MaxUsers /\ k \in Nat
  BY ConstantsAre DEF Filled
<1>2. old \in Seq(Accounts) /\ \A n \in 1 .. k : old[n] \in PlainAccounts
  BY FoundAre
<1>3. /\ Filled(vs, k)
      /\ \A j \in 0 .. k - 1 : /\ AccountOf(vs[j]) = old[j + 1]
                               /\ vs[j].username = old[j + 1].username
                               /\ vs[j].password = old[j + 1].password
  BY <1>1, <1>2, LoadedIs
<1>4. FirstAccounts(vs, k) = old
  BY <1>1, <1>2, LoadedAccounts
<1> HIDE DEF vs
<1>5. vs[i].username = us[i].username /\ vs[i].password = old[i + 1].password
      /\ old[i + 1].password \in Fields
  <2>1. PICK n \in 1 .. k : n = i + 1 /\ n - 1 = i
    BY <1>1
  <2>2. old[n].username = us[n - 1].username
    BY <2>1
  <2>3. old[n].password \in Fields
    BY <1>2 DEF PlainAccounts, Accounts
  <2> QED
    BY <1>3, <2>1, <2>2, <2>3
<1>6. ASSUME NEW j \in 0 .. i - 1
      PROVE  AccountOf(us[j]) = AccountOf(vs[j])
  <2>1. PICK n \in 1 .. k : n = j + 1 /\ n - 1 = j /\ n # i + 1 /\ j \in 0 .. k - 1
    BY <1>1
  <2>2. old[n] = AccountOf(us[n - 1])
    BY <2>1
  <2> QED
    BY <1>3, <2>1, <2>2
<1> QED
  BY <1>3, <1>4, <1>5, <1>6 DEF vs

\* A loss of power in the middle of passwd damages no account before the one that
\* changes, invents none, and leaves that one its name and its old password or a
\* part of the new one, never an empty password.
THEOREM PasswdKeepsTheAccount ==
  ASSUME PlainNames
  PROVE  Spec => []PasswdKeepsAccount
<1> DEFINE new  == Registered(users)
           old  == Parse(job.was)
           now  == Reloaded(db)
           here == First(Named(users, current_user))
           k    == Cardinality({i \in Active(users) : i < here}) + 1
           Same == /\ WasSaved(old) /\ Len(old) = Len(new)
                   /\ \A n \in 1 .. Len(new) :
                        IF n = k THEN old[n].username = new[n].username ELSE old[n] = new[n]
           Kept1 == Len(now) \in k .. Len(new)
           Kept2 == FirstOf(now, k - 1) = FirstOf(new, k - 1)
           Kept3 == now[k].username = current_user
           Kept4 == \/ now[k].password = old[k].password
                    \/ \E n \in 1 .. Len(new[k].password) :
                         now[k].password = FirstOf(new[k].password, n)
<1>1. ASSUME UsersInv, PlainInv, job.kind = "passwd", Same
      PROVE  Kept1 /\ Kept2 /\ Kept3 /\ Kept4
  <2>1. PICK m : /\ Filled(users, m) /\ \A i \in 0 .. m - 1 : Plain(users[i])
                 /\ new = FirstAccounts(users, m)
    BY <1>1, TableIs
  <2>2. OnDisk /\ InTable
    BY <1>1 DEF NoJob, UsersInv, JobInv
  <2>3. PICK i \in 0 .. m - 1 : /\ i = here /\ users[i].username = current_user
                                /\ users[i].password \in Passwords
    <3>1. Named(users, current_user) # {} /\ users[here].password \in Passwords
      BY <1>1, <2>2 DEF InTable
    <3>2. here \in Named(users, current_user)
      BY <3>1, NamedIs
    <3>3. here \in Active(users) /\ users[here].username = current_user
      BY <3>2 DEF Named
    <3>4. Active(users) = 0 .. m - 1
      BY <2>1, ActiveAre
    <3> QED
      BY <3>1, <3>3, <3>4
  <2>4. users \in Tables /\ m \in 0 .. MaxUsers /\ m \in Nat /\ Active(users) = 0 .. m - 1
    BY <2>1, ActiveAre DEF Filled
  <2>5. k = i + 1
    <3>1. {j \in Active(users) : j < i} = 0 .. i - 1
      BY <2>4
    <3>2. Cardinality(0 .. i - 1) = i
      <4>1. 0 \in Int /\ i - 1 \in Int /\ (IF 0 > i - 1 THEN 0 ELSE i - 1 - 0 + 1) = i
        BY <2>4
      <4> QED
        BY <4>1, FS_Interval
    <3>3. {j \in Active(users) : j < here} = {j \in Active(users) : j < i}
      BY <2>3
    <3> QED
      BY <3>1, <3>2, <3>3
  <2> HIDE DEF k, here
  <2>6. /\ new \in Seq(Accounts) /\ Len(new) = m
        /\ \A n \in 1 .. m : new[n] = AccountOf(users[n - 1])
    BY <2>1, <2>4, FirstAccountsAre
  <2> HIDE DEF new
  <2>7. old \in FoundLists
    BY <1>1, ParseIs DEF UsersInv, TypeInv, Jobs
  <2> HIDE DEF old
  <2>8. Len(old) = m
    BY <1>1, <2>6
  <2>9. ASSUME NEW n \in 1 .. m
        PROVE  IF n = i + 1 THEN old[n].username = users[n - 1].username
               ELSE old[n] = AccountOf(users[n - 1])
    <3>1. IF n = i + 1 THEN old[n].username = new[n].username ELSE old[n] = new[n]
      BY <1>1, <2>5, <2>6
    <3>2. new[n].username = users[n - 1].username
      BY <2>6 DEF AccountOf
    <3> QED
      BY <2>6, <3>1, <3>2
  <2> DEFINE vs == Loaded(old)
             v  == old[i + 1].password
  <2>10. /\ Filled(vs, m) /\ FirstAccounts(vs, m) = old
         /\ vs[i].username = users[i].username /\ vs[i].password = v /\ v \in Fields
         /\ \A j \in 0 .. i - 1 : AccountOf(users[j]) = AccountOf(vs[j])
    BY <2>1, <2>7, <2>8, <2>9, OldTable
  <2>11. ~ job.new /\ db.present /\ job.was = LineTexts(vs)[m]
    BY <1>1, <2>2, <2>10, LinesAre DEF WasSaved, OnDisk
  <2>12. now = Parse(Stored(db))
    BY <2>11 DEF Reloaded
  <2> HIDE DEF now, vs
  <2>13. PICK x \in Fields, y \in Fields : /\ users[i].username = x /\ users[i].password = y
                                           /\ y # <<>>
    <3>1. users[i].username \in Fields /\ users[i].password \in Fields
      BY <2>1, EntryIs
    <3>2. users[i].password # <<>>
      BY <2>3, UsersAssumption
    <3> QED
      BY <3>1, <3>2
  <2>14. KeepsAccount(now, users, m, i, v)
    <3>1. CASE job.stage = "data"
      <4>1. now = old
        BY <2>2, <2>11, <2>12, <3>1 DEF OnDisk, old
      <4>2. old \in Seq(Accounts)
        BY <2>7, FoundAre
      <4>3. Len(old) \in i + 1 .. m
        BY <2>4, <2>8
      <4>4. ASSUME NEW j \in 1 .. i
            PROVE  old[j] = AccountOf(users[j - 1])
        <5>1. j \in 1 .. m /\ j # i + 1
          BY <2>4
        <5> QED
          BY <2>9, <5>1
      <4>5. old[i + 1].username = users[i].username
        <5>1. PICK n \in 1 .. m : n = i + 1 /\ n - 1 = i
          BY <2>4
        <5> QED
          BY <2>9, <5>1
      <4> QED
        BY <4>1, <4>2, <4>3, <4>4, <4>5 DEF KeepsAccount
    <3>2. CASE job.stage = "table"
      <4>1. /\ db.size = Len(LineTexts(vs)[m]) /\ db.size \in 0 .. SectorSize - 1
            /\ db.sector = Padded(Text(users))
        BY <1>1, <2>2, <2>11, <3>2 DEF OnDisk, InTable, UsersInv, TypeInv, Disks
      <4>2. Stored(db) = SubSeq(Padded(Text(users)), 1, db.size)
        BY <4>1 DEF Stored
      <4>3. vs[i].username = x
        BY <2>10, <2>13
      <4> HIDE DEF v
      <4>4. KeepsAccount(Parse(SubSeq(Padded(Text(users)), 1, db.size)), users, m, i, v)
        BY <2>1, <2>10, <2>13, <4>1, <4>3, PasswdCut
      <4> QED
        BY <2>12, <4>2, <4>4
    <3>3. job.stage \in {"data", "table"}
      BY <1>1, <2>2 DEF OnDisk, UsersInv, TypeInv, Jobs
    <3> QED
      BY <3>1, <3>2, <3>3
  <2>15. Kept1
    BY <2>5, <2>6, <2>14 DEF KeepsAccount
  <2>16. Kept2
    <3>1. k - 1 = i /\ i \in 0 .. m /\ i \in Nat
      BY <2>4, <2>5
    <3>2. PICK len \in Nat : len = Len(now) /\ i <= len
      BY <2>4, <2>14 DEF KeepsAccount
    <3>3. now \in Seq(Accounts) /\ i \in 0 .. Len(now) /\ \A j \in 1 .. i : now[j] = AccountOf(users[j - 1])
      BY <2>14, <3>1, <3>2 DEF KeepsAccount
    <3>4. /\ SubSeq(now, 1, i) \in Seq(Accounts) /\ Len(SubSeq(now, 1, i)) = i
          /\ \A j \in 1 .. i : SubSeq(now, 1, i)[j] = now[j]
      BY <3>3, FrontIs
    <3>5. /\ SubSeq(new, 1, i) \in Seq(Accounts) /\ Len(SubSeq(new, 1, i)) = i
          /\ \A j \in 1 .. i : SubSeq(new, 1, i)[j] = new[j]
      <4>1. i \in 0 .. Len(new)
        BY <2>6, <3>1
      <4> QED
        BY <2>6, <4>1, FrontIs
    <3>6. \A j \in 1 .. i : SubSeq(now, 1, i)[j] = SubSeq(new, 1, i)[j]
      <4>1. \A j \in 1 .. i : j \in 1 .. m
        BY <2>4, <3>1
      <4> QED
        BY <2>6, <3>3, <3>4, <3>5, <4>1
    <3>7. SubSeq(now, 1, i) = SubSeq(new, 1, i)
      BY <3>4, <3>5, <3>6, SeqEqual
    <3> QED
      BY <3>1, <3>7 DEF FirstOf
  <2>17. Kept3
    BY <2>3, <2>5, <2>14 DEF KeepsAccount
  <2>18. Kept4
    <3>1. new[i + 1].password = users[i].password
      <4>1. PICK n \in 1 .. m : n = i + 1 /\ n - 1 = i
        BY <2>4
      <4>2. new[n] = AccountOf(users[n - 1])
        BY <2>6
      <4> QED
        BY <4>1, <4>2 DEF AccountOf
    <3> QED
      BY <2>5, <2>14, <3>1 DEF KeepsAccount, FirstOf
  <2> QED
    BY <2>15, <2>16, <2>17, <2>18
<1>2. UsersInv /\ PlainInv => PasswdKeepsAccount
  BY <1>1 DEF PasswdKeepsAccount
<1> QED
  BY <1>2, PlainInvariance, PTL
=============================================================================
