---------------------------- MODULE SessionProofs -----------------------------
(* Proofs about Editor and Session, for every size of the buffers and every *)
(* content of the stack: what is saved is what was typed, also when the     *)
(* keyboard loops run the editor, and no modifier key is left pressed or    *)
(* lost between two loops.                                                  *)
EXTENDS Session, TLAPS

-----------------------------------------------------------------------------
(* The editor.                                                             *)

\* The invariant needs no strengthening beyond types: that strlen is at least the
\* length of what was typed follows from typed holding characters only.
Inv == TypeOK /\ BufferIsTyped

\* A text of n characters.
LEMMA TextType ==
  ASSUME NEW n \in 0 .. Limit, NEW t \in [1 .. n -> Chars]
  PROVE  t \in Texts /\ t \in Seq(Chars) /\ Len(t) = n
<1>1. n \in Nat
  BY EditorAssumption DEF Limit
<1> QED
  BY <1>1 DEF Texts

LEMMA SeqShape ==
  ASSUME NEW t \in Seq(Chars)
  PROVE  t \in [1 .. Len(t) -> Chars]
  OBVIOUS

LEMMA TextShape ==
  ASSUME NEW t \in Texts
  PROVE  /\ t \in Seq(Chars) /\ Len(t) \in 0 .. Limit
         /\ t \in [1 .. Len(t) -> Chars]
<1>1. PICK n \in 0 .. Limit : t \in [1 .. n -> Chars]
  BY DEF Texts
<1> QED
  BY <1>1, TextType

\* A file is a sequence of bytes, and a text is one of them.
LEMMA FileShape ==
  ASSUME NEW t \in Files
  PROVE  /\ t \in Seq(Chars \cup {NUL}) /\ Len(t) \in 0 .. Limit
         /\ t \in [1 .. Len(t) -> Chars \cup {NUL}]
<1>1. PICK n \in 0 .. Limit : t \in [1 .. n -> Chars \cup {NUL}]
  BY DEF Files
<1>2. n \in Nat
  BY EditorAssumption DEF Limit
<1> QED
  BY <1>1, <1>2

LEMMA TextIsFile ==
  ASSUME NEW t \in Texts
  PROVE  t \in Files
<1>1. PICK n \in 0 .. Limit : t \in [1 .. n -> Chars]
  BY DEF Texts
<1>2. t \in [1 .. n -> Chars \cup {NUL}]
  BY <1>1
<1> QED
  BY <1>1, <1>2 DEF Files

\* What is typed never outgrows the index.
LEMMA TypedLength ==
  ASSUME TypeOK, BufferIsTyped, open
  PROVE  /\ typed \in Seq(Chars) /\ typed \in [1 .. Len(typed) -> Chars]
         /\ Len(typed) \in 0 .. Limit /\ idx \in 0 .. Limit /\ Limit = Size - 2 /\ Size \in Nat
         /\ ~ hidden => idx = Len(typed)
         /\ hidden => idx > Len(typed) /\ buffer[Len(typed)] = NUL
  BY TextShape, EditorAssumption DEF TypeOK, BufferIsTyped, Limit

\* What is typed holds no NUL, so strlen is at least its length, and ends there
\* if a NUL is left.
LEMMA LengthAtLeast ==
  ASSUME TypeOK, BufferIsTyped, open, NEW n \in Length(buffer)
  PROVE  n >= Len(typed) /\ (hidden => n = Len(typed))
<1>1. n \in Indices /\ buffer[n] = NUL /\ \A k \in 0 .. n - 1 : buffer[k] # NUL
  BY DEF Length
<1>2. n \in Int /\ n >= 0 /\ Len(typed) \in Nat
  BY <1>1, TypedLength, EditorAssumption DEF Limit, Indices
<1>3. ASSUME n < Len(typed) PROVE FALSE
  <2>1. n + 1 \in 1 .. Len(typed) /\ (n + 1) - 1 = n
    BY <1>2, <1>3
  <2>2. buffer[n] = typed[n + 1]
    BY <2>1 DEF BufferIsTyped
  <2>3. typed[n + 1] \in Chars
    BY <2>1, TypedLength
  <2> QED
    BY <1>1, <2>2, <2>3, EditorAssumption
<1>4. ASSUME hidden, n > Len(typed) PROVE FALSE
  <2>1. Len(typed) \in 0 .. n - 1 /\ buffer[Len(typed)] = NUL
    BY <1>2, <1>4, TypedLength
  <2> QED
    BY <1>1, <2>1
<1> QED
  BY <1>2, <1>3, <1>4

LEMMA InitInv == Init => Inv
<1> SUFFICES ASSUME Init PROVE Inv
  OBVIOUS
<1>1. 0 \in 0 .. Limit
  BY EditorAssumption DEF Limit
<1>2. <<>> \in [1 .. 0 -> Chars]
  OBVIOUS
<1>3. <<>> \in Texts
  BY <1>1, <1>2, TextType
<1>4. file \in Files \cup {NoFile}
  BY EditorAssumption DEF Init
<1> QED
  BY <1>1, <1>3, <1>4 DEF Init, Inv, TypeOK, BufferIsTyped, Blank

\* What Front returns.
LEMMA FrontLength ==
  ASSUME NEW t \in Seq(Chars \cup {NUL}), NEW n \in Front(t)
  PROVE  /\ n \in Nat /\ n <= Len(t) /\ (n < Len(t) => t[n + 1] = NUL)
         /\ \A j \in 1 .. n : t[j] # NUL
  BY DEF Front

LEMMA OpenInv ==
  ASSUME Inv, NEW g \in Garbage, Open(g)
  PROVE  Inv'
<1> DEFINE text == IF file = NoFile THEN <<>> ELSE file
<1>1. text \in Files
  <2>1. 0 \in 0 .. Limit /\ <<>> \in [1 .. 0 -> Chars \cup {NUL}]
    BY EditorAssumption DEF Limit
  <2>2. <<>> \in Files
    BY <2>1 DEF Files
  <2> QED
    BY <2>2 DEF Inv, TypeOK
<1>2. /\ text \in Seq(Chars \cup {NUL}) /\ Len(text) \in 0 .. Limit
      /\ text \in [1 .. Len(text) -> Chars \cup {NUL}]
  BY <1>1, FileShape
<1>3. buffer' = Filled(g, text) /\ idx' = Len(text) /\ open' = TRUE /\ file' = file
  BY DEF Open
<1>4. PICK n \in Front(text) : /\ typed' = [j \in 1 .. n |-> text[j]]
                               /\ hidden' = (n < Len(text))
  BY DEF Open
<1> HIDE DEF text
<1>5. /\ n \in Nat /\ n <= Len(text) /\ (n < Len(text) => text[n + 1] = NUL)
      /\ \A j \in 1 .. n : text[j] # NUL
  BY <1>2, <1>4, FrontLength
<1>6. typed' \in [1 .. n -> Chars]
  <2> SUFFICES ASSUME NEW j \in 1 .. n PROVE text[j] \in Chars
    BY <1>4
  <2>1. j \in 1 .. Len(text)
    BY <1>2, <1>5
  <2> QED
    BY <2>1, <1>2, <1>5
<1>7. typed' \in Texts /\ Len(typed') = n
  <2>1. n \in 0 .. Limit
    BY <1>2, <1>5, EditorAssumption DEF Limit
  <2> QED
    BY <2>1, <1>6, TextType
<1>8. buffer' \in [Indices -> Chars \cup {NUL}]
  <2> SUFFICES ASSUME NEW k \in Indices
               PROVE  Filled(g, text)[k] \in Chars \cup {NUL}
    BY <1>3 DEF Filled
  <2>1. k < Len(text) => k + 1 \in 1 .. Len(text)
    BY <1>2, EditorAssumption DEF Indices, Limit
  <2>2. g[k] \in Chars \cup {NUL}
    BY EditorAssumption
  <2> QED
    BY <2>1, <2>2, <1>2 DEF Filled
<1>9. ASSUME NEW k \in 1 .. Len(text)
      PROVE  buffer'[k - 1] = text[k]
  <2>1. k - 1 \in Indices /\ k - 1 < Len(text) /\ (k - 1) + 1 = k
    BY <1>2, EditorAssumption DEF Indices, Limit
  <2> QED
    BY <2>1, <1>3 DEF Filled
<1>10. \A k \in 1 .. Len(typed') : buffer'[k - 1] = typed'[k]
  BY <1>2, <1>4, <1>5, <1>7, <1>9
<1>11. IF hidden' THEN idx' > Len(typed') /\ buffer'[Len(typed')] = NUL
                  ELSE idx' = Len(typed')
  <2>1. CASE n < Len(text)
    <3>1. n + 1 \in 1 .. Len(text) /\ (n + 1) - 1 = n /\ text[n + 1] = NUL
      BY <2>1, <1>2, <1>5
    <3> QED
      BY <2>1, <3>1, <1>3, <1>4, <1>7, <1>9
  <2>2. CASE ~ (n < Len(text))
    <3>1. n = Len(text)
      BY <2>2, <1>2, <1>5
    <3>2. ~ hidden'
      BY <2>2, <1>4
    <3> QED
      BY <3>1, <3>2, <1>3, <1>7
  <2> QED
    BY <2>1, <2>2
<1>12. hidden' \in BOOLEAN
  BY <1>4
<1> QED
  BY <1>2, <1>3, <1>7, <1>8, <1>10, <1>11, <1>12 DEF Inv, TypeOK, BufferIsTyped

LEMMA TypeInv ==
  ASSUME Inv, NEW c \in Chars, Type(c)
  PROVE  Inv'
<1>1. /\ open /\ idx < Limit /\ buffer' = [buffer EXCEPT ![idx] = c]
      /\ idx' = idx + 1 /\ typed' = IF hidden THEN typed ELSE Append(typed, c)
      /\ open' = open /\ hidden' = hidden /\ file' = file
  BY DEF Type
<1>2. idx \in 0 .. Limit /\ Limit \in Int /\ idx \in Indices /\ idx + 1 \in 0 .. Limit
  BY <1>1, EditorAssumption DEF Inv, TypeOK, Limit, Indices
<1>3. /\ typed \in Seq(Chars) /\ Len(typed) \in 0 .. Limit /\ Len(typed) <= idx
      /\ ~ hidden => idx = Len(typed)
      /\ hidden => idx > Len(typed) /\ buffer[Len(typed)] = NUL
  BY <1>1, TypedLength DEF Inv
<1>4. buffer' \in [Indices -> Chars \cup {NUL}]
  BY <1>1 DEF Inv, TypeOK
<1>5. ASSUME NEW k \in 0 .. Len(typed), k # idx PROVE buffer'[k] = buffer[k]
  <2>1. k \in Indices
    BY <1>2, <1>3, EditorAssumption DEF Indices, Limit
  <2> QED
    BY <2>1, <1>1, <1>5 DEF Inv, TypeOK
<1>6. CASE hidden
  <2>1. ASSUME NEW k \in 1 .. Len(typed) PROVE buffer'[k - 1] = typed[k]
    <3>1. k - 1 \in 0 .. Len(typed) /\ k - 1 # idx
      BY <1>3, <1>6
    <3> QED
      BY <3>1, <1>1, <1>5 DEF Inv, BufferIsTyped
  <2>2. buffer'[Len(typed)] = NUL /\ idx + 1 > Len(typed)
    BY <1>2, <1>3, <1>5, <1>6
  <2> QED
    BY <1>1, <1>2, <1>4, <1>6, <2>1, <2>2 DEF Inv, TypeOK, BufferIsTyped
<1>7. CASE ~ hidden
  <2>1. typed' = Append(typed, c) /\ typed' \in Seq(Chars) /\ Len(typed') = idx + 1
    BY <1>1, <1>2, <1>3, <1>7
  <2>2. typed' \in [1 .. idx + 1 -> Chars]
    BY <2>1, SeqShape
  <2>3. typed' \in Texts
    BY <1>2, <2>2, TextType
  <2>4. ASSUME NEW k \in 1 .. idx'
        PROVE  buffer'[k - 1] = typed'[k]
    <3>1. CASE k = idx + 1
      BY <3>1, <2>1, <1>1, <1>2, <1>3, <1>7 DEF Inv, TypeOK
    <3>2. CASE k # idx + 1
      <4>1. k \in 1 .. Len(typed) /\ k - 1 \in 0 .. Len(typed) /\ k - 1 # idx
        BY <3>2, <1>1, <1>2, <1>3, <1>7
      <4>2. typed'[k] = typed[k]
        BY <4>1, <2>1, <1>3
      <4> QED
        BY <4>1, <4>2, <1>1, <1>5 DEF Inv, BufferIsTyped
    <3> QED
      BY <3>1, <3>2
  <2> QED
    BY <1>1, <1>2, <1>4, <1>7, <2>1, <2>3, <2>4 DEF Inv, TypeOK, BufferIsTyped
<1> QED
  BY <1>6, <1>7

\* Wherever the cut falls, it is a NUL on the last byte of what was typed or
\* behind it, and on that byte if a NUL is left.
LEMMA CutBehind ==
  ASSUME Inv, open, idx > 0, NEW b,
         b \in IF Cuts(buffer) = {} THEN {buffer} ELSE Cuts(buffer)
  PROVE  /\ b \in [Indices -> Chars \cup {NUL}]
         /\ \A k \in 0 .. Len(typed) - 2 : b[k] = buffer[k]
         /\ hidden => b[IF Len(typed) = 0 THEN 0 ELSE Len(typed) - 1] = NUL
<1> DEFINE L == Len(typed)
<1>1. /\ L \in 0 .. Limit /\ Limit = Size - 2 /\ Size \in Nat /\ Size > 2
      /\ hidden => buffer[L] = NUL
  BY TypedLength, EditorAssumption DEF Inv
<1>2. buffer \in [Indices -> Chars \cup {NUL}] /\ L \in Indices
  BY <1>1 DEF Inv, TypeOK, Indices
<1>3. ASSUME NEW n \in Length(buffer) PROVE n \in Indices /\ n >= L /\ (hidden => n = L)
  BY <1>3, LengthAtLeast DEF Inv, Length
<1>4. ASSUME hidden PROVE L \in Length(buffer)
  <2>1. ASSUME NEW k \in 0 .. L - 1 PROVE buffer[k] # NUL
    <3>1. k + 1 \in 1 .. L /\ (k + 1) - 1 = k
      BY <1>1
    <3>2. buffer[k] = typed[k + 1] /\ typed[k + 1] \in Chars
      BY <3>1, TypedLength DEF Inv, BufferIsTyped
    <3> QED
      BY <3>2, EditorAssumption
  <2> QED
    BY <1>1, <1>2, <1>4, <2>1 DEF Length
<1>5. \/ b = buffer /\ (hidden => L = 0)
      \/ \E m \in Indices : m >= L - 1 /\ (hidden => m = L - 1) /\ b = [buffer EXCEPT ![m] = NUL]
  <2>1. CASE Length(buffer) # {} /\ Cuts(buffer) # {}
    <3>1. PICK n \in Length(buffer) \ {0} : b = [buffer EXCEPT ![n - 1] = NUL]
      BY <2>1 DEF Cuts
    <3>2. n - 1 \in Indices /\ n - 1 >= L - 1 /\ (hidden => n - 1 = L - 1)
      BY <3>1, <1>3, <1>1 DEF Indices
    <3> QED
      BY <3>1, <3>2
  <2>2. CASE Length(buffer) = {}
    <3>1. b \in {buffer, [buffer EXCEPT ![Size - 1] = NUL]} /\ ~ hidden
      BY <2>2, <1>4 DEF Cuts
    <3>2. Size - 1 \in Indices /\ Size - 1 >= L - 1
      BY <1>1 DEF Indices
    <3> QED
      BY <3>1, <3>2
  <2>3. CASE Length(buffer) # {} /\ Cuts(buffer) = {}
    <3>1. b = buffer
      BY <2>3
    <3>2. Length(buffer) \ {0} = {}
      BY <2>3 DEF Cuts
    <3>3. hidden => L = 0
      BY <3>2, <1>4
    <3> QED
      BY <3>1, <3>3
  <2> QED
    BY <2>1, <2>2, <2>3
<1>6. CASE b = buffer /\ (hidden => L = 0)
  BY <1>1, <1>2, <1>6
<1>7. CASE \E m \in Indices : m >= L - 1 /\ (hidden => m = L - 1) /\ b = [buffer EXCEPT ![m] = NUL]
  <2>1. PICK m \in Indices : /\ m >= L - 1 /\ (hidden => m = L - 1)
                             /\ b = [buffer EXCEPT ![m] = NUL]
    BY <1>7
  <2>2. m >= 0 /\ m \in Int
    BY <1>1 DEF Indices
  <2>3. ASSUME NEW k \in 0 .. L - 2 PROVE k # m /\ k \in Indices
    BY <2>1, <1>1 DEF Indices
  <2>4. b[m] = NUL
    BY <2>1, <1>2
  <2>5. hidden => L # 0 /\ m = L - 1
    BY <2>1, <2>2, <1>1
  <2> QED
    BY <2>1, <2>3, <2>4, <2>5, <1>2
<1> QED
  BY <1>5, <1>6, <1>7

LEMMA BackspaceInv ==
  ASSUME Inv, Backspace
  PROVE  Inv'
<1> DEFINE L == Len(typed)
           M == IF L = 0 THEN 0 ELSE L - 1
<1>1. /\ open /\ idx > 0 /\ idx' = idx - 1 /\ open' = open /\ file' = file
      /\ typed' = SubSeq(typed, 1, L - 1) /\ hidden' = (hidden /\ idx > 1)
      /\ buffer' \in IF Cuts(buffer) = {} THEN {buffer} ELSE Cuts(buffer)
  BY DEF Backspace
<1>2. /\ buffer' \in [Indices -> Chars \cup {NUL}]
      /\ \A k \in 0 .. L - 2 : buffer'[k] = buffer[k]
      /\ hidden => buffer'[M] = NUL
  BY <1>1, CutBehind
<1>3. idx \in 0 .. Limit /\ Limit \in Int /\ idx - 1 \in 0 .. Limit
  BY <1>1, EditorAssumption DEF Inv, TypeOK, Limit
<1>4. /\ typed \in Seq(Chars) /\ L \in 0 .. Limit /\ L \in Nat /\ hidden \in BOOLEAN
      /\ ~ hidden => idx = L
      /\ hidden => idx > L
  BY <1>1, TypedLength DEF Inv, TypeOK, Limit
<1>5. M \in 0 .. Limit /\ M \in Nat /\ M <= L
  BY <1>3, <1>4
<1>6. /\ typed' \in [1 .. M -> Chars] /\ Len(typed') = M
      /\ \A k \in 1 .. M : typed'[k] = typed[k]
  <2>1. CASE L = 0
    <3>1. typed' = <<>> /\ M = 0
      BY <2>1, <1>1, <1>4
    <3>2. <<>> \in [1 .. 0 -> Chars] /\ Len(<<>>) = 0
      OBVIOUS
    <3> HIDE DEF M
    <3> QED
      BY <3>1, <3>2
  <2>2. CASE L # 0
    <3>1. L - 1 \in Nat /\ M = L - 1
      BY <2>2, <1>4
    <3>2. /\ typed' \in Seq(Chars) /\ Len(typed') = M
          /\ \A k \in 1 .. M : typed'[k] = typed[k]
      BY <3>1, <1>1, <1>4
    <3> QED
      BY <3>2, SeqShape
  <2> QED
    BY <2>1, <2>2
<1>7. typed' \in Texts
  BY <1>5, <1>6, TextType
<1>8. ASSUME NEW k \in 1 .. M
      PROVE  buffer'[k - 1] = typed'[k]
  <2>1. k \in 1 .. L /\ k - 1 \in 0 .. L - 2
    BY <1>4, <1>5
  <2> QED
    BY <2>1, <1>1, <1>2, <1>6 DEF Inv, BufferIsTyped
<1>9. IF hidden' THEN idx' > M /\ buffer'[M] = NUL ELSE idx' = M
  <2>1. CASE hidden
    <3>1. idx > L /\ buffer'[M] = NUL
      BY <2>1, <1>2, <1>4
    <3>2. CASE idx > 1
      <4>1. hidden'
        BY <2>1, <3>2, <1>1
      <4>2. idx' > M
        BY <3>1, <3>2, <1>1, <1>3, <1>4
      <4> QED
        BY <3>1, <4>1, <4>2
    <3>3. CASE ~ (idx > 1)
      <4>1. ~ hidden'
        BY <3>3, <1>1
      <4>2. idx' = M
        BY <3>1, <3>3, <1>1, <1>3, <1>4
      <4> QED
        BY <4>1, <4>2
    <3> QED
      BY <3>2, <3>3
  <2>2. CASE ~ hidden
    BY <2>2, <1>1, <1>3, <1>4, <1>5
  <2> QED
    BY <2>1, <2>2
<1> HIDE DEF M
<1> QED
  BY <1>1, <1>2, <1>3, <1>4, <1>6, <1>7, <1>8, <1>9 DEF Inv, TypeOK, BufferIsTyped

\* After buffer[idx] = 0, strlen is the length of what was typed, and so is the
\* text that it finds.
LEMMA SaveText ==
  ASSUME Inv, Save
  PROVE  file' = typed
<1> DEFINE L == Len(typed)
<1>1. PICK n \in Length(Ended) : file' = [j \in 1 .. n |-> Ended[j - 1]]
  BY DEF Save
<1>2. /\ typed \in Seq(Chars) /\ typed \in [1 .. L -> Chars]
      /\ L \in Nat /\ idx \in Nat /\ L <= idx /\ idx <= Size - 2 /\ Size \in Nat
      /\ (idx # L => buffer[L] = NUL)
  BY TypedLength DEF Inv, Save
<1> HIDE DEF L
<1>3. L \in Indices /\ idx \in Indices
  BY <1>2 DEF Indices
<1>4. /\ Ended[idx] = NUL
      /\ \A k \in Indices \ {idx} : Ended[k] = buffer[k]
  BY <1>3 DEF Ended, Inv, TypeOK
<1>5. Ended[L] = NUL
  BY <1>2, <1>3, <1>4
<1>6. ASSUME NEW k \in 0 .. L - 1
      PROVE  Ended[k] = typed[k + 1] /\ Ended[k] # NUL
  <2>1. k \in Indices \ {idx} /\ k + 1 \in 1 .. L /\ (k + 1) - 1 = k
    BY <1>2 DEF Indices
  <2>2. Ended[k] = typed[k + 1]
    BY <2>1, <1>4 DEF Inv, BufferIsTyped, Save, L
  <2>3. typed[k + 1] \in Chars
    BY <2>1, <1>2
  <2> QED
    BY <2>2, <2>3, EditorAssumption
<1>7. n \in Indices /\ Ended[n] = NUL /\ \A k \in 0 .. n - 1 : Ended[k] # NUL
  BY <1>1 DEF Length
<1>8. n = L
  <2>1. n \in Int /\ n >= 0
    BY <1>7, EditorAssumption DEF Indices
  <2>2. ~ (n < L)
    BY <2>1, <1>2, <1>6, <1>7
  <2>3. ~ (n > L)
    BY <2>1, <1>2, <1>5, <1>7
  <2> QED
    BY <2>1, <2>2, <2>3, <1>2
<1>9. ASSUME NEW j \in 1 .. L PROVE Ended[j - 1] = typed[j]
  BY <1>2, <1>6
<1> QED
  BY <1>1, <1>2, <1>8, <1>9 DEF L

LEMMA CloseInv ==
  ASSUME Inv, Save \/ SaveFails \/ Remove
  PROVE  Inv'
<1>1. 0 \in 0 .. Limit /\ <<>> \in [1 .. 0 -> Chars]
  BY EditorAssumption DEF Limit
<1>2. <<>> \in Texts
  BY <1>1, TextType
<1>3. CASE Save
  <2>1. file' \in Files
    BY <1>3, SaveText, TextIsFile DEF Inv, TypeOK
  <2> QED
    BY <1>1, <1>2, <1>3, <2>1 DEF Save, Blank, Inv, TypeOK, BufferIsTyped
<1>4. CASE SaveFails
  BY <1>1, <1>2, <1>4 DEF SaveFails, Blank, Inv, TypeOK, BufferIsTyped
<1>5. CASE Remove
  BY <1>5 DEF Remove, Inv, TypeOK, BufferIsTyped
<1> QED
  BY <1>3, <1>4, <1>5

LEMMA NextInv == Inv /\ [Next]_vars => Inv'
<1> SUFFICES ASSUME Inv, [Next]_vars PROVE Inv'
  OBVIOUS
<1>1. CASE UNCHANGED vars
  BY <1>1 DEF vars, Inv, TypeOK, BufferIsTyped
<1>2. CASE Next
  BY <1>2, OpenInv, TypeInv, BackspaceInv, CloseInv DEF Next
<1> QED
  BY <1>1, <1>2

\* idx stays within the buffer and leaves room for the final NUL.
THEOREM TypeCorrect == Spec => []TypeOK
<1>1. Spec => []Inv
  BY InitInv, NextInv, PTL DEF Spec
<1>2. Inv => TypeOK
  BY DEF Inv
<1> QED
  BY <1>1, <1>2, PTL

\* Backspace never cuts into what was typed, whatever the stack held.
THEOREM BufferCorrect == Spec => []BufferIsTyped
<1>1. Spec => []Inv
  BY InitInv, NextInv, PTL DEF Spec
<1>2. Inv => BufferIsTyped
  BY DEF Inv
<1> QED
  BY <1>1, <1>2, PTL

\* Ctrl+S saves exactly what was typed.
THEOREM SaveCorrect == Spec => SavedIsTyped
<1>1. Spec => []Inv
  BY InitInv, NextInv, PTL DEF Spec
<1>2. Inv /\ [Next]_vars => [Save => file' = typed]_vars
  BY SaveText
<1> QED
  BY <1>1, <1>2, PTL DEF Spec, SavedIsTyped

-----------------------------------------------------------------------------
(* The keyboard loops.                                                     *)

\* A step of the loops is a step of the editor or leaves its state alone.
LEMMA SessionStep ==
  ASSUME [SessionNext]_session
  PROVE  [Next]_vars
<1>1. CASE UNCHANGED session
  BY <1>1 DEF session
<1>2. CASE \E m \in Modifiers : Press(m) \/ Release(m)
  BY <1>2 DEF Press, Release
<1>3. CASE FieldKey \/ FieldBackspace \/ UsernameEnter
           \/ \E verified \in BOOLEAN : PasswordEnter(verified)
  BY <1>3 DEF FieldKey, FieldBackspace, UsernameEnter, PasswordEnter
<1>4. CASE LineKey \/ LineBackspace \/ RunCommand \/ RunLogout \/ RunHelp \/ HelpKey
  BY <1>4 DEF LineKey, LineBackspace, RunCommand, RunLogout, RunHelp, HelpKey
<1>5. CASE RunRemove \/ RunEdit \/ EditorBackspace \/ SaveKey
  BY <1>5 DEF RunRemove, RunEdit, EditorBackspace, SaveKey, Next
<1>6. CASE EditorEnter \/ \E k \in Keys : EditorKey(k)
  <2>1. Newline \in Chars /\ \A k \in Keys : Ascii(k) \in Chars
    BY SessionAssumption DEF Ascii
  <2> QED
    BY <1>6, <2>1 DEF EditorEnter, EditorKey, Next
<1> QED
  BY <1>1, <1>2, <1>3, <1>4, <1>5, <1>6 DEF SessionNext

\* Whatever the loops do, they run the editor as Editor specifies it.
THEOREM SessionRunsEditor == SessionSpec => Spec
<1>1. SessionInit => Init
  BY DEF SessionInit
<1> QED
  BY <1>1, SessionStep, PTL DEF SessionSpec, Spec

\* Ctrl+S saves exactly what was typed, also across logout and login.
THEOREM SessionSaves == SessionSpec => SavedIsTyped
  BY SessionRunsEditor, SaveCorrect, PTL

\* Fields and line stay within their bounds, and the editor within its buffer.
SessionInv == SessionTypeOK /\ NoStuckShift

LEMMA SessionInitInv == SessionInit => SessionInv
<1> SUFFICES ASSUME SessionInit PROVE SessionInv
  OBVIOUS
<1>1. TypeOK
  BY InitInv DEF SessionInit, Inv
<1>2. open = FALSE /\ mode = "username"
  BY DEF SessionInit, Init
<1>3. 0 \in 0 .. FieldLen /\ 0 \in 0 .. MaxLine /\ 0 \in 0 .. HelpPages
  BY SessionAssumption
<1>4. page = 0 /\ held = {} /\ buf_idx = 0 /\ key_buffer = 0
      /\ shift_pressed = FALSE /\ ctrl_pressed = FALSE
  BY DEF SessionInit
<1>5. SessionTypeOK
  <2>1. (page > 0) = (mode = "help")
    BY <1>2, <1>4
  <2>2. open = (mode = "editor")
    BY <1>2
  <2>3. held \subseteq Modifiers /\ shift_pressed \in BOOLEAN /\ ctrl_pressed \in BOOLEAN
    BY <1>4
  <2>4. mode \in Modes
    BY <1>2 DEF Modes
  <2> QED
    BY <1>1, <1>3, <1>4, <2>1, <2>2, <2>3, <2>4 DEF SessionTypeOK
<1>6. NoStuckShift
  BY <1>4 DEF NoStuckShift
<1> QED
  BY <1>5, <1>6 DEF SessionInv

LEMMA ModifierInv ==
  ASSUME SessionInv, NEW m \in Modifiers, Press(m) \/ Release(m)
  PROVE  SessionInv'
<1>1. TypeOK' /\ open' = open
  BY DEF Press, Release, vars, SessionInv, SessionTypeOK, TypeOK
<1>2. mode' = mode /\ mode \in ShiftLoops
  BY DEF Press, Release, SessionInv, SessionTypeOK, ShiftLoops
<1>3. SessionTypeOK'
  BY <1>1 DEF Press, Release, SessionInv, SessionTypeOK
<1>4. NoStuckShift'
  <2>1. CASE m \in Shifts /\ Press(m)
    BY <2>1 DEF Press, NoStuckShift
  <2>2. CASE m \in Shifts /\ Release(m)
    BY <1>2, <2>2 DEF Release, NoStuckShift
  <2>3. CASE m \notin Shifts
    <3>1. held' \cap Shifts = held \cap Shifts
      BY <2>3 DEF Press, Release
    <3>2. shift_pressed' = shift_pressed
      BY <2>3 DEF Press, Release, SessionInv, SessionTypeOK
    <3> QED
      BY <3>1, <3>2 DEF NoStuckShift, SessionInv
  <2> QED
    BY <2>1, <2>2, <2>3
<1> QED
  BY <1>3, <1>4 DEF SessionInv

LEMMA SessionNextInv ==
  ASSUME SessionInv, TypeOK', [SessionNext]_session
  PROVE  SessionInv'
<1> USE SessionAssumption
<1>1. CASE UNCHANGED session
  BY <1>1 DEF session, keyboard, vars, SessionInv, SessionTypeOK, NoStuckShift
<1>2. CASE \E m \in Modifiers : Press(m) \/ Release(m)
  BY <1>2, ModifierInv
<1>3. CASE FieldKey \/ FieldBackspace
  BY <1>3 DEF FieldKey, FieldBackspace, FieldRoom, keyboard, vars,
              SessionInv, SessionTypeOK, NoStuckShift
<1>4. CASE UsernameEnter \/ \E verified \in BOOLEAN : PasswordEnter(verified)
  BY <1>4 DEF UsernameEnter, PasswordEnter, keyboard, vars, Modes,
              SessionInv, SessionTypeOK, NoStuckShift
<1>5. CASE LineKey \/ LineBackspace \/ RunCommand
  BY <1>5 DEF LineKey, LineBackspace, RunCommand, keyboard, vars,
              SessionInv, SessionTypeOK, NoStuckShift
<1>6. CASE RunLogout
  BY <1>6 DEF RunLogout, keyboard, vars, Modes,
              SessionInv, SessionTypeOK, NoStuckShift
<1>12. CASE RunHelp
  <2>1. HelpPages \in 0 .. HelpPages
    OBVIOUS
  <2> QED
    BY <1>12, <2>1 DEF RunHelp, keyboard, vars, Modes,
                       SessionInv, SessionTypeOK, NoStuckShift
<1>7. CASE RunRemove
  BY <1>7 DEF RunRemove, Remove, keyboard, SessionInv, SessionTypeOK, NoStuckShift
<1>8. CASE RunEdit
  <2>1. /\ mode' = "editor" /\ open' = TRUE
        /\ mode = "shell" /\ UNCHANGED <<page, keyboard, buf_idx, key_buffer>>
    BY <1>8 DEF RunEdit, Open
  <2> QED
    BY <2>1 DEF keyboard, Modes, SessionInv, SessionTypeOK, NoStuckShift
<1>9. CASE HelpKey
  <2>1. /\ mode = "help" /\ page' = page - 1
        /\ mode' \in {"shell", "help"} /\ key_buffer' \in {0, key_buffer}
        /\ page' = 0 => mode' = "shell"
        /\ page' # 0 => mode' = "help"
        /\ UNCHANGED <<keyboard, buf_idx, open>>
    BY <1>9 DEF HelpKey, vars
  <2>2. page \in 1 .. HelpPages
    BY <2>1 DEF SessionInv, SessionTypeOK
  <2> QED
    BY <2>1, <2>2 DEF keyboard, Modes, SessionInv, SessionTypeOK, NoStuckShift
<1>10. CASE EditorEnter \/ EditorBackspace \/ \E k \in Keys : EditorKey(k)
  BY <1>10 DEF EditorEnter, EditorBackspace, EditorKey, Type, Backspace, keyboard,
               SessionInv, SessionTypeOK, NoStuckShift
<1>11. CASE SaveKey
  <2>2. 0 \in 0 .. MaxLine
    OBVIOUS
  <2>1. /\ mode = "editor" /\ mode' = "shell" /\ open' = FALSE /\ key_buffer' = 0
        /\ UNCHANGED <<page, keyboard, buf_idx>>
    BY <1>11 DEF SaveKey, Save, SaveFails
  <2> QED
    BY <2>1, <2>2 DEF keyboard, Modes, SessionInv, SessionTypeOK, NoStuckShift
<1> QED
  BY <1>1, <1>2, <1>3, <1>4, <1>5, <1>6, <1>7, <1>8, <1>9, <1>10, <1>11, <1>12
  DEF SessionNext

\* The user name and the password never outgrow their fields, and the editor
\* runs in its own loop only.
THEOREM SessionTypeCorrect == SessionSpec => []SessionTypeOK
<1>1. SessionSpec => []TypeOK
  BY SessionRunsEditor, TypeCorrect, PTL
<1>2. SessionInv => SessionTypeOK
  BY DEF SessionInv
<1>3. SessionInv /\ TypeOK' /\ [SessionNext]_session => SessionInv'
  BY SessionNextInv
<1> QED
  BY <1>1, <1>2, <1>3, SessionInitInv, PTL DEF SessionSpec

\* A shift key that is released in one loop is released for all of them.
THEOREM ShiftCorrect == SessionSpec => []NoStuckShift
<1>1. SessionSpec => []TypeOK
  BY SessionRunsEditor, TypeCorrect, PTL
<1>2. SessionInv => NoStuckShift
  BY DEF SessionInv
<1>3. SessionInv /\ TypeOK' /\ [SessionNext]_session => SessionInv'
  BY SessionNextInv
<1> QED
  BY <1>1, <1>2, <1>3, SessionInitInv, PTL DEF SessionSpec

\* A ctrl key that is pressed or released is noticed by every loop but those of
\* the login: on any other step, ctrl_pressed stays in step with the keys, unless
\* one of two held ctrl keys is released, and then it is cleared, never set.
THEOREM CtrlCorrect == SessionSpec => CtrlStaysInStep
<1>1. SessionSpec => []SessionTypeOK
  BY SessionTypeCorrect
<1>2. SessionTypeOK /\ [SessionNext]_session
        => [CtrlInStep /\ ~ CtrlInStep' =>
              Login \/ (Ctrls \subseteq held /\ ~ ctrl_pressed')]_session
  <2> SUFFICES ASSUME SessionTypeOK, SessionNext, CtrlInStep, ~ Login
               PROVE  CtrlInStep' \/ (Ctrls \subseteq held /\ ~ ctrl_pressed')
    BY DEF CtrlInStep
  <2>1. mode \in CtrlLoops /\ mode # "username" /\ mode # "password"
    BY DEF SessionTypeOK, Modes, Login, CtrlLoops
  <2>2. ASSUME NEW m \in Modifiers, Press(m)
        PROVE  CtrlInStep'
    <3>1. CASE m \in Ctrls
      <4>1. held' \cap Ctrls # {}
        BY <2>2, <3>1 DEF Press
      <4>2. ctrl_pressed' = TRUE
        BY <2>1, <2>2, <3>1 DEF Press, SessionTypeOK
      <4> QED
        BY <4>1, <4>2 DEF CtrlInStep
    <3>2. CASE m \notin Ctrls
      <4>1. held' \cap Ctrls = held \cap Ctrls
        BY <2>2, <3>2 DEF Press
      <4>2. ctrl_pressed' = ctrl_pressed
        BY <2>2, <3>2 DEF Press, SessionTypeOK
      <4> QED
        BY <4>1, <4>2 DEF CtrlInStep
    <3> QED
      BY <3>1, <3>2
  <2>3. ASSUME NEW m \in Modifiers, Release(m)
        PROVE  CtrlInStep' \/ (Ctrls \subseteq held /\ ~ ctrl_pressed')
    <3>1. CASE m \in Ctrls
      <4>1. ctrl_pressed' = FALSE
        BY <2>1, <2>3, <3>1 DEF Release, SessionTypeOK
      <4>2. CASE Ctrls \subseteq held
        BY <4>1, <4>2
      <4>3. CASE ~ (Ctrls \subseteq held)
        <5>1. held' \cap Ctrls = {}
          BY <2>3, <3>1, <4>3 DEF Release, Ctrls
        <5> QED
          BY <4>1, <5>1 DEF CtrlInStep
      <4> QED
        BY <4>2, <4>3
    <3>2. CASE m \notin Ctrls
      <4>1. held' \cap Ctrls = held \cap Ctrls
        BY <2>3, <3>2 DEF Release
      <4>2. ctrl_pressed' = ctrl_pressed
        BY <2>3, <3>2 DEF Release, SessionTypeOK
      <4> QED
        BY <4>1, <4>2 DEF CtrlInStep
    <3> QED
      BY <3>1, <3>2
  <2>4. CASE UNCHANGED keyboard
    BY <2>4 DEF keyboard, CtrlInStep
  <2>5. \/ \E m \in Modifiers : Press(m) \/ Release(m)
        \/ UNCHANGED keyboard
    BY DEF SessionNext, FieldKey, FieldBackspace, UsernameEnter, PasswordEnter, LineKey,
           LineBackspace, RunCommand, RunRemove, RunLogout, RunHelp, RunEdit, HelpKey,
           EditorKey, EditorEnter, EditorBackspace, SaveKey
  <2> QED
    BY <2>2, <2>3, <2>4, <2>5
<1> QED
  BY <1>1, <1>2, PTL DEF SessionSpec, CtrlStaysInStep
=============================================================================
