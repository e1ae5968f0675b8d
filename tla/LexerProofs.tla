---------------------------- MODULE LexerProofs ----------------------------
(***************************************************************************)
(* The lexer makes exact tokens at true places, for every text. The proof  *)
(* rests on an invariant that says, between two tokens, that only blanks   *)
(* and comments were passed, and inside a string literal, that its end has *)
(* not been passed: in a block no quotes, in an ordinary literal none that *)
(* is not escaped. What is repeated along the text (a run of characters,   *)
(* the place after many, a row of backslashes) is reasoned about by the    *)
(* least position at which something holds. The operators are exact since  *)
(* no row of the switch comes before a longer one that begins with it.     *)
(***************************************************************************)
EXTENDS Lexer, FiniteSetTheorems, SequenceTheorems, WellFoundedInduction, TLAPS

LEMMA Least ==
    ASSUME NEW S, S \subseteq Nat, S # {}
    PROVE  \E n \in S : \A m \in S : n <= m
<1> DEFINE R == OpToRel(<, Nat)
<1>1. IsWellFoundedOn(R, Nat)
  BY NatLessThanWellFounded
<1>2. \A m, n \in Nat : <<m, n>> \in R <=> m < n
  BY DEF OpToRel
<1> HIDE DEF R
<1>3. PICK n \in S : \A m \in S : ~(<<m, n>> \in R)
  BY <1>1, WFMin
<1>4. ASSUME NEW m \in S PROVE n <= m
  <2>1. m \in Nat /\ n \in Nat /\ ~(<<m, n>> \in R)
    BY <1>3
  <2> QED
    BY <1>2, <2>1
<1> QED
  BY <1>4

LEMMA MinLeast ==
    ASSUME NEW S, S \subseteq Nat, S # {}
    PROVE  Min(S) \in S /\ \A m \in S : Min(S) <= m
BY Least DEF Min

\* The least element is the only one.
LEMMA MinIs ==
    ASSUME NEW S, S \subseteq Nat, NEW n \in S, \A m \in S : n <= m
    PROVE  Min(S) = n
<1>1. Min(S) \in S /\ \A m \in S : Min(S) <= m
  BY MinLeast
<1>2. n \in Nat /\ Min(S) \in Nat /\ Min(S) <= n /\ n <= Min(S)
  BY <1>1
<1> QED
  BY <1>2

LEMMA MaxIs ==
    ASSUME NEW S, S \subseteq Nat, NEW n \in S, \A m \in S : m <= n
    PROVE  Max(S) = n
<1>1. \A m \in S : n >= m
  OBVIOUS
<1>2. Max(S) \in S /\ \A m \in S : Max(S) >= m
  BY <1>1 DEF Max
<1>3. n \in Nat /\ Max(S) \in Nat /\ Max(S) <= n /\ n <= Max(S)
  BY <1>2
<1> QED
  BY <1>3

\* A set of numbers below a bound has a greatest element.
LEMMA Greatest ==
    ASSUME NEW n \in Nat, NEW S, S \subseteq 0 .. n, S # {}
    PROVE  \E m \in S : \A k \in S : k <= m
<1> DEFINE T == {n - k : k \in S}
<1>0. S \subseteq Nat /\ \A k \in S : n - k \in Nat
  OBVIOUS
<1>1. T \subseteq Nat /\ T # {}
  BY <1>0
<1>2. PICK t \in T : \A u \in T : t <= u
  BY <1>1, Least
<1>3. PICK m \in S : t = n - m
  OBVIOUS
<1>4. ASSUME NEW k \in S PROVE k <= m
  <2>1. k \in Nat /\ m \in Nat /\ n - m <= n - k
    BY <1>0, <1>2, <1>3
  <2> QED
    BY <2>1
<1> QED
  BY <1>4

-----------------------------------------------------------------------------

LEMMA TextType ==
    ASSUME source \in Sources
    PROVE  /\ Size \in Nat /\ Size = Len(source) /\ DOMAIN source = 1 .. Size
           /\ source \in Seq(ToSet(source))
BY SourcesAssumption DEF Size

LEMMA AtFacts ==
    ASSUME source \in Sources
    PROVE  /\ \A p \in Nat : p >= Size => At(p) = NUL
           /\ \A p \in Nat : p < Size => At(p) = source[p + 1] /\ At(p) \in ToSet(source)
<1>1. ASSUME NEW p \in Nat, p < Size
      PROVE  At(p) = source[p + 1] /\ At(p) \in ToSet(source)
  BY <1>1, TextType DEF At, ToSet
<1>2. \A p \in Nat : p >= Size => At(p) = NUL
  BY DEF At
<1> QED
  BY <1>1, <1>2

\* Slice(p, q) are the characters from p up to q, or to the end of the text.
LEMMA SliceFacts ==
    ASSUME source \in Sources, NEW p \in Nat, NEW q \in Nat, p <= Size, p <= q
    PROVE  /\ Slice(p, q) \in Seq(ToSet(source))
           /\ Len(Slice(p, q)) = (IF q <= Size THEN q ELSE Size) - p
           /\ \A i \in 1 .. Len(Slice(p, q)) : Slice(p, q)[i] = At(p + i - 1)
<1> DEFINE e == IF q <= Size THEN q ELSE Size
<1>1. /\ Size \in Nat /\ Size = Len(source) /\ DOMAIN source = 1 .. Size
      /\ source \in Seq(ToSet(source))
  BY TextType
<1>2. Min({q, Size}) = e
  BY <1>1 DEF Min
<1>3. e \in Nat /\ p <= e /\ e <= Size
  BY <1>1
<1>4. Slice(p, q) = SubSeq(source, p + 1, e)
  BY <1>2 DEF Slice
<1> HIDE DEF e
<1>5. \A i \in p + 1 .. e : source[i] \in ToSet(source)
  BY <1>1, <1>3
<1>6. /\ SubSeq(source, p + 1, e) \in Seq(ToSet(source))
      /\ Len(SubSeq(source, p + 1, e)) = IF p + 1 <= e THEN e - (p + 1) + 1 ELSE 0
      /\ \A i \in 1 .. e - (p + 1) + 1 : SubSeq(source, p + 1, e)[i] = source[(p + 1) + i - 1]
  BY <1>1, <1>3, <1>5, SubSeqProperties
<1>7. Len(Slice(p, q)) = e - p
  BY <1>3, <1>4, <1>6
<1>8. ASSUME NEW i \in 1 .. e - p PROVE Slice(p, q)[i] = At(p + i - 1)
  <2>1. p + i - 1 \in Nat /\ p + i - 1 < Size /\ (p + 1) + i - 1 = (p + i - 1) + 1
        /\ i \in 1 .. e - (p + 1) + 1
    BY <1>1, <1>3
  <2> QED
    BY <1>4, <1>6, <2>1, AtFacts
<1> QED
  BY <1>4, <1>6, <1>7, <1>8 DEF e

\* The text has the characters of w at p.
LEMMA SliceIs ==
    ASSUME source \in Sources, NEW p \in Nat, p <= Size, NEW S, NEW w \in Seq(S)
    PROVE  Slice(p, p + Len(w)) = w
              <=> /\ p + Len(w) <= Size
                  /\ \A i \in 1 .. Len(w) : At(p + i - 1) = w[i]
<1> DEFINE s == Slice(p, p + Len(w))
<1>1. Len(w) \in Nat /\ p + Len(w) \in Nat /\ p <= p + Len(w) /\ Size \in Nat
  BY TextType
<1>2. /\ s \in Seq(ToSet(source))
      /\ Len(s) = (IF p + Len(w) <= Size THEN p + Len(w) ELSE Size) - p
      /\ \A i \in 1 .. Len(s) : s[i] = At(p + i - 1)
  BY <1>1, SliceFacts
<1> HIDE DEF s
<1>3. ASSUME s = w
      PROVE  p + Len(w) <= Size /\ \A i \in 1 .. Len(w) : At(p + i - 1) = w[i]
  BY <1>1, <1>2, <1>3
<1>4. ASSUME p + Len(w) <= Size, \A i \in 1 .. Len(w) : At(p + i - 1) = w[i]
      PROVE  s = w
  <2>1. Len(s) = Len(w) /\ \A i \in 1 .. Len(w) : s[i] = w[i]
    BY <1>1, <1>2, <1>4
  <2> QED
    BY <1>2, <2>1, SeqEqual
<1> QED
  BY <1>3, <1>4 DEF s

\* A run ends where the text does, or before the first character that is not
\* of its class.
LEMMA RunEndFacts ==
    ASSUME source \in Sources, NEW p \in Nat, p <= Size, NEW C
    PROVE  /\ RunEnd(p, C) \in p .. Size
           /\ \A i \in p .. RunEnd(p, C) - 1 : At(i) \in C
           /\ RunEnd(p, C) = Size \/ At(RunEnd(p, C)) \notin C
<1> DEFINE S == {q \in p .. Size : q = Size \/ At(q) \notin C}
<1>1. Size \in Nat
  BY TextType
<1>2. S \subseteq Nat /\ S # {}
  BY <1>1
<1>3. PICK q \in S : \A r \in S : q <= r
  BY <1>2, Least
<1>4. q \in p .. Size /\ (q = Size \/ At(q) \notin C)
  BY <1>3
<1>5. ASSUME NEW i \in p .. q - 1 PROVE At(i) \in C
  <2>1. i \in p .. Size /\ ~(q <= i)
    BY <1>1, <1>4
  <2> QED
    BY <1>3, <2>1
<1>6. \E r \in p .. Size : /\ \A i \in p .. (r - 1) : At(i) \in C
                           /\ r = Size \/ At(r) \notin C
  BY <1>4, <1>5
<1> QED
  BY <1>6 DEF RunEnd

-----------------------------------------------------------------------------
(***************************************************************************)
(* Places                                                                  *)
(***************************************************************************)

Ends(p) == {i \in 0 .. (p - 1) : At(i) = "\n"}

LEMMA EndsFinite ==
    ASSUME NEW p \in Nat
    PROVE  IsFiniteSet(Ends(p)) /\ Cardinality(Ends(p)) \in Nat
<1>1. IsFiniteSet(0 .. (p - 1)) /\ Ends(p) \subseteq 0 .. (p - 1)
  BY FS_Interval DEF Ends
<1>2. IsFiniteSet(Ends(p))
  BY <1>1, FS_Subset
<1> QED
  BY <1>2, FS_CardinalityType

LEMMA PlaceOfDef ==
    ASSUME NEW p
    PROVE  PlaceOf(p) = [line |-> Cardinality(Ends(p)) + 1,
                         column |-> IF Ends(p) = {} THEN p + 1 ELSE p - Max(Ends(p))]
BY DEF PlaceOf, Ends

LEMMA PlaceZero == PlaceOf(0) = [line |-> 1, column |-> 1]
<1>1. Ends(0) = {}
  BY DEF Ends
<1>2. Cardinality(Ends(0)) = 0
  BY <1>1, FS_EmptySet
<1> QED
  BY <1>1, <1>2, PlaceOfDef

LEMMA PlaceType ==
    ASSUME NEW p \in Nat
    PROVE  PlaceOf(p) \in [line : Nat, column : Nat]
<1>1. Cardinality(Ends(p)) \in Nat
  BY EndsFinite
<1>2. CASE Ends(p) = {}
  <2>1. PlaceOf(p) = [line |-> Cardinality(Ends(p)) + 1, column |-> p + 1]
    BY <1>2, PlaceOfDef
  <2> QED
    BY <1>1, <2>1
<1>3. CASE Ends(p) # {}
  <2>1. p - 1 \in Nat /\ Ends(p) \subseteq 0 .. (p - 1)
    BY <1>3 DEF Ends
  <2>2. PICK m \in Ends(p) : \A k \in Ends(p) : k <= m
    BY <1>3, <2>1, Greatest
  <2>3. Ends(p) \subseteq Nat
    BY <2>1
  <2>4. Max(Ends(p)) = m /\ m \in 0 .. (p - 1)
    BY <2>1, <2>2, <2>3, MaxIs
  <2> QED
    BY <1>1, <1>3, <2>4, PlaceOfDef
<1> QED
  BY <1>2, <1>3

\* One character on, the place is what advance() makes of it.
LEMMA PlaceNext ==
    ASSUME NEW p \in Nat
    PROVE  PlaceOf(p + 1) = Passed(PlaceOf(p), At(p))
<1>0. Ends(p) \subseteq Nat /\ p \notin Ends(p) /\ \A k \in Ends(p) : k <= p
  BY DEF Ends
<1>1. /\ IsFiniteSet(Ends(p)) /\ Cardinality(Ends(p)) \in Nat
      /\ Ends(p) \subseteq Nat /\ p \notin Ends(p) /\ \A k \in Ends(p) : k <= p
  BY <1>0, EndsFinite
<1>2. CASE At(p) = "\n"
  <2>1. Ends(p + 1) = Ends(p) \cup {p}
    BY <1>2 DEF Ends
  <2>2. Cardinality(Ends(p + 1)) = Cardinality(Ends(p)) + 1
    BY <1>1, <2>1, FS_AddElement
  <2>3. Ends(p + 1) \subseteq Nat /\ p \in Ends(p + 1) /\ \A k \in Ends(p + 1) : k <= p
    BY <1>1, <2>1
  <2>4. Max(Ends(p + 1)) = p /\ Ends(p + 1) # {}
    BY <2>3, MaxIs
  <2> QED
    BY <1>1, <1>2, <2>2, <2>4, PlaceOfDef DEF Passed
<1>3. CASE At(p) # "\n"
  <2>1. Ends(p + 1) = Ends(p)
    BY <1>3 DEF Ends
  <2>2. CASE Ends(p) = {}
    BY <1>1, <1>3, <2>1, <2>2, PlaceOfDef DEF Passed
  <2>3. CASE Ends(p) # {}
    <3>1. p - 1 \in Nat /\ Ends(p) \subseteq 0 .. (p - 1)
      BY <2>3 DEF Ends
    <3>2. PICK m \in Ends(p) : \A k \in Ends(p) : k <= m
      BY <2>3, <3>1, Greatest
    <3>3. Max(Ends(p)) = m /\ m \in 0 .. (p - 1)
      BY <1>1, <3>1, <3>2, MaxIs
    <3> QED
      BY <1>1, <1>3, <2>1, <2>3, <3>3, PlaceOfDef DEF Passed
  <2> QED
    BY <2>2, <2>3
<1> QED
  BY <1>2, <1>3

\* advance(), repeated, keeps the place true.
LEMMA PlaceAfterIs ==
    ASSUME pos \in Nat, place = PlaceOf(pos), NEW q \in Nat, pos <= q
    PROVE  PlaceAfter(q) = PlaceOf(q)
<1> DEFINE Def(f) == f = [p \in pos .. q |-> IF p = pos THEN place
                                            ELSE Passed(f[p - 1], At(p - 1))]
           f == CHOOSE g : Def(g)
           h == [p \in pos .. q |-> PlaceOf(p)]
<1>1. Def(h)
  <2>1. ASSUME NEW p \in pos .. q, p # pos
        PROVE  PlaceOf(p) = Passed(h[p - 1], At(p - 1))
    <3>1. p - 1 \in Nat /\ p - 1 \in pos .. q /\ (p - 1) + 1 = p
      BY <2>1
    <3>2. PlaceOf((p - 1) + 1) = Passed(PlaceOf(p - 1), At(p - 1))
      BY <3>1, PlaceNext
    <3> QED
      BY <3>1, <3>2
  <2>2. \A p \in pos .. q : PlaceOf(p) = IF p = pos THEN place
                                         ELSE Passed(h[p - 1], At(p - 1))
    BY <2>1
  <2> QED
    BY <2>2
<1>2. Def(f)
  BY <1>1
<1>3. PlaceAfter(q) = f[q]
  BY DEF PlaceAfter
<1> HIDE DEF f
<1>4. \A p \in pos .. q : f[p] = IF p = pos THEN place
                                 ELSE Passed(f[p - 1], At(p - 1))
  BY <1>2
<1> DEFINE bad == {p \in pos .. q : f[p] # PlaceOf(p)}
<1>5. ASSUME bad # {} PROVE FALSE
  <2>1. bad \subseteq Nat
    OBVIOUS
  <2>2. PICK p \in bad : \A r \in bad : p <= r
    BY <1>5, <2>1, Least
  <2>3. p \in pos .. q /\ f[p] # PlaceOf(p) /\ p # pos
    BY <1>4, <2>2
  <2>4. p - 1 \in Nat /\ p - 1 \in pos .. q /\ ~(p <= p - 1) /\ (p - 1) + 1 = p
    BY <2>3
  <2>5. f[p - 1] = PlaceOf(p - 1)
    BY <2>2, <2>4
  <2>6. PlaceOf((p - 1) + 1) = Passed(PlaceOf(p - 1), At(p - 1))
    BY <2>4, PlaceNext
  <2> QED
    BY <1>4, <2>3, <2>4, <2>5, <2>6
<1> QED
  BY <1>3, <1>5

-----------------------------------------------------------------------------
(***************************************************************************)
(* The table of operators. Its rows are in parts whose first characters    *)
(* differ; in a part no text comes before a longer one that begins with it.*)
(***************************************************************************)

OtherTypes == {"STRING_LITERAL", "INTEGER_LITERAL", "FLOAT_LITERAL", "KEYWORD",
               "IDENTIFIER", "UNKNOWN", "END_OF_FILE"}

Row(o, C) ==
  /\ o = <<o[1], o[2]>> /\ o[1] \notin OtherTypes /\ o[2][1] \in C
  /\ o[2] = <<o[2][1]>> \/ o[2] = <<o[2][1], o[2][2]>> \/ o[2] = <<o[2][1], o[2][2], o[2][3]>>

\* v does not hide w, of which it would be the beginning.
Differs(v, w) ==
  /\ Len(v) = 1 /\ Len(w) # 1 => v[1] # w[1]
  /\ Len(v) = 2 /\ Len(w) = 3 => v[1] # w[1] \/ v[2] # w[2]

Table(P, n, C) ==
  /\ Len(P) = n /\ P = [i \in 1 .. n |-> P[i]]
  /\ \A i \in 1 .. n : Row(P[i], C)
  /\ \A i, j \in 1 .. n : i < j => Differs(P[i][2], P[j][2])

LEMMA BracketsTable == Table(Brackets, 8, {"(", ")", "{", "}", "[", "]", ";", ","})
<1> DEFINE C == {"(", ")", "{", "}", "[", "]", ";", ","}
<1>0. Len(Brackets) = 8 /\ Brackets = [i \in 1 .. 8 |-> Brackets[i]]
  BY DEF Brackets
<1>a. ASSUME NEW o, NEW t, NEW c, o = <<t, <<c>>>>, t \notin OtherTypes, c \in C
      PROVE  Row(o, C) /\ Len(o[2]) = 1
  <2> HIDE DEF C
  <2> QED
    BY <1>a DEF Row
<1>1. Row(Brackets[1], C) /\ Len(Brackets[1][2]) = 1
  <2>1. Brackets[1] = <<"LPAREN", <<"(">>>>
    BY DEF Brackets
  <2>2. "LPAREN" \notin OtherTypes
    BY DEF OtherTypes
  <2>3. "(" \in C
    OBVIOUS
  <2> HIDE DEF C
  <2> QED
    BY <1>a, <2>1, <2>2, <2>3
<1>2. Row(Brackets[2], C) /\ Len(Brackets[2][2]) = 1
  <2>1. Brackets[2] = <<"RPAREN", <<")">>>>
    BY DEF Brackets
  <2>2. "RPAREN" \notin OtherTypes
    BY DEF OtherTypes
  <2>3. ")" \in C
    OBVIOUS
  <2> HIDE DEF C
  <2> QED
    BY <1>a, <2>1, <2>2, <2>3
<1>3. Row(Brackets[3], C) /\ Len(Brackets[3][2]) = 1
  <2>1. Brackets[3] = <<"LBRACE", <<"{">>>>
    BY DEF Brackets
  <2>2. "LBRACE" \notin OtherTypes
    BY DEF OtherTypes
  <2>3. "{" \in C
    OBVIOUS
  <2> HIDE DEF C
  <2> QED
    BY <1>a, <2>1, <2>2, <2>3
<1>4. Row(Brackets[4], C) /\ Len(Brackets[4][2]) = 1
  <2>1. Brackets[4] = <<"RBRACE", <<"}">>>>
    BY DEF Brackets
  <2>2. "RBRACE" \notin OtherTypes
    BY DEF OtherTypes
  <2>3. "}" \in C
    OBVIOUS
  <2> HIDE DEF C
  <2> QED
    BY <1>a, <2>1, <2>2, <2>3
<1>5. Row(Brackets[5], C) /\ Len(Brackets[5][2]) = 1
  <2>1. Brackets[5] = <<"LBRACKET", <<"[">>>>
    BY DEF Brackets
  <2>2. "LBRACKET" \notin OtherTypes
    BY DEF OtherTypes
  <2>3. "[" \in C
    OBVIOUS
  <2> HIDE DEF C
  <2> QED
    BY <1>a, <2>1, <2>2, <2>3
<1>6. Row(Brackets[6], C) /\ Len(Brackets[6][2]) = 1
  <2>1. Brackets[6] = <<"RBRACKET", <<"]">>>>
    BY DEF Brackets
  <2>2. "RBRACKET" \notin OtherTypes
    BY DEF OtherTypes
  <2>3. "]" \in C
    OBVIOUS
  <2> HIDE DEF C
  <2> QED
    BY <1>a, <2>1, <2>2, <2>3
<1>7. Row(Brackets[7], C) /\ Len(Brackets[7][2]) = 1
  <2>1. Brackets[7] = <<"SEMICOLON", <<";">>>>
    BY DEF Brackets
  <2>2. "SEMICOLON" \notin OtherTypes
    BY DEF OtherTypes
  <2>3. ";" \in C
    OBVIOUS
  <2> HIDE DEF C
  <2> QED
    BY <1>a, <2>1, <2>2, <2>3
<1>8. Row(Brackets[8], C) /\ Len(Brackets[8][2]) = 1
  <2>1. Brackets[8] = <<"COMMA", <<",">>>>
    BY DEF Brackets
  <2>2. "COMMA" \notin OtherTypes
    BY DEF OtherTypes
  <2>3. "," \in C
    OBVIOUS
  <2> HIDE DEF C
  <2> QED
    BY <1>a, <2>1, <2>2, <2>3
<1> HIDE DEF C
<1>9. \A i \in 1 .. 8 : Row(Brackets[i], C) /\ Len(Brackets[i][2]) = 1
  BY <1>1, <1>2, <1>3, <1>4, <1>5, <1>6, <1>7, <1>8
<1>b. \A i, j \in 1 .. 8 : i < j => Differs(Brackets[i][2], Brackets[j][2])
  BY <1>9 DEF Differs
<1> QED
  BY <1>0, <1>9, <1>b DEF Table, C

LEMMA PathsTable == Table(Paths, 6, {":", "."})
BY SMTT(60) DEF Table, Row, Differs, OtherTypes, Paths

LEMMA ArithmeticTable == Table(Arithmetic, 14, {"+", "-", "*", "/", "@", "%"})
BY SMTT(60) DEF Table, Row, Differs, OtherTypes, Arithmetic

LEMMA ComparisonTable == Table(Comparison, 18, {"=", "!", "?", "<", ">"})
BY SMTT(60) DEF Table, Row, Differs, OtherTypes, Comparison

LEMMA LogicTable == Table(Logic, 9, {"&", "|", "^", "~"})
BY SMTT(60) DEF Table, Row, Differs, OtherTypes, Logic

LEMMA Joined ==
    ASSUME NEW m \in Nat, NEW n \in Nat, NEW P, NEW Q, NEW C, NEW D,
           Table(P, m, C), Table(Q, n, D), C \cap D = {}
    PROVE  Table(P \o Q, m + n, C \cup D)
<1> DEFINE S == {P[i] : i \in 1 .. m} \cup {Q[i] : i \in 1 .. n}
<1>1. P \in Seq(S) /\ Len(P) = m /\ Q \in Seq(S) /\ Len(Q) = n
  <2>1. P = [i \in 1 .. m |-> P[i]] /\ Q = [i \in 1 .. n |-> Q[i]] /\ Len(P) = m /\ Len(Q) = n
    BY DEF Table
  <2>2. \A i \in 1 .. m : P[i] \in S
    OBVIOUS
  <2>3. \A i \in 1 .. n : Q[i] \in S
    OBVIOUS
  <2> HIDE DEF S
  <2>4. P \in [1 .. m -> S] /\ Q \in [1 .. n -> S]
    BY <2>1, <2>2, <2>3
  <2> QED
    BY <2>1, <2>4, SeqDef
<1> HIDE DEF S
<1>2. /\ P \o Q \in Seq(S) /\ Len(P \o Q) = m + n
      /\ \A i \in 1 .. m + n : (P \o Q)[i] = IF i <= m THEN P[i] ELSE Q[i - m]
  BY <1>1, ConcatProperties
<1> DEFINE R == P \o Q
<1>3. /\ R \in Seq(S) /\ Len(R) = m + n
      /\ \A i \in 1 .. m : R[i] = P[i]
      /\ \A i \in 1 .. m + n : i <= m \/ (i - m \in 1 .. n /\ R[i] = Q[i - m])
  BY <1>2
<1> HIDE DEF R
<1>4. R = [i \in 1 .. m + n |-> R[i]]
  BY <1>3
<1>5. ASSUME NEW i \in 1 .. m + n PROVE Row(R[i], C \cup D)
  <2>1. CASE i <= m
    <3>1. i \in 1 .. m /\ R[i] = P[i]
      BY <1>3, <2>1
    <3> QED
      BY <3>1 DEF Table, Row
  <2>2. CASE ~(i <= m)
    <3>1. i - m \in 1 .. n /\ R[i] = Q[i - m]
      BY <1>3, <2>2
    <3> QED
      BY <3>1 DEF Table, Row
  <2> QED
    BY <2>1, <2>2
<1>6. ASSUME NEW i \in 1 .. m + n, NEW j \in 1 .. m + n, i < j
      PROVE  Differs(R[i][2], R[j][2])
  <2>1. CASE j <= m
    <3>1. i \in 1 .. m /\ R[i] = P[i] /\ j \in 1 .. m /\ R[j] = P[j]
      BY <1>3, <1>6, <2>1
    <3> QED
      BY <1>6, <3>1 DEF Table
  <2>2. CASE ~(i <= m)
    <3>1. i - m \in 1 .. n /\ R[i] = Q[i - m] /\ j - m \in 1 .. n /\ R[j] = Q[j - m] /\ i - m < j - m
      BY <1>3, <1>6, <2>2
    <3> QED
      BY <3>1 DEF Table
  <2>3. CASE i <= m /\ ~(j <= m)
    <3>1. i \in 1 .. m /\ R[i] = P[i] /\ j - m \in 1 .. n /\ R[j] = Q[j - m]
      BY <1>3, <2>3
    <3>2. Row(R[i], C) /\ Row(R[j], D)
      BY <3>1 DEF Table
    <3>3. R[i][2][1] # R[j][2][1]
      BY <3>2 DEF Row
    <3> QED
      BY <3>3 DEF Differs
  <2> QED
    BY <1>6, <2>1, <2>2, <2>3
<1> QED
  BY <1>3, <1>4, <1>5, <1>6 DEF Table, R

LEMMA OperatorsTable == \E C : Table(Operators, 55, C)
<1> DEFINE C1 == {"(", ")", "{", "}", "[", "]", ";", ","}
           C2 == {":", "."}
           C3 == {"+", "-", "*", "/", "@", "%"}
           C4 == {"=", "!", "?", "<", ">"}
           C5 == {"&", "|", "^", "~"}
<1>1. C1 \cap C2 = {} /\ (C1 \cup C2) \cap C3 = {}
  OBVIOUS
<1>2. ((C1 \cup C2) \cup C3) \cap C4 = {} /\ (((C1 \cup C2) \cup C3) \cup C4) \cap C5 = {}
  OBVIOUS
<1>3. Table(Brackets, 8, C1) /\ Table(Paths, 6, C2) /\ Table(Arithmetic, 14, C3)
      /\ Table(Comparison, 18, C4) /\ Table(Logic, 9, C5)
  BY BracketsTable, PathsTable, ArithmeticTable, ComparisonTable, LogicTable
<1> HIDE DEF C1, C2, C3, C4, C5
<1>4. Table(Brackets \o Paths, 8 + 6, C1 \cup C2)
  BY <1>1, <1>3, Joined
<1>5. Table((Brackets \o Paths) \o Arithmetic, 14 + 14, (C1 \cup C2) \cup C3)
  <2>1. Table(Brackets \o Paths, 14, C1 \cup C2)
    BY <1>4
  <2> QED
    BY <1>1, <1>3, <2>1, Joined
<1>6. Table(((Brackets \o Paths) \o Arithmetic) \o Comparison, 28 + 18, ((C1 \cup C2) \cup C3) \cup C4)
  <2>1. Table((Brackets \o Paths) \o Arithmetic, 28, (C1 \cup C2) \cup C3)
    BY <1>5
  <2> QED
    BY <1>2, <1>3, <2>1, Joined
<1>7. Table(Operators, 46 + 9, (((C1 \cup C2) \cup C3) \cup C4) \cup C5)
  <2>1. Table(((Brackets \o Paths) \o Arithmetic) \o Comparison, 46, ((C1 \cup C2) \cup C3) \cup C4)
    BY <1>6
  <2> QED
    BY <1>2, <1>3, <2>1, Joined DEF Operators
<1>8. Table(Operators, 55, (((C1 \cup C2) \cup C3) \cup C4) \cup C5)
  BY <1>7
<1> QED
  BY <1>8

LEMMA ShortSeq ==
    ASSUME NEW S, NEW a \in S, NEW b \in S, NEW c \in S, NEW w,
           w = <<a>> \/ w = <<a, b>> \/ w = <<a, b, c>>
    PROVE  w \in Seq(S) /\ Len(w) \in 1 .. 3
<1>1. CASE w = <<a>>
  BY <1>1
<1>2. CASE w = <<a, b>>
  BY <1>2
<1>3. CASE w = <<a, b, c>>
  BY <1>3
<1> QED
  BY <1>1, <1>2, <1>3

RowCharacters(i) == {Operators[i][2][k] : k \in 1 .. 3}

\* What the proofs below use of the table.
LEMMA OperatorRows ==
    /\ DOMAIN Operators = 1 .. 55 /\ Len(Operators) = 55
    /\ \A i \in 1 .. 55 :
         /\ Operators[i] = <<Operators[i][1], Operators[i][2]>>
         /\ Operators[i][1] \notin OtherTypes
         /\ Operators[i][2] \in Seq(RowCharacters(i))
         /\ Len(Operators[i][2]) \in 1 .. 3
    /\ \A i, j \in 1 .. 55 : i < j => Differs(Operators[i][2], Operators[j][2])
<1>1. PICK C : Table(Operators, 55, C)
  BY OperatorsTable
<1>2. Len(Operators) = 55 /\ Operators = [i \in 1 .. 55 |-> Operators[i]]
  BY <1>1 DEF Table
<1>3. DOMAIN Operators = 1 .. 55
  BY <1>2
<1>4. ASSUME NEW i \in 1 .. 55
      PROVE  /\ Operators[i][2] \in Seq(RowCharacters(i))
             /\ Len(Operators[i][2]) \in 1 .. 3
  <2> DEFINE w == Operators[i][2]
             S == RowCharacters(i)
  <2>1. w = <<w[1]>> \/ w = <<w[1], w[2]>> \/ w = <<w[1], w[2], w[3]>>
    BY <1>1 DEF Table, Row
  <2>2. w[1] \in S /\ w[2] \in S /\ w[3] \in S
    BY DEF RowCharacters
  <2> HIDE DEF w, S
  <2>3. w \in Seq(S) /\ Len(w) \in 1 .. 3
    BY <2>1, <2>2, ShortSeq
  <2> QED
    BY <2>3 DEF w, S
<1> QED
  BY <1>1, <1>2, <1>3, <1>4 DEF Table, Row

LEMMA OtherTypesFacts ==
    ASSUME NEW t, t.type \in OtherTypes
    PROVE  ~IsOperator(t)
BY OperatorRows DEF IsOperator

\* The texts of the table that the source has at p: of one length there is one.
LEMMA FitsFacts ==
    ASSUME source \in Sources, NEW p \in Nat, p < Size, NEW i \in 1 .. 55,
           Slice(p, p + Len(Operators[i][2])) = Operators[i][2]
    PROVE  /\ p + Len(Operators[i][2]) <= Size
           /\ \A k \in 1 .. Len(Operators[i][2]) : Operators[i][2][k] = At(p + k - 1)
<1>1. Operators[i][2] \in Seq(RowCharacters(i))
  BY OperatorRows
<1>2. p <= Size
  BY TextType
<1> QED
  BY <1>1, <1>2, SliceIs

\* The first branch that fits is the longest operator at pos.
LEMMA BranchFacts ==
    ASSUME source \in Sources, pos \in Nat, pos < Size, Branch # 0
    PROVE  /\ Branch \in 1 .. 55
           /\ Len(Operators[Branch][2]) \in 1 .. 3
           /\ Slice(pos, pos + Len(Operators[Branch][2])) = LongestAt(pos)
           /\ <<Operators[Branch][1], LongestAt(pos)>> \in ToSet(Operators)
           /\ Operators[Branch][1] \notin OtherTypes
<1> DEFINE I == {i \in 1 .. Len(Operators) : Fits(Operators[i])}
           b == Min(I)
           w == Operators[b][2]
<1>1. I # {} /\ Branch = b
  BY DEF Branch, SelectInSeq
<1>2. b \in I /\ \A j \in I : b <= j
  <2>1. I \subseteq 1 .. 55
    BY OperatorRows
  <2>2. I \subseteq Nat
    <3> HIDE DEF I
    <3> QED
      BY <2>1
  <2> HIDE DEF I
  <2> QED
    BY <1>1, <2>2, MinLeast DEF b
<1>3. b \in 1 .. 55 /\ Slice(pos, pos + Len(w)) = w
  BY <1>2, OperatorRows DEF Fits
<1> HIDE DEF b
<1>4. /\ Operators[b] = <<Operators[b][1], w>> /\ Operators[b][1] \notin OtherTypes
      /\ Len(w) \in 1 .. 3 /\ Operators[b] \in ToSet(Operators)
  BY <1>3, OperatorRows DEF ToSet
<1>5. ASSUME NEW j \in 1 .. 55, Slice(pos, pos + Len(Operators[j][2])) = Operators[j][2]
      PROVE  /\ Len(Operators[j][2]) <= Len(w)
             /\ Len(Operators[j][2]) = Len(w) => Operators[j][2] = w
  <2> DEFINE v == Operators[j][2]
  <2>1. Len(v) \in 1 .. 3
    BY OperatorRows
  <2>2. /\ \A k \in 1 .. Len(v) : v[k] = At(pos + k - 1)
        /\ \A k \in 1 .. Len(w) : w[k] = At(pos + k - 1)
    BY <1>3, <1>5, FitsFacts
  <2>3. v[1] = At(pos) /\ w[1] = At(pos) /\ (Len(v) # 1 /\ Len(w) # 1 => v[2] = w[2])
    <3>1. v[1] = At(pos + 1 - 1) /\ w[1] = At(pos + 1 - 1)
      BY <1>4, <2>1, <2>2
    <3>2. pos + 1 - 1 = pos
      OBVIOUS
    <3>3. ASSUME Len(v) # 1, Len(w) # 1 PROVE v[2] = w[2]
      <4>0. Len(v) \in 1 .. 3 /\ Len(w) \in 1 .. 3
        BY <1>4, <2>1
      <4> HIDE DEF v, w
      <4>1. 2 \in 1 .. Len(v) /\ 2 \in 1 .. Len(w)
        <5>1. ASSUME NEW n \in 1 .. 3, n # 1 PROVE 2 \in 1 .. n
          BY <5>1
        <5> QED
          BY <3>3, <4>0, <5>1
      <4> QED
        BY <2>2, <4>1
    <3> HIDE DEF v, w
    <3> QED
      BY <3>1, <3>2, <3>3
  <2>4. j \in I
    BY <1>5, <2>3, OperatorRows DEF Fits, peek
  <2>5. b = j \/ Differs(w, v)
    <3>1. b = j \/ b < j
      BY <1>2, <1>3, <2>4
    <3> QED
      BY <1>3, <3>1, OperatorRows
  <2>6. Len(v) <= Len(w)
    <3>0. Len(v) \in 1 .. 3 /\ Len(w) \in 1 .. 3
      BY <1>4, <2>1
    <3>1. CASE b = j
      BY <3>0, <3>1
    <3> HIDE DEF v, w
    <3>2. CASE Differs(w, v)
      <4>1. PICK m \in 1 .. 3, n \in 1 .. 3 : m = Len(w) /\ n = Len(v)
        BY <3>0
      <4>2. ~(m = 1 /\ n # 1) /\ ~(m = 2 /\ n = 3)
        BY <2>3, <3>2, <4>1 DEF Differs
      <4>3. n <= m
        BY <4>2
      <4> QED
        BY <4>1, <4>3
    <3> QED
      BY <2>5, <3>1, <3>2
  <2> QED
    BY <1>3, <1>5, <2>6
<1>6. LongestAt(pos) = w
  <2> DEFINE there == {Text(Operators[i]) : i \in {j \in DOMAIN Operators :
                         Slice(pos, pos + Len(Text(Operators[j]))) = Text(Operators[j])}}
  <2>1. w \in there
    BY <1>3, OperatorRows DEF Text
  <2>2. ASSUME NEW u \in there PROVE Len(u) \in Nat /\ Len(u) <= Len(w) /\ (Len(u) = Len(w) => u = w)
    <3>1. PICK j \in 1 .. 55 : u = Operators[j][2] /\ Slice(pos, pos + Len(u)) = u
      BY <2>2, OperatorRows DEF Text
    <3>2. Len(u) \in 1 .. 3
      BY <3>1, OperatorRows
    <3>3. Len(u) <= Len(w) /\ (Len(u) = Len(w) => u = w)
      BY <1>5, <3>1
    <3> QED
      BY <3>2, <3>3
  <2>3. LongestAt(pos) = CHOOSE t \in there : \A u \in there : Len(u) <= Len(t)
    BY DEF LongestAt
  <2> HIDE DEF there, w
  <2>4. PICK t \in there : LongestAt(pos) = t /\ \A u \in there : Len(u) <= Len(t)
    BY <2>1, <2>2, <2>3
  <2> QED
    BY <1>4, <2>1, <2>2, <2>4
<1> QED
  BY <1>1, <1>3, <1>4, <1>6

-----------------------------------------------------------------------------
(***************************************************************************)
(* Escapes: behind a backslash of a literal, a character is escaped if and *)
(* only if the backslash is not.                                           *)
(***************************************************************************)

LEMMA PlainBefore ==
    ASSUME NEW p \in Nat, NEW i \in Nat, At(i - 1) # "\\"
    PROVE  ~IsEscaped(p, i)
<1> SUFFICES ASSUME NEW n \in 1 .. (i - p - 1), \A k \in (i - n) .. (i - 1) : At(k) = "\\"
             PROVE  FALSE
  BY DEF IsEscaped
<1>1. i - 1 \in (i - n) .. (i - 1)
  OBVIOUS
<1> QED
  BY <1>1

LEMMA EscapedTwice ==
    ASSUME NEW p \in Nat, NEW i \in Nat, p < i - 1, IsEscaped(p, i), IsEscaped(p, i - 1)
    PROVE  FALSE
<1>1. PICK n \in 1 .. (i - p - 1) :
        /\ n % 2 = 1 /\ \A k \in (i - n) .. (i - 1) : At(k) = "\\"
        /\ i - n - 1 = p \/ At(i - n - 1) # "\\"
  BY DEF IsEscaped
<1>2. PICK m \in 1 .. ((i - 1) - p - 1) :
        /\ m % 2 = 1 /\ \A k \in ((i - 1) - m) .. ((i - 1) - 1) : At(k) = "\\"
        /\ (i - 1) - m - 1 = p \/ At((i - 1) - m - 1) # "\\"
  BY DEF IsEscaped
<1>3. CASE n < m + 1
  <2>1. i - n - 1 \in ((i - 1) - m) .. ((i - 1) - 1) /\ i - n - 1 # p
    BY <1>3
  <2> QED
    BY <1>1, <1>2, <2>1
<1>4. CASE n > m + 1
  <2>1. (i - 1) - m - 1 \in (i - n) .. (i - 1) /\ (i - 1) - m - 1 # p
    BY <1>4
  <2> QED
    BY <1>1, <1>2, <2>1
<1>5. n # m + 1
  BY <1>1, <1>2
<1> QED
  BY <1>3, <1>4, <1>5

LEMMA EscapedOnce ==
    ASSUME NEW p \in Nat, NEW i \in Nat, p < i - 1, At(i - 1) = "\\", ~IsEscaped(p, i - 1)
    PROVE  IsEscaped(p, i)
<1> DEFINE S == {s \in (p + 1) .. (i - 1) : \A k \in s .. (i - 1) : At(k) = "\\"}
<1>1. S \subseteq Nat
  OBVIOUS
<1>2. i - 1 \in S
  <2>1. \A k \in (i - 1) .. (i - 1) : k = i - 1
    OBVIOUS
  <2> QED
    BY <2>1
<1>3. PICK s \in S : \A r \in S : s <= r
  BY <1>1, <1>2, Least
<1>4. s \in (p + 1) .. (i - 1) /\ \A k \in s .. (i - 1) : At(k) = "\\"
  BY <1>3
<1>5. s - 1 = p \/ At(s - 1) # "\\"
  <2> SUFFICES ASSUME s - 1 # p, At(s - 1) = "\\" PROVE FALSE
    OBVIOUS
  <2>1. s - 1 \in (p + 1) .. (i - 1)
    BY <1>4
  <2>2. \A k \in (s - 1) .. (i - 1) : k = s - 1 \/ k \in s .. (i - 1)
    BY <1>4
  <2>3. s - 1 \in S
    BY <1>4, <2>1, <2>2
  <2> QED
    BY <1>3, <1>4, <2>3
<1> DEFINE n == i - s
<1>6. n \in 1 .. (i - p - 1) /\ i - n = s /\ i - n - 1 = s - 1
  BY <1>4
<1>7. CASE n % 2 = 1
  <2> HIDE DEF n
  <2> QED
    BY <1>4, <1>5, <1>6, <1>7 DEF IsEscaped
<1>8. CASE n % 2 # 1
  <2>1. n - 1 \in 1 .. ((i - 1) - p - 1) /\ (n - 1) % 2 = 1
    BY <1>6, <1>8
  <2>2. (i - 1) - (n - 1) = s /\ (i - 1) - (n - 1) - 1 = s - 1
    BY <1>6
  <2>3. \A k \in s .. ((i - 1) - 1) : At(k) = "\\"
    BY <1>4
  <2>4. IsEscaped(p, i - 1)
    <3> HIDE DEF n
    <3> QED
      BY <1>5, <2>1, <2>2, <2>3 DEF IsEscaped
  <2> QED
    BY <2>4
<1> QED
  BY <1>7, <1>8

-----------------------------------------------------------------------------
(***************************************************************************)
(* The text does not change, and what is said of it does not either.       *)
(***************************************************************************)

LEMMA AtKept ==
    ASSUME source' = source
    PROVE  Size' = Size /\ \A p : At(p)' = At(p)
BY DEF At, Size

LEMMA SliceKept ==
    ASSUME source' = source
    PROVE  \A p, q : Slice(p, q)' = Slice(p, q)
BY DEF Slice, Size

LEMMA PlaceOfKept ==
    ASSUME source' = source
    PROVE  \A p : PlaceOf(p)' = PlaceOf(p)
BY AtKept DEF PlaceOf

LEMMA IgnorableKept ==
    ASSUME source' = source
    PROVE  \A p, q : Ignorable(p, q)' <=> Ignorable(p, q)
BY AtKept DEF Ignorable

LEMMA LongestAtKept ==
    ASSUME source' = source
    PROVE  \A p : LongestAt(p)' = LongestAt(p)
BY SliceKept DEF LongestAt

LEMMA LiteralKept ==
    ASSUME source' = source
    PROVE  /\ \A p : QuotesAt(p)' <=> QuotesAt(p)
           /\ \A p, i : IsEscaped(p, i)' <=> IsEscaped(p, i)
           /\ \A p : LiteralEnd(p)' = LiteralEnd(p)
<1>1. \A p : QuotesAt(p)' <=> QuotesAt(p)
  BY SliceKept DEF QuotesAt
<1>2. \A p, i : IsEscaped(p, i)' <=> IsEscaped(p, i)
  BY AtKept DEF IsEscaped
<1>3. \A p : LiteralEnd(p)' = LiteralEnd(p)
  BY AtKept, <1>1, <1>2 DEF LiteralEnd
<1> QED
  BY <1>1, <1>2, <1>3

-----------------------------------------------------------------------------
(***************************************************************************)
(* The invariant                                                           *)
(***************************************************************************)

\* Where the last token ended.
End == IF tokens = <<>> THEN 0 ELSE tokens[Len(tokens)].to

\* A token lies in the text, knows its place and is read to its end.
ExactToken(t) ==
  /\ t.from \in Nat /\ t.to \in Nat
  /\ t.line = PlaceOf(t.from).line
  /\ t.column = PlaceOf(t.from).column + (IF t.type \in MadeLate THEN 2 ELSE 0)
  /\ t.type = "STRING_LITERAL" => t.to = LiteralEnd(t.from)
  /\ IsOperator(t) => /\ t.value = LongestAt(t.from)
                      /\ <<t.type, t.value>> \in ToSet(Operators)

Adjacent ==
  \A i \in DOMAIN tokens : Ignorable(IF i = 1 THEN 0 ELSE tokens[i - 1].to, tokens[i].from)

Basis ==
  /\ source \in Sources /\ pos \in Nat /\ place = PlaceOf(pos)
  /\ tokens \in Seq(Made)
  /\ \A t \in Made : ExactToken(t)
  /\ Adjacent

\* Only blanks and comments up to p.
CleanTo(p) == End <= p /\ Ignorable(End, p)

Opened ==
  /\ open = [value |-> open.value, at |-> open.at, from |-> open.from]
  /\ open.from \in Nat /\ CleanTo(open.from)
  /\ open.at = PlaceOf(open.from)

\* In a block: no """ since its own.
InBlock ==
  /\ Opened /\ QuotesAt(open.from)
  /\ pos \in (open.from + 3) .. Size
  /\ \A i \in (open.from + 3) .. (pos - 1) : ~QuotesAt(i)

\* In an ordinary literal: at a character that no backslash escapes, and all the
\* quotes and '\0's since the opening quote were escaped.
InString ==
  /\ Opened /\ ~QuotesAt(open.from)
  /\ pos \in (open.from + 1) .. (Size + 1)
  /\ ~IsEscaped(open.from, pos)
  /\ \A i \in (open.from + 1) .. (pos - 1) : At(i) \in {"\"", NUL} => IsEscaped(open.from, i)

Inv ==
  /\ Basis
  /\ status = "tokens" => CleanTo(pos)
  /\ status = "block" => InBlock
  /\ status = "string" => InString

LEMMA ExactKept ==
    ASSUME source' = source
    PROVE  \A t : ExactToken(t)' <=> ExactToken(t)
BY PlaceOfKept, LiteralKept, LongestAtKept DEF ExactToken, IsOperator

LEMMA PlacePrimed ==
    ASSUME source' = source
    PROVE  PlaceOf(pos)' = PlaceOf(pos')
BY PlaceOfKept

LEMMA Advanced ==
    ASSUME Basis, source' = source, NEW q \in Nat, pos <= q, AdvanceTo(q)
    PROVE  pos' \in Nat /\ place' = PlaceOf(pos)'
<1>1. pos' = q /\ place' = PlaceOf(q)
  BY PlaceAfterIs DEF Basis, AdvanceTo
<1> QED
  BY <1>1, PlacePrimed

\* No token is made.
LEMMA NothingMade ==
    ASSUME Basis, UNCHANGED <<source, tokens>>, pos' \in Nat, place' = PlaceOf(pos)'
    PROVE  Basis' /\ End' = End
<1>1. Made' = Made /\ End' = End
  BY DEF Made, End
<1>2. Adjacent'
  BY IgnorableKept DEF Adjacent, Basis
<1>3. \A t \in Made' : ExactToken(t)'
  BY <1>1, ExactKept DEF Basis
<1> QED
  BY <1>1, <1>2, <1>3 DEF Basis

LEMMA EndType ==
    ASSUME Basis
    PROVE  End \in Nat
<1>1. CASE tokens = <<>>
  BY <1>1 DEF End
<1>2. CASE tokens # <<>>
  <2>1. tokens[Len(tokens)] \in Made
    BY <1>2 DEF Basis, Made
  <2> QED
    BY <1>2, <2>1 DEF Basis, ExactToken, End
<1> QED
  BY <1>1, <1>2

\* An exact token is made, behind blanks and comments.
LEMMA TokenMade ==
    ASSUME Basis, source' = source, pos' \in Nat, place' = PlaceOf(pos)',
           NEW t, ExactToken(t), CleanTo(t.from), tokens' = Append(tokens, t)
    PROVE  Basis' /\ End' = t.to
<1> DEFINE S == Made \cup {t}
           n == Len(tokens)
<1>1. tokens \in Seq(Made) /\ tokens \in Seq(S) /\ t \in S
  BY DEF Basis
<1>2. /\ tokens' \in Seq(S) /\ tokens' # <<>> /\ Len(tokens') = n + 1
      /\ \A i \in 1 .. n : tokens'[i] = tokens[i]
      /\ tokens'[n + 1] = t
  <2> HIDE DEF S
  <2> QED
    BY <1>1, AppendProperties
<1>3. n \in Nat /\ DOMAIN tokens = 1 .. n /\ DOMAIN tokens' = 1 .. n + 1
  BY <1>1, <1>2
<1> HIDE DEF n
<1>4. End' = t.to
  BY <1>2 DEF End
<1>5. Made' = S
  <2>1. ASSUME NEW u \in Made' PROVE u \in S
    <3>1. PICK i \in 1 .. n + 1 : u = tokens'[i]
      BY <1>3, <2>1 DEF Made
    <3>2. i \in 1 .. n \/ i = n + 1
      BY <1>3
    <3> QED
      BY <1>2, <1>3, <3>1, <3>2 DEF Made
  <2>2. ASSUME NEW u \in S PROVE u \in Made'
    <3>1. CASE u = t
      <4>1. n + 1 \in DOMAIN tokens'
        BY <1>3
      <4> QED
        BY <1>2, <3>1, <4>1 DEF Made
    <3>2. CASE u \in Made
      <4>1. PICK i \in 1 .. n : u = tokens[i]
        BY <1>3, <3>2 DEF Made
      <4>2. i \in DOMAIN tokens' /\ tokens'[i] = u
        BY <1>2, <1>3, <4>1
      <4> QED
        BY <4>2 DEF Made
    <3> QED
      BY <2>2, <3>1, <3>2
  <2> QED
    BY <2>1, <2>2
<1>6. \A u \in Made' : ExactToken(u)'
  BY <1>5, ExactKept DEF Basis
<1>7. ASSUME NEW i \in 1 .. n + 1
      PROVE  Ignorable(IF i = 1 THEN 0 ELSE tokens'[i - 1].to, tokens'[i].from)
  <2>1. CASE i \in 1 .. n
    <3>1. i # 1 => i - 1 \in 1 .. n
      BY <1>3, <2>1
    <3>2. tokens'[i] = tokens[i] /\ (i # 1 => tokens'[i - 1] = tokens[i - 1])
      BY <1>2, <2>1, <3>1
    <3> QED
      BY <1>3, <2>1, <3>2 DEF Basis, Adjacent
  <2>2. CASE i = n + 1
    <3>1. CASE n = 0
      <4>1. tokens = <<>> /\ i = 1
        BY <1>1, <2>2, <3>1 DEF n
      <4> QED
        BY <1>2, <2>2, <4>1 DEF CleanTo, End
    <3>2. CASE n # 0
      <4>1. i - 1 = n /\ n \in 1 .. n /\ i # 1 /\ tokens # <<>>
        BY <1>1, <1>3, <2>2, <3>2 DEF n
      <4> QED
        BY <1>2, <2>2, <4>1 DEF CleanTo, End, n
    <3> QED
      BY <3>1, <3>2
  <2> QED
    BY <1>3, <2>1, <2>2
<1>8. Adjacent'
  BY <1>3, <1>7, IgnorableKept DEF Adjacent
<1> QED
  BY <1>2, <1>4, <1>5, <1>6, <1>8 DEF Basis

LEMMA IgnorableJoin ==
    ASSUME NEW p \in Nat, NEW r \in Nat, NEW q \in Nat, p <= r, r <= q,
           Ignorable(p, r), Ignorable(r, q)
    PROVE  Ignorable(p, q)
<1> SUFFICES ASSUME NEW i \in p .. (q - 1)
             PROVE  \/ At(i) \in Blanks
                    \/ \E j \in p .. i : /\ At(j) = "/" /\ At(j + 1) = "/"
                                         /\ \A k \in j .. i : At(k) \notin {"\n", NUL}
  BY DEF Ignorable
<1>1. CASE i < r
  <2>1. i \in p .. (r - 1)
    BY <1>1
  <2> QED
    BY <2>1 DEF Ignorable
<1>2. CASE ~(i < r)
  <2>1. i \in r .. (q - 1) /\ \A j \in r .. i : j \in p .. i
    BY <1>2
  <2> QED
    BY <2>1 DEF Ignorable
<1> QED
  BY <1>1, <1>2

LEMMA IgnorableNone ==
    ASSUME NEW p \in Nat
    PROVE  Ignorable(p, p)
<1>1. p .. (p - 1) = {}
  OBVIOUS
<1> QED
  BY <1>1 DEF Ignorable

\* Blanks and comments up to pos, and from there to q.
LEMMA CleanOn ==
    ASSUME Basis, CleanTo(pos), NEW q \in Nat, pos <= q, Ignorable(pos, q),
           UNCHANGED <<source, tokens>>, pos' = q
    PROVE  CleanTo(pos)'
<1>1. End \in Nat /\ pos \in Nat /\ End <= pos /\ Ignorable(End, pos)
  BY EndType DEF Basis, CleanTo
<1>2. End <= q /\ Ignorable(End, q)
  BY <1>1, IgnorableJoin
<1>3. End' = End
  BY DEF End
<1> QED
  BY <1>2, <1>3, IgnorableKept DEF CleanTo

LEMMA SkipWhitespaceInv == ASSUME Inv, SkipWhitespace PROVE Inv'
<1>1. /\ source \in Sources /\ pos \in Nat /\ pos < Size /\ Basis /\ CleanTo(pos)
      /\ status = "tokens" /\ status' = "tokens" /\ UNCHANGED <<source, tokens>>
  BY DEF Inv, Basis, SkipWhitespace, Lexing
<1>2. \E q \in Nat : pos <= q /\ Ignorable(pos, q) /\ AdvanceTo(q)
  <2>1. CASE peek \in Blanks /\ AdvanceTo(pos + 1)
    <3>1. \A i \in pos .. (pos + 1) - 1 : i = pos
      BY <1>1
    <3>2. Ignorable(pos, pos + 1)
      BY <2>1, <3>1 DEF Ignorable, peek
    <3> QED
      BY <1>1, <2>1, <3>2
  <2>2. CASE IsComment /\ AdvanceTo(CommentEnd)
    <3> DEFINE C == ToSet(source) \ {"\n", NUL}
    <3>0. pos <= Size /\ Size \in Nat
      BY <1>1, TextType
    <3>1. CommentEnd \in pos .. Size /\ \A i \in pos .. CommentEnd - 1 : At(i) \in C
      <4> HIDE DEF C
      <4> QED
        BY <1>1, <3>0, RunEndFacts DEF CommentEnd, C
    <3>2. At(pos) = "/" /\ At(pos + 1) = "/"
      BY <2>2 DEF IsComment, peek, peekNext
    <3>3. ASSUME NEW i \in pos .. CommentEnd - 1
          PROVE  pos \in pos .. i /\ \A k \in pos .. i : At(k) \notin {"\n", NUL}
      <4>1. pos \in pos .. i /\ \A k \in pos .. i : k \in pos .. CommentEnd - 1
        BY <1>1, <3>0, <3>1
      <4> QED
        BY <3>1, <4>1
    <3>4. Ignorable(pos, CommentEnd)
      BY <3>2, <3>3 DEF Ignorable
    <3> QED
      BY <1>1, <2>2, <3>0, <3>1, <3>4
  <2> QED
    BY <2>1, <2>2 DEF SkipWhitespace
<1>3. PICK q \in Nat : pos <= q /\ Ignorable(pos, q) /\ AdvanceTo(q)
  BY <1>2
<1>4. Basis'
  BY <1>1, <1>3, Advanced, NothingMade
<1>5. CleanTo(pos)'
  BY <1>1, <1>3, CleanOn DEF AdvanceTo
<1> QED
  BY <1>1, <1>4, <1>5 DEF Inv

\* A token that is read at pos.
LEMMA MadeInv ==
    ASSUME Inv, status = "tokens", pos < Size, NEW q \in Nat, pos <= q, NEW type, NEW at,
           MakeTo(type, at, q), ExactToken(Token(type, Slice(pos, q), at, pos, q))
    PROVE  Inv'
<1> DEFINE t == Token(type, Slice(pos, q), at, pos, q)
<1>1. t.from = pos /\ t.to = q
  BY DEF Token
<1>2. /\ Basis /\ CleanTo(pos) /\ source' = source /\ AdvanceTo(q) /\ status' = "tokens"
      /\ tokens' = Append(tokens, t)
  BY DEF Inv, MakeTo
<1>3. Basis' /\ End' = q /\ pos' = q
  <2> HIDE DEF t
  <2>1. pos' \in Nat /\ place' = PlaceOf(pos)'
    BY <1>2, Advanced
  <2>2. ExactToken(t) /\ CleanTo(t.from)
    BY <1>1, <1>2 DEF t
  <2> QED
    BY <1>1, <1>2, <2>1, <2>2, TokenMade DEF AdvanceTo
<1>4. CleanTo(pos)'
  <2>1. Ignorable(q, q)
    BY IgnorableNone
  <2> QED
    BY <1>2, <1>3, <2>1, IgnorableKept DEF CleanTo
<1> QED
  BY <1>2, <1>3, <1>4 DEF Inv

\* A token that is neither a string nor an operator.
LEMMA PlainToken ==
    ASSUME Basis, NEW q \in Nat, NEW type \in OtherTypes, type # "STRING_LITERAL", NEW value
    PROVE  ExactToken(Token(type, value, place, pos, q))
<1> DEFINE t == Token(type, value, place, pos, q)
<1>1. t.from = pos /\ t.to = q /\ t.type = type /\ t.line = place.line /\ t.column = place.column
  BY DEF Token
<1>2. place = PlaceOf(pos) /\ pos \in Nat /\ PlaceOf(pos).column \in Nat
  BY PlaceType DEF Basis
<1>3. type \notin MadeLate
  BY DEF OtherTypes, MadeLate
<1> HIDE DEF t
<1>4. ~IsOperator(t)
  BY <1>1, OtherTypesFacts
<1>5. t.column = PlaceOf(t.from).column + (IF t.type \in MadeLate THEN 2 ELSE 0)
  BY <1>1, <1>2, <1>3
<1>6. ExactToken(t)
  BY <1>1, <1>2, <1>4, <1>5 DEF ExactToken
<1> QED
  BY <1>6 DEF t

LEMMA ReadUnknownInv == ASSUME Inv, ReadUnknown PROVE Inv'
<1>1. /\ status = "tokens" /\ pos < Size /\ pos \in Nat /\ MakeTo("UNKNOWN", place, pos + 1)
      /\ Basis
  BY DEF Inv, Basis, ReadUnknown, Lexing
<1>2. "UNKNOWN" \in OtherTypes /\ "UNKNOWN" # "STRING_LITERAL"
  BY DEF OtherTypes
<1>3. pos + 1 \in Nat /\ pos <= pos + 1
  BY <1>1
<1> QED
  BY <1>1, <1>2, <1>3, PlainToken, MadeInv

LEMMA ReadIdentifierInv == ASSUME Inv, ReadIdentifier PROVE Inv'
<1> DEFINE type == WordType(Slice(pos, WordEnd))
<1>1. /\ status = "tokens" /\ pos < Size /\ pos \in Nat /\ MakeTo(type, place, WordEnd)
      /\ Basis /\ source \in Sources
  BY DEF Inv, Basis, ReadIdentifier, Lexing
<1>2. type \in OtherTypes /\ type # "STRING_LITERAL"
  BY DEF OtherTypes, WordType
<1>3. WordEnd \in Nat /\ pos <= WordEnd
  <2>1. pos <= Size /\ Size \in Nat
    BY <1>1, TextType
  <2>2. WordEnd \in pos .. Size
    BY <1>1, <2>1, RunEndFacts DEF WordEnd
  <2> QED
    BY <1>1, <2>1, <2>2
<1> HIDE DEF type
<1> QED
  BY <1>1, <1>2, <1>3, PlainToken, MadeInv

LEMMA ReadOperatorInv == ASSUME Inv, ReadOperator PROVE Inv'
<1> DEFINE type == Operators[Branch][1]
           n == Len(Operators[Branch][2])
           t == Token(type, Slice(pos, pos + n), Place(type), pos, pos + n)
<1>1. /\ status = "tokens" /\ pos < Size /\ pos \in Nat /\ Basis /\ source \in Sources /\ Branch # 0
      /\ MakeTo(type, Place(type), pos + n)
  BY DEF Inv, Basis, ReadOperator, Lexing
<1>2. /\ n \in 1 .. 3 /\ Slice(pos, pos + n) = LongestAt(pos) /\ type \notin OtherTypes
      /\ <<type, LongestAt(pos)>> \in ToSet(Operators)
  BY <1>1, BranchFacts
<1> HIDE DEF n, type
<1>3. pos + n \in Nat /\ pos <= pos + n
  BY <1>1, <1>2
<1>4. place = PlaceOf(pos) /\ PlaceOf(pos) \in [line : Nat, column : Nat]
  BY <1>1, PlaceType DEF Basis
<1>5. /\ Place(type).line = PlaceOf(pos).line
      /\ Place(type).column = PlaceOf(pos).column + (IF type \in MadeLate THEN 2 ELSE 0)
  <2>1. CASE type \in MadeLate
    BY <1>4, <2>1 DEF Place
  <2>2. CASE type \notin MadeLate
    BY <1>4, <2>2 DEF Place
  <2> QED
    BY <2>1, <2>2
<1>6. /\ t.from = pos /\ t.to = pos + n /\ t.type = type /\ t.value = LongestAt(pos)
      /\ t.line = Place(type).line /\ t.column = Place(type).column
  BY <1>2 DEF Token
<1>7. type # "STRING_LITERAL"
  BY <1>2 DEF OtherTypes
<1>8. ExactToken(t)
  <2> HIDE DEF t
  <2> QED
    BY <1>1, <1>2, <1>3, <1>5, <1>6, <1>7 DEF ExactToken
<1> QED
  BY <1>1, <1>3, <1>8, MadeInv

\* A character that is not '\0' is in the text.
LEMMA InText ==
    ASSUME source \in Sources, NEW p \in Nat, At(p) # NUL
    PROVE  p + 1 \in Nat /\ p + 1 <= Size
BY TextType, AtFacts

LEMMA SuffixFacts ==
    ASSUME source \in Sources, NEW p \in Nat, p <= Size, NEW C, NUL \notin C
    PROVE  Suffix(p, C) \in p .. Size
<1>0. Size \in Nat
  BY TextType
<1>1. CASE At(p) \in C
  <2>1. p + 1 <= Size
    BY <1>1, InText
  <2> QED
    BY <1>0, <1>1, <2>1 DEF Suffix
<1>2. CASE At(p) \notin C
  BY <1>0, <1>2 DEF Suffix
<1> QED
  BY <1>1, <1>2

\* Where a number ends, and that it is no string.
LEMMA NumberFacts ==
    ASSUME source \in Sources, pos \in Nat, pos < Size
    PROVE  Number.end \in pos .. Size /\ Number.type \in {"INTEGER_LITERAL", "FLOAT_LITERAL"}
<1>0. Size \in Nat /\ pos <= Size
  BY TextType
<1>1. ASSUME peekNext # NUL PROVE pos + 2 \in Nat /\ pos + 2 <= Size
  <2>1. pos + 1 \in Nat /\ (pos + 1) + 1 = pos + 2
    OBVIOUS
  <2> QED
    BY <1>1, <2>1, InText DEF peekNext
<1>2. CASE IsHex
  <2>1. pos + 2 \in Nat /\ pos + 2 <= Size
    BY <1>1, <1>2, NulAssumption DEF IsHex
  <2> DEFINE r == RunEnd(pos + 2, Digits \cup HexLetters \cup Separators)
  <2>2. r \in (pos + 2) .. Size
    BY <2>1, RunEndFacts
  <2>3. r \in Nat /\ r <= Size /\ pos <= r
    BY <1>0, <2>1, <2>2
  <2>4. NUL \notin {"u", "i", "w", "t", "s"}
    BY NulAssumption
  <2>5. HexEnd \in r .. Size
    <3> HIDE DEF r
    <3> QED
      BY <2>3, <2>4, SuffixFacts DEF HexEnd, r
  <2>6. Number = [type |-> "INTEGER_LITERAL", end |-> HexEnd]
    BY <1>2 DEF Number
  <2> HIDE DEF r
  <2> QED
    BY <1>0, <2>3, <2>5, <2>6
<1>3. CASE ~IsHex /\ IsBinary
  <2>1. pos + 2 \in Nat /\ pos + 2 <= Size
    BY <1>1, <1>3, NulAssumption DEF IsBinary
  <2> DEFINE r == RunEnd(pos + 2, {"0", "1"} \cup Separators)
  <2>2. r \in (pos + 2) .. Size
    BY <2>1, RunEndFacts
  <2>3. r \in Nat /\ r <= Size /\ pos <= r
    BY <1>0, <2>1, <2>2
  <2>4. NUL \notin {"u", "i", "w", "t", "s", "c"}
    BY NulAssumption
  <2>5. BinaryEnd \in r .. Size
    <3> HIDE DEF r
    <3> QED
      BY <2>3, <2>4, SuffixFacts DEF BinaryEnd, r
  <2>6. Number = [type |-> "INTEGER_LITERAL", end |-> BinaryEnd]
    BY <1>3 DEF Number
  <2> HIDE DEF r
  <2> QED
    BY <1>0, <2>3, <2>5, <2>6
<1>4. CASE ~IsHex /\ ~IsBinary
  <2>1. WholeEnd \in Nat /\ WholeEnd <= Size /\ pos <= WholeEnd
    <3>1. WholeEnd \in pos .. Size
      BY <1>0, RunEndFacts DEF WholeEnd
    <3> QED
      BY <1>0, <3>1
  <2>2. FractionEnd \in Nat /\ FractionEnd <= Size /\ pos <= FractionEnd
    <3>1. CASE At(WholeEnd) = "." /\ At(WholeEnd + 1) \in Digits
      <4>1. WholeEnd + 1 \in Nat /\ WholeEnd + 1 <= Size
        BY <2>1, <3>1, InText, NulAssumption
      <4>2. RunEnd(WholeEnd + 1, Digits \cup Separators) \in (WholeEnd + 1) .. Size
        BY <4>1, RunEndFacts
      <4>3. FractionEnd = RunEnd(WholeEnd + 1, Digits \cup Separators)
        BY <3>1 DEF FractionEnd
      <4> QED
        BY <1>0, <2>1, <4>1, <4>2, <4>3
    <3>2. CASE ~(At(WholeEnd) = "." /\ At(WholeEnd + 1) \in Digits)
      BY <2>1, <3>2 DEF FractionEnd
    <3> QED
      BY <3>1, <3>2
  <2>3. CASE HasExponent
    <3>1. FractionEnd + 1 \in Nat /\ FractionEnd + 1 <= Size
      BY <2>2, <2>3, InText, NulAssumption DEF HasExponent
    <3>2. NUL \notin {"+", "-"}
      BY NulAssumption
    <3>3. ExponentDigits \in (FractionEnd + 1) .. Size
      BY <3>1, <3>2, SuffixFacts DEF ExponentDigits
    <3>4. ExponentDigits \in Nat /\ ExponentDigits <= Size /\ pos <= ExponentDigits
      BY <1>0, <2>2, <3>1, <3>3
    <3>5. RunEnd(ExponentDigits, Digits) \in ExponentDigits .. Size
      BY <3>4, RunEndFacts
    <3>6. Number = [type |-> "FLOAT_LITERAL", end |-> RunEnd(ExponentDigits, Digits)]
      BY <1>4, <2>3 DEF Number, DecimalNumber
    <3> QED
      BY <1>0, <3>4, <3>5, <3>6
  <2>4. CASE ~HasExponent /\ FractionEnd > WholeEnd
    <3>1. Number = [type |-> "FLOAT_LITERAL", end |-> FractionEnd]
      BY <1>4, <2>4 DEF Number, DecimalNumber
    <3> QED
      BY <1>0, <2>2, <3>1
  <2>5. CASE ~HasExponent /\ ~(FractionEnd > WholeEnd)
    <3> DEFINE e == Suffix(WholeEnd, {"u", "i", "w", "t", "s", "c"})
    <3>1. NUL \notin {"u", "i", "w", "t", "s", "c"}
      BY NulAssumption
    <3>2. e \in WholeEnd .. Size
      BY <2>1, <3>1, SuffixFacts
    <3>3. Number = [type |-> "INTEGER_LITERAL", end |-> e]
      BY <1>4, <2>5 DEF Number, DecimalNumber
    <3> HIDE DEF e
    <3> QED
      BY <1>0, <2>1, <3>2, <3>3
  <2> QED
    BY <2>3, <2>4, <2>5
<1> QED
  BY <1>2, <1>3, <1>4

LEMMA ReadNumberInv == ASSUME Inv, ReadNumber PROVE Inv'
<1>1. status = "tokens" /\ pos < Size /\ pos \in Nat /\ Basis /\ source \in Sources
  BY DEF Inv, Basis, ReadNumber, Lexing
<1>2. CASE status' = "aborted" /\ UNCHANGED <<source, pos, place, tokens, open>>
  <2>1. place' = PlaceOf(pos)' /\ pos' \in Nat
    BY <1>1, <1>2, PlacePrimed DEF Basis
  <2>2. Basis'
    BY <1>1, <1>2, <2>1, NothingMade
  <2> QED
    BY <1>2, <2>2 DEF Inv
<1>3. CASE MakeTo(Number.type, place, Number.end)
  <2>1. Number.end \in pos .. Size /\ Number.type \in {"INTEGER_LITERAL", "FLOAT_LITERAL"}
    BY <1>1, NumberFacts
  <2>2. Number.end \in Nat /\ pos <= Number.end
    BY <1>1, <2>1, TextType
  <2>3. Number.type \in OtherTypes /\ Number.type # "STRING_LITERAL"
    BY <2>1 DEF OtherTypes
  <2> QED
    BY <1>1, <1>3, <2>2, <2>3, PlainToken, MadeInv
<1> QED
  BY <1>2, <1>3 DEF ReadNumber

LEMMA QuotesFacts ==
    ASSUME source \in Sources, NEW p \in Nat, p <= Size
    PROVE  /\ QuotesAt(p) <=> /\ p + 3 <= Size /\ At(p) = "\""
                              /\ At(p + 1) = "\"" /\ At(p + 2) = "\""
           /\ Slice(p, p + 2) = <<"\"", "\"">> <=> /\ p + 2 <= Size
                                                   /\ At(p) = "\"" /\ At(p + 1) = "\""
<1> DEFINE u == <<"\"", "\"">>
           w == <<"\"", "\"", "\"">>
<1>1. u \in Seq({"\""}) /\ Len(u) = 2 /\ u[1] = "\"" /\ u[2] = "\""
  OBVIOUS
<1>2. w \in Seq({"\""}) /\ Len(w) = 3 /\ w[1] = "\"" /\ w[2] = "\"" /\ w[3] = "\""
  OBVIOUS
<1> HIDE DEF u, w
<1>3. Slice(p, p + 2) = u <=> p + 2 <= Size /\ \A i \in 1 .. 2 : At(p + i - 1) = u[i]
  BY <1>1, SliceIs
<1>4. Slice(p, p + 3) = w <=> p + 3 <= Size /\ \A i \in 1 .. 3 : At(p + i - 1) = w[i]
  BY <1>2, SliceIs
<1>5. p + 1 - 1 = p /\ p + 2 - 1 = p + 1 /\ p + 3 - 1 = p + 2
  OBVIOUS
<1>6. (\A i \in 1 .. 2 : At(p + i - 1) = u[i]) <=> At(p) = "\"" /\ At(p + 1) = "\""
  <2>1. \A i \in 1 .. 2 : i = 1 \/ i = 2
    OBVIOUS
  <2>2. 1 \in 1 .. 2 /\ 2 \in 1 .. 2
    OBVIOUS
  <2> QED
    BY <1>1, <1>5, <2>1, <2>2
<1>7. (\A i \in 1 .. 3 : At(p + i - 1) = w[i])
         <=> At(p) = "\"" /\ At(p + 1) = "\"" /\ At(p + 2) = "\""
  <2>1. \A i \in 1 .. 3 : i = 1 \/ i = 2 \/ i = 3
    OBVIOUS
  <2>2. 1 \in 1 .. 3 /\ 2 \in 1 .. 3 /\ 3 \in 1 .. 3
    OBVIOUS
  <2> QED
    BY <1>2, <1>5, <2>1, <2>2
<1> QED
  BY <1>3, <1>4, <1>6, <1>7 DEF QuotesAt, u, w

\* What Opened says stays true while the literal is read.
LEMMA OpenedKept ==
    ASSUME Opened, UNCHANGED <<source, tokens>>, NEW value, open' = [open EXCEPT !.value = value]
    PROVE  Opened' /\ open'.from = open.from
<1>1. End' = End
  BY DEF End
<1>2. /\ open' = [value |-> open'.value, at |-> open'.at, from |-> open'.from]
      /\ open'.from = open.from /\ open'.at = open.at
  BY DEF Opened
<1> QED
  BY <1>1, <1>2, PlaceOfKept, IgnorableKept DEF Opened, CleanTo

LEMMA OpenStringInv == ASSUME Inv, OpenString PROVE Inv'
<1>1. /\ status = "tokens" /\ pos < Size /\ pos \in Nat /\ Basis /\ source \in Sources /\ Size \in Nat
      /\ CleanTo(pos) /\ At(pos) = "\"" /\ UNCHANGED <<source, tokens>>
  BY TextType DEF Inv, Basis, OpenString, Lexing, peek
<1>0. pos \in Nat /\ Size \in Nat /\ pos < Size
  BY <1>1
<1>a. open' = [value |-> <<>>, at |-> place, from |-> pos]
  BY DEF OpenString
<1>b. open'.from = pos
  BY <1>a
<1>2. Opened'
  <2>1. End' = End /\ place = PlaceOf(pos)
    BY <1>1 DEF End, Basis
  <2>2. /\ open' = [value |-> open'.value, at |-> open'.at, from |-> open'.from]
        /\ open'.at = PlaceOf(pos)
    BY <1>a, <2>1
  <2> QED
    BY <1>0, <1>1, <1>b, <2>1, <2>2, PlaceOfKept, IgnorableKept DEF Opened, CleanTo
<1>3. /\ pos + 1 \in Nat /\ pos + 1 <= Size /\ pos <= Size /\ (pos + 1) + 2 = pos + 3
      /\ (pos + 1) + 1 = pos + 2 /\ pos + 3 \in Nat /\ pos <= pos + 3 /\ pos <= pos + 1
  BY <1>0
<1>4. Slice(pos + 1, (pos + 1) + 2) = <<"\"", "\"">> <=> QuotesAt(pos)
  <2>1. Slice(pos + 1, (pos + 1) + 2) = <<"\"", "\"">> <=>
          /\ (pos + 1) + 2 <= Size /\ At(pos + 1) = "\"" /\ At((pos + 1) + 1) = "\""
    BY <1>1, <1>3, QuotesFacts
  <2>2. QuotesAt(pos) <=> /\ pos + 3 <= Size /\ At(pos) = "\""
                          /\ At(pos + 1) = "\"" /\ At(pos + 2) = "\""
    BY <1>1, <1>3, QuotesFacts
  <2> QED
    BY <1>1, <1>3, <2>1, <2>2
<1>5. CASE QuotesAt(pos)
  <2>1. AdvanceTo(pos + 3) /\ status' = "block"
    BY <1>3, <1>4, <1>5 DEF OpenString
  <2>2. pos' = pos + 3 /\ Basis'
    <3>1. pos' \in Nat /\ place' = PlaceOf(pos)'
      BY <1>1, <1>3, <2>1, Advanced
    <3> QED
      BY <1>1, <2>1, <3>1, NothingMade DEF AdvanceTo
  <2>3. pos' \in (open'.from + 3) .. Size
    <3>1. pos + 3 <= Size
      BY <1>1, <1>3, <1>5, QuotesFacts
    <3>2. pos + 3 \in (pos + 3) .. Size
      BY <1>0, <3>1
    <3> QED
      BY <1>b, <2>2, <3>2
  <2>4. (open'.from + 3) .. (pos' - 1) = {}
    <3>1. (pos + 3) .. ((pos + 3) - 1) = {}
      BY <1>0
    <3> QED
      BY <1>b, <2>2, <3>1
  <2>5. InBlock'
    BY <1>1, <1>b, <1>2, <1>5, <2>3, <2>4, AtKept, LiteralKept DEF InBlock
  <2> QED
    BY <2>1, <2>2, <2>5 DEF Inv
<1>6. CASE ~QuotesAt(pos)
  <2>1. AdvanceTo(pos + 1) /\ status' = "string"
    BY <1>3, <1>4, <1>6 DEF OpenString
  <2>2. pos' = pos + 1 /\ Basis'
    <3>1. pos' \in Nat /\ place' = PlaceOf(pos)'
      BY <1>1, <1>3, <2>1, Advanced
    <3> QED
      BY <1>1, <2>1, <3>1, NothingMade DEF AdvanceTo
  <2>3. pos' \in (open'.from + 1) .. (Size + 1)
    <3>1. pos + 1 \in (pos + 1) .. (Size + 1)
      BY <1>0
    <3> QED
      BY <1>b, <2>2, <3>1
  <2>4. (open'.from + 1) .. (pos' - 1) = {}
    <3>1. (pos + 1) .. ((pos + 1) - 1) = {}
      BY <1>0
    <3> QED
      BY <1>b, <2>2, <3>1
  <2>5. ~IsEscaped(pos, pos + 1)
    <3>1. 1 .. ((pos + 1) - pos - 1) = {}
      BY <1>0
    <3> QED
      BY <3>1 DEF IsEscaped
  <2>6. InString'
    BY <1>1, <1>b, <1>2, <1>6, <2>2, <2>3, <2>4, <2>5, AtKept, LiteralKept DEF InString
  <2> QED
    BY <2>1, <2>2, <2>6 DEF Inv
<1> QED
  BY <1>5, <1>6

\* The element of a literal that is read.
LEMMA Extended ==
    ASSUME Basis, Opened, NEW value, NEW q \in Nat, pos <= q, Extend(value, q)
    PROVE  /\ Basis' /\ Opened' /\ pos' = q /\ open'.from = open.from /\ source' = source
           /\ status' = status
<1>1. /\ UNCHANGED <<source, tokens>> /\ AdvanceTo(q) /\ status' = status
      /\ open' = [open EXCEPT !.value = open.value \o value]
  BY DEF Extend
<1>2. pos' \in Nat /\ place' = PlaceOf(pos)'
  BY <1>1, Advanced
<1> QED
  BY <1>1, <1>2, NothingMade, OpenedKept DEF AdvanceTo

LEMMA BlockTextInv == ASSUME Inv, BlockText PROVE Inv'
<1>1. /\ status = "block" /\ Basis /\ InBlock /\ Opened /\ ~QuotesAt(pos)
      /\ Extend(<<peek>>, pos + 1)
  BY DEF Inv, InBlock, BlockText, AtTerminator, QuotesAt
<1>2. pos \in Nat /\ pos < Size /\ Size \in Nat /\ open.from \in Nat /\ pos \in (open.from + 3) .. Size
  BY <1>1, TextType DEF Basis, BlockText, InBlock, Opened
<1>3. pos + 1 \in Nat /\ pos <= pos + 1
  BY <1>2
<1>4. /\ Basis' /\ Opened' /\ pos' = pos + 1 /\ open'.from = open.from /\ source' = source
      /\ status' = status
  BY <1>1, <1>3, Extended
<1>5. pos + 1 \in (open.from + 3) .. Size
  BY <1>2
<1>6. ASSUME NEW i \in (open.from + 3) .. ((pos + 1) - 1) PROVE ~QuotesAt(i)
  <2>1. i = pos \/ i \in (open.from + 3) .. (pos - 1)
    BY <1>2
  <2> QED
    BY <1>1, <2>1 DEF InBlock
<1>7. InBlock'
  BY <1>1, <1>4, <1>5, <1>6, AtKept, LiteralKept DEF InBlock
<1> QED
  BY <1>1, <1>4, <1>7 DEF Inv

LEMMA StringTextInv == ASSUME Inv, StringText PROVE Inv'
<1>1. status = "string" /\ Basis /\ InString /\ Opened /\ At(pos) \notin {"\"", NUL}
  BY DEF Inv, InString, StringText, peek
<1>2. /\ pos \in Nat /\ Size \in Nat /\ open.from \in Nat /\ source \in Sources
      /\ pos \in (open.from + 1) .. (Size + 1)
  BY <1>1, TextType DEF Basis, InString, Opened
<1>3. pos + 1 <= Size
  BY <1>1, <1>2, InText
<1> DEFINE p == open.from
<1>a. p \in Nat /\ pos \in (p + 1) .. (Size + 1)
  BY <1>2
<1>4. /\ ~IsEscaped(p, pos)
      /\ \A i \in (p + 1) .. (pos - 1) : At(i) \in {"\"", NUL} => IsEscaped(p, i)
  BY <1>1 DEF InString
<1>b. p \in Nat /\ p < pos /\ pos \in Nat /\ Size \in Nat
  <2>1. pos \in Nat /\ Size \in Nat
    BY <1>2
  <2> HIDE DEF p
  <2> QED
    BY <1>a, <2>1
<1>5. ASSUME NEW q \in Nat, NEW value, Extend(value, q), pos <= q, q <= Size + 1, ~IsEscaped(p, q),
             \A i \in pos .. (q - 1) : At(i) \in {"\"", NUL} => IsEscaped(p, i)
      PROVE  Inv'
  <2>1. /\ Basis' /\ Opened' /\ pos' = q /\ open'.from = p /\ source' = source /\ status' = status
    BY <1>1, <1>5, Extended
  <2>0. pos <= q /\ q <= Size + 1
    BY <1>5
  <2>2. q \in (p + 1) .. (Size + 1)
    <3> HIDE DEF p
    <3> QED
      BY <1>b, <2>0
  <2>3. ASSUME NEW i \in (p + 1) .. (q - 1), At(i) \in {"\"", NUL} PROVE IsEscaped(p, i)
    <3> HIDE DEF p
    <3>1. i \in (p + 1) .. (pos - 1) \/ i \in pos .. (q - 1)
      BY <1>b, <2>0
    <3> QED
      BY <1>4, <1>5, <2>3, <3>1
  <2>4. ~QuotesAt(p)
    BY <1>1 DEF InString
  <2>5. InString'
    BY <1>5, <2>1, <2>2, <2>3, <2>4, AtKept, LiteralKept DEF InString
  <2> QED
    BY <1>1, <2>1, <2>5 DEF Inv
<1> HIDE DEF p
<1>6. CASE peek = "\\"
  <2>1. /\ pos + 2 \in Nat /\ pos <= pos + 2 /\ pos + 2 <= Size + 1 /\ pos + 1 \in Nat
        /\ (pos + 2) - 1 = pos + 1 /\ (pos + 1) - 1 = pos
        /\ p < (pos + 1) - 1 /\ p < (pos + 2) - 1
    BY <1>b, <1>3
  <2>2. IsEscaped(p, pos + 1)
    BY <1>b, <1>4, <1>6, <2>1, EscapedOnce DEF peek
  <2>3. ~IsEscaped(p, pos + 2)
    BY <1>b, <2>1, <2>2, EscapedTwice
  <2>4. ASSUME NEW i \in pos .. ((pos + 2) - 1), At(i) \in {"\"", NUL} PROVE IsEscaped(p, i)
    <3>1. i = pos \/ i = pos + 1
      BY <1>2
    <3> QED
      BY <1>1, <2>2, <2>4, <3>1
  <2>5. Extend(<<Unescaped(peekNext)>>, pos + 2)
    BY <1>6 DEF StringText
  <2> QED
    BY <1>5, <2>1, <2>3, <2>4, <2>5
<1>7. CASE peek # "\\"
  <2>1. pos + 1 \in Nat /\ pos <= pos + 1 /\ pos + 1 <= Size + 1 /\ (pos + 1) - 1 = pos
    BY <1>2, <1>3
  <2>2. ~IsEscaped(p, pos + 1)
    BY <1>b, <1>7, <2>1, PlainBefore DEF peek
  <2>3. ASSUME NEW i \in pos .. ((pos + 1) - 1), At(i) \in {"\"", NUL} PROVE IsEscaped(p, i)
    <3>1. i = pos
      BY <1>2
    <3> QED
      BY <1>1, <2>3, <3>1
  <2>4. Extend(<<peek>>, pos + 1)
    BY <1>7 DEF StringText
  <2> QED
    BY <1>5, <2>1, <2>2, <2>3, <2>4
<1> QED
  BY <1>6, <1>7

\* A literal that is closed where it ends.
LEMMA ClosedInv ==
    ASSUME Inv, Opened, NEW q \in Nat, pos <= q, q = LiteralEnd(open.from), CloseAt(q)
    PROVE  Inv'
<1> DEFINE t == Token("STRING_LITERAL", open.value, open.at, open.from, q)
<1>1. /\ t.from = open.from /\ t.to = q /\ t.type = "STRING_LITERAL"
      /\ t.line = open.at.line /\ t.column = open.at.column
  BY DEF Token
<1>2. /\ Basis /\ AdvanceTo(q) /\ tokens' = Append(tokens, t) /\ status' = "tokens"
      /\ source' = source
  BY DEF Inv, CloseAt
<1> HIDE DEF t
<1>3. open.from \in Nat /\ CleanTo(open.from) /\ open.at = PlaceOf(open.from)
  BY DEF Opened
<1>4. ExactToken(t)
  <2>1. "STRING_LITERAL" \notin MadeLate /\ "STRING_LITERAL" \in OtherTypes
    BY DEF MadeLate, OtherTypes
  <2>2. PlaceOf(open.from).column \in Nat
    BY <1>3, PlaceType
  <2>3. ~IsOperator(t)
    BY <1>1, <2>1, OtherTypesFacts
  <2>4. t.column = PlaceOf(t.from).column + (IF t.type \in MadeLate THEN 2 ELSE 0)
    BY <1>1, <1>3, <2>1, <2>2
  <2> QED
    BY <1>1, <1>3, <2>3, <2>4 DEF ExactToken
<1>5. Basis' /\ End' = q /\ pos' = q
  <2>1. pos' \in Nat /\ place' = PlaceOf(pos)'
    BY <1>2, Advanced
  <2>2. CleanTo(t.from)
    BY <1>1, <1>3
  <2> QED
    BY <1>1, <1>2, <1>4, <2>1, <2>2, TokenMade DEF AdvanceTo
<1>6. CleanTo(pos)'
  <2>1. Ignorable(q, q)
    BY IgnorableNone
  <2> QED
    BY <1>2, <1>5, <2>1, IgnorableKept DEF CleanTo
<1> QED
  BY <1>2, <1>5, <1>6 DEF Inv

LEMMA CloseBlockInv == ASSUME Inv, CloseBlock PROVE Inv'
<1> DEFINE p == open.from
           ends == {i \in (p + 3) .. (Size - 1) : QuotesAt(i)}
<1>1. /\ InBlock /\ Opened /\ source \in Sources /\ pos \in Nat /\ Size \in Nat /\ p \in Nat
      /\ QuotesAt(p)
  BY TextType DEF Inv, Basis, CloseBlock, InBlock, Opened
<1>2. pos \in (p + 3) .. Size /\ \A i \in (p + 3) .. (pos - 1) : ~QuotesAt(i)
  BY <1>1 DEF InBlock
<1>3. LiteralEnd(p) = IF ends = {} THEN Size ELSE Min(ends) + 3
  BY <1>1 DEF LiteralEnd
<1> HIDE DEF p
<1>0. p \in Nat /\ pos \in Nat /\ Size \in Nat
  BY <1>1
<1>4. CASE QuotesAt(pos) /\ CloseAt(pos + 3)
  <2>0. pos <= Size
    BY <1>0, <1>2
  <2>1. pos + 3 <= Size
    BY <1>0, <1>1, <1>4, <2>0, QuotesFacts
  <2>2. pos \in ends
    BY <1>0, <1>2, <1>4, <2>1
  <2>3. ASSUME NEW m \in ends PROVE pos <= m
    <3>1. m \in (p + 3) .. (Size - 1) /\ QuotesAt(m)
      BY <2>3
    <3>2. m \notin (p + 3) .. (pos - 1)
      BY <1>2, <3>1
    <3> QED
      BY <1>0, <3>1, <3>2
  <2>4. ends \subseteq Nat
    BY <1>0
  <2> HIDE DEF ends
  <2>5. LiteralEnd(p) = pos + 3
    BY <1>3, <2>2, <2>3, <2>4, MinIs
  <2>6. pos + 3 \in Nat /\ pos <= pos + 3
    BY <1>0
  <2> QED
    BY <1>1, <1>4, <2>5, <2>6, ClosedInv DEF p
<1>5. CASE pos >= Size /\ CloseAt(pos)
  <2>1. pos = Size
    BY <1>0, <1>2, <1>5
  <2>2. ends = {}
    BY <1>2, <2>1
  <2>3. LiteralEnd(p) = pos /\ pos <= pos
    BY <1>0, <1>3, <2>1, <2>2
  <2> QED
    BY <1>1, <1>5, <2>3, ClosedInv DEF p
<1> QED
  BY <1>4, <1>5 DEF CloseBlock, AtTerminator, QuotesAt

LEMMA CloseStringInv == ASSUME Inv, CloseString PROVE Inv'
<1> DEFINE p == open.from
           ends == {i \in (p + 1) .. (Size + 1) : At(i) \in {"\"", NUL} /\ ~IsEscaped(p, i)}
           q == IF At(pos) = "\"" THEN pos + 1 ELSE pos
<1>1. /\ InString /\ Opened /\ source \in Sources /\ pos \in Nat /\ Size \in Nat /\ p \in Nat
      /\ ~QuotesAt(p) /\ At(pos) \in {"\"", NUL} /\ CloseAt(q)
  BY TextType DEF Inv, Basis, CloseString, InString, Opened, peek
<1>2. /\ pos \in (p + 1) .. (Size + 1) /\ ~IsEscaped(p, pos)
      /\ \A i \in (p + 1) .. (pos - 1) : At(i) \in {"\"", NUL} => IsEscaped(p, i)
  BY <1>1 DEF InString
<1>3. LiteralEnd(p) = IF At(Min(ends)) = "\"" THEN Min(ends) + 1 ELSE Min(ends)
  BY <1>1 DEF LiteralEnd
<1> HIDE DEF p
<1>0. p \in Nat /\ pos \in Nat /\ Size \in Nat
  BY <1>1
<1>4. pos \in ends
  BY <1>1, <1>2
<1>5. ASSUME NEW m \in ends PROVE pos <= m
  <2>1. m \in (p + 1) .. (Size + 1) /\ At(m) \in {"\"", NUL} /\ ~IsEscaped(p, m)
    BY <1>5
  <2>2. m \notin (p + 1) .. (pos - 1) /\ m \in (p + 1) .. (Size + 1)
    BY <1>2, <2>1
  <2> HIDE DEF q, ends
  <2> QED
    BY <1>0, <2>2
<1>6. ends \subseteq Nat
  <2>1. ends \subseteq (p + 1) .. (Size + 1)
    OBVIOUS
  <2> HIDE DEF ends
  <2> QED
    BY <1>0, <2>1
<1> HIDE DEF ends
<1>7. Min(ends) = pos
  BY <1>4, <1>5, <1>6, MinIs
<1>8. LiteralEnd(p) = q
  BY <1>3, <1>7
<1>9. q \in Nat /\ pos <= q
  <2>1. q = pos + 1 \/ q = pos
    OBVIOUS
  <2> HIDE DEF q
  <2> QED
    BY <1>0, <2>1
<1> HIDE DEF q
<1> QED
  BY <1>1, <1>8, <1>9, ClosedInv DEF p

LEMMA FinishInv == ASSUME Inv, Finish PROVE Inv'
<1> DEFINE t == Token("END_OF_FILE", <<>>, place, pos, pos)
<1>1. /\ Basis /\ pos \in Nat /\ CleanTo(pos) /\ tokens' = Append(tokens, t) /\ status' = "done"
      /\ UNCHANGED <<source, pos, place>> /\ place = PlaceOf(pos)
  BY DEF Inv, Basis, Finish
<1>2. ExactToken(t)
  <2>1. "END_OF_FILE" \in OtherTypes /\ "END_OF_FILE" # "STRING_LITERAL"
    BY DEF OtherTypes
  <2> QED
    BY <1>1, <2>1, PlainToken
<1>3. t.from = pos
  BY DEF Token
<1> HIDE DEF t
<1>4. pos' \in Nat /\ place' = PlaceOf(pos)'
  BY <1>1, PlacePrimed
<1>5. CleanTo(t.from)
  BY <1>1, <1>3
<1>6. Basis'
  BY <1>1, <1>2, <1>4, <1>5, TokenMade
<1> QED
  BY <1>1, <1>6 DEF Inv

LEMMA StutterInv == ASSUME Inv, UNCHANGED vars PROVE Inv'
<1>1. UNCHANGED <<source, pos, place, tokens, open, status>> /\ Basis
  BY DEF vars, Inv
<1>2. pos' \in Nat /\ place' = PlaceOf(pos)'
  BY <1>1, PlacePrimed DEF Basis
<1>3. Basis' /\ End' = End
  BY <1>1, <1>2, NothingMade
<1>4. CleanTo(pos) => CleanTo(pos)'
  BY <1>1, <1>3, IgnorableKept DEF CleanTo
<1>5. Opened => Opened'
  BY <1>1, <1>3, IgnorableKept, PlaceOfKept DEF Opened, CleanTo
<1>6. InBlock => InBlock'
  BY <1>1, <1>5, AtKept, LiteralKept DEF InBlock
<1>7. InString => InString'
  BY <1>1, <1>5, AtKept, LiteralKept DEF InString
<1> QED
  BY <1>1, <1>3, <1>4, <1>6, <1>7 DEF Inv

LEMMA InitInv == Init => Inv
<1> SUFFICES ASSUME Init PROVE Inv
  OBVIOUS
<1>1. /\ source \in Sources /\ pos = 0 /\ place = [line |-> 1, column |-> 1] /\ tokens = <<>>
      /\ status = "tokens"
  BY DEF Init
<1>2. Made = {} /\ tokens \in Seq(Made) /\ Adjacent
  BY <1>1 DEF Made, Adjacent
<1>3. End = 0 /\ CleanTo(pos)
  BY <1>1, IgnorableNone DEF End, CleanTo
<1>4. Basis
  BY <1>1, <1>2, PlaceZero DEF Basis
<1> QED
  BY <1>1, <1>3, <1>4 DEF Inv

LEMMA NextInv == Inv /\ [Next]_vars => Inv'
BY SkipWhitespaceInv, OpenStringInv, BlockTextInv, CloseBlockInv, StringTextInv, CloseStringInv,
   ReadNumberInv, ReadIdentifierInv, ReadOperatorInv, ReadUnknownInv, FinishInv, StutterInv
   DEF Next, Returned

LEMMA Exact == Spec => []Inv
<1>1. Init => Inv
  BY InitInv
<1>2. Inv /\ [Next]_vars => Inv'
  BY NextInv
<1> QED
  BY <1>1, <1>2, PTL DEF Spec

\* Lexer::advance and make_token: in every text, a token records the line and the
\* column of its first character, those that << >> ?? and their assignments make two
\* characters late excepted.
THEOREM PlacesTrue == Spec => []PlacesExact
<1>1. Inv => PlacesExact
  BY DEF Inv, Basis, ExactToken, PlacesExact
<1> QED
  BY <1>1, Exact, PTL

\* Lexer::tokenize, for every text: only blanks and comments are between two tokens,
\* a string literal ends at its own quotes, and an operator is the longest at its place.
THEOREM TokensTrue == Spec => []TokensExact
<1>1. Inv => TokensExact
  BY DEF Inv, Basis, ExactToken, Adjacent, TokensExact
<1> QED
  BY <1>1, Exact, PTL
=============================================================================
