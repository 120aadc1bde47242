---------------------------- MODULE ConfigProofs ----------------------------
(***************************************************************************)
(* Proofs about Config, for any keys, texts, values and sizes: the         *)
(* pointers of the editor and what the parser makes of an edited text (the *)
(* larger part, about ConfigText alone), and what the files hold while one *)
(* of them is written.                                                     *)
(***************************************************************************)
EXTENDS Config, SequenceTheorems, FiniteSetTheorems, TLAPS

Text == Seq(Tokens)
Value == Seq(Tokens \ {EOL})

-----------------------------------------------------------------------------
(* Lines.                                                                  *)

\* Every set of numbers has a least one, by the well-founded inclusion of the
\* intervals below them.
LEMMA LeastNat ==
  ASSUME NEW T \in SUBSET Nat, T # {}
  PROVE  \E x \in T : \A y \in T : x <= y
<1> DEFINE R == StrictSubsetOrdering(Nat)
           F == {0 .. x : x \in T}
<1>1. ASSUME NEW x \in T PROVE 0 .. x \in FiniteSubsetsOf(Nat)
  <2>1. IsFiniteSet(0 .. x)
    BY FS_Interval
  <2> QED BY <2>1 DEF FiniteSubsetsOf
<1>2. F \subseteq FiniteSubsetsOf(Nat) /\ F # {}
  BY <1>1
<1>3. \E p \in F : \A q \in F : <<q, p>> \notin R
  <2> HIDE DEF F, R
  <2>1. IsWellFoundedOn(R, FiniteSubsetsOf(Nat))
    BY FS_StrictSubsetOrderingWellFounded DEF R
  <2> QED BY <1>2, <2>1, WFMin
<1>4. PICK x \in T : \A y \in T : <<0 .. y, 0 .. x>> \notin R
  BY <1>3
<1>5. ASSUME NEW y \in T, y < x PROVE FALSE
  <2>1. /\ 0 .. y \subseteq 0 .. x /\ 0 .. y # 0 .. x
        /\ 0 .. y \in SUBSET Nat /\ 0 .. x \in SUBSET Nat
    BY <1>5
  <2> QED BY <1>4, <2>1 DEF StrictSubsetOrdering
<1> QED BY <1>5

\* A set of numbers up to n has a greatest one.
LEMMA GreatestNat ==
  ASSUME NEW n \in Nat, NEW T \in SUBSET (0 .. n), T # {}
  PROVE  \E x \in T : \A y \in T : x >= y
<1> DEFINE D == {n - x : x \in T}
<1>1. D \in SUBSET Nat /\ D # {}
  <2>1. \A x \in T : n - x \in Nat
    OBVIOUS
  <2>2. \A x \in T : n - x \in D
    OBVIOUS
  <2> QED BY <2>1, <2>2
<1>2. PICK d \in D : \A e \in D : d <= e
  <2> HIDE DEF D
  <2> QED BY <1>1, LeastNat
<1>3. PICK x \in T : d = n - x
  OBVIOUS
<1>4. \A y \in T : n - x <= n - y
  BY <1>2, <1>3
<1> QED BY <1>4

\* The line of position i ends at j.
EndsAt(text, i, j) ==
  /\ j \in i .. Len(text) + 1
  /\ j = Len(text) + 1 \/ text[j] = EOL
  /\ \A h \in i .. j - 1 : text[h] # EOL

\* Where a line ends.
LEMMA LineEndIs ==
  ASSUME NEW text \in Text, NEW i \in 1 .. Len(text) + 1
  PROVE  EndsAt(text, i, LineEnd(text, i))
<1> DEFINE ends == {j \in i .. Len(text) + 1 : j = Len(text) + 1 \/ text[j] = EOL}
<1>1. ends \in SUBSET Nat /\ Len(text) + 1 \in ends
  BY DEF Text
<1>2. PICK j \in ends : \A h \in ends : j <= h
  BY <1>1, LeastNat
<1>3. EndsAt(text, i, j)
  BY <1>2 DEF Text, EndsAt
<1> QED BY <1>3 DEF LineEnd, EndsAt

\* ... and there is no other such position.
LEMMA LineEndAt ==
  ASSUME NEW text \in Text, NEW i \in 1 .. Len(text) + 1, NEW j, EndsAt(text, i, j)
  PROVE  LineEnd(text, i) = j
<1> DEFINE e == LineEnd(text, i)
<1>1. EndsAt(text, i, e)
  BY LineEndIs
<1> HIDE DEF e
<1>2. e \in Int /\ j \in Int /\ ~(e < j) /\ ~(j < e)
  BY <1>1 DEF Text, EndsAt
<1> QED BY <1>2 DEF e

\* Is the token in front of p the first of its line?
FirstBefore(text, p) == p = 2 \/ text[p - 2] = EOL

\* What a definition is, without the set of them.
LEMMA DefinitionIs ==
  ASSUME NEW text \in Text, NEW key, NEW p
  PROVE  p \in Definitions(text, key) <=>
           /\ p \in 2 .. Len(text) + 1
           /\ text[p - 1] = key
           /\ FirstBefore(text, p)
<1>1. DOMAIN text = 1 .. Len(text) /\ Len(text) \in Nat
  BY DEF Text
<1>2. ASSUME p \in Definitions(text, key)
      PROVE  p \in 2 .. Len(text) + 1 /\ text[p - 1] = key /\ FirstBefore(text, p)
  BY <1>1, <1>2 DEF Definitions, LineStarts, FirstBefore
<1>3. ASSUME p \in 2 .. Len(text) + 1, text[p - 1] = key, FirstBefore(text, p)
      PROVE  p \in Definitions(text, key)
  <2>1. p - 1 \in LineStarts(text) /\ (p - 1) + 1 = p
    BY <1>1, <1>3 DEF LineStarts, FirstBefore
  <2> QED BY <1>3, <2>1 DEF Definitions
<1> QED BY <1>2, <1>3

-----------------------------------------------------------------------------
(* Replacing a piece of a text.                                            *)

\* text without what is from b to e - 1, with value there.
Splice(text, b, e, value) ==
  SubSeq(text, 1, b - 1) \o value \o SubSeq(text, e, Len(text))

\* The same text in front of b, and from e on, there d further.
SameBefore(text, t, b) == \A i \in 1 .. b - 1 : t[i] = text[i]
SameBehind(text, t, e, d) == \A i \in e .. Len(text) : t[i + d] = text[i]

\* t is text with d more tokens in place of those from b to e - 1.
Changed(text, t, b, e, d) ==
  /\ t \in Text /\ Len(t) = Len(text) + d
  /\ SameBefore(text, t, b) /\ SameBehind(text, t, e, d)

\* Joined texts and texts with a piece replaced, position by position.
LEMMA JoinIs ==
  ASSUME NEW s \in Text, NEW t \in Text
  PROVE  /\ s \o t \in Text /\ Len(s \o t) = Len(s) + Len(t)
         /\ \A i \in 1 .. Len(s) : (s \o t)[i] = s[i]
         /\ \A i \in 1 .. Len(t) : (s \o t)[Len(s) + i] = t[i]
<1>1. Len(s) \in Nat /\ Len(t) \in Nat
  BY LenProperties DEF Text
<1>2. /\ s \o t \in Text /\ Len(s \o t) = Len(s) + Len(t)
      /\ \A i \in 1 .. Len(s) + Len(t) :
           (s \o t)[i] = IF i <= Len(s) THEN s[i] ELSE t[i - Len(s)]
  BY ConcatProperties DEF Text
<1>3. \A i \in 1 .. Len(s) : (s \o t)[i] = s[i]
  BY <1>1, <1>2
<1>4. ASSUME NEW i \in 1 .. Len(t) PROVE (s \o t)[Len(s) + i] = t[i]
  <2>1. /\ Len(s) + i \in 1 .. Len(s) + Len(t) /\ ~(Len(s) + i <= Len(s))
        /\ (Len(s) + i) - Len(s) = i
    BY <1>1
  <2> QED BY <1>2, <2>1
<1> QED BY <1>2, <1>3, <1>4

LEMMA SpliceIs ==
  ASSUME NEW text \in Text, NEW b \in 1 .. Len(text) + 1, NEW e \in b .. Len(text) + 1,
         NEW value \in Value
  PROVE  LET t == Splice(text, b, e, value)
             d == Len(value) - (e - b)
         IN /\ Changed(text, t, b, e, d)
            /\ \A i \in b .. b + Len(value) - 1 : t[i] # EOL
            /\ \A i \in 1 .. Len(value) : t[b - 1 + i] = value[i]
<1> DEFINE x == SubSeq(text, 1, b - 1)
           y == SubSeq(text, e, Len(text))
           t == Splice(text, b, e, value)
           d == Len(value) - (e - b)
<1>1. /\ x \in Text /\ Len(x) = b - 1
      /\ \A i \in 1 .. b - 1 : x[i] = text[i]
  BY DEF Text
<1>2. /\ y \in Text /\ Len(y) = Len(text) + 1 - e
      /\ \A i \in 1 .. Len(text) + 1 - e : y[i] = text[e + i - 1]
  BY DEF Text
<1>3. value \in Text /\ \A i \in 1 .. Len(value) : value[i] # EOL
  BY DEF Value, Text
<1>4. t = (x \o value) \o y
  BY DEF Splice
<1> HIDE DEF x, y, t
<1>5. Len(value) \in Nat /\ Len(text) \in Nat /\ Len(y) \in Nat
  BY <1>2, <1>3, LenProperties DEF Text
<1>6. /\ x \o value \in Text /\ Len(x \o value) = b - 1 + Len(value)
      /\ \A i \in 1 .. b - 1 : (x \o value)[i] = x[i]
      /\ \A i \in 1 .. Len(value) : (x \o value)[b - 1 + i] = value[i]
  <2>1. /\ x \o value \in Text /\ Len(x \o value) = Len(x) + Len(value)
        /\ \A i \in 1 .. Len(x) : (x \o value)[i] = x[i]
        /\ \A i \in 1 .. Len(value) : (x \o value)[Len(x) + i] = value[i]
    <3>1. x \in Text /\ value \in Text
      BY <1>1, <1>3
    <3> HIDE DEF Text
    <3> QED BY <3>1, JoinIs
  <2> QED BY <1>1, <2>1
<1>7. /\ t \in Text /\ Len(t) = b - 1 + Len(value) + Len(y)
      /\ \A i \in 1 .. b - 1 + Len(value) : t[i] = (x \o value)[i]
      /\ \A i \in 1 .. Len(y) : t[b - 1 + Len(value) + i] = y[i]
  <2> DEFINE z == x \o value
  <2>1. z \in Text /\ y \in Text
    BY <1>2, <1>6
  <2> HIDE DEF z
  <2>2. /\ z \o y \in Text /\ Len(z \o y) = Len(z) + Len(y)
        /\ \A i \in 1 .. Len(z) : (z \o y)[i] = z[i]
        /\ \A i \in 1 .. Len(y) : (z \o y)[Len(z) + i] = y[i]
    BY <2>1, JoinIs
  <2> QED BY <1>4, <1>6, <2>2 DEF z
<1>8. ASSUME NEW i \in 1 .. b - 1 PROVE t[i] = text[i]
  <2>1. i \in 1 .. b - 1 + Len(value)
    BY <1>5
  <2> QED BY <1>1, <1>6, <1>7, <2>1
<1>9. ASSUME NEW i \in b .. b + Len(value) - 1 PROVE t[i] # EOL
  <2>1. /\ i - b + 1 \in 1 .. Len(value) /\ i \in 1 .. b - 1 + Len(value)
        /\ i = b - 1 + (i - b + 1)
    BY <1>5
  <2>2. (x \o value)[i] = value[i - b + 1]
    BY <1>6, <2>1
  <2> QED BY <1>3, <1>7, <2>1, <2>2
<1>10. ASSUME NEW i \in e .. Len(text) PROVE t[i + d] = text[i]
  <2>1. i - e + 1 \in 1 .. Len(y) /\ i + d = b - 1 + Len(value) + (i - e + 1)
    BY <1>2, <1>5
  <2>2. y[i - e + 1] = text[i]
    <3>1. i - e + 1 \in 1 .. Len(text) + 1 - e /\ e + (i - e + 1) - 1 = i
      BY <1>5
    <3> QED BY <1>2, <3>1
  <2> QED BY <1>7, <2>1, <2>2
<1>11. Len(t) = Len(text) + d
  BY <1>2, <1>5, <1>7
<1>12. ASSUME NEW i \in 1 .. Len(value) PROVE t[b - 1 + i] = value[i]
  <2>1. b - 1 + i \in 1 .. b - 1 + Len(value)
    BY <1>5
  <2> QED BY <1>6, <1>7, <2>1
<1> QED BY <1>7, <1>8, <1>9, <1>10, <1>11, <1>12 DEF t, Changed, SameBefore, SameBehind

\* A definition of a line that ends in front of the change stays where it is.
LEMMA KeptBefore ==
  ASSUME NEW text \in Text, NEW t \in Text, NEW b \in Nat,
         b <= Len(text) + 1, b <= Len(t) + 1, SameBefore(text, t, b),
         NEW key, NEW p \in Definitions(text, key), LineEnd(text, p) < b
  PROVE  p \in Definitions(t, key) /\ LineEnd(t, p) = LineEnd(text, p)
<1> DEFINE n == LineEnd(text, p)
<1>1. Len(text) \in Nat /\ Len(t) \in Nat
  BY DEF Text
<1>2. p \in 2 .. Len(text) + 1 /\ text[p - 1] = key /\ FirstBefore(text, p)
  BY DefinitionIs
<1>3. EndsAt(text, p, n)
  BY <1>1, <1>2, LineEndIs
<1> HIDE DEF n
<1>4. n < b /\ n \in p .. Len(text)
  BY <1>1, <1>3 DEF n, EndsAt
<1>5. p \in 2 .. Len(t) + 1 /\ p \in 1 .. Len(t) + 1
  BY <1>1, <1>2, <1>4
<1>6. t[p - 1] = key /\ FirstBefore(t, p)
  BY <1>1, <1>2, <1>4 DEF SameBefore, FirstBefore
<1>7. EndsAt(t, p, n)
  BY <1>1, <1>2, <1>3, <1>4 DEF SameBefore, EndsAt
<1> QED BY <1>5, <1>6, <1>7, DefinitionIs, LineEndAt DEF n

\* A definition behind the change, from e on, moves with its line.
LEMMA KeptBehind ==
  ASSUME NEW text \in Text, NEW t \in Text, NEW e \in Nat \ {0}, NEW d \in Int,
         Len(t) = Len(text) + d, e + d >= 1, SameBehind(text, t, e, d),
         NEW key, NEW p \in Definitions(text, key), p - 1 >= e,
         p - 2 >= e \/ FirstBefore(t, p + d)
  PROVE  p + d \in Definitions(t, key) /\ LineEnd(t, p + d) = LineEnd(text, p) + d
<1> DEFINE n == LineEnd(text, p)
           q == p + d
           m == n + d
<1>1. Len(text) \in Nat /\ Len(t) \in Nat
  BY DEF Text
<1>2. p \in 2 .. Len(text) + 1 /\ text[p - 1] = key /\ FirstBefore(text, p)
  BY DefinitionIs
<1>3. EndsAt(text, p, n)
  BY <1>1, <1>2, LineEndIs
<1> HIDE DEF n
<1>4. q \in 2 .. Len(t) + 1 /\ q \in 1 .. Len(t) + 1
  BY <1>1, <1>2
<1>5. t[q - 1] = key
  <2>1. p - 1 \in e .. Len(text) /\ (p - 1) + d = q - 1
    BY <1>1, <1>2
  <2> QED BY <1>2, <2>1 DEF SameBehind
<1>6. FirstBefore(t, q)
  <2>1. CASE p - 2 >= e
    <3>1. p - 2 \in e .. Len(text) /\ (p - 2) + d = q - 2 /\ text[p - 2] = EOL
      BY <1>1, <1>2, <2>1 DEF FirstBefore
    <3>2. t[q - 2] = EOL
      BY <3>1 DEF SameBehind
    <3> QED BY <3>2 DEF FirstBefore
  <2>2. CASE FirstBefore(t, q)
    BY <2>2
  <2> QED BY <2>1, <2>2
<1>7. EndsAt(t, q, m)
  <2>1. m \in q .. Len(t) + 1
    BY <1>1, <1>2, <1>3 DEF EndsAt
  <2>2. m = Len(t) + 1 \/ t[m] = EOL
    <3>1. CASE n = Len(text) + 1
      BY <1>1, <3>1
    <3>2. CASE n # Len(text) + 1
      <4>1. n \in e .. Len(text) /\ text[n] = EOL
        BY <1>1, <1>2, <1>3, <3>2 DEF EndsAt
      <4> QED BY <4>1 DEF SameBehind
    <3> QED BY <3>1, <3>2
  <2>3. ASSUME NEW h \in q .. m - 1 PROVE t[h] # EOL
    <3>1. h - d \in p .. n - 1 /\ h - d \in e .. Len(text) /\ (h - d) + d = h
      BY <1>1, <1>2, <1>3 DEF EndsAt
    <3>2. t[h] = text[h - d]
      BY <3>1 DEF SameBehind
    <3> QED BY <1>3, <3>1, <3>2 DEF EndsAt
  <2> QED BY <2>1, <2>2, <2>3 DEF EndsAt
<1> HIDE DEF q, m
<1>8. q \in Definitions(t, key)
  BY <1>4, <1>5, <1>6, DefinitionIs
<1>9. LineEnd(t, q) = m
  BY <1>4, <1>7, LineEndAt
<1> QED BY <1>8, <1>9 DEF n, q, m

-----------------------------------------------------------------------------
(* Pointers.                                                               *)

IsAttribute(attr) ==
  /\ attr = [textData |-> attr.textData, textLength |-> attr.textLength, data |-> attr.data]
  /\ attr.textData \in Nat /\ attr.textLength \in Nat
Points(text, key, attr) ==
  /\ IsAttribute(attr)
  /\ attr.textData # 0 => /\ attr.textData \in Definitions(text, key)
                          /\ attr.textLength <= parseDefinition(text, attr.textData)
Exact(text, attr) ==
  IF attr.textData = 0 THEN attr = NoAttribute
  ELSE attr.textLength = parseDefinition(text, attr.textData)

IsState(state) ==
  /\ state = [text |-> state.text, attributes |-> state.attributes]
  /\ state.text \in Text /\ Len(state.text) <= MaxFileSize
  /\ state.attributes = [key \in Keys |-> state.attributes[key]]
StatePoints(state) ==
  \A key \in Keys : Points(state.text, key, state.attributes[key])
StateExact(state) ==
  \A key \in Keys : Exact(state.text, state.attributes[key])

\* Two definitions are in two lines.
LEMMA LinesApart ==
  ASSUME NEW text \in Text, NEW k \in Keys, NEW key \in Keys,
         NEW p \in Definitions(text, k), NEW q \in Definitions(text, key), p < q
  PROVE  q >= 4 /\ LineEnd(text, p) <= q - 2
<1>1. Len(text) \in Nat /\ EOL \notin Keys
  BY LenProperties, TextAssumption DEF Text
<1>2. p \in 2 .. Len(text) + 1 /\ text[p - 1] = k
  BY DefinitionIs
<1>3. q \in 2 .. Len(text) + 1 /\ text[q - 1] = key /\ (q = 2 \/ text[q - 2] = EOL)
  BY DefinitionIs DEF FirstBefore
<1>4. text[q - 2] = EOL /\ q # 2 /\ p # q - 1
  BY <1>1, <1>2, <1>3
<1>5. q - 2 \in p .. Len(text) + 1
  BY <1>1, <1>2, <1>3, <1>4
<1>6. /\ LineEnd(text, p) \in p .. Len(text) + 1
      /\ \A h \in p .. LineEnd(text, p) - 1 : text[h] # EOL
  <2>1. p \in 1 .. Len(text) + 1
    BY <1>1, <1>2
  <2> QED BY <2>1, LineEndIs DEF EndsAt
<1>7. ~(LineEnd(text, p) > q - 2)
  <2> SUFFICES ASSUME LineEnd(text, p) > q - 2 PROVE FALSE
    BY <1>1, <1>3, <1>6
  <2>1. q - 2 \in p .. LineEnd(text, p) - 1
    BY <1>1, <1>5, <1>6
  <2> QED BY <1>4, <1>6, <2>1
<1>8. LineEnd(text, p) <= q - 2
  BY <1>1, <1>3, <1>6, <1>7
<1> QED BY <1>1, <1>2, <1>3, <1>5, <1>8

\* A pointer that moved with its line.
LEMMA MovedPoints ==
  ASSUME NEW text, NEW t, NEW key, NEW attr, Points(text, key, attr), attr.textData # 0,
         NEW q \in Nat, q # 0, q \in Definitions(t, key),
         parseDefinition(t, q) = parseDefinition(text, attr.textData)
  PROVE  LET new == [attr EXCEPT !.textData = q]
         IN Points(t, key, new) /\ (Exact(text, attr) => Exact(t, new))
<1> DEFINE new == [attr EXCEPT !.textData = q]
<1>1. IsAttribute(attr)
  BY DEF Points
<1>2. /\ new = [textData |-> q, textLength |-> attr.textLength, data |-> attr.data]
      /\ attr.textLength \in Nat
  BY <1>1 DEF IsAttribute
<1>3. IsAttribute(new) /\ new.textData = q /\ new.textLength = attr.textLength
  BY <1>2 DEF IsAttribute
<1> HIDE DEF new
<1>4. Points(t, key, new)
  BY <1>3 DEF Points
<1>5. Exact(text, attr) => Exact(t, new)
  BY <1>3 DEF Exact
<1> QED BY <1>4, <1>5 DEF new

\* A pointer stays if its line does.
LEMMA SamePoints ==
  ASSUME NEW text, NEW t, NEW key, NEW attr, Points(text, key, attr),
         attr.textData # 0 => /\ attr.textData \in Definitions(t, key)
                              /\ LineEnd(t, attr.textData) = LineEnd(text, attr.textData)
  PROVE  Points(t, key, attr) /\ (Exact(text, attr) => Exact(t, attr))
BY DEF Points, Exact, parseDefinition

\* The text of the first definition of every key.
LEMMA ParsePoints ==
  ASSUME NEW text \in Text, Len(text) <= MaxFileSize
  PROVE  LET state == [text |-> text, attributes |-> parseConfigFile(text)]
         IN IsState(state) /\ StatePoints(state) /\ StateExact(state)
<1> DEFINE attrs == parseConfigFile(text)
<1>1. ASSUME NEW key \in Keys
      PROVE  Points(text, key, attrs[key]) /\ Exact(text, attrs[key])
  <2> DEFINE found == Definitions(text, key)
             first == CHOOSE i \in found : \A j \in found : i <= j
  <2>1. CASE found = {}
    <3>1. attrs[key] = NoAttribute
      BY <2>1 DEF parseConfigFile
    <3> QED BY <3>1 DEF Points, Exact, IsAttribute, NoAttribute
  <2>2. CASE found # {}
    <3>1. found \in SUBSET Nat
      BY DefinitionIs, LenProperties DEF Text
    <3>2. first \in found
      <4> HIDE DEF found
      <4>1. \E i \in found : \A j \in found : i <= j
        BY <2>2, <3>1, LeastNat
      <4> QED BY <4>1
    <3>3. /\ attrs[key].textData = first
          /\ attrs[key].textLength = parseDefinition(text, first)
          /\ attrs[key] = [textData |-> first,
                                textLength |-> parseDefinition(text, first),
                                data |-> attrs[key].data]
      BY <2>2 DEF parseConfigFile
    <3> HIDE DEF attrs, found, first
    <3>4. first \in 2 .. Len(text) + 1 /\ Len(text) \in Nat
      BY <3>2, DefinitionIs, LenProperties DEF Text, found
    <3>5. LineEnd(text, first) \in first .. Len(text) + 1
      <4>1. first \in 1 .. Len(text) + 1
        BY <3>4
      <4> QED BY <4>1, LineEndIs DEF EndsAt
    <3>6. parseDefinition(text, first) \in Nat /\ first \in Nat /\ first # 0
      BY <3>4, <3>5 DEF parseDefinition
    <3> QED BY <3>2, <3>3, <3>6 DEF Points, Exact, IsAttribute, found
  <2> QED BY <2>1, <2>2
<1>2. attrs = [key \in Keys |-> attrs[key]]
  BY DEF parseConfigFile
<1> HIDE DEF attrs
<1>3. IsState([text |-> text, attributes |-> attrs])
  BY <1>2 DEF IsState
<1> QED BY <1>1, <1>3 DEF StatePoints, StateExact, attrs

-----------------------------------------------------------------------------
(* Edits.                                                                  *)

Shifted(attr, from, diff) ==
  IF attr.textData > from THEN [attr EXCEPT !.textData = @ + diff] ELSE attr

\* What is replaced is no part of the definition at p, and leaves a line break
\* in front of it.
Apart(text, t, b, e, d, p) ==
  \/ p = 0
  \/ p <= b /\ LineEnd(text, p) < b
  \/ /\ p > b /\ p - 1 >= e
     /\ p - 2 >= e \/ FirstBefore(t, p + d)

\* A definition that no edit touched, from its two ends.
LEMMA OtherKept ==
  ASSUME NEW text \in Text, NEW b \in 1 .. Len(text) + 1, NEW e \in b .. Len(text) + 1,
         NEW t \in Text, NEW d \in Int, e + d >= b, Changed(text, t, b, e, d),
         NEW key, NEW attr, Points(text, key, attr), NEW p, p = attr.textData,
         Apart(text, t, b, e, d, p)
  PROVE  /\ Points(t, key, Shifted(attr, b, d))
         /\ Exact(text, attr) => Exact(t, Shifted(attr, b, d))
<1>1. p \in Nat /\ (p # 0 => p \in Definitions(text, key))
  BY DEF Points, IsAttribute
<1>2. /\ t \in Text /\ Len(t) = Len(text) + d
      /\ SameBefore(text, t, b) /\ SameBehind(text, t, e, d)
  BY DEF Changed
<1>3. Len(text) \in Nat /\ Len(t) \in Nat
  BY LenProperties DEF Text
<1>5. CASE p = 0
  <2>1. Shifted(attr, b, d) = attr
    BY <1>5 DEF Shifted
  <2> QED BY <1>5, <2>1 DEF Points, Exact
<1>6. CASE p # 0 /\ p <= b /\ LineEnd(text, p) < b
  <2>1. b \in Nat /\ b <= Len(text) + 1 /\ b <= Len(t) + 1
    BY <1>2, <1>3
  <2>2. p \in Definitions(t, key) /\ LineEnd(t, p) = LineEnd(text, p)
    BY <1>1, <1>2, <1>6, <2>1, KeptBefore
  <2>3. Shifted(attr, b, d) = attr
    BY <1>1, <1>6 DEF Shifted
  <2>4. Points(t, key, attr) /\ (Exact(text, attr) => Exact(t, attr))
    BY <2>2, SamePoints
  <2> QED BY <2>3, <2>4
<1>7. CASE p # 0 /\ p > b /\ p - 1 >= e /\ (p - 2 >= e \/ FirstBefore(t, p + d))
  <2> DEFINE q == p + d
  <2>1. /\ e \in Nat \ {0} /\ e + d >= 1 /\ q \in Nat /\ q # 0
    BY <1>1, <1>3, <1>7
  <2>2. p \in Definitions(text, key) /\ p - 1 >= e /\ (p - 2 >= e \/ FirstBefore(t, q))
    BY <1>1, <1>7
  <2>3. q \in Definitions(t, key) /\ LineEnd(t, q) = LineEnd(text, p) + d
    BY <1>2, <2>1, <2>2, KeptBehind
  <2>4. parseDefinition(t, q) = parseDefinition(text, p)
    <3>1. LineEnd(text, p) \in Int
      <4>1. p \in 1 .. Len(text) + 1
        BY <1>1, <1>3, <1>7, DefinitionIs
      <4> QED BY <4>1, LineEndIs DEF EndsAt
    <3> QED BY <1>1, <2>3, <3>1 DEF parseDefinition
  <2>5. Shifted(attr, b, d) = [attr EXCEPT !.textData = q]
    BY <1>7 DEF Shifted
  <2> HIDE DEF q
  <2>6. LET new == [attr EXCEPT !.textData = q]
        IN Points(t, key, new) /\ (Exact(text, attr) => Exact(t, new))
    BY <1>7, <2>1, <2>3, <2>4, MovedPoints
  <2> QED BY <2>5, <2>6
<1> QED BY <1>5, <1>6, <1>7 DEF Apart

\* The definition whose value, or the first part of it, is replaced.
LEMMA OwnUpdated ==
  ASSUME NEW text \in Text, NEW key, NEW p \in Definitions(text, key),
         NEW length \in Nat, length <= parseDefinition(text, p),
         NEW value \in Value, NEW t, t = Splice(text, p, p + length, value)
  PROVE  /\ t \in Text /\ Len(t) = Len(text) + (Len(value) - length)
         /\ p \in Definitions(t, key) /\ Len(value) <= parseDefinition(t, p)
         /\ length = parseDefinition(text, p) => Len(value) = parseDefinition(t, p)
<1> DEFINE d == Len(value) - length
           e == p + length
<1>1. Len(text) \in Nat /\ Len(value) \in Nat
  BY LenProperties DEF Text, Value
<1>2. p \in 2 .. Len(text) + 1 /\ text[p - 1] = key /\ FirstBefore(text, p)
  BY DefinitionIs
<1>3. EndsAt(text, p, LineEnd(text, p))
  BY <1>1, <1>2, LineEndIs
<1>4. e \in p .. LineEnd(text, p) /\ e \in p .. Len(text) + 1 /\ e - p = length
  BY <1>1, <1>2, <1>3 DEF EndsAt, parseDefinition
<1>5. Changed(text, t, p, e, d) /\ \A i \in p .. p + Len(value) - 1 : t[i] # EOL
  <2>1. p \in 1 .. Len(text) + 1
    BY <1>2
  <2> HIDE DEF e
  <2>2. Len(value) - (e - p) = d
    BY <1>4
  <2> QED BY <1>4, <2>1, <2>2, SpliceIs DEF e
<1>6. t \in Text /\ Len(t) = Len(text) + d
  BY <1>5 DEF Changed
<1>7. Len(t) \in Nat /\ p \in 2 .. Len(t) + 1 /\ p \in 1 .. Len(t) + 1
  BY <1>1, <1>2, <1>4, <1>6
<1>8. p \in Definitions(t, key)
  <2>1. t[p - 1] = key /\ FirstBefore(t, p)
    BY <1>2, <1>5, <1>7 DEF Changed, SameBefore, FirstBefore
  <2> QED BY <1>6, <1>7, <2>1, DefinitionIs
<1>9. EndsAt(t, p, LineEnd(t, p))
  BY <1>6, <1>7, LineEndIs
<1>10. Len(value) <= LineEnd(t, p) - p
  <2> SUFFICES ASSUME LineEnd(t, p) < p + Len(value) PROVE FALSE
    BY <1>1, <1>7, <1>9 DEF EndsAt
  <2>1. LineEnd(t, p) \in p .. p + Len(value) - 1
    BY <1>1, <1>7, <1>9 DEF EndsAt
  <2>2. LineEnd(t, p) = Len(t) + 1
    BY <1>5, <1>9, <2>1 DEF EndsAt
  <2> QED BY <1>1, <1>4, <1>6, <1>7, <2>1, <2>2
<1>11. ASSUME length = LineEnd(text, p) - p PROVE Len(value) = LineEnd(t, p) - p
  <2> DEFINE n == p + Len(value)
  <2>1. e = LineEnd(text, p) /\ n = e + d
    BY <1>1, <1>2, <1>3, <1>11 DEF EndsAt
  <2>2. n \in p .. Len(t) + 1
    BY <1>1, <1>4, <1>6, <1>7
  <2>3. n = Len(t) + 1 \/ t[n] = EOL
    <3>1. CASE e = Len(text) + 1
      BY <1>1, <1>2, <1>6, <1>7, <2>1, <3>1
    <3>2. CASE e # Len(text) + 1
      <4>1. e \in e .. Len(text) /\ text[e] = EOL
        BY <1>1, <1>3, <1>4, <2>1, <3>2 DEF EndsAt
      <4> QED BY <1>5, <2>1, <4>1 DEF Changed, SameBehind
    <3> QED BY <3>1, <3>2
  <2>4. EndsAt(t, p, n)
    <3>1. \A h \in p .. n - 1 : t[h] # EOL
      BY <1>1, <1>5, <1>7
    <3> HIDE DEF n
    <3> QED BY <2>2, <2>3, <3>1 DEF EndsAt
  <2> HIDE DEF n
  <2>5. LineEnd(t, p) = n
    BY <1>6, <1>7, <2>4, LineEndAt
  <2> QED BY <1>1, <1>7, <2>5 DEF n
<1> QED BY <1>6, <1>8, <1>10, <1>11 DEF parseDefinition

\* What replacing the value, or the first part of it, makes of the text. Other
\* definitions are in other lines.
UpdatedOK(text, t, key, p, length, value) ==
  LET e == p + length
      d == Len(value) - length
  IN /\ p \in 2 .. Len(text) + 1 /\ e \in p .. Len(text) + 1 /\ e + d >= p
     /\ Changed(text, t, p, e, d) /\ t[p - 1] = key
     /\ \A i \in 1 .. Len(value) : t[p - 1 + i] = value[i]
     /\ \A k \in Keys \ {key} : \A q \in Definitions(text, k) \union {0} :
          Apart(text, t, p, e, d, q)

LEMMA UpdatedIs ==
  ASSUME NEW text \in Text, NEW key \in Keys, NEW p \in Definitions(text, key),
         NEW length \in Nat, length <= parseDefinition(text, p),
         NEW value \in Value, NEW t, t = Splice(text, p, p + length, value)
  PROVE  UpdatedOK(text, t, key, p, length, value)
<1> DEFINE e == p + length
           d == Len(value) - length
<1>1. Len(text) \in Nat /\ Len(value) \in Nat
  BY LenProperties DEF Text, Value
<1>2. p \in 2 .. Len(text) + 1 /\ text[p - 1] = key /\ p \in 1 .. Len(text) + 1
  <2>1. p \in 2 .. Len(text) + 1 /\ text[p - 1] = key
    BY DefinitionIs
  <2> QED BY <1>1, <2>1
<1>3. EndsAt(text, p, LineEnd(text, p))
  BY <1>2, LineEndIs
<1>4. e \in p .. LineEnd(text, p) /\ e \in p .. Len(text) + 1 /\ e - p = length
  BY <1>1, <1>2, <1>3 DEF EndsAt, parseDefinition
<1>5. /\ Changed(text, t, p, e, d) /\ e + d >= p
      /\ \A i \in 1 .. Len(value) : t[p - 1 + i] = value[i]
  <2>1. d \in Int /\ e + d >= p /\ Len(value) - (e - p) = d
    BY <1>1, <1>2, <1>4
  <2> HIDE DEF e
  <2>2. Changed(text, t, p, e, d) /\ \A i \in 1 .. Len(value) : t[p - 1 + i] = value[i]
    BY <1>2, <1>4, <2>1, SpliceIs DEF e
  <2> QED BY <2>1, <2>2
<1>6. t[p - 1] = key
  <2>1. SameBefore(text, t, p) /\ p - 1 \in 1 .. p - 1
    BY <1>1, <1>2, <1>5 DEF Changed
  <2> QED BY <1>2, <2>1 DEF SameBefore
<1>7. ASSUME NEW k \in Keys \ {key}, NEW q \in Definitions(text, k) \union {0}
      PROVE  Apart(text, t, p, e, d, q)
  <2>0. q # 0 => q \in Definitions(text, k) /\ q \in 2 .. Len(text) + 1 /\ text[q - 1] = k
    BY DefinitionIs
  <2>1. CASE q # 0 /\ q < p
    <3>1. LineEnd(text, q) <= p - 2
      BY <2>0, <2>1, LinesApart
    <3>2. EndsAt(text, q, LineEnd(text, q))
      <4>1. q \in 1 .. Len(text) + 1
        BY <1>1, <2>0, <2>1
      <4> QED BY <4>1, LineEndIs
    <3> QED BY <1>1, <1>2, <2>0, <2>1, <3>1, <3>2 DEF Apart, EndsAt
  <2>2. CASE q # 0 /\ p < q
    <3>1. LineEnd(text, p) <= q - 2
      BY <2>0, <2>2, LinesApart
    <3>2. p < q /\ q - 1 >= e /\ q - 2 >= e
      BY <1>1, <1>2, <1>3, <1>4, <2>0, <2>2, <3>1 DEF EndsAt
    <3> HIDE DEF e
    <3> QED BY <1>2, <2>0, <2>2, <3>2 DEF Apart
  <2>3. q # p
    BY <1>2, <2>0
  <2>4. CASE q = 0
    BY <2>4 DEF Apart
  <2>5. q # 0 => q \in Int /\ p \in Int
    BY <1>1, <1>2, <2>0
  <2> QED BY <2>1, <2>2, <2>3, <2>4, <2>5
<1>8. p \in 2 .. Len(text) + 1
  BY <1>2
<1> HIDE DEF e, d
<1> QED BY <1>4, <1>5, <1>6, <1>7, <1>8 DEF UpdatedOK, e, d

\* The pointers to them move with their lines.
LEMMA OtherUpdated ==
  ASSUME NEW text \in Text, NEW key \in Keys, NEW p \in Definitions(text, key),
         NEW length \in Nat, length <= parseDefinition(text, p),
         NEW value \in Value, NEW t, t = Splice(text, p, p + length, value),
         NEW d, d = Len(value) - length,
         NEW k \in Keys \ {key}, NEW attr, Points(text, k, attr)
  PROVE  /\ Points(t, k, Shifted(attr, p, d))
         /\ Exact(text, attr) => Exact(t, Shifted(attr, p, d))
<1> DEFINE e == p + length
           q == attr.textData
<1>1. UpdatedOK(text, t, key, p, length, value)
  BY UpdatedIs
<1>2. q = attr.textData /\ q \in Definitions(text, k) \union {0}
  BY DEF Points
<1> HIDE DEF q
<1>3. /\ p \in 1 .. Len(text) + 1 /\ e \in p .. Len(text) + 1 /\ e + d >= p
      /\ Changed(text, t, p, e, d) /\ Apart(text, t, p, e, d, q)
  <2>1. p \in 2 .. Len(text) + 1 => p \in 1 .. Len(text) + 1
    BY LenProperties DEF Text
  <2> QED BY <1>1, <1>2, <2>1 DEF UpdatedOK
<1>4. t \in Text /\ d \in Int
  <2>1. Len(value) \in Nat
    BY LenProperties DEF Value
  <2> QED BY <1>3, <2>1 DEF Changed
<1> HIDE DEF e
<1> QED BY <1>2, <1>3, <1>4, OtherKept

\* The definition that is added, behind a line break if the text needs one.
AddedLine(text, key) == text \o Separator(text) \o <<key>>
Added(text, key, value) == AddedLine(text, key) \o value \o <<EOL, EOL>>
Closed(text, t) == text # <<>> /\ text[Len(text)] # EOL => t[Len(text) + 1] = EOL

\* What adding a definition makes of the text.
AddedOK(text, key, value, line, t) ==
  /\ t \in Text /\ Len(t) = Len(text) + Len(Separator(text)) + 1 + Len(value) + 2
  /\ Len(line) + 1 \in Definitions(t, key)
  /\ parseDefinition(t, Len(line) + 1) = Len(value)
  /\ SameBefore(text, t, Len(text) + 1)
  /\ Closed(text, t)
  /\ Len(line) = Len(text) + Len(Separator(text)) + 1 /\ Len(Separator(text)) \in Nat
  /\ \A i \in 1 .. Len(value) : t[Len(line) + i] = value[i]
  /\ \A i \in Len(text) + 1 .. Len(line) - 1 : t[i] = EOL
  /\ \A i \in Len(line) + Len(value) + 1 .. Len(t) : t[i] = EOL

\* An added definition is the one its key points to.
LEMMA OwnAdded ==
  ASSUME NEW text \in Text, NEW key \in Keys, NEW value \in Value,
         NEW line, line = AddedLine(text, key), NEW t, t = Added(text, key, value)
  PROVE  AddedOK(text, key, value, line, t)
<1> DEFINE sep == Separator(text)
           s == text \o sep
           body == line \o value
           end == <<EOL, EOL>>
           m == Len(s)
           n == Len(value)
<1>1. EOL \in Tokens /\ key \in Tokens
  BY TextAssumption
<1>2. sep \in Text /\ value \in Text /\ end \in Text /\ <<key>> \in Text
  BY <1>1 DEF Separator, Text, Value
<1>3. \A i \in 1 .. Len(value) : value[i] # EOL
  BY ElementOfSeq DEF Value
<1>4. /\ Len(text) \in Nat /\ Len(sep) \in Nat /\ n \in Nat
      /\ Len(end) = 2 /\ end[1] = EOL /\ end[2] = EOL /\ Len(<<key>>) = 1
      /\ <<key>>[1] = key
  BY <1>2, LenProperties DEF Text, Value
<1>5. text # <<>> /\ text[Len(text)] # EOL => Len(sep) = 2 /\ sep[1] = EOL /\ sep[2] = EOL
  BY DEF Separator, Last
<1>6. text = <<>> \/ text[Len(text)] = EOL => sep = <<>> /\ Len(sep) = 0
  BY DEF Separator, Last
<1> HIDE DEF sep, end
<1>7. /\ s \in Text /\ m = Len(text) + Len(sep)
      /\ \A i \in 1 .. Len(text) : s[i] = text[i]
      /\ \A i \in 1 .. Len(sep) : s[Len(text) + i] = sep[i]
  BY <1>2, JoinIs
<1>8. line = s \o <<key>>
  BY DEF sep, AddedLine
<1> HIDE DEF s, m, n
<1>9. m = 0 \/ s[m] = EOL
  <2>1. CASE text = <<>>
    BY <1>4, <1>6, <1>7, <2>1
  <2>2. CASE text # <<>> /\ text[Len(text)] = EOL
    <3>1. Len(text) # 0
      BY <2>2, EmptySeq DEF Text
    <3>2. m = Len(text) /\ Len(text) \in 1 .. Len(text)
      BY <1>4, <1>6, <1>7, <2>2, <3>1
    <3> QED BY <1>7, <2>2, <3>2
  <2>3. CASE text # <<>> /\ text[Len(text)] # EOL
    <3>1. m = Len(text) + 2 /\ 2 \in 1 .. Len(sep) /\ sep[2] = EOL
      BY <1>4, <1>5, <1>7, <2>3
    <3> QED BY <1>7, <3>1
  <2> QED BY <2>1, <2>2, <2>3
<1>10. /\ line \in Text /\ Len(line) = m + 1 /\ line[m + 1] = key /\ m \in Nat
       /\ \A i \in 1 .. m : line[i] = s[i]
  <2>1. /\ s \o <<key>> \in Text /\ Len(s \o <<key>>) = Len(s) + Len(<<key>>)
        /\ \A i \in 1 .. Len(s) : (s \o <<key>>)[i] = s[i]
        /\ \A i \in 1 .. Len(<<key>>) : (s \o <<key>>)[Len(s) + i] = <<key>>[i]
    BY <1>2, <1>7, JoinIs
  <2>2. 1 \in 1 .. Len(<<key>>) /\ Len(s) = m /\ m \in Nat
    BY <1>4, <1>7 DEF m
  <2>3. (s \o <<key>>)[m + 1] = <<key>>[1]
    BY <2>1, <2>2
  <2> QED BY <1>4, <1>8, <2>1, <2>2, <2>3
<1>11. /\ body \in Text /\ Len(body) = m + 1 + n
       /\ \A i \in 1 .. m + 1 : body[i] = line[i]
       /\ \A i \in 1 .. n : body[m + 1 + i] = value[i]
  <2>1. /\ body \in Text /\ Len(body) = Len(line) + Len(value)
        /\ \A i \in 1 .. Len(line) : body[i] = line[i]
        /\ \A i \in 1 .. Len(value) : body[Len(line) + i] = value[i]
    BY <1>2, <1>10, JoinIs
  <2> QED BY <1>10, <2>1 DEF n
<1> HIDE DEF body
<1>12. /\ t \in Text /\ Len(t) = m + 1 + n + 2
       /\ t[m + 1 + n + 1] = EOL /\ t[m + 1 + n + 2] = EOL
       /\ \A i \in 1 .. m + 1 + n : t[i] = body[i]
  <2>1. t = body \o end
    BY DEF body, end, Added
  <2>2. /\ body \o end \in Text /\ Len(body \o end) = Len(body) + Len(end)
        /\ \A i \in 1 .. Len(body) : (body \o end)[i] = body[i]
        /\ \A i \in 1 .. Len(end) : (body \o end)[Len(body) + i] = end[i]
    BY <1>2, <1>11, JoinIs
  <2>3. 1 \in 1 .. Len(end) /\ 2 \in 1 .. Len(end) /\ Len(body) = m + 1 + n
    BY <1>4, <1>11
  <2>4. (body \o end)[m + 1 + n + 1] = end[1] /\ (body \o end)[m + 1 + n + 2] = end[2]
    BY <2>2, <2>3
  <2> QED BY <1>4, <2>1, <2>2, <2>3, <2>4
<1>13. SameBefore(text, t, Len(text) + 1)
  <2>1. ASSUME NEW i \in 1 .. Len(text) PROVE t[i] = text[i]
    <3>1. i \in 1 .. m /\ i \in 1 .. m + 1 /\ i \in 1 .. m + 1 + n
      BY <1>4, <1>7
    <3> QED BY <1>7, <1>10, <1>11, <1>12, <3>1
  <2> QED BY <1>4, <2>1 DEF SameBefore
<1>14. ASSUME text # <<>>, text[Len(text)] # EOL PROVE t[Len(text) + 1] = EOL
  <2> DEFINE i == Len(text) + 1
  <2>1. i \in 1 .. m /\ i \in 1 .. m + 1 /\ i \in 1 .. m + 1 + n /\ s[i] = EOL
    BY <1>4, <1>5, <1>7, <1>14
  <2> HIDE DEF i
  <2>2. t[i] = EOL
    BY <1>10, <1>11, <1>12, <2>1
  <2> QED BY <2>2 DEF i
<1>15. Len(line) + 1 \in Definitions(t, key)
  <2> DEFINE q == m + 2
  <2>1. q \in 2 .. Len(t) + 1
    BY <1>4, <1>10, <1>12
  <2>2. t[q - 1] = key
    <3>1. m + 1 \in 1 .. m + 1 /\ m + 1 \in 1 .. m + 1 + n /\ q - 1 = m + 1
      BY <1>4, <1>10 DEF n
    <3> QED BY <1>10, <1>11, <1>12, <3>1
  <2>3. FirstBefore(t, q)
    <3>1. m # 0 => m \in 1 .. m /\ m \in 1 .. m + 1 /\ m \in 1 .. m + 1 + n /\ q - 2 = m
      BY <1>4, <1>10
    <3>2. m # 0 => t[m] = EOL
      BY <1>9, <1>10, <1>11, <1>12, <3>1
    <3>3. m = 0 => q = 2
      BY <1>10
    <3>4. m # 0 => t[q - 2] = EOL
      BY <3>1, <3>2
    <3> QED BY <3>3, <3>4 DEF FirstBefore
  <2>4. Len(line) + 1 = q
    BY <1>10
  <2> HIDE DEF q
  <2> QED BY <1>12, <2>1, <2>2, <2>3, <2>4, DefinitionIs
<1>16. parseDefinition(t, Len(line) + 1) = n
  <2> DEFINE q == m + 2
             e == q + n
  <2>1. q \in 1 .. Len(t) + 1 /\ e \in q .. Len(t) + 1 /\ t[e] = EOL
    BY <1>4, <1>10, <1>12
  <2>2. ASSUME NEW h \in q .. e - 1 PROVE t[h] # EOL
    <3>1. h - (m + 1) \in 1 .. n /\ h \in 1 .. m + 1 + n /\ m + 1 + (h - (m + 1)) = h
      BY <1>4, <1>10
    <3>2. t[h] = value[h - (m + 1)]
      BY <1>11, <1>12, <3>1
    <3> QED BY <1>3, <3>1, <3>2 DEF n
  <2>3. EndsAt(t, q, e)
    <3> HIDE DEF q, e
    <3> QED BY <2>1, <2>2 DEF EndsAt
  <2>4. LineEnd(t, q) = e
    <3> HIDE DEF q, e
    <3> QED BY <1>12, <2>1, <2>3, LineEndAt
  <2>5. Len(line) + 1 = q /\ e - q = n
    BY <1>4, <1>10
  <2> HIDE DEF q, e
  <2> QED BY <2>4, <2>5 DEF parseDefinition
<1>17. Len(t) = Len(text) + Len(sep) + 1 + n + 2
  BY <1>4, <1>7, <1>12
<1>18. ASSUME NEW i \in 1 .. n PROVE t[m + 1 + i] = value[i]
  <2>1. m + 1 + i \in 1 .. m + 1 + n
    BY <1>4, <1>10 DEF n
  <2> QED BY <1>11, <1>12, <2>1
<1>19. ASSUME NEW i \in Len(text) + 1 .. m PROVE t[i] = EOL
  <2>1. /\ i \in 1 .. m /\ i \in 1 .. m + 1 /\ i \in 1 .. m + 1 + n
        /\ i - Len(text) \in 1 .. Len(sep) /\ Len(text) + (i - Len(text)) = i
    BY <1>4, <1>7, <1>10 DEF n
  <2>2. t[i] = sep[i - Len(text)]
    BY <1>7, <1>10, <1>11, <1>12, <2>1
  <2>3. Len(sep) = 2 /\ sep[1] = EOL /\ sep[2] = EOL
    BY <1>5, <1>6, <2>1
  <2>4. i - Len(text) = 1 \/ i - Len(text) = 2
    BY <2>1, <2>3
  <2> QED BY <2>2, <2>3, <2>4
<1>20. ASSUME NEW i \in m + 1 + n + 1 .. Len(t) PROVE t[i] = EOL
  <2>1. i = m + 1 + n + 1 \/ i = m + 1 + n + 2
    BY <1>4, <1>10, <1>12
  <2> QED BY <1>12, <2>1
<1>21. /\ Len(line) = Len(text) + Len(sep) + 1 /\ Len(line) = m + 1 /\ Len(line) - 1 = m
       /\ Len(sep) \in Nat
  BY <1>4, <1>7, <1>10
<1> QED BY <1>12, <1>13, <1>14, <1>15, <1>16, <1>17, <1>18, <1>19, <1>20, <1>21
        DEF AddedOK, Closed, sep, n

\* The other definitions keep their place; an open last line gets its end.
LEMMA OtherAdded ==
  ASSUME NEW text \in Text, NEW t \in Text, Len(t) > Len(text),
         SameBefore(text, t, Len(text) + 1), Closed(text, t),
         NEW k \in Keys, NEW attr, Points(text, k, attr)
  PROVE  Points(t, k, attr) /\ (Exact(text, attr) => Exact(t, attr))
<1> DEFINE p == attr.textData
           n == LineEnd(text, p)
<1>1. Len(text) \in Nat /\ Len(t) \in Nat /\ EOL \notin Keys
  BY LenProperties, TextAssumption DEF Text
<1>2. SUFFICES ASSUME p # 0 PROVE p \in Definitions(t, k) /\ LineEnd(t, p) = n
  BY SamePoints
<1>3. p \in Definitions(text, k)
  BY <1>2 DEF Points
<1> HIDE DEF p
<1>4. p \in 2 .. Len(text) + 1 /\ text[p - 1] = k /\ FirstBefore(text, p)
  BY <1>3, DefinitionIs
<1>5. EndsAt(text, p, n)
  BY <1>1, <1>4, LineEndIs
<1> HIDE DEF n
<1>6. CASE n < Len(text) + 1
  <2> DEFINE b == Len(text) + 1
  <2>1. b \in Nat /\ b <= Len(text) + 1 /\ b <= Len(t) + 1
    BY <1>1
  <2>2. LineEnd(text, p) < b /\ SameBefore(text, t, b)
    BY <1>6 DEF n
  <2> HIDE DEF b
  <2> QED BY <1>3, <2>1, <2>2, KeptBefore DEF n
<1>7. CASE n = Len(text) + 1
  <2>1. text # <<>> /\ text[Len(text)] # EOL
    <3>1. text # <<>>
      <4>1. Len(text) # 0
        BY <1>1, <1>4
      <4> QED BY <4>1, EmptySeq
    <3>2. CASE p = Len(text) + 1
      BY <1>1, <1>4, <3>2
    <3>3. CASE p # Len(text) + 1
      BY <1>1, <1>4, <1>5, <1>7, <3>3 DEF EndsAt
    <3> QED BY <3>1, <3>2, <3>3
  <2>2. EndsAt(t, p, n)
    BY <1>1, <1>4, <1>5, <1>7, <2>1 DEF EndsAt, SameBefore, Closed
  <2>3. p \in 2 .. Len(t) + 1 /\ p \in 1 .. Len(t) + 1
    BY <1>1, <1>4
  <2>4. t[p - 1] = k /\ FirstBefore(t, p)
    BY <1>1, <1>4 DEF SameBefore, FirstBefore
  <2> QED BY <2>2, <2>3, <2>4, DefinitionIs, LineEndAt
<1> QED BY <1>1, <1>5, <1>6, <1>7 DEF EndsAt

\* The line of a definition with a value begins with the name of its key. The
\* one exception is the second line of a text that begins with a line break.
LEMMA LineBeginIs ==
  ASSUME NEW text \in Text, NEW key \in Keys, NEW p \in Definitions(text, key),
         p <= Len(text), text[p] # EOL
  PROVE  LineBegin(text, p) = p - 1 \/ (p = 3 /\ LineBegin(text, p) = 1)
<1> DEFINE breaks == {j \in 2 .. p : text[j] = EOL}
<1>1. Len(text) \in Nat /\ EOL \notin Keys
  BY LenProperties, TextAssumption DEF Text
<1>2. p \in 2 .. Len(text) + 1 /\ text[p - 1] = key /\ FirstBefore(text, p)
  BY DefinitionIs
<1>3. \A j \in breaks : j \in Nat /\ j <= p - 2
  BY <1>1, <1>2
<1>4. CASE p >= 4
  <2>1. p - 2 \in breaks
    BY <1>1, <1>2, <1>4 DEF FirstBefore
  <2> HIDE DEF breaks
  <2> DEFINE x == CHOOSE j \in breaks : \A h \in breaks : j >= h
  <2>2. \E j \in breaks : \A h \in breaks : j >= h
    BY <1>1, <1>2, <1>3, <2>1
  <2>3. x \in breaks /\ \A h \in breaks : x >= h
    BY <2>2
  <2>4. x = p - 2
    <3> HIDE DEF x
    <3> QED BY <1>2, <1>3, <2>1, <2>3
  <2>5. LineBegin(text, p) = 1 + x
    BY <2>1 DEF LineBegin, breaks
  <2> HIDE DEF x
  <2> QED BY <1>2, <2>4, <2>5
<1>5. CASE p < 4
  <2>1. breaks = {}
    BY <1>1, <1>2, <1>3, <1>5
  <2>2. LineBegin(text, p) = 1
    BY <2>1 DEF LineBegin
  <2> QED BY <1>2, <1>5, <2>2
<1> QED BY <1>2, <1>4, <1>5

\* A line break takes one or two characters with it.
LEMMA NextLineIs ==
  ASSUME NEW text \in Text, NEW i, NEW e \in 1 .. Len(text) + 1, LineEnd(text, i) = e
  PROVE  /\ NextLine(text, i) \in e .. Len(text) + 1
         /\ \/ e = Len(text) + 1
            \/ NextLine(text, i) = e + 1
            \/ NextLine(text, i) = e + 2 /\ text[e + 1] = EOL
<1>1. Len(text) \in Nat
  BY LenProperties DEF Text
<1> QED BY <1>1 DEF NextLine

\* What removing the line of a definition makes of the text: what is behind it
\* is the next line, and the other definitions are left alone.
RemovedOK(text, t, key, p, b, e) ==
  LET d == 0 - (e - b)
  IN /\ b \in 1 .. Len(text) + 1 /\ e \in b .. Len(text) + 1 /\ b < p /\ p < e
     /\ Changed(text, t, b, e, d) /\ Len(t) <= Len(text)
     /\ e = Len(text) + 1 \/ text[e - 1] = EOL
     /\ \A k \in Keys \ {key} : \A q \in Definitions(text, k) \union {0} :
          Apart(text, t, b, e, d, q)

LEMMA RemovedIs ==
  ASSUME NEW text \in Text, NEW key \in Keys, NEW p \in Definitions(text, key),
         NEW length \in Nat \ {0}, length <= parseDefinition(text, p),
         NEW b, b = LineBegin(text, p), NEW e, e = NextLine(text, p + length),
         NEW t, t = Splice(text, b, e, <<>>)
  PROVE  RemovedOK(text, t, key, p, b, e)
<1> DEFINE n == LineEnd(text, p)
           d == 0 - (e - b)
<1>1. Len(text) \in Nat /\ EOL \notin Keys
  BY LenProperties, TextAssumption DEF Text
<1>2. p \in 2 .. Len(text) + 1 /\ text[p - 1] = key /\ FirstBefore(text, p)
  BY DefinitionIs
<1>3. EndsAt(text, p, n)
  BY <1>1, <1>2, LineEndIs
<1>4. p + length <= n /\ n \in 1 .. Len(text) + 1 /\ p <= Len(text) /\ text[p] # EOL
  BY <1>1, <1>2, <1>3 DEF parseDefinition, EndsAt
<1> HIDE DEF n
<1>5. b = p - 1 \/ (p = 3 /\ b = 1)
  BY <1>4, LineBeginIs
<1>6. /\ e \in n .. Len(text) + 1
      /\ n = Len(text) + 1 \/ e = n + 1 \/ (e = n + 2 /\ text[n + 1] = EOL)
  <2> DEFINE i == p + length
  <2>1. i \in 1 .. Len(text) + 1
    BY <1>1, <1>2, <1>4
  <2>2. EndsAt(text, i, n)
    BY <1>1, <1>2, <1>3, <1>4 DEF EndsAt
  <2> HIDE DEF i
  <2>3. LineEnd(text, i) = n
    BY <2>1, <2>2, LineEndAt
  <2>4. e = NextLine(text, i)
    BY DEF i
  <2> QED BY <1>4, <2>3, <2>4, NextLineIs
<1>7. b \in 1 .. Len(text) + 1 /\ e \in b .. Len(text) + 1 /\ b < p /\ p < e
  <2>1. p \in Int /\ n \in Int /\ e \in Int /\ e >= n /\ e <= Len(text) + 1
    BY <1>1, <1>2, <1>4, <1>6
  <2>2. b \in Int /\ b >= 1 /\ b < p
    BY <1>2, <1>5, <2>1
  <2>3. p < n
    <3>1. p + length <= n
      BY <1>4
    <3> QED BY <2>1, <3>1
  <2>4. b < p /\ p < e /\ b <= e
    BY <2>1, <2>2, <2>3
  <2>5. e \in b .. Len(text) + 1
    BY <1>1, <2>1, <2>2, <2>4
  <2>6. b \in 1 .. Len(text) + 1
    BY <1>1, <2>2, <2>5
  <2> QED BY <2>4, <2>5, <2>6
<1>8. /\ Changed(text, t, b, e, d) /\ t \in Text /\ d \in Int /\ e + d >= b
      /\ Len(t) <= Len(text)
  <2>1. <<>> \in Value /\ Len(<<>>) = 0
    BY EmptySeq DEF Value
  <2>a. b \in Int /\ e \in Int /\ b <= e
    BY <1>1, <1>7
  <2>2. d \in Int /\ e + d >= b /\ d <= 0 /\ Len(<<>>) - (e - b) = d
    BY <2>1, <2>a
  <2>3. Changed(text, t, b, e, d)
    BY <1>7, <2>1, <2>2, SpliceIs
  <2>4. t \in Text /\ Len(t) = Len(text) + d
    BY <2>3 DEF Changed
  <2> QED BY <1>1, <2>2, <2>3, <2>4
<1>d. d = 0 - (e - b)
  OBVIOUS
<1> HIDE DEF d
<1>9. ASSUME NEW k \in Keys \ {key}, NEW q \in Definitions(text, k) \union {0}
      PROVE  Apart(text, t, b, e, d, q)
  <2>1. q # 0 => q \in Definitions(text, k)
    OBVIOUS
  <2>3. q # 0 => q \in 2 .. Len(text) + 1 /\ text[q - 1] = k /\ FirstBefore(text, q)
    BY <2>1, DefinitionIs
  <2>4. Apart(text, t, b, e, d, q)
    <3>1. CASE q # 0 /\ q < p
      <4>1. LineEnd(text, q) <= p - 2 /\ p >= 4
        BY <2>1, <3>1, LinesApart
      <4>2. EndsAt(text, q, LineEnd(text, q))
        <5>1. q \in 1 .. Len(text) + 1
          BY <1>1, <2>3, <3>1
        <5> QED BY <5>1, LineEndIs
      <4> QED BY <1>1, <1>2, <1>5, <2>1, <3>1, <4>1, <4>2 DEF Apart, EndsAt
    <3>2. CASE q # 0 /\ p < q
      <4>1. n <= q - 2 /\ q >= 4
        BY <2>1, <3>2, LinesApart DEF n
      <4>2. q > b /\ q - 1 >= e
        <5>1. text[q - 1] # EOL
          BY <1>1, <2>3, <3>2
        <5>2. n # Len(text) + 1 /\ n + 1 <= q - 1 /\ (n + 1 = q - 1 => text[n + 1] # EOL)
          BY <1>1, <1>4, <2>3, <3>2, <4>1, <5>1
        <5>3. e \in Int /\ b \in Int /\ n \in Int /\ q \in Int /\ p \in Int
          BY <1>1, <1>2, <1>4, <1>6, <1>7, <2>3, <3>2
        <5>4. e = n + 1 \/ (e = n + 2 /\ text[n + 1] = EOL)
          BY <1>6, <5>2
        <5>5. e <= q - 1
          <6>1. CASE e = n + 1
            BY <5>2, <5>3, <6>1
          <6>2. CASE e = n + 2 /\ text[n + 1] = EOL
            <7>1. n + 1 # q - 1
              BY <5>2, <6>2
            <7> QED BY <5>2, <5>3, <6>2, <7>1
          <6> QED BY <5>4, <6>1, <6>2
        <5> QED BY <1>7, <3>2, <5>3, <5>5
      <4>3. e \in Int /\ b \in Int /\ q \in Int
        BY <1>1, <1>6, <1>7, <2>3, <3>2
      <4>4. q - 2 >= e \/ FirstBefore(t, q + d)
        <5> SUFFICES ASSUME q - 1 = e PROVE FirstBefore(t, q + d)
          BY <4>2, <4>3
        <5>1. q + d = b + 1
          BY <1>d, <4>3
        <5>2. CASE b = 1
          BY <5>1, <5>2 DEF FirstBefore
        <5>3. CASE b # 1
          <6>1. b = p - 1 /\ p # 2 /\ text[p - 2] = EOL
            BY <1>2, <1>5, <5>3 DEF FirstBefore
          <6>2. t[b - 1] = text[b - 1]
            <7>1. b - 1 \in 1 .. b - 1
              BY <1>7, <5>3
            <7> QED BY <1>8, <7>1 DEF Changed, SameBefore
          <6>3. b - 1 = p - 2 /\ (b + 1) - 2 = b - 1
            BY <1>2, <6>1
          <6> QED BY <5>1, <6>1, <6>2, <6>3 DEF FirstBefore
        <5> QED BY <5>2, <5>3
      <4> QED BY <4>2, <4>4 DEF Apart
    <3>3. q # p
      BY <1>2, <2>3
    <3>4. CASE q = 0
      BY <3>4 DEF Apart
    <3> QED BY <1>2, <2>1, <3>1, <3>2, <3>3, <3>4
  <2> QED BY <2>4
<1>10. e = Len(text) + 1 \/ text[e - 1] = EOL
  <2>1. CASE e = n + 1 /\ n # Len(text) + 1
    <3>1. text[n] = EOL /\ e - 1 = n
      BY <1>3, <1>4, <2>1 DEF n, EndsAt
    <3> QED BY <3>1
  <2>2. CASE e = n + 2 /\ text[n + 1] = EOL
    <3>1. e - 1 = n + 1
      BY <1>1, <1>4, <2>2
    <3> QED BY <2>2, <3>1
  <2>3. CASE n = Len(text) + 1
    BY <1>1, <1>6, <2>3
  <2> QED BY <1>6, <2>1, <2>2, <2>3
<1> QED BY <1>7, <1>8, <1>9, <1>10 DEF RemovedOK, d

\* The pointers to the others move with their lines.
LEMMA OtherRemoved ==
  ASSUME NEW text \in Text, NEW key \in Keys, NEW p \in Definitions(text, key),
         NEW length \in Nat \ {0}, length <= parseDefinition(text, p),
         NEW b, b = LineBegin(text, p), NEW e, e = NextLine(text, p + length),
         NEW t, t = Splice(text, b, e, <<>>), NEW d, d = 0 - (e - b)
  PROVE  /\ b \in Nat /\ e \in Nat /\ b <= e
         /\ t \in Text /\ Len(t) <= Len(text)
         /\ \A k \in Keys \ {key} : \A attr : Points(text, k, attr) =>
              /\ Points(t, k, Shifted(attr, b, d))
              /\ Exact(text, attr) => Exact(t, Shifted(attr, b, d))
<1>1. RemovedOK(text, t, key, p, b, e)
  BY RemovedIs
<1>2. /\ b \in 1 .. Len(text) + 1 /\ e \in b .. Len(text) + 1
      /\ Changed(text, t, b, e, d) /\ Len(t) <= Len(text)
      /\ \A k \in Keys \ {key} : \A q \in Definitions(text, k) \union {0} :
           Apart(text, t, b, e, d, q)
  BY <1>1 DEF RemovedOK
<1>3. b \in Nat /\ e \in Nat /\ b <= e /\ d \in Int /\ e + d >= b /\ t \in Text
  <2>1. Len(text) \in Nat
    BY LenProperties DEF Text
  <2>2. b \in Nat /\ e \in Nat /\ b <= e
    BY <1>2, <2>1
  <2>3. t \in Text
    BY <1>2 DEF Changed
  <2> QED BY <2>2, <2>3
<1>4. ASSUME NEW k \in Keys \ {key}, NEW attr, Points(text, k, attr)
      PROVE  /\ Points(t, k, Shifted(attr, b, d))
             /\ Exact(text, attr) => Exact(t, Shifted(attr, b, d))
  <2> DEFINE q == attr.textData
  <2>1. q = attr.textData /\ q \in Definitions(text, k) \union {0}
    BY <1>4 DEF Points
  <2> HIDE DEF q
  <2>2. Apart(text, t, b, e, d, q)
    BY <1>2, <2>1
  <2> QED BY <1>2, <1>3, <1>4, <2>1, <2>2, OtherKept
<1> QED BY <1>2, <1>3, <1>4

\* The two fields that an update of a definition sets.
WithField(state, key, length, data) ==
  [state EXCEPT !.attributes[key].textLength = length, !.attributes[key].data = data]

\* An attribute table with one entry changed.
LEMMA WithFieldIs ==
  ASSUME NEW t, NEW f, NEW key \in DOMAIN f, IsAttribute(f[key]), NEW length, NEW data,
         NEW own, own = [textData |-> f[key].textData, textLength |-> length, data |-> data],
         NEW state, state = [text |-> t, attributes |-> f]
  PROVE  WithField(state, key, length, data)
           = [text |-> t, attributes |-> [f EXCEPT ![key] = own]]
<1> DEFINE p == f[key].textData
           x == f[key].data
           a == [textData |-> p, textLength |-> length, data |-> x]
           b == [textData |-> p, textLength |-> length, data |-> data]
           g == [f EXCEPT ![key] = a]
           h == [f EXCEPT ![key] = b]
<1>0. f[key] = [textData |-> p, textLength |-> f[key].textLength, data |-> x]
  BY DEF IsAttribute
<1> HIDE DEF p, x
<1>1. [f[key] EXCEPT !.textLength = length] = a
  BY <1>0
<1>2. [a EXCEPT !.data = data] = b
  OBVIOUS
<1>3. g[key] = a /\ [g EXCEPT ![key] = b] = h
  OBVIOUS
<1> HIDE DEF a, b
<1>4. [f EXCEPT ![key].textLength = length] = g
  <2>1. [f EXCEPT ![key].textLength = length]
          = [f EXCEPT ![key] = [f[key] EXCEPT !.textLength = length]]
    OBVIOUS
  <2> QED BY <1>1, <2>1
<1>5. [state EXCEPT !.attributes[key].textLength = length] = [text |-> t, attributes |-> g]
  <2>1. [state EXCEPT !.attributes[key].textLength = length]
          = [text |-> t, attributes |-> [f EXCEPT ![key].textLength = length]]
    OBVIOUS
  <2> HIDE DEF g
  <2> QED BY <1>4, <2>1
<1> HIDE DEF g, h
<1>6. [[text |-> t, attributes |-> g] EXCEPT !.attributes[key].data = data]
        = [text |-> t, attributes |-> h]
  BY <1>2, <1>3
<1>7. WithField(state, key, length, data)
        = [[state EXCEPT !.attributes[key].textLength = length]
             EXCEPT !.attributes[key].data = data]
  BY DEF WithField
<1> QED BY <1>5, <1>6, <1>7 DEF h, b, p

\* A state from its text, the pointer of one key, and those of the others.
LEMMA StateIs ==
  ASSUME NEW t \in Text, Len(t) <= MaxFileSize, NEW attrs, attrs = [k \in Keys |-> attrs[k]],
         NEW key \in Keys, NEW own, Points(t, key, own),
         \A k \in Keys \ {key} : Points(t, k, attrs[k]),
         NEW new, new = [text |-> t, attributes |-> [attrs EXCEPT ![key] = own]]
  PROVE  /\ IsState(new) /\ StatePoints(new)
         /\ (Exact(t, own) /\ \A k \in Keys \ {key} : Exact(t, attrs[k])) => StateExact(new)
<1>1. /\ new.text = t /\ new.attributes = [attrs EXCEPT ![key] = own]
      /\ new = [text |-> new.text, attributes |-> new.attributes]
  OBVIOUS
<1>2. /\ new.attributes = [k \in Keys |-> new.attributes[k]]
      /\ \A k \in Keys : new.attributes[k] = IF k = key THEN own ELSE attrs[k]
  BY <1>1
<1>3. IsState(new)
  BY <1>1, <1>2 DEF IsState
<1>4. StatePoints(new)
  BY <1>1, <1>2 DEF StatePoints
<1>5. (Exact(t, own) /\ \A k \in Keys \ {key} : Exact(t, attrs[k])) => StateExact(new)
  BY <1>1, <1>2 DEF StateExact
<1> QED BY <1>3, <1>4, <1>5

\* The write functions add a definition, replace the value of one, or find no
\* room, which leaves the text alone.
Moved(attrs, b, d) == [k \in Keys |-> Shifted(attrs[k], b, d)]
IsAdded(state, key, data, new) ==
  LET value == Format(key, data)
      own == [textData |-> Len(AddedLine(state.text, key)) + 1,
              textLength |-> Len(value), data |-> data]
  IN /\ state.attributes[key].textData = 0 /\ DefinitionFits(state.text, value)
     /\ new = [text |-> Added(state.text, key, value),
               attributes |-> [state.attributes EXCEPT ![key] = own]]
IsUpdated(state, key, data, new) ==
  LET value == Format(key, data)
      p == state.attributes[key].textData
      length == state.attributes[key].textLength
      own == [textData |-> p, textLength |-> Len(value), data |-> data]
  IN /\ p # 0 /\ Len(value) <= Remaining(state.text)
     /\ new = [text |-> Splice(state.text, p, p + length, value),
               attributes |-> [Moved(state.attributes, p, Len(value) - length)
                                 EXCEPT ![key] = own]]
IsRefused(state, key, data, new) ==
  LET p == state.attributes[key].textData
      own == [textData |-> p,
              textLength |-> IF p = 0 THEN Len(Format(key, data)) ELSE 0, data |-> data]
  IN /\ ~HasRoom(state, key, data)
     /\ new = [text |-> state.text,
               attributes |-> [state.attributes EXCEPT ![key] = own]]

LEMMA WriteIs ==
  ASSUME NEW state, IsState(state), StatePoints(state), NEW key \in Keys, NEW data,
         Format(key, data) \in Value, NEW new, new = writeAttribute(state, key, data)
  PROVE  \/ IsAdded(state, key, data, new)
         \/ IsUpdated(state, key, data, new)
         \/ IsRefused(state, key, data, new)
<1> DEFINE text == state.text
           attrs == state.attributes
           attr == attrs[key]
           p == attr.textData
           length == attr.textLength
           value == Format(key, data)
<1>1. /\ text \in Text /\ Len(text) <= MaxFileSize
      /\ attrs = [k \in Keys |-> attrs[k]]
      /\ state = [text |-> text, attributes |-> attrs]
  BY DEF IsState
<1>2. Len(text) \in Nat /\ Len(value) \in Nat /\ MaxFileSize \in Nat
  BY <1>1, LenProperties, TextAssumption DEF Text, Value
<1>3. IsAttribute(attr) /\ p \in Nat /\ length \in Nat
  BY DEF StatePoints, Points, IsAttribute
<1>4. CASE p = 0 /\ DefinitionFits(text, value)
  <2> DEFINE line == AddedLine(text, key)
             t == Added(text, key, value)
  <2>1. writeAddDefinitionText(state, key, value)
          = [state |-> [text |-> t, attributes |-> attrs], textData |-> Len(line) + 1]
    BY <1>1, <1>4 DEF writeAddDefinitionText, Added, AddedLine
  <2>2. new = [text |-> t,
               attributes |-> [attrs EXCEPT ![key] = [textData |-> Len(line) + 1,
                                                      textLength |-> Len(value),
                                                      data |-> data]]]
    <3> HIDE DEF t, line, value, attrs
    <3> QED BY <1>4, <2>1 DEF writeAttribute, value, attrs
  <2> QED BY <1>4, <2>2 DEF IsAdded
<1>5. CASE p = 0 /\ ~DefinitionFits(text, value)
  <2> DEFINE own == [textData |-> 0, textLength |-> Len(value), data |-> data]
  <2>1. writeAddDefinitionText(state, key, value) = [state |-> state, textData |-> 0]
    BY <1>5 DEF writeAddDefinitionText
  <2>2. new = [text |-> text, attributes |-> [attrs EXCEPT ![key] = own]]
    <3> HIDE DEF value
    <3> QED BY <1>1, <1>5, <2>1 DEF writeAttribute, value
  <2> QED BY <1>5, <2>2 DEF IsRefused, HasRoom
<1>6. CASE p # 0 /\ Len(value) <= Remaining(text)
  <2> DEFINE t == Splice(text, p, p + length, value)
             d == Len(value) - length
             moved == Moved(attrs, p, d)
             updated == writeUpdateDefinitionText(state, p, length, value)
             own == [textData |-> p, textLength |-> Len(value), data |-> data]
  <2>1. key \in DOMAIN moved /\ moved[key] = attr
    <3>1. moved = [k \in Keys |-> Shifted(attrs[k], p, d)]
      BY DEF Moved
    <3> HIDE DEF p, d, attrs, moved
    <3>2. Shifted(attr, p, d) = attr
      BY <1>3 DEF Shifted, p
    <3> QED BY <3>1, <3>2
  <2>2. updated = [state |-> [text |-> t, attributes |-> moved], length |-> Len(value)]
    <3>1. ~(Len(value) > Remaining(text))
      <4> HIDE DEF text, value
      <4> QED BY <1>2, <1>6 DEF Remaining
    <3>2. moved = Shift(attrs, p, d)
      BY DEF Moved, Shift, Shifted
    <3> HIDE DEF value, moved
    <3> QED BY <3>1, <3>2 DEF writeUpdateDefinitionText, Splice
  <2>3. new = WithField(updated.state, key, updated.length, data)
    <3> HIDE DEF value
    <3> QED BY <1>6 DEF writeAttribute, WithField, value
  <2> HIDE DEF t, value, moved, updated, attr, p, length
  <2>4. updated.state = [text |-> t, attributes |-> moved] /\ updated.length = Len(value)
    BY <2>2
  <2>5. IsAttribute(moved[key])
    BY <1>3, <2>1
  <2>6. own = [textData |-> moved[key].textData, textLength |-> updated.length, data |-> data]
    BY <2>1, <2>4 DEF p
  <2> HIDE DEF own
  <2>7. new = [text |-> t, attributes |-> [moved EXCEPT ![key] = own]]
    BY <2>1, <2>3, <2>4, <2>5, <2>6, WithFieldIs
  <2> QED BY <1>6, <2>7 DEF IsUpdated, own, moved, t, p, length, attr, value
<1>7. CASE p # 0 /\ ~(Len(value) <= Remaining(text))
  <2> DEFINE own == [textData |-> p, textLength |-> 0, data |-> data]
             updated == writeUpdateDefinitionText(state, p, length, value)
  <2>1. updated = [state |-> state, length |-> 0]
    <3>1. Len(value) > Remaining(text)
      <4> HIDE DEF text, value
      <4> QED BY <1>2, <1>7 DEF Remaining
    <3> HIDE DEF value
    <3> QED BY <3>1 DEF writeUpdateDefinitionText
  <2>2. new = WithField(updated.state, key, updated.length, data)
    <3> HIDE DEF value
    <3> QED BY <1>7 DEF writeAttribute, WithField, value
  <2>3. new = [text |-> text, attributes |-> [attrs EXCEPT ![key] = own]]
    <3> HIDE DEF text, value, updated, attrs, attr, p, length
    <3>1. updated.state = [text |-> text, attributes |-> attrs] /\ updated.length = 0
      BY <1>1, <2>1
    <3>2. key \in DOMAIN attrs /\ IsAttribute(attrs[key])
      BY <1>1, <1>3 DEF attr
    <3>3. own = [textData |-> attrs[key].textData, textLength |-> updated.length,
                 data |-> data]
      BY <3>1 DEF attr, p
    <3> HIDE DEF own
    <3> QED BY <2>2, <3>1, <3>2, <3>3, WithFieldIs
  <2>4. ~HasRoom(state, key, data)
    BY <1>7 DEF HasRoom
  <2> QED BY <1>7, <2>3, <2>4 DEF IsRefused
<1> QED BY <1>4, <1>5, <1>6, <1>7

\* The write functions, with room in the buffer or without.
LEMMA WritePoints ==
  ASSUME NEW state, IsState(state), StatePoints(state), NEW key \in Keys, NEW data,
         Format(key, data) \in Value, NEW new, new = writeAttribute(state, key, data)
  PROVE  /\ IsState(new) /\ StatePoints(new)
         /\ StateExact(state) /\ HasRoom(state, key, data) => StateExact(new)
<1> DEFINE text == state.text
           attrs == state.attributes
           attr == attrs[key]
           p == attr.textData
           length == attr.textLength
           value == Format(key, data)
<1>1. /\ text \in Text /\ Len(text) <= MaxFileSize
      /\ attrs = [k \in Keys |-> attrs[k]]
      /\ state = [text |-> text, attributes |-> attrs]
  BY DEF IsState
<1>2. Len(text) \in Nat /\ Len(value) \in Nat /\ MaxFileSize \in Nat
  BY <1>1, LenProperties, TextAssumption DEF Text, Value
<1>3. \A k \in Keys : Points(text, k, attrs[k])
  BY DEF StatePoints
<1>4. IsAttribute(attr) /\ p \in Nat /\ length \in Nat
  BY <1>3 DEF Points, IsAttribute
<1>5. attr = [textData |-> p, textLength |-> length, data |-> attr.data]
  BY <1>4 DEF IsAttribute
<1>6. p # 0 => p \in Definitions(text, key) /\ length <= parseDefinition(text, p)
  BY <1>3 DEF Points
<1>7. CASE IsAdded(state, key, data, new)
  <2> DEFINE line == AddedLine(text, key)
             t == Added(text, key, value)
             own == [textData |-> Len(line) + 1, textLength |-> Len(value), data |-> data]
  <2>1. /\ DefinitionFits(text, value)
        /\ new = [text |-> t, attributes |-> [attrs EXCEPT ![key] = own]]
    BY <1>7 DEF IsAdded
  <2>2. /\ t \in Text /\ Len(t) = Len(text) + Len(Separator(text)) + 1 + Len(value) + 2
        /\ Len(line) + 1 \in Definitions(t, key)
        /\ parseDefinition(t, Len(line) + 1) = Len(value)
        /\ SameBefore(text, t, Len(text) + 1)
        /\ Closed(text, t)
    <3>1. value \in Value /\ line = AddedLine(text, key) /\ t = Added(text, key, value)
      OBVIOUS
    <3>2. text \in Text
      BY <1>1
    <3> HIDE DEF text, value, line, t, attrs, own, attr, p, length
    <3>3. AddedOK(text, key, value, line, t)
      BY <3>1, <3>2, OwnAdded
    <3> QED BY <3>3 DEF AddedOK
  <2>3. Len(Separator(text)) \in Nat
    BY <1>1 DEF Separator
  <2>4. Len(t) <= MaxFileSize /\ Len(t) > Len(text)
    <3> HIDE DEF text, value, t
    <3> QED BY <1>2, <2>1, <2>2, <2>3 DEF DefinitionFits, Remaining
  <2>5. Points(t, key, own) /\ Exact(t, own)
    <3>1. Len(line) + 1 \in Nat \ {0}
      <4>1. Len(t) \in Nat
        BY <2>2, LenProperties DEF Text
      <4> HIDE DEF t, line
      <4> QED BY <2>2, <4>1, DefinitionIs
    <3> HIDE DEF t, line, value
    <3> QED BY <1>2, <2>2, <3>1 DEF Points, Exact, IsAttribute
  <2>6. \A k \in Keys : /\ Points(t, k, attrs[k])
                        /\ Exact(text, attrs[k]) => Exact(t, attrs[k])
    <3> HIDE DEF text, attrs, t
    <3> QED BY <1>1, <1>3, <2>2, <2>4, OtherAdded
  <2>7. StateExact(state) => \A k \in Keys : Exact(t, attrs[k])
    <3> HIDE DEF t
    <3> QED BY <2>6 DEF StateExact
  <2> HIDE DEF t, own, attrs
  <2> QED BY <1>1, <2>1, <2>2, <2>4, <2>5, <2>6, <2>7, StateIs
<1>8. CASE IsUpdated(state, key, data, new)
  <2> DEFINE t == Splice(text, p, p + length, value)
             d == Len(value) - length
             moved == Moved(attrs, p, d)
             own == [textData |-> p, textLength |-> Len(value), data |-> data]
  <2>1. /\ p # 0 /\ Len(value) <= Remaining(text)
        /\ new = [text |-> t, attributes |-> [moved EXCEPT ![key] = own]]
    BY <1>8 DEF IsUpdated
  <2>2. moved = [k \in Keys |-> Shifted(attrs[k], p, d)]
    BY DEF Moved
  <2>3. /\ t \in Text /\ Len(t) = Len(text) + d
        /\ p \in Definitions(t, key) /\ Len(value) <= parseDefinition(t, p)
        /\ length = parseDefinition(text, p) => Len(value) = parseDefinition(t, p)
    <3> HIDE DEF text, p, length, value
    <3> QED BY <1>1, <1>4, <1>6, <2>1, OwnUpdated DEF value
  <2>4. Len(t) <= MaxFileSize
    <3> HIDE DEF text, value, t, length
    <3> QED BY <1>2, <1>4, <2>1, <2>3 DEF Remaining
  <2>5. Points(t, key, own) /\ (Exact(text, attr) => Exact(t, own))
    <3> HIDE DEF text, value, t
    <3> QED BY <1>2, <1>4, <2>1, <2>3 DEF Points, Exact, IsAttribute
  <2>6. ASSUME NEW k \in Keys \ {key}
        PROVE  Points(t, k, moved[k]) /\ (Exact(text, attrs[k]) => Exact(t, moved[k]))
    <3>1. Points(text, k, attrs[k])
      BY <1>3
    <3> HIDE DEF text, p, length, value, t, d, attrs, moved
    <3>2. t = Splice(text, p, p + length, value) /\ d = Len(value) - length
      BY DEF t, d
    <3>3. /\ Points(t, k, Shifted(attrs[k], p, d))
          /\ Exact(text, attrs[k]) => Exact(t, Shifted(attrs[k], p, d))
      BY <1>1, <1>4, <1>6, <2>1, <3>1, <3>2, OtherUpdated DEF value
    <3> QED BY <2>2, <3>3
  <2>7. StateExact(state) =>
          Exact(t, own) /\ \A k \in Keys \ {key} : Exact(t, moved[k])
    <3> HIDE DEF t, own, moved
    <3> QED BY <2>5, <2>6 DEF StateExact
  <2>8. moved = [k \in Keys |-> moved[k]]
    BY <2>2
  <2> HIDE DEF t, own, moved
  <2> QED BY <2>1, <2>3, <2>4, <2>5, <2>6, <2>7, <2>8, StateIs
<1>9. CASE IsRefused(state, key, data, new)
  <2> DEFINE own == [textData |-> p, textLength |-> IF p = 0 THEN Len(value) ELSE 0,
                     data |-> data]
  <2>1. /\ ~HasRoom(state, key, data)
        /\ new = [text |-> text, attributes |-> [attrs EXCEPT ![key] = own]]
    BY <1>9 DEF IsRefused
  <2>2. ASSUME p # 0 PROVE 0 <= parseDefinition(text, p)
    <3> HIDE DEF p, text
    <3>1. p \in 1 .. Len(text) + 1
      BY <1>1, <1>2, <1>6, <2>2, DefinitionIs
    <3>2. EndsAt(text, p, LineEnd(text, p))
      BY <1>1, <3>1, LineEndIs
    <3> QED BY <1>2, <3>1, <3>2 DEF EndsAt, parseDefinition
  <2>3. Points(text, key, own)
    <3> HIDE DEF p, text
    <3> QED BY <1>2, <1>4, <1>6, <2>2 DEF Points, IsAttribute
  <2> HIDE DEF text, own, attrs, p, length, attr, value
  <2> QED BY <1>1, <1>3, <2>1, <2>3, StateIs
<1> QED BY <1>7, <1>8, <1>9, WriteIs

\* configDeleteKey removes a line of the text, which always has room.
IsRemoved(state, key, new) ==
  LET p == state.attributes[key].textData
      b == LineBegin(state.text, p)
      e == NextLine(state.text, p + state.attributes[key].textLength)
  IN new = [text |-> Splice(state.text, b, e, <<>>),
            attributes |-> [Moved(state.attributes, b, 0 - (e - b))
                              EXCEPT ![key] = NoAttribute]]

LEMMA DeleteIs ==
  ASSUME NEW state, IsState(state), StatePoints(state), NEW key \in Keys,
         Removable(state.attributes[key]), NEW new, new = Deleted(state, key)
  PROVE  IsRemoved(state, key, new)
<1> DEFINE text == state.text
           attrs == state.attributes
           p == attrs[key].textData
           length == attrs[key].textLength
           b == LineBegin(text, p)
           e == NextLine(text, p + length)
           t == Splice(text, b, e, <<>>)
           d == 0 - (e - b)
           moved == Moved(attrs, b, d)
<1>1. text \in Text /\ Len(text) <= MaxFileSize
  BY DEF IsState
<1>2. Len(text) \in Nat /\ MaxFileSize \in Nat
  BY <1>1, LenProperties, TextAssumption DEF Text
<1>3. p \in Definitions(text, key) /\ length \in Nat \ {0} /\ length <= parseDefinition(text, p)
  BY DEF StatePoints, Points, IsAttribute, Removable
<1>4. b \in Nat /\ e \in Nat
  <2>1. b = LineBegin(text, p) /\ e = NextLine(text, p + length)
    OBVIOUS
  <2> HIDE DEF text, p, length, b, e
  <2> QED BY <1>1, <1>3, <2>1, OtherRemoved
<1> HIDE DEF b, e, text
<1>5. b + (e - b) = e /\ Len(<<>>) = 0 /\ 0 <= Remaining(text)
  BY <1>1, <1>2, <1>4 DEF Remaining
<1>6. writeUpdateDefinitionText(state, b, e - b, <<>>).state
        = [text |-> t, attributes |-> moved]
  <2>1. ~(Len(<<>>) > Remaining(text)) /\ Len(<<>>) - (e - b) = d
    BY <1>1, <1>2, <1>4, <1>5 DEF Remaining
  <2>2. moved = Shift(state.attributes, b, d)
    BY DEF Moved, Shift, Shifted
  <2> HIDE DEF d, moved, t
  <2>3. moved = Shift(state.attributes, b, Len(<<>>) - (e - b))
    BY <2>1, <2>2
  <2>4. t = SubSeq(text, 1, b - 1) \o <<>> \o SubSeq(text, b + (e - b), Len(text))
    <3>1. \A x : x = e => t = SubSeq(text, 1, b - 1) \o <<>> \o SubSeq(text, x, Len(text))
      BY DEF t, Splice
    <3> QED BY <1>5, <3>1
  <2> QED BY <2>1, <2>3, <2>4 DEF writeUpdateDefinitionText, text
<1>7. new = [writeUpdateDefinitionText(state, b, e - b, <<>>).state
               EXCEPT !.attributes[key] = NoAttribute]
  <2>1. new = removeDefinition(state, key)
    BY DEF Deleted
  <2>2. removeDefinition(state, key)
          = [writeUpdateDefinitionText(state, LineBegin(text, p),
               NextLine(text, p + length) - LineBegin(text, p), <<>>).state
               EXCEPT !.attributes[key] = NoAttribute]
    BY Zenon DEF removeDefinition, text
  <2> HIDE DEF p, length, attrs
  <2> QED BY <2>1, <2>2, Zenon DEF b, e
<1>8. new = [text |-> t, attributes |-> [moved EXCEPT ![key] = NoAttribute]]
  <2> HIDE DEF t, moved
  <2> QED BY <1>6, <1>7
<1> QED BY <1>8 DEF IsRemoved, b, e, text

\* configDeleteKey.
LEMMA DeletePoints ==
  ASSUME NEW state, IsState(state), StatePoints(state), NEW key \in Keys,
         NEW new, new = Deleted(state, key)
  PROVE  IsState(new) /\ StatePoints(new) /\ (StateExact(state) => StateExact(new))
<1> DEFINE text == state.text
           attrs == state.attributes
           p == attrs[key].textData
           length == attrs[key].textLength
           b == LineBegin(text, p)
           e == NextLine(text, p + length)
           t == Splice(text, b, e, <<>>)
           d == 0 - (e - b)
           moved == Moved(attrs, b, d)
<1>1. CASE ~Removable(attrs[key])
  BY <1>1 DEF Deleted
<1>2. CASE Removable(attrs[key])
  <2>1. /\ text \in Text /\ Len(text) <= MaxFileSize
        /\ attrs = [k \in Keys |-> attrs[k]]
        /\ state = [text |-> text, attributes |-> attrs]
    BY DEF IsState
  <2>2. Len(text) \in Nat /\ MaxFileSize \in Nat
    BY <2>1, LenProperties, TextAssumption DEF Text
  <2>3. \A k \in Keys : Points(text, k, attrs[k])
    BY DEF StatePoints
  <2>4. p \in Definitions(text, key) /\ length \in Nat \ {0} /\ length <= parseDefinition(text, p)
    BY <1>2, <2>3 DEF Points, IsAttribute, Removable
  <2>5. /\ b \in Nat /\ e \in Nat /\ b <= e
        /\ t \in Text /\ Len(t) <= Len(text)
        /\ \A k \in Keys \ {key} : \A attr : Points(text, k, attr) =>
             /\ Points(t, k, Shifted(attr, b, d))
             /\ Exact(text, attr) => Exact(t, Shifted(attr, b, d))
    <3>1. t = Splice(text, b, e, <<>>) /\ d = 0 - (e - b)
      OBVIOUS
    <3>2. b = LineBegin(text, p) /\ e = NextLine(text, p + length)
      OBVIOUS
    <3> HIDE DEF text, p, length, t, d, b, e
    <3> QED BY <2>1, <2>4, <3>1, <3>2, OtherRemoved
  <2>6. moved = [k \in Keys |-> Shifted(attrs[k], b, d)]
    BY DEF Moved
  <2>7. new = [text |-> t, attributes |-> [moved EXCEPT ![key] = NoAttribute]]
    BY <1>2, DeleteIs DEF IsRemoved
  <2>8. Points(t, key, NoAttribute) /\ Exact(t, NoAttribute)
    BY DEF Points, Exact, IsAttribute, NoAttribute
  <2>9. ASSUME NEW k \in Keys \ {key}
        PROVE  Points(t, k, moved[k]) /\ (Exact(text, attrs[k]) => Exact(t, moved[k]))
    <3> HIDE DEF text, attrs, t, b, d, moved
    <3> QED BY <2>3, <2>5, <2>6
  <2>10. StateExact(state) => \A k \in Keys \ {key} : Exact(t, moved[k])
    <3> HIDE DEF t, moved
    <3> QED BY <2>9 DEF StateExact
  <2>11. moved = [k \in Keys |-> moved[k]]
    BY <2>6
  <2>12. Len(t) <= MaxFileSize
    <3>1. Len(t) \in Nat
      BY <2>5, LenProperties DEF Text
    <3> HIDE DEF t, text
    <3> QED BY <2>1, <2>2, <2>5, <3>1
  <2> HIDE DEF t, moved
  <2> QED BY <2>5, <2>7, <2>8, <2>9, <2>10, <2>11, <2>12, StateIs
<1> QED BY <1>1, <1>2

-----------------------------------------------------------------------------
(* Values.                                                                 *)

\* The value at position p.
ValueAt(text, p) == SubSeq(text, p, LineEnd(text, p) - 1)
HasValue(text, p, value) ==
  /\ parseDefinition(text, p) = Len(value)
  /\ \A i \in 1 .. Len(value) : text[p - 1 + i] = value[i]

\* A value from its tokens.
LEMMA ValueIs ==
  ASSUME NEW text \in Text, NEW p \in 1 .. Len(text) + 1
  PROVE  /\ parseDefinition(text, p) \in Nat /\ p + parseDefinition(text, p) <= Len(text) + 1
         /\ ValueAt(text, p) \in Text /\ HasValue(text, p, ValueAt(text, p))
<1> DEFINE n == parseDefinition(text, p)
           e == LineEnd(text, p)
           v == ValueAt(text, p)
<1>1. Len(text) \in Nat
  BY LenProperties DEF Text
<1>2. e \in p .. Len(text) + 1
  BY LineEndIs DEF EndsAt
<1>3. n = e - p /\ v = SubSeq(text, p, e - 1)
  BY DEF parseDefinition, ValueAt
<1> HIDE DEF n, e, v
<1>4. n \in Nat /\ p + n <= Len(text) + 1 /\ p \in Int /\ e - 1 \in Int
  BY <1>1, <1>2, <1>3
<1>5. \A i \in p .. e - 1 : text[i] \in Tokens
  BY <1>1, <1>2, ElementOfSeq DEF Text
<1>6. /\ v \in Text /\ Len(v) = IF p <= e - 1 THEN (e - 1) - p + 1 ELSE 0
      /\ \A i \in 1 .. (e - 1) - p + 1 : v[i] = text[p + i - 1]
  BY <1>3, <1>4, <1>5, SubSeqProperties DEF Text
<1>7. Len(v) = n /\ (e - 1) - p + 1 = n
  BY <1>1, <1>2, <1>3, <1>6
<1>8. ASSUME NEW i \in 1 .. n PROVE text[p - 1 + i] = v[i]
  <2>1. p + i - 1 = p - 1 + i
    BY <1>4
  <2> QED BY <1>6, <1>7, <2>1
<1> QED BY <1>4, <1>6, <1>7, <1>8 DEF HasValue, n, v

LEMMA ValueAtIs ==
  ASSUME NEW text \in Text, NEW p \in 1 .. Len(text) + 1, NEW value \in Text,
         HasValue(text, p, value)
  PROVE  ValueAt(text, p) = value
<1> DEFINE v == ValueAt(text, p)
<1>1. v \in Text /\ HasValue(text, p, v)
  BY ValueIs
<1> HIDE DEF v
<1>2. Len(v) = Len(value) /\ \A i \in 1 .. Len(v) : v[i] = value[i]
  BY <1>1 DEF HasValue
<1>3. v = value
  BY <1>1, <1>2, SeqEqual DEF Text
<1> QED BY <1>3 DEF v

\* The number that atoi finds in front of anything else.
LEMMA NumberIs ==
  ASSUME NEW text \in Text, NEW p \in 1 .. Len(text), text[p] # EOL
  PROVE  atoi(text, p) = IF text[p] \in Digits THEN text[p] ELSE Zero
<1> DEFINE rest == {j \in p .. Len(text) : text[j] # EOL}
           first == CHOOSE j \in rest : \A h \in rest : j <= h
<1>1. p \in rest /\ \A h \in rest : p <= h
  BY LenProperties DEF Text
<1>2. rest \in SUBSET Int
  BY LenProperties DEF Text
<1>3. atoi(text, p) = IF rest # {} /\ text[first] \in Digits THEN text[first] ELSE Zero
  BY DEF atoi
<1> HIDE DEF rest
<1>4. first \in rest /\ \A h \in rest : first <= h
  BY <1>1
<1> HIDE DEF first
<1>5. first = p
  BY <1>1, <1>2, <1>4
<1> QED BY <1>1, <1>3, <1>5

\* An empty value is Zero.
LEMMA NoNumberIs ==
  ASSUME NEW text \in Text, NoNumbers(text), NEW p \in 1 .. Len(text) + 1,
         parseDefinition(text, p) = 0
  PROVE  atoi(text, p) = Zero
<1> DEFINE rest == {j \in p .. Len(text) : text[j] # EOL}
           first == CHOOSE j \in rest : \A h \in rest : j <= h
<1>1. Len(text) \in Nat /\ DOMAIN text = 1 .. Len(text)
  BY LenProperties DEF Text
<1>2. EndsAt(text, p, LineEnd(text, p)) /\ LineEnd(text, p) = p
  <2>1. EndsAt(text, p, LineEnd(text, p))
    BY LineEndIs
  <2> QED BY <1>1, <2>1 DEF parseDefinition, EndsAt
<1>3. p = Len(text) + 1 \/ text[p] = EOL
  BY <1>2 DEF EndsAt
<1>4. rest \in SUBSET Nat
  BY <1>1
<1>5. atoi(text, p) = IF rest # {} /\ text[first] \in Digits THEN text[first] ELSE Zero
  BY DEF atoi
<1>6. ASSUME rest # {} PROVE text[first] \notin Digits
  <2>1. \E j \in rest : \A h \in rest : j <= h
    <3> HIDE DEF rest
    <3> QED BY <1>4, <1>6, LeastNat
  <2>2. first \in rest /\ \A h \in rest : first <= h
    <3> HIDE DEF rest
    <3> QED BY <2>1
  <2> HIDE DEF first
  <2>3. first \in p .. Len(text) /\ text[first] # EOL
    BY <2>2
  <2>4. first - 1 \in p .. Len(text) /\ first - 1 \notin rest
    <3>1. first # p
      BY <1>1, <1>3, <2>3
    <3> HIDE DEF rest
    <3> QED BY <1>1, <2>2, <2>3, <3>1
  <2>5. text[first - 1] = EOL /\ first \in DOMAIN text
    BY <1>1, <2>3, <2>4
  <2> QED BY <2>5 DEF NoNumbers, LineStarts
<1> HIDE DEF rest, first
<1> QED BY <1>5, <1>6

\* The same value reads the same, wherever it is.
LEMMA ParseSame ==
  ASSUME NEW text \in Text, NoNumbers(text), NEW p \in 1 .. Len(text) + 1,
         NEW t \in Text, NoNumbers(t), NEW q \in 1 .. Len(t) + 1,
         HasValue(t, q, ValueAt(text, p)), NEW key \in Keys
  PROVE  Parse(t, key, q) = Parse(text, key, p)
<1> DEFINE v == ValueAt(text, p)
<1>1. /\ v \in Text /\ HasValue(text, p, v) /\ Len(v) \in Nat
      /\ p + Len(v) <= Len(text) + 1 /\ q + Len(v) <= Len(t) + 1
  <2>1. v \in Text /\ HasValue(text, p, v)
    BY ValueIs
  <2> QED BY <2>1, ValueIs DEF HasValue
<1>2. ValueAt(t, q) = v
  BY <1>1, ValueAtIs
<1>3. atoi(t, q) = atoi(text, p)
  <2> HIDE DEF v
  <2>1. CASE Len(v) = 0
    BY <1>1, <2>1, NoNumberIs DEF HasValue, v
  <2>2. CASE Len(v) # 0
    <3>1. p \in 1 .. Len(text) /\ q \in 1 .. Len(t) /\ Len(text) \in Nat /\ Len(t) \in Nat
      <4>1. Len(text) \in Nat /\ Len(t) \in Nat
        BY LenProperties DEF Text
      <4> QED BY <1>1, <2>2, <4>1
    <3>2. text[p] = v[1] /\ t[q] = v[1]
      <4>1. 1 \in 1 .. Len(v) /\ p - 1 + 1 = p /\ q - 1 + 1 = q
        BY <1>1, <2>2, <3>1
      <4> QED BY <1>1, <4>1 DEF HasValue, v
    <3>3. text[p] # EOL
      <4>1. EndsAt(text, p, LineEnd(text, p))
        BY LineEndIs
      <4>2. p \in p .. LineEnd(text, p) - 1
        <5>1. LineEnd(text, p) - p = Len(v)
          BY <1>1 DEF HasValue, parseDefinition
        <5> QED BY <1>1, <2>2, <3>1, <4>1, <5>1 DEF EndsAt
      <4> QED BY <4>1, <4>2 DEF EndsAt
    <3> QED BY <3>1, <3>2, <3>3, NumberIs
  <2> QED BY <2>1, <2>2
<1>4. SubSeq(t, q, LineEnd(t, q) - 1) = SubSeq(text, p, LineEnd(text, p) - 1)
  BY <1>2 DEF ValueAt
<1> QED BY <1>3, <1>4 DEF Parse

-----------------------------------------------------------------------------
(* Buttons.                                                                *)

\* The loop of writeBootOptionPad, up to the n-th entry of convTable.
Names(data, n, f) ==
  f = [i \in 0 .. n |-> IF i = 0 THEN <<>>
                        ELSE IF Buttons[i] \in data THEN Append(f[i - 1], Buttons[i])
                        ELSE f[i - 1]]
NamedBy(n) == {Buttons[i] : i \in 1 .. n}

\* It has a result ...
LEMMA NamesExist ==
  ASSUME NEW data, NEW n \in Nat
  PROVE  \E f : Names(data, n, f)
<1> DEFINE T == {i \in Nat : ~\E f : Names(data, i, f)}
<1>1. SUFFICES ASSUME T # {} PROVE FALSE
  OBVIOUS
<1>2. PICK i \in T : \A j \in T : i <= j
  <2>1. T \in SUBSET Nat
    OBVIOUS
  <2> HIDE DEF T
  <2> QED BY <1>1, <2>1, LeastNat
<1>3. CASE i = 0
  <2> DEFINE f == [j \in 0 .. 0 |-> <<>>]
  <2>1. Names(data, 0, f)
    BY DEF Names
  <2> QED BY <1>2, <1>3, <2>1
<1>4. CASE i # 0
  <2>1. i - 1 \in Nat /\ i - 1 \notin T
    BY <1>2, <1>4
  <2>2. PICK f : Names(data, i - 1, f)
    BY <2>1
  <2> DEFINE g == [j \in 0 .. i |->
                     IF j < i THEN f[j]
                     ELSE IF Buttons[i] \in data THEN Append(f[i - 1], Buttons[i])
                     ELSE f[i - 1]]
  <2>3. \A j \in 0 .. i :
          g[j] = IF j = 0 THEN <<>>
                 ELSE IF Buttons[j] \in data THEN Append(g[j - 1], Buttons[j])
                 ELSE g[j - 1]
    <3> SUFFICES ASSUME NEW j \in 0 .. i
                 PROVE  g[j] = IF j = 0 THEN <<>>
                               ELSE IF Buttons[j] \in data THEN Append(g[j - 1], Buttons[j])
                               ELSE g[j - 1]
      OBVIOUS
    <3>1. j # 0 => j - 1 \in 0 .. i /\ j - 1 < i /\ g[j - 1] = f[j - 1]
      BY <1>2
    <3>2. CASE j < i
      <4>1. j \in 0 .. i - 1 /\ g[j] = f[j]
        BY <1>2, <3>2
      <4>2. f[j] = IF j = 0 THEN <<>>
                   ELSE IF Buttons[j] \in data THEN Append(f[j - 1], Buttons[j])
                   ELSE f[j - 1]
        BY <2>2, <4>1 DEF Names
      <4> HIDE DEF g
      <4> QED BY <3>1, <4>1, <4>2
    <3>3. CASE ~(j < i)
      <4>1. j = i /\ j # 0
        BY <1>2, <1>4, <3>3
      <4>2. g[j] = IF Buttons[i] \in data THEN Append(f[i - 1], Buttons[i]) ELSE f[i - 1]
        BY <3>3
      <4> HIDE DEF g
      <4> QED BY <3>1, <4>1, <4>2
    <3> QED BY <3>2, <3>3
  <2>4. Names(data, i, g)
    <3>1. g = [j \in 0 .. i |-> g[j]]
      OBVIOUS
    <3> HIDE DEF g
    <3> QED BY <2>3, <3>1 DEF Names
  <2> HIDE DEF g
  <2> QED BY <1>2, <2>4
<1> QED BY <1>3, <1>4

\* ... which names the buttons that are set.
LEMMA NamesAre ==
  ASSUME NEW data, NEW n \in 0 .. Len(Buttons), NEW f, Names(data, n, f)
  PROVE  f[n] \in Text /\ ToSet(f[n]) = data \intersect NamedBy(n)
<1> DEFINE OK(i) == f[i] \in Text /\ ToSet(f[i]) = data \intersect NamedBy(i)
           T == {i \in 0 .. n : ~OK(i)}
<1>1. Len(Buttons) \in Nat /\ n \in Nat
  BY LenProperties, KindsAssumption
<1>2. SUFFICES ASSUME T # {} PROVE FALSE
  BY <1>1
<1>3. PICK i \in T : \A j \in T : i <= j
  <2>1. T \in SUBSET Nat
    BY <1>1
  <2> HIDE DEF T
  <2> QED BY <1>2, <2>1, LeastNat
<1>4. f[i] = IF i = 0 THEN <<>>
             ELSE IF Buttons[i] \in data THEN Append(f[i - 1], Buttons[i]) ELSE f[i - 1]
  BY <1>3 DEF Names
<1>5. CASE i = 0
  <2>1. f[i] = <<>> /\ f[i] \in Text
    BY <1>4, <1>5, EmptySeq DEF Text
  <2>2. ToSet(f[i]) = {} /\ NamedBy(i) = {}
    BY <1>5, <2>1 DEF ToSet, NamedBy
  <2> QED BY <1>3, <2>1, <2>2
<1>6. CASE i # 0
  <2> DEFINE s == f[i - 1]
             b == Buttons[i]
  <2>1. i - 1 \in 0 .. n /\ i - 1 \notin T /\ i \in 1 .. Len(Buttons)
    BY <1>1, <1>3, <1>6
  <2>2. s \in Text /\ ToSet(s) = data \intersect NamedBy(i - 1)
    BY <2>1
  <2>3. b \in Tokens /\ NamedBy(i) = NamedBy(i - 1) \union {b}
    <3>1. b \in Tokens
      BY <2>1, ElementOfSeq, KindsAssumption
    <3>2. 1 .. i = 1 .. (i - 1) \union {i}
      BY <1>1, <2>1
    <3> QED BY <3>1, <3>2 DEF NamedBy
  <2>4. f[i] = IF b \in data THEN Append(s, b) ELSE s
    BY <1>4, <1>6
  <2> HIDE DEF s, b
  <2>5. CASE b \notin data
    <3>1. f[i] = s
      BY <2>4, <2>5
    <3> QED BY <1>3, <2>2, <2>3, <2>5, <3>1
  <2>6. CASE b \in data
    <3> DEFINE r == Append(s, b)
    <3>1. /\ r \in Text /\ Len(r) = Len(s) + 1
          /\ \A j \in 1 .. Len(s) : r[j] = s[j]
          /\ r[Len(s) + 1] = b
      BY <2>2, <2>3, AppendProperties DEF Text
    <3>2. f[i] = r
      BY <2>4, <2>6
    <3> HIDE DEF r
    <3>3. /\ Len(s) \in Nat /\ DOMAIN s = 1 .. Len(s) /\ DOMAIN r = 1 .. Len(s) + 1
      BY <2>2, <3>1, LenProperties DEF Text
    <3>4. ToSet(r) = ToSet(s) \union {b}
      <4>1. 1 .. Len(s) + 1 = 1 .. Len(s) \union {Len(s) + 1}
        BY <3>3
      <4> QED BY <3>1, <3>3, <4>1 DEF ToSet
    <3> QED BY <1>3, <2>2, <2>3, <2>6, <3>1, <3>2, <3>4
  <2> QED BY <2>5, <2>6
<1> QED BY <1>5, <1>6

\* The buttons that were written are the ones that are read.
LEMMA PadReads ==
  ASSUME NEW data \in SUBSET ToSet(Buttons)
  PROVE  parseBootOptionPad(writeBootOptionPad(data)) = data
<1> DEFINE n == Len(Buttons)
<1>1. n \in Nat /\ DOMAIN Buttons = 1 .. n
  BY LenProperties, KindsAssumption
<1>2. PICK g : Names(data, n, g)
  BY <1>1, NamesExist
<1>3. PICK f : Names(data, n, f) /\ writeBootOptionPad(data) = f[n]
  BY <1>2 DEF writeBootOptionPad, Names
<1>4. ToSet(f[n]) = data \intersect NamedBy(n)
  BY <1>1, <1>3, NamesAre
<1>5. NamedBy(n) = ToSet(Buttons)
  BY <1>1 DEF NamedBy, ToSet
<1> HIDE DEF n
<1> QED BY <1>3, <1>4, <1>5 DEF parseBootOptionPad

\* What the menus set is read as it was set.
LEMMA SetReads ==
  ASSUME NEW key \in Keys, NEW data \in DataOf[key], Accepts(key, data),
         NEW t \in Text, NEW p \in 1 .. Len(t) + 1, HasValue(t, p, Format(key, data))
  PROVE  Parse(t, key, p) = data
<1> DEFINE value == Format(key, data)
<1>1. value \in Text /\ value \in Value
  BY ValueAssumption DEF Value, Text
<1>2. ValueAt(t, p) = value
  <2> HIDE DEF value
  <2> QED BY <1>1, ValueAtIs DEF value
<1>3. CASE key \in PathKeys
  <2>1. value = data /\ isValidPath(data)
    <3>1. key \notin PadKeys /\ key \notin WordKeys
      BY <1>3, KindsAssumption
    <3>2. Format(key, data) = data
      BY <1>3, <3>1 DEF Format
    <3>3. isValidPath(data)
      BY <1>3, <3>1 DEF Accepts
    <3> QED BY <3>2, <3>3
  <2>2. Parse(t, key, p) = parsePath(ValueAt(t, p))
    BY <1>3, KindsAssumption DEF Parse, ValueAt
  <2> HIDE DEF value
  <2> QED BY <1>2, <2>1, <2>2 DEF parsePath
<1>4. CASE key \in PadKeys
  <2>1. value = writeBootOptionPad(data)
    BY <1>4, KindsAssumption DEF Format
  <2>2. Parse(t, key, p) = parseBootOptionPad(ValueAt(t, p))
    BY <1>4, KindsAssumption DEF Parse, ValueAt
  <2>3. data \in SUBSET ToSet(Buttons)
    BY <1>4, DataAssumption
  <2> HIDE DEF value
  <2> QED BY <1>2, <2>1, <2>2, <2>3, PadReads
<1>5. CASE key \in WordKeys
  <2>1. value = <<data>> /\ data \in Words
    BY <1>5, KindsAssumption DEF Format, Accepts
  <2>2. Parse(t, key, p) = parseBootMode(ValueAt(t, p))
    BY <1>5, KindsAssumption DEF Parse, ValueAt
  <2>3. value # <<>> /\ value[1] = data
    <3> HIDE DEF value
    <3> QED BY <2>1
  <2> HIDE DEF value
  <2> QED BY <1>2, <2>1, <2>2, <2>3 DEF parseBootMode
<1>6. CASE key \in IntKeys
  <2>1. value = <<data>> /\ data \in Digits
    BY <1>6, KindsAssumption, DataAssumption DEF Format
  <2>2. Parse(t, key, p) = atoi(t, p)
    BY <1>6, KindsAssumption DEF Parse
  <2>3. t[p - 1 + 1] = data /\ parseDefinition(t, p) = 1
    BY <2>1 DEF HasValue
  <2>4. p \in 1 .. Len(t) /\ p - 1 + 1 = p
    <3>1. p + parseDefinition(t, p) <= Len(t) + 1 /\ Len(t) \in Nat
      BY ValueIs, LenProperties DEF Text
    <3> QED BY <2>3, <3>1
  <2>5. t[p] = data /\ data # EOL
    BY <2>1, <2>3, <2>4, KindsAssumption
  <2> QED BY <2>1, <2>2, <2>4, <2>5, NumberIs
<1> QED BY <1>3, <1>4, <1>5, <1>6 DEF Keys

-----------------------------------------------------------------------------
(* Reading the edited text anew.                                           *)

\* An attribute is what the only definition of its key says.
ReadsAs(text, key, attr) ==
  IF attr.textData = 0 THEN attr = NoAttribute /\ Definitions(text, key) = {}
  ELSE /\ Definitions(text, key) = {attr.textData}
       /\ attr.data = Parse(text, key, attr.textData)

\* Then the parser finds it ...
LEMMA ReadIs ==
  ASSUME NEW text, NEW key \in Keys, NEW attr, IsAttribute(attr), Exact(text, attr),
         ReadsAs(text, key, attr)
  PROVE  attr = parseConfigFile(text)[key]
<1> DEFINE found == Definitions(text, key)
           first == CHOOSE i \in found : \A j \in found : i <= j
           p == attr.textData
<1>1. parseConfigFile(text)[key]
        = IF found = {} THEN NoAttribute
          ELSE [textData |-> first, textLength |-> parseDefinition(text, first),
                data |-> Parse(text, key, first)]
  BY DEF parseConfigFile
<1>2. CASE p = 0
  BY <1>1, <1>2 DEF ReadsAs
<1>3. CASE p # 0
  <2>1. found = {p} /\ attr.data = Parse(text, key, p)
    BY <1>3 DEF ReadsAs
  <2>2. p \in Nat /\ attr.textLength = parseDefinition(text, p)
    BY <1>3 DEF IsAttribute, Exact
  <2>3. first = p
    <3>1. p \in found /\ \A j \in found : p <= j
      BY <2>1, <2>2
    <3> HIDE DEF found
    <3> QED BY <2>1, <3>1
  <2>4. attr = [textData |-> p, textLength |-> attr.textLength, data |-> attr.data]
    BY DEF IsAttribute
  <2> HIDE DEF found, first, p
  <2> QED BY <1>1, <2>1, <2>2, <2>3, <2>4
<1> QED BY <1>2, <1>3

\* ... and it is so when a text has been loaded, but for keys defined twice.
LEMMA LoadReads ==
  ASSUME NEW text \in Text, NEW key \in Keys \ DefinedTwice(text)
  PROVE  ReadsAs(text, key, parseConfigFile(text)[key])
<1> DEFINE found == Definitions(text, key)
           first == CHOOSE i \in found : \A j \in found : i <= j
           attr == parseConfigFile(text)[key]
<1>1. attr = IF found = {} THEN NoAttribute
             ELSE [textData |-> first, textLength |-> parseDefinition(text, first),
                   data |-> Parse(text, key, first)]
  BY DEF parseConfigFile
<1>2. found \in SUBSET (2 .. Len(text) + 1) /\ Len(text) \in Nat
  BY DefinitionIs, LenProperties DEF Text
<1>3. IsFiniteSet(found) /\ ~(Cardinality(found) > 1) /\ Cardinality(found) \in Nat
  <2>1. IsFiniteSet(2 .. Len(text) + 1)
    BY <1>2, FS_Interval
  <2>2. IsFiniteSet(found)
    <3> HIDE DEF found
    <3> QED BY <1>2, <2>1, FS_Subset
  <2> QED BY <2>2, FS_CardinalityType DEF DefinedTwice
<1>4. CASE found = {}
  BY <1>1, <1>4 DEF ReadsAs, NoAttribute
<1>5. CASE found # {}
  <2>1. first \in found
    <3>1. found \in SUBSET Nat
      BY <1>2
    <3> HIDE DEF found
    <3>2. \E i \in found : \A j \in found : i <= j
      BY <1>5, <3>1, LeastNat
    <3> QED BY <3>2
  <2> HIDE DEF found, first, attr
  <2>2. first # 0
    BY <1>2, <2>1
  <2>3. found = {first}
    <3>1. Cardinality(found) = 1
      <4>1. Cardinality(found) # 0
        BY <1>3, <1>5, FS_EmptySet
      <4> QED BY <1>3, <4>1
    <3>2. PICK x : found = {x}
      BY <1>3, <3>1, FS_Singleton
    <3> QED BY <2>1, <3>2
  <2>4. attr.textData = first /\ attr.data = Parse(text, key, first)
    BY <1>1, <1>5
  <2> QED BY <2>2, <2>3, <2>4 DEF ReadsAs, found, attr
<1> QED BY <1>4, <1>5

\* Every line of an edited text was one of the text before.
OldLines(text, t, b, e, d) ==
  \A i \in LineStarts(t) :
    \/ i < b /\ i \in LineStarts(text) /\ t[i] = text[i]
    \/ i - d >= e /\ i - d \in LineStarts(text) /\ t[i] = text[i - d]

LEMMA OldIs ==
  ASSUME NEW text \in Text, NEW b \in 1 .. Len(text) + 1, NEW e \in b .. Len(text) + 1,
         NEW t, NEW d \in Int, e + d >= b, Changed(text, t, b, e, d),
         \A i \in LineStarts(t) : ~(b <= i /\ i < e + d),
         e + d \in LineStarts(t) => e \in LineStarts(text)
  PROVE  OldLines(text, t, b, e, d)
<1>1. /\ Len(text) \in Nat /\ DOMAIN text = 1 .. Len(text) /\ Len(t) = Len(text) + d
      /\ DOMAIN t = 1 .. Len(t) /\ b \in Int /\ e \in Int
  BY LenProperties DEF Changed, Text
<1>2. SUFFICES ASSUME NEW i \in LineStarts(t)
               PROVE  \/ i < b /\ i \in LineStarts(text) /\ t[i] = text[i]
                      \/ i - d >= e /\ i - d \in LineStarts(text) /\ t[i] = text[i - d]
  BY DEF OldLines
<1>3. i \in 1 .. Len(t) /\ (i = 1 \/ t[i - 1] = EOL) /\ i \in Int
  BY <1>1 DEF LineStarts
<1>4. CASE i < b
  <2>1. i \in 1 .. b - 1 /\ i \in 1 .. Len(text) /\ (i # 1 => i - 1 \in 1 .. b - 1)
    BY <1>1, <1>3, <1>4
  <2>2. t[i] = text[i] /\ (i # 1 => t[i - 1] = text[i - 1])
    BY <2>1 DEF Changed, SameBefore
  <2> QED BY <1>1, <1>3, <1>4, <2>1, <2>2 DEF LineStarts
<1>5. CASE i >= e + d
  <2> DEFINE j == i - d
  <2>1. j \in e .. Len(text) /\ j \in 1 .. Len(text) /\ j + d = i /\ j >= e
    BY <1>1, <1>3, <1>5
  <2>2. t[i] = text[j]
    BY <2>1 DEF Changed, SameBehind
  <2>3. j \in LineStarts(text)
    <3>1. CASE j = e
      BY <2>1, <3>1
    <3>2. CASE j # e
      <4>1. j - 1 \in e .. Len(text) /\ (j - 1) + d = i - 1 /\ i # 1
        BY <1>1, <1>3, <1>5, <2>1, <3>2
      <4>2. text[j - 1] = EOL
        BY <1>3, <4>1 DEF Changed, SameBehind
      <4> QED BY <1>1, <2>1, <4>2 DEF LineStarts
    <3> QED BY <3>1, <3>2
  <2> QED BY <2>1, <2>2, <2>3
<1> QED BY <1>1, <1>2, <1>3, <1>4, <1>5

\* A new value is in the line of its key ...
LEMMA LinesUpdated ==
  ASSUME NEW text \in Text, NEW key \in Keys, NEW p \in Nat, NEW length \in Nat,
         NEW value \in Value, NEW t, UpdatedOK(text, t, key, p, length, value)
  PROVE  OldLines(text, t, p, p + length, Len(value) - length)
<1> DEFINE e == p + length
           d == Len(value) - length
           n == Len(value)
<1>1. /\ p \in 2 .. Len(text) + 1 /\ e \in p .. Len(text) + 1 /\ e + d >= p
      /\ Changed(text, t, p, e, d) /\ t[p - 1] = key
      /\ \A i \in 1 .. n : t[p - 1 + i] = value[i]
  BY DEF UpdatedOK
<1>2. Len(text) \in Nat /\ n \in Nat /\ EOL \notin Keys /\ \A i \in 1 .. n : value[i] # EOL
  BY LenProperties, ElementOfSeq, TextAssumption DEF Text, Value
<1>3. d \in Int /\ e + d = p + n /\ p \in 1 .. Len(text) + 1
  BY <1>1, <1>2
<1>4. ASSUME NEW i \in LineStarts(t), p <= i, i <= p + n PROVE FALSE
  <2>1. i \in Int /\ (i = 1 \/ t[i - 1] = EOL)
    <3>1. DOMAIN t = 1 .. Len(t) /\ Len(t) \in Nat
      BY <1>1, LenProperties DEF Changed, Text
    <3> QED BY <3>1 DEF LineStarts
  <2>2. i # 1
    BY <1>1, <1>4, <2>1
  <2>3. CASE i = p
    BY <1>1, <1>2, <2>1, <2>2, <2>3
  <2>4. CASE i # p
    <3>1. i - p \in 1 .. n /\ p - 1 + (i - p) = i - 1
      BY <1>2, <1>4, <2>1, <2>4
    <3> QED BY <1>1, <1>2, <2>1, <2>2, <3>1
  <2> QED BY <2>3, <2>4
<1>5. /\ \A i \in LineStarts(t) : ~(p <= i /\ i < e + d)
      /\ e + d \notin LineStarts(t)
  <2>1. \A i \in LineStarts(t) : i \in Int
    BY <1>1, LenProperties DEF LineStarts, Changed, Text
  <2> QED BY <1>2, <1>3, <1>4, <2>1
<1> HIDE DEF e, d, n
<1>6. OldLines(text, t, p, e, d)
  BY <1>1, <1>3, <1>5, OldIs
<1> QED BY <1>6 DEF e, d, n

\* ... what is behind a removed line begins a line ...
LEMMA LinesRemoved ==
  ASSUME NEW text \in Text, NEW key \in Keys, NEW p, NEW b, NEW e, NEW t,
         RemovedOK(text, t, key, p, b, e), p \in Int
  PROVE  OldLines(text, t, b, e, 0 - (e - b))
<1> DEFINE d == 0 - (e - b)
<1>1. /\ b \in 1 .. Len(text) + 1 /\ e \in b .. Len(text) + 1 /\ b < p /\ p < e
      /\ Changed(text, t, b, e, d) /\ (e = Len(text) + 1 \/ text[e - 1] = EOL)
  BY DEF RemovedOK
<1>2. Len(text) \in Nat /\ DOMAIN text = 1 .. Len(text)
  BY LenProperties DEF Text
<1>3. d \in Int /\ e + d = b /\ e + d >= b /\ b \in Int /\ e \in Int
  BY <1>1, <1>2
<1>4. ASSUME e + d \in LineStarts(t) PROVE e \in LineStarts(text)
  <2>1. Len(t) = Len(text) + d /\ DOMAIN t = 1 .. Len(t)
    BY <1>1, LenProperties DEF Changed, Text
  <2>2. b <= Len(t)
    BY <1>3, <1>4, <2>1 DEF LineStarts
  <2>3. e \in 1 .. Len(text) /\ e # Len(text) + 1
    BY <1>1, <1>2, <1>3, <2>1, <2>2
  <2> QED BY <1>1, <1>2, <2>3 DEF LineStarts
<1>5. \A i \in LineStarts(t) : ~(b <= i /\ i < e + d)
  <2>1. \A i \in LineStarts(t) : i \in Int
    BY <1>1, LenProperties DEF LineStarts, Changed, Text
  <2> QED BY <1>3, <2>1
<1> HIDE DEF d
<1>6. OldLines(text, t, b, e, d)
  BY <1>1, <1>3, <1>4, <1>5, OldIs
<1> QED BY <1>6 DEF d

\* ... and an added definition is one line, with no value in the others.
LEMMA LinesAdded ==
  ASSUME NEW text \in Text, NEW key \in Keys, NEW value \in Value, NEW line \in Text, NEW t,
         AddedOK(text, key, value, line, t), NEW i \in LineStarts(t)
  PROVE  \/ i \in LineStarts(text) /\ t[i] = text[i]
         \/ i = Len(line) /\ t[i] = key
         \/ t[i] = EOL
<1> DEFINE n == Len(value)
<1>1. /\ Len(text) \in Nat /\ DOMAIN text = 1 .. Len(text) /\ n \in Nat /\ Len(line) \in Nat
      /\ EOL \notin Keys /\ \A j \in 1 .. n : value[j] # EOL
  BY LenProperties, ElementOfSeq, TextAssumption DEF Text, Value
<1>2. /\ t \in Text /\ Len(line) + 1 \in Definitions(t, key)
      /\ SameBefore(text, t, Len(text) + 1)
      /\ Len(line) = Len(text) + Len(Separator(text)) + 1 /\ Len(Separator(text)) \in Nat
      /\ \A j \in 1 .. n : t[Len(line) + j] = value[j]
      /\ \A j \in Len(text) + 1 .. Len(line) - 1 : t[j] = EOL
      /\ \A j \in Len(line) + n + 1 .. Len(t) : t[j] = EOL
  BY DEF AddedOK
<1>3. /\ i \in 1 .. Len(t) /\ (i = 1 \/ t[i - 1] = EOL) /\ i \in Int
  BY <1>2, LenProperties DEF LineStarts, Text
<1>4. t[Len(line)] = key
  <2>1. (Len(line) + 1) - 1 = Len(line)
    BY <1>1
  <2> QED BY <1>2, <2>1, DefinitionIs
<1>5. CASE i <= Len(text)
  <2>1. i \in 1 .. Len(text) /\ (i # 1 => i - 1 \in 1 .. Len(text))
    BY <1>1, <1>3, <1>5
  <2>2. t[i] = text[i] /\ (i # 1 => t[i - 1] = text[i - 1])
    BY <1>1, <1>2, <2>1 DEF SameBefore
  <2> QED BY <1>1, <1>3, <2>1, <2>2 DEF LineStarts
<1>6. CASE i > Len(text) /\ i < Len(line)
  <2>1. i \in Len(text) + 1 .. Len(line) - 1
    BY <1>1, <1>3, <1>6
  <2> QED BY <1>2, <2>1
<1>7. CASE i = Len(line)
  BY <1>4, <1>7
<1>8. CASE i > Len(line) /\ i <= Len(line) + n
  <2>1. i # 1
    BY <1>1, <1>2, <1>3, <1>8
  <2>2. CASE i = Len(line) + 1
    <3>1. i - 1 = Len(line)
      BY <1>1, <2>2
    <3> QED BY <1>1, <1>3, <1>4, <2>1, <3>1
  <2>3. CASE i # Len(line) + 1
    <3>1. i - 1 - Len(line) \in 1 .. n /\ Len(line) + (i - 1 - Len(line)) = i - 1
      BY <1>1, <1>3, <1>8, <2>3
    <3> QED BY <1>1, <1>2, <1>3, <2>1, <3>1
  <2> QED BY <2>2, <2>3
<1>9. CASE i > Len(line) + n
  <2>1. i \in Len(line) + n + 1 .. Len(t)
    BY <1>1, <1>3, <1>9
  <2> QED BY <1>2, <2>1
<1> QED BY <1>1, <1>3, <1>5, <1>6, <1>7, <1>8, <1>9

\* No edit lets a line begin with a number.
LEMMA NoNumbersKept ==
  ASSUME NEW text, NEW t, NoNumbers(text),
         \A i \in LineStarts(t) : \/ \E j \in LineStarts(text) : t[i] = text[j]
                                  \/ t[i] \in Keys \union {EOL}
  PROVE  NoNumbers(t)
BY KindsAssumption DEF NoNumbers

\* A definition is a line that begins with the name of its key.
LEMMA DefinitionLine ==
  ASSUME NEW text \in Text, NEW key, NEW p
  PROVE  p \in Definitions(text, key)
           <=> p \in Int /\ p - 1 \in LineStarts(text) /\ text[p - 1] = key
<1>1. DOMAIN text = 1 .. Len(text) /\ Len(text) \in Nat
  BY LenProperties DEF Text
<1>2. \A i \in LineStarts(text) : i \in Int /\ (i + 1) - 1 = i
  BY <1>1 DEF LineStarts
<1>3. ASSUME p \in Int, p - 1 \in LineStarts(text), text[p - 1] = key
      PROVE  p \in Definitions(text, key)
  <2>1. (p - 1) + 1 = p
    BY <1>3
  <2> QED BY <1>3, <2>1 DEF Definitions
<1>4. ASSUME p \in Definitions(text, key)
      PROVE  p \in Int /\ p - 1 \in LineStarts(text) /\ text[p - 1] = key
  <2>1. PICK i \in LineStarts(text) : text[i] = key /\ p = i + 1
    BY <1>4 DEF Definitions
  <2> QED BY <1>2, <2>1
<1> QED BY <1>3, <1>4

\* A definition of the edited text was one before.
LEMMA OldDefinition ==
  ASSUME NEW text \in Text, NEW t \in Text, NEW b \in Int, NEW e \in Int, NEW d \in Int,
         OldLines(text, t, b, e, d), NEW k, NEW q \in Definitions(t, k)
  PROVE  \/ q - 1 < b /\ q \in Definitions(text, k)
         \/ q - d - 1 >= e /\ q - d \in Definitions(text, k)
<1>1. q \in Int /\ q - 1 \in LineStarts(t) /\ t[q - 1] = k
  BY DefinitionLine
<1>2. CASE q - 1 < b /\ q - 1 \in LineStarts(text) /\ t[q - 1] = text[q - 1]
  BY <1>1, <1>2, DefinitionLine
<1>3. CASE /\ (q - 1) - d >= e /\ (q - 1) - d \in LineStarts(text)
           /\ t[q - 1] = text[(q - 1) - d]
  <2>1. (q - 1) - d = (q - d) - 1 /\ q - d \in Int
    BY <1>1
  <2> QED BY <1>1, <1>3, <2>1, DefinitionLine
<1> QED BY <1>1, <1>2, <1>3 DEF OldLines

\* A definition that no edit touched reads the same.
LEMMA OtherReads ==
  ASSUME NEW text \in Text, NEW b \in 1 .. Len(text) + 1, NEW e \in b .. Len(text) + 1,
         NEW t \in Text, NEW d \in Int, e + d >= b, Changed(text, t, b, e, d),
         NoNumbers(text), NoNumbers(t), OldLines(text, t, b, e, d),
         NEW k \in Keys, NEW attr, Points(text, k, attr), Exact(text, attr),
         NEW p, p = attr.textData, Apart(text, t, b, e, d, p), ReadsAs(text, k, attr)
  PROVE  ReadsAs(t, k, Shifted(attr, b, d))
<1> DEFINE new == Shifted(attr, b, d)
           q == new.textData
<1>1. Len(text) \in Nat /\ Len(t) \in Nat /\ b \in Int /\ e \in Int
  BY LenProperties DEF Text
<1>2. Points(t, k, new) /\ Exact(t, new)
  BY OtherKept
<1>3. CASE p = 0
  <2>1. new = attr /\ attr = NoAttribute /\ Definitions(text, k) = {}
    BY <1>1, <1>3 DEF Shifted, ReadsAs
  <2>2. Definitions(t, k) = {}
    BY <1>1, <2>1, OldDefinition
  <2>3. ReadsAs(t, k, attr)
    BY <2>1, <2>2 DEF ReadsAs, NoAttribute
  <2> QED BY <2>1, <2>3
<1>4. CASE p # 0
  <2>1. Definitions(text, k) = {p} /\ attr.data = Parse(text, k, p)
    BY <1>4 DEF ReadsAs
  <2>2. p \in Int /\ p \in 2 .. Len(text) + 1 /\ p \in 1 .. Len(text) + 1
    <3>1. p \in 2 .. Len(text) + 1
      BY <2>1, DefinitionIs
    <3> QED BY <1>1, <3>1
  <2>3. /\ q = IF p > b THEN p + d ELSE p
        /\ new.data = attr.data /\ new.textLength = attr.textLength
    BY DEF Shifted, Points, IsAttribute
  <2>4. q # 0
    <3>1. p > b => p - 1 >= e
      BY <1>1, <1>4, <2>2 DEF Apart
    <3> HIDE DEF new, q
    <3> QED BY <1>1, <1>4, <2>2, <2>3, <3>1
  <2>5. q \in Definitions(t, k) /\ parseDefinition(t, q) = parseDefinition(text, p)
    <3> HIDE DEF new
    <3> QED BY <1>2, <1>4, <2>3, <2>4 DEF Points, Exact
  <2> HIDE DEF new, q
  <2>6. q \in 1 .. Len(t) + 1 /\ q \in Int
    <3>1. q \in 2 .. Len(t) + 1
      BY <2>5, DefinitionIs
    <3> QED BY <1>1, <3>1
  <2>7. \/ q = p /\ p <= b /\ LineEnd(text, p) < b
        \/ q = p + d /\ p > b /\ p - 1 >= e
    BY <1>1, <1>4, <2>2, <2>3 DEF Apart
  <2>8. Definitions(t, k) = {q}
    <3>1. ASSUME NEW r \in Definitions(t, k) PROVE r = q
      <4>1. r \in Int
        BY DefinitionLine
      <4>2. CASE r - 1 < b /\ r \in Definitions(text, k)
        <5>1. r = p
          BY <2>1, <4>2
        <5> QED BY <1>1, <2>2, <2>7, <4>2, <5>1
      <4>3. CASE r - d - 1 >= e /\ r - d \in Definitions(text, k)
        <5>1. r - d = p
          BY <2>1, <4>3
        <5>2. p > b
          BY <1>1, <2>2, <4>1, <4>3, <5>1
        <5> QED BY <1>1, <2>2, <2>7, <4>1, <5>1, <5>2
      <4> QED BY <1>1, <4>2, <4>3, OldDefinition
    <3> QED BY <2>5, <3>1
  <2>9. HasValue(t, q, ValueAt(text, p))
    <3> DEFINE v == ValueAt(text, p)
               n == Len(v)
    <3>1. HasValue(text, p, v) /\ parseDefinition(text, p) \in Nat
      BY <2>2, ValueIs
    <3>2. n = parseDefinition(text, p) /\ n \in Nat /\ LineEnd(text, p) = p + n
      <4>1. EndsAt(text, p, LineEnd(text, p))
        BY <2>2, LineEndIs
      <4> HIDE DEF v
      <4> QED BY <1>1, <2>2, <3>1, <4>1 DEF HasValue, parseDefinition, EndsAt
    <3>3. p + n <= Len(text) + 1
      BY <2>2, <3>2, ValueIs
    <3> HIDE DEF v, n
    <3>4. ASSUME NEW i \in 1 .. n PROVE t[q - 1 + i] = v[i]
      <4>1. text[p - 1 + i] = v[i]
        BY <3>1, <3>2 DEF HasValue, n
      <4>2. CASE q = p /\ p <= b /\ LineEnd(text, p) < b
        <5>1. p - 1 + i \in 1 .. b - 1
          BY <1>1, <2>2, <3>2, <4>2
        <5>2. t[p - 1 + i] = text[p - 1 + i]
          BY <5>1 DEF Changed, SameBefore
        <5> QED BY <4>1, <4>2, <5>2
      <4>3. CASE q = p + d /\ p > b /\ p - 1 >= e
        <5>1. p - 1 + i \in e .. Len(text) /\ (p - 1 + i) + d = q - 1 + i
          <6>1. i \in Int /\ 1 <= i /\ i <= n
            BY <3>2
          <6>2. e <= p - 1 + i /\ p - 1 + i <= Len(text) /\ p - 1 + i \in Int
            BY <1>1, <2>2, <3>2, <3>3, <4>3, <6>1
          <6>3. (p - 1 + i) + d = q - 1 + i
            BY <2>2, <4>3, <6>1
          <6> QED BY <1>1, <6>2, <6>3
        <5>2. t[q - 1 + i] = text[p - 1 + i]
          BY <5>1 DEF Changed, SameBehind
        <5> QED BY <4>1, <5>2
      <4> QED BY <2>7, <4>2, <4>3
    <3> QED BY <2>5, <3>2, <3>4 DEF HasValue, v, n
  <2>10. Parse(t, k, q) = Parse(text, k, p)
    BY <2>2, <2>6, <2>9, ParseSame
  <2> QED BY <2>1, <2>3, <2>4, <2>8, <2>10 DEF ReadsAs, q, new
<1> QED BY <1>3, <1>4

\* Nor does one that another line was added to.
LEMMA OtherAddedReads ==
  ASSUME NEW text \in Text, NEW key \in Keys, NEW value \in Value, NEW line \in Text, NEW t,
         AddedOK(text, key, value, line, t), NoNumbers(text), NoNumbers(t),
         NEW k \in Keys \ {key}, NEW attr, Points(text, k, attr), Exact(text, attr),
         ReadsAs(text, k, attr)
  PROVE  ReadsAs(t, k, attr)
<1> DEFINE p == attr.textData
<1>1. /\ t \in Text /\ Len(text) \in Nat /\ Len(t) > Len(text) /\ Len(t) \in Nat
      /\ SameBefore(text, t, Len(text) + 1) /\ Closed(text, t) /\ EOL \notin Keys
  <2>1. t \in Text /\ Len(t) = Len(text) + Len(Separator(text)) + 1 + Len(value) + 2
        /\ SameBefore(text, t, Len(text) + 1) /\ Closed(text, t)
        /\ Len(Separator(text)) \in Nat
    BY DEF AddedOK
  <2>2. Len(text) \in Nat /\ Len(value) \in Nat
    BY LenProperties DEF Text, Value
  <2> QED BY <2>1, <2>2, TextAssumption
<1>2. Points(t, k, attr) /\ Exact(t, attr)
  BY <1>1, OtherAdded
<1>3. \A q \in Definitions(t, k) : q \in Definitions(text, k)
  <2> SUFFICES ASSUME NEW q \in Definitions(t, k) PROVE q \in Definitions(text, k)
    OBVIOUS
  <2>1. q \in Int /\ q - 1 \in LineStarts(t) /\ t[q - 1] = k
    BY <1>1, DefinitionLine
  <2>2. q - 1 \in LineStarts(text) /\ t[q - 1] = text[q - 1]
    BY <1>1, <2>1, LinesAdded
  <2> QED BY <2>1, <2>2, DefinitionLine
<1>4. CASE p = 0
  BY <1>3, <1>4 DEF ReadsAs
<1>5. CASE p # 0
  <2>1. Definitions(text, k) = {p} /\ attr.data = Parse(text, k, p)
    BY <1>5 DEF ReadsAs
  <2>2. p \in Definitions(t, k) /\ parseDefinition(t, p) = parseDefinition(text, p)
    BY <1>2, <1>5 DEF Points, Exact
  <2> HIDE DEF p
  <2>3. p \in 1 .. Len(text) + 1 /\ p \in 1 .. Len(t) + 1
    <3>1. p \in 2 .. Len(text) + 1
      BY <2>1, DefinitionIs
    <3> QED BY <1>1, <3>1
  <2>4. HasValue(t, p, ValueAt(text, p))
    <3> DEFINE v == ValueAt(text, p)
    <3>1. HasValue(text, p, v) /\ Len(v) \in Nat /\ p + Len(v) <= Len(text) + 1
      <4>1. HasValue(text, p, v)
        BY <2>3, ValueIs
      <4> QED BY <2>3, <4>1, ValueIs DEF HasValue
    <3> HIDE DEF v
    <3>2. ASSUME NEW i \in 1 .. Len(v) PROVE t[p - 1 + i] = v[i]
      <4>1. p - 1 + i \in 1 .. (Len(text) + 1) - 1
        BY <1>1, <2>3, <3>1
      <4> QED BY <1>1, <3>1, <4>1 DEF HasValue, SameBefore
    <3> QED BY <2>2, <3>1, <3>2 DEF HasValue, v
  <2>5. Parse(t, k, p) = Parse(text, k, p)
    BY <1>1, <2>3, <2>4, ParseSame
  <2> QED BY <1>3, <1>5, <2>1, <2>2, <2>5 DEF ReadsAs, p
<1> QED BY <1>4, <1>5

\* The edited definition is still the only one of its key, and reads as it was set.
LEMMA OwnUpdatedReads ==
  ASSUME NEW text \in Text, NEW key \in Keys, NEW p, Definitions(text, key) = {p},
         NEW length, length = parseDefinition(text, p),
         NEW data \in DataOf[key], Accepts(key, data),
         NEW value, value = Format(key, data),
         NEW t, t = Splice(text, p, p + length, value),
         NEW own, own = [textData |-> p, textLength |-> Len(value), data |-> data]
  PROVE  ReadsAs(t, key, own)
<1>1. p \in Definitions(text, key) /\ p \in 2 .. Len(text) + 1 /\ p \in 1 .. Len(text) + 1
  <2>1. p \in 2 .. Len(text) + 1 /\ Len(text) \in Nat
    BY DefinitionIs, LenProperties DEF Text
  <2> QED BY <2>1
<1>2. /\ length \in Nat /\ length <= parseDefinition(text, p)
      /\ value \in Value /\ Len(value) \in Nat
  BY <1>1, ValueIs, ValueAssumption, LenProperties DEF Value
<1>3. /\ t \in Text /\ Len(t) = Len(text) + (Len(value) - length)
      /\ p \in Definitions(t, key) /\ Len(value) = parseDefinition(t, p)
  <2>1. /\ t \in Text /\ Len(t) = Len(text) + (Len(value) - length)
        /\ p \in Definitions(t, key)
        /\ length = parseDefinition(text, p) => Len(value) = parseDefinition(t, p)
    BY ONLY <1>1, <1>2, text \in Text, t = Splice(text, p, p + length, value), OwnUpdated
  <2> QED BY <2>1
<1>4. UpdatedOK(text, t, key, p, length, value)
  BY <1>1, <1>2, UpdatedIs
<1>5. OldLines(text, t, p, p + length, Len(value) - length)
  BY <1>1, <1>2, <1>4, LinesUpdated
<1>6. Definitions(t, key) = {p}
  <2>1. ASSUME NEW q \in Definitions(t, key) PROVE q = p
    <3> DEFINE d == Len(value) - length
               e == p + length
    <3>1. d \in Int /\ e \in Int /\ p \in Int /\ e >= p
      BY <1>1, <1>2
    <3>2. OldLines(text, t, p, e, d)
      BY <1>5
    <3> HIDE DEF d, e
    <3>3. \/ q - 1 < p /\ q \in Definitions(text, key)
          \/ q - d - 1 >= e /\ q - d \in Definitions(text, key)
      BY <1>3, <3>1, <3>2, OldDefinition
    <3>4. ~(p - 1 >= e)
      BY <3>1
    <3> QED BY <3>3, <3>4
  <2> QED BY <1>3, <2>1
<1>7. p \in 1 .. Len(t) + 1
  <2>1. p \in 2 .. Len(t) + 1 /\ Len(t) \in Nat
    BY <1>3, DefinitionIs, LenProperties DEF Text
  <2> QED BY <2>1
<1>8. HasValue(t, p, value)
  BY <1>3, <1>4 DEF HasValue, UpdatedOK
<1>9. Parse(t, key, p) = data
  BY <1>3, <1>7, <1>8, SetReads
<1>10. own.textData = p /\ own.data = data /\ p # 0
  BY <1>1
<1> QED BY <1>6, <1>9, <1>10 DEF ReadsAs

\* So is an added one ...
LEMMA OwnAddedReads ==
  ASSUME NEW text \in Text, NEW key \in Keys, Definitions(text, key) = {},
         NEW data \in DataOf[key], Accepts(key, data),
         NEW value, value = Format(key, data),
         NEW line \in Text, NEW t, AddedOK(text, key, value, line, t),
         NEW own, own = [textData |-> Len(line) + 1, textLength |-> Len(value), data |-> data]
  PROVE  ReadsAs(t, key, own)
<1> DEFINE p == Len(line) + 1
<1>1. /\ value \in Value /\ Len(line) \in Nat /\ t \in Text /\ Len(t) \in Nat
      /\ p \in Definitions(t, key) /\ parseDefinition(t, p) = Len(value)
      /\ \A j \in 1 .. Len(value) : t[Len(line) + j] = value[j]
  BY ValueAssumption, LenProperties DEF AddedOK, Text, Value
<1>2. p \in Nat /\ p # 0 /\ p - 1 = Len(line)
  BY <1>1
<1> HIDE DEF p
<1>3. Definitions(t, key) = {p}
  <2>1. ASSUME NEW q \in Definitions(t, key) PROVE q = p
    <3>1. q \in Int /\ q - 1 \in LineStarts(t) /\ t[q - 1] = key
      BY <1>1, DefinitionLine
    <3>2. \/ q - 1 \in LineStarts(text) /\ t[q - 1] = text[q - 1]
          \/ q - 1 = Len(line) \/ t[q - 1] = EOL
      BY <1>1, <3>1, LinesAdded
    <3>3. ~(q - 1 \in LineStarts(text) /\ text[q - 1] = key)
      BY <3>1, DefinitionLine
    <3> QED BY <1>2, <3>1, <3>2, <3>3, TextAssumption
  <2> QED BY <1>1, <2>1
<1>4. p \in 1 .. Len(t) + 1
  <2>1. p \in 2 .. Len(t) + 1
    BY <1>1, DefinitionIs
  <2> QED BY <1>1, <2>1
<1>5. HasValue(t, p, value)
  BY <1>1, <1>2 DEF HasValue
<1>6. Parse(t, key, p) = data
  BY <1>1, <1>4, <1>5, SetReads
<1>7. own.textData = p /\ own.data = data
  BY DEF p
<1> QED BY <1>2, <1>3, <1>6, <1>7 DEF ReadsAs

\* ... and a removed one leaves none.
LEMMA OwnRemovedReads ==
  ASSUME NEW text \in Text, NEW key \in Keys, NEW p, Definitions(text, key) = {p},
         NEW b, NEW e, NEW t, RemovedOK(text, t, key, p, b, e)
  PROVE  ReadsAs(t, key, NoAttribute)
<1>1. p \in 2 .. Len(text) + 1 /\ Len(text) \in Nat
  BY DefinitionIs, LenProperties DEF Text
<1>2. /\ b \in 1 .. Len(text) + 1 /\ e \in b .. Len(text) + 1 /\ b < p /\ p < e
      /\ t \in Text /\ OldLines(text, t, b, e, 0 - (e - b))
  <2>1. OldLines(text, t, b, e, 0 - (e - b))
    BY <1>1, LinesRemoved
  <2> QED BY <2>1 DEF RemovedOK, Changed
<1>3. Definitions(t, key) = {}
  <2> DEFINE d == 0 - (e - b)
  <2>1. b \in Int /\ e \in Int /\ d \in Int /\ OldLines(text, t, b, e, d)
    BY <1>1, <1>2
  <2> HIDE DEF d
  <2>2. ASSUME NEW q \in Definitions(t, key) PROVE FALSE
    <3>1. \/ q - 1 < b /\ q \in Definitions(text, key)
          \/ q - d - 1 >= e /\ q - d \in Definitions(text, key)
      BY <1>2, <2>1, OldDefinition
    <3>2. ~(p - 1 < b) /\ ~(p - 1 >= e)
      BY <1>1, <1>2, <2>1
    <3> QED BY <3>1, <3>2
  <2> QED BY <2>2
<1> QED BY <1>3 DEF ReadsAs, NoAttribute

\* No line of an edited text begins with a number, if none did.
LEMMA OldNumbers ==
  ASSUME NEW text \in Text, NEW t, NEW b, NEW e, NEW d, OldLines(text, t, b, e, d),
         NoNumbers(text)
  PROVE  NoNumbers(t)
<1>1. \A i \in LineStarts(t) : \E j \in LineStarts(text) : t[i] = text[j]
  BY DEF OldLines
<1> QED BY <1>1, NoNumbersKept

LEMMA WriteNumbers ==
  ASSUME NEW state, IsState(state), StatePoints(state), NEW key \in Keys, NEW data,
         Format(key, data) \in Value, NEW new, new = writeAttribute(state, key, data),
         NoNumbers(state.text)
  PROVE  NoNumbers(new.text)
<1> DEFINE text == state.text
           attr == state.attributes[key]
           p == attr.textData
           length == attr.textLength
           value == Format(key, data)
<1>1. text \in Text /\ value \in Value
  BY DEF IsState
<1>2. Points(text, key, attr)
  BY DEF StatePoints
<1>3. CASE IsAdded(state, key, data, new)
  <2> DEFINE line == AddedLine(text, key)
             t == Added(text, key, value)
  <2>1. new.text = t
    BY <1>3 DEF IsAdded
  <2>2. line \in Text
    BY <1>1, TextAssumption DEF AddedLine, Separator, Text
  <2> HIDE DEF text, value, line, t
  <2>3. AddedOK(text, key, value, line, t)
    BY <1>1, OwnAdded DEF line, t
  <2>4. ASSUME NEW i \in LineStarts(t)
        PROVE  \/ \E j \in LineStarts(text) : t[i] = text[j]
               \/ t[i] \in Keys \union {EOL}
    BY <1>1, <2>2, <2>3, LinesAdded
  <2>5. NoNumbers(text)
    BY DEF text
  <2> QED BY <2>1, <2>4, <2>5, NoNumbersKept
<1>4. CASE IsUpdated(state, key, data, new)
  <2> DEFINE t == Splice(text, p, p + length, value)
  <2>1. new.text = t /\ p # 0
    BY <1>4 DEF IsUpdated
  <2>2. p \in Definitions(text, key) /\ length \in Nat /\ length <= parseDefinition(text, p)
    BY <1>2, <2>1 DEF Points, IsAttribute
  <2>3. NoNumbers(text) /\ p \in Nat
    BY <1>2 DEF Points, IsAttribute
  <2> HIDE DEF text, attr, p, length, value
  <2>4. UpdatedOK(text, t, key, p, length, value)
    BY <1>1, <2>2, UpdatedIs
  <2>5. OldLines(text, t, p, p + length, Len(value) - length)
    BY <1>1, <2>2, <2>3, <2>4, LinesUpdated
  <2> HIDE DEF t
  <2> QED BY <1>1, <2>1, <2>3, <2>5, OldNumbers
<1>5. CASE IsRefused(state, key, data, new)
  BY <1>5 DEF IsRefused
<1> QED BY <1>3, <1>4, <1>5, WriteIs

LEMMA DeleteNumbers ==
  ASSUME NEW state, IsState(state), StatePoints(state), NEW key \in Keys,
         NEW new, new = Deleted(state, key), NoNumbers(state.text)
  PROVE  NoNumbers(new.text)
<1> DEFINE text == state.text
           attr == state.attributes[key]
           p == attr.textData
           length == attr.textLength
           b == LineBegin(text, p)
           e == NextLine(text, p + length)
           t == Splice(text, b, e, <<>>)
<1>1. text \in Text /\ Points(text, key, attr) /\ NoNumbers(text)
  BY DEF IsState, StatePoints
<1>2. CASE ~Removable(attr)
  BY <1>2 DEF Deleted
<1>3. CASE Removable(attr)
  <2>1. new.text = t
    BY <1>3, DeleteIs DEF IsRemoved
  <2>2. /\ p \in Definitions(text, key) /\ p \in Int
        /\ length \in Nat \ {0} /\ length <= parseDefinition(text, p)
    BY <1>1, <1>3 DEF Points, IsAttribute, Removable
  <2> HIDE DEF text, attr, p, length
  <2>3. RemovedOK(text, t, key, p, b, e)
    BY <1>1, <2>2, RemovedIs
  <2> HIDE DEF t, b, e
  <2>4. OldLines(text, t, b, e, 0 - (e - b))
    BY <1>1, <2>2, <2>3, LinesRemoved
  <2> QED BY <1>1, <2>1, <2>4, OldNumbers
<1> QED BY <1>2, <1>3

-----------------------------------------------------------------------------
(* Every key reads as the menus show it, but for those of a set.           *)

StateReads(state, doubled) ==
  \A k \in Keys \ doubled : ReadsAs(state.text, k, state.attributes[k])

\* From the key that was edited and the others.
LEMMA ReadsFrom ==
  ASSUME NEW t, NEW attrs, attrs = [k \in Keys |-> attrs[k]], NEW key \in Keys, NEW own,
         NEW new, new = [text |-> t, attributes |-> [attrs EXCEPT ![key] = own]],
         NEW doubled, key \notin doubled => ReadsAs(t, key, own),
         \A k \in Keys \ doubled : k # key => ReadsAs(t, k, attrs[k])
  PROVE  StateReads(new, doubled)
<1>1. new.text = t /\ \A k \in Keys : new.attributes[k] = IF k = key THEN own ELSE attrs[k]
  OBVIOUS
<1> QED BY <1>1 DEF StateReads

\* A write that finds room keeps it so ...
LEMMA WriteReads ==
  ASSUME NEW state, IsState(state), StatePoints(state), StateExact(state),
         NEW key \in Keys, NEW data \in DataOf[key], Accepts(key, data),
         HasRoom(state, key, data), NEW new, new = writeAttribute(state, key, data),
         NoNumbers(state.text), NEW doubled, StateReads(state, doubled)
  PROVE  StateReads(new, doubled)
<1> DEFINE text == state.text
           attrs == state.attributes
           attr == attrs[key]
           p == attr.textData
           length == attr.textLength
           value == Format(key, data)
<1>1. /\ text \in Text /\ value \in Value /\ attrs = [k \in Keys |-> attrs[k]]
      /\ NoNumbers(text) /\ Len(value) \in Nat
  BY ValueAssumption, LenProperties DEF IsState, Value
<1>2. \A k \in Keys : Points(text, k, attrs[k]) /\ Exact(text, attrs[k])
  BY DEF StatePoints, StateExact
<1>3. \A k \in Keys \ doubled : ReadsAs(text, k, attrs[k])
  BY DEF StateReads
<1>4. NoNumbers(new.text)
  BY <1>1, WriteNumbers
<1>5. CASE IsAdded(state, key, data, new)
  <2> DEFINE line == AddedLine(text, key)
             t == Added(text, key, value)
             own == [textData |-> Len(line) + 1, textLength |-> Len(value), data |-> data]
  <2>1. p = 0 /\ new = [text |-> t, attributes |-> [attrs EXCEPT ![key] = own]]
    BY <1>5 DEF IsAdded
  <2>2. line \in Text
    BY <1>1, TextAssumption DEF AddedLine, Separator, Text
  <2> HIDE DEF text, attrs, value, line, t
  <2>3. AddedOK(text, key, value, line, t)
    BY <1>1, OwnAdded DEF line, t
  <2>4. NoNumbers(t)
    BY <1>4, <2>1
  <2>5. ASSUME NEW k \in Keys \ doubled, k # key PROVE ReadsAs(t, k, attrs[k])
    BY <1>1, <1>2, <1>3, <2>2, <2>3, <2>4, <2>5, OtherAddedReads
  <2>6. ASSUME key \notin doubled PROVE ReadsAs(t, key, own)
    <3>1. Definitions(text, key) = {}
      BY <1>3, <2>1, <2>6 DEF ReadsAs
    <3> HIDE DEF attr, p, own
    <3> QED BY <1>1, <2>2, <2>3, <3>1, OwnAddedReads DEF value, own
  <2> HIDE DEF own, attr, p
  <2> QED BY <1>1, <2>1, <2>5, <2>6, ReadsFrom
<1>6. CASE IsUpdated(state, key, data, new)
  <2> DEFINE t == Splice(text, p, p + length, value)
             d == Len(value) - length
             moved == Moved(attrs, p, d)
             own == [textData |-> p, textLength |-> Len(value), data |-> data]
  <2>1. p # 0 /\ new = [text |-> t, attributes |-> [moved EXCEPT ![key] = own]]
    BY <1>6 DEF IsUpdated
  <2>2. /\ p \in Definitions(text, key) /\ p \in Nat
        /\ length \in Nat /\ length <= parseDefinition(text, p)
        /\ length = parseDefinition(text, p)
    BY <1>2, <2>1 DEF Points, Exact, IsAttribute
  <2>3. moved = [k \in Keys |-> Shifted(attrs[k], p, d)] /\ moved = [k \in Keys |-> moved[k]]
    BY DEF Moved
  <2> HIDE DEF text, attrs, attr, p, length, value, moved
  <2>4. UpdatedOK(text, t, key, p, length, value)
    BY <1>1, <2>2, UpdatedIs
  <2>5. OldLines(text, t, p, p + length, d)
    BY <1>1, <2>2, <2>4, LinesUpdated
  <2>6. d \in Int
    BY <1>1, <2>2
  <2> HIDE DEF t, d
  <2>7. NoNumbers(t) /\ t \in Text
    BY <1>4, <2>1, <2>4 DEF UpdatedOK, Changed
  <2>8. ASSUME NEW k \in Keys \ doubled, k # key PROVE ReadsAs(t, k, moved[k])
    <3> DEFINE e == p + length
               r == attrs[k].textData
    <3>1. r \in Definitions(text, k) \union {0}
      BY <1>2 DEF Points
    <3>2. /\ p \in 1 .. Len(text) + 1 /\ e \in p .. Len(text) + 1 /\ e + d >= p
          /\ Changed(text, t, p, e, d) /\ Apart(text, t, p, e, d, r)
      <4>1. p \in 2 .. Len(text) + 1 => p \in 1 .. Len(text) + 1
        BY <1>1, LenProperties DEF Text
      <4> HIDE DEF r
      <4> QED BY <2>4, <2>8, <3>1, <4>1 DEF UpdatedOK, d
    <3>3. OldLines(text, t, p, e, d)
      BY <2>5
    <3> HIDE DEF e
    <3>4. ReadsAs(t, k, Shifted(attrs[k], p, d))
      BY <1>1, <1>2, <1>3, <2>6, <2>7, <3>2, <3>3, OtherReads
    <3> QED BY <2>3, <3>4
  <2>9. ASSUME key \notin doubled PROVE ReadsAs(t, key, own)
    <3>1. Definitions(text, key) = {p}
      BY <1>3, <2>1, <2>9 DEF ReadsAs, p, attr
    <3> HIDE DEF own
    <3> QED BY <1>1, <2>2, <3>1, OwnUpdatedReads DEF value, own, t
  <2> HIDE DEF own
  <2> QED BY <2>1, <2>3, <2>8, <2>9, ReadsFrom
<1>7. ~IsRefused(state, key, data, new)
  BY DEF IsRefused
<1> QED BY <1>1, <1>5, <1>6, <1>7, WriteIs

\* ... and so does the removal of a line.
LEMMA DeleteReads ==
  ASSUME NEW state, IsState(state), StatePoints(state), StateExact(state),
         NEW key \in Keys, NEW new, new = Deleted(state, key),
         NoNumbers(state.text), NEW doubled, StateReads(state, doubled)
  PROVE  StateReads(new, doubled)
<1> DEFINE text == state.text
           attrs == state.attributes
           attr == attrs[key]
           p == attr.textData
           length == attr.textLength
           b == LineBegin(text, p)
           e == NextLine(text, p + length)
           t == Splice(text, b, e, <<>>)
           d == 0 - (e - b)
           moved == Moved(attrs, b, d)
<1>1. text \in Text /\ attrs = [k \in Keys |-> attrs[k]] /\ NoNumbers(text)
  BY DEF IsState
<1>2. \A k \in Keys : Points(text, k, attrs[k]) /\ Exact(text, attrs[k])
  BY DEF StatePoints, StateExact
<1>3. \A k \in Keys \ doubled : ReadsAs(text, k, attrs[k])
  BY DEF StateReads
<1>4. NoNumbers(new.text)
  BY <1>1, DeleteNumbers
<1>5. CASE ~Removable(attr)
  BY <1>5 DEF Deleted
<1>6. CASE Removable(attr)
  <2>1. new = [text |-> t, attributes |-> [moved EXCEPT ![key] = NoAttribute]]
    BY <1>6, DeleteIs DEF IsRemoved
  <2>2. /\ p \in Definitions(text, key) /\ p \in Int /\ p # 0
        /\ length \in Nat \ {0} /\ length <= parseDefinition(text, p)
    <3>1. Points(text, key, attr)
      BY <1>2
    <3> HIDE DEF text, attrs, attr
    <3> QED BY <1>6, <3>1 DEF Points, IsAttribute, Removable
  <2>3. moved = [k \in Keys |-> Shifted(attrs[k], b, d)] /\ moved = [k \in Keys |-> moved[k]]
    BY DEF Moved
  <2> HIDE DEF text, attrs, attr, p, length, moved
  <2>4. RemovedOK(text, t, key, p, b, e)
    BY <1>1, <2>2, RemovedIs
  <2> HIDE DEF t, b, e
  <2>5. OldLines(text, t, b, e, d)
    BY <1>1, <2>2, <2>4, LinesRemoved
  <2>6. /\ b \in 1 .. Len(text) + 1 /\ e \in b .. Len(text) + 1
        /\ Changed(text, t, b, e, d) /\ t \in Text
    BY <2>4 DEF RemovedOK, Changed
  <2>7. d \in Int /\ e + d >= b
    BY <1>1, <2>6, LenProperties DEF Text
  <2>8. NoNumbers(t)
    BY <1>4, <2>1
  <2>9. ASSUME NEW k \in Keys \ doubled, k # key PROVE ReadsAs(t, k, moved[k])
    <3> DEFINE r == attrs[k].textData
    <3>1. r \in Definitions(text, k) \union {0}
      BY <1>2 DEF Points
    <3>2. Apart(text, t, b, e, d, r)
      <4> HIDE DEF r
      <4> QED BY <2>4, <2>9, <3>1 DEF RemovedOK
    <3> HIDE DEF d
    <3>3. ReadsAs(t, k, Shifted(attrs[k], b, d))
      BY <1>1, <1>2, <1>3, <2>5, <2>6, <2>7, <2>8, <3>2, OtherReads
    <3> QED BY <2>3, <3>3
  <2>10. ASSUME key \notin doubled PROVE ReadsAs(t, key, NoAttribute)
    <3>1. Definitions(text, key) = {p}
      BY <1>3, <2>2, <2>10 DEF ReadsAs, p, attr
    <3> QED BY <1>1, <2>4, <3>1, OwnRemovedReads
  <2> QED BY <2>1, <2>3, <2>9, <2>10, ReadsFrom
<1> QED BY <1>5, <1>6

\* A text that was cut off has no other lines.
LEMMA NumbersBefore ==
  ASSUME NEW text \in Text, NoNumbers(text), NEW n \in 0 .. Len(text)
  PROVE  NoNumbers(SubSeq(text, 1, n))
<1> DEFINE t == SubSeq(text, 1, n)
<1>1. Len(text) \in Nat /\ DOMAIN text = 1 .. Len(text) /\ n \in Int
  BY LenProperties DEF Text
<1>2. \A i \in 1 .. n : text[i] \in Tokens
  BY <1>1, ElementOfSeq DEF Text
<1>3. t \in Text /\ Len(t) = n /\ \A i \in 1 .. n : t[i] = text[i]
  <2>1. /\ t \in Text /\ Len(t) = IF 1 <= n THEN n - 1 + 1 ELSE 0
        /\ \A i \in 1 .. n - 1 + 1 : t[i] = text[1 + i - 1]
    BY <1>1, <1>2, SubSeqProperties DEF Text
  <2> HIDE DEF t
  <2>2. n - 1 + 1 = n /\ \A i \in 1 .. n : 1 + i - 1 = i
    BY <1>1
  <2> QED BY <1>1, <2>1, <2>2
<1> HIDE DEF t
<1>4. ASSUME NEW i \in LineStarts(t) PROVE i \in LineStarts(text) /\ t[i] = text[i]
  <2>1. i \in 1 .. n /\ (i = 1 \/ t[i - 1] = EOL) /\ i \in 1 .. Len(text)
    BY <1>1, <1>3, LenProperties DEF LineStarts, Text
  <2>2. i # 1 => i - 1 \in 1 .. n
    BY <1>1, <2>1
  <2> QED BY <1>1, <1>3, <2>1, <2>2 DEF LineStarts
<1> QED BY <1>4 DEF NoNumbers, t

-----------------------------------------------------------------------------
(* The configuration in memory and on the drives.                          *)

\* The edited text with the pointers into it.
MemoryOK ==
  /\ configLoaded <=> filebuf # Null
  /\ configLoaded => /\ IsState(State) /\ StatePoints(State)
                     /\ ~refused => StateExact(State)
  /\ ~configLoaded => attributes = [key \in Keys |-> NoAttribute]
  /\ configDirty => configLoaded

JobOK ==
  /\ filepath \in Drives /\ files \in [Drives -> Text \union {NoFile}]
  /\ job \in {"off", "none", "create", "replace", "move", "save"}
  /\ at \in {"none", "unlink", "create", "write", "sync", "load"}
  /\ job \in {"off", "none"} <=> at = "none"
  /\ job \in {"move", "save"} => configLoaded
  /\ job \in Creates => ~configLoaded
  /\ at = "load" => job \in Creates /\ files[filepath] # NoFile
  /\ at = "unlink" => job = "move" /\ filepath = "sd"

\* Where the text is that was last loaded or stored, unless it is at risk: in
\* the file in use, or in the one that is not being written.
SavedAt(drive) == files[drive] = saved
SavedOK ==
  saved # Null =>
    /\ saved \in Text
    /\ job \in {"off", "none"} => \E drive \in Drives : SavedAt(drive)
    /\ job = "none" /\ configLoaded => SavedAt(filepath)
    /\ job \in Creates /\ at = "load" => SavedAt(filepath)
    /\ job = "create" /\ at # "load" => SavedAt(OtherDrive)
    /\ job = "move" /\ filepath = "sd" => SavedAt(IF at = "unlink" THEN "sd" ELSE "nand")

ConfigIInv == MemoryOK /\ JobOK /\ CleanIsStored /\ SavedOK

FilesOK == files \in [Drives -> Text \union {NoFile}]
\* Only the file in use is being written.
OthersSame == \A drive \in Drives \ {filepath} : files'[drive] = files[drive]

\* Texts are not the marks of absent ones.
LEMMA TextFacts ==
  /\ DefaultText \in Text /\ Texts \subseteq Text /\ <<>> \in Text
  /\ NoFile \notin Text /\ Null \notin Text
BY FileAssumption, EmptySeq DEF Text

\* Before the first start.
LEMMA InitInv == Init => ConfigIInv
<1> SUFFICES ASSUME Init PROVE ConfigIInv
  OBVIOUS
<1>1. MemoryOK
  BY DEF Init, MemoryOK
<1>2. JobOK
  BY TextFacts DEF Init, JobOK, Drives
<1>3. CleanIsStored /\ SavedOK
  BY DEF Init, CleanIsStored, SavedOK
<1> QED BY <1>1, <1>2, <1>3 DEF ConfigIInv

-----------------------------------------------------------------------------
(* Loading.                                                                *)

\* A reset clears the table.
LEMMA UnloadMemory == ASSUME Unload PROVE MemoryOK' /\ configLoaded' = FALSE
BY DEF Unload, MemoryOK

\* A file that is read is parsed.
LEMMA ReadMemory ==
  ASSUME FilesOK, NEW drive \in Drives, files[drive] # NoFile, ReadFile(drive)
  PROVE  /\ MemoryOK' /\ job' = "none" /\ at' = "none" /\ files' = files
         /\ \/ configLoaded' = FALSE /\ saved' = saved
            \/ filebuf' = files[drive] /\ saved' = files[drive]
<1>1. files[drive] \in Text
  BY DEF FilesOK
<1>2. CASE Unload /\ UNCHANGED saved
  BY <1>2, UnloadMemory DEF ReadFile
<1>3. CASE /\ Len(files[drive]) <= MaxFileSize
           /\ filebuf' = files[drive] /\ saved' = files[drive]
           /\ attributes' = parseConfigFile(files[drive])
           /\ configLoaded' = TRUE /\ configDirty' = FALSE /\ refused' = FALSE
  <2> DEFINE text == files[drive]
             state == [text |-> text, attributes |-> parseConfigFile(text)]
  <2>1. IsState(state) /\ StatePoints(state) /\ StateExact(state)
    <3> HIDE DEF text
    <3> QED BY <1>1, <1>3, ParsePoints DEF text
  <2>2. State' = state
    BY <1>3 DEF State
  <2>3. filebuf' # Null
    BY <1>1, <1>3, TextFacts
  <2> HIDE DEF state
  <2>4. MemoryOK'
    BY <1>3, <2>1, <2>2, <2>3 DEF MemoryOK
  <2> QED BY <1>3, <2>4 DEF ReadFile
<1> QED BY <1>2, <1>3 DEF ReadFile

LEMMA PowerOnInv == ASSUME ConfigIInv, PowerOn PROVE ConfigIInv'
<1>1. PICK found \in SUBSET {drive \in Drives : files[drive] # NoFile} :
         /\ filepath' = LoadPath([drive \in Drives |->
                                   IF drive \in found THEN files[drive] ELSE NoFile], sdPresent)
         /\ IF filepath' \in found THEN ReadFile(filepath')
            ELSE /\ Unload /\ at' = "create"
                 /\ job' = IF files[filepath'] = NoFile THEN "create" ELSE "replace"
                 /\ UNCHANGED <<files, sdPresent, edits, saved>>
  BY DEF PowerOn
<1>2. FilesOK /\ filepath' \in Drives
  BY <1>1 DEF ConfigIInv, JobOK, FilesOK, LoadPath, Drives
<1>3. job = "off" /\ (saved # Null => saved \in Text /\ \E drive \in Drives : SavedAt(drive))
  BY DEF PowerOn, ConfigIInv, SavedOK
<1>4. CASE filepath' \in found
  <2>0. files[filepath'] # NoFile /\ ReadFile(filepath')
    BY <1>1, <1>4
  <2>1. /\ MemoryOK' /\ job' = "none" /\ at' = "none" /\ files' = files
        /\ \/ configLoaded' = FALSE /\ saved' = saved
           \/ filebuf' = files[filepath'] /\ saved' = files[filepath']
    BY <1>2, <2>0, ReadMemory
  <2>2. JobOK'
    BY <1>2, <2>1 DEF JobOK, FilesOK, Creates
  <2>3. CleanIsStored'
    BY <2>1 DEF CleanIsStored
  <2>4. SavedOK'
    <3>1. CASE configLoaded' = FALSE /\ saved' = saved
      BY <1>3, <2>1, <3>1 DEF SavedOK, SavedAt, Creates
    <3>2. CASE saved' = files[filepath']
      <4>1. saved' \in Text
        BY <1>2, <2>0, <3>2 DEF FilesOK
      <4> QED BY <1>2, <2>1, <3>2, <4>1 DEF SavedOK, SavedAt, Creates
    <3> QED BY <2>1, <3>1, <3>2
  <2> QED BY <2>1, <2>2, <2>3, <2>4 DEF ConfigIInv
<1>5. CASE filepath' \notin found
  <2>0. /\ Unload /\ at' = "create" /\ UNCHANGED <<files, saved>>
        /\ job' = IF files[filepath'] = NoFile THEN "create" ELSE "replace"
    BY <1>1, <1>5
  <2>1. MemoryOK' /\ configLoaded' = FALSE
    BY <2>0, UnloadMemory
  <2>2. JobOK'
    BY <1>2, <2>0, <2>1 DEF JobOK, FilesOK, Creates
  <2>3. CleanIsStored'
    BY <2>1 DEF CleanIsStored
  <2>4. SavedOK'
    <3> SUFFICES ASSUME saved # Null
                 PROVE  saved \in Text /\ (job' = "create" => SavedAt(OtherDrive)')
      BY <2>0 DEF SavedOK, Creates
    <3>1. PICK drive \in Drives : SavedAt(drive)
      BY <1>3
    <3>2. job' = "create" => drive # filepath'
      BY <1>3, <2>0, <3>1, TextFacts DEF SavedAt
    <3>3. job' = "create" => drive = OtherDrive'
      BY <1>2, <3>2 DEF OtherDrive, Drives
    <3> QED BY <1>3, <2>0, <3>1, <3>3 DEF SavedAt
  <2> QED BY <2>1, <2>2, <2>3, <2>4 DEF ConfigIInv
<1> QED BY <1>4, <1>5

\* A file that was just created is loaded.
LEMMA LoadCreatedInv == ASSUME ConfigIInv, LoadCreated PROVE ConfigIInv'
<1>1. /\ FilesOK /\ filepath \in Drives /\ filepath' = filepath
      /\ job \in Creates /\ at = "load" /\ files[filepath] # NoFile
  BY DEF ConfigIInv, JobOK, FilesOK, LoadCreated
<1>2. saved # Null => saved \in Text /\ SavedAt(filepath)
  BY <1>1 DEF ConfigIInv, SavedOK
<1>3. /\ MemoryOK' /\ job' = "none" /\ at' = "none" /\ files' = files
      /\ \/ configLoaded' = FALSE /\ saved' = saved
         \/ filebuf' = files[filepath] /\ saved' = files[filepath]
  <2>1. CASE ReadFile(filepath)
    BY <1>1, <2>1, ReadMemory
  <2>2. CASE Unload /\ job' = "none" /\ at' = "none" /\ UNCHANGED <<files, saved>>
    BY <2>2, UnloadMemory
  <2> QED BY <2>1, <2>2 DEF LoadCreated
<1>4. JobOK'
  BY <1>1, <1>3 DEF JobOK, FilesOK, Creates
<1>5. CleanIsStored'
  BY <1>1, <1>3 DEF CleanIsStored
<1>6. SavedOK'
  <2>1. saved' # Null => saved' \in Text /\ SavedAt(filepath)'
    BY <1>1, <1>2, <1>3 DEF SavedAt, FilesOK
  <2> QED BY <1>1, <1>3, <2>1 DEF SavedOK, Creates
<1> QED BY <1>3, <1>4, <1>5, <1>6 DEF ConfigIInv

-----------------------------------------------------------------------------
(* Writing a file.                                                         *)

Writing == at \in {"create", "write", "sync"} /\ job \in {"create", "replace", "move", "save"}

\* What a job writes is a text.
LEMMA ToWrite == ASSUME MemoryOK, JobOK, Writing PROVE TextToWrite \in Text
<1>1. CASE job \in Creates
  BY <1>1, TextFacts DEF TextToWrite
<1>2. CASE job \notin Creates
  <2>1. configLoaded
    BY <1>2 DEF JobOK, Writing, Creates
  <2> QED BY <1>2, <2>1 DEF MemoryOK, IsState, State, TextToWrite
<1> QED BY <1>1, <1>2

\* A step that does not end the job.
LEMMA GoOnInv ==
  ASSUME ConfigIInv, Writing, NEW next \in {"write", "sync"}, GoOn(next), FilesOK', OthersSame
  PROVE  ConfigIInv'
<1>1. /\ UNCHANGED <<filebuf, attributes, configLoaded, configDirty, refused>>
      /\ filepath' = filepath /\ job' = job /\ at' = next /\ saved' = saved
  BY DEF GoOn, memory, history
<1>2. MemoryOK'
  BY <1>1 DEF ConfigIInv, MemoryOK, State
<1>3. JobOK'
  BY <1>1 DEF ConfigIInv, JobOK, FilesOK, Writing, Creates
<1>4. CleanIsStored'
  BY <1>1 DEF CleanIsStored, Idle, Writing
<1>5. SavedOK'
  <2>1. JobOK /\ SavedOK
    BY DEF ConfigIInv
  <2>2. filepath \in Drives /\ job' \notin {"off", "none"} /\ at # "load" /\ at # "unlink"
        /\ at' # "load" /\ at' # "unlink"
    BY <1>1, <2>1 DEF JobOK, Writing
  <2>3. saved # Null /\ job = "create" => SavedAt(OtherDrive) /\ SavedAt(OtherDrive)'
    BY <1>1, <2>1, <2>2 DEF SavedOK, SavedAt, OtherDrive, OthersSame, Drives
  <2>4. saved # Null /\ job = "move" /\ filepath = "sd" => SavedAt("nand")'
    BY <1>1, <2>1, <2>2 DEF SavedOK, SavedAt, OthersSame, Drives
  <2> QED BY <1>1, <2>1, <2>2, <2>3, <2>4 DEF SavedOK
<1> QED BY <1>2, <1>3, <1>4, <1>5 DEF ConfigIInv

\* The end of it.
LEMMA EndWriteInv ==
  ASSUME ConfigIInv, Writing, NEW ok \in BOOLEAN, EndWrite(ok), FilesOK', OthersSame,
         ok => files'[filepath] = TextToWrite
  PROVE  ConfigIInv'
<1>1. MemoryOK /\ JobOK /\ SavedOK /\ TextToWrite \in Text
  BY ToWrite DEF ConfigIInv
<1>2. filepath \in Drives /\ at \notin {"load", "unlink", "none"}
  BY <1>1 DEF JobOK, Writing
<1>3. saved' = IF ok THEN TextToWrite ELSE IF AtRisk THEN Null ELSE saved
  BY DEF EndWrite
<1>4. saved' # Null => saved' \in Text
  BY <1>1, <1>3 DEF SavedOK
<1>5. ASSUME job \in Creates, UNCHANGED <<memory, filepath, refused, twice>>,
             IF ok THEN at' = "load" /\ UNCHANGED job ELSE at' = "none" /\ job' = "none"
      PROVE  ConfigIInv'
  <2>1. /\ UNCHANGED <<filebuf, attributes, configLoaded, configDirty, refused>>
        /\ filepath' = filepath
    BY <1>5 DEF memory
  <2>2. ~configLoaded
    BY <1>1, <1>5 DEF JobOK
  <2>3. MemoryOK'
    BY <1>1, <2>1 DEF MemoryOK, State
  <2>4. JobOK'
    <3>1. ok => files'[filepath] # NoFile
      BY <1>1, TextFacts
    <3> QED BY <1>1, <1>5, <2>1, <2>2, <3>1 DEF JobOK, FilesOK, Creates
  <2>5. CleanIsStored'
    BY <2>1, <2>2 DEF CleanIsStored
  <2>6. SavedOK'
    <3>1. CASE ok
      <4>1. SavedAt(filepath)'
        BY <1>3, <2>1, <3>1 DEF SavedAt
      <4> QED BY <1>4, <1>5, <3>1, <4>1 DEF SavedOK, Creates
    <3>2. CASE ~ok /\ job = "create"
      <4>1. saved' = saved
        BY <1>3, <3>2 DEF AtRisk
      <4>2. saved # Null => SavedAt(OtherDrive) /\ OtherDrive \in Drives \ {filepath}
        BY <1>1, <1>2, <3>2 DEF SavedOK, OtherDrive, Drives
      <4>3. saved # Null => \E drive \in Drives : SavedAt(drive)'
        BY <4>1, <4>2 DEF SavedAt, OthersSame
      <4> QED BY <1>4, <1>5, <2>1, <2>2, <3>2, <4>1, <4>3 DEF SavedOK, Creates
    <3>3. CASE ~ok /\ job = "replace"
      <4>1. saved' = Null
        BY <1>2, <1>3, <3>3 DEF AtRisk
      <4> QED BY <4>1 DEF SavedOK
    <3> QED BY <1>5, <3>1, <3>2, <3>3 DEF Creates
  <2> QED BY <2>3, <2>4, <2>5, <2>6 DEF ConfigIInv
<1>6. ASSUME job = "move", MoveEnds(ok), job' = "none", at' = "none",
             UNCHANGED <<filebuf, attributes, configLoaded, refused, twice>>
      PROVE  ConfigIInv'
  <2>1. configLoaded /\ filebuf # Null /\ TextToWrite = filebuf
    BY <1>1, <1>6 DEF JobOK, MemoryOK, TextToWrite
  <2>2. filepath' \in Drives
    BY <1>2, <1>6 DEF MoveEnds, OtherDrive, Drives
  <2>3. MemoryOK'
    BY <1>1, <1>6, <2>1 DEF MemoryOK, State
  <2>4. JobOK'
    BY <1>6, <2>1, <2>2 DEF JobOK, FilesOK, Creates
  <2>5. CleanIsStored'
    BY <1>6, <2>1 DEF CleanIsStored, MoveEnds
  <2>6. SavedOK'
    <3> SUFFICES ASSUME saved' # Null PROVE SavedAt(filepath)'
      BY <1>4, <1>6, <2>2 DEF SavedOK, Creates
    <3>1. CASE ok
      BY <1>3, <1>6, <3>1 DEF SavedAt, MoveEnds
    <3>2. CASE ~ok
      <4>1. filepath = "sd" /\ saved' = saved
        BY <1>2, <1>3, <1>6, <3>2 DEF AtRisk, Drives
      <4>2. files["nand"] = saved /\ filepath' = "nand"
        BY <1>1, <1>2, <1>6, <3>2, <4>1 DEF SavedOK, SavedAt, MoveEnds, OtherDrive
      <4> QED BY <4>1, <4>2 DEF SavedAt, OthersSame, Drives
    <3> QED BY <3>1, <3>2
  <2> QED BY <2>3, <2>4, <2>5, <2>6 DEF ConfigIInv
<1>7. ASSUME job = "save", TurnOff PROVE ConfigIInv'
  <2>1. MemoryOK' /\ configLoaded' = FALSE
    BY <1>7, UnloadMemory DEF TurnOff
  <2>2. JobOK'
    BY <1>7, <2>1 DEF JobOK, FilesOK, TurnOff, Drives, Creates
  <2>3. CleanIsStored'
    BY <2>1 DEF CleanIsStored
  <2>4. SavedOK'
    <3> SUFFICES ASSUME saved' # Null PROVE \E drive \in Drives : SavedAt(drive)'
      BY <1>4, <1>7, <2>1, <2>2 DEF SavedOK, TurnOff, JobOK, Creates
    <3>1. ok
      BY <1>3, <1>7 DEF AtRisk
    <3> QED BY <1>2, <1>3, <3>1 DEF SavedAt
  <2> QED BY <2>1, <2>2, <2>3, <2>4 DEF ConfigIInv
<1> QED BY <1>5, <1>6, <1>7 DEF EndWrite

\* Only the file that is written changes.
LEMMA FileChange ==
  ASSUME ConfigIInv, NEW text \in Text \union {NoFile},
         files' \in {files, [files EXCEPT ![filepath] = text]}
  PROVE  FilesOK' /\ OthersSame
BY DEF ConfigIInv, JobOK, FilesOK, OthersSame

\* Truncation, the data, and the directory entry: three steps of one write.
LEMMA CreateFileInv == ASSUME ConfigIInv, CreateFile PROVE ConfigIInv'
<1>1. Writing
  BY DEF CreateFile, ConfigIInv, JobOK, Writing
<1>2. FilesOK' /\ OthersSame
  <2>1. files' \in {files, [files EXCEPT ![filepath] = <<>>]}
    BY DEF CreateFile, Truncated
  <2> QED BY <2>1, FileChange, TextFacts
<1>3. CASE GoOn(IF TextToWrite = <<>> THEN "sync" ELSE "write")
  <2> DEFINE next == IF TextToWrite = <<>> THEN "sync" ELSE "write"
  <2>1. next \in {"write", "sync"} /\ GoOn(next)
    BY <1>3
  <2> HIDE DEF next
  <2> QED BY <1>1, <1>2, <2>1, GoOnInv
<1>4. CASE EndWrite(FALSE)
  BY <1>1, <1>2, <1>4, EndWriteInv
<1> QED BY <1>3, <1>4 DEF CreateFile

LEMMA WriteDataInv == ASSUME ConfigIInv, WriteData PROVE ConfigIInv'
<1>1. Writing /\ TextToWrite \in Text
  <2>1. Writing
    BY DEF WriteData, ConfigIInv, JobOK, Writing
  <2> QED BY <2>1, ToWrite DEF ConfigIInv
<1>2. FilesOK' /\ OthersSame
  <2>1. CASE files' = files
    BY <2>1, FileChange, TextFacts
  <2>2. ASSUME NEW n \in 0 .. Len(TextToWrite),
               files' = [files EXCEPT ![filepath] = SubSeq(TextToWrite, 1, n)]
        PROVE  FilesOK' /\ OthersSame
    <3>1. SubSeq(TextToWrite, 1, n) \in Text
      BY <1>1, LenProperties, ElementOfSeq, SubSeqProperties DEF Text
    <3> QED BY <2>2, <3>1, FileChange
  <2> QED BY <2>1, <2>2 DEF WriteData
<1>3. CASE GoOn("sync")
  BY <1>1, <1>2, <1>3, GoOnInv
<1>4. CASE EndWrite(FALSE)
  BY <1>1, <1>2, <1>4, EndWriteInv
<1> QED BY <1>3, <1>4 DEF WriteData

LEMMA SyncInv == ASSUME ConfigIInv, Sync PROVE ConfigIInv'
<1>1. Writing /\ TextToWrite \in Text
  <2>1. Writing
    BY DEF Sync, ConfigIInv, JobOK, Writing
  <2> QED BY <2>1, ToWrite DEF ConfigIInv
<1>2. FilesOK' /\ OthersSame
  <2>1. files' \in {files, [files EXCEPT ![filepath] = TextToWrite]}
    BY DEF Sync, Stored
  <2> QED BY <1>1, <2>1, FileChange
<1>3. CASE files' = Stored /\ EndWrite(TRUE)
  <2>1. files'[filepath] = TextToWrite
    BY <1>3 DEF Stored, ConfigIInv, JobOK
  <2> QED BY <1>1, <1>2, <1>3, <2>1, EndWriteInv
<1>4. CASE EndWrite(FALSE)
  BY <1>1, <1>2, <1>4, EndWriteInv
<1> QED BY <1>3, <1>4 DEF Sync

\* A move begins with the old file, which Unlink deletes or does not.
LEMMA MoveInv == ASSUME ConfigIInv, Move PROVE ConfigIInv'
<1>1. /\ job = "none" /\ configLoaded /\ job' = "move"
      /\ UNCHANGED <<filebuf, attributes, configLoaded, configDirty, refused>>
      /\ files' = files /\ saved' = saved
  BY DEF Move, Idle, memory, history
<1>2. JobOK /\ MemoryOK /\ SavedOK
  BY DEF ConfigIInv
<1>3. \/ filepath = "sd" /\ at' = "unlink" /\ filepath' = filepath
      \/ filepath = "nand" /\ at' = "create" /\ filepath' = "sd"
  BY <1>2 DEF Move, JobOK, Drives, Creates
<1>4. MemoryOK'
  BY <1>1, <1>2 DEF MemoryOK, State
<1>5. JobOK'
  BY <1>1, <1>2, <1>3 DEF JobOK, Drives, Creates
<1>6. CleanIsStored'
  BY <1>1 DEF CleanIsStored, Idle
<1>7. SavedOK'
  BY <1>1, <1>2, <1>3 DEF SavedOK, SavedAt, Creates
<1> QED BY <1>4, <1>5, <1>6, <1>7 DEF ConfigIInv

LEMMA UnlinkInv == ASSUME ConfigIInv, Unlink PROVE ConfigIInv'
<1>1. /\ UNCHANGED <<filebuf, attributes, configLoaded, configDirty, refused>>
      /\ filepath' = "nand" /\ at' = "create" /\ job' = job /\ saved' = saved
  BY DEF Unlink, memory, history
<1>2. JobOK /\ MemoryOK /\ SavedOK /\ job = "move" /\ filepath = "sd"
  BY DEF ConfigIInv, Unlink, JobOK, Creates
<1>3. FilesOK'
  <2>1. files' \in {files, [files EXCEPT ![filepath] = NoFile]}
    BY <1>2 DEF Unlink
  <2> QED BY <2>1, FileChange
<1>4. MemoryOK'
  BY <1>1, <1>2 DEF MemoryOK, State
<1>5. JobOK'
  BY <1>1, <1>2, <1>3 DEF JobOK, FilesOK, Drives, Creates
<1>6. CleanIsStored'
  BY <1>1, <1>2 DEF CleanIsStored, Idle
<1>7. SavedOK'
  BY <1>1, <1>2 DEF SavedOK, Creates
<1> QED BY <1>4, <1>5, <1>6, <1>7 DEF ConfigIInv

\* A reset loses what is in memory and nothing else.
LEMMA TurnOffInv ==
  ASSUME ConfigIInv, TurnOff, files' = files, saved' \in {Null, saved},
         saved' # Null => \E drive \in Drives : SavedAt(drive)
  PROVE  ConfigIInv'
<1>1. MemoryOK' /\ configLoaded' = FALSE
  BY UnloadMemory DEF TurnOff
<1>2. JobOK'
  BY <1>1 DEF ConfigIInv, JobOK, TurnOff, Drives, Creates
<1>3. CleanIsStored'
  BY <1>1 DEF CleanIsStored
<1>4. SavedOK'
  BY <1>1 DEF ConfigIInv, SavedOK, SavedAt, TurnOff, Creates
<1> QED BY <1>1, <1>2, <1>3, <1>4 DEF ConfigIInv

\* What the property says follows from where the text is.
LEMMA SavedSomewhere == ASSUME ConfigIInv PROVE SavedSurvives
<1>1. JobOK /\ SavedOK
  BY DEF ConfigIInv
<1> SUFFICES ASSUME saved # Null, ~AtRisk PROVE \E drive \in Drives : SavedAt(drive)
  BY DEF SavedSurvives, SavedAt
<1>2. CASE job \in {"off", "none"}
  BY <1>1, <1>2 DEF SavedOK, Creates
<1>3. CASE job \in Creates
  BY <1>1, <1>3 DEF SavedOK, JobOK, OtherDrive, Drives, Creates, AtRisk
<1>4. CASE job = "move"
  BY <1>1, <1>4 DEF SavedOK, JobOK, AtRisk, Drives, Creates
<1> QED BY <1>1, <1>2, <1>3, <1>4 DEF JobOK, AtRisk, Creates

\* Leaving the menu, with or without saving, and a loss of power.
LEMMA LeaveInv == ASSUME ConfigIInv, Leave PROVE ConfigIInv'
<1>1. JobOK /\ MemoryOK /\ SavedOK /\ job = "none" /\ files' = files /\ saved' = saved
  BY DEF Leave, Idle, ConfigIInv
<1>2. CASE ~configDirty
  <2>1. saved # Null => \E drive \in Drives : SavedAt(drive)
    BY <1>1 DEF SavedOK, Creates
  <2> QED BY <1>1, <1>2, <2>1, TurnOffInv DEF Leave
<1>3. CASE configDirty
  <2>1. /\ UNCHANGED <<filebuf, attributes, configLoaded, configDirty, refused, filepath>>
        /\ job' = "save" /\ at' = "create"
    BY <1>3 DEF Leave, memory
  <2>2. MemoryOK'
    BY <1>1, <2>1 DEF MemoryOK, State
  <2>3. JobOK'
    BY <1>1, <1>3, <2>1 DEF JobOK, MemoryOK, Creates
  <2>4. CleanIsStored' /\ SavedOK'
    BY <1>1, <2>1 DEF CleanIsStored, Idle, SavedOK, Creates
  <2> QED BY <2>2, <2>3, <2>4 DEF ConfigIInv
<1> QED BY <1>2, <1>3

LEMMA PowerLossInv == ASSUME ConfigIInv, PowerLoss PROVE ConfigIInv'
<1>1. TurnOff /\ files' = files /\ saved' = IF AtRisk THEN Null ELSE saved
  BY DEF PowerLoss
<1>2. saved' # Null => \E drive \in Drives : SavedAt(drive)
  BY <1>1, SavedSomewhere DEF SavedSurvives, SavedAt
<1> QED BY <1>1, <1>2, TurnOffInv

-----------------------------------------------------------------------------
(* Edits of the text.                                                      *)

\* An edit that keeps the pointers keeps the invariant.
LEMMA EditInv ==
  ASSUME ConfigIInv, MayEdit, NEW state, IsState(state), StatePoints(state), Edited(state),
         ~refused' => StateExact(state)
  PROVE  ConfigIInv'
<1>1. /\ filebuf' = state.text /\ attributes' = state.attributes /\ configDirty' = TRUE
      /\ UNCHANGED <<saved, configLoaded, filepath, files, job, at>>
  BY DEF Edited
<1>2. JobOK /\ SavedOK /\ configLoaded
  BY DEF ConfigIInv, MayEdit
<1>3. State' = state
  BY <1>1 DEF State, IsState
<1>4. filebuf' # Null
  BY <1>1, TextFacts DEF IsState
<1>5. MemoryOK'
  BY <1>1, <1>2, <1>3, <1>4 DEF MemoryOK
<1>6. JobOK'
  BY <1>1, <1>2 DEF JobOK, Creates
<1>7. CleanIsStored'
  BY <1>1 DEF CleanIsStored
<1>8. SavedOK'
  BY <1>1, <1>2 DEF SavedOK, SavedAt, OtherDrive, Creates
<1> QED BY <1>5, <1>6, <1>7, <1>8 DEF ConfigIInv

\* The three kinds of edits: a value set, a key deleted, a slot reset.
LEMMA SetKeyInv == ASSUME ConfigIInv, NEW key \in Keys, SetKey(key) PROVE ConfigIInv'
<1>1. PICK data \in DataOf[key] :
        /\ Accepts(key, data) /\ Edited(writeAttribute(State, key, data))
        /\ refused' = (refused \/ ~HasRoom(State, key, data))
  BY DEF SetKey
<1>2. MayEdit /\ IsState(State) /\ StatePoints(State) /\ (~refused => StateExact(State))
  BY DEF SetKey, MayEdit, ConfigIInv, MemoryOK
<1>3. Format(key, data) \in Value
  BY <1>1, ValueAssumption DEF Value
<1> DEFINE new == writeAttribute(State, key, data)
<1>4. /\ IsState(new) /\ StatePoints(new)
      /\ StateExact(State) /\ HasRoom(State, key, data) => StateExact(new)
  <2>1. new = writeAttribute(State, key, data)
    OBVIOUS
  <2> HIDE DEF new
  <2> QED BY <1>2, <1>3, <2>1, WritePoints
<1>5. Edited(new) /\ (~refused' => StateExact(new))
  BY <1>1, <1>2, <1>4
<1> HIDE DEF new
<1> QED BY <1>2, <1>4, <1>5, EditInv

LEMMA DeleteKeyInv == ASSUME ConfigIInv, NEW key \in Keys, DeleteKey(key) PROVE ConfigIInv'
<1>1. MayEdit /\ IsState(State) /\ StatePoints(State) /\ (~refused => StateExact(State))
  BY DEF DeleteKey, MayEdit, ConfigIInv, MemoryOK
<1> DEFINE new == Deleted(State, key)
<1>2. Edited(new) /\ refused' = refused
  BY DEF DeleteKey
<1>3. new = Deleted(State, key)
  OBVIOUS
<1> HIDE DEF new
<1>4. IsState(new) /\ StatePoints(new) /\ (StateExact(State) => StateExact(new))
  BY <1>1, <1>3, DeletePoints
<1> QED BY <1>1, <1>2, <1>4, EditInv

LEMMA ResetSlotInv ==
  ASSUME ConfigIInv, NEW key \in DOMAIN ButtonsOf, ResetSlot(key) PROVE ConfigIInv'
<1>1. key \in Keys /\ ButtonsOf[key] \in Keys
  BY ConfigAssumption DEF Keys
<1>2. MayEdit /\ IsState(State) /\ StatePoints(State) /\ (~refused => StateExact(State))
  BY DEF ResetSlot, MayEdit, ConfigIInv, MemoryOK
<1> DEFINE first == Deleted(State, ButtonsOf[key])
           new == Deleted(first, key)
<1>3. Edited(new) /\ refused' = refused
  BY DEF ResetSlot
<1>4. first = Deleted(State, ButtonsOf[key])
  OBVIOUS
<1> HIDE DEF first
<1>5. new = Deleted(first, key)
  OBVIOUS
<1> HIDE DEF new
<1>6. IsState(first) /\ StatePoints(first) /\ (StateExact(State) => StateExact(first))
  BY <1>1, <1>2, <1>4, DeletePoints
<1>7. IsState(new) /\ StatePoints(new) /\ (StateExact(first) => StateExact(new))
  BY <1>1, <1>5, <1>6, DeletePoints
<1> QED BY <1>2, <1>3, <1>6, <1>7, EditInv

-----------------------------------------------------------------------------
(* What the menus show and what the next start will load.                  *)

\* No line of a text begins with a number, in memory or in a file, and the
\* table is what parsing the text anew gives.
FilesLines == \A drive \in Drives : files[drive] # NoFile => NoNumbers(files[drive])
ReadIInv == /\ FilesLines
            /\ configLoaded => NoNumbers(filebuf)
            /\ configLoaded /\ ~refused => StateReads(State, twice)

\* It stays so when nothing is edited ...
LEMMA ReadSame ==
  ASSUME ReadIInv, FilesLines',
         \/ configLoaded' = FALSE
         \/ UNCHANGED <<filebuf, attributes, configLoaded, refused, twice>>
  PROVE  ReadIInv'
<1>1. CASE configLoaded' = FALSE
  BY <1>1 DEF ReadIInv
<1>2. CASE UNCHANGED <<filebuf, attributes, configLoaded, refused, twice>>
  <2>1. State' = State
    BY <1>2 DEF State
  <2>2. StateReads(State, twice)' <=> StateReads(State, twice)
    BY <1>2, <2>1
  <2> QED BY <1>2, <2>2 DEF ReadIInv
<1> QED BY <1>1, <1>2

\* ... when a text is written to a file ...
LEMMA FileLines ==
  ASSUME ReadIInv, NEW text, text = NoFile \/ NoNumbers(text),
         files' \in {files, [files EXCEPT ![filepath] = text]}, ConfigIInv
  PROVE  FilesLines'
<1>1. files \in [Drives -> Text \union {NoFile}] /\ FilesLines
  BY DEF ReadIInv, ConfigIInv, JobOK
<1> QED BY <1>1 DEF FilesLines

\* ... and when one is loaded.
LEMMA ReadFileReads ==
  ASSUME ReadIInv, ConfigIInv, NEW drive \in Drives, files[drive] # NoFile, ReadFile(drive)
  PROVE  ReadIInv'
<1>1. files' = files /\ FilesLines /\ files[drive] \in Text
  BY DEF ReadFile, ReadIInv, ConfigIInv, JobOK
<1>2. FilesLines'
  BY <1>1 DEF FilesLines
<1>3. CASE Unload
  BY <1>2, <1>3, ReadSame DEF Unload
<1>4. CASE /\ filebuf' = files[drive]
           /\ attributes' = parseConfigFile(files[drive])
           /\ twice' = DefinedTwice(files[drive])
  <2>1. State'.text = files[drive] /\ State'.attributes = parseConfigFile(files[drive])
    BY <1>4 DEF State
  <2>2. \A k \in Keys \ DefinedTwice(files[drive]) :
          ReadsAs(files[drive], k, parseConfigFile(files[drive])[k])
    BY <1>1, LoadReads
  <2>3. StateReads(State, twice)'
    BY <1>4, <2>1, <2>2 DEF StateReads
  <2>4. NoNumbers(filebuf)'
    BY <1>1, <1>4 DEF FilesLines
  <2> QED BY <1>2, <2>3, <2>4 DEF ReadIInv
<1> QED BY <1>3, <1>4 DEF ReadFile

\* An edit, from what it makes of the text and the table.
LEMMA EditReads ==
  ASSUME ReadIInv, NEW state, IsState(state), Edited(state), NoNumbers(state.text),
         ~refused' => StateReads(state, twice)
  PROVE  ReadIInv'
<1>1. UNCHANGED <<files, twice>> /\ State' = state /\ filebuf' = state.text
  BY DEF Edited, State, IsState
<1>2. FilesLines'
  BY <1>1 DEF ReadIInv, FilesLines
<1>3. ~refused' => StateReads(State, twice)'
  BY <1>1
<1>4. NoNumbers(filebuf)'
  BY <1>1
<1> QED BY <1>2, <1>3, <1>4 DEF ReadIInv

LEMMA SetKeyReads ==
  ASSUME ReadIInv, ConfigIInv, NEW key \in Keys, SetKey(key) PROVE ReadIInv'
<1>1. PICK data \in DataOf[key] :
        /\ Accepts(key, data) /\ Edited(writeAttribute(State, key, data))
        /\ refused' = (refused \/ ~HasRoom(State, key, data))
  BY DEF SetKey
<1>2. /\ IsState(State) /\ StatePoints(State) /\ (~refused => StateExact(State))
      /\ NoNumbers(State.text) /\ (~refused => StateReads(State, twice))
  BY DEF SetKey, MayEdit, ConfigIInv, MemoryOK, ReadIInv, State
<1>3. Format(key, data) \in Value
  BY <1>1, ValueAssumption DEF Value
<1> DEFINE new == writeAttribute(State, key, data)
<1>4. new = writeAttribute(State, key, data) /\ Edited(new)
  BY <1>1
<1> HIDE DEF new
<1>5. IsState(new) /\ NoNumbers(new.text)
  BY <1>2, <1>3, <1>4, WritePoints, WriteNumbers
<1>6. ASSUME ~refused' PROVE StateReads(new, twice)
  <2>1. ~refused /\ HasRoom(State, key, data)
    BY <1>1, <1>6
  <2> QED BY <1>1, <1>2, <1>4, <2>1, WriteReads
<1> QED BY <1>4, <1>5, <1>6, EditReads

LEMMA DeleteKeyReads ==
  ASSUME ReadIInv, ConfigIInv, NEW key \in Keys, DeleteKey(key) PROVE ReadIInv'
<1>1. /\ IsState(State) /\ StatePoints(State) /\ (~refused => StateExact(State))
      /\ NoNumbers(State.text) /\ (~refused => StateReads(State, twice))
  BY DEF DeleteKey, MayEdit, ConfigIInv, MemoryOK, ReadIInv, State
<1> DEFINE new == Deleted(State, key)
<1>2. new = Deleted(State, key) /\ Edited(new) /\ refused' = refused
  BY DEF DeleteKey
<1> HIDE DEF new
<1>3. IsState(new) /\ NoNumbers(new.text)
  BY <1>1, <1>2, DeletePoints, DeleteNumbers
<1>4. ~refused' => StateReads(new, twice)
  BY <1>1, <1>2, DeleteReads
<1> QED BY <1>2, <1>3, <1>4, EditReads

LEMMA ResetSlotReads ==
  ASSUME ReadIInv, ConfigIInv, NEW key \in DOMAIN ButtonsOf, ResetSlot(key) PROVE ReadIInv'
<1>1. key \in Keys /\ ButtonsOf[key] \in Keys
  BY ConfigAssumption DEF Keys
<1>2. /\ IsState(State) /\ StatePoints(State) /\ (~refused => StateExact(State))
      /\ NoNumbers(State.text) /\ (~refused => StateReads(State, twice))
  BY DEF ResetSlot, MayEdit, ConfigIInv, MemoryOK, ReadIInv, State
<1> DEFINE first == Deleted(State, ButtonsOf[key])
           new == Deleted(first, key)
<1>3. Edited(new) /\ refused' = refused /\ first = Deleted(State, ButtonsOf[key])
  BY DEF ResetSlot
<1> HIDE DEF first
<1>4. new = Deleted(first, key)
  OBVIOUS
<1> HIDE DEF new
<1>5. /\ IsState(first) /\ StatePoints(first) /\ (StateExact(State) => StateExact(first))
      /\ NoNumbers(first.text)
  BY <1>1, <1>2, <1>3, DeletePoints, DeleteNumbers
<1>6. ~refused => StateReads(first, twice) /\ StateExact(first)
  BY <1>1, <1>2, <1>3, <1>5, DeleteReads
<1>7. IsState(new) /\ NoNumbers(new.text)
  BY <1>1, <1>4, <1>5, DeletePoints, DeleteNumbers
<1>8. ~refused' => StateReads(new, twice)
  BY <1>1, <1>3, <1>4, <1>5, <1>6, DeleteReads
<1> QED BY <1>3, <1>7, <1>8, EditReads

\* The end of a job leaves the memory alone or clears it.
LEMMA EndWriteReads ==
  ASSUME ReadIInv, NEW ok, EndWrite(ok), FilesLines' PROVE ReadIInv'
<1>1. \/ configLoaded' = FALSE
      \/ UNCHANGED <<filebuf, attributes, configLoaded, refused, twice>>
  BY DEF EndWrite, TurnOff, Unload, memory
<1> QED BY <1>1, ReadSame

LEMMA GoOnReads ==
  ASSUME ReadIInv, NEW next, GoOn(next), FilesLines' PROVE ReadIInv'
BY ReadSame DEF GoOn, memory, history

LEMMA WritesReads ==
  ASSUME NumbersApart, ReadIInv, ConfigIInv, CreateFile \/ WriteData \/ Sync
  PROVE  ReadIInv'
<1>1. Writing /\ TextToWrite \in Text /\ NoNumbers(TextToWrite)
  <2>1. MemoryOK /\ JobOK /\ Writing
    BY DEF CreateFile, WriteData, Sync, ConfigIInv, JobOK, Writing
  <2>2. job \notin Creates => configLoaded
    BY <2>1 DEF JobOK, Writing, Creates
  <2>3. NoNumbers(TextToWrite)
    BY <2>2 DEF TextToWrite, ReadIInv, NumbersApart
  <2> QED BY <2>1, <2>3, ToWrite
<1>2. CASE CreateFile
  <2>1. NoNumbers(<<>>)
    BY DEF NoNumbers, LineStarts
  <2>2. files' \in {files, [files EXCEPT ![filepath] = <<>>]}
    BY <1>2 DEF CreateFile, Truncated
  <2>3. FilesLines'
    BY <2>1, <2>2, FileLines
  <2> QED BY <1>2, <2>3, EndWriteReads, GoOnReads DEF CreateFile
<1>3. CASE WriteData
  <2>1. FilesLines'
    <3>1. CASE files' = files
      BY <3>1, FileLines, <1>1
    <3>2. ASSUME NEW n \in 0 .. Len(TextToWrite),
                 files' = [files EXCEPT ![filepath] = SubSeq(TextToWrite, 1, n)]
          PROVE  FilesLines'
      BY <1>1, <3>2, NumbersBefore, FileLines
    <3> QED BY <1>3, <3>1, <3>2 DEF WriteData
  <2> QED BY <1>3, <2>1, EndWriteReads, GoOnReads DEF WriteData
<1>4. CASE Sync
  <2>1. files' \in {files, [files EXCEPT ![filepath] = TextToWrite]}
    BY <1>4 DEF Sync, Stored
  <2>2. FilesLines'
    BY <1>1, <2>1, FileLines
  <2> QED BY <1>4, <2>2, EndWriteReads DEF Sync
<1> QED BY <1>2, <1>3, <1>4

LEMMA ReadInit == ASSUME NumbersApart, Init PROVE ReadIInv
<1>1. FilesLines
  BY DEF Init, NumbersApart, FilesLines, Drives
<1> QED BY <1>1 DEF Init, ReadIInv

\* Every step keeps it.
LEMMA ReadStep ==
  ASSUME NumbersApart, ConfigIInv, ReadIInv, [Next]_vars PROVE ReadIInv'
<1>0. FilesLines /\ (files' = files => FilesLines')
  BY DEF ReadIInv, FilesLines
<1>1. CASE PowerOn
  <2>1. filepath' \in Drives
    BY <1>1 DEF PowerOn, LoadPath, Drives
  <2>4. \/ files[filepath'] # NoFile /\ ReadFile(filepath')
        \/ Unload /\ files' = files
    BY <1>1 DEF PowerOn
  <2>2. CASE files[filepath'] # NoFile /\ ReadFile(filepath')
    BY <2>1, <2>2, ReadFileReads
  <2>3. CASE Unload /\ files' = files
    BY <1>0, <2>3, ReadSame DEF Unload
  <2> QED BY <2>2, <2>3, <2>4
<1>2. CASE LoadCreated
  <2>1. filepath \in Drives /\ files[filepath] # NoFile
    BY <1>2 DEF LoadCreated, ConfigIInv, JobOK
  <2>2. CASE ReadFile(filepath)
    BY <2>1, <2>2, ReadFileReads
  <2>3. CASE Unload /\ files' = files
    BY <1>0, <2>3, ReadSame DEF Unload
  <2> QED BY <1>2, <2>2, <2>3 DEF LoadCreated
<1>3. CASE CreateFile \/ WriteData \/ Sync
  BY <1>3, WritesReads
<1>4. CASE Move \/ MoveCard \/ UNCHANGED vars
  BY <1>0, <1>4, ReadSame DEF Move, MoveCard, vars, memory, history
<1>5. CASE Unlink
  <2>1. filepath = "sd" /\ files' \in {files, [files EXCEPT ![filepath] = NoFile]}
    BY <1>5 DEF Unlink, ConfigIInv, JobOK
  <2>2. FilesLines'
    BY <2>1, FileLines
  <2> QED BY <1>5, <2>2, ReadSame DEF Unlink, memory, history
<1>6. CASE Leave
  <2>1. \/ configLoaded' = FALSE
        \/ UNCHANGED <<filebuf, attributes, configLoaded, refused, twice>>
    BY <1>6 DEF Leave, TurnOff, Unload, memory
  <2> QED BY <1>0, <1>6, <2>1, ReadSame DEF Leave
<1>7. CASE PowerLoss
  BY <1>0, <1>7, ReadSame DEF PowerLoss, TurnOff, Unload
<1>8. ASSUME NEW key \in Keys, SetKey(key) PROVE ReadIInv'
  BY <1>8, SetKeyReads
<1>9. ASSUME NEW key \in Keys, DeleteKey(key) PROVE ReadIInv'
  BY <1>9, DeleteKeyReads
<1>10. ASSUME NEW key \in DOMAIN ButtonsOf, ResetSlot(key) PROVE ReadIInv'
  BY <1>10, ResetSlotReads
<1> QED BY <1>1, <1>2, <1>3, <1>4, <1>5, <1>6, <1>7, <1>8, <1>9, <1>10 DEF Next

-----------------------------------------------------------------------------
(* The theorems.                                                           *)

\* Stuttering.
LEMMA SameInv ==
  ASSUME ConfigIInv, UNCHANGED <<filebuf, attributes, configLoaded, configDirty, refused,
                                 filepath, files, job, at, saved>>
  PROVE  ConfigIInv'
<1>1. MemoryOK'
  BY DEF ConfigIInv, MemoryOK, State
<1>2. JobOK'
  BY DEF ConfigIInv, JobOK
<1>3. CleanIsStored' /\ SavedOK'
  BY DEF ConfigIInv, CleanIsStored, Idle, SavedOK, SavedAt, OtherDrive
<1> QED BY <1>1, <1>2, <1>3 DEF ConfigIInv

\* Every step keeps the invariant.
LEMMA ConfigStep == ConfigIInv /\ [Next]_vars => ConfigIInv'
<1> SUFFICES ASSUME ConfigIInv, [Next]_vars PROVE ConfigIInv'
  OBVIOUS
<1>1. CASE PowerOn
  BY <1>1, PowerOnInv
<1>2. CASE LoadCreated
  BY <1>2, LoadCreatedInv
<1>3. CASE CreateFile
  BY <1>3, CreateFileInv
<1>4. CASE WriteData
  BY <1>4, WriteDataInv
<1>5. CASE Sync
  BY <1>5, SyncInv
<1>6. CASE Move
  BY <1>6, MoveInv
<1>7. CASE Unlink
  BY <1>7, UnlinkInv
<1>8. CASE Leave
  BY <1>8, LeaveInv
<1>9. ASSUME NEW key \in Keys, SetKey(key) PROVE ConfigIInv'
  BY <1>9, SetKeyInv
<1>10. ASSUME NEW key \in Keys, DeleteKey(key) PROVE ConfigIInv'
  BY <1>10, DeleteKeyInv
<1>11. ASSUME NEW key \in DOMAIN ButtonsOf, ResetSlot(key) PROVE ConfigIInv'
  BY <1>11, ResetSlotInv
<1>12. CASE PowerLoss
  BY <1>12, PowerLossInv
<1>13. CASE MoveCard
  BY <1>13, SameInv DEF MoveCard, memory, history
<1>14. CASE UNCHANGED vars
  BY <1>14, SameInv DEF vars, memory, history
<1> QED BY <1>1, <1>2, <1>3, <1>4, <1>5, <1>6, <1>7, <1>8, <1>9, <1>10, <1>11, <1>12,
           <1>13, <1>14 DEF Next

LEMMA ConfigCorrect == Spec => []ConfigIInv
BY InitInv, ConfigStep, PTL DEF Spec

\* In every reachable state, however often keys were set and deleted, the text
\* fits its buffer, and every pointer that the edits have shifted points at
\* the value of a definition of its key, whose length it has unless a write
\* found no room (config.c, writeUpdateDefinitionText and its callers).
THEOREM ConfigInvHolds == Spec => []ConfigInv
<1>1. ConfigIInv => ConfigInv
  <2> SUFFICES ASSUME ConfigIInv PROVE ConfigInv
    OBVIOUS
  <2>1. MemoryOK /\ JobOK
    BY DEF ConfigIInv
  <2>2. DOMAIN attributes = Keys
        /\ \A key \in Keys : attributes[key].textData \in Nat
                          /\ attributes[key].textLength \in Nat
    <3>1. CASE configLoaded
      BY <2>1, <3>1 DEF MemoryOK, IsState, StatePoints, Points, IsAttribute, State
    <3>2. CASE ~configLoaded
      BY <2>1, <3>2 DEF MemoryOK, NoAttribute
    <3> QED BY <3>1, <3>2
  <2>3. configLoaded => Len(filebuf) <= MaxFileSize
    BY <2>1 DEF MemoryOK, IsState, State
  <2>4. ConfigTypeOK
    BY <2>1, <2>2, <2>3 DEF ConfigTypeOK, MemoryOK, JobOK
  <2>5. AttributesPoint
    BY <2>1 DEF MemoryOK, StatePoints, StateExact, Points, Exact, State, AttributesPoint
  <2> QED BY <2>4, <2>5 DEF ConfigInv
<1> QED BY <1>1, ConfigCorrect, PTL

\* A configuration without unsaved changes is in the file it came from,
\* whatever failed while it was moved or written (config.c, writeConfigFile
\* and configDirty).
THEOREM CleanIsStoredHolds == Spec => []CleanIsStored
<1>1. ConfigIInv => CleanIsStored
  BY DEF ConfigIInv
<1> QED BY <1>1, ConfigCorrect, PTL

\* The text that was last loaded or stored is in one of the two files at every
\* time but while its only copy is rewritten, moved off the SD card or replaced
\* at a start that could not look at it (config.c, loadConfigFile, moveConfigFile
\* and writeConfigFile).
THEOREM SavedSurvivesHolds == Spec => []SavedSurvives
<1>1. ConfigIInv => SavedSurvives
  BY SavedSomewhere
<1> QED BY <1>1, ConfigCorrect, PTL

\* What parsing the text anew would give is what the table holds, however often
\* keys were set and deleted, but for keys that the loaded text defines twice
\* and after a write that found no room (config.c, the write functions and
\* parseConfigFile).  The texts on the drives have no line that begins with a
\* number: atoi would take it for the value of an empty key in front of it.
THEOREM RoundTripHolds == NumbersApart => (Spec => []RoundTrip)
<1> SUFFICES ASSUME NumbersApart PROVE Spec => []RoundTrip
  OBVIOUS
<1>1. Init => ReadIInv
  BY ReadInit
<1>2. ConfigIInv /\ ReadIInv /\ [Next]_vars => ReadIInv'
  BY ReadStep
<1>3. ConfigIInv /\ ReadIInv => RoundTrip
  <2> SUFFICES ASSUME ConfigIInv, ReadIInv, configLoaded, ~refused, NEW key \in Keys \ twice
               PROVE  attributes[key] = parseConfigFile(filebuf)[key]
    BY DEF RoundTrip
  <2>1. IsAttribute(attributes[key]) /\ Exact(filebuf, attributes[key])
    BY DEF ConfigIInv, MemoryOK, State, StatePoints, StateExact, Points
  <2>2. ReadsAs(filebuf, key, attributes[key])
    BY DEF ReadIInv, StateReads, State
  <2> QED BY <2>1, <2>2, ReadIs
<1> QED BY <1>1, <1>2, <1>3, ConfigCorrect, PTL DEF Spec

=============================================================================
