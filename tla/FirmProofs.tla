----------------------------- MODULE FirmProofs -----------------------------
(***************************************************************************)
(* Proofs about Firm, for any images, any sizes of a partition and of the  *)
(* writer's blocks, and any number of updates and installations.           *)
(***************************************************************************)
EXTENDS Firm, FiniteSetTheorems, WellFoundedInduction, TLAPS

LEMMA Sizes == /\ MaxSize \in Nat /\ MaxSize > Header /\ Header = 2
               /\ BlkSize \in Nat /\ BlkSize % 2 = 0 /\ BlkSize > 0 /\ MaxJobs \in Nat
BY SizesAssumption DEF Header

-----------------------------------------------------------------------------
(* Sections.                                                               *)

\* Max finds the greatest of numbers that have a bound.
LEMMA MaxIsGreatest ==
  ASSUME NEW T \in SUBSET Nat, T # {}, NEW n \in Nat, \A x \in T : x <= n
  PROVE  Max(T) \in T /\ \A y \in T : y <= Max(T)
<1> DEFINE B == {b \in Nat : \A x \in T : x <= b}
<1>1. \E b \in B : \A c \in B : ~(<<c, b>> \in OpToRel(<, Nat))
  <2>1. B \subseteq Nat /\ n \in B
    OBVIOUS
  <2> HIDE DEF B
  <2> QED BY <2>1, NatLessThanWellFounded, WFMin
<1>2. PICK b \in B : \A c \in B : ~(<<c, b>> \in OpToRel(<, Nat))
  BY <1>1
<1>3. \A c \in B : b <= c
  <2> TAKE c \in B
  <2>1. ~(c < b)
    BY <1>2 DEF OpToRel
  <2> QED BY <2>1
<1>4. b \in T
  <2> SUFFICES ASSUME b \notin T PROVE FALSE
    OBVIOUS
  <2>1. \A x \in T : x <= b - 1 /\ b - 1 \in Nat
    OBVIOUS
  <2>2. b - 1 \in B
    BY <2>1
  <2> QED BY <1>3, <2>2
<1>5. \A y \in T : b >= y
  OBVIOUS
<1> QED BY <1>4, <1>5 DEF Max

Typed(secs) == /\ DOMAIN secs \subseteq Nat
               /\ \A i \in DOMAIN secs : secs[i] \in firm_sectionheader
Bounded(secs, n) == \A i \in DOMAIN secs : Present(secs[i]) => End(secs[i]) <= n
Apart(secs) ==
  \A i, j \in DOMAIN secs : i # j => Pieces(secs[i]) \cap Pieces(secs[j]) = {}
Behind(secs) == \A i \in DOMAIN secs : Present(secs[i]) => secs[i].offset >= Header
Even(secs) == \A i \in DOMAIN secs : secs[i].offset % 2 = 0 /\ secs[i].size % 2 = 0

\* The ends of sections are numbers.
LEMMA EndType ==
  ASSUME NEW secs, Typed(secs), NEW i \in DOMAIN secs
  PROVE  /\ i \in Nat /\ secs[i].offset \in Nat /\ secs[i].size \in Nat
         /\ End(secs[i]) \in Nat /\ End(secs[i]) = secs[i].offset + secs[i].size
         /\ Present(secs[i]) => secs[i].offset < End(secs[i])
BY DEF Typed, firm_sectionheader, End, Present

\* What firm_size computes: nothing, or the end of the last section it counts.
LEMMA FirmSize ==
  ASSUME NEW secs, Typed(secs), firm_size(secs) # 0
  PROVE  /\ firm_size(secs) \in Header .. MaxSize
         /\ \A i \in Counted(secs) : End(secs[i]) <= firm_size(secs)
         /\ \/ firm_size(secs) = Header
            \/ \E i \in Counted(secs) : firm_size(secs) = End(secs[i])
<1> DEFINE T == {Header} \cup {End(secs[i]) : i \in Counted(secs)}
<1>1. \A i \in Counted(secs) : End(secs[i]) <= MaxSize
  BY DEF firm_size
<1>2. firm_size(secs) = Max(T)
  BY DEF firm_size
<1>3. \A i \in Counted(secs) : End(secs[i]) \in Nat
  BY EndType DEF Counted
<1>4. /\ T \in SUBSET Nat /\ T # {} /\ \A x \in T : x <= MaxSize /\ x \in Nat
      /\ Header \in T /\ \A i \in Counted(secs) : End(secs[i]) \in T
  BY <1>1, <1>3, Sizes
<1>5. \A x \in T : x = Header \/ \E i \in Counted(secs) : x = End(secs[i])
  OBVIOUS
<1> HIDE DEF T
<1>6. Max(T) \in T /\ \A y \in T : y <= Max(T)
  BY <1>4, Sizes, MaxIsGreatest
<1>7. Header <= Max(T) /\ Max(T) <= MaxSize /\ Max(T) \in Nat
  BY <1>4, <1>6
<1>8. firm_size(secs) \in Header .. MaxSize
  BY <1>2, <1>7, Sizes
<1>9. \A i \in Counted(secs) : End(secs[i]) <= firm_size(secs)
  BY <1>2, <1>4, <1>6
<1>10. firm_size(secs) = Header \/ \E i \in Counted(secs) : firm_size(secs) = End(secs[i])
  BY <1>2, <1>5, <1>6
<1> QED BY <1>8, <1>9, <1>10

LEMMA FirmSizeType ==
  ASSUME NEW secs, Typed(secs)
  PROVE  firm_size(secs) \in 0 .. MaxSize
<1>1. CASE firm_size(secs) = 0
  BY <1>1, Sizes
<1>2. CASE firm_size(secs) # 0
  BY <1>2, FirmSize, Sizes
<1> QED BY <1>1, <1>2

\* It is not behind the end of all sections.
LEMMA FirmSizeWithin ==
  ASSUME NEW secs, Typed(secs), NEW n \in Nat, Header <= n, Bounded(secs, n)
  PROVE  firm_size(secs) <= n
<1>1. CASE firm_size(secs) = 0
  BY <1>1
<1>2. CASE firm_size(secs) # 0
  <2>1. \A i \in Counted(secs) : End(secs[i]) <= n
    BY DEF Counted, Bounded
  <2> QED BY <1>2, <2>1, FirmSize
<1> QED BY <1>1, <1>2

\* It is not before the end of any section, when no two overlap: the walk from
\* the last skips only what lies before a section it has counted.
LEMMA FirmSizeCovers ==
  ASSUME NEW secs, Typed(secs), Apart(secs), Behind(secs), firm_size(secs) # 0,
         NEW n \in Nat, Bounded(secs, n), NEW i \in DOMAIN secs, Present(secs[i])
  PROVE  End(secs[i]) <= firm_size(secs)
<1> DEFINE O == {secs[j].offset : j \in {k \in DOMAIN secs : Present(secs[k])}}
<1>1. /\ \A j \in DOMAIN secs : Present(secs[j]) => secs[j].offset \in O
      /\ \A x \in O : \E j \in DOMAIN secs : Present(secs[j]) /\ x = secs[j].offset
  OBVIOUS
<1>2. \A x \in O : x \in Nat /\ x <= n
  <2> SUFFICES ASSUME NEW j \in DOMAIN secs, Present(secs[j])
               PROVE  secs[j].offset \in Nat /\ secs[j].offset <= n
    BY <1>1
  <2>1. End(secs[j]) <= n
    BY DEF Bounded
  <2> QED BY <2>1, EndType
<1> HIDE DEF O
<1>3. Max(O) \in O /\ \A y \in O : y <= Max(O)
  BY <1>1, <1>2, MaxIsGreatest
<1>4. PICK m \in DOMAIN secs : Present(secs[m]) /\ Max(O) = secs[m].offset
  BY <1>1, <1>3
<1>5. ASSUME NEW j \in DOMAIN secs, Present(secs[j]), j # m
      PROVE  End(secs[j]) <= secs[m].offset /\ secs[j].offset < secs[m].offset
  <2>1. secs[j].offset <= secs[m].offset
    BY <1>1, <1>3, <1>4, <1>5
  <2>2. /\ secs[m].offset \in Nat /\ secs[m].offset < End(secs[m]) /\ End(secs[m]) \in Nat
        /\ secs[j].offset \in Nat /\ secs[j].offset < End(secs[j]) /\ End(secs[j]) \in Nat
    BY <1>4, <1>5, EndType
  <2>3. secs[m].offset \in Pieces(secs[m])
    BY <2>2 DEF Pieces
  <2>4. secs[m].offset \notin Pieces(secs[j])
    BY <1>5, <2>3 DEF Apart
  <2>5. End(secs[j]) <= secs[m].offset
    BY <2>1, <2>2, <2>4 DEF Pieces
  <2> QED BY <2>2, <2>5
<1>6. m \in Counted(secs)
  <2>1. secs[m].offset > 0
    BY <1>4, EndType, Sizes DEF Behind
  <2>2. \A j \in DOMAIN secs : j > m /\ Present(secs[j]) => secs[j].offset < secs[m].offset
    <3> TAKE j \in DOMAIN secs
    <3>1. j \in Nat /\ m \in Nat
      BY EndType
    <3>2. j > m => j # m
      BY <3>1
    <3> QED BY <1>5, <3>2
  <2> QED BY <1>4, <2>1, <2>2 DEF Counted
<1>7. End(secs[m]) <= firm_size(secs)
  BY <1>6, FirmSize
<1>8. CASE i = m
  BY <1>7, <1>8
<1>9. CASE i # m
  <2>1. End(secs[i]) <= secs[m].offset
    BY <1>5, <1>9
  <2>2. /\ secs[m].offset \in Nat /\ secs[m].offset < End(secs[m]) /\ End(secs[m]) \in Nat
        /\ End(secs[i]) \in Nat
    BY <1>4, EndType
  <2>3. firm_size(secs) \in Nat
    BY FirmSizeType, Sizes
  <2> QED BY <1>7, <2>1, <2>2, <2>3
<1> QED BY <1>8, <1>9

\* Sections of whole sectors make it whole sectors.
LEMMA FirmSizeEven ==
  ASSUME NEW secs, Typed(secs), Even(secs)
  PROVE  firm_size(secs) % 2 = 0
<1>1. CASE firm_size(secs) = 0 \/ firm_size(secs) = Header
  BY <1>1, Sizes
<1>2. CASE firm_size(secs) # 0 /\ firm_size(secs) # Header
  <2>1. PICK i \in Counted(secs) : firm_size(secs) = End(secs[i])
    BY <1>2, FirmSize
  <2>2. i \in DOMAIN secs
    BY DEF Counted
  <2>3. /\ secs[i].offset \in Nat /\ secs[i].size \in Nat
        /\ secs[i].offset % 2 = 0 /\ secs[i].size % 2 = 0
        /\ firm_size(secs) = secs[i].offset + secs[i].size
    BY <2>1, <2>2, EndType DEF Even
  <2> QED BY <2>3
<1> QED BY <1>1, <1>2

-----------------------------------------------------------------------------
(* Images.                                                                 *)

LEMMA ImageType ==
  ASSUME NEW f \in Names
  PROVE  /\ f # NoImage /\ VERS[f] \in Nat /\ Version(f) = VERS[f]
         /\ Images[f].size \in Nat /\ Images[f].signed \in BOOLEAN
         /\ Images[f].intact \in BOOLEAN /\ Images[f].entry9 \in BOOLEAN
BY ImagesAssumption DEF Version

LEMMA SectionsTyped ==
  ASSUME NEW f \in Names, NEW hax
  PROVE  Typed(Images[f].sections) /\ Typed(Sections(f, hax))
<1> DEFINE s == Images[f].sections
<1>1. s \in Seq(firm_sectionheader)
  BY ImagesAssumption
<1>2. DOMAIN s \subseteq Nat /\ \A i \in DOMAIN s : s[i] \in firm_sectionheader
  BY <1>1
<1>3. \A x \in firm_sectionheader : [x EXCEPT !.size = 0] \in firm_sectionheader
  BY DEF firm_sectionheader
<1> HIDE DEF s
<1>4. Typed(s)
  BY <1>2 DEF Typed
<1>5. Typed(Sections(f, hax))
  BY <1>2, <1>3 DEF Typed, Sections, s
<1> QED BY <1>4, <1>5 DEF s

\* Leaving superhax out moves no section.
LEMMA SectionsOf ==
  ASSUME NEW f \in Names, NEW hax, NEW i \in DOMAIN Sections(f, hax)
  PROVE  /\ DOMAIN Sections(f, hax) = DOMAIN Images[f].sections
         /\ Sections(f, hax)[i].offset = Images[f].sections[i].offset
         /\ Sections(f, hax)[i].address = Images[f].sections[i].address
         /\ Sections(f, hax)[i].size \in {0, Images[f].sections[i].size}
         /\ hax \/ i # 2 => Sections(f, hax)[i] = Images[f].sections[i]
         /\ Pieces(Sections(f, hax)[i]) \subseteq Pieces(Images[f].sections[i])
<1>1. DOMAIN Sections(f, hax) = DOMAIN Images[f].sections
  BY DEF Sections
<1> DEFINE s == Images[f].sections[i]
<1>2. s \in firm_sectionheader
  BY <1>1, SectionsTyped DEF Typed
<1>3. Sections(f, hax)[i] \in {s, [s EXCEPT !.size = 0]}
  BY <1>1 DEF Sections
<1>4. hax \/ i # 2 => Sections(f, hax)[i] = s
  BY <1>1 DEF Sections
<1> HIDE DEF s
<1>5. /\ Sections(f, hax)[i].offset = s.offset
      /\ Sections(f, hax)[i].address = s.address
      /\ Sections(f, hax)[i].size \in {0, s.size}
  BY <1>2, <1>3 DEF firm_sectionheader
<1>6. Pieces(Sections(f, hax)[i]) \subseteq Pieces(s)
  BY <1>2, <1>5 DEF firm_sectionheader, Pieces, End
<1> QED BY <1>1, <1>4, <1>5, <1>6 DEF s

\* A header is that of the image both of whose halves are there.
LEMMA HeaderOf ==
  ASSUME NEW mem, NEW base
  PROVE  /\ HeaderAt(mem, base) \in Names \cup {NoImage}
         /\ \A f \in Names : mem[base] = Piece(f, 0) /\ mem[base + 1] = Piece(f, 1)
                          => HeaderAt(mem, base) = f
         /\ HeaderAt(mem, base) # NoImage =>
              mem[base] = Piece(HeaderAt(mem, base), 0) /\ mem[base + 1] = Piece(HeaderAt(mem, base), 1)
BY DEF HeaderAt, Piece

\* What loadVerifyFirm finds out about an image, without superhax.
Verified(f) ==
  LET secs == Sections(f, FALSE)
  IN /\ Images[f].entry9 /\ Behind(secs) /\ Bounded(secs, MaxSize)
     /\ \A i \in DOMAIN secs : Present(secs[i]) => Images[f].intact
Length(f) == firm_size(Sections(f, FALSE))

LEMMA LengthType ==
  ASSUME NEW f \in Names, Verified(f)
  PROVE  Length(f) \in Header .. MaxSize
<1> DEFINE secs == Sections(f, FALSE)
<1>1. Typed(secs) /\ Bounded(secs, MaxSize)
  BY SectionsTyped DEF Verified
<1> HIDE DEF secs
<1>2. \A i \in Counted(secs) : secs[i].offset < MaxSize /\ End(secs[i]) <= MaxSize
  <2> TAKE i \in Counted(secs)
  <2>1. i \in DOMAIN secs /\ Present(secs[i])
    BY DEF Counted
  <2>2. End(secs[i]) <= MaxSize /\ secs[i].offset < End(secs[i]) /\ secs[i].offset \in Nat
        /\ End(secs[i]) \in Nat
    BY <1>1, <2>1, EndType DEF Bounded
  <2> QED BY <2>2, Sizes
<1> DEFINE T == {Header} \cup {End(secs[i]) : i \in Counted(secs)}
<1>3. firm_size(secs) = Max(T)
  BY <1>2 DEF firm_size
<1>4. \A i \in Counted(secs) : End(secs[i]) \in Nat
  BY <1>1, EndType DEF Counted
<1>5. T \in SUBSET Nat /\ Header \in T /\ \A x \in T : x <= MaxSize
  BY <1>2, <1>4, Sizes
<1> HIDE DEF T
<1>6. Max(T) \in T /\ \A y \in T : y <= Max(T)
  BY <1>5, Sizes, MaxIsGreatest
<1>7. Max(T) \in Nat /\ Max(T) <= MaxSize /\ Header <= Max(T)
  BY <1>5, <1>6
<1>8. firm_size(secs) \in Header .. MaxSize
  BY <1>3, <1>7, Sizes
<1> QED BY <1>8 DEF Length, secs

\* A regular image has regular sections, with superhax and without.
LEMMA RegularSections ==
  ASSUME NEW f \in Names, Regular(f), NEW hax
  PROVE  /\ Apart(Sections(f, hax)) /\ Even(Sections(f, hax))
         /\ \A i \in DOMAIN Sections(f, hax) : Sections(f, hax)[i].address \in InstallWhitelist
<1> DEFINE secs == Sections(f, hax)
           s == Images[f].sections
<1>1. DOMAIN secs = DOMAIN s
  BY DEF Sections
<1>2. \A i \in DOMAIN s : /\ s[i].offset % 2 = 0 /\ s[i].size % 2 = 0
                         /\ s[i].address \in InstallWhitelist
                         /\ \A j \in DOMAIN s \ {i} : Pieces(s[i]) \cap Pieces(s[j]) = {}
  BY DEF Regular
<1>3. \A i \in DOMAIN secs : /\ secs[i].offset = s[i].offset /\ secs[i].address = s[i].address
                            /\ secs[i].size \in {0, s[i].size}
                            /\ Pieces(secs[i]) \subseteq Pieces(s[i])
  BY SectionsOf
<1> HIDE DEF secs, s
<1>4. Apart(secs)
  <2> SUFFICES ASSUME NEW i \in DOMAIN secs, NEW j \in DOMAIN secs, i # j
               PROVE  Pieces(secs[i]) \cap Pieces(secs[j]) = {}
    BY DEF Apart
  <2>1. Pieces(s[i]) \cap Pieces(s[j]) = {}
    BY <1>1, <1>2
  <2> QED BY <1>3, <2>1
<1>5. Even(secs)
  BY <1>1, <1>2, <1>3 DEF Even
<1>6. \A i \in DOMAIN secs : secs[i].address \in InstallWhitelist
  BY <1>1, <1>2, <1>3
<1> QED BY <1>4, <1>5, <1>6 DEF secs

-----------------------------------------------------------------------------
(* Partitions.                                                             *)

\* The header of an image and the sections that are there without superhax.
Checked(f) ==
  {u \in Nat : \/ u < Header
               \/ \E i \in DOMAIN Sections(f, FALSE) :
                    Present(Sections(f, FALSE)[i]) /\ u \in Pieces(Sections(f, FALSE)[i])}

\* A partition holds as much of an image as firm_size says of it, or carries of
\* that much what is checked.
Holds(n, p, f) ==
  /\ f \in Names /\ Verified(f)
  /\ \A u \in 0 .. Length(f) - 1 : n[Base(p) + u] = Piece(f, u)
Carries(n, p, f) ==
  /\ f \in Names /\ Verified(f)
  /\ \A u \in Checked(f) : u < Length(f) => n[Base(p) + u] = Piece(f, u)

LEMMA HoldsCarries ==
  ASSUME NEW n, NEW p, NEW f, Holds(n, p, f)
  PROVE  Carries(n, p, f)
<1>1. Length(f) \in Nat
  BY LengthType, Sizes DEF Holds
<1>2. \A u \in Checked(f) : u < Length(f) => u \in 0 .. Length(f) - 1
  BY <1>1 DEF Checked
<1> QED BY <1>2 DEF Holds, Carries

LEMMA BaseType ==
  ASSUME NEW p \in Parts
  PROVE  Base(p) \in Nat /\ Base(p) \in {0, MaxSize} /\ (p = "firm0") = (Base(p) = 0)
BY Sizes DEF Base, Parts, Header

LEMMA CarriesHeader ==
  ASSUME NEW n, NEW p \in Parts, NEW f, Carries(n, p, f)
  PROVE  HeaderAt(n, Base(p)) = f
<1>1. f \in Names /\ Length(f) \in Nat /\ Length(f) >= 2
  BY LengthType, Sizes DEF Carries
<1>2. 0 \in Checked(f) /\ 1 \in Checked(f)
  BY Sizes DEF Checked
<1>3. n[Base(p) + 0] = Piece(f, 0) /\ n[Base(p) + 1] = Piece(f, 1)
  BY <1>1, <1>2 DEF Carries
<1>4. Base(p) + 0 = Base(p)
  BY BaseType
<1> QED BY <1>1, <1>3, <1>4, HeaderOf

\* All sections without superhax lie in what a partition holds of the image.
LEMMA CoveredSections ==
  ASSUME NEW f \in Names, Verified(f), Regular(f), NEW i \in DOMAIN Sections(f, FALSE),
         Present(Sections(f, FALSE)[i])
  PROVE  End(Sections(f, FALSE)[i]) <= Length(f)
<1> DEFINE secs == Sections(f, FALSE)
<1>1. /\ Typed(secs) /\ Apart(secs) /\ Behind(secs) /\ Bounded(secs, MaxSize)
      /\ i \in DOMAIN secs /\ Present(secs[i])
  BY SectionsTyped, RegularSections DEF Verified
<1>2. firm_size(secs) # 0
  <2>1. Length(f) # 0
    BY LengthType, Sizes
  <2> QED BY <2>1 DEF Length
<1> HIDE DEF secs
<1>3. End(secs[i]) <= firm_size(secs)
  BY <1>1, <1>2, Sizes, FirmSizeCovers
<1> QED BY <1>3 DEF secs, Length

\* Pieces of a section that ends in what the partition holds are there.
LEMMA PiecesHeld ==
  ASSUME NEW n, NEW p \in Parts, NEW f, Holds(n, p, f), NEW s \in firm_sectionheader,
         End(s) <= Length(f)
  PROVE  \A u \in Pieces(s) : n[Base(p) + u] = Piece(f, u)
<1>1. Length(f) \in Nat
  BY LengthType, Sizes DEF Holds
<1>2. Pieces(s) \subseteq 0 .. Length(f) - 1
  BY <1>1 DEF Pieces, End, firm_sectionheader
<1> QED BY <1>2 DEF Holds

\* A partition that carries a regular image starts.
LEMMA CarriesBoots ==
  ASSUME NEW n, NEW p \in Parts, NEW f, Carries(n, p, f), Regular(f), NEW hax, hax[p] = FALSE
  PROVE  Whole(n, hax, p) /\ HeaderAt(n, Base(p)) = f
<1>1. HeaderAt(n, Base(p)) = f /\ f \in Names /\ f # NoImage /\ Verified(f)
  BY CarriesHeader, ImageType DEF Carries
<1> DEFINE secs == Sections(f, FALSE)
<1>2. ASSUME NEW i \in DOMAIN secs, Present(secs[i])
      PROVE  /\ secs[i].address \in InstallWhitelist /\ End(secs[i]) <= MaxSize
             /\ Images[f].intact
             /\ \A u \in Pieces(secs[i]) : n[Base(p) + u] = Piece(f, u)
  <2>1. secs[i].address \in InstallWhitelist
    BY <1>1, <1>2, RegularSections
  <2>2. End(secs[i]) <= MaxSize /\ Images[f].intact
    BY <1>1, <1>2 DEF Verified, Bounded
  <2>3. secs[i] \in firm_sectionheader /\ End(secs[i]) <= Length(f) /\ Length(f) \in Nat
    <3>1. secs[i] \in firm_sectionheader /\ End(secs[i]) <= Length(f)
      BY <1>1, <1>2, SectionsTyped, CoveredSections DEF Typed
    <3>2. Length(f) \in Nat
      BY <1>1, LengthType, Sizes
    <3> QED BY <3>1, <3>2
  <2> HIDE DEF secs
  <2>4. ASSUME NEW u \in Pieces(secs[i]) PROVE n[Base(p) + u] = Piece(f, u)
    <3>1. u \in Nat /\ u < End(secs[i]) /\ End(secs[i]) \in Nat
      BY <2>3 DEF Pieces, End, firm_sectionheader
    <3>2. u \in Checked(f)
      BY <1>2, <2>4, <3>1 DEF Checked, secs
    <3>3. u < Length(f)
      BY <2>3, <3>1
    <3> QED BY <3>2, <3>3 DEF Carries
  <2> QED BY <2>1, <2>2, <2>4
<1> HIDE DEF secs
<1>3. Images[f].entry9 /\ secs = Sections(f, hax[p])
  BY <1>1 DEF Verified, secs
<1>4. Whole(n, hax, p)
  BY <1>1, <1>2, <1>3 DEF Whole
<1> QED BY <1>1, <1>4

\* Without superhax there is less to be whole.
LEMMA WholeLess ==
  ASSUME NEW n, NEW p \in Parts, NEW h1, NEW h2, h1[p] \in BOOLEAN, h2[p] \in BOOLEAN,
         h1[p] => h2[p], Whole(n, h2, p)
  PROVE  Whole(n, h1, p)
<1> DEFINE f == HeaderAt(n, Base(p))
<1>1. f # NoImage /\ f \in Names /\ Images[f].entry9
  BY HeaderOf DEF Whole
<1> DEFINE s == Sections(f, h1[p])
           t == Sections(f, h2[p])
<1>2. \A i \in DOMAIN t : Present(t[i]) =>
        /\ t[i].address \in InstallWhitelist /\ End(t[i]) <= MaxSize
        /\ Images[f].intact
        /\ \A u \in Pieces(t[i]) : n[Base(p) + u] = Piece(f, u)
  BY DEF Whole
<1>3. ASSUME NEW i \in DOMAIN s, Present(s[i]) PROVE i \in DOMAIN t /\ t[i] = s[i]
  <2>1. DOMAIN s = DOMAIN Images[f].sections /\ DOMAIN t = DOMAIN Images[f].sections
    BY DEF Sections
  <2>2. Images[f].sections[i] \in firm_sectionheader
    BY <1>1, <2>1, SectionsTyped DEF Typed
  <2>3. CASE h1[p] = h2[p]
    BY <2>3
  <2>4. CASE h1[p] = FALSE /\ h2[p] = TRUE
    <3>1. t[i] = Images[f].sections[i]
      BY <2>1, <2>4 DEF Sections
    <3>2. ~(IsFastboot(f) /\ i = 2)
      <4> SUFFICES ASSUME IsFastboot(f), i = 2 PROVE FALSE
        OBVIOUS
      <4>1. s[i] = [Images[f].sections[i] EXCEPT !.size = 0]
        BY <2>1, <2>4 DEF Sections
      <4>2. s[i].size = 0
        BY <2>2, <4>1 DEF firm_sectionheader
      <4> QED BY <1>3, <4>2 DEF Present
    <3>3. s[i] = Images[f].sections[i]
      BY <2>1, <2>4, <3>2 DEF Sections
    <3> QED BY <2>1, <3>1, <3>3
  <2> QED BY <2>3, <2>4
<1>4. \A i \in DOMAIN s : Present(s[i]) =>
        /\ s[i].address \in InstallWhitelist /\ End(s[i]) <= MaxSize
        /\ Images[f].intact
        /\ \A u \in Pieces(s[i]) : n[Base(p) + u] = Piece(f, u)
  <2> HIDE DEF s, t, f
  <2> QED BY <1>2, <1>3
<1> QED BY <1>1, <1>4 DEF Whole

\* One that holds a release starts with superhax and without: superhax lies
\* before a section that is there.
LEMMA ReleaseBoots ==
  ASSUME NEW n, NEW p \in Parts, NEW f, Holds(n, p, f), Release(f), NEW hax, hax[p] \in BOOLEAN
  PROVE  Whole(n, hax, p) /\ HeaderAt(n, Base(p)) = f
<1>1. /\ HeaderAt(n, Base(p)) = f /\ f \in Names /\ f # NoImage /\ Verified(f)
      /\ Carries(n, p, f)
  BY HoldsCarries, CarriesHeader, ImageType DEF Holds
<1>2. Regular(f) /\ Images[f].intact
  BY <1>1, ReleaseAssumption
<1>3. CASE hax[p] = FALSE
  BY <1>1, <1>2, <1>3, CarriesBoots
<1>4. CASE hax[p] = TRUE
  <2> DEFINE s == Images[f].sections
             secs == Sections(f, TRUE)
  <2>1. DOMAIN secs = DOMAIN s /\ DOMAIN Sections(f, FALSE) = DOMAIN s
        /\ \A i \in DOMAIN s : secs[i] = s[i]
    BY DEF Sections
  <2>2. \A i \in DOMAIN s : s[i] \in firm_sectionheader
    BY <1>1, SectionsTyped DEF Typed
  <2>3. ASSUME NEW i \in DOMAIN s, Present(s[i]), i # 2
        PROVE  End(s[i]) <= Length(f)
    <3>1. Sections(f, FALSE)[i] = s[i]
      BY <2>3 DEF Sections
    <3> QED BY <1>1, <1>2, <2>1, <2>3, <3>1, CoveredSections
  <2>4. ASSUME 2 \in DOMAIN s, Present(s[2]) PROVE End(s[2]) <= Length(f)
    <3>1. PICK i \in DOMAIN s : Present(s[i]) /\ s[i].offset > s[2].offset
      BY <1>1, <2>4, ReleaseAssumption
    <3>2. s[i] \in firm_sectionheader /\ s[2] \in firm_sectionheader
      BY <2>2, <2>4
    <3>3. /\ s[i].offset \in Nat /\ s[2].offset \in Nat /\ End(s[2]) \in Nat /\ End(s[i]) \in Nat
          /\ s[i].offset < End(s[i])
      BY <3>1, <3>2 DEF firm_sectionheader, End, Present
    <3>4. i # 2
      BY <3>1, <3>3
    <3>5. Pieces(s[i]) \cap Pieces(s[2]) = {}
      BY <1>2, <2>4, <3>4 DEF Regular
    <3>6. s[i].offset \in Pieces(s[i])
      BY <3>3 DEF Pieces
    <3>7. End(s[2]) <= s[i].offset
      BY <3>1, <3>3, <3>5, <3>6 DEF Pieces
    <3>8. End(s[i]) <= Length(f)
      BY <2>3, <3>1, <3>4
    <3>9. Length(f) \in Nat
      BY <1>1, LengthType, Sizes
    <3> QED BY <3>3, <3>7, <3>8, <3>9
  <2>5. Length(f) \in Nat /\ Length(f) <= MaxSize
    BY <1>1, LengthType, Sizes
  <2>6. ASSUME NEW i \in DOMAIN s, Present(s[i])
        PROVE  /\ s[i].address \in InstallWhitelist /\ End(s[i]) <= MaxSize
               /\ \A u \in Pieces(s[i]) : n[Base(p) + u] = Piece(f, u)
    <3>1. End(s[i]) <= Length(f)
      BY <2>3, <2>4, <2>6
    <3>2. s[i] \in firm_sectionheader
      BY <2>2, <2>6
    <3>3. End(s[i]) \in Nat
      BY <3>2 DEF firm_sectionheader, End
    <3>4. s[i].address \in InstallWhitelist
      BY <1>2, <2>6 DEF Regular
    <3>5. \A u \in Pieces(s[i]) : n[Base(p) + u] = Piece(f, u)
      BY <3>1, <3>2, PiecesHeld
    <3> QED BY <2>5, <3>1, <3>3, <3>4, <3>5, Sizes
  <2> HIDE DEF s, secs
  <2>7. Images[f].entry9 /\ secs = Sections(f, hax[p])
    BY <1>1, <1>4 DEF Verified, secs
  <2>8. Whole(n, hax, p)
    BY <1>1, <1>2, <2>1, <2>6, <2>7 DEF Whole
  <2> QED BY <1>1, <2>8
<1> QED BY <1>3, <1>4

-----------------------------------------------------------------------------
(* The inductive invariant.                                                *)

Jobs == [op : {"update", "install"}, part : Parts, pos : Nat, left : Nat]
Places == {"start", "dump", "off", "failed", "menu"}
Programs ==
  {r \in [image : Names \cup {NoImage}, hax : BOOLEAN, dump_bootroms : BOOLEAN, at : Places] :
     r.dump_bootroms => r.hax}
Types == FirmTypeOK /\ running \in Programs

\* The image that is written, as the writer sees it.
Target == HeaderAt(buffer, 0)

\* What is checked of an image that is to be written lies in the buffer, and
\* what lies in the buffer before the position is on the NAND. Superhax is gone
\* with the old header.
Writing ==
  job # NoJob =>
    /\ job \in Jobs /\ job.left > 0 /\ job.pos % 2 = 0
    /\ report = NoReport
    /\ Target \in Names /\ Verified(Target) /\ job.pos + job.left = Length(Target)
    /\ \A u \in Checked(Target) : u < Length(Target) => buffer[u] = Piece(Target, u)
    /\ \A u \in 0 .. job.pos - 1 : nand[Base(job.part) + u] = buffer[u]
    /\ job.pos > 0 => shax[job.part] = FALSE

\* As long as nothing is installed or launched by hand: when firm0 starts, or
\* did with superhax, it starts a release that is not older than the running
\* program; an update is not older; and firm0 starts unless one was cut.
NotOlder(f) == Release(f) /\ VERS[f] >= Version(running.image)
Starting == Whole(nand, shax, "firm0") \/ (running.hax /\ shax["firm0"])
Current ==
  ~lost =>
    /\ Starting => NotOlder(HeaderAt(nand, 0))
    /\ job # NoJob =>
         /\ job.op = "update" /\ job.part = "firm0" /\ NotOlder(Target)
         /\ \A u \in 0 .. Length(Target) - 1 : buffer[u] = Piece(Target, u)
    /\ job = NoJob /\ ~cut => \E f \in Names : NotOlder(f) /\ Holds(nand, "firm0", f)

FirmIndInv == Types /\ Writing /\ Current /\ ReportedBoots

\* What NeverOlder says of a step.
Newer ==
  ~lost' /\ running'.image # running.image =>
    \/ IsFastboot(running'.image) /\ Version(running'.image) >= Version(running.image)
    \/ cut' /\ ~Whole(nand', shax', "firm0")

LEMMA NotReported == ASSUME report'.ok = FALSE PROVE ReportedBoots'
BY DEF ReportedBoots

LEMMA NoJobWriting == ASSUME job' = NoJob PROVE Writing'
BY DEF Writing

LEMMA ReportOf ==
  /\ NoReport.ok = FALSE
  /\ \A op : [NoReport EXCEPT !.op = op].ok = FALSE
BY DEF NoReport

LEMMA JobTypes ==
  /\ \A j \in Jobs : j # NoJob
  /\ NoJob.part \in Parts /\ {NoJob.pos, NoJob.left, NoJob.pos + NoJob.left} \subseteq 0 .. MaxSize
BY Sizes DEF Jobs, NoJob, Parts

\* Another program runs, at its begin or in its menu.
Fresh(r) == r.at = "menu" \/ (r.at = "start" /\ r.hax)

LEMMA ProgramType ==
  ASSUME NEW f \in Names \cup {NoImage}, NEW hax \in BOOLEAN
  PROVE  /\ Program(f, hax) \in Programs /\ Fresh(Program(f, hax))
         /\ Program(f, hax).image = f /\ Program(f, hax).hax = hax
<1> DEFINE r == Program(f, hax)
<1>1. CASE hax /\ IsFastboot(f)
  <2>1. r = [image |-> f, hax |-> hax, dump_bootroms |-> hax, at |-> "start"]
    BY <1>1 DEF Program
  <2>2. r.image = f /\ r.hax = hax /\ r.at = "start"
    BY <2>1
  <2>3. r \in Programs
    BY <2>1 DEF Programs, Places
  <2> QED BY <1>1, <2>2, <2>3 DEF Fresh
<1>2. CASE ~(hax /\ IsFastboot(f))
  <2>1. r = [image |-> f, hax |-> hax, dump_bootroms |-> hax, at |-> "menu"]
    BY <1>2 DEF Program
  <2> QED BY <2>1 DEF Programs, Places, Fresh
<1> QED BY <1>1, <1>2

\* What the boot ROM starts.
LEMMA Boots ==
  ASSUME NEW n, NEW hax \in [Parts -> BOOLEAN]
  PROVE  /\ Boot9(n, hax) \in Programs /\ Fresh(Boot9(n, hax))
         /\ Whole(n, hax, "firm0") => Boot9(n, hax).image = HeaderAt(n, 0)
         /\ ~Whole(n, hax, "firm0") /\ ~hax["firm1"] => ~Boot9(n, hax).hax
<1>1. "firm0" \in Parts /\ "firm1" \in Parts
  BY DEF Parts
<1>2. /\ HeaderAt(n, 0) \in Names \cup {NoImage} /\ HeaderAt(n, MaxSize) \in Names \cup {NoImage}
      /\ hax["firm0"] \in BOOLEAN /\ hax["firm1"] \in BOOLEAN
  BY <1>1, HeaderOf
<1>3. CASE Whole(n, hax, "firm0")
  <2>1. Boot9(n, hax) = Program(HeaderAt(n, 0), hax["firm0"])
    BY <1>3 DEF Boot9
  <2>2. /\ Program(HeaderAt(n, 0), hax["firm0"]) \in Programs
        /\ Fresh(Program(HeaderAt(n, 0), hax["firm0"]))
        /\ Program(HeaderAt(n, 0), hax["firm0"]).image = HeaderAt(n, 0)
    BY <1>2, ProgramType
  <2> QED BY <1>3, <2>1, <2>2
<1>4. CASE ~Whole(n, hax, "firm0") /\ Whole(n, hax, "firm1")
  <2>1. Boot9(n, hax) = Program(HeaderAt(n, MaxSize), hax["firm1"])
    BY <1>4 DEF Boot9
  <2> QED BY <1>2, <1>4, <2>1, ProgramType
<1>5. CASE ~Whole(n, hax, "firm0") /\ ~Whole(n, hax, "firm1")
  <2>1. Boot9(n, hax) = Program(NoImage, FALSE)
    BY <1>5 DEF Boot9
  <2> QED BY <1>5, <2>1, ProgramType
<1> QED BY <1>3, <1>4, <1>5

\* A partition that holds a release has its header and is whole.
LEMMA HoldsWhole ==
  ASSUME NEW n, NEW f, Holds(n, "firm0", f), Release(f), NEW hax \in [Parts -> BOOLEAN]
  PROVE  Whole(n, hax, "firm0") /\ HeaderAt(n, 0) = f
<1>1. "firm0" \in Parts /\ Base("firm0") = 0 /\ hax["firm0"] \in BOOLEAN
  BY DEF Parts, Base
<1> QED BY <1>1, ReleaseBoots

\* A restart, where what firm0 starts is not older than the running program.
LEMMA RebootCurrent ==
  ASSUME shax' \in [Parts -> BOOLEAN], ~shax'["firm1"], job' = NoJob,
         running' = Boot9(nand', shax'), Version(running.image) \in Nat,
         ~lost' =>
           /\ Whole(nand', shax', "firm0") => NotOlder(HeaderAt(nand', 0))
           /\ ~cut' => \E f \in Names : NotOlder(f) /\ Holds(nand', "firm0", f)
  PROVE  Current' /\ Newer
<1> SUFFICES ASSUME ~lost' PROVE Current' /\ Newer
  BY DEF Current, Newer
<1> DEFINE h == HeaderAt(nand', 0)
<1>1. CASE Whole(nand', shax', "firm0")
  <2>1. running'.image = h /\ NotOlder(h)
    BY <1>1, Boots
  <2>2. h \in Names
    <3>1. HeaderAt(nand', Base("firm0")) # NoImage
      BY <1>1 DEF Whole
    <3> QED BY <3>1, HeaderOf DEF Base
  <2>3. VERS[h] \in Nat /\ Version(h) = VERS[h] /\ Release(h) /\ IsFastboot(h)
    BY <2>1, <2>2, ImageType DEF NotOlder, Release
  <2>4. NotOlder(HeaderAt(nand, 0))'
    <3>1. VERS[h] >= Version(running'.image) /\ Release(h)
      BY <2>1, <2>3
    <3> QED BY <3>1 DEF NotOlder
  <2>5. Newer
    BY <2>1, <2>3 DEF Newer, NotOlder
  <2>6. ~cut' => \E f \in Names : NotOlder(f)' /\ Holds(nand', "firm0", f)
    <3> SUFFICES ASSUME ~cut' PROVE \E f \in Names : NotOlder(f)' /\ Holds(nand', "firm0", f)
      OBVIOUS
    <3>1. PICK f \in Names : NotOlder(f) /\ Holds(nand', "firm0", f)
      OBVIOUS
    <3>2. f = h
      BY <3>1, HoldsWhole DEF NotOlder
    <3>3. VERS[f] >= Version(running'.image) /\ Release(f)
      BY <2>1, <2>3, <3>2
    <3> QED BY <3>1, <3>3 DEF NotOlder
  <2>7. Current'
    <3>1. job' = NoJob
      OBVIOUS
    <3> HIDE DEF h
    <3> QED BY <2>4, <2>6, <3>1 DEF Current
  <2> QED BY <2>5, <2>7
<1>2. CASE ~Whole(nand', shax', "firm0")
  <2>1. cut'
    BY <1>2, HoldsWhole DEF NotOlder
  <2>2. ~running'.hax
    BY <1>2, Boots
  <2>3. Current'
    BY <1>2, <2>1, <2>2 DEF Current, Starting
  <2> QED BY <1>2, <2>1, <2>3 DEF Newer
<1> QED BY <1>1, <1>2

\* Superhax is switched on in a program without it, or off in one with it.
LEMMA ToggleCurrent ==
  ASSUME Types, Current, ~lost, UNCHANGED nand, NEW e \in BOOLEAN, e = ~running.hax,
         shax' = shax \/ shax' = [shax EXCEPT !["firm0"] = e]
  PROVE  /\ Whole(nand', shax', "firm0") => NotOlder(HeaderAt(nand', 0))
         /\ running.hax /\ shax'["firm0"] => NotOlder(HeaderAt(nand', 0))
<1>1. shax \in [Parts -> BOOLEAN] /\ running.hax \in BOOLEAN /\ "firm0" \in Parts
  BY DEF Types, FirmTypeOK, Programs, Parts
<1>2. shax["firm0"] \in BOOLEAN /\ shax'["firm0"] \in {shax["firm0"], e}
  BY <1>1
<1>3. Starting => NotOlder(HeaderAt(nand, 0))
  BY DEF Current
<1>4. ASSUME running.hax, shax'["firm0"] PROVE shax["firm0"]
  BY <1>2, <1>4
<1>5. ASSUME Whole(nand, shax', "firm0") PROVE Starting
  <2>1. CASE shax["firm0"] => shax'["firm0"]
    <3>1. Whole(nand, shax, "firm0")
      <4>1. shax'["firm0"] \in BOOLEAN
        BY <1>2
      <4> QED BY <1>1, <1>2, <1>5, <2>1, <4>1, WholeLess
    <3> QED BY <3>1 DEF Starting
  <2>2. CASE ~(shax["firm0"] => shax'["firm0"])
    <3>1. shax["firm0"] /\ running.hax
      BY <1>1, <1>2, <2>2
    <3> QED BY <3>1 DEF Starting
  <2> QED BY <2>1, <2>2
<1>6. running.hax /\ shax'["firm0"] => Starting
  BY <1>4 DEF Starting
<1> QED BY <1>3, <1>5, <1>6

\* The program stays, and of the NAND only superhax may change.
LEMMA StaysCurrent ==
  ASSUME Types, Current, job = NoJob, job' = NoJob, UNCHANGED <<nand, lost, cut>>,
         running'.image = running.image, running'.hax = running.hax,
         NEW e \in BOOLEAN, e = ~running.hax,
         shax' = shax \/ shax' = [shax EXCEPT !["firm0"] = e]
  PROVE  Current' /\ Newer
<1>1. Newer
  BY DEF Newer
<1> SUFFICES ASSUME ~lost PROVE Current'
  BY <1>1 DEF Current
<1>2. \A f : NotOlder(f)' <=> NotOlder(f)
  BY DEF NotOlder
<1>3. Starting' => NotOlder(HeaderAt(nand', 0))
  BY ToggleCurrent DEF Starting
<1>4. ~cut' => \E f \in Names : NotOlder(f) /\ Holds(nand', "firm0", f)
  BY DEF Current
<1>5. (Starting => NotOlder(HeaderAt(nand, 0)))'
  BY <1>2, <1>3
<1>6. (job = NoJob /\ ~cut => \E f \in Names : NotOlder(f) /\ Holds(nand, "firm0", f))'
  BY <1>2, <1>4
<1> QED BY <1>5, <1>6 DEF Current

LEMMA LostCurrent == ASSUME lost' = TRUE PROVE Current' /\ Newer
BY DEF Current, Newer

-----------------------------------------------------------------------------
(* Loading.                                                                *)

\* What passes is an image whose header and sections lie in the buffer.
LEMMA LoadedVerified ==
  ASSUME NEW loaded, loaded.size \in 0 .. MaxSize, NEW wl, VerifyFirm(loaded, FALSE, wl),
         NEW f, f = HeaderAt(loaded.buffer, 0)
  PROVE  /\ f \in Names /\ Verified(f) /\ Length(f) \in Header .. loaded.size
         /\ \A u \in Checked(f) : loaded.buffer[u] = Piece(f, u)
<1> DEFINE n == loaded.size
           b == loaded.buffer
           secs == Sections(f, FALSE)
<1>1. n \in Nat /\ n <= MaxSize /\ n > Header
  BY Sizes DEF VerifyFirm
<1>2. f \in Names
  BY HeaderOf DEF VerifyFirm
<1>3. b[0] = Piece(f, 0) /\ b[1] = Piece(f, 1)
  <2>1. b[0] = Piece(f, 0) /\ b[0 + 1] = Piece(f, 1)
    BY <1>2, HeaderOf, ImageType
  <2> QED BY <2>1
<1>4. /\ Images[f].entry9
      /\ \A i \in DOMAIN secs : Present(secs[i]) =>
           SectionOK(secs[i], n, wl) /\ HashOK(b, f, secs[i])
  BY DEF VerifyFirm
<1> HIDE DEF secs, n, b
<1>5. \A i \in DOMAIN secs : Present(secs[i]) =>
        /\ Images[f].intact /\ secs[i].offset >= Header /\ End(secs[i]) <= n
        /\ \A u \in Pieces(secs[i]) : b[u] = Piece(f, u)
  BY <1>4 DEF SectionOK, HashOK
<1>6. Typed(secs)
  BY <1>2, SectionsTyped DEF secs
<1>7. Bounded(secs, n) /\ Bounded(secs, MaxSize)
  <2>1. Bounded(secs, n)
    BY <1>5 DEF Bounded
  <2>2. ASSUME NEW i \in DOMAIN secs, Present(secs[i]) PROVE End(secs[i]) <= MaxSize
    <3>1. End(secs[i]) \in Nat /\ End(secs[i]) <= n
      BY <1>5, <1>6, <2>2, EndType
    <3> QED BY <1>1, <3>1, Sizes
  <2> QED BY <2>1, <2>2 DEF Bounded
<1>8. Verified(f)
  BY <1>4, <1>5, <1>7 DEF Verified, Behind, secs
<1>9. firm_size(secs) <= n
  BY <1>1, <1>6, <1>7, FirmSizeWithin, Sizes
<1>10. Length(f) \in Header .. n
  <2>1. Length(f) \in Header .. MaxSize
    BY <1>2, <1>8, LengthType
  <2>2. Length(f) <= n
    BY <1>9 DEF Length, secs
  <2> QED BY <1>1, <2>1, <2>2, Sizes
<1>11. ASSUME NEW u \in Checked(f) PROVE b[u] = Piece(f, u)
  <2>1. u \in Nat /\ (u < 2 \/ \E i \in DOMAIN secs : Present(secs[i]) /\ u \in Pieces(secs[i]))
    BY Sizes DEF Checked, secs
  <2>2. CASE u < 2
    <3>1. u = 0 \/ u = 1
      BY <2>1, <2>2
    <3> QED BY <1>3, <3>1
  <2>3. CASE \E i \in DOMAIN secs : Present(secs[i]) /\ u \in Pieces(secs[i])
    BY <1>5, <2>3
  <2> QED BY <2>1, <2>2, <2>3
<1> QED BY <1>2, <1>8, <1>10, <1>11 DEF b, n

\* A file that passes lies in the buffer as far as it will be written, also
\* between its sections.
LEMMA LoadedFile ==
  ASSUME Types, NEW f \in Names, NEW wl, VerifyFirm(LoadFile(f), FALSE, wl)
  PROVE  /\ HeaderAt(LoadFile(f).buffer, 0) = f /\ LoadFile(f).signed = Images[f].signed
         /\ \A u \in 0 .. Length(f) - 1 : LoadFile(f).buffer[u] = Piece(f, u)
<1> DEFINE n == Images[f].size
           b == LoadFile(f).buffer
<1>1. n \in Nat /\ DOMAIN buffer = 0 .. MaxSize - 1
  BY ImageType DEF Types, FirmTypeOK
<1>2. LoadFile(f).size > Header
  BY DEF VerifyFirm
<1>3. /\ n <= MaxSize /\ LoadFile(f).size = n /\ LoadFile(f).signed = Images[f].signed
      /\ b = [u \in DOMAIN buffer |-> IF u < n THEN Piece(f, u) ELSE buffer[u]]
  <2>1. ~(n > MaxSize)
    BY <1>2, Sizes DEF LoadFile
  <2>2. LoadFile(f) = [size |-> n, signed |-> Images[f].signed, buffer |->
                        [u \in DOMAIN buffer |-> IF u < n THEN Piece(f, u) ELSE buffer[u]]]
    BY <2>1 DEF LoadFile
  <2>3. n <= MaxSize
    BY <1>1, <2>1, Sizes
  <2> QED BY <2>2, <2>3
<1>4. \A u \in 0 .. n - 1 : b[u] = Piece(f, u)
  BY <1>1, <1>3, Sizes
<1>5. n > 2
  BY <1>2, <1>3, Sizes
<1>6. HeaderAt(b, 0) = f
  <2>1. b[0] = Piece(f, 0) /\ b[0 + 1] = Piece(f, 1)
    BY <1>1, <1>4, <1>5
  <2> QED BY <2>1, HeaderOf
<1>7. n \in 0 .. MaxSize
  BY <1>1, <1>3
<1>8. Length(f) \in Header .. n
  BY <1>3, <1>6, <1>7, LoadedVerified
<1> HIDE DEF b, n
<1>9. \A u \in 0 .. Length(f) - 1 : b[u] = Piece(f, u)
  BY <1>1, <1>4, <1>8, Sizes
<1> QED BY <1>3, <1>6, <1>9 DEF b

\* What a load leaves in the buffer.
Loaded(loaded) == loaded.size \in 0 .. MaxSize /\ loaded.buffer \in [0 .. MaxSize - 1 -> Contents]

LEMMA PieceType ==
  ASSUME NEW f \in Names \cup {NoImage}, NEW u \in 0 .. MaxSize - 1
  PROVE  Piece(f, u) \in Contents
BY DEF Piece, Contents

LEMMA FileLoaded == ASSUME Types, NEW f \in Names PROVE Loaded(LoadFile(f))
<1>1. buffer \in [0 .. MaxSize - 1 -> Contents] /\ Images[f].size \in Nat /\ MaxSize \in Nat
  BY ImageType, Sizes DEF Types, FirmTypeOK
<1>2. CASE Images[f].size > MaxSize
  BY <1>1, <1>2 DEF LoadFile, Loaded
<1>3. CASE ~(Images[f].size > MaxSize)
  <2> DEFINE b == [u \in DOMAIN buffer |-> IF u < Images[f].size THEN Piece(f, u) ELSE buffer[u]]
  <2>1. LoadFile(f).size = Images[f].size /\ LoadFile(f).buffer = b
    BY <1>3 DEF LoadFile
  <2>2. ASSUME NEW u \in 0 .. MaxSize - 1
        PROVE  (IF u < Images[f].size THEN Piece(f, u) ELSE buffer[u]) \in Contents
    BY <1>1, PieceType
  <2>3. b \in [0 .. MaxSize - 1 -> Contents]
    BY <1>1, <2>2
  <2> HIDE DEF b
  <2> QED BY <1>1, <1>3, <2>1, <2>3 DEF Loaded
<1> QED BY <1>2, <1>3

LEMMA PartitionLoaded == ASSUME Types, NEW p \in Parts PROVE Loaded(LoadPartition(p))
<1> DEFINE f == HeaderAt(nand, Base(p))
           n == IF f = NoImage THEN 0 ELSE firm_size(Sections(f, shax[p]))
           b == [u \in DOMAIN buffer |->
                   IF u < Header \/ u < Covered(n) THEN nand[Base(p) + u] ELSE buffer[u]]
<1>1. LoadPartition(p).size = n /\ LoadPartition(p).buffer = b
  BY DEF LoadPartition
<1>2. n \in 0 .. MaxSize
  <2>1. CASE f = NoImage
    BY <2>1, Sizes
  <2>2. CASE f # NoImage
    <3>1. f \in Names
      BY <2>2, HeaderOf
    <3> QED BY <2>2, <3>1, SectionsTyped, FirmSizeType
  <2> QED BY <2>1, <2>2
<1>3. /\ buffer \in [0 .. MaxSize - 1 -> Contents] /\ nand \in [0 .. 2 * MaxSize - 1 -> Contents]
      /\ MaxSize \in Nat
  BY Sizes DEF Types, FirmTypeOK
<1> HIDE DEF n
<1>4. ASSUME NEW u \in 0 .. MaxSize - 1
      PROVE  (IF u < Header \/ u < Covered(n) THEN nand[Base(p) + u] ELSE buffer[u]) \in Contents
  <2>1. Base(p) + u \in 0 .. 2 * MaxSize - 1
    BY <1>3, BaseType
  <2> QED BY <1>3, <2>1
<1>5. b \in [0 .. MaxSize - 1 -> Contents]
  BY <1>3, <1>4
<1> HIDE DEF b
<1> QED BY <1>1, <1>2, <1>5 DEF Loaded

\* An image that passes is then written from its begin, and all of it.
LEMMA Starts ==
  ASSUME Types, NEW loaded, Loaded(loaded), NEW wl, VerifyFirm(loaded, FALSE, wl),
         NEW op \in {"update", "install"}, NEW part \in Parts,
         buffer' = loaded.buffer, StartWrite(op, part, loaded.buffer),
         UNCHANGED <<nand, shax>>
  PROVE  /\ Writing' /\ report'.ok = FALSE /\ Target' = HeaderAt(loaded.buffer, 0)
         /\ job' \in Jobs /\ job'.op = op /\ job'.part = part
         /\ {job'.pos, job'.left, job'.pos + job'.left} \subseteq 0 .. MaxSize
<1> DEFINE f == HeaderAt(loaded.buffer, 0)
<1>1. loaded.size \in 0 .. MaxSize
  BY DEF Loaded
<1>2. /\ f \in Names /\ Verified(f)
      /\ \A u \in Checked(f) : buffer'[u] = Piece(f, u)
  BY <1>1, LoadedVerified
<1>3. Length(f) \in Header .. MaxSize
  BY <1>2, LengthType
<1>4. job' = [op |-> op, part |-> part, pos |-> 0, left |-> Length(f)] /\ report' = NoReport
  <2>1. firm_size(Sections(HeaderAt(loaded.buffer, 0), FALSE)) = Length(f)
    BY DEF Length
  <2>2. Length(f) # 0
    BY <1>3, Sizes
  <2> QED BY <2>1, <2>2 DEF StartWrite
<1>5. /\ job' \in Jobs /\ job'.op = op /\ job'.part = part /\ job'.pos = 0
      /\ job'.left = Length(f) /\ job'.pos + job'.left = Length(f) /\ job'.left > 0
  BY <1>3, <1>4, Sizes DEF Jobs
<1>6. Target' = f
  BY DEF Target
<1> HIDE DEF f
<1>7. \A u \in 0 .. job'.pos - 1 : nand'[Base(job'.part) + u] = buffer'[u]
  BY <1>5
<1>8. job'.pos % 2 = 0 /\ ~(job'.pos > 0)
  BY <1>5
<1>9. Writing'
  BY <1>2, <1>4, <1>5, <1>6, <1>7, <1>8 DEF Writing
<1> QED BY <1>3, <1>4, <1>5, <1>6, <1>9, ReportOf, Sizes DEF f

-----------------------------------------------------------------------------
(* Steps that write no block.                                              *)

JobRange == /\ job.part \in Parts
            /\ {job.pos, job.left, job.pos + job.left} \subseteq 0 .. MaxSize

\* Where a dump is going on, nothing is written.
Waiting == running.at # "menu" => running.hax /\ job = NoJob

\* What may become of the switch of superhax.
Switch(e) == shax' = shax \/ shax' = [shax EXCEPT !["firm0"] = e]

LEMMA TypesStep ==
  ASSUME Types, nand' \in [0 .. 2 * MaxSize - 1 -> Contents],
         buffer' \in [0 .. MaxSize - 1 -> Contents],
         shax' \in [Parts -> BOOLEAN], ~shax'["firm1"], running' \in Programs, Waiting',
         JobRange', jobs' \in 0 .. MaxJobs, lost' \in BOOLEAN, cut' \in BOOLEAN
  PROVE  Types'
<1>1. running'.image \in Names \cup {NoImage} /\ running'.at \in Places
  BY DEF Programs
<1> QED BY <1>1 DEF Types, FirmTypeOK, JobRange, Waiting, Places

LEMMA TypesParts ==
  ASSUME Types
  PROVE  /\ nand \in [0 .. 2 * MaxSize - 1 -> Contents] /\ buffer \in [0 .. MaxSize - 1 -> Contents]
         /\ shax \in [Parts -> BOOLEAN] /\ ~shax["firm1"] /\ running \in Programs
         /\ running.hax \in BOOLEAN /\ running.at \in Places /\ running.image \in Names \cup {NoImage}
         /\ JobRange /\ Waiting /\ jobs \in 0 .. MaxJobs /\ lost \in BOOLEAN /\ cut \in BOOLEAN
         /\ Version(running.image) \in Nat
<1>1. running.hax \in BOOLEAN /\ running.at \in Places /\ running.image \in Names \cup {NoImage}
  BY DEF Types, Programs
<1>2. Version(running.image) \in Nat
  <2>1. CASE running.image \in Names
    BY <2>1, ImageType
  <2>2. CASE running.image \notin Names
    BY <2>2 DEF Version
  <2> QED BY <2>1, <2>2
<1> QED BY <1>1, <1>2 DEF Types, FirmTypeOK, JobRange, Waiting

LEMMA SwitchType ==
  ASSUME Types, NEW e \in BOOLEAN, Switch(e)
  PROVE  shax' \in [Parts -> BOOLEAN] /\ ~shax'["firm1"]
<1>1. shax \in [Parts -> BOOLEAN] /\ ~shax["firm1"] /\ "firm1" \in Parts
  BY TypesParts DEF Parts
<1> QED BY <1>1 DEF Switch

LEMMA NoJobRange == ASSUME job' = NoJob PROVE JobRange'
BY JobTypes DEF JobRange

\* Counting what the user asks for.
LEMMA AskedJobs == ASSUME Types, jobs < MaxJobs, jobs' = jobs + 1 PROVE jobs' \in 0 .. MaxJobs
BY Sizes DEF Types, FirmTypeOK

LEMMA UpdateStep ==
  ASSUME FirmIndInv, NEW loaded, Loaded(loaded), menuUpdateFastboot3ds(loaded),
         UpdateOK(loaded) => \E f \in Names : loaded = LoadFile(f)
  PROVE  FirmIndInv' /\ Newer
<1>1. /\ job = NoJob /\ jobs < MaxJobs /\ jobs' = jobs + 1 /\ buffer' = loaded.buffer
      /\ IF UpdateOK(loaded) THEN StartWrite("update", "firm0", loaded.buffer) ELSE Failed("update")
      /\ UNCHANGED <<nand, shax, running, lost, cut>> /\ running.at = "menu"
  BY DEF menuUpdateFastboot3ds, Asked, InMenu
<1>2. Types /\ Writing /\ Current /\ Newer
  BY <1>1 DEF FirmIndInv, Newer
<1>3. ASSUME JobRange' PROVE Types'
  <2>1. Waiting'
    BY <1>1 DEF Waiting
  <2>2. /\ nand' \in [0 .. 2 * MaxSize - 1 -> Contents] /\ buffer' \in [0 .. MaxSize - 1 -> Contents]
        /\ shax' \in [Parts -> BOOLEAN] /\ ~shax'["firm1"] /\ running' \in Programs
        /\ lost' \in BOOLEAN /\ cut' \in BOOLEAN
    BY <1>1, <1>2, TypesParts DEF Loaded
  <2>3. jobs' \in 0 .. MaxJobs
    BY <1>1, <1>2, AskedJobs
  <2> QED BY <1>2, <1>3, <2>1, <2>2, <2>3, TypesStep
<1>4. CASE ~UpdateOK(loaded)
  <2>1. job' = NoJob /\ report'.ok = FALSE
    BY <1>1, <1>4, ReportOf DEF Failed
  <2>2. Current'
    <3>1. UNCHANGED <<nand, lost, cut, running, shax>> /\ running.hax \in BOOLEAN
      BY <1>1, <1>2, TypesParts
    <3> QED BY <1>1, <1>2, <2>1, <3>1, StaysCurrent
  <2> QED BY <1>2, <1>3, <2>1, <2>2, NotReported, NoJobWriting, NoJobRange DEF FirmIndInv
<1>5. CASE UpdateOK(loaded)
  <2>1. PICK f \in Names : loaded = LoadFile(f)
    BY <1>5
  <2>2. VerifyFirm(LoadFile(f), FALSE, InstallWhitelist)
    BY <1>5, <2>1 DEF UpdateOK
  <2>3. /\ HeaderAt(loaded.buffer, 0) = f /\ loaded.signed = Images[f].signed
        /\ \A u \in 0 .. Length(f) - 1 : loaded.buffer[u] = Piece(f, u)
    BY <1>2, <2>1, <2>2, LoadedFile
  <2>4. NotOlder(f)
    <3>1. Images[f].signed /\ IsFastboot(f) /\ VERS[f] >= VERS[running.image]
      BY <1>5, <2>3 DEF UpdateOK
    <3>2. IsFastboot(running.image)
      BY DEF menuUpdateFastboot3ds, Asked, InMenu
    <3>3. Version(running.image) = VERS[running.image]
      BY <3>2 DEF IsFastboot, Version
    <3> QED BY <3>1, <3>3 DEF NotOlder, Release
  <2>5. /\ Writing' /\ report'.ok = FALSE /\ Target' = f
        /\ job' \in Jobs /\ job'.op = "update" /\ job'.part = "firm0" /\ JobRange'
    <3>1. "update" \in {"update", "install"} /\ "firm0" \in Parts
      BY DEF Parts
    <3>2. /\ StartWrite("update", "firm0", loaded.buffer) /\ buffer' = loaded.buffer
          /\ VerifyFirm(loaded, FALSE, InstallWhitelist) /\ UNCHANGED <<nand, shax>>
      BY <1>1, <1>5, <2>1, <2>2
    <3>3. /\ Writing' /\ report'.ok = FALSE /\ Target' = HeaderAt(loaded.buffer, 0)
          /\ job' \in Jobs /\ job'.op = "update" /\ job'.part = "firm0"
          /\ {job'.pos, job'.left, job'.pos + job'.left} \subseteq 0 .. MaxSize
      BY <1>2, <3>1, <3>2, Starts
    <3> QED BY <2>3, <3>1, <3>3 DEF JobRange
  <2>6. Current'
    <3> SUFFICES ASSUME ~lost' PROVE Current'
      BY DEF Current
    <3>1. \A g : NotOlder(g)' <=> NotOlder(g)
      BY <1>1 DEF NotOlder
    <3>2. (Starting => NotOlder(HeaderAt(nand, 0)))'
      <4>1. Starting => NotOlder(HeaderAt(nand, 0))
        BY <1>1, <1>2 DEF Current
      <4>2. Starting' <=> Starting
        BY <1>1 DEF Starting
      <4> QED BY <1>1, <3>1, <4>1, <4>2
    <3>3. NotOlder(Target)'
      BY <2>4, <2>5, <3>1
    <3>4. job' # NoJob
      BY <2>5, JobTypes
    <3>5. (\A u \in 0 .. Length(Target) - 1 : buffer[u] = Piece(Target, u))'
      BY <1>1, <2>3, <2>5
    <3> QED BY <2>5, <3>2, <3>3, <3>4, <3>5 DEF Current
  <2> QED BY <1>2, <1>3, <2>5, <2>6, NotReported DEF FirmIndInv
<1> QED BY <1>4, <1>5

LEMMA InstallStep ==
  ASSUME FirmIndInv, NEW loaded, Loaded(loaded), NEW p \in Parts, menuInstallFirm(loaded, p)
  PROVE  FirmIndInv' /\ Newer
<1> DEFINE passes == VerifyFirm(loaded, FALSE, BootWhitelist)
<1>1. /\ jobs < MaxJobs /\ jobs' = jobs + 1 /\ buffer' = loaded.buffer /\ lost' = TRUE
      /\ IF passes THEN StartWrite("install", p, loaded.buffer) ELSE Failed("install")
      /\ UNCHANGED <<nand, shax, running, cut>> /\ running.at = "menu"
  BY DEF menuInstallFirm, Asked, InMenu
<1>2. Types
  BY DEF FirmIndInv
<1> HIDE DEF passes
<1>3. ASSUME JobRange' PROVE Types'
  <2>1. Waiting'
    BY <1>1 DEF Waiting
  <2>2. /\ nand' \in [0 .. 2 * MaxSize - 1 -> Contents] /\ buffer' \in [0 .. MaxSize - 1 -> Contents]
        /\ shax' \in [Parts -> BOOLEAN] /\ ~shax'["firm1"] /\ running' \in Programs
        /\ lost' \in BOOLEAN /\ cut' \in BOOLEAN
    BY <1>1, <1>2, TypesParts DEF Loaded
  <2>3. jobs' \in 0 .. MaxJobs
    BY <1>1, <1>2, AskedJobs
  <2> QED BY <1>2, <1>3, <2>1, <2>2, <2>3, TypesStep
<1>4. Current' /\ Newer
  BY <1>1, LostCurrent
<1>5. CASE ~passes
  <2>1. job' = NoJob /\ report'.ok = FALSE
    BY <1>1, <1>5, ReportOf DEF Failed
  <2> QED BY <1>3, <1>4, <2>1, NotReported, NoJobWriting, NoJobRange DEF FirmIndInv
<1>6. CASE passes
  <2>1. /\ VerifyFirm(loaded, FALSE, BootWhitelist) /\ "install" \in {"update", "install"}
        /\ StartWrite("install", p, loaded.buffer) /\ buffer' = loaded.buffer
    BY <1>1, <1>6 DEF passes
  <2>2. /\ Writing' /\ report'.ok = FALSE /\ job'.part = p
        /\ {job'.pos, job'.left, job'.pos + job'.left} \subseteq 0 .. MaxSize
    BY <1>1, <1>2, <2>1, Starts
  <2>3. JobRange'
    BY <2>2 DEF JobRange
  <2> QED BY <1>3, <1>4, <2>2, <2>3, NotReported DEF FirmIndInv
<1> QED BY <1>5, <1>6

LEMMA LaunchStep ==
  ASSUME FirmIndInv, NEW loaded, Loaded(loaded), NEW hax \in BOOLEAN, Launch(loaded, hax)
  PROVE  FirmIndInv' /\ Newer
<1> DEFINE passes == VerifyFirm(loaded, hax, BootWhitelist)
<1>1. /\ job = NoJob /\ jobs < MaxJobs /\ jobs' = jobs + 1 /\ buffer' = loaded.buffer
      /\ UNCHANGED <<nand, shax, cut>> /\ running.at = "menu"
  BY DEF Launch, Asked, InMenu
<1>2. Types /\ Current
  BY DEF FirmIndInv
<1>3. ASSUME running' \in Programs, Waiting', job' = NoJob, lost' \in BOOLEAN PROVE Types'
  <2>1. /\ nand' \in [0 .. 2 * MaxSize - 1 -> Contents] /\ buffer' \in [0 .. MaxSize - 1 -> Contents]
        /\ shax' \in [Parts -> BOOLEAN] /\ ~shax'["firm1"] /\ cut' \in BOOLEAN
    BY <1>1, <1>2, TypesParts DEF Loaded
  <2>2. jobs' \in 0 .. MaxJobs /\ JobRange'
    BY <1>1, <1>2, <1>3, AskedJobs, NoJobRange
  <2> QED BY <1>2, <1>3, <2>1, <2>2, TypesStep
<1>4. CASE passes
  <2>1. /\ running' = Program(HeaderAt(loaded.buffer, 0), running.hax)
        /\ report' = NoReport /\ lost' = TRUE /\ job' = NoJob
    BY <1>1, <1>4 DEF Launch
  <2>2. HeaderAt(loaded.buffer, 0) \in Names \cup {NoImage} /\ running.hax \in BOOLEAN
    BY <1>2, HeaderOf, TypesParts
  <2>3. running' \in Programs /\ Fresh(running')
    BY <2>1, <2>2, ProgramType
  <2>4. Waiting'
    BY <2>1, <2>3 DEF Fresh, Waiting
  <2> QED BY <1>3, <2>1, <2>3, <2>4, ReportOf, NotReported, NoJobWriting, LostCurrent DEF FirmIndInv
<1>5. CASE ~passes
  <2>1. UNCHANGED <<running, lost>> /\ job' = NoJob /\ report'.ok = FALSE
    BY <1>5, ReportOf DEF Launch, Failed
  <2>2. Current' /\ Newer
    <3>1. running.hax \in BOOLEAN
      BY <1>2, TypesParts
    <3> QED BY <1>1, <1>2, <2>1, <3>1, StaysCurrent
  <2>3. Waiting' /\ running' \in Programs /\ lost' \in BOOLEAN
    BY <1>1, <1>2, <2>1, TypesParts DEF Waiting
  <2> QED BY <1>3, <2>1, <2>2, <2>3, NotReported, NoJobWriting DEF FirmIndInv
<1> QED BY <1>4, <1>5

\* Steps that restart the console.
LEMMA RebootStep ==
  ASSUME FirmIndInv, job = NoJob, UNCHANGED <<nand, buffer, lost, cut>>, jobs' \in 0 .. MaxJobs,
         NEW e \in BOOLEAN, e = ~running.hax, Switch(e), Reboot(nand, shax'), report' = NoReport
  PROVE  FirmIndInv' /\ Newer
<1>1. Types /\ Current /\ job' = NoJob /\ running' = Boot9(nand, shax')
  BY DEF FirmIndInv, Reboot
<1>2. shax' \in [Parts -> BOOLEAN] /\ ~shax'["firm1"]
  BY <1>1, SwitchType
<1>3. running' \in Programs /\ Fresh(running')
  BY <1>1, <1>2, Boots
<1>4. Waiting'
  BY <1>1, <1>3 DEF Fresh, Waiting
<1>5. Types'
  <2>1. /\ nand' \in [0 .. 2 * MaxSize - 1 -> Contents] /\ buffer' \in [0 .. MaxSize - 1 -> Contents]
        /\ lost' \in BOOLEAN /\ cut' \in BOOLEAN /\ JobRange'
    BY <1>1, TypesParts, NoJobRange
  <2> QED BY <1>1, <1>2, <1>3, <1>4, <2>1, TypesStep
<1>6. Current' /\ Newer
  <2>1. Version(running.image) \in Nat
    BY <1>1, TypesParts
  <2>2. running' = Boot9(nand', shax')
    BY <1>1
  <2>3. ASSUME ~lost'
        PROVE  /\ Whole(nand', shax', "firm0") => NotOlder(HeaderAt(nand', 0))
               /\ ~cut' => \E f \in Names : NotOlder(f) /\ Holds(nand', "firm0", f)
    <3>1. ~lost
      BY <2>3
    <3>2. Whole(nand', shax', "firm0") => NotOlder(HeaderAt(nand', 0))
      BY <1>1, <3>1, ToggleCurrent DEF Switch
    <3>3. ~cut' => \E f \in Names : NotOlder(f) /\ Holds(nand', "firm0", f)
      BY <1>1, <3>1 DEF Current
    <3> QED BY <3>2, <3>3
  <2> QED BY <1>1, <1>2, <2>1, <2>2, <2>3, RebootCurrent
<1> QED BY <1>1, <1>5, <1>6, ReportOf, NotReported, NoJobWriting DEF FirmIndInv

\* Steps of one program from place to place.
LEMMA PlaceStep ==
  ASSUME FirmIndInv, job = NoJob, job' = NoJob, UNCHANGED <<nand, buffer, lost, cut>>,
         jobs' \in 0 .. MaxJobs, running' \in Programs, running'.image = running.image,
         running'.hax = running.hax, running'.at # "menu" => running.hax,
         NEW e \in BOOLEAN, e = ~running.hax, Switch(e), report'.ok = FALSE
  PROVE  FirmIndInv' /\ Newer
<1>1. Types /\ Current
  BY DEF FirmIndInv
<1>2. shax' \in [Parts -> BOOLEAN] /\ ~shax'["firm1"]
  BY <1>1, SwitchType
<1>3. Types'
  <2>1. /\ nand' \in [0 .. 2 * MaxSize - 1 -> Contents] /\ buffer' \in [0 .. MaxSize - 1 -> Contents]
        /\ lost' \in BOOLEAN /\ cut' \in BOOLEAN /\ JobRange'
    BY <1>1, TypesParts, NoJobRange
  <2>2. Waiting'
    BY DEF Waiting
  <2> QED BY <1>1, <1>2, <2>1, <2>2, TypesStep
<1>4. Current' /\ Newer
  BY <1>1, StaysCurrent DEF Switch
<1> QED BY <1>3, <1>4, NotReported, NoJobWriting DEF FirmIndInv

\* A program at another place.
LEMMA PlaceType ==
  ASSUME NEW r \in Programs, NEW at \in Places
  PROVE  /\ [r EXCEPT !.at = at] \in Programs /\ [r EXCEPT !.at = at].image = r.image
         /\ [r EXCEPT !.at = at].hax = r.hax /\ [r EXCEPT !.at = at].at = at
         /\ [r EXCEPT !.at = at, !.dump_bootroms = FALSE] \in Programs
         /\ [r EXCEPT !.at = at, !.dump_bootroms = FALSE].image = r.image
         /\ [r EXCEPT !.at = at, !.dump_bootroms = FALSE].hax = r.hax
         /\ [r EXCEPT !.at = at, !.dump_bootroms = FALSE].at = at
BY DEF Programs

LEMMA ToggleStep ==
  ASSUME FirmIndInv, menuDumpBootrom
  PROVE  FirmIndInv' /\ Newer
<1>1. job = NoJob /\ jobs < MaxJobs /\ jobs' = jobs + 1 /\ UNCHANGED <<nand, buffer, lost, cut>>
  BY DEF menuDumpBootrom, Asked
<1>2. running \in Programs /\ running.hax \in BOOLEAN /\ jobs' \in 0 .. MaxJobs /\ running.at = "menu"
  BY <1>1, TypesParts, AskedJobs DEF FirmIndInv, menuDumpBootrom, Asked, InMenu
<1>3. CASE ~running.hax /\ Toggled(TRUE) /\ Reboot(nand, shax') /\ report' = NoReport
  <2>1. Switch(TRUE) /\ TRUE = ~running.hax
    BY <1>2, <1>3 DEF Toggled, Switch
  <2> QED BY <1>1, <1>2, <1>3, <2>1, RebootStep
<1>4. CASE ~running.hax /\ NotToggled(TRUE) /\ Failed("superhax") /\ UNCHANGED running
  <2>1. Switch(TRUE) /\ TRUE = ~running.hax
    BY <1>2, <1>4 DEF NotToggled, Toggled, Switch
  <2>2. job' = NoJob /\ report'.ok = FALSE
    BY <1>4, ReportOf DEF Failed
  <2> QED BY <1>1, <1>2, <1>4, <2>1, <2>2, PlaceStep
<1>5. CASE /\ running.hax
           /\ running' = [running EXCEPT !.at = "dump"]
           /\ report' = NoReport /\ UNCHANGED <<shax, job>>
  <2>1. Switch(FALSE) /\ FALSE = ~running.hax
    BY <1>2, <1>5 DEF Switch
  <2>2. running' \in Programs /\ running'.image = running.image /\ running'.hax = running.hax
    BY <1>2, <1>5, PlaceType DEF Places
  <2> QED BY <1>1, <1>2, <1>5, <2>1, <2>2, ReportOf, PlaceStep
<1> QED BY <1>3, <1>4, <1>5 DEF menuDumpBootrom

LEMMA StartDumpStep ==
  ASSUME FirmIndInv, StartDump
  PROVE  FirmIndInv' /\ Newer
<1>1. running.at = "start" /\ report' = NoReport /\ UNCHANGED <<nand, buffer, jobs, lost, cut>>
  BY DEF StartDump
<1>2. running \in Programs /\ Waiting /\ jobs' \in 0 .. MaxJobs
  BY <1>1, TypesParts DEF FirmIndInv
<1>3. job = NoJob /\ running.hax /\ FALSE = ~running.hax
  BY <1>1, <1>2 DEF Waiting
<1>4. CASE At("dump") /\ UNCHANGED shax
  <2>1. running' \in Programs /\ running'.image = running.image /\ running'.hax = running.hax
    BY <1>2, <1>4, PlaceType DEF Places, At
  <2>2. Switch(FALSE) /\ job' = NoJob
    BY <1>3, <1>4 DEF Switch, At
  <2> QED BY <1>1, <1>2, <1>3, <2>1, <2>2, ReportOf, PlaceStep
<1>5. CASE Toggled(FALSE) /\ Reboot(nand, shax')
  <2>1. Switch(FALSE)
    BY <1>5 DEF Toggled, Switch
  <2> QED BY <1>1, <1>2, <1>3, <1>5, <2>1, RebootStep
<1>6. CASE /\ NotToggled(FALSE)
           /\ running' = [running EXCEPT !.at = "menu", !.dump_bootroms = FALSE]
           /\ UNCHANGED job
  <2>1. /\ running' \in Programs /\ running'.image = running.image /\ running'.hax = running.hax
    BY <1>2, <1>6, PlaceType DEF Places
  <2>2. Switch(FALSE) /\ job' = NoJob
    BY <1>3, <1>6 DEF NotToggled, Toggled, Switch
  <2> QED BY <1>1, <1>2, <1>3, <2>1, <2>2, ReportOf, PlaceStep
<1> QED BY <1>4, <1>5, <1>6 DEF StartDump

LEMMA DumpStep ==
  ASSUME FirmIndInv, DumpBootroms
  PROVE  FirmIndInv' /\ Newer
<1>1. /\ running.at = "dump" /\ report' = NoReport /\ UNCHANGED <<nand, buffer, jobs, lost, cut>>
      /\ Switch(FALSE) /\ (At("off") \/ At("failed"))
  BY DEF DumpBootroms, NotToggled, Toggled, Switch
<1>2. running \in Programs /\ Waiting /\ jobs' \in 0 .. MaxJobs
  BY <1>1, TypesParts DEF FirmIndInv
<1>3. job = NoJob /\ running.hax /\ FALSE = ~running.hax
  BY <1>1, <1>2 DEF Waiting
<1>4. PICK at \in Places : At(at)
  BY <1>1 DEF Places
<1>5. running' \in Programs /\ running'.image = running.image /\ running'.hax = running.hax
  BY <1>2, <1>4, PlaceType DEF At
<1>6. job' = NoJob
  BY <1>3, <1>4 DEF At
<1> QED BY <1>1, <1>2, <1>3, <1>5, <1>6, ReportOf, PlaceStep

LEMMA WaitStep ==
  ASSUME FirmIndInv, outputEndWait
  PROVE  FirmIndInv' /\ Newer
<1>1. /\ running.at \in {"off", "failed"} /\ report' = NoReport
      /\ UNCHANGED <<nand, shax, buffer, jobs, lost, cut>>
      /\ (running.at = "off" /\ Reboot(nand, shax)) \/ (running.at = "failed" /\ At("menu"))
  BY DEF outputEndWait
<1>2. running \in Programs /\ Waiting /\ jobs' \in 0 .. MaxJobs
  BY <1>1, TypesParts DEF FirmIndInv
<1>3. job = NoJob /\ running.hax /\ FALSE = ~running.hax /\ Switch(FALSE)
  BY <1>1, <1>2 DEF Waiting, Switch
<1>4. CASE Reboot(nand, shax)
  <2>1. Reboot(nand, shax')
    BY <1>1, <1>4
  <2> QED BY <1>1, <1>2, <1>3, <2>1, RebootStep
<1>5. CASE At("menu")
  <2>1. /\ running' \in Programs /\ running'.image = running.image /\ running'.hax = running.hax
        /\ job' = NoJob
    BY <1>2, <1>3, <1>5, PlaceType DEF Places, At
  <2> QED BY <1>1, <1>2, <1>3, <2>1, ReportOf, PlaceStep
<1> QED BY <1>1, <1>4, <1>5

LEMMA ContinueStep ==
  ASSUME FirmIndInv, ContinueBoot
  PROVE  FirmIndInv' /\ Newer
<1>1. /\ job = NoJob /\ jobs < MaxJobs /\ jobs' = jobs + 1 /\ report' = NoReport
      /\ UNCHANGED <<nand, shax, buffer, lost, cut>> /\ running.dump_bootroms /\ At("dump")
  BY DEF ContinueBoot, Asked
<1>2. running \in Programs /\ jobs' \in 0 .. MaxJobs
  BY <1>1, TypesParts, AskedJobs DEF FirmIndInv
<1>3. running.hax /\ FALSE = ~running.hax /\ Switch(FALSE)
  BY <1>1, <1>2 DEF Switch, Programs
<1>4. /\ running' \in Programs /\ running'.image = running.image /\ running'.hax = running.hax
      /\ job' = NoJob
  BY <1>1, <1>2, PlaceType DEF Places, At
<1> QED BY <1>1, <1>2, <1>3, <1>4, ReportOf, PlaceStep

LEMMA RestartStep ==
  ASSUME FirmIndInv, Restart
  PROVE  FirmIndInv' /\ Newer
<1>1. /\ job = NoJob /\ jobs < MaxJobs /\ jobs' = jobs + 1
      /\ UNCHANGED <<nand, shax, buffer, lost, cut>>
      /\ Reboot(nand, shax) /\ report' = NoReport
  BY DEF Restart
<1>2. jobs' \in 0 .. MaxJobs /\ Reboot(nand, shax') /\ running.hax \in BOOLEAN
  BY <1>1, TypesParts, AskedJobs DEF FirmIndInv
<1>3. PICK e \in BOOLEAN : e = ~running.hax
  BY <1>2
<1>4. Switch(e)
  BY <1>1 DEF Switch
<1> QED BY <1>1, <1>2, <1>3, <1>4, RebootStep

-----------------------------------------------------------------------------
(* Writing.                                                                *)

\* What writing a block needs to know of the job.
LEMMA Job ==
  ASSUME FirmIndInv, job # NoJob
  PROVE  /\ job.pos \in Nat /\ job.left \in Nat /\ job.left > 0 /\ job.pos % 2 = 0
         /\ job \in Jobs /\ job.part \in Parts /\ job.op \in {"update", "install"}
         /\ report = NoReport /\ running.at = "menu"
         /\ Target \in Names /\ Verified(Target)
         /\ Length(Target) \in Nat /\ Length(Target) <= MaxSize /\ Length(Target) >= Header
         /\ job.pos + job.left = Length(Target)
         /\ \A u \in Checked(Target) : u < Length(Target) => buffer[u] = Piece(Target, u)
         /\ \A u \in 0 .. job.pos - 1 : nand[Base(job.part) + u] = buffer[u]
         /\ job.pos > 0 => shax[job.part] = FALSE
<1>1. Writing /\ Waiting
  BY TypesParts DEF FirmIndInv
<1>2. job \in Jobs /\ Target \in Names /\ Verified(Target)
  BY <1>1 DEF Writing
<1>3. Length(Target) \in Header .. MaxSize
  BY <1>2, LengthType
<1>4. Length(Target) \in Nat /\ Length(Target) <= MaxSize /\ Length(Target) >= Header
  BY <1>3, Sizes
<1>5. job.pos \in Nat /\ job.left \in Nat /\ job.part \in Parts /\ job.op \in {"update", "install"}
  BY <1>2 DEF Jobs
<1>6. running.at = "menu"
  BY <1>1 DEF Waiting
<1> QED BY <1>1, <1>2, <1>4, <1>5, <1>6 DEF Writing

LEMMA Blocks ==
  ASSUME FirmIndInv, job # NoJob
  PROVE  /\ WriteSize \in Nat /\ 0 < WriteSize /\ WriteSize <= job.left
         /\ Sectors(WriteSize) \in Nat /\ 2 * Sectors(WriteSize) <= WriteSize
         /\ WriteSize % 2 = 0 => 2 * Sectors(WriteSize) = WriteSize
         /\ WriteSize # job.left => WriteSize = BlkSize /\ WriteSize < job.left
         /\ job.pos = 0 => Sectors(WriteSize) > 0
<1>1. job.left \in Nat /\ job.left > 0 /\ job.pos \in Nat /\ (job.pos = 0 => job.left >= 2)
  BY Job, Sizes
<1>2. BlkSize >= 2
  BY Sizes
<1>3. /\ WriteSize \in Nat /\ 0 < WriteSize /\ WriteSize <= job.left
      /\ WriteSize # job.left => WriteSize = BlkSize /\ WriteSize < job.left
      /\ job.pos = 0 => WriteSize >= 2
  BY <1>1, <1>2, Sizes DEF WriteSize
<1> HIDE DEF WriteSize
<1>4. /\ Sectors(WriteSize) \in Nat /\ 2 * Sectors(WriteSize) <= WriteSize
      /\ WriteSize % 2 = 0 => 2 * Sectors(WriteSize) = WriteSize
      /\ WriteSize >= 2 => Sectors(WriteSize) > 0
  BY <1>3 DEF Sectors
<1> QED BY <1>3, <1>4

\* Some sectors of a block are written: to its place in the partition, from
\* the buffer.
LEMMA SectorsWritten ==
  ASSUME FirmIndInv, job # NoJob, NEW n \in 0 .. Sectors(WriteSize)
  PROVE  /\ \A u \in DOMAIN nand : Written(n)[u] # nand[u] =>
              u >= Base(job.part) /\ u < Base(job.part) + MaxSize
         /\ \A u \in 0 .. job.pos + 2 * n - 1 : Written(n)[Base(job.part) + u] = buffer[u]
         /\ Written(n) \in [0 .. 2 * MaxSize - 1 -> Contents]
         /\ job.pos + 2 * n = 0 => Written(n) = nand
<1> DEFINE base == Base(job.part)
           end == job.pos + 2 * n
<1>1. base \in Nat /\ base \in {0, MaxSize}
  BY Job, BaseType
<1>2. job.pos \in Nat /\ end \in Nat /\ end <= Length(Target) /\ Length(Target) \in Nat
      /\ Length(Target) <= MaxSize /\ n \in Nat /\ job.pos <= end
  BY Job, Blocks
<1>3. nand \in [0 .. 2 * MaxSize - 1 -> Contents] /\ buffer \in [0 .. MaxSize - 1 -> Contents]
  BY TypesParts DEF FirmIndInv
<1>4. Written(n) = [u \in DOMAIN nand |->
                      IF u >= base + job.pos /\ u - base < end THEN buffer[u - base] ELSE nand[u]]
  BY DEF Written
<1>5. \A u \in 0 .. job.pos - 1 : nand[base + u] = buffer[u]
  BY Job
<1> HIDE DEF base, end
<1>6. ASSUME NEW u \in 0 .. 2 * MaxSize - 1, u >= base + job.pos, u - base < end
      PROVE  /\ u - base \in 0 .. MaxSize - 1 /\ u >= base /\ u < base + MaxSize
             /\ Written(n)[u] = buffer[u - base]
  <2>1. u - base \in 0 .. MaxSize - 1 /\ u >= base /\ u < base + MaxSize
    BY <1>1, <1>2, <1>6, Sizes
  <2>2. Written(n)[u] = buffer[u - base]
    BY <1>3, <1>4, <1>6
  <2> QED BY <2>1, <2>2
<1>7. ASSUME NEW u \in 0 .. 2 * MaxSize - 1, ~(u >= base + job.pos /\ u - base < end)
      PROVE  Written(n)[u] = nand[u]
  BY <1>3, <1>4, <1>7
<1>8. \A u \in DOMAIN nand : Written(n)[u] # nand[u] => u >= base /\ u < base + MaxSize
  BY <1>3, <1>6, <1>7
<1>9. ASSUME NEW u \in 0 .. end - 1
      PROVE  Written(n)[base + u] = buffer[u]
  <2>1. /\ base + u \in 0 .. 2 * MaxSize - 1 /\ (base + u) - base = u /\ u \in Nat
        /\ base + u >= base /\ (base + u >= base + job.pos <=> u >= job.pos)
    BY <1>1, <1>2, Sizes
  <2>2. CASE u >= job.pos
    <3>1. u < end
      BY <1>2
    <3> QED BY <1>6, <2>1, <2>2, <3>1
  <2>3. CASE ~(u >= job.pos)
    <3>1. u \in 0 .. job.pos - 1
      BY <1>2, <2>1, <2>3
    <3> QED BY <1>5, <1>7, <2>1, <2>3, <3>1
  <2> QED BY <2>2, <2>3
<1>10. Written(n) \in [0 .. 2 * MaxSize - 1 -> Contents]
  <2>1. ASSUME NEW u \in 0 .. 2 * MaxSize - 1
        PROVE  (IF u >= base + job.pos /\ u - base < end THEN buffer[u - base] ELSE nand[u]) \in Contents
    BY <1>3, <1>6
  <2> QED BY <1>3, <1>4, <2>1
<1>11. ASSUME end = 0 PROVE Written(n) = nand
  <2>1. \A u \in 0 .. 2 * MaxSize - 1 : ~(u >= base + job.pos /\ u - base < end)
    BY <1>1, <1>2, <1>11, Sizes
  <2>2. \A u \in 0 .. 2 * MaxSize - 1 : Written(n)[u] = nand[u]
    BY <1>7, <2>1
  <2> DEFINE D == 0 .. 2 * MaxSize - 1
             w == Written(n)
  <2>3. w \in [D -> Contents] /\ nand \in [D -> Contents] /\ \A u \in D : w[u] = nand[u]
    BY <1>3, <1>10, <2>2
  <2> HIDE DEF D, w
  <2>4. w = nand
    BY ONLY <2>3
  <2> QED BY <2>4 DEF w
<1>12. \A u \in DOMAIN nand : Written(n)[u] # nand[u] =>
         u >= Base(job.part) /\ u < Base(job.part) + MaxSize
  BY <1>8 DEF base
<1>13. \A u \in 0 .. job.pos + 2 * n - 1 : Written(n)[Base(job.part) + u] = buffer[u]
  <2> SUFFICES ASSUME NEW u \in 0 .. job.pos + 2 * n - 1
               PROVE  Written(n)[Base(job.part) + u] = buffer[u]
    OBVIOUS
  <2>1. u \in 0 .. end - 1
    BY <1>2 DEF end
  <2>2. Written(n)[base + u] = buffer[u]
    BY <1>9, <2>1
  <2> QED BY <2>2 DEF base
<1>14. job.pos + 2 * n = 0 => Written(n) = nand
  BY <1>11 DEF end
<1> HIDE DEF Written
<1> QED BY <1>10, <1>12, <1>13, <1>14

LEMMA HeaderWrittenType ==
  ASSUME FirmIndInv, NEW n
  PROVE  HeaderWritten(n) \in [Parts -> BOOLEAN] /\ ~HeaderWritten(n)["firm1"]
<1>1. shax \in [Parts -> BOOLEAN] /\ ~shax["firm1"] /\ "firm1" \in Parts
  BY TypesParts DEF FirmIndInv, Parts
<1> QED BY <1>1 DEF HeaderWritten

LEMMA WriteTypes ==
  ASSUME FirmIndInv, job # NoJob, NEW n \in 0 .. Sectors(WriteSize), nand' = Written(n),
         shax' = HeaderWritten(n), UNCHANGED <<buffer, jobs>>, JobRange', Waiting',
         running' \in Programs, lost' \in BOOLEAN, cut' \in BOOLEAN
  PROVE  Types'
<1>1. nand' \in [0 .. 2 * MaxSize - 1 -> Contents]
  BY SectorsWritten
<1>2. /\ shax' \in [Parts -> BOOLEAN] /\ ~shax'["firm1"] /\ Types
      /\ buffer' \in [0 .. MaxSize - 1 -> Contents] /\ jobs' \in 0 .. MaxJobs
  BY HeaderWrittenType, TypesParts DEF FirmIndInv
<1> QED BY <1>1, <1>2, TypesStep

\* The header in the partition is the old one until the new one is there, and
\* with it superhax is gone.
LEMMA WrittenHeader ==
  ASSUME FirmIndInv, job # NoJob, NEW n \in 0 .. Sectors(WriteSize), nand' = Written(n),
         shax' = HeaderWritten(n)
  PROVE  \/ nand' = nand /\ shax' = shax
         \/ HeaderAt(nand', Base(job.part)) = Target /\ shax'[job.part] = FALSE
<1>1. /\ job.pos \in Nat /\ n \in Nat /\ job.pos % 2 = 0 /\ job.part \in Parts
      /\ job.pos > 0 => shax[job.part] = FALSE
  <2>1. job.pos \in Nat /\ job.pos % 2 = 0 /\ job.part \in Parts
    BY Job
  <2>2. job.pos > 0 => shax[job.part] = FALSE
    BY Job
  <2>3. n \in Nat
    BY Blocks
  <2> QED BY <2>1, <2>2, <2>3
<1>2. CASE job.pos + 2 * n = 0
  <2>1. n = 0 /\ job.pos = 0
    BY <1>1, <1>2
  <2>2. shax' = shax
    BY <2>1 DEF HeaderWritten
  <2> QED BY <1>2, <2>2, SectorsWritten
<1>3. CASE job.pos + 2 * n # 0
  <2>1. job.pos + 2 * n >= 2
    BY <1>1, <1>3
  <2>2. \A u \in 0 .. job.pos + 2 * n - 1 : nand'[Base(job.part) + u] = buffer[u]
    BY SectorsWritten
  <2>3. 0 \in 0 .. job.pos + 2 * n - 1 /\ 1 \in 0 .. job.pos + 2 * n - 1
    BY <1>1, <2>1
  <2>4. nand'[Base(job.part) + 0] = buffer[0] /\ nand'[Base(job.part) + 1] = buffer[1]
    BY <2>2, <2>3
  <2>5. Base(job.part) + 0 = Base(job.part)
    BY <1>1, BaseType
  <2>6. Target \in Names /\ Target # NoImage
    BY Job, ImageType
  <2>7. buffer[0] = Piece(Target, 0) /\ buffer[0 + 1] = Piece(Target, 1)
    BY <2>6, HeaderOf DEF Target
  <2>8. HeaderAt(nand', Base(job.part)) = Target
    BY <2>4, <2>5, <2>6, <2>7, HeaderOf
  <2>9. shax'[job.part] = FALSE
    <3>1. shax \in [Parts -> BOOLEAN]
      BY TypesParts DEF FirmIndInv
    <3>2. CASE job.pos > 0
      BY <1>1, <3>1, <3>2 DEF HeaderWritten
    <3>3. CASE ~(job.pos > 0)
      <4>1. job.pos = 0 /\ n > 0
        BY <1>1, <1>3, <3>3
      <4> QED BY <1>1, <3>1, <4>1 DEF HeaderWritten
    <3> QED BY <3>2, <3>3
  <2> QED BY <2>8, <2>9
<1> QED BY <1>2, <1>3

\* So what firm0 starts in the middle of an update is not older.
LEMMA WrittenCurrent ==
  ASSUME FirmIndInv, job # NoJob, NEW n \in 0 .. Sectors(WriteSize), nand' = Written(n),
         shax' = HeaderWritten(n), ~lost
  PROVE  Whole(nand', shax', "firm0") \/ (running.hax /\ shax'["firm0"])
           => NotOlder(HeaderAt(nand', 0))
<1>1. job.part = "firm0" /\ NotOlder(Target) /\ (Starting => NotOlder(HeaderAt(nand, 0)))
  BY DEF FirmIndInv, Current
<1>2. CASE nand' = nand /\ shax' = shax
  BY <1>1, <1>2 DEF Starting
<1>3. CASE HeaderAt(nand', Base(job.part)) = Target
  BY <1>1, <1>3 DEF Base
<1> QED BY <1>2, <1>3, WrittenHeader

\* A write fails, or what is read back is not the same.
LEMMA CutStep ==
  ASSUME FirmIndInv, job # NoJob, NEW n \in 0 .. Sectors(WriteSize), nand' = Written(n),
         shax' = HeaderWritten(n), UNCHANGED <<buffer, running, jobs, lost>>, cut' = TRUE,
         Failed(job.op)
  PROVE  FirmIndInv' /\ Newer
<1>1. job' = NoJob /\ report'.ok = FALSE
  BY ReportOf DEF Failed
<1>2. Types'
  <2>1. running' \in Programs /\ lost' \in BOOLEAN /\ cut' \in BOOLEAN /\ running.at = "menu"
    BY Job, TypesParts DEF FirmIndInv
  <2>2. Waiting' /\ JobRange'
    BY <1>1, <2>1, NoJobRange DEF Waiting
  <2> QED BY <2>1, <2>2, WriteTypes
<1>3. Current'
  <2> SUFFICES ASSUME ~lost PROVE Current'
    BY DEF Current
  <2>1. \A f : NotOlder(f)' <=> NotOlder(f)
    BY DEF NotOlder
  <2>2. (Starting => NotOlder(HeaderAt(nand, 0)))'
    BY <2>1, WrittenCurrent DEF Starting
  <2> QED BY <1>1, <2>2 DEF Current
<1>4. Newer
  BY DEF Newer
<1> QED BY <1>1, <1>2, <1>3, <1>4, NotReported, NoJobWriting DEF FirmIndInv

LEMMA FailStep ==
  ASSUME FirmIndInv, WriteFails
  PROVE  FirmIndInv' /\ Newer
<1>1. PICK n \in 0 .. Sectors(WriteSize) : nand' = Written(n) /\ shax' = HeaderWritten(n)
  BY DEF WriteFails
<1>2. /\ job # NoJob /\ Failed(job.op) /\ cut' = TRUE /\ UNCHANGED <<buffer, running, jobs, lost>>
  BY DEF WriteFails
<1> QED BY <1>1, <1>2, CutStep

LEMMA LossStep ==
  ASSUME FirmIndInv, PowerLoss
  PROVE  FirmIndInv' /\ Newer
<1>1. /\ job # NoJob /\ UNCHANGED <<buffer, jobs, lost>> /\ cut' = TRUE
      /\ job' = NoJob /\ report'.ok = FALSE /\ running' = Boot9(nand', shax')
  BY ReportOf DEF PowerLoss, Reboot
<1>2. PICK n \in 0 .. Sectors(WriteSize) : nand' = Written(n) /\ shax' = HeaderWritten(n)
  BY DEF PowerLoss
<1>3. shax' \in [Parts -> BOOLEAN] /\ ~shax'["firm1"]
  BY <1>2, HeaderWrittenType
<1>4. running' \in Programs /\ Fresh(running')
  BY <1>1, <1>3, Boots
<1>5. Types'
  <2>1. Waiting' /\ JobRange'
    BY <1>1, <1>4, NoJobRange DEF Waiting, Fresh
  <2>2. lost' \in BOOLEAN /\ cut' \in BOOLEAN
    BY <1>1, TypesParts DEF FirmIndInv
  <2> QED BY <1>1, <1>2, <1>4, <2>1, <2>2, WriteTypes
<1>6. Current' /\ Newer
  <2>1. Version(running.image) \in Nat
    BY TypesParts DEF FirmIndInv
  <2>2. ~lost' => (Whole(nand', shax', "firm0") => NotOlder(HeaderAt(nand', 0)))
    BY <1>1, <1>2, WrittenCurrent
  <2> QED BY <1>1, <1>3, <2>1, <2>2, RebootCurrent
<1> QED BY <1>1, <1>5, <1>6, NotReported, NoJobWriting DEF FirmIndInv

\* A block that is not the last.
LEMMA NextBlock ==
  ASSUME FirmIndInv, job # NoJob, nand' = Written(Sectors(WriteSize)),
         shax' = HeaderWritten(Sectors(WriteSize)), job.left # WriteSize,
         job' = [job EXCEPT !.pos = @ + WriteSize, !.left = @ - WriteSize],
         UNCHANGED <<buffer, jobs, lost, cut, running, report>>
  PROVE  FirmIndInv' /\ Newer
<1> DEFINE n == Sectors(WriteSize)
<1>1. /\ WriteSize \in Nat /\ 0 < WriteSize /\ WriteSize < job.left /\ WriteSize = BlkSize
      /\ n \in 0 .. Sectors(WriteSize) /\ 2 * n = WriteSize
  BY Blocks, Sizes
<1>2. job \in Jobs /\ report = NoReport /\ job.pos \in Nat /\ job.left \in Nat /\ job.pos % 2 = 0
      /\ job.pos + job.left = Length(Target) /\ Length(Target) \in Nat /\ Length(Target) <= MaxSize
  BY Job
<1>3. /\ job' \in Jobs /\ job'.op = job.op /\ job'.part = job.part
      /\ job'.pos = job.pos + WriteSize /\ job'.left = job.left - WriteSize
  <2>1. job.pos + WriteSize \in Nat /\ job.left - WriteSize \in Nat
    BY <1>1, <1>2
  <2> HIDE DEF n
  <2> QED BY <1>2, <2>1 DEF Jobs
<1>4. /\ job'.pos \in Nat /\ job'.left \in Nat /\ job'.left > 0 /\ job'.pos + job'.left = Length(Target)
      /\ job'.pos = job.pos + 2 * n
  BY <1>1, <1>2, <1>3
<1>5. job'.pos % 2 = 0
  BY <1>1, <1>2, <1>3, Sizes
<1> HIDE DEF n
<1>6. Target' = Target /\ UNCHANGED buffer
  BY DEF Target
<1>7. JobRange'
  BY <1>2, <1>3, <1>4, Job, Sizes DEF JobRange
<1>8. Types'
  <2>1. running' \in Programs /\ lost' \in BOOLEAN /\ cut' \in BOOLEAN /\ running.at = "menu"
    BY Job, TypesParts DEF FirmIndInv
  <2>2. Waiting'
    BY <2>1 DEF Waiting
  <2> QED BY <1>1, <1>7, <2>1, <2>2, WriteTypes DEF n
<1>9. \A u \in 0 .. job'.pos - 1 : nand'[Base(job'.part) + u] = buffer'[u]
  <2>1. \A u \in 0 .. job.pos + 2 * n - 1 : nand'[Base(job.part) + u] = buffer[u]
    BY <1>1, SectorsWritten DEF n
  <2> SUFFICES ASSUME NEW u \in 0 .. job'.pos - 1
               PROVE  nand'[Base(job'.part) + u] = buffer'[u]
    OBVIOUS
  <2>2. u \in 0 .. job.pos + 2 * n - 1
    BY <1>1, <1>2, <1>3, <1>4
  <2> QED BY <1>3, <2>1, <2>2
<1>10. (nand' = nand /\ shax' = shax) \/ shax'[job.part] = FALSE
  BY <1>1, WrittenHeader DEF n
<1>11. shax'[job'.part] = FALSE
  <2>1. shax \in [Parts -> BOOLEAN] /\ (job.pos > 0 => shax[job.part] = FALSE) /\ job.part \in Parts
    BY Job, TypesParts DEF FirmIndInv
  <2>2. CASE job.pos > 0
    BY <1>3, <1>10, <2>1, <2>2
  <2>3. CASE ~(job.pos > 0)
    <3>1. job.pos = 0 /\ n > 0
      BY <1>1, <1>2, <2>3
    <3>2. shax' = [shax EXCEPT ![job.part] = FALSE]
      BY <3>1 DEF HeaderWritten, n
    <3> QED BY <1>3, <2>1, <3>2
  <2> QED BY <2>2, <2>3
<1>12. Writing'
  <2>1. job' \in Jobs /\ job'.left > 0 /\ job'.pos % 2 = 0 /\ report' = NoReport
    BY <1>2, <1>3, <1>4, <1>5
  <2>2. /\ Target' \in Names /\ Verified(Target') /\ job'.pos + job'.left = Length(Target')
        /\ \A u \in Checked(Target') : u < Length(Target') => buffer'[u] = Piece(Target', u)
    BY <1>4, <1>6, Job
  <2> QED BY <1>9, <1>11, <2>1, <2>2 DEF Writing
<1>13. Current'
  <2> SUFFICES ASSUME ~lost PROVE Current'
    BY DEF Current
  <2>1. /\ job.op = "update" /\ job.part = "firm0" /\ NotOlder(Target)
        /\ \A u \in 0 .. Length(Target) - 1 : buffer[u] = Piece(Target, u)
    BY DEF FirmIndInv, Current
  <2>2. \A f : NotOlder(f)' <=> NotOlder(f)
    BY DEF NotOlder
  <2>3. (Starting => NotOlder(HeaderAt(nand, 0)))'
    BY <1>1, <2>2, WrittenCurrent DEF Starting, n
  <2>4. NotOlder(Target)'
    BY <1>6, <2>1, <2>2
  <2>5. (\A u \in 0 .. Length(Target) - 1 : buffer[u] = Piece(Target, u))'
    BY <1>6, <2>1
  <2>6. job' # NoJob
    BY <1>3, JobTypes
  <2> QED BY <1>3, <2>1, <2>3, <2>4, <2>5, <2>6 DEF Current
<1>14. ReportedBoots' /\ Newer
  BY <1>2, ReportOf, NotReported DEF Newer
<1> QED BY <1>8, <1>12, <1>13, <1>14 DEF FirmIndInv

\* A partition with all blocks of a regular image.
LEMMA LastBlock ==
  ASSUME FirmIndInv, job # NoJob, nand' = Written(Sectors(WriteSize)), job.left = WriteSize,
         Regular(Target)
  PROVE  \A u \in 0 .. Length(Target) - 1 : nand'[Base(job.part) + u] = buffer[u]
<1>1. /\ Length(Target) \in Nat /\ job.pos \in Nat /\ job.pos % 2 = 0 /\ job.left \in Nat
      /\ job.pos + job.left = Length(Target) /\ Target \in Names /\ Verified(Target)
  BY Job
<1>2. Length(Target) % 2 = 0
  BY <1>1, SectionsTyped, RegularSections, FirmSizeEven DEF Length
<1>3. WriteSize % 2 = 0
  BY <1>1, <1>2
<1>4. /\ Sectors(WriteSize) \in 0 .. Sectors(WriteSize)
      /\ job.pos + 2 * Sectors(WriteSize) = Length(Target)
  BY <1>1, <1>3, Blocks
<1>5. \A u \in 0 .. job.pos + 2 * Sectors(WriteSize) - 1 : nand'[Base(job.part) + u] = buffer[u]
  BY <1>4, SectorsWritten
<1>6. job.pos + 2 * Sectors(WriteSize) - 1 = Length(Target) - 1
  <2>1. job.pos \in Nat /\ Sectors(WriteSize) \in Nat
    BY Job, Blocks
  <2> QED BY ONLY <1>4, <2>1
<1> QED BY ONLY <1>5, <1>6

\* The last one, after which an update restarts the console.
LEMMA DoneStep ==
  ASSUME FirmIndInv, job # NoJob, nand' = Written(Sectors(WriteSize)),
         shax' = HeaderWritten(Sectors(WriteSize)), job.left = WriteSize, Done,
         UNCHANGED <<buffer, jobs, lost>>
  PROVE  FirmIndInv' /\ Newer
<1> DEFINE n == Sectors(WriteSize)
<1>1. /\ report' = [op |-> job.op, part |-> job.part, image |-> Target, ok |-> TRUE]
      /\ job' = NoJob
      /\ IF job.op = "update" THEN running' = Boot9(nand', shax') /\ cut' = FALSE
         ELSE UNCHANGED <<running, cut>>
  BY DEF Done, Target, Reboot
<1>2. /\ shax' \in [Parts -> BOOLEAN] /\ ~shax'["firm1"] /\ job.part \in Parts
      /\ n \in 0 .. Sectors(WriteSize) /\ running.at = "menu"
  BY HeaderWrittenType, Job, Blocks
<1>3. running' \in Programs /\ Waiting' /\ lost' \in BOOLEAN /\ cut' \in BOOLEAN
  <2>1. CASE job.op = "update"
    <3>1. running' \in Programs /\ Fresh(running')
      BY <1>1, <1>2, <2>1, Boots
    <3> QED BY <1>1, <2>1, <3>1, TypesParts DEF FirmIndInv, Waiting, Fresh
  <2>2. CASE job.op # "update"
    BY <1>1, <1>2, <2>2, TypesParts DEF FirmIndInv, Waiting
  <2> QED BY <2>1, <2>2
<1>4. Types'
  BY <1>1, <1>2, <1>3, NoJobRange, WriteTypes
<1>5. /\ Target \in Names /\ Verified(Target) /\ Length(Target) \in Nat
      /\ \A u \in Checked(Target) : u < Length(Target) => buffer[u] = Piece(Target, u)
      /\ job.op \in {"update", "install"}
  BY Job
<1>6. shax'[job.part] = FALSE
  <2>1. shax \in [Parts -> BOOLEAN] /\ (job.pos > 0 => shax[job.part] = FALSE) /\ job.pos \in Nat
        /\ (job.pos = 0 => n > 0)
    BY Job, Blocks, TypesParts DEF FirmIndInv
  <2> HIDE DEF n
  <2>2. CASE job.pos > 0
    BY <1>2, <2>1, <2>2 DEF HeaderWritten
  <2>3. CASE ~(job.pos > 0)
    <3>1. shax' = [shax EXCEPT ![job.part] = FALSE]
      BY <2>1, <2>3 DEF HeaderWritten, n
    <3> QED BY <1>2, <2>1, <3>1
  <2> QED BY <2>2, <2>3
<1> HIDE DEF n
<1>7. ASSUME Regular(Target) PROVE Carries(nand', job.part, Target)
  <2>1. \A u \in 0 .. Length(Target) - 1 : nand'[Base(job.part) + u] = buffer[u]
    BY <1>7, LastBlock
  <2>2. \A u \in Checked(Target) : u < Length(Target) => u \in 0 .. Length(Target) - 1
    BY <1>5 DEF Checked
  <2> QED BY <1>5, <2>1, <2>2 DEF Carries
<1>8. ReportedBoots'
  <2>1. ASSUME Regular(Target)
        PROVE  Whole(nand', shax', job.part) /\ HeaderAt(nand', Base(job.part)) = Target
    BY <1>2, <1>6, <1>7, <2>1, CarriesBoots
  <2>2. report'.part = job.part /\ report'.image = Target
    BY <1>1
  <2> QED BY <2>1, <2>2 DEF ReportedBoots
<1>9. Current' /\ Newer
  <2> SUFFICES ASSUME ~lost PROVE Current' /\ Newer
    BY DEF Current, Newer
  <2>1. /\ job.op = "update" /\ job.part = "firm0" /\ NotOlder(Target)
        /\ \A u \in 0 .. Length(Target) - 1 : buffer[u] = Piece(Target, u)
    BY DEF FirmIndInv, Current
  <2>2. Regular(Target) /\ Release(Target)
    BY <1>5, <2>1, ReleaseAssumption DEF NotOlder
  <2>3. Holds(nand', "firm0", Target)
    BY <1>5, <2>1, <2>2, LastBlock DEF Holds
  <2>4. \E f \in Names : NotOlder(f) /\ Holds(nand', "firm0", f)
    BY <1>5, <2>1, <2>3
  <2>5. Whole(nand', shax', "firm0") => NotOlder(HeaderAt(nand', 0))
    <3>1. HeaderAt(nand', 0) = Target
      BY <1>2, <2>2, <2>3, HoldsWhole
    <3> QED BY <2>1, <3>1
  <2>6. Version(running.image) \in Nat /\ running' = Boot9(nand', shax')
    BY <1>1, <2>1, TypesParts DEF FirmIndInv
  <2> QED BY <1>1, <1>2, <2>4, <2>5, <2>6, RebootCurrent
<1> QED BY <1>1, <1>4, <1>8, <1>9, NoJobWriting DEF FirmIndInv

LEMMA BlockStep ==
  ASSUME FirmIndInv, WriteBlock
  PROVE  FirmIndInv' /\ Newer
<1> DEFINE n == Sectors(WriteSize)
<1>1. /\ job # NoJob /\ nand' = Written(n) /\ shax' = HeaderWritten(n)
      /\ UNCHANGED <<buffer, jobs, lost>>
  BY DEF WriteBlock
<1>2. n \in 0 .. Sectors(WriteSize)
  BY <1>1, Blocks
<1>3. PICK same \in BOOLEAN :
        IF ~same THEN Failed(job.op) /\ UNCHANGED running /\ cut' = TRUE
        ELSE IF job.left = WriteSize THEN Done
        ELSE /\ job' = [job EXCEPT !.pos = @ + WriteSize, !.left = @ - WriteSize]
             /\ UNCHANGED <<running, report, cut>>
  BY DEF WriteBlock
<1>4. CASE ~same
  BY <1>1, <1>2, <1>3, <1>4, CutStep
<1>5. CASE same /\ job.left = WriteSize
  BY <1>1, <1>3, <1>5, DoneStep
<1>6. CASE same /\ job.left # WriteSize
  BY <1>1, <1>3, <1>6, NextBlock
<1> QED BY <1>4, <1>5, <1>6

-----------------------------------------------------------------------------
(* Theorems.                                                               *)

\* The console starts with a release in firm0.
LEMMA FirmInit == Init => FirmIndInv
<1> SUFFICES ASSUME Init PROVE FirmIndInv
  OBVIOUS
<1> DEFINE f == Installed["firm0"]
           secs == Sections(f, FALSE)
<1>1. /\ nand = [u \in 0 .. 2 * MaxSize - 1 |->
                   IF u < MaxSize THEN Piece(Installed["firm0"], u)
                   ELSE Piece(Installed["firm1"], u - MaxSize)]
      /\ shax = [p \in Parts |-> FALSE] /\ running = Boot9(nand, shax)
      /\ buffer = [u \in 0 .. MaxSize - 1 |-> Piece(NoImage, u)]
      /\ job = NoJob /\ report = NoReport
      /\ jobs = 0 /\ lost = FALSE /\ cut = FALSE
  BY DEF Init
<1>2. Installed["firm0"] \in Names /\ Installed["firm1"] \in Names
  BY ImagesAssumption DEF Parts
<1>3. shax \in [Parts -> BOOLEAN] /\ ~shax["firm1"] /\ ~shax["firm0"]
  BY <1>1 DEF Parts
<1>4. running \in Programs /\ Fresh(running)
  BY <1>1, <1>3, Boots
<1>5. Types
  <2>1. nand \in [0 .. 2 * MaxSize - 1 -> Contents]
    <3>1. ASSUME NEW u \in 0 .. 2 * MaxSize - 1
          PROVE  (IF u < MaxSize THEN Piece(Installed["firm0"], u)
                  ELSE Piece(Installed["firm1"], u - MaxSize)) \in Contents
      <4>1. CASE u < MaxSize
        <5>1. u \in 0 .. MaxSize - 1
          BY <4>1, Sizes
        <5> QED BY <1>2, <4>1, <5>1, PieceType
      <4>2. CASE ~(u < MaxSize)
        <5>1. u - MaxSize \in 0 .. MaxSize - 1
          BY <4>2, Sizes
        <5> QED BY <1>2, <4>2, <5>1, PieceType
      <4> QED BY <4>1, <4>2
    <3> QED BY <1>1, <3>1
  <2>2. buffer \in [0 .. MaxSize - 1 -> Contents]
    BY <1>1, PieceType
  <2>3. jobs \in 0 .. MaxJobs
    BY <1>1, Sizes
  <2>4. running.image \in Names \cup {NoImage} /\ running.at \in Places
        /\ (running.at # "menu" => running.hax /\ job = NoJob)
    BY <1>1, <1>4 DEF Programs, Fresh
  <2> QED BY <1>1, <1>3, <1>4, <2>1, <2>2, <2>3, <2>4, JobTypes DEF Types, FirmTypeOK, Places
<1>6. Writing
  BY <1>1 DEF Writing
<1>7. ReportedBoots
  BY <1>1, ReportOf DEF ReportedBoots
<1>8. /\ Release(f) /\ Images[f].entry9 /\ Images[f].intact
      /\ \A i \in DOMAIN secs : Present(secs[i]) =>
           secs[i].offset >= Header /\ End(secs[i]) <= MaxSize
  BY <1>2, InstalledAssumption, ReleaseAssumption DEF SectionOK
<1>9. Verified(f)
  BY <1>8 DEF Verified, Behind, Bounded
<1>10. Length(f) \in Nat /\ Length(f) <= MaxSize
  BY <1>2, <1>9, LengthType, Sizes
<1>11. Holds(nand, "firm0", f)
  <2> SUFFICES ASSUME NEW u \in 0 .. Length(f) - 1 PROVE nand[Base("firm0") + u] = Piece(f, u)
    BY <1>2, <1>9 DEF Holds
  <2>1. /\ u \in 0 .. 2 * MaxSize - 1 /\ u < MaxSize /\ Base("firm0") + u = u
    BY <1>10, Sizes DEF Base
  <2>2. nand[u] = Piece(f, u)
    BY <1>1, <2>1
  <2> QED BY <2>1, <2>2
<1>12. HeaderAt(nand, 0) = f /\ Whole(nand, shax, "firm0")
  BY <1>3, <1>8, <1>11, HoldsWhole
<1>13. running.image = f
  BY <1>1, <1>3, <1>12, Boots
<1>14. NotOlder(f)
  <2>1. VERS[f] \in Nat /\ Version(f) = VERS[f]
    BY <1>2, ImageType
  <2> QED BY <1>8, <1>13, <2>1 DEF NotOlder
<1> HIDE DEF f
<1>15. Current
  <2>1. f \in Names
    BY <1>2 DEF f
  <2> QED BY <1>1, <1>11, <1>12, <1>14, <2>1 DEF Current
<1> QED BY <1>5, <1>6, <1>7, <1>15 DEF FirmIndInv

\* Every step keeps the invariant, and starts nothing older.
LEMMA FirmStep == FirmIndInv /\ Next => FirmIndInv' /\ Newer
<1> SUFFICES ASSUME FirmIndInv, Next PROVE FirmIndInv' /\ Newer
  OBVIOUS
<1>1. Types /\ "firm1" \in Parts
  BY DEF FirmIndInv, Parts
<1>2. CASE \E f \in Names : menuUpdateFastboot3ds(LoadFile(f))
  BY <1>1, <1>2, FileLoaded, UpdateStep
<1>3. CASE menuUpdateFastboot3ds(LoadPartition("firm1"))
  <2>1. ~UpdateOK(LoadPartition("firm1"))
    BY DEF UpdateOK, LoadPartition
  <2> QED BY <1>1, <1>3, <2>1, PartitionLoaded, UpdateStep
<1>4. CASE \E f \in Names : Launch(LoadFile(f), FALSE)
  BY <1>1, <1>4, FileLoaded, LaunchStep
<1>5. CASE \E f \in Names, p \in Parts : menuInstallFirm(LoadFile(f), p)
  BY <1>1, <1>5, FileLoaded, InstallStep
<1>6. CASE \E p \in Parts : menuInstallFirm(LoadPartition("firm1"), p)
  BY <1>1, <1>6, PartitionLoaded, InstallStep
<1>7. CASE \E p \in Parts : Launch(LoadPartition(p), shax[p])
  <2>1. PICK p \in Parts : Launch(LoadPartition(p), shax[p])
    BY <1>7
  <2>2. shax[p] \in BOOLEAN
    BY <1>1, TypesParts
  <2> QED BY <1>1, <2>1, <2>2, PartitionLoaded, LaunchStep
<1>8. CASE WriteBlock
  BY <1>8, BlockStep
<1>9. CASE WriteFails
  BY <1>9, FailStep
<1>10. CASE PowerLoss
  BY <1>10, LossStep
<1>11. CASE menuDumpBootrom
  BY <1>11, ToggleStep
<1>12. CASE StartDump
  BY <1>12, StartDumpStep
<1>13. CASE DumpBootroms
  BY <1>13, DumpStep
<1>14. CASE outputEndWait
  BY <1>14, WaitStep
<1>15. CASE ContinueBoot
  BY <1>15, ContinueStep
<1>16. CASE Restart
  BY <1>16, RestartStep
<1> QED BY <1>2, <1>3, <1>4, <1>5, <1>6, <1>7, <1>8, <1>9, <1>10, <1>11, <1>12, <1>13, <1>14,
          <1>15, <1>16 DEF Next

LEMMA FirmStutter == FirmIndInv /\ UNCHANGED vars => FirmIndInv'
<1> SUFFICES ASSUME FirmIndInv, UNCHANGED vars PROVE FirmIndInv'
  OBVIOUS
<1>1. UNCHANGED <<nand, shax, buffer, running, job, report, jobs, lost, cut>>
  BY DEF vars
<1>2. Types' /\ ReportedBoots'
  BY <1>1 DEF FirmIndInv, Types, FirmTypeOK, ReportedBoots
<1>3. Target' = Target /\ (\A f : NotOlder(f)' <=> NotOlder(f)) /\ Starting' = Starting
  BY <1>1 DEF Target, NotOlder, Starting
<1>4. Writing' /\ Current'
  BY <1>1, <1>3 DEF FirmIndInv, Writing, Current
<1> QED BY <1>2, <1>4 DEF FirmIndInv

LEMMA FirmInductive == Spec => []FirmIndInv
<1>1. FirmIndInv /\ [Next]_vars => FirmIndInv'
  BY FirmStep, FirmStutter
<1> QED BY FirmInit, <1>1, PTL DEF Spec

\* The chip and the writer stay in range, and whatever is reported as written,
\* an update or any regular image that is installed, from a file or from firm1,
\* lies whole in its partition and is what the boot ROM finds there: the length
\* of the header is enough although the walk skips sections, and the last
\* sector is not lost.
THEOREM ReportedFirmBoots == Spec => []FirmInv
<1>1. FirmIndInv => FirmInv
  BY DEF FirmIndInv, Types, FirmInv
<1> QED BY <1>1, FirmInductive, PTL

\* A step that writes changes the partition of its job and nothing else, also
\* when the write fails or the power is lost, so the other one still starts.
THEOREM FirmIsolated == Spec => Isolated
<1>1. ASSUME FirmIndInv, Next, NEW u \in DOMAIN nand, nand'[u] # nand[u]
      PROVE  (job.part = "firm0") = (u < MaxSize)
  <2>1. job # NoJob /\ \E n \in 0 .. Sectors(WriteSize) : nand' = Written(n)
    <3>1. CASE UNCHANGED nand
      BY <1>1, <3>1
    <3>2. CASE WriteBlock
      <4>1. job # NoJob /\ nand' = Written(Sectors(WriteSize))
        BY <3>2 DEF WriteBlock
      <4> QED BY <1>1, <4>1, Blocks
    <3>3. CASE WriteFails \/ PowerLoss
      BY <3>3 DEF WriteFails, PowerLoss
    <3> QED BY <1>1, <3>1, <3>2, <3>3 DEF Next, menuUpdateFastboot3ds, menuInstallFirm, Launch,
              menuDumpBootrom, StartDump, DumpBootroms, outputEndWait, ContinueBoot, Restart
  <2>2. PICK n \in 0 .. Sectors(WriteSize) : nand' = Written(n)
    BY <2>1
  <2>3. u >= Base(job.part) /\ u < Base(job.part) + MaxSize
    BY <1>1, <2>1, <2>2, SectorsWritten
  <2>4. /\ Base(job.part) \in {0, MaxSize} /\ (job.part = "firm0") = (Base(job.part) = 0)
    BY <1>1, <2>1, Job, BaseType
  <2>5. u \in Nat
    BY <1>1, TypesParts DEF FirmIndInv
  <2> QED BY <2>3, <2>4, <2>5, Sizes
<1>2. FirmIndInv /\ [Next]_vars =>
        [\A u \in DOMAIN nand : nand'[u] # nand[u] => (job.part = "firm0") = (u < MaxSize)]_vars
  BY <1>1
<1> QED BY <1>2, FirmInductive, PTL DEF Spec, Isolated

\* On a console on which nothing is installed or launched by hand no update,
\* failing write, loss of power, restart or dump makes firm0 start a fastboot3DS
\* older than the one that runs: the header goes first and takes superhax with
\* it, and what has a header of the old image and sections of the new does not
\* start at all.
THEOREM FirmNeverOlder == Spec => NeverOlder
<1>1. FirmIndInv /\ [Next]_vars =>
        [~lost' /\ running'.image # running.image =>
           \/ IsFastboot(running'.image) /\ Version(running'.image) >= Version(running.image)
           \/ cut' /\ ~Whole(nand', shax', "firm0")]_vars
  BY FirmStep DEF Newer
<1> QED BY <1>1, FirmInductive, PTL DEF Spec, NeverOlder
=============================================================================
