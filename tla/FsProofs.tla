------------------------------- MODULE FsProofs -------------------------------
(***************************************************************************)
(* Proofs about the filesystem server, for every archive, every size of a  *)
(* sector, any number of handles and any clients.                          *)
(***************************************************************************)
EXTENDS Fs, FiniteSetTheorems, SeqProofs

-----------------------------------------------------------------------------
(* Arithmetic of sectors.                                                  *)
LEMMA Quotient ==
    ASSUME NEW n \in Nat, NEW d \in Nat \ {0}
    PROVE  n \div d \in Nat /\ (n \div d) * d <= n /\ n < (n \div d) * d + d
<1>1. n \div d \in Nat
  OBVIOUS
<1>2. (n \div d) * d <= n
  OBVIOUS
<1>3. n < (n \div d) * d + d
  OBVIOUS
<1> QED
  BY <1>1, <1>2, <1>3

LEMMA TimesLess ==
    ASSUME NEW a \in Int, NEW b \in Int, NEW d \in Nat \ {0}
    PROVE  a < b <=> a * d < b * d
<1>1. ASSUME a < b PROVE a * d < b * d
  BY <1>1
<1>2. ASSUME a * d < b * d PROVE a < b
  BY <1>2
<1> QED
  BY <1>1, <1>2

LEMMA TimesNext ==
    ASSUME NEW a \in Int, NEW d \in Nat \ {0}
    PROVE  (a + 1) * d = a * d + d /\ (a - 1) * d = a * d - d /\ a * d \in Int
OBVIOUS

LEMMA TimesGrows == ASSUME NEW a \in Nat, NEW d \in Nat \ {0} PROVE a <= a * d
OBVIOUS

-----------------------------------------------------------------------------
(* Where the members lie on the disk.                                      *)
Files == [name : Seq(STRING) \ {<< >>}, size : Nat]

\* The sectors that hold size bytes.
Sectors(size) == (size + SECTOR - 1) \div SECTOR

Holds(n, size) == n \in 0 .. size /\ n * SECTOR >= size /\ (n - 1) * SECTOR < size

\* Rounding up, as the walk does, gives as few sectors as hold the data.
LEMMA SectorsHold == ASSUME NEW size \in Nat PROVE Holds(Sectors(size), size)
<1> DEFINE q == Sectors(size)
<1>1. size + SECTOR - 1 \in Nat /\ SECTOR \in Nat \ {0}
  BY FsAssumption
<1>2. q \in Nat /\ q * SECTOR <= size + SECTOR - 1 /\ size + SECTOR - 1 < q * SECTOR + SECTOR
  BY <1>1, Quotient DEF Sectors
<1> HIDE DEF q
<1>3. q * SECTOR >= size /\ (q - 1) * SECTOR < size /\ q * SECTOR \in Int
  BY <1>1, <1>2, TimesNext
<1>4. q <= size
  <2>1. CASE q = 0
    BY <2>1
  <2>2. CASE q # 0
    <3>1. q - 1 \in Nat /\ q - 1 <= (q - 1) * SECTOR
      BY <1>1, <1>2, <2>2, TimesGrows
    <3>2. (q - 1) * SECTOR \in Int
      BY <1>1, <1>2, TimesNext
    <3> QED
      BY <1>2, <1>3, <3>1, <3>2
  <2> QED
    BY <2>1, <2>2
<1> QED
  BY <1>2, <1>3, <1>4 DEF Holds, q

LEMMA FileSectors ==
    ASSUME NEW a \in Seq(Files), NEW k \in 1 .. Len(a)
    PROVE  a[k] \in Files /\ a[k].size \in Nat /\ Sectors(a[k].size) \in Nat
<1>1. a[k] \in Files
  BY ElementOfSeq
<1>2. a[k].size \in Nat
  BY <1>1 DEF Files
<1>3. Holds(Sectors(a[k].size), a[k].size)
  BY <1>2, SectorsHold
<1> HIDE DEF Sectors
<1> QED
  BY <1>1, <1>2, <1>3 DEF Holds

LEMMA HoldsOnce ==
    ASSUME NEW size \in Nat, NEW m, NEW n, Holds(m, size), Holds(n, size)
    PROVE  m = n
<1>1. SECTOR \in Nat \ {0}
  BY FsAssumption
<1>2. ASSUME NEW i, NEW j, Holds(i, size), Holds(j, size) PROVE i <= j
  <2>1. i \in Nat /\ j \in Nat /\ i - 1 \in Int
    BY <1>2 DEF Holds
  <2>2. (i - 1) * SECTOR < size /\ size <= j * SECTOR
    BY <1>2 DEF Holds
  <2>3. (i - 1) * SECTOR \in Int /\ j * SECTOR \in Int
    BY <1>1, <2>1, TimesNext
  <2>4. (i - 1) * SECTOR < j * SECTOR
    BY <2>2, <2>3
  <2>a. PICK h \in Int : h = i - 1
    BY <2>1
  <2>5. i - 1 < j
    BY <1>1, <2>1, <2>4, <2>a, TimesLess
  <2> QED
    BY <2>1, <2>5
<1>3. m \in Nat /\ n \in Nat
  BY DEF Holds
<1>4. m <= n /\ n <= m
  BY <1>2
<1> QED
  BY <1>3, <1>4

AnySector == [name : Seq(STRING), size : Nat, data : [0 .. SECTOR - 1 -> Nat \X Nat]]

Header(f) == ArchiveSector(f.name, f.size, Filler)

LEMMA SectorTypes ==
    /\ \A f \in Files : Header(f) \in AnySector
    /\ \A k, i, size \in Nat : DataSector(k, i, size) \in AnySector
    /\ End \in AnySector
<1>1. SECTOR \in Nat \ {0}
  BY FsAssumption
<1>2. Filler \in [0 .. SECTOR - 1 -> Nat \X Nat]
  BY DEF Filler, Pad
<1>3. ASSUME NEW f \in Files PROVE Header(f) \in AnySector
  BY <1>2 DEF Header, Files, ArchiveSector, AnySector
<1>4. ASSUME NEW k \in Nat, NEW i \in Nat, NEW size \in Nat PROVE DataSector(k, i, size) \in AnySector
  <2> DEFINE d == [j \in 0 .. SECTOR - 1 |->
                     IF i * SECTOR + j < size THEN <<k, i * SECTOR + j>> ELSE Pad]
  <2>1. ASSUME NEW j \in 0 .. SECTOR - 1 PROVE d[j] \in Nat \X Nat
    <3>1. i * SECTOR + j \in Nat
      BY <1>1
    <3> QED
      BY <3>1 DEF Pad
  <2>2. d = [j \in 0 .. SECTOR - 1 |-> d[j]]
    OBVIOUS
  <2> HIDE DEF d
  <2>3. d \in [0 .. SECTOR - 1 -> Nat \X Nat]
    BY <2>1, <2>2
  <2>4. DataSector(k, i, size) = ArchiveSector(<< >>, 0, d)
    BY DEF DataSector, d
  <2> QED
    BY <2>3, <2>4 DEF ArchiveSector, AnySector
<1>5. End \in AnySector
  BY <1>2 DEF End, ArchiveSector, AnySector
<1> QED
  BY <1>3, <1>4, <1>5

\* A member: its header and its data.
LEMMA MemberIs ==
    ASSUME NEW a \in Seq(Files), NEW k \in 1 .. Len(a)
    PROVE  /\ Member(a, k) \in Seq(AnySector)
           /\ Len(Member(a, k)) = 1 + Sectors(a[k].size)
           /\ Member(a, k)[1] = Header(a[k])
           /\ \A i \in 1 .. Sectors(a[k].size) : Member(a, k)[1 + i] = DataSector(k, i - 1, a[k].size)
<1> DEFINE size == a[k].size
           n == Sectors(size)
           head == <<Header(a[k])>>
           data == [i \in 1 .. n |-> DataSector(k, i - 1, size)]
<1>1. a[k] \in Files /\ size \in Nat /\ k \in Nat
  <2>1. a[k] \in Files
    BY ElementOfSeq
  <2> QED
    BY <2>1 DEF Files
<1>2. Holds(n, size)
  BY <1>1, SectorsHold
<1>3. (CHOOSE m \in 0 .. size : m * SECTOR >= size /\ (m - 1) * SECTOR < size) = n
  <2> DEFINE c == CHOOSE m \in 0 .. size : m * SECTOR >= size /\ (m - 1) * SECTOR < size
  <2>1. \E m \in 0 .. size : m * SECTOR >= size /\ (m - 1) * SECTOR < size
    BY <1>2 DEF Holds
  <2>2. c \in 0 .. size /\ c * SECTOR >= size /\ (c - 1) * SECTOR < size
    BY <2>1, Zenon
  <2>3. Holds(c, size)
    BY <2>2 DEF Holds
  <2> HIDE DEF c, size, n
  <2> QED
    BY <1>1, <1>2, <2>3, HoldsOnce DEF c
<1>4. Member(a, k) = head \o data
  BY <1>3, Zenon DEF Member, Header
<1>5. n \in Nat
  BY <1>2 DEF Holds
<1>6. head \in Seq(AnySector) /\ Len(head) = 1 /\ head[1] = Header(a[k])
  BY <1>1, SectorTypes
<1> HIDE DEF n, size, head
<1>7. data \in Seq(AnySector) /\ Len(data) = n /\ \A i \in 1 .. n : data[i] = DataSector(k, i - 1, size)
  <2>1. \A i \in 1 .. n : DataSector(k, i - 1, size) \in AnySector
    BY <1>1, <1>5, SectorTypes
  <2>2. data \in [1 .. n -> AnySector]
    BY <2>1
  <2> QED
    BY <1>5, <2>2
<1> HIDE DEF data
<1>8. /\ head \o data \in Seq(AnySector) /\ Len(head \o data) = Len(head) + Len(data)
      /\ \A i \in 1 .. Len(head) : (head \o data)[i] = head[i]
      /\ \A i \in Len(head) + 1 .. Len(head) + Len(data) : (head \o data)[i] = data[i - Len(head)]
  BY <1>6, <1>7, Cat
<1>9. \A i \in 1 .. n : (head \o data)[1 + i] = DataSector(k, i - 1, size)
  <2> TAKE i \in 1 .. n
  <2>1. 1 + i \in Len(head) + 1 .. Len(head) + Len(data) /\ (1 + i) - Len(head) = i
    BY <1>5, <1>6, <1>7
  <2> QED
    BY <1>7, <1>8, <2>1
<1> QED
  BY <1>4, <1>6, <1>7, <1>8, <1>9 DEF n, size

Members(a) == [k \in DOMAIN a |-> Member(a, k)]

IsLayout(p, a) ==
    /\ p \in [0 .. Len(a) -> Seq(AnySector)]
    /\ Accumulates(p, Members(a))
    /\ FlattenSeq(Members(a)) = p[Len(a)]

Layout(a) == CHOOSE p : IsLayout(p, a)

\* The sector of the header of member k; the end mark is one past the last.
Start(a, k) == Len(Layout(a)[k - 1])

LEMMA MembersType ==
    ASSUME NEW a \in Seq(Files)
    PROVE  /\ Members(a) \in Seq(Seq(AnySector)) /\ Len(Members(a)) = Len(a) /\ Len(a) \in Nat
           /\ \A k \in 1 .. Len(a) : Members(a)[k] = Member(a, k)
<1>1. Len(a) \in Nat /\ DOMAIN a = 1 .. Len(a)
  BY LenProperties
<1>2. \A k \in 1 .. Len(a) : Member(a, k) \in Seq(AnySector)
  BY MemberIs
<1>3. Members(a) \in [1 .. Len(a) -> Seq(AnySector)]
  BY <1>1, <1>2 DEF Members
<1> QED
  BY <1>1, <1>3 DEF Members

LEMMA LayoutIs == ASSUME NEW a \in Seq(Files) PROVE IsLayout(Layout(a), a)
<1>1. \E p \in [0 .. Len(Members(a)) -> Seq(AnySector)] :
         Accumulates(p, Members(a)) /\ FlattenSeq(Members(a)) = p[Len(Members(a))]
  BY MembersType, FlattenPrefixes
<1>2. \E p : IsLayout(p, a)
  BY <1>1, MembersType DEF IsLayout
<1> QED
  BY <1>2, Zenon DEF Layout

LEMMA DiskIs ==
    ASSUME NEW a \in Archives
    PROVE  /\ a \in Seq(Files)
           /\ Disk[a] = FlattenSeq(Members(a)) \o <<End, End>>
BY FsAssumption DEF Disk, Members, Files

\* One member after the other.
StartsAt(a) ==
    /\ \A k \in 1 .. Len(a) + 1 : Start(a, k) \in Nat
    /\ Start(a, 1) = 0
    /\ \A k \in 1 .. Len(a) : Start(a, k + 1) = Start(a, k) + 1 + Sectors(a[k].size)
    /\ \A k \in 1 .. Len(a) + 1 : \A j \in k .. Len(a) + 1 : Start(a, k) <= Start(a, j)

LEMMA StartFacts == ASSUME NEW a \in Seq(Files) PROVE StartsAt(a)
<1> DEFINE p == Layout(a)
<1>1. IsLayout(p, a)
  BY LayoutIs
<1> HIDE DEF p
<1>2. Len(a) \in Nat
  BY MembersType
<1>3. ASSUME NEW k \in 0 .. Len(a) PROVE p[k] \in Seq(AnySector) /\ Len(p[k]) \in Nat
  BY <1>1, LenProperties DEF IsLayout
<1>4. ASSUME NEW k \in 1 .. Len(a)
      PROVE  Len(p[k]) = Len(p[k - 1]) + 1 + Sectors(a[k].size)
  <2> DEFINE m == Member(a, k)
             q == p[k - 1]
  <2>1. k - 1 \in 0 .. Len(a) /\ k \in 1 .. Len(Members(a)) /\ Members(a)[k] = m
    BY <1>2, MembersType
  <2>2. p[k] = q \o m
    BY <1>1, <2>1 DEF IsLayout, Accumulates
  <2>3. q \in Seq(AnySector) /\ m \in Seq(AnySector) /\ Len(m) = 1 + Sectors(a[k].size)
    BY <1>3, <2>1, MemberIs
  <2> HIDE DEF q, m
  <2>4. Len(p[k]) = Len(q) + Len(m) /\ Len(q) \in Nat /\ Len(m) \in Nat
    BY <2>2, <2>3, Cat, LenProperties
  <2>5. Sectors(a[k].size) \in Nat
    BY FileSectors
  <2>6. Len(p[k]) = Len(q) + 1 + Sectors(a[k].size)
    <3> DEFINE s == Sectors(a[k].size)
               l == Len(p[k])
    <3> HIDE DEF s, l
    <3>1. l = Len(q) + Len(m) /\ Len(m) = 1 + s /\ s \in Nat /\ Len(q) \in Nat
      BY <2>3, <2>4, <2>5 DEF s, l
    <3>2. l = Len(q) + 1 + s
      BY ONLY <3>1
    <3> QED
      BY <3>2 DEF s, l
  <2> QED
    BY <2>6 DEF q
<1>5. ASSUME NEW i \in 0 .. Len(a), NEW j \in i .. Len(a) PROVE Len(p[i]) <= Len(p[j])
  <2>1. Members(a) \in Seq(Seq(AnySector)) /\ Len(Members(a)) = Len(a)
    BY MembersType
  <2>2. p \in [0 .. Len(Members(a)) -> Seq(AnySector)] /\ Accumulates(p, Members(a))
    BY <1>1, <2>1 DEF IsLayout
  <2>3. Continues(p[i], p[j])
    BY <2>1, <2>2, PrefixBegins
  <2> QED
    BY <2>3 DEF Continues
<1>6. p[0] = << >>
  BY <1>1 DEF IsLayout, Accumulates
<1> USE DEF Start, p
<1>7. \A k \in 1 .. Len(a) + 1 : Start(a, k) \in Nat
  <2> TAKE k \in 1 .. Len(a) + 1
  <2>1. k - 1 \in 0 .. Len(a)
    BY <1>2
  <2> QED
    BY <1>3, <2>1
<1>8. Start(a, 1) = 0
  BY <1>6
<1>9. ASSUME NEW k \in 1 .. Len(a) PROVE Start(a, k + 1) = Start(a, k) + 1 + Sectors(a[k].size)
  <2>1. (k + 1) - 1 = k
    OBVIOUS
  <2> QED
    BY <1>4, <2>1
<1>10. ASSUME NEW k \in 1 .. Len(a) + 1, NEW j \in k .. Len(a) + 1 PROVE Start(a, k) <= Start(a, j)
  <2>1. k - 1 \in 0 .. Len(a) /\ j - 1 \in (k - 1) .. Len(a)
    BY <1>2
  <2> QED
    BY <1>5, <2>1
<1> HIDE DEF Start, p
<1> QED
  BY <1>7, <1>8, <1>9, <1>10 DEF StartsAt

\* What the driver reads there.
MemberAt(a, k) ==
    /\ Disk[a][Start(a, k) + 1] = Header(a[k])
    /\ \A i \in 1 .. Sectors(a[k].size) : Disk[a][Start(a, k) + 1 + i] = DataSector(k, i - 1, a[k].size)

Laid(a) ==
    /\ Disk[a] \in Seq(AnySector)
    /\ Len(Disk[a]) = Start(a, Len(a) + 1) + 2
    /\ Disk[a][Start(a, Len(a) + 1) + 1] = End
    /\ \A k \in 1 .. Len(a) : MemberAt(a, k)

LEMMA DiskLaid == ASSUME NEW a \in Archives PROVE Laid(a)
<1> DEFINE p == Layout(a)
           n == Len(a)
           d == p[n]
           e == <<End, End>>
<1>1. a \in Seq(Files) /\ Disk[a] = FlattenSeq(Members(a)) \o e
  BY DiskIs
<1>2. IsLayout(p, a)
  BY <1>1, LayoutIs
<1> HIDE DEF p
<1>3. n \in Nat
  BY <1>1, MembersType
<1>4. d \in Seq(AnySector) /\ Disk[a] = d \o e
  BY <1>1, <1>2, <1>3 DEF IsLayout
<1>5. e \in Seq(AnySector) /\ Len(e) = 2 /\ e[1] = End
  BY SectorTypes
<1>6. Start(a, n + 1) = Len(d) /\ Len(d) \in Nat
  <2>1. (n + 1) - 1 = n
    BY <1>3
  <2> QED
    BY <1>4, <2>1, LenProperties DEF Start, p
<1> HIDE DEF d, e
<1>7. /\ Disk[a] \in Seq(AnySector) /\ Len(Disk[a]) = Len(d) + 2
      /\ \A i \in 1 .. Len(d) : Disk[a][i] = d[i]
      /\ \A i \in Len(d) + 1 .. Len(d) + 2 : Disk[a][i] = e[i - Len(d)]
  <2>1. /\ d \o e \in Seq(AnySector) /\ Len(d \o e) = Len(d) + Len(e)
        /\ \A i \in 1 .. Len(d) : (d \o e)[i] = d[i]
        /\ \A i \in Len(d) + 1 .. Len(d) + Len(e) : (d \o e)[i] = e[i - Len(d)]
    BY <1>4, <1>5, Cat
  <2>2. PICK x : x = d \o e
    OBVIOUS
  <2> QED
    BY <1>4, <1>5, <2>1, <2>2
<1>8. Disk[a][Len(d) + 1] = End
  <2>1. Len(d) + 1 \in Len(d) + 1 .. Len(d) + 2 /\ (Len(d) + 1) - Len(d) = 1
    BY <1>6
  <2> QED
    BY <1>5, <1>7, <2>1
<1>9. ASSUME NEW k \in 1 .. n PROVE MemberAt(a, k)
  <2> DEFINE m == Member(a, k)
             q == p[k - 1]
  <2>1. k - 1 \in 0 .. n /\ k \in 0 .. n /\ n \in k .. n
        /\ k \in 1 .. Len(Members(a)) /\ Members(a)[k] = m
    BY <1>1, <1>3, MembersType
  <2>2. p[k] = q \o m
    BY <1>2, <2>1 DEF IsLayout, Accumulates
  <2>3. q \in Seq(AnySector) /\ p[k] \in Seq(AnySector) /\ Start(a, k) = Len(q) /\ Len(q) \in Nat
    BY <1>2, <2>1, LenProperties DEF IsLayout, Start, p
  <2>4. /\ m \in Seq(AnySector) /\ Len(m) = 1 + Sectors(a[k].size)
        /\ m[1] = Header(a[k])
        /\ \A i \in 1 .. Sectors(a[k].size) : m[1 + i] = DataSector(k, i - 1, a[k].size)
    BY <1>1, MemberIs
  <2>5. Len(p[k]) <= Len(d) /\ \A i \in 1 .. Len(p[k]) : d[i] = p[k][i]
    <3>1. Members(a) \in Seq(Seq(AnySector)) /\ Len(Members(a)) = n
      BY <1>1, MembersType
    <3>2. p \in [0 .. Len(Members(a)) -> Seq(AnySector)] /\ Accumulates(p, Members(a))
      BY <1>2, <3>1 DEF IsLayout
    <3>3. k \in 0 .. Len(Members(a)) /\ n \in k .. Len(Members(a))
      BY <2>1, <3>1
    <3>4. Len(p[k]) <= Len(p[n]) /\ \A i \in 1 .. Len(p[k]) : p[n][i] = p[k][i]
      <4>1. Continues(p[k], p[n])
        BY <3>1, <3>2, <3>3, PrefixBegins
      <4> QED
        BY <4>1 DEF Continues
    <3> QED
      BY <3>4 DEF d
  <2> DEFINE r == p[k]
             s == Sectors(a[k].size)
  <2> HIDE DEF q, m, r
  <2>6. /\ Len(r) = Len(q) + Len(m) /\ Len(m) \in Nat
        /\ \A i \in Len(q) + 1 .. Len(q) + Len(m) : r[i] = m[i - Len(q)]
    <3>1. q \in Seq(AnySector) /\ m \in Seq(AnySector) /\ r = q \o m
      BY <2>2, <2>3, <2>4 DEF r
    <3>2. /\ Len(q \o m) = Len(q) + Len(m)
          /\ \A i \in Len(q) + 1 .. Len(q) + Len(m) : (q \o m)[i] = m[i - Len(q)]
      BY <3>1, Cat
    <3> QED
      BY <3>1, <3>2, LenProperties
  <2>7. s \in Nat
    BY <1>1, FileSectors
  <2> HIDE DEF s
  <2>8. ASSUME NEW i \in 0 .. s PROVE Disk[a][Len(q) + 1 + i] = m[1 + i]
    <3>1. /\ Len(q) + 1 + i \in Len(q) + 1 .. Len(q) + Len(m)
          /\ (Len(q) + 1 + i) - Len(q) = 1 + i
          /\ Len(q) + 1 + i \in 1 .. Len(r) /\ Len(q) + 1 + i \in 1 .. Len(d)
      <4>1. /\ Len(q) \in Nat /\ Len(m) = 1 + s /\ Len(r) = Len(q) + Len(m) /\ s \in Nat
            /\ Len(r) <= Len(d) /\ Len(d) \in Nat
        BY <1>6, <2>3, <2>4, <2>5, <2>6, <2>7 DEF r, s
      <4> QED
        BY ONLY <4>1, i \in 0 .. s
    <3> QED
      BY <1>7, <2>5, <2>6, <3>1 DEF r
  <2>9. Disk[a][Len(q) + 1] = Header(a[k])
    <3>1. 0 \in 0 .. s /\ Len(q) + 1 + 0 = Len(q) + 1 /\ 1 + 0 = 1
      BY <2>3, <2>7
    <3> QED
      BY <2>4, <2>8, <3>1
  <2>10. \A i \in 1 .. s : Disk[a][Len(q) + 1 + i] = DataSector(k, i - 1, a[k].size)
    <3> TAKE i \in 1 .. s
    <3>1. i \in 0 .. s
      BY <2>7
    <3> QED
      BY <2>4, <2>8, <3>1 DEF s
  <2> QED
    BY <2>3, <2>9, <2>10 DEF MemberAt, s
<1> QED
  BY <1>6, <1>7, <1>8, <1>9 DEF Laid, n

-----------------------------------------------------------------------------
(* The walk over the headers.                                              *)
HeaderFacts(f) ==
    /\ Header(f).name = f.name /\ Header(f).size = f.size
    /\ ~Ends(Header(f)) /\ Header(f) # Failed
    /\ Skips(Header(f)) = 1 + Sectors(f.size)

LEMMA HeaderIs == ASSUME NEW f \in Files PROVE HeaderFacts(f)
<1>1. Header(f).name = f.name /\ Header(f).size = f.size
  BY DEF Header, ArchiveSector
<1>2. Header(f) # Failed
  <2>1. Failed.size = -1 /\ f.size # -1
    BY DEF Failed, ArchiveSector, Files
  <2> QED
    BY <1>1, <2>1
<1>3. f.name # << >>
  BY DEF Files
<1> QED
  BY <1>1, <1>2, <1>3 DEF HeaderFacts, Ends, Skips, Sectors

LEMMA EndIs == End.name = << >> /\ End # Failed /\ Ends(End)
<1>1. End.size = 0 /\ Failed.size = -1 /\ End.name = << >>
  BY DEF End, Failed, ArchiveSector
<1> QED
  BY <1>1 DEF Ends

LEMMA DataIs ==
    ASSUME NEW k, NEW i, NEW size
    PROVE  /\ DataSector(k, i, size) # Failed
           /\ \A j \in 0 .. SECTOR - 1 :
                 i * SECTOR + j < size => DataSector(k, i, size).data[j] = <<k, i * SECTOR + j>>
<1>1. DataSector(k, i, size).size = 0 /\ Failed.size = -1
  BY DEF DataSector, Failed, ArchiveSector
<1> QED
  BY <1>1 DEF DataSector, ArchiveSector

\* What a walk meets at the k-th header.
Meets(hdr, k) ==
    \/ hdr = Failed
    \/ k \in 1 .. Len(archive) /\ hdr = Header(archive[k]) /\ HeaderFacts(archive[k])
    \/ k = Len(archive) + 1 /\ hdr = End /\ Ends(hdr) /\ hdr # Failed

LEMMA WalkMeets ==
    ASSUME archive \in Archives, NEW k \in 1 .. Len(archive) + 1,
           NEW hdr \in BlkRead(Start(archive, k))
    PROVE  Meets(hdr, k)
<1>1. archive \in Seq(Files) /\ Laid(archive) /\ Len(archive) \in Nat
  BY DiskIs, DiskLaid, MembersType
<1>2. hdr = Failed \/ hdr = Disk[archive][Start(archive, k) + 1]
  BY DEF BlkRead
<1>3. CASE k \in 1 .. Len(archive)
  <2>1. Disk[archive][Start(archive, k) + 1] = Header(archive[k])
    BY <1>1, <1>3 DEF Laid, MemberAt
  <2>2. archive[k] \in Files
    BY <1>1, <1>3, FileSectors
  <2> QED
    BY <1>2, <1>3, <2>1, <2>2, HeaderIs DEF Meets
<1>4. CASE k = Len(archive) + 1
  BY <1>1, <1>2, <1>4, EndIs DEF Laid, Meets
<1> QED
  BY <1>1, <1>3, <1>4

\* The walk goes on to the next header.
LEMMA WalkGoes ==
    ASSUME archive \in Archives, NEW k \in 1 .. Len(archive) + 1, NEW hdr, Meets(hdr, k), ~Ends(hdr)
    PROVE  /\ k \in 1 .. Len(archive) /\ hdr = Header(archive[k])
           /\ hdr.name = archive[k].name /\ hdr.size = archive[k].size /\ hdr # Failed
           /\ Start(archive, k) + Skips(hdr) = Start(archive, k + 1)
           /\ k + 1 \in 1 .. Len(archive) + 1
<1>1. archive \in Seq(Files) /\ StartsAt(archive) /\ Len(archive) \in Nat
  BY DiskIs, StartFacts, MembersType
<1>2. k \in 1 .. Len(archive) /\ hdr = Header(archive[k]) /\ HeaderFacts(archive[k])
  BY DEF Meets, Ends
<1>3. Skips(hdr) = 1 + Sectors(archive[k].size)
  BY <1>2 DEF HeaderFacts
<1>4. Sectors(archive[k].size) \in Nat /\ Start(archive, k) \in Nat
  BY <1>1, <1>2, FileSectors DEF StartsAt
<1>5. Start(archive, k + 1) = Start(archive, k) + 1 + Sectors(archive[k].size)
  BY <1>1, <1>2 DEF StartsAt
<1> HIDE DEF Start, Sectors, Skips
<1>6. Start(archive, k) + Skips(hdr) = Start(archive, k + 1)
  BY <1>3, <1>4, <1>5
<1> QED
  BY <1>1, <1>2, <1>6 DEF HeaderFacts

\* A header that ends the walk without an error is past every member.
LEMMA WalkEnds ==
    ASSUME archive \in Archives, NEW k \in 1 .. Len(archive) + 1, NEW hdr, Meets(hdr, k),
           Ends(hdr), hdr # Failed
    PROVE  k = Len(archive) + 1
BY DEF Meets, HeaderFacts

-----------------------------------------------------------------------------
(* The names of the archive.                                               *)
Letters == STRING \cup {"nl"}

Texts(a) == [k \in DOMAIN a |-> Append(a[k].name, "nl")]

LEMMA NameType ==
    ASSUME NEW f \in Files
    PROVE  f.name \in Seq(Letters) /\ Len(f.name) \in Nat
<1>1. f.name \in Seq(STRING)
  BY DEF Files
<1>2. STRING \subseteq Letters
  BY DEF Letters
<1>3. f.name \in Seq(Letters)
  BY <1>1, <1>2, SeqMonotonic
<1> QED
  BY <1>3, LenProperties

IsListing(p, a) ==
    /\ p \in [0 .. Len(a) -> Seq(Letters)]
    /\ Accumulates(p, Texts(a))
    /\ FlattenSeq(Texts(a)) = p[Len(a)]

\* The lines of the members before the k-th.
ListBefore(a, k) == (CHOOSE p : IsListing(p, a))[k - 1]

ListFacts(a) ==
    /\ \A k \in 1 .. Len(a) + 1 :
          /\ ListBefore(a, k) \in Seq(Letters)
          /\ Len(ListBefore(a, k)) <= Len(ListBefore(a, Len(a) + 1))
    /\ ListBefore(a, 1) = << >>
    /\ \A k \in 1 .. Len(a) : ListBefore(a, k + 1) = ListBefore(a, k) \o Append(a[k].name, "nl")
    /\ ListBefore(a, Len(a) + 1) = FlattenSeq(Texts(a))

LEMMA ListIs == ASSUME NEW a \in Seq(Files) PROVE ListFacts(a)
<1> DEFINE p == CHOOSE q : IsListing(q, a)
           s == Texts(a)
<1>1. Len(a) \in Nat /\ DOMAIN a = 1 .. Len(a)
  BY LenProperties
<1>2. \A k \in 1 .. Len(a) : Append(a[k].name, "nl") \in Seq(Letters)
  <2> TAKE k \in 1 .. Len(a)
  <2>1. a[k] \in Files
    BY FileSectors
  <2>2. a[k].name \in Seq(Letters)
    BY <2>1, NameType
  <2>3. "nl" \in Letters
    BY DEF Letters
  <2> QED
    BY <2>2, <2>3, AppendProperties
<1>3. s \in [1 .. Len(a) -> Seq(Letters)]
  BY <1>1, <1>2 DEF Texts
<1>4. s \in Seq(Seq(Letters)) /\ Len(s) = Len(a)
  BY <1>1, <1>3
<1>5. \E q \in [0 .. Len(s) -> Seq(Letters)] : Accumulates(q, s) /\ FlattenSeq(s) = q[Len(s)]
  <2> HIDE DEF s
  <2> QED
    BY <1>4, FlattenPrefixes
<1>6. \E q : IsListing(q, a)
  BY <1>4, <1>5 DEF IsListing
<1>7. IsListing(p, a)
  BY <1>6, Zenon
<1>8. \A k : ListBefore(a, k) = p[k - 1]
  BY DEF ListBefore
<1> HIDE DEF p
<1>9. \A k \in 0 .. Len(a) : p[k] \in Seq(Letters)
  BY <1>7 DEF IsListing
<1>10. ASSUME NEW k \in 1 .. Len(a) + 1
       PROVE  /\ ListBefore(a, k) \in Seq(Letters)
              /\ Len(ListBefore(a, k)) <= Len(ListBefore(a, Len(a) + 1))
  <2>1. k - 1 \in 0 .. Len(s) /\ Len(a) \in (k - 1) .. Len(s) /\ (Len(a) + 1) - 1 = Len(a)
    BY <1>1, <1>4
  <2>2. p \in [0 .. Len(s) -> Seq(Letters)] /\ Accumulates(p, s)
    BY <1>4, <1>7 DEF IsListing
  <2> HIDE DEF s
  <2>3. Continues(p[k - 1], p[Len(a)])
    BY <1>4, <2>1, <2>2, PrefixBegins
  <2> QED
    BY <1>4, <1>8, <1>9, <2>1, <2>3 DEF Continues
<1>11. ListBefore(a, 1) = << >>
  BY <1>7, <1>8 DEF IsListing, Accumulates
<1>12. ASSUME NEW k \in 1 .. Len(a)
       PROVE  ListBefore(a, k + 1) = ListBefore(a, k) \o Append(a[k].name, "nl")
  <2>1. k \in 1 .. Len(s) /\ (k + 1) - 1 = k /\ s[k] = Append(a[k].name, "nl")
    BY <1>1, <1>4 DEF Texts
  <2>2. p[k] = p[k - 1] \o s[k]
    BY <1>7, <2>1 DEF IsListing, Accumulates
  <2> HIDE DEF s
  <2> QED
    BY <1>8, <2>1, <2>2
<1>13. ListBefore(a, Len(a) + 1) = FlattenSeq(s)
  <2>1. (Len(a) + 1) - 1 = Len(a)
    BY <1>1
  <2> QED
    BY <1>7, <1>8, <2>1 DEF IsListing
<1> HIDE DEF s
<1> QED
  BY <1>10, <1>11, <1>12, <1>13 DEF ListFacts, s

\* A listing that has come to the k-th header.
Listed(out, room, k) ==
    /\ out \in Seq(Letters) /\ Len(out) + 1 <= room
    /\ Len(Names) + 1 <= room => out = ListBefore(archive, k)

LEMMA NamesAre == Names = FlattenSeq(Texts(archive))
BY DEF Names, Texts

LEMMA FrontOf ==
    ASSUME NEW S, NEW s \in Seq(S), NEW n \in 0 .. Len(s)
    PROVE  /\ SubSeq(s, 1, n) \in Seq(S) /\ Len(SubSeq(s, 1, n)) = n
           /\ n = Len(s) => SubSeq(s, 1, n) = s
<1>1. Len(s) \in Nat
  BY LenProperties
<1>2. \A i \in 1 .. n : s[i] \in S
  BY <1>1, ElementOfSeq
<1>3. SubSeq(s, 1, n) \in Seq(S) /\ Len(SubSeq(s, 1, n)) = n
  BY <1>1, <1>2, SubSeqProperties
<1>4. SubSeq(s, 1, Len(s)) = s
  BY SubSeqFull
<1> QED
  BY <1>3, <1>4

LEMMA LineKeeps ==
    ASSUME archive \in Archives, NEW room \in Nat, job.max = room, NEW k \in 1 .. Len(archive),
           NEW out, Listed(out, room, k)
    PROVE  Listed(Line(out, archive[k].name), room, k + 1)
<1> DEFINE name == archive[k].name
           m == Len(name)
           l == Len(out)
           n == CHOOSE i \in 0 .. Len(name) :
                    /\ i > 0 => NameFits(out, i)
                    /\ i < Len(name) => ~NameFits(out, i + 1)
           named == out \o SubSeq(name, 1, n)
<1>1. archive \in Seq(Files) /\ Len(archive) \in Nat
  BY DiskIs, MembersType
<1>2. name \in Seq(Letters) /\ m \in Nat
  BY <1>1, FileSectors, NameType
<1>3. out \in Seq(Letters) /\ l \in Nat /\ l + 1 <= room
  BY LenProperties DEF Listed
<1>4. Line(out, name) = IF NewlineFits(named) THEN Append(named, "nl") ELSE named
  BY DEF Line
<1> HIDE DEF name
<1>5. n \in 0 .. m /\ (n > 0 => l + n + 1 < room) /\ (n < m => ~(l + (n + 1) + 1 < room))
  <2> DEFINE w == IF room - l - 2 < 0 THEN 0 ELSE IF room - l - 2 > m THEN m ELSE room - l - 2
  <2>1. w \in 0 .. m /\ (w > 0 => l + w + 1 < room) /\ (w < m => ~(l + (w + 1) + 1 < room))
    BY <1>2, <1>3
  <2> HIDE DEF w
  <2>2. \E i \in 0 .. Len(name) :
           /\ i > 0 => NameFits(out, i)
           /\ i < Len(name) => ~NameFits(out, i + 1)
    BY <2>1 DEF NameFits
  <2>3. /\ n \in 0 .. Len(name)
        /\ n > 0 => NameFits(out, n)
        /\ n < Len(name) => ~NameFits(out, n + 1)
    BY <2>2, Zenon
  <2> HIDE DEF n
  <2> QED
    BY <2>3 DEF NameFits
<1> HIDE DEF n
<1>6. SubSeq(name, 1, n) \in Seq(Letters) /\ Len(SubSeq(name, 1, n)) = n
      /\ (n = m => SubSeq(name, 1, n) = name)
  BY <1>2, <1>5, FrontOf
<1>7. named \in Seq(Letters) /\ Len(named) = l + n
  BY <1>3, <1>6, Cat
<1> HIDE DEF named
<1>8. "nl" \in Letters
  BY DEF Letters
<1>9. Append(named, "nl") \in Seq(Letters) /\ Len(Append(named, "nl")) = l + n + 1
  BY <1>7, <1>8, AppendProperties
<1>10. NewlineFits(named) <=> l + n + 1 < room
  BY <1>7 DEF NewlineFits
<1>11. Line(out, name) \in Seq(Letters) /\ Len(Line(out, name)) + 1 <= room
  <2>1. l + n + 1 <= room
    BY <1>2, <1>3, <1>5
  <2>2. CASE NewlineFits(named)
    BY <1>3, <1>4, <1>5, <1>9, <1>10, <2>2
  <2>3. CASE ~NewlineFits(named)
    BY <1>4, <1>7, <2>1, <2>3
  <2> QED
    BY <2>2, <2>3
<1>12. ASSUME Len(Names) + 1 <= room PROVE Line(out, name) = ListBefore(archive, k + 1)
  <2> DEFINE line == Append(name, "nl")
  <2>1. ListFacts(archive)
    BY <1>1, ListIs
  <2>2. out = ListBefore(archive, k) /\ ListBefore(archive, k + 1) = out \o line
    BY <1>12, <2>1 DEF Listed, ListFacts, name
  <2>3. line \in Seq(Letters) /\ Len(line) = m + 1 /\ line = name \o <<"nl">>
    BY <1>2, <1>8, AppendProperties, AppendIsConcat
  <2> HIDE DEF line
  <2>4. Len(out \o line) = l + m + 1
    BY <1>2, <1>3, <2>3, Cat
  <2>5. Len(out \o line) <= Len(Names) /\ Len(Names) \in Nat
    <3>1. k + 1 \in 1 .. Len(archive) + 1 /\ Len(archive) + 1 \in 1 .. Len(archive) + 1
      BY <1>1
    <3>2. Names = ListBefore(archive, Len(archive) + 1)
      BY <2>1, NamesAre DEF ListFacts
    <3> QED
      BY <2>1, <2>2, <3>1, <3>2, LenProperties DEF ListFacts
  <2>6. l + m + 2 <= room
    BY <1>2, <1>3, <1>12, <2>4, <2>5
  <2>7. n = m
    BY <1>2, <1>3, <1>5, <2>6
  <2>8. NewlineFits(named) /\ named = out \o name
    BY <1>2, <1>3, <1>6, <1>10, <2>6, <2>7 DEF named
  <2>9. Append(out \o name, "nl") = (out \o name) \o <<"nl">> /\ out \o name \in Seq(Letters)
    <3>1. out \o name \in Seq(Letters)
      BY <1>2, <1>3, Cat
    <3> QED
      BY ONLY <1>8, <3>1, AppendIsConcat
  <2>10. (out \o name) \o <<"nl">> = out \o (name \o <<"nl">>)
    <3>1. <<"nl">> \in Seq(Letters)
      BY <1>8
    <3>2. name \in Seq(Letters) /\ out \in Seq(Letters)
      BY <1>2, <1>3
    <3> QED
      BY ONLY <3>1, <3>2, ConcatAssociative
  <2> QED
    BY <1>4, <2>2, <2>3, <2>8, <2>9, <2>10
<1> QED
  BY <1>11, <1>12 DEF Listed, name

-----------------------------------------------------------------------------
(* The inductive invariant.  A handle in use is of one member and one      *)
(* client; a request being served has come to a header, with what it has   *)
(* found so far, or to a sector of its file, with what it has copied.      *)
Entry(k) == [data_lba |-> Start(archive, k) + 1, size |-> archive[k].size, used |-> TRUE]

Owns(h, c, k) ==
    /\ c \in Clients /\ k \in 1 .. Len(archive)
    /\ <<h, k>> \in held[c]
    /\ \A d \in Clients : \A o \in held[d] : o[1] = h => d = c /\ o[2] = k
    /\ ftab[h] = Entry(k)

Nobody(h) == \A d \in Clients : \A o \in held[d] : o[1] # h

HandleOK(h) == IF ftab[h].used THEN \E c, k : Owns(h, c, k) ELSE Nobody(h)

Entries == [data_lba : 0 .. Len(Disk[archive]), size : Nat, used : BOOLEAN]

TableOK ==
    /\ ftab \in [Handles -> Entries]
    /\ held \in [Clients -> SUBSET (Handles \X (1 .. Len(archive)))]
    /\ \A h \in Handles : HandleOK(h)

JobAt(op, c, path, h, room, max, size, lba, buf, out, clean) ==
    [op |-> op, client |-> c, path |-> path, h |-> h, room |-> room, max |-> max,
     size |-> size, lba |-> lba, buf |-> buf, out |-> out, clean |-> clean]

\* fs_open() has passed the members before the k-th, none of them of this name.
Opening(c, path, k) ==
    /\ c \in Clients /\ k \in 1 .. Len(archive) + 1
    /\ \A i \in 1 .. k - 1 : archive[i].name # path
    /\ job = JobAt("open", c, path, -1, 0, 0, 0, Start(archive, k), << >>, << >>, TRUE)

\* fs_list() has listed the members before the k-th.
Listing(c, room, out, k) ==
    /\ room \in Nat \ {0} /\ k \in 1 .. Len(archive) + 1
    /\ Listed(out, room, k)
    /\ job = JobAt("list", c, << >>, -1, room, room, 0, Start(archive, k), << >>, out, TRUE)

\* fs_read() of member k has copied lba sectors, if none of them failed.
Copied(buf, n, k) == buf = [o \in 0 .. n - 1 |-> <<k, o>>]

Reading(c, h, room, max, lba, buf, clean, k) ==
    /\ h \in Handles /\ max \in Nat /\ lba \in Nat /\ clean \in BOOLEAN
    /\ \E d : Owns(h, d, k)
    /\ lba * SECTOR <= Clipped(archive[k].size, max)
    /\ clean => Copied(buf, lba * SECTOR, k)
    /\ job = JobAt("read", c, << >>, h, room, max, Clipped(archive[k].size, max), lba, buf, << >>, clean)

JobOK ==
    \/ job = NoJob
    \/ \E c, path, k : Opening(c, path, k)
    \/ \E c, room, out, k : Listing(c, room, out, k)
    \/ \E c, h, room, max, lba, buf, clean, k : Reading(c, h, room, max, lba, buf, clean, k)

FsInv == archive \in Archives /\ TableOK /\ JobOK /\ ListExact

LEMMA ArchiveFacts ==
    ASSUME archive \in Archives
    PROVE  /\ archive \in Seq(Files) /\ Len(archive) \in Nat /\ DOMAIN archive = 1 .. Len(archive)
           /\ StartsAt(archive) /\ Laid(archive) /\ ListFacts(archive)
           /\ Len(Disk[archive]) \in Nat
<1>1. archive \in Seq(Files)
  BY DiskIs
<1>2. Laid(archive) /\ StartsAt(archive) /\ ListFacts(archive)
  BY <1>1, DiskLaid, StartFacts, ListIs
<1>3. Len(Disk[archive]) \in Nat
  BY <1>2, LenProperties DEF Laid
<1> QED
  BY <1>1, <1>2, <1>3, LenProperties

\* The places of members are on the disk.
LEMMA StartOnDisk ==
    ASSUME archive \in Archives, NEW k \in 1 .. Len(archive) + 1
    PROVE  Start(archive, k) \in 0 .. Len(Disk[archive]) - 2
<1>1. Len(archive) + 1 \in k .. Len(archive) + 1
  BY ArchiveFacts
<1>2. Start(archive, k) <= Start(archive, Len(archive) + 1) /\ Start(archive, k) \in Nat
  BY <1>1, ArchiveFacts DEF StartsAt
<1>3. Len(Disk[archive]) = Start(archive, Len(archive) + 1) + 2 /\ Len(Disk[archive]) \in Nat
  BY ArchiveFacts DEF Laid
<1>4. Start(archive, Len(archive) + 1) \in Nat
  BY ArchiveFacts DEF StartsAt
<1> HIDE DEF Start
<1> QED
  BY <1>2, <1>3, <1>4

LEMMA EntryType ==
    ASSUME archive \in Archives, NEW k \in 1 .. Len(archive)
    PROVE  Entry(k) \in Entries
<1>1. k \in 1 .. Len(archive) + 1
  BY ArchiveFacts
<1>2. Start(archive, k) \in 0 .. Len(Disk[archive]) - 2
  BY <1>1, StartOnDisk
<1>3. Start(archive, k) + 1 \in 0 .. Len(Disk[archive])
  BY <1>2, ArchiveFacts
<1>4. archive[k].size \in Nat
  BY ArchiveFacts, FileSectors
<1> QED
  BY <1>3, <1>4 DEF Entry, Entries

\* Jobs of different requests are different.
LEMMA JobOps ==
    /\ NoJob.op = "none"
    /\ \A c, path, k : Opening(c, path, k) => job.op = "open"
    /\ \A c, room, out, k : Listing(c, room, out, k) => job.op = "list"
    /\ \A c, h, room, max, lba, buf, clean, k :
          Reading(c, h, room, max, lba, buf, clean, k) => job.op = "read"
<1>1. NoJob.op = "none"
  BY DEF NoJob, Job
<1>2. ASSUME NEW c, NEW path, NEW k, Opening(c, path, k) PROVE job.op = "open"
  BY <1>2 DEF Opening, JobAt
<1>3. ASSUME NEW c, NEW room, NEW out, NEW k, Listing(c, room, out, k) PROVE job.op = "list"
  BY <1>3 DEF Listing, JobAt
<1>4. ASSUME NEW c, NEW h, NEW room, NEW max, NEW lba, NEW buf, NEW clean, NEW k,
             Reading(c, h, room, max, lba, buf, clean, k)
      PROVE  job.op = "read"
  BY <1>4 DEF Reading, JobAt
<1> QED
  BY <1>1, <1>2, <1>3, <1>4

LEMMA OpenIs == ASSUME JobOK, job.op = "open" PROVE \E c, path, k : Opening(c, path, k)
BY JobOps DEF JobOK

LEMMA ListJobIs == ASSUME JobOK, job.op = "list" PROVE \E c, room, out, k : Listing(c, room, out, k)
BY JobOps DEF JobOK

LEMMA ReadIs ==
    ASSUME JobOK, job.op = "read"
    PROVE  \E c, h, room, max, lba, buf, clean, k : Reading(c, h, room, max, lba, buf, clean, k)
BY JobOps DEF JobOK

LEMMA FsInitInv == FsInit => FsInv
<1> SUFFICES ASSUME FsInit PROVE FsInv
  OBVIOUS
<1>1. archive \in Archives /\ job = NoJob /\ reply = NoReply
  BY DEF FsInit
<1>2. ftab \in [Handles -> Entries] /\ \A h \in Handles : ~ftab[h].used
  <2>1. Unused \in Entries /\ ~Unused.used
    BY <1>1, ArchiveFacts DEF Unused, Entries
  <2> QED
    BY <2>1 DEF FsInit
<1>3. held \in [Clients -> SUBSET (Handles \X (1 .. Len(archive)))] /\ \A c \in Clients : held[c] = {}
  BY DEF FsInit
<1>4. TableOK
  BY <1>2, <1>3 DEF TableOK, HandleOK, Nobody
<1>5. ListExact
  BY <1>1 DEF ListExact, NoReply, NoJob, Job
<1> QED
  BY <1>1, <1>4, <1>5 DEF FsInv, JobOK

\* Where the tables do not change, neither does what they say.
LEMMA TableStays ==
    ASSUME TableOK, UNCHANGED <<archive, ftab, held>>
    PROVE  TableOK'
<1>1. UNCHANGED Handles
  BY DEF Handles
<1>2. \A k : Entry(k)' = Entry(k)
  BY DEF Entry
<1>3. \A h, c, k : Owns(h, c, k)' <=> Owns(h, c, k)
  BY <1>2 DEF Owns
<1>4. \A h : HandleOK(h)' <=> HandleOK(h)
  BY <1>3 DEF HandleOK, Nobody
<1>5. Entries' = Entries
  BY DEF Entries
<1> QED
  BY <1>4, <1>5 DEF TableOK

-----------------------------------------------------------------------------
(* fs_open().                                                              *)
\* The member a client means is the first one of that name.
LEMMA MeantIs ==
    ASSUME archive \in Archives, NEW path, NEW k \in 1 .. Len(archive), archive[k].name = path,
           \A i \in 1 .. k - 1 : archive[i].name # path
    PROVE  Meant(path) = k
<1> DEFINE First(j) == archive[j].name = path /\ \A i \in 1 .. j - 1 : archive[i].name # path
           c == CHOOSE j \in DOMAIN archive : First(j)
<1>1. DOMAIN archive = 1 .. Len(archive) /\ Len(archive) \in Nat
  BY ArchiveFacts
<1>2. c \in DOMAIN archive /\ First(c)
  BY <1>1, Zenon
<1> HIDE DEF c
<1>3. ~(c < k) /\ ~(k < c)
  <2>1. c \in 1 .. Len(archive)
    BY <1>1, <1>2
  <2>2. ASSUME c < k PROVE FALSE
    <3>1. c \in 1 .. k - 1
      BY <2>1, <2>2
    <3> QED
      BY <1>2, <3>1
  <2>3. ASSUME k < c PROVE FALSE
    <3>1. k \in 1 .. c - 1
      BY <2>1, <2>3
    <3> QED
      BY <1>2, <3>1
  <2> QED
    BY <2>2, <2>3
<1>4. c = k
  BY <1>1, <1>2, <1>3
<1> QED
  BY <1>4, Zenon DEF Meant, c

\* A handle that is free is of nobody; it becomes the client's.
LEMMA HandleOpened ==
    ASSUME archive \in Archives, archive' = archive, TableOK, NEW h \in Handles, ~ftab[h].used,
           NEW c \in Clients, NEW k \in 1 .. Len(archive),
           ftab' = [ftab EXCEPT ![h] = Entry(k)],
           held' = [held EXCEPT ![c] = @ \cup {<<h, k>>}]
    PROVE  TableOK'
<1>1. ftab \in [Handles -> Entries] /\ held \in [Clients -> SUBSET (Handles \X (1 .. Len(archive)))]
  BY DEF TableOK
<1>2. Nobody(h)
  BY DEF TableOK, HandleOK
<1>3. Entries' = Entries /\ \A j : Entry(j)' = Entry(j)
  BY DEF Entries, Entry
<1>4. ftab'[h] = Entry(k) /\ \A i \in Handles \ {h} : ftab'[i] = ftab[i]
  BY <1>1
<1>5. ftab' \in [Handles -> Entries]
  BY <1>1, EntryType
<1>6. held'[c] = held[c] \cup {<<h, k>>} /\ \A d \in Clients \ {c} : held'[d] = held[d]
  BY <1>1
<1>7. held' \in [Clients -> SUBSET (Handles \X (1 .. Len(archive)))]
  <2>1. held[c] \cup {<<h, k>>} \in SUBSET (Handles \X (1 .. Len(archive)))
    BY <1>1
  <2> QED
    BY <1>1, <2>1
<1>8. Owns(h, c, k)'
  <2>1. ASSUME NEW d \in Clients, NEW o \in held'[d], o[1] = h PROVE d = c /\ o[2] = k
    <3>1. o \notin held[d]
      BY <1>2, <2>1 DEF Nobody
    <3>2. d = c
      BY <1>6, <3>1
    <3>3. o = <<h, k>>
      BY <1>6, <3>1, <3>2
    <3> QED
      BY <3>2, <3>3
  <2>2. <<h, k>> \in held'[c] /\ ftab'[h] = Entry(k)'
    BY <1>3, <1>4, <1>6
  <2> QED
    BY <2>1, <2>2 DEF Owns
<1>9. ASSUME NEW i \in Handles, i # h PROVE HandleOK(i)'
  <2>1. HandleOK(i) /\ ftab'[i] = ftab[i]
    BY <1>4, <1>9 DEF TableOK
  <2>2. \A d \in Clients : \A o : o[1] = i => (o \in held'[d] <=> o \in held[d])
    <3> TAKE d \in Clients
    <3>1. \A o : o[1] = i => o # <<h, k>>
      BY <1>9
    <3> QED
      BY <1>6, <3>1
  <2>3. CASE ~ftab[i].used
    BY <2>1, <2>2, <2>3 DEF HandleOK, Nobody
  <2>4. CASE ftab[i].used
    <3>1. PICK d, j : Owns(i, d, j)
      BY <2>1, <2>4 DEF HandleOK
    <3>2. <<i, j>> \in held'[d]
      BY <2>2, <3>1 DEF Owns
    <3>3. \A e \in Clients : \A o \in held'[e] : o[1] = i => e = d /\ o[2] = j
      BY <2>2, <3>1 DEF Owns
    <3>4. Owns(i, d, j)'
      BY <1>3, <2>1, <3>1, <3>2, <3>3 DEF Owns
    <3> QED
      BY <2>1, <2>4, <3>4 DEF HandleOK
  <2> QED
    BY <2>3, <2>4
<1>10. ftab'[h].used
  BY <1>4 DEF Entry
<1>11. \A i \in Handles : HandleOK(i)'
  BY <1>8, <1>9, <1>10 DEF HandleOK
<1> QED
  BY <1>3, <1>5, <1>7, <1>11 DEF TableOK

\* A reply that is no listing, or the same as before.
LEMMA ReplyStays ==
    ASSUME ListExact, archive' = archive, reply' = reply \/ reply'.job.op # "list"
    PROVE  ListExact'
<1>1. Names' = Names
  BY DEF Names
<1> QED
  BY <1>1 DEF ListExact

LEMMA BeginsReply == ASSUME NEW j, Begins(j) PROVE reply'.job.op # "list"
BY DEF Begins, NoReply, NoJob, Job

LEMMA OpenInv ==
    ASSUME FsInv, NEW c \in Clients, NEW path, Open(c, path)
    PROVE  FsInv'
<1>1. /\ archive' = archive /\ archive \in Archives /\ Begins(Job("open", c, path, -1, 0, 0))
      /\ UNCHANGED <<archive, ftab, held>>
  BY DEF Open, FsInv
<1>2. TableOK'
  BY <1>1, TableStays DEF FsInv
<1>3. ListExact'
  BY <1>1, BeginsReply, ReplyStays DEF FsInv
<1>4. Opening(c, path, 1)'
  <2>1. Start(archive, 1) = 0 /\ 1 \in 1 .. Len(archive) + 1
    BY <1>1, ArchiveFacts DEF StartsAt
  <2>2. job' = JobAt("open", c, path, -1, 0, 0, 0, 0, << >>, << >>, TRUE)
    BY <1>1 DEF Begins, Job, JobAt
  <2>3. \A i \in 1 .. 1 - 1 : archive'[i].name # path
    OBVIOUS
  <2> HIDE DEF Start
  <2>4. job' = JobAt("open", c, path, -1, 0, 0, 0, Start(archive', 1), << >>, << >>, TRUE)
    BY <1>1, <2>1, <2>2
  <2> QED
    BY <1>1, <2>1, <2>3, <2>4 DEF Opening
<1> QED
  BY <1>1, <1>2, <1>3, <1>4 DEF FsInv, JobOK

\* One round of the loop.
LEMMA OpenStepCases ==
    ASSUME FsInv, OpenStep
    PROVE  \E c, path, k, hdr :
              /\ Opening(c, path, k) /\ Meets(hdr, k)
              /\ UNCHANGED <<archive, bounce>>
              /\ \/ Ends(hdr) /\ Answers(After(hdr), -1) /\ UNCHANGED <<ftab, held>>
                 \/ ~Ends(hdr) /\ hdr.name = path /\ OpenHits(hdr)
                 \/ /\ ~Ends(hdr) /\ hdr.name # path
                    /\ job' = [job EXCEPT !.lba = @ + Skips(hdr)]
                    /\ UNCHANGED <<reply, ftab, held>>
<1>1. job.op = "open" /\ JobOK /\ archive \in Archives
  BY DEF OpenStep, FsInv
<1>2. PICK c, path, k : Opening(c, path, k)
  BY <1>1, OpenIs
<1>3. job.lba = Start(archive, k) /\ job.path = path /\ k \in 1 .. Len(archive) + 1
  BY <1>2 DEF Opening, JobAt
<1>4. PICK hdr \in BlkRead(job.lba) :
        \/ Ends(hdr) /\ Answers(After(hdr), -1) /\ UNCHANGED <<ftab, held>>
        \/ ~Ends(hdr) /\ hdr.name = job.path /\ OpenHits(hdr)
        \/ /\ ~Ends(hdr) /\ hdr.name # job.path
           /\ job' = [job EXCEPT !.lba = @ + Skips(hdr)]
           /\ UNCHANGED <<reply, ftab, held>>
  BY DEF OpenStep
<1>5. Meets(hdr, k)
  BY <1>1, <1>3, <1>4, WalkMeets
<1>6. UNCHANGED <<archive, bounce>>
  BY DEF OpenStep
<1> HIDE DEF Meets, Opening, Answers, OpenHits, After, Skips, Ends
<1> QED
  BY <1>2, <1>3, <1>4, <1>5, <1>6

LEMMA OpenStepInv == ASSUME FsInv, OpenStep PROVE FsInv'
<1>1. PICK c, path, k, hdr :
              /\ Opening(c, path, k) /\ Meets(hdr, k)
              /\ UNCHANGED <<archive, bounce>>
              /\ \/ Ends(hdr) /\ Answers(After(hdr), -1) /\ UNCHANGED <<ftab, held>>
                 \/ ~Ends(hdr) /\ hdr.name = path /\ OpenHits(hdr)
                 \/ /\ ~Ends(hdr) /\ hdr.name # path
                    /\ job' = [job EXCEPT !.lba = @ + Skips(hdr)]
                    /\ UNCHANGED <<reply, ftab, held>>
  BY OpenStepCases
<1>2. archive \in Archives /\ archive' = archive /\ TableOK /\ ListExact
  BY <1>1 DEF FsInv
<1>3. /\ job = JobAt("open", c, path, -1, 0, 0, 0, Start(archive, k), << >>, << >>, TRUE)
      /\ c \in Clients /\ k \in 1 .. Len(archive) + 1
      /\ \A i \in 1 .. k - 1 : archive[i].name # path
  BY <1>1 DEF Opening
<1>4. \A n : Answers(After(hdr), n) => job' = NoJob /\ reply'.job.op # "list"
  <2>1. After(hdr).op = "open"
    BY <1>3 DEF After, JobAt
  <2> QED
    BY <2>1 DEF Answers
<1>5. CASE Ends(hdr) /\ Answers(After(hdr), -1) /\ UNCHANGED <<ftab, held>>
  <2>1. TableOK'
    BY <1>2, <1>5, TableStays
  <2>2. ListExact' /\ job' = NoJob
    BY <1>2, <1>4, <1>5, ReplyStays
  <2> QED
    BY <1>2, <2>1, <2>2 DEF FsInv, JobOK
<1>6. CASE ~Ends(hdr) /\ hdr.name = path /\ OpenHits(hdr)
  <2>1. /\ k \in 1 .. Len(archive)
        /\ hdr.name = archive[k].name /\ hdr.size = archive[k].size
    BY <1>1, <1>2, <1>3, <1>6, WalkGoes
  <2>2. job.client = c /\ job.path = path /\ job.lba = Start(archive, k)
    BY <1>3 DEF JobAt
  <2>3. Meant(job.path) = k
    BY <1>2, <1>3, <1>6, <2>1, <2>2, MeantIs
  <2>4. ListExact' /\ job' = NoJob
    BY <1>2, <1>4, <1>6, ReplyStays DEF OpenHits
  <2>5. TableOK'
    <3>1. CASE UNCHANGED <<ftab, held>>
      BY <1>2, <3>1, TableStays
    <3>2. CASE \E h \in Handles :
                 /\ FreeHandle(h)
                 /\ ftab' = [ftab EXCEPT ![h] = [data_lba |-> job.lba + 1, size |-> hdr.size,
                                                 used |-> TRUE]]
                 /\ held' = [held EXCEPT ![job.client] = @ \cup {<<h, Meant(job.path)>>}]
      <4>1. PICK h \in Handles :
                 /\ ~ftab[h].used
                 /\ ftab' = [ftab EXCEPT ![h] = [data_lba |-> job.lba + 1, size |-> hdr.size,
                                                 used |-> TRUE]]
                 /\ held' = [held EXCEPT ![job.client] = @ \cup {<<h, Meant(job.path)>>}]
        BY <3>2 DEF FreeHandle
      <4>2. ftab' = [ftab EXCEPT ![h] = Entry(k)]
        BY <2>1, <2>2, <4>1 DEF Entry
      <4>3. held' = [held EXCEPT ![c] = @ \cup {<<h, k>>}]
        BY <2>2, <2>3, <4>1
      <4>4. /\ archive \in Archives /\ archive' = archive /\ TableOK /\ ~ftab[h].used
            /\ c \in Clients /\ k \in 1 .. Len(archive)
        BY <1>2, <1>3, <2>1, <4>1
      <4> QED
        BY ONLY h \in Handles, <4>2, <4>3, <4>4, HandleOpened
    <3> QED
      BY <1>6, <3>1, <3>2 DEF OpenHits
  <2> QED
    BY <1>2, <2>4, <2>5 DEF FsInv, JobOK
<1>7. CASE /\ ~Ends(hdr) /\ hdr.name # path
           /\ job' = [job EXCEPT !.lba = @ + Skips(hdr)]
           /\ UNCHANGED <<reply, ftab, held>>
  <2>1. TableOK' /\ ListExact'
    BY <1>2, <1>7, TableStays, ReplyStays
  <2>2. /\ k \in 1 .. Len(archive) /\ hdr.name = archive[k].name
        /\ Start(archive, k) + Skips(hdr) = Start(archive, k + 1) /\ k + 1 \in 1 .. Len(archive) + 1
    BY <1>1, <1>2, <1>3, <1>7, WalkGoes
  <2>3. job' = JobAt("open", c, path, -1, 0, 0, 0, Start(archive, k + 1), << >>, << >>, TRUE)
    <3> HIDE DEF Start, Skips
    <3> QED
      BY <1>3, <1>7, <2>2 DEF JobAt
  <2>4. \A i \in 1 .. (k + 1) - 1 : archive[i].name # path
    <3> TAKE i \in 1 .. (k + 1) - 1
    <3>1. i \in 1 .. k - 1 \/ i = k
      BY <2>2
    <3> QED
      BY <1>3, <1>7, <2>2, <3>1
  <2>5. Opening(c, path, k + 1)'
    <3> HIDE DEF Start
    <3> QED
      BY <1>2, <1>3, <2>2, <2>3, <2>4 DEF Opening
  <2> QED
    BY <1>2, <2>1, <2>5 DEF FsInv, JobOK
<1> QED
  BY <1>1, <1>5, <1>6, <1>7

-----------------------------------------------------------------------------
(* MSG_CLOSE of a handle the client holds.                                 *)
LEMMA HandleClosed ==
    ASSUME archive \in Archives, archive' = archive, TableOK, NEW c \in Clients, NEW h,
           \E o \in held[c] : o[1] = h,
           ftab' = [ftab EXCEPT ![h].used = FALSE],
           held' = [held EXCEPT ![c] = {o \in @ : o[1] # h}]
    PROVE  TableOK'
<1>1. ftab \in [Handles -> Entries] /\ held \in [Clients -> SUBSET (Handles \X (1 .. Len(archive)))]
  BY DEF TableOK
<1>2. h \in Handles
  BY <1>1
<1>3. Entries' = Entries /\ \A j : Entry(j)' = Entry(j)
  BY DEF Entries, Entry
<1>4. \A d \in Clients : \A o \in held[d] : o[1] = h => d = c
  <2>1. ~Nobody(h)
    BY DEF Nobody
  <2>2. PICK d, k : Owns(h, d, k)
    BY <1>2, <2>1 DEF TableOK, HandleOK
  <2> QED
    BY <2>2 DEF Owns
<1>5. /\ ftab' \in [Handles -> Entries] /\ ~ftab'[h].used
      /\ \A i \in Handles \ {h} : ftab'[i] = ftab[i]
  <2>1. ftab[h] \in Entries
    BY <1>1, <1>2
  <2>2. [ftab[h] EXCEPT !.used = FALSE] \in Entries /\ ~[ftab[h] EXCEPT !.used = FALSE].used
    BY <2>1 DEF Entries
  <2>3. ftab' = [ftab EXCEPT ![h] = [ftab[h] EXCEPT !.used = FALSE]]
    OBVIOUS
  <2> QED
    BY <1>1, <1>2, <2>2, <2>3
<1>6. held'[c] = {o \in held[c] : o[1] # h} /\ \A d \in Clients \ {c} : held'[d] = held[d]
  BY <1>1
<1>7. held' \in [Clients -> SUBSET (Handles \X (1 .. Len(archive)))]
  BY <1>1
<1>8. HandleOK(h)'
  <2>1. Nobody(h)'
    BY <1>4, <1>6 DEF Nobody
  <2> QED
    BY <1>5, <2>1 DEF HandleOK
<1>9. ASSUME NEW i \in Handles, i # h PROVE HandleOK(i)'
  <2>1. HandleOK(i) /\ ftab'[i] = ftab[i]
    BY <1>5, <1>9 DEF TableOK
  <2>2. \A d \in Clients : \A o : o[1] = i => (o \in held'[d] <=> o \in held[d])
    BY <1>6, <1>9
  <2>3. CASE ~ftab[i].used
    BY <2>1, <2>2, <2>3 DEF HandleOK, Nobody
  <2>4. CASE ftab[i].used
    <3>1. PICK d, j : Owns(i, d, j)
      BY <2>1, <2>4 DEF HandleOK
    <3>2. <<i, j>> \in held'[d]
      BY <2>2, <3>1 DEF Owns
    <3>3. \A e \in Clients : \A o \in held'[e] : o[1] = i => e = d /\ o[2] = j
      BY <2>2, <3>1 DEF Owns
    <3>4. Owns(i, d, j)'
      BY <1>3, <2>1, <3>1, <3>2, <3>3 DEF Owns
    <3> QED
      BY <2>1, <2>4, <3>4 DEF HandleOK
  <2> QED
    BY <2>3, <2>4
<1>10. \A i \in Handles : HandleOK(i)'
  BY <1>8, <1>9
<1> QED
  BY <1>3, <1>5, <1>7, <1>10 DEF TableOK

LEMMA CloseInv ==
    ASSUME FsInv, NEW c \in Clients, NEW o \in held[c], Close(c, o[1])
    PROVE  FsInv'
<1>1. archive \in Archives /\ archive' = archive /\ TableOK /\ ListExact
  BY DEF FsInv, Close
<1>2. job' = NoJob /\ reply'.job.op # "list"
  BY DEF Close, Answers, Job
<1>3. ListExact'
  BY <1>1, <1>2, ReplyStays
<1>4. TableOK'
  <2>1. PICK h : h = o[1]
    OBVIOUS
  <2>2. /\ \E p \in held[c] : p[1] = h
        /\ ftab' = [ftab EXCEPT ![h].used = FALSE]
        /\ held' = [held EXCEPT ![c] = {p \in @ : p[1] # h}]
    BY <2>1 DEF Close
  <2> QED
    BY ONLY c \in Clients, <1>1, <2>2, HandleClosed
<1> QED
  BY <1>1, <1>2, <1>3, <1>4 DEF FsInv, JobOK

-----------------------------------------------------------------------------
(* fs_list().                                                              *)
LEMMA ListInv ==
    ASSUME FsInv, NEW c \in Clients, NEW room \in Rooms, List(c, room)
    PROVE  FsInv'
<1>1. /\ archive' = archive /\ archive \in Archives /\ Begins(Job("list", c, << >>, -1, room, room))
      /\ UNCHANGED <<archive, ftab, held>>
  BY DEF List, FsInv
<1>2. TableOK'
  BY <1>1, TableStays DEF FsInv
<1>3. ListExact'
  BY <1>1, BeginsReply, ReplyStays DEF FsInv
<1>4. Listing(c, room, << >>, 1)'
  <2>1. Start(archive, 1) = 0 /\ 1 \in 1 .. Len(archive) + 1 /\ ListBefore(archive, 1) = << >>
    BY <1>1, ArchiveFacts DEF StartsAt, ListFacts
  <2>2. job' = JobAt("list", c, << >>, -1, room, room, 0, 0, << >>, << >>, TRUE)
    BY <1>1 DEF Begins, Job, JobAt
  <2>3. room \in Nat \ {0}
    BY FsAssumption
  <2>4. Listed(<< >>, room, 1)'
    <3>1. << >> \in Seq(Letters) /\ Len(<< >>) + 1 <= room
      BY <2>3
    <3> QED
      BY <1>1, <2>1, <3>1 DEF Listed
  <2> HIDE DEF Start
  <2>5. job' = JobAt("list", c, << >>, -1, room, room, 0, Start(archive', 1), << >>, << >>, TRUE)
    BY <1>1, <2>1, <2>2
  <2> QED
    BY <1>1, <2>1, <2>3, <2>4, <2>5 DEF Listing
<1> QED
  BY <1>1, <1>2, <1>3, <1>4 DEF FsInv, JobOK

LEMMA ListStepInv == ASSUME FsInv, ListStep PROVE FsInv'
<1>1. job.op = "list" /\ JobOK /\ archive \in Archives /\ archive' = archive /\ TableOK'
  BY TableStays DEF ListStep, FsInv
<1>2. PICK c, room, out, k : Listing(c, room, out, k)
  BY <1>1, ListJobIs
<1>3. /\ job = JobAt("list", c, << >>, -1, room, room, 0, Start(archive, k), << >>, out, TRUE)
      /\ k \in 1 .. Len(archive) + 1 /\ room \in Nat \ {0} /\ Listed(out, room, k)
  BY <1>2 DEF Listing
<1>4. job.lba = Start(archive, k) /\ job.out = out /\ job.max = room
  BY <1>3 DEF JobAt
<1>5. PICK hdr \in BlkRead(job.lba) :
        IF Ends(hdr) THEN Answers(After(hdr), Len(job.out))
        ELSE /\ job' = [job EXCEPT !.out = Line(@, hdr.name), !.lba = @ + Skips(hdr)]
             /\ UNCHANGED reply
  BY DEF ListStep
<1>6. Meets(hdr, k)
  BY <1>1, <1>3, <1>4, <1>5, WalkMeets
<1>7. CASE Ends(hdr)
  <2>1. After(hdr).out = out /\ After(hdr).room = room /\ (After(hdr).clean <=> hdr # Failed)
    <3>1. After(hdr).out = out /\ After(hdr).room = room
      BY <1>3 DEF After, JobAt
    <3>3. After(hdr).clean <=> hdr # Failed
      BY <1>3 DEF After, JobAt
    <3> QED
      BY <3>1, <3>3
  <2>b. job' = NoJob /\ reply'.job = After(hdr)
    BY <1>5, <1>7 DEF Answers
  <2>2. reply'.job.out = out /\ reply'.job.room = room /\ (reply'.job.clean <=> hdr # Failed)
    BY <2>1, <2>b
  <2>3. ASSUME hdr # Failed, Len(Names) + 1 <= room PROVE out = Names
    <3>1. k = Len(archive) + 1
      BY <1>1, <1>3, <1>6, <1>7, <2>3, WalkEnds
    <3>2. Names = ListBefore(archive, k)
      BY <1>1, <3>1, ArchiveFacts, NamesAre DEF ListFacts
    <3> QED
      BY <1>3, <2>3, <3>2 DEF Listed
  <2>4. Names' = Names
    BY <1>1 DEF Names
  <2>5. Len(out) + 1 <= room
    BY <1>3 DEF Listed
  <2>6. ListExact'
    BY <2>2, <2>3, <2>4, <2>5 DEF ListExact
  <2> QED
    BY <1>1, <2>b, <2>6 DEF FsInv, JobOK
<1>8. CASE ~Ends(hdr)
  <2>1. /\ k \in 1 .. Len(archive) /\ hdr.name = archive[k].name
        /\ Start(archive, k) + Skips(hdr) = Start(archive, k + 1) /\ k + 1 \in 1 .. Len(archive) + 1
    BY <1>1, <1>3, <1>6, <1>8, WalkGoes
  <2>a. PICK line : line = Line(out, archive[k].name)
    OBVIOUS
  <2>2. Listed(line, room, k + 1)
    BY <1>1, <1>3, <1>4, <2>1, <2>a, LineKeeps
  <2>3. job' = JobAt("list", c, << >>, -1, room, room, 0, Start(archive, k + 1), << >>, line, TRUE)
    <3>1. job' = [job EXCEPT !.out = line, !.lba = Start(archive, k) + Skips(hdr)]
      BY <1>4, <1>5, <1>8, <2>1, <2>a
    <3> HIDE DEF Start, Skips
    <3> QED
      BY <1>3, <2>1, <3>1 DEF JobAt
  <2>4. Listed(line, room, k + 1)'
    <3>1. Names' = Names
      BY <1>1 DEF Names
    <3> QED
      BY <1>1, <2>2, <3>1 DEF Listed
  <2>5. Listing(c, room, line, k + 1)'
    <3> HIDE DEF Start
    <3> QED
      BY <1>1, <1>3, <2>1, <2>3, <2>4 DEF Listing
  <2>6. ListExact'
    BY <1>1, <1>5, <1>8, ReplyStays DEF FsInv
  <2> QED
    BY <1>1, <2>5, <2>6 DEF FsInv, JobOK
<1> QED
  BY <1>7, <1>8

-----------------------------------------------------------------------------
(* fs_read().                                                              *)
LEMMA ClippedType ==
    ASSUME NEW size \in Nat, NEW max \in Nat
    PROVE  Clipped(size, max) \in Nat /\ Clipped(size, max) <= size
BY DEF Clipped

LEMMA CopiedNone == ASSUME NEW k PROVE Copied(<< >>, 0, k)
BY DEF Copied

LEMMA ReadInv ==
    ASSUME FsInv, NEW c \in Clients, NEW h \in Handles, NEW room \in Rooms, Read(c, h, room)
    PROVE  FsInv'
<1> DEFINE max == MaxFor(c, room)
           j == Job("read", c, << >>, h, room, max)
<1>1. /\ archive \in Archives /\ UNCHANGED <<archive, ftab, held>> /\ TableOK /\ ListExact
      /\ IF ftab[h].used
         THEN Begins([j EXCEPT !.size = Clipped(ftab[h].size, max)])
         ELSE Answers(j, -1)
  BY DEF Read, FsInv, Job
<1>2. TableOK'
  BY <1>1, TableStays
<1>3. max \in Nat
  <2>1. 0 \in Handles
    BY FsAssumption DEF Handles
  <2>2. ftab[0].size \in Nat
    BY <1>1, <2>1 DEF TableOK, Entries
  <2> QED
    BY <2>2, FsAssumption DEF MaxFor
<1> HIDE DEF max
<1>4. CASE ftab[h].used
  <2>1. PICK d, k : Owns(h, d, k)
    BY <1>1, <1>4 DEF TableOK, HandleOK
  <2>2. ftab[h].size = archive[k].size /\ k \in 1 .. Len(archive)
    BY <2>1 DEF Owns, Entry
  <2>3. archive[k].size \in Nat
    BY <1>1, <2>2, ArchiveFacts, FileSectors
  <2>a. PICK size : size = Clipped(archive[k].size, max)
    OBVIOUS
  <2>b. PICK m : m = max
    OBVIOUS
  <2>4. Begins([j EXCEPT !.size = size])
    BY <1>1, <1>4, <2>2, <2>a
  <2>5. job' = JobAt("read", c, << >>, h, room, m, size, 0, << >>, << >>, TRUE)
    BY <2>4, <2>b DEF Begins, Job, JobAt
  <2>6. \E e : Owns(h, e, k)'
    BY <1>1, <2>1 DEF Owns, Entry
  <2>7. 0 * SECTOR = 0 /\ size \in Nat
    <3>1. 0 * SECTOR = 0
      BY FsAssumption
    <3> QED
      BY <1>3, <2>3, <2>a, <3>1, ClippedType
  <2>8. Copied(<< >>, 0 * SECTOR, k)
    BY <2>7, CopiedNone
  <2>9. job' = JobAt("read", c, << >>, h, room, m, Clipped(archive'[k].size, m), 0, << >>, << >>, TRUE)
    BY <1>1, <2>5, <2>a, <2>b
  <2>10. 0 * SECTOR <= Clipped(archive'[k].size, m)
    BY <1>1, <2>7, <2>a, <2>b
  <2>11. m \in Nat /\ 0 \in Nat /\ TRUE \in BOOLEAN /\ h \in Handles'
    BY <1>3, <2>b DEF Handles
  <2>12. Reading(c, h, room, m, 0, << >>, TRUE, k)'
    BY <2>6, <2>8, <2>9, <2>10, <2>11 DEF Reading, Copied
  <2>13. ListExact'
    BY <1>1, <2>4, BeginsReply, ReplyStays
  <2> QED
    BY <1>1, <1>2, <2>12, <2>13 DEF FsInv, JobOK
<1>5. CASE ~ftab[h].used
  <2>1. job' = NoJob /\ reply'.job.op # "list"
    BY <1>1, <1>5 DEF Answers, Job
  <2>2. ListExact'
    BY <1>1, <2>1, ReplyStays
  <2> QED
    BY <1>1, <1>2, <2>1, <2>2 DEF FsInv, JobOK
<1> QED
  BY <1>4, <1>5

\* One more piece of the file in the client's buffer.
LEMMA WrittenIs ==
    ASSUME NEW k, NEW m \in Nat, NEW n \in Nat, Copied(job.buf, m, k),
           NEW data, \A j \in 0 .. n - 1 : data[j] = <<k, m + j>>
    PROVE  Copied(Written(m, n, data), m + n, k)
<1>1. DOMAIN job.buf = 0 .. m - 1 /\ \A o \in 0 .. m - 1 : job.buf[o] = <<k, o>>
  BY DEF Copied
<1>2. (0 .. m - 1) \cup (m .. m + n - 1) = 0 .. m + n - 1
  OBVIOUS
<1>3. \A o \in 0 .. m + n - 1 : (IF o >= m THEN data[o - m] ELSE job.buf[o]) = <<k, o>>
  <2> TAKE o \in 0 .. m + n - 1
  <2>1. CASE o >= m
    <3>1. o - m \in 0 .. n - 1 /\ m + (o - m) = o
      BY <2>1
    <3>2. data[o - m] = <<k, m + (o - m)>>
      BY <3>1
    <3> QED
      BY <2>1, <3>1, <3>2
  <2>2. CASE ~(o >= m)
    BY <1>1, <2>2
  <2> QED
    BY <2>1, <2>2
<1>4. Written(m, n, data) = [o \in 0 .. m + n - 1 |-> IF o >= m THEN data[o - m] ELSE job.buf[o]]
  BY <1>1, <1>2 DEF Written
<1> QED
  BY <1>3, <1>4 DEF Copied

\* What the driver reads for a handle: the data of its member.
LEMMA FileReads ==
    ASSUME archive \in Archives, NEW k \in 1 .. Len(archive), NEW i \in Nat,
           i * SECTOR < archive[k].size,
           NEW sector \in BlkRead(Start(archive, k) + 1 + i)
    PROVE  sector = Failed \/ sector = DataSector(k, i, archive[k].size)
<1>1. archive \in Seq(Files) /\ Laid(archive) /\ StartsAt(archive) /\ Len(archive) \in Nat
  BY ArchiveFacts
<1>2. archive[k].size \in Nat /\ Sectors(archive[k].size) \in Nat
  BY <1>1, FileSectors
<1>3. i + 1 \in 1 .. Sectors(archive[k].size)
  <2> DEFINE n == Sectors(archive[k].size)
  <2>1. n * SECTOR >= archive[k].size
    BY <1>2, SectorsHold DEF Holds
  <2> HIDE DEF n
  <2>2. i * SECTOR \in Int /\ n * SECTOR \in Int /\ SECTOR \in Nat \ {0}
    BY <1>2, FsAssumption, TimesNext DEF n
  <2>3. i * SECTOR < n * SECTOR
    BY <1>2, <2>1, <2>2
  <2>4. i < n
    BY <1>2, <2>2, <2>3, TimesLess DEF n
  <2> QED
    BY <1>2, <2>4 DEF n
<1>4. Disk[archive][Start(archive, k) + 1 + (i + 1)] = DataSector(k, (i + 1) - 1, archive[k].size)
  BY <1>1, <1>3 DEF Laid, MemberAt
<1>5. k \in 1 .. Len(archive) + 1
  BY <1>1
<1>6. Start(archive, k) \in Nat
  BY <1>1, <1>5 DEF StartsAt
<1> HIDE DEF Start
<1>7. Start(archive, k) + 1 + (i + 1) = Start(archive, k) + 1 + i + 1 /\ (i + 1) - 1 = i
  BY <1>6
<1>8. sector = Failed \/ sector = Disk[archive][Start(archive, k) + 1 + i + 1]
  BY DEF BlkRead
<1> QED
  BY <1>4, <1>7, <1>8

\* The fields of a read.
ReadFields(c, h, room, max, lba, buf, clean, k) ==
    /\ job.client = c /\ job.h = h /\ job.room = room /\ job.max = max
    /\ job.size = Clipped(archive[k].size, max) /\ job.lba = lba /\ job.buf = buf
    /\ (job.clean <=> clean)
    /\ archive \in Archives /\ k \in 1 .. Len(archive) /\ archive[k].size \in Nat
    /\ job.size \in Nat /\ job.size <= archive[k].size
    /\ ftab[h].data_lba = Start(archive, k) + 1
    /\ SECTOR \in Nat \ {0} /\ Full \in Nat /\ Full * SECTOR <= job.size
    /\ job.size < Full * SECTOR + SECTOR /\ Full * SECTOR \in Nat

LEMMA ReadingFields ==
    ASSUME FsInv, NEW c, NEW h, NEW room, NEW max, NEW lba, NEW buf, NEW clean, NEW k,
           Reading(c, h, room, max, lba, buf, clean, k)
    PROVE  ReadFields(c, h, room, max, lba, buf, clean, k)
<1>1. job = JobAt("read", c, << >>, h, room, max, Clipped(archive[k].size, max), lba, buf, << >>, clean)
  BY DEF Reading
<1>2. PICK size : size = Clipped(archive[k].size, max)
  OBVIOUS
<1>3. /\ job.client = c /\ job.h = h /\ job.room = room /\ job.max = max
      /\ job.size = size /\ job.lba = lba /\ job.buf = buf
      /\ (job.clean <=> clean)
  BY <1>1, <1>2 DEF JobAt
<1>4. PICK d : Owns(h, d, k)
  BY DEF Reading
<1>5. archive \in Archives /\ k \in 1 .. Len(archive)
  BY <1>4 DEF FsInv, Owns
<1>6. archive[k].size \in Nat
  BY <1>5, ArchiveFacts, FileSectors
<1>7. size \in Nat /\ size <= archive[k].size
  BY <1>2, <1>6, ClippedType DEF Reading
<1>8. ftab[h].data_lba = Start(archive, k) + 1
  BY <1>4 DEF Owns, Entry
<1>9. SECTOR \in Nat \ {0}
  BY FsAssumption
<1>10. Full \in Nat /\ Full * SECTOR <= size /\ size < Full * SECTOR + SECTOR
  BY <1>3, <1>7, <1>9, Quotient DEF Full
<1>11. Full * SECTOR \in Nat
  BY <1>9, <1>10
<1> QED
  BY <1>2, <1>3, <1>5, <1>6, <1>7, <1>8, <1>9, <1>10, <1>11 DEF ReadFields

\* A full sector.
LEMMA ReadFullInv == ASSUME FsInv, ReadFull PROVE FsInv'
<1>1. /\ job.op = "read" /\ JobOK /\ archive \in Archives /\ UNCHANGED <<archive, ftab, held, reply>>
      /\ TableOK' /\ ListExact'
  BY TableStays, ReplyStays DEF ReadFull, FsInv
<1>2. PICK c, h, room, max, lba, buf, clean, k : Reading(c, h, room, max, lba, buf, clean, k)
  BY <1>1, ReadIs
<1>3. ReadFields(c, h, room, max, lba, buf, clean, k)
  BY <1>2, ReadingFields
<1>4. /\ h \in Handles /\ max \in Nat /\ lba \in Nat /\ clean \in BOOLEAN
      /\ clean => Copied(buf, lba * SECTOR, k)
  BY <1>2 DEF Reading
<1>5. PICK size : size = Clipped(archive[k].size, max)
  OBVIOUS
<1>6. job = JobAt("read", c, << >>, h, room, max, size, lba, buf, << >>, clean)
  BY <1>2, <1>5 DEF Reading
<1>7. PICK sector \in BlkRead(ftab[job.h].data_lba + job.lba) :
        job' = [After(sector) EXCEPT
                   !.lba = @ + 1,
                   !.buf = IF sector = Failed THEN @
                           ELSE Written(job.lba * SECTOR, SECTOR, sector.data)]
  BY DEF ReadFull
<1>8. lba < Full /\ job.lba = lba /\ job.buf = buf
  BY <1>3 DEF ReadFull, ReadFields
<1>9. /\ (lba + 1) * SECTOR = lba * SECTOR + SECTOR /\ lba * SECTOR \in Nat
      /\ (lba + 1) * SECTOR <= size /\ lba * SECTOR + SECTOR <= archive[k].size
  <2>1. SECTOR \in Nat \ {0} /\ Full \in Nat /\ Full * SECTOR <= size /\ Full * SECTOR \in Nat
        /\ size \in Nat /\ size <= archive[k].size /\ archive[k].size \in Nat
    BY <1>3, <1>5 DEF ReadFields
  <2>2. (lba + 1) * SECTOR = lba * SECTOR + SECTOR /\ lba * SECTOR \in Int
    BY <1>4, <2>1, TimesNext
  <2>3. lba * SECTOR >= 0
    BY <1>4, <2>1
  <2>4. (lba + 1) * SECTOR <= Full * SECTOR
    <3>1. CASE lba + 1 = Full
      BY <2>1, <3>1
    <3>2. CASE lba + 1 # Full
      <4>1. lba + 1 < Full
        BY <1>4, <1>8, <2>1, <3>2
      <4>2. (lba + 1) * SECTOR < Full * SECTOR
        BY <1>4, <2>1, <4>1, TimesLess
      <4> QED
        BY <2>1, <2>2, <4>2
    <3> QED
      BY <3>1, <3>2
  <2> QED
    BY <2>1, <2>2, <2>3, <2>4
<1>10. sector = Failed \/ sector = DataSector(k, lba, archive[k].size)
  <2>1. lba * SECTOR < archive[k].size
    BY <1>3, <1>9 DEF ReadFields
  <2>2. sector \in BlkRead(Start(archive, k) + 1 + lba) /\ k \in 1 .. Len(archive)
    BY <1>3, <1>7 DEF ReadFields
  <2> QED
    BY <1>1, <1>4, <2>1, <2>2, FileReads
<1>11. PICK b \in BOOLEAN : b <=> (clean /\ sector # Failed)
  OBVIOUS
<1>12. PICK w : w = IF sector = Failed THEN buf ELSE Written(lba * SECTOR, SECTOR, sector.data)
  OBVIOUS
<1>13. job' = JobAt("read", c, << >>, h, room, max, size, lba + 1, w, << >>, b)
  <2>1. job' = [job EXCEPT !.clean = job.clean /\ sector # Failed, !.lba = lba + 1, !.buf = w]
    BY <1>6, <1>7, <1>8, <1>12 DEF After, JobAt
  <2>2. (job.clean /\ sector # Failed) = b
    <3>1. job.clean = clean
      BY <1>6 DEF JobAt
    <3> QED
      BY <1>11, <3>1
  <2>3. job' = [job EXCEPT !.clean = b, !.lba = lba + 1, !.buf = w]
    BY <2>1, <2>2
  <2> QED
    BY <1>6, <2>3 DEF JobAt
<1>14. b => Copied(w, (lba + 1) * SECTOR, k)
  <2>1. ASSUME b PROVE Copied(w, lba * SECTOR + SECTOR, k)
    <3>1. clean /\ sector = DataSector(k, lba, archive[k].size) /\ sector # Failed
      BY <1>10, <1>11, <2>1
    <3>2. \A j \in 0 .. SECTOR - 1 : sector.data[j] = <<k, lba * SECTOR + j>>
      <4> TAKE j \in 0 .. SECTOR - 1
      <4>1. lba * SECTOR + j < archive[k].size
        <5>1. SECTOR \in Nat /\ archive[k].size \in Nat
          BY <1>3 DEF ReadFields
        <5>2. lba * SECTOR \in Nat /\ lba * SECTOR + SECTOR <= archive[k].size
          BY <1>9
        <5> QED
          BY ONLY <5>1, <5>2, j \in 0 .. SECTOR - 1
      <4> QED
        BY <3>1, <4>1, DataIs
    <3>3. Copied(job.buf, lba * SECTOR, k) /\ SECTOR \in Nat
      BY <1>3, <1>4, <1>8, <3>1 DEF ReadFields
    <3>4. Copied(Written(lba * SECTOR, SECTOR, sector.data), lba * SECTOR + SECTOR, k)
      BY <1>9, <3>2, <3>3, WrittenIs
    <3> QED
      BY <1>12, <3>1, <3>4
  <2> QED
    BY <1>9, <2>1
<1>15. Reading(c, h, room, max, lba + 1, w, b, k)'
  <2>1. \E d : Owns(h, d, k)'
    BY <1>1, <1>2 DEF Reading, Owns, Entry
  <2>2. size = Clipped(archive'[k].size, max)
    BY <1>1, <1>5
  <2>3. b => Copied(w, (lba + 1) * SECTOR, k)'
    BY <1>14 DEF Copied
  <2>4. h \in Handles' /\ lba + 1 \in Nat /\ (lba + 1) * SECTOR <= size
    BY <1>4, <1>9 DEF Handles
  <2> QED
    BY <1>4, <1>11, <1>13, <2>1, <2>2, <2>3, <2>4 DEF Reading
<1> QED
  BY <1>1, <1>15 DEF FsInv, JobOK

\* The rest of the file and the answer.
ReadAnswers ==
    \E c, h, room, max, lba, buf, clean, k :
        /\ Reading(c, h, room, max, lba, buf, clean, k)
        /\ job' = NoJob /\ reply'.n = job.size /\ reply'.job.op = "read"
        /\ reply'.job.clean => Copied(reply'.job.buf, job.size, k)

LEMMA ReadRestIs == ASSUME FsInv, ReadRest PROVE ReadAnswers
<1>1. /\ job.op = "read" /\ JobOK /\ archive \in Archives /\ job.lba = Full
  BY DEF ReadRest, FsInv
<1>2. PICK c, h, room, max, lba, buf, clean, k : Reading(c, h, room, max, lba, buf, clean, k)
  BY <1>1, ReadIs
<1>3. ReadFields(c, h, room, max, lba, buf, clean, k)
  BY <1>2, ReadingFields
<1>4. lba = Full /\ job.buf = buf /\ job.h = h /\ Full * SECTOR \in Nat
  BY <1>1, <1>3 DEF ReadFields
<1>5. job.clean => Copied(job.buf, Full * SECTOR, k)
  BY <1>2, <1>3, <1>4 DEF Reading, ReadFields
<1>6. PICK size : size = job.size
  OBVIOUS
<1>7. /\ Rem \in Nat /\ Rem < SECTOR /\ Full * SECTOR + Rem = size /\ size <= archive[k].size
      /\ SECTOR \in Nat \ {0} /\ archive[k].size \in Nat
  <2>1. Rem = size - Full * SECTOR
    BY <1>6 DEF Rem
  <2> QED
    BY <1>3, <1>6, <2>1 DEF ReadFields
<1>8. CASE Rem = 0
  <2>1. Answers(job, size)
    BY <1>6, <1>8 DEF ReadRest
  <2>2. job' = NoJob /\ reply'.n = size /\ reply'.job = job
    BY <2>1 DEF Answers
  <2>3. Full * SECTOR = size
    BY <1>4, <1>7, <1>8
  <2> QED
    BY <1>1, <1>2, <1>5, <1>6, <2>2, <2>3 DEF ReadAnswers
<1>9. CASE Rem # 0
  <2>1. PICK sector \in BlkRead(LastSector) :
            /\ bounce' = IF sector = Failed THEN bounce ELSE sector.data
            /\ Answers([After(sector) EXCEPT !.buf = Written(Full * SECTOR, Rem, bounce')], size)
    BY <1>6, <1>9 DEF ReadRest
  <2>2. sector = Failed \/ sector = DataSector(k, Full, archive[k].size)
    <3>1. Full * SECTOR < archive[k].size /\ Full \in Nat /\ k \in 1 .. Len(archive)
      BY <1>3, <1>4, <1>7, <1>9 DEF ReadFields
    <3>2. LastSector = Start(archive, k) + 1 + Full
      BY <1>3, <1>4 DEF LastSector, ReadFields
    <3> QED
      BY <1>1, <2>1, <3>1, <3>2, FileReads
  <2>3. PICK w : w = Written(Full * SECTOR, Rem, bounce')
    OBVIOUS
  <2>4. job' = NoJob /\ reply'.n = size /\ reply'.job = [After(sector) EXCEPT !.buf = w]
    BY <2>1, <2>3 DEF Answers
  <2>5. PICK d : d = Clipped(archive[k].size, max)
    OBVIOUS
  <2>6. job = JobAt("read", c, << >>, h, room, max, d, lba, buf, << >>, clean)
    BY <1>2, <2>5 DEF Reading
  <2>7. /\ reply'.job.op = "read" /\ reply'.job.buf = w
        /\ reply'.job.clean => job.clean /\ sector # Failed
    BY <2>4, <2>6 DEF After, JobAt
  <2>8. ASSUME job.clean, sector # Failed PROVE Copied(w, size, k)
    <3>1. sector = DataSector(k, Full, archive[k].size) /\ bounce' = sector.data
      BY <2>1, <2>2, <2>8
    <3>2. \A j \in 0 .. Rem - 1 : bounce'[j] = <<k, Full * SECTOR + j>>
      <4> TAKE j \in 0 .. Rem - 1
      <4>1. Full * SECTOR + j < archive[k].size /\ j \in 0 .. SECTOR - 1
        BY <1>4, <1>7
      <4> QED
        BY <3>1, <4>1, DataIs
    <3>3. Copied(Written(Full * SECTOR, Rem, bounce'), Full * SECTOR + Rem, k)
      BY <1>4, <1>5, <1>7, <2>8, <3>2, WrittenIs
    <3> QED
      BY <1>7, <2>3, <3>3
  <2> QED
    BY <1>2, <1>6, <2>4, <2>7, <2>8 DEF ReadAnswers
<1> QED
  BY <1>8, <1>9

LEMMA ReadRestInv == ASSUME FsInv, ReadRest PROVE FsInv'
<1>1. archive \in Archives /\ UNCHANGED <<archive, ftab, held>> /\ TableOK' /\ ListExact
  BY TableStays DEF ReadRest, FsInv
<1>2. job' = NoJob /\ reply'.job.op # "list"
  BY ReadRestIs DEF ReadAnswers
<1>3. ListExact'
  BY <1>1, <1>2, ReplyStays
<1> QED
  BY <1>1, <1>2, <1>3 DEF FsInv, JobOK

-----------------------------------------------------------------------------
LEMMA FsInvStep == FsInv /\ [FsNext]_fsvars => FsInv'
<1> SUFFICES ASSUME FsInv, [FsNext]_fsvars PROVE FsInv'
  OBVIOUS
<1>1. CASE OpenStep
  BY <1>1, OpenStepInv
<1>2. CASE ReadFull
  BY <1>2, ReadFullInv
<1>3. CASE ReadRest
  BY <1>3, ReadRestInv
<1>4. CASE ListStep
  BY <1>4, ListStepInv
<1>5. CASE \E c \in Clients, path \in Paths : Open(c, path)
  BY <1>5, OpenInv
<1>6. CASE \E c \in Clients : \E o \in held[c] : Close(c, o[1])
  BY <1>6, CloseInv
<1>7. CASE \E c \in Clients, room \in Rooms : List(c, room)
  BY <1>7, ListInv
<1>8. CASE \E c \in Clients, room \in Rooms, h \in Handles : Read(c, h, room)
  BY <1>8, ReadInv
<1>9. CASE UNCHANGED fsvars
  <2>1. UNCHANGED <<archive, ftab, held, job, reply>>
    BY <1>9 DEF fsvars
  <2>2. TableOK' /\ ListExact' /\ archive \in Archives /\ JobOK
    BY <2>1, TableStays, ReplyStays DEF FsInv
  <2>3. Names' = Names /\ Handles' = Handles /\ \A h, c, k : Owns(h, c, k)' <=> Owns(h, c, k)
    BY <2>1 DEF Names, Handles, Owns, Entry
  <2>4. JobOK'
    <3>1. CASE job = NoJob
      BY <2>1, <3>1 DEF JobOK
    <3>2. ASSUME NEW c, NEW path, NEW k, Opening(c, path, k) PROVE JobOK'
      <4>1. Opening(c, path, k)'
        BY <2>1, <3>2 DEF Opening
      <4> QED
        BY <4>1 DEF JobOK
    <3>3. ASSUME NEW c, NEW room, NEW out, NEW k, Listing(c, room, out, k) PROVE JobOK'
      <4>1. Listing(c, room, out, k)'
        BY <2>1, <2>3, <3>3 DEF Listing, Listed
      <4> QED
        BY <4>1 DEF JobOK
    <3>4. ASSUME NEW c, NEW h, NEW room, NEW max, NEW lba, NEW buf, NEW clean, NEW k,
                 Reading(c, h, room, max, lba, buf, clean, k)
          PROVE  JobOK'
      <4>1. Reading(c, h, room, max, lba, buf, clean, k)'
        BY <2>1, <2>3, <3>4 DEF Reading, Copied
      <4> QED
        BY <4>1 DEF JobOK
    <3> QED
      BY <2>2, <3>1, <3>2, <3>3, <3>4 DEF JobOK
  <2> QED
    BY <2>1, <2>2, <2>4 DEF FsInv
<1> QED
  BY <1>1, <1>2, <1>3, <1>4, <1>5, <1>6, <1>7, <1>8, <1>9 DEF FsNext, FsStep

LEMMA FsInvAlways == FsSpec => []FsInv
<1>1. FsInit => FsInv
  BY FsInitInv
<1>2. FsInv /\ [FsNext]_fsvars => FsInv'
  BY FsInvStep
<1> QED
  BY <1>1, <1>2, PTL DEF FsSpec

(* Handles and requests keep their types, and no walk over the headers and *)
(* no copy of a file reads past the end mark of the archive                *)
(* (fs_open, fs_list, fs_read).                                            *)
THEOREM FsTypeCorrect == FsSpec => []FsTypeOK
<1>1. ASSUME FsInv PROVE FsTypeOK
  <2>1. archive \in Archives /\ TableOK /\ JobOK
    BY <1>1 DEF FsInv
  <2>2. \A h \in Handles :
          /\ ftab[h].used \in BOOLEAN
          /\ ftab[h].data_lba \in 0 .. Len(Disk[archive]) /\ ftab[h].size \in Nat
    <3> TAKE h \in Handles
    <3>1. ftab[h] \in Entries
      BY <2>1 DEF TableOK
    <3> QED
      BY <3>1 DEF Entries
  <2>3. held \in [Clients -> SUBSET (Handles \X DOMAIN archive)]
    BY <2>1, ArchiveFacts DEF TableOK
  <2>4. \A k \in 1 .. Len(archive) + 1 : Start(archive, k) \in 0 .. Len(Disk[archive]) - 2
    BY <2>1, StartOnDisk
  <2> DEFINE Ok == /\ job.op \in {"none", "open", "read", "list"}
                   /\ job.lba \in 0 .. Len(Disk[archive]) - 2
  <2>5. ASSUME job = NoJob PROVE Ok
    <3>1. 1 \in 1 .. Len(archive) + 1 /\ Start(archive, 1) = 0
      BY <2>1, ArchiveFacts DEF StartsAt
    <3>2. job.op = "none" /\ job.lba = 0
      BY <2>5 DEF NoJob, Job
    <3> QED
      BY <2>4, <3>1, <3>2
  <2>6. ASSUME NEW c, NEW path, NEW k, Opening(c, path, k) PROVE Ok
    <3>1. job.op = "open" /\ job.lba = Start(archive, k) /\ k \in 1 .. Len(archive) + 1
      BY <2>6 DEF Opening, JobAt
    <3> QED
      BY <2>4, <3>1
  <2>7. ASSUME NEW c, NEW room, NEW out, NEW k, Listing(c, room, out, k) PROVE Ok
    <3>1. job.op = "list" /\ job.lba = Start(archive, k) /\ k \in 1 .. Len(archive) + 1
      BY <2>7 DEF Listing, JobAt
    <3> QED
      BY <2>4, <3>1
  <2>8. ASSUME NEW c, NEW h, NEW room, NEW max, NEW lba, NEW buf, NEW clean, NEW k,
               Reading(c, h, room, max, lba, buf, clean, k)
        PROVE  Ok
    <3>1. ReadFields(c, h, room, max, lba, buf, clean, k)
      BY <1>1, <2>8, ReadingFields
    <3>2. job.op = "read"
      BY <2>8, JobOps
    <3> DEFINE n == Sectors(archive[k].size)
    <3>3. /\ k \in 1 .. Len(archive) /\ archive[k].size \in Nat /\ SECTOR \in Nat \ {0}
          /\ job.lba = lba /\ lba \in Nat /\ lba * SECTOR <= archive[k].size
      <4>1. lba * SECTOR <= job.size /\ lba \in Nat /\ lba * SECTOR \in Int
        BY <2>8, <3>1, TimesNext DEF Reading, ReadFields
      <4> QED
        BY <3>1, <4>1 DEF ReadFields
    <3>4. n \in Nat /\ n * SECTOR >= archive[k].size
      BY <3>3, SectorsHold DEF Holds
    <3>5. k + 1 \in 1 .. Len(archive) + 1 /\ k \in 1 .. Len(archive) + 1
      BY <2>1, <3>3, ArchiveFacts
    <3>6. Start(archive, k + 1) = Start(archive, k) + 1 + n
      BY <2>1, <3>3, ArchiveFacts DEF StartsAt
    <3> HIDE DEF n, Start
    <3>7. lba <= n
      <4>1. lba * SECTOR <= n * SECTOR /\ lba * SECTOR \in Int /\ n * SECTOR \in Int
        BY <3>3, <3>4, TimesNext
      <4>2. ~(n * SECTOR < lba * SECTOR)
        BY <4>1
      <4>3. ~(n < lba)
        BY <3>3, <3>4, <4>2, TimesLess
      <4> QED
        BY <3>3, <3>4, <4>3
    <3>8. Start(archive, k + 1) \in 0 .. Len(Disk[archive]) - 2 /\ Start(archive, k) \in Nat
      BY <2>4, <3>5
    <3> QED
      BY <3>2, <3>3, <3>4, <3>6, <3>7, <3>8
  <2>9. Ok
    <3> HIDE DEF Ok
    <3> QED
      BY <2>1, <2>5, <2>6, <2>7, <2>8 DEF JobOK
  <2> QED
    BY <2>1, <2>2, <2>3, <2>9 DEF FsTypeOK
<1> QED
  BY <1>1, FsInvAlways, PTL

(* Opens and closes of several clients do not get in each other's way:     *)
(* every handle in use is held by one client, for the member it asked for, *)
(* and a handle that is not in use by none (ftab in fs_open, MSG_CLOSE).   *)
THEOREM FsHandlesHeld == FsSpec => []HandlesHeld
<1>1. ASSUME FsInv PROVE HandlesHeld
  <2> SUFFICES ASSUME NEW h \in Handles
               PROVE  LET holders == {c \in Clients : \E o \in held[c] : o[1] = h} IN
                      /\ ftab[h].used => Cardinality(holders) = 1
                      /\ ~ftab[h].used => holders = {}
                      /\ \A c \in holders : \A o \in held[c] :
                            o[1] = h => ftab[h].size = archive[o[2]].size
    BY DEF HandlesHeld
  <2> DEFINE holders == {c \in Clients : \E o \in held[c] : o[1] = h}
  <2>1. HandleOK(h)
    BY <1>1 DEF FsInv, TableOK
  <2>2. CASE ftab[h].used
    <3>1. PICK c, k : Owns(h, c, k)
      BY <2>1, <2>2 DEF HandleOK
    <3>2. c \in Clients /\ <<h, k>> \in held[c] /\ <<h, k>>[1] = h
      BY <3>1 DEF Owns
    <3>3. \A d \in Clients : \A o \in held[d] : o[1] = h => d = c /\ o[2] = k
      BY <3>1 DEF Owns
    <3>4. holders = {c}
      BY <3>2, <3>3
    <3>5. Cardinality(holders) = 1
      BY <3>4, FS_Singleton
    <3>6. ftab[h].size = archive[k].size
      BY <3>1 DEF Owns, Entry
    <3> QED
      BY <2>2, <3>3, <3>5, <3>6
  <2>3. CASE ~ftab[h].used
    BY <2>1, <2>3 DEF HandleOK, Nobody
  <2> QED
    BY <2>2, <2>3
<1> QED
  BY <1>1, FsInvAlways, PTL

(* A listing and its zero fit into the client's buffer, and it is complete *)
(* and correct where there is room for it (the two bounds of fs_list).     *)
THEOREM FsListExact == FsSpec => []ListExact
<1>1. FsInv => ListExact
  BY DEF FsInv
<1> QED
  BY <1>1, FsInvAlways, PTL

\* If no handle is free, all are in use.
LEMMA TableFull ==
    ASSUME TableOK, \A h \in Handles : ~FreeHandle(h)
    PROVE  \A h \in Handles : ftab[h].used
<1> SUFFICES ASSUME NEW g \in Handles, ~ftab[g].used PROVE FALSE
  OBVIOUS
<1> DEFINE S == {i \in Nat : i \in Handles /\ ~ftab[i].used}
<1>1. g \in S /\ S \in SUBSET Nat
  BY FsAssumption DEF Handles
<1>2. PICK h \in S : \A i \in S : h <= i
  <2> HIDE DEF S
  <2> QED
    BY <1>1, LeastMember
<1>3. \A i \in 0 .. h - 1 : ftab[i].used
  <2> TAKE i \in 0 .. h - 1
  <2>1. i \in Nat /\ i \in Handles /\ i < h
    BY <1>2, FsAssumption DEF Handles
  <2> QED
    BY <1>2, <2>1
<1> QED
  BY <1>2, <1>3 DEF FreeHandle

(* An open of a member of the archive fails only for a read error or a     *)
(* full table, wherever in the archive the member is: the walk of fs_open  *)
(* meets every header.                                                     *)
THEOREM FsOpenFinds == FsSpec => OpenFinds
<1>1. ASSUME FsInv, [FsNext]_fsvars, Answered("open"), reply'.n = -1, reply'.job.clean
      PROVE  \/ \A k \in DOMAIN archive : archive[k].name # job.path
             \/ \A h \in Handles : ftab[h].used
  <2>1. job.op = "open" /\ job # NoJob /\ job' = NoJob
    BY <1>1, JobOps DEF Answered
  <2>2. OpenStep
    <3>1. job # job'
      BY <2>1
    <3> QED
      BY <1>1, <2>1, <3>1 DEF FsNext, FsStep, fsvars, Open, Read, List, Close, ReadFull, ReadRest, ListStep
  <2>3. PICK c, path, k, hdr :
              /\ Opening(c, path, k) /\ Meets(hdr, k)
              /\ UNCHANGED <<archive, bounce>>
              /\ \/ Ends(hdr) /\ Answers(After(hdr), -1) /\ UNCHANGED <<ftab, held>>
                 \/ ~Ends(hdr) /\ hdr.name = path /\ OpenHits(hdr)
                 \/ /\ ~Ends(hdr) /\ hdr.name # path
                    /\ job' = [job EXCEPT !.lba = @ + Skips(hdr)]
                    /\ UNCHANGED <<reply, ftab, held>>
    BY <1>1, <2>2, OpenStepCases
  <2>4. /\ job = JobAt("open", c, path, -1, 0, 0, 0, Start(archive, k), << >>, << >>, TRUE)
        /\ k \in 1 .. Len(archive) + 1
        /\ \A i \in 1 .. k - 1 : archive[i].name # path
        /\ archive \in Archives /\ TableOK
    BY <1>1, <2>3 DEF Opening, FsInv
  <2>5. CASE Ends(hdr) /\ Answers(After(hdr), -1)
    <3>1. hdr # Failed
      <4>1. After(hdr).clean
        BY <1>1, <2>5 DEF Answers
      <4> QED
        BY <2>4, <4>1 DEF After, JobAt
    <3>2. k = Len(archive) + 1
      BY <2>3, <2>4, <2>5, <3>1, WalkEnds
    <3>3. job.path = path
      BY <2>4 DEF JobAt
    <3>4. DOMAIN archive = 1 .. Len(archive) /\ Len(archive) \in Nat
      BY <2>4, ArchiveFacts
    <3>5. 1 .. k - 1 = DOMAIN archive
      BY <3>2, <3>4
    <3> QED
      BY <2>4, <3>3, <3>5
  <2>6. CASE OpenHits(hdr)
    <3>1. CASE \E h \in Handles : Answers(After(hdr), h)
      <4>1. PICK h \in Handles : reply'.n = h
        BY <3>1 DEF Answers
      <4>2. h # -1
        BY FsAssumption DEF Handles
      <4> QED
        BY <1>1, <4>1, <4>2
    <3>2. CASE \A h \in Handles : ~FreeHandle(h)
      BY <2>4, <3>2, TableFull
    <3> QED
      BY <2>6, <3>1, <3>2 DEF OpenHits
  <2>7. CASE job' = [job EXCEPT !.lba = @ + Skips(hdr)]
    <3>1. job'.op = "open"
      BY <2>4, <2>7 DEF JobAt
    <3> QED
      BY <2>1, <3>1, JobOps
  <2> QED
    BY <2>3, <2>5, <2>6, <2>7
<1>2. FsInv /\ [FsNext]_fsvars =>
        [Answered("open") /\ reply'.n = -1 /\ reply'.job.clean =>
             \/ \A k \in DOMAIN archive : archive[k].name # job.path
             \/ \A h \in Handles : ftab[h].used]_fsvars
  BY <1>1
<1> QED
  BY <1>2, FsInvAlways, PTL DEF FsSpec, OpenFinds

(* Without a read error the client gets the beginning of the member its    *)
(* handle was opened for, as much as fits, byte for byte, over full        *)
(* sectors and the bounced rest (fs_read).                                 *)
THEOREM FsReadExact == FsSpec => ReadExact
<1>1. ASSUME FsInv, [FsNext]_fsvars, Answered("read"), reply'.job.clean
      PROVE  \E o \in UNION {held[c] : c \in Clients} :
                /\ o[1] = job.h
                /\ reply'.n = Clipped(archive[o[2]].size, job.max)
                /\ reply'.job.buf = [i \in 0 .. reply'.n - 1 |-> <<o[2], i>>]
  <2>1. job.op = "read" /\ job # NoJob /\ job' = NoJob
    BY <1>1, JobOps DEF Answered
  <2>2. ReadRest \/ ReadFull
    <3>1. job # job'
      BY <2>1
    <3> QED
      BY <1>1, <2>1, <3>1 DEF FsNext, FsStep, fsvars, Open, Read, List, Close, OpenStep, ListStep
  <2>3. ~ReadFull
    <3> SUFFICES ASSUME ReadFull PROVE FALSE
      OBVIOUS
    <3>2. PICK sector : job' = [After(sector) EXCEPT
                   !.lba = @ + 1,
                   !.buf = IF sector = Failed THEN @
                           ELSE Written(job.lba * SECTOR, SECTOR, sector.data)]
      BY DEF ReadFull
    <3>3. PICK c, h, room, max, lba, buf, clean, k : Reading(c, h, room, max, lba, buf, clean, k)
      BY <1>1, <2>1, ReadIs DEF FsInv
    <3>4. PICK size : size = Clipped(archive[k].size, max)
      OBVIOUS
    <3>5. job = JobAt("read", c, << >>, h, room, max, size, lba, buf, << >>, clean)
      BY <3>3, <3>4 DEF Reading
    <3>6. job'.op = "read"
      BY <3>2, <3>5 DEF After, JobAt
    <3> QED
      BY <2>1, <3>6, JobOps
  <2>4. ReadAnswers
    BY <1>1, <2>2, <2>3, ReadRestIs
  <2>5. PICK c, h, room, max, lba, buf, clean, k :
        /\ Reading(c, h, room, max, lba, buf, clean, k)
        /\ reply'.n = job.size
        /\ reply'.job.clean => Copied(reply'.job.buf, job.size, k)
    BY <2>4 DEF ReadAnswers
  <2>6. ReadFields(c, h, room, max, lba, buf, clean, k)
    BY <1>1, <2>5, ReadingFields
  <2>7. PICK d \in Clients : <<h, k>> \in held[d]
    BY <2>5 DEF Reading, Owns
  <2>8. <<h, k>> \in UNION {held[e] : e \in Clients} /\ <<h, k>>[1] = h /\ <<h, k>>[2] = k
    BY <2>7
  <2>9. /\ job.h = h /\ reply'.n = Clipped(archive[k].size, job.max)
        /\ reply'.job.buf = [i \in 0 .. reply'.n - 1 |-> <<k, i>>]
    BY <1>1, <2>5, <2>6 DEF ReadFields, Copied
  <2> QED
    BY <2>8, <2>9
<1>2. FsInv /\ [FsNext]_fsvars =>
        [Answered("read") /\ reply'.job.clean =>
             \E o \in UNION {held[c] : c \in Clients} :
                /\ o[1] = job.h
                /\ reply'.n = Clipped(archive[o[2]].size, job.max)
                /\ reply'.job.buf = [i \in 0 .. reply'.n - 1 |-> <<o[2], i>>]]_fsvars
  BY <1>1
<1> QED
  BY <1>2, FsInvAlways, PTL DEF FsSpec, ReadExact
=============================================================================
