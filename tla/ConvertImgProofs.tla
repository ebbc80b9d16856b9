-------------------------- MODULE ConvertImgProofs --------------------------
(***************************************************************************)
(* The ring of two blocks between the NAND manager and flash_write, for every *)
(* size of a block, a chunk and an image, and any number of images.           *)
(***************************************************************************)
EXTENDS ConvertImg, TLAPS

B == BlockSectors

LEMMA BlockType == B \in Nat \ {0} /\ Chunk + MetaMax < B /\ Ring = 0 .. 2 * B - 1
<1>1. PagesPerBlock * SectorsPerPage \in Nat \ {0}
  <2>1. PagesPerBlock >= 1 /\ SectorsPerPage >= 1 /\ PagesPerBlock \in Nat /\ SectorsPerPage \in Nat
    BY SizesAssumption
  <2>2. PagesPerBlock * SectorsPerPage >= 1 * SectorsPerPage
    BY <2>1
  <2> QED
    BY <2>1, <2>2
<1> QED
  BY <1>1, SizesAssumption DEF B, BlockSectors, Ring

\* A number is so many times d and a rest smaller than d in one way only.
LEMMA RestUnique ==
    ASSUME NEW d \in Nat \ {0}, NEW a \in Nat, NEW q \in Nat, NEW r \in 0 .. d - 1,
           a = (d * q) + r
    PROVE  a \div d = q /\ a % d = r
<1> DEFINE p == a \div d
           s == a % d
<1>1. p \in Int /\ a = (d * p) + s /\ s \in 0 .. d - 1
  OBVIOUS
<1> HIDE DEF p, s
<1>2. ~(p >= q + 1)
  <2> SUFFICES ASSUME p >= q + 1 PROVE FALSE
    OBVIOUS
  <2>1. d * p >= d * (q + 1)
    BY <1>1
  <2>2. d * (q + 1) = (d * q) + d
    OBVIOUS
  <2> QED
    BY <1>1, <2>1, <2>2
<1>3. ~(q >= p + 1)
  <2> SUFFICES ASSUME q >= p + 1 PROVE FALSE
    OBVIOUS
  <2>1. d * q >= d * (p + 1)
    BY <1>1
  <2>2. d * (p + 1) = (d * p) + d
    BY <1>1
  <2> QED
    BY <1>1, <2>1, <2>2
<1>4. p = q
  BY <1>1, <1>2, <1>3
<1>5. s = r
  BY <1>1, <1>4
<1> QED
  BY <1>4, <1>5 DEF p, s

\* Sector t of block k of the stream is in the half of the ring that k's parity says.
LEMMA RingPlace ==
    ASSUME NEW k \in Nat, NEW t \in 0 .. B - 1
    PROVE  /\ k % 2 \in {0, 1}
           /\ RingOf((B * k) + t) = (B * (k % 2)) + t
           /\ RingOf((B * k) + t) \in Ring
           /\ RingOf((B * k) + t) \div B = k % 2
<1> DEFINE m == k \div 2
           h == k % 2
<1>1. k = (2 * m) + h /\ h \in {0, 1} /\ m \in Nat
  OBVIOUS
<1> HIDE DEF m, h
<1>2. B \in Nat \ {0} /\ Ring = 0 .. 2 * B - 1
  BY BlockType
<1>3. (B * h) + t \in 0 .. (2 * B) - 1
  <2>1. CASE h = 0
    BY <1>2, <2>1
  <2>2. CASE h = 1
    BY <1>2, <2>2
  <2> QED
    BY <1>1, <2>1, <2>2
<1>4. (B * k) + t = ((2 * B) * m) + ((B * h) + t)
  <2>1. B * k = B * ((2 * m) + h)
    BY <1>1
  <2>2. B * ((2 * m) + h) = (B * (2 * m)) + (B * h)
    BY <1>1, <1>2
  <2>3. B * (2 * m) = (2 * B) * m
    BY <1>1, <1>2
  <2>4. B * h \in Nat /\ B * k \in Nat /\ (2 * B) * m \in Nat /\ t \in Nat
    BY <1>1, <1>2
  <2> QED
    BY <2>1, <2>2, <2>3, <2>4
<1>5. (B * k) + t \in Nat /\ 2 * B \in Nat \ {0}
  BY <1>2
<1>6. ((B * k) + t) % (2 * B) = (B * h) + t
  BY <1>1, <1>3, <1>4, <1>5, RestUnique
<1>7. ((B * h) + t) \div B = h
  <2>1. h \in Nat /\ (B * h) + t \in Nat
    BY <1>1, <1>3
  <2> QED
    BY <1>2, <2>1, RestUnique
<1>8. RingOf((B * k) + t) = (B * h) + t
  BY <1>6 DEF RingOf, B
<1> QED
  BY <1>1, <1>2, <1>3, <1>7, <1>8 DEF h

\* The same for any sector: in its block, or of the next one.
LEMMA RingNear ==
    ASSUME NEW k \in Nat, NEW n \in Nat, B * k <= n, n < (B * k) + (2 * B)
    PROVE  RingOf(n) = IF n < (B * k) + B THEN (B * (k % 2)) + (n - (B * k))
                       ELSE (B * ((k + 1) % 2)) + (n - (B * k) - B)
<1>1. B \in Nat \ {0} /\ B * k \in Nat /\ B * (k + 1) = (B * k) + B
  BY BlockType
<1>2. CASE n < (B * k) + B
  <2> DEFINE t == n - (B * k)
  <2>1. t \in 0 .. B - 1 /\ n = (B * k) + t
    BY <1>1, <1>2
  <2> HIDE DEF t
  <2>2. RingOf(n) = (B * (k % 2)) + t
    BY <2>1, RingPlace
  <2> QED
    BY <1>2, <2>2 DEF t
<1>3. CASE ~(n < (B * k) + B)
  <2> DEFINE t == n - (B * k) - B
  <2>1. t \in 0 .. B - 1 /\ n = (B * (k + 1)) + t /\ k + 1 \in Nat
    BY <1>1, <1>3
  <2> HIDE DEF t
  <2>2. RingOf(n) = (B * ((k + 1) % 2)) + t
    BY <2>1, RingPlace
  <2> QED
    BY <1>3, <2>2 DEF t
<1> QED
  BY <1>2, <1>3

LEMMA HalvesApart ==
    ASSUME NEW c \in Nat, NEW d \in Nat \ {0}, NEW a \in Nat, NEW b \in Nat,
           c <= a, a < c + (2 * d), c <= b, b < c + (2 * d),
           NEW h \in {0, d},
           (IF a < c + d THEN h + (a - c) ELSE (d - h) + (a - c - d))
             = (IF b < c + d THEN h + (b - c) ELSE (d - h) + (b - c - d))
    PROVE  a = b
<1>1. CASE h = 0
  BY <1>1
<1>2. CASE h = d
  BY <1>2
<1> QED
  BY <1>1, <1>2

\* Two blocks in a row have places of their own.
LEMMA RingApart ==
    ASSUME NEW k \in Nat, NEW a \in Nat, NEW b \in Nat,
           B * k <= a, a < (B * k) + (2 * B), B * k <= b, b < (B * k) + (2 * B),
           RingOf(a) = RingOf(b)
    PROVE  a = b
<1>1. B \in Nat \ {0} /\ B * k \in Nat
  BY BlockType
<1>2. /\ RingOf(a) = IF a < (B * k) + B THEN (B * (k % 2)) + (a - (B * k))
                     ELSE (B * ((k + 1) % 2)) + (a - (B * k) - B)
      /\ RingOf(b) = IF b < (B * k) + B THEN (B * (k % 2)) + (b - (B * k))
                     ELSE (B * ((k + 1) % 2)) + (b - (B * k) - B)
  BY RingNear
<1>3. \/ k % 2 = 0 /\ (k + 1) % 2 = 1
      \/ k % 2 = 1 /\ (k + 1) % 2 = 0
  OBVIOUS
<1> DEFINE c == B * k
           h == B * (k % 2)
<1>4. c \in Nat /\ h \in {0, B} /\ B * ((k + 1) % 2) = B - h
  <2>1. B * 0 = 0 /\ B * 1 = B
    BY <1>1
  <2>2. CASE k % 2 = 0 /\ (k + 1) % 2 = 1
    BY <1>1, <2>1, <2>2
  <2>3. CASE k % 2 = 1 /\ (k + 1) % 2 = 0
    BY <1>1, <2>1, <2>3
  <2> QED
    BY <1>3, <2>2, <2>3
<1>5. (IF a < c + B THEN h + (a - c) ELSE (B - h) + (a - c - B))
        = (IF b < c + B THEN h + (b - c) ELSE (B - h) + (b - c - B))
  BY <1>2, <1>4
<1>6. c <= a /\ a < c + (2 * B) /\ c <= b /\ b < c + (2 * B)
  OBVIOUS
<1> HIDE DEF c, h
<1> QED
  BY <1>1, <1>4, <1>5, <1>6, HalvesApart

-----------------------------------------------------------------------------
(* Types *)

\* byteoffset is a whole number of sectors, which is why the last block is never taken.
OffsetInv == byteoffset % PagesPerBlock = 0

Sectors == Nat \cup {FF}

TypeInv ==
    /\ pc \in {"idle", "write", "check", "done"}
    /\ flash \in 0 .. Flashes /\ len \in Nat /\ pos \in Nat
    /\ ring \in [Ring -> Sectors]
    /\ count \in Nat /\ blocknum \in Nat /\ carried \in Nat
    /\ byteoffset \in 0 .. 2 * BlockSectors * SectorBytes /\ OffsetInv
    /\ out \in Seq([1 .. BlockSectors -> Sectors])

LEMMA WholeOffset ==
    ASSUME NEW n \in Nat
    PROVE  n * SectorBytes \in Nat /\ (n * SectorBytes) % PagesPerBlock = 0
<1> USE SizesAssumption
<1> DEFINE k == SectorBytes \div PagesPerBlock
<1>1. k \in Nat /\ SectorBytes = PagesPerBlock * k /\ SectorBytes \in Nat
  OBVIOUS
<1> HIDE DEF k
<1>2. n * SectorBytes = (PagesPerBlock * (n * k)) + 0
  <2>1. n * (PagesPerBlock * k) = PagesPerBlock * (n * k)
    BY <1>1
  <2>2. n * k \in Nat /\ PagesPerBlock * (n * k) \in Nat
    BY <1>1
  <2> QED
    BY <1>1, <2>1, <2>2
<1>3. n * k \in Nat /\ n * SectorBytes \in Nat
  BY <1>1
<1> QED
  BY <1>2, <1>3, RestUnique

LEMMA ConvertInit == Init => TypeInv
<1> SUFFICES ASSUME Init PROVE TypeInv
  OBVIOUS
<1> USE SizesAssumption
<1>1. AllFF \in [Ring -> Sectors] /\ <<>> \in Seq([1 .. BlockSectors -> Sectors])
  BY DEF AllFF, Sectors
<1>2. 0 * SectorBytes = 0 /\ 0 % PagesPerBlock = 0
  BY WholeOffset
<1>3. 0 \in 0 .. 2 * BlockSectors * SectorBytes
  <2>1. BlockSectors \in Nat
    BY BlockType DEF B
  <2> QED
    BY <2>1
<1> QED
  BY <1>1, <1>2, <1>3 DEF Init, TypeInv, OffsetInv

\* One chunk: where it begins and ends, and what the ring holds afterwards.
LEMMA PtWriteEffect ==
    ASSUME TypeInv, PtWrite
    PROVE  \E step \in 1 .. B - 1 :
              LET last   == pos + step - 1
                  offset == RingOf(last) + 1
              IN  /\ last \in Nat /\ pos' = pos + step
                  /\ offset \in 1 .. 2 * B /\ RingOf(last) \in Ring
                  /\ count' = Counted(count, offset)
                  /\ byteoffset' = offset * SectorBytes
                  /\ ring' \in [Ring -> Sectors]
                  /\ \A s \in Ring :
                        \/ ring'[s] = ring[s] /\ \A n \in pos .. last : RingOf(n) # s
                        \/ ring'[s] \in pos .. last /\ RingOf(ring'[s]) = s
<1> USE SizesAssumption
<1>1. PICK meta \in 0 .. MetaMax :
          LET last   == pos + Wlen + meta - 1
              offset == RingOf(last) + 1
              fresh(s) == {n \in pos .. last : RingOf(n) = s}
          IN  /\ ring' = [s \in Ring |->
                             IF fresh(s) = {} THEN ring[s] ELSE CHOOSE n \in fresh(s) : TRUE]
              /\ count' = Counted(count, offset)
              /\ byteoffset' = offset * SectorBytes
              /\ pos' = last + 1
  BY DEF PtWrite
<1>2. B \in Nat \ {0} /\ Chunk + MetaMax < B /\ Ring = 0 .. 2 * B - 1
  BY BlockType
<1>3. Wlen \in 1 .. Chunk /\ pos \in Nat
  BY DEF PtWrite, TypeInv, Wlen
<1> DEFINE step == Wlen + meta
           last == pos + step - 1
           fresh(s) == {n \in pos .. last : RingOf(n) = s}
<1>4. step \in 1 .. B - 1 /\ last \in Nat /\ pos + Wlen + meta - 1 = last /\ last + 1 = pos + step
  BY <1>2, <1>3
<1> HIDE DEF step
<1>5. RingOf(last) \in Ring /\ RingOf(last) + 1 \in 1 .. 2 * B
  BY <1>2, <1>4 DEF RingOf, B
<1>6. /\ ring' = [s \in Ring |->
                    IF fresh(s) = {} THEN ring[s] ELSE CHOOSE n \in fresh(s) : TRUE]
      /\ count' = Counted(count, RingOf(last) + 1)
      /\ byteoffset' = (RingOf(last) + 1) * SectorBytes
      /\ pos' = pos + step
  <2> DEFINE l == pos + Wlen + meta - 1
             f(s) == {n \in pos .. l : RingOf(n) = s}
  <2>1. /\ ring' = [s \in Ring |-> IF f(s) = {} THEN ring[s] ELSE CHOOSE n \in f(s) : TRUE]
        /\ count' = Counted(count, RingOf(l) + 1)
        /\ byteoffset' = (RingOf(l) + 1) * SectorBytes
        /\ pos' = l + 1
    BY <1>1
  <2>2. l = last
    BY <1>4
  <2> HIDE DEF l
  <2> QED
    BY <1>4, <2>1, <2>2
<1>7. ASSUME NEW s \in Ring
      PROVE  /\ ring'[s] \in Sectors
             /\ \/ ring'[s] = ring[s] /\ \A n \in pos .. last : RingOf(n) # s
                \/ ring'[s] \in pos .. last /\ RingOf(ring'[s]) = s
  <2>1. CASE fresh(s) = {}
    <3>1. ring'[s] = ring[s]
      BY <1>6, <2>1
    <3>2. \A n \in pos .. last : RingOf(n) # s
      BY <2>1
    <3> QED
      BY <3>1, <3>2 DEF TypeInv
  <2>2. CASE fresh(s) # {}
    <3>1. ring'[s] = CHOOSE n \in fresh(s) : TRUE
      BY <1>6, <2>2
    <3>2. ring'[s] \in fresh(s)
      BY <2>2, <3>1
    <3>3. ring'[s] \in pos .. last /\ RingOf(ring'[s]) = s
      BY <3>2
    <3> QED
      BY <1>3, <1>4, <3>3 DEF Sectors
  <2> QED
    BY <2>1, <2>2
<1>8. ring' \in [Ring -> Sectors]
  <2>1. ring' = [s \in Ring |-> ring'[s]]
    BY <1>6
  <2> QED
    BY <1>7, <2>1
<1> QED
  BY <1>4, <1>5, <1>6, <1>7, <1>8

LEMMA HalfType ==
    ASSUME TypeInv, NEW h \in {0, 1}
    PROVE  /\ Half(h, BlockSectors) \in [1 .. BlockSectors -> Sectors]
           /\ \A s \in 1 .. BlockSectors :
                 h * BlockSectors + s - 1 \in Ring
                 /\ Half(h, BlockSectors)[s] = ring[h * BlockSectors + s - 1]
<1>1. B \in Nat \ {0} /\ Ring = 0 .. 2 * B - 1
  BY BlockType
<1>2. h * B \in {0, B}
  <2>1. 0 * B = 0 /\ 1 * B = B
    BY <1>1
  <2> QED
    BY <2>1
<1>3. \A s \in 1 .. B : h * B + s - 1 \in Ring
  BY <1>1, <1>2
<1> QED
  BY <1>3 DEF Half, TypeInv, B

LEMMA ConvertStep == TypeInv /\ [Next]_vars => TypeInv'
<1> SUFFICES ASSUME TypeInv, [Next]_vars PROVE TypeInv'
  OBVIOUS
<1> USE SizesAssumption
<1>1. CASE Start
  <2>1. AllFF \in [Ring -> Sectors] /\ <<>> \in Seq([1 .. BlockSectors -> Sectors])
    BY DEF AllFF, Sectors
  <2> QED
    BY <1>1, <2>1 DEF Start, TypeInv, OffsetInv
<1>2. CASE PtWrite
  <2>1. PICK step \in 1 .. B - 1 :
              LET last   == pos + step - 1
                  offset == RingOf(last) + 1
              IN  /\ last \in Nat /\ pos' = pos + step
                  /\ offset \in 1 .. 2 * B
                  /\ count' = Counted(count, offset)
                  /\ byteoffset' = offset * SectorBytes
                  /\ ring' \in [Ring -> Sectors]
    BY <1>2, PtWriteEffect
  <2> DEFINE offset == RingOf(pos + step - 1) + 1
  <2>2. /\ pos' = pos + step /\ offset \in 1 .. 2 * B /\ ring' \in [Ring -> Sectors]
        /\ count' = Counted(count, offset) /\ byteoffset' = offset * SectorBytes
    BY <2>1
  <2> HIDE DEF offset
  <2>3. /\ pc' = "check" /\ UNCHANGED <<flash, len, blocknum, out, carried>>
    BY <1>2 DEF PtWrite
  <2>4. count' \in Nat /\ pos' \in Nat
    <3>1. count' \in {count, count + 1}
      BY <2>2 DEF Counted
    <3> QED
      BY <2>2, <3>1, BlockType DEF TypeInv
  <2>5. byteoffset' \in 0 .. 2 * BlockSectors * SectorBytes
    <3>1. B \in Nat /\ offset \in Nat /\ offset <= 2 * B /\ SectorBytes \in Nat
      BY <2>2, BlockType
    <3>2. offset * SectorBytes <= (2 * B) * SectorBytes /\ offset * SectorBytes \in Nat
      BY <3>1
    <3> QED
      BY <2>2, <3>2 DEF B
  <2>6. OffsetInv'
    <3>1. offset \in Nat
      BY <2>2
    <3> QED
      BY <2>2, <3>1, WholeOffset DEF OffsetInv
  <2> QED
    BY <2>2, <2>3, <2>4, <2>5, <2>6 DEF TypeInv
<1>3. CASE CheckBlock
  <2>1. /\ pc' = "write" /\ len' = len - Wlen
        /\ UNCHANGED <<flash, pos, count, byteoffset, carried>>
    BY <1>3 DEF CheckBlock
  <2>2. len' \in Nat
    BY <2>1 DEF Wlen, TypeInv
  <2>3. CASE blocknum # count
    <3> DEFINE h == (count - 1) % 2
    <3>1. /\ out' = Append(out, Half(h, BlockSectors)) /\ blocknum' = count
          /\ ring' = [s \in Ring |-> IF s \div BlockSectors = h THEN FF ELSE ring[s]]
      BY <1>3, <2>3 DEF CheckBlock
    <3>2. h \in {0, 1}
      BY DEF TypeInv
    <3> HIDE DEF h
    <3>3. out' \in Seq([1 .. BlockSectors -> Sectors])
      BY <3>1, <3>2, HalfType DEF TypeInv
    <3>4. ring' \in [Ring -> Sectors]
      BY <3>1 DEF TypeInv, Sectors
    <3> QED
      BY <2>1, <2>2, <3>1, <3>3, <3>4 DEF TypeInv, OffsetInv
  <2>4. CASE blocknum = count
    <3>1. UNCHANGED <<out, ring, blocknum>>
      BY <1>3, <2>4 DEF CheckBlock
    <3> QED
      BY <2>1, <2>2, <3>1 DEF TypeInv, OffsetInv
  <2> QED
    BY <2>3, <2>4
<1>4. CASE LastBlock
  BY <1>4 DEF LastBlock, TypeInv, OffsetInv
<1>5. CASE Finished \/ UNCHANGED vars
  BY <1>5 DEF Finished, vars, TypeInv, OffsetInv
<1> QED
  BY <1>1, <1>2, <1>3, <1>4, <1>5 DEF Next

\* The two globals and the ring stay in their ranges through any number of images.
THEOREM ConvertTypes == Spec => []TypeOK
<1>1. TypeInv => TypeOK
  <2> SUFFICES ASSUME TypeInv PROVE TypeOK
    OBVIOUS
  <2>1. ASSUME NEW k \in 1 .. Len(out) PROVE DOMAIN out[k] \subseteq 1 .. BlockSectors
    <3>1. out[k] \in [1 .. BlockSectors -> Sectors]
      BY DEF TypeInv
    <3> QED
      BY <3>1
  <2> QED
    BY <2>1 DEF TypeInv, TypeOK, Sectors
<1> QED
  BY <1>1, ConvertInit, ConvertStep, PTL DEF Spec

-----------------------------------------------------------------------------
(* The first image that fills a block *)

\* The stream up to what has been written: it has passed count borders of blocks, and
\* stands on the next one only where that is the end of the ring, which the next chunk
\* passes.
Passed ==
    /\ B * count <= pos /\ pos <= (B * count) + B
    /\ count % 2 = 0 => pos < (B * count) + B

\* Every block completed has gone to flash_write, or is the one that goes next; what has
\* not gone is in the ring.
PipeInv ==
    carried = 0 =>
        /\ Passed
        /\ Len(out) = blocknum /\ \A k \in 1 .. Len(out) : out[k] = StreamBlock(k)
        /\ count = blocknum \/ (pc = "check" /\ count = blocknum + 1)
        /\ \A n \in Nat : B * blocknum <= n /\ n < pos => ring[RingOf(n)] = n

LEMMA PipeInit == Init => PipeInv
<1> SUFFICES ASSUME Init PROVE PipeInv
  OBVIOUS
<1>1. B \in Nat \ {0} /\ B * 0 = 0
  BY BlockType
<1>2. count = 0 /\ pos = 0 /\ blocknum = 0 /\ out = <<>>
  BY DEF Init
<1>3. Passed
  BY <1>1, <1>2 DEF Passed
<1> QED
  BY <1>1, <1>2, <1>3 DEF PipeInv

\* A chunk is shorter than a block, so it passes one border at most, and count sees it.
LEMMA PassedStep ==
    ASSUME NEW c \in Nat, NEW p \in Nat, NEW step \in 1 .. B - 1, NEW d \in Nat,
           B * c <= p, p <= (B * c) + B, c % 2 = 0 => p < (B * c) + B,
           d = Counted(c, RingOf(p + step - 1) + 1)
    PROVE  /\ d \in {c, c + 1}
           /\ B * d <= p + step /\ p + step <= (B * d) + B
           /\ d % 2 = 0 => p + step < (B * d) + B
<1> DEFINE last == p + step - 1
           bc == B * c
<1>1. B \in Nat \ {0} /\ bc \in Nat /\ B * (c + 1) = bc + B /\ last \in Nat
  BY BlockType
<1>2. bc <= last /\ last < bc + (2 * B) /\ p + step = last + 1
  BY <1>1
<1>3. RingOf(last) = IF last < bc + B THEN (B * (c % 2)) + (last - bc)
                     ELSE (B * ((c + 1) % 2)) + (last - bc - B)
  BY <1>1, <1>2, RingNear
<1>4. bc <= p /\ p <= bc + B /\ (c % 2 = 0 => p < bc + B)
  OBVIOUS
<1>5. B * 0 = 0 /\ B * 1 = B
  BY <1>1
<1> HIDE DEF last, bc
<1>6. CASE c % 2 = 0
  <2>1. (c + 1) % 2 = 1
    BY <1>6
  <2>2. RingOf(last) = last - bc
    <3>1. RingOf(last) = IF last < bc + B THEN 0 + (last - bc) ELSE B + (last - bc - B)
      BY <1>3, <1>5, <1>6, <2>1
    <3> QED
      BY <1>1, <3>1
  <2>3. d = IF RingOf(last) + 1 >= B THEN c + 1 ELSE c
    BY <1>6 DEF Counted, B, last
  <2>4. CASE last + 1 >= bc + B
    <3>1. d = c + 1
      BY <1>1, <2>2, <2>3, <2>4
    <3>2. last + 1 < (bc + B) + B
      BY <1>1, <1>2, <1>4, <1>6
    <3> QED
      BY <1>1, <1>2, <2>1, <2>4, <3>1, <3>2
  <2>5. CASE last + 1 < bc + B
    <3>1. d = c
      BY <1>1, <2>2, <2>3, <2>5
    <3> QED
      BY <1>1, <1>2, <2>5, <3>1 DEF bc
  <2> QED
    BY <1>1, <2>4, <2>5
<1>7. CASE c % 2 = 1
  <2>1. (c + 1) % 2 = 0 /\ c # 0
    BY <1>7
  <2>2. RingOf(last) = IF last < bc + B THEN B + (last - bc) ELSE last - bc - B
    <3>1. RingOf(last) = IF last < bc + B THEN B + (last - bc) ELSE 0 + (last - bc - B)
      BY <1>3, <1>5, <1>7, <2>1
    <3> QED
      BY <1>1, <3>1
  <2>3. d = IF RingOf(last) + 1 < B THEN c + 1 ELSE c
    BY <1>7, <2>1 DEF Counted, B, last
  <2>4. CASE last < bc + B
    <3>1. RingOf(last) + 1 >= B
      BY <1>1, <1>2, <2>2, <2>4
    <3>2. d = c
      BY <1>1, <2>2, <2>3, <2>4, <3>1
    <3> QED
      BY <1>1, <1>2, <1>7, <2>4, <3>2 DEF bc
  <2>5. CASE last >= bc + B
    <3>1. last + 1 < (bc + B) + B
      BY <1>1, <1>2, <1>4
    <3>2. d = c + 1
      BY <1>1, <2>2, <2>3, <2>5, <3>1
    <3> QED
      BY <1>1, <1>2, <2>1, <2>5, <3>1, <3>2
  <2> QED
    BY <1>1, <2>4, <2>5
<1> QED
  BY <1>6, <1>7

LEMMA PipePtWrite == TypeInv /\ PipeInv /\ PtWrite => PipeInv'
<1> SUFFICES ASSUME TypeInv, PipeInv, PtWrite, carried = 0 PROVE PipeInv'
  BY DEF PtWrite, PipeInv
<1>1. PICK step \in 1 .. B - 1 :
            LET last   == pos + step - 1
                offset == RingOf(last) + 1
            IN  /\ last \in Nat /\ pos' = pos + step
                /\ count' = Counted(count, offset)
                /\ \A s \in Ring :
                      \/ ring'[s] = ring[s] /\ \A n \in pos .. last : RingOf(n) # s
                      \/ ring'[s] \in pos .. last /\ RingOf(ring'[s]) = s
  BY PtWriteEffect
<1>2. /\ pc = "write" /\ pc' = "check" /\ UNCHANGED <<out, blocknum, carried>>
      /\ count \in Nat /\ blocknum \in Nat /\ pos \in Nat
  BY DEF PtWrite, TypeInv
<1>3. /\ Passed /\ count = blocknum
      /\ Len(out) = blocknum /\ \A k \in 1 .. Len(out) : out[k] = StreamBlock(k)
      /\ \A n \in Nat : B * blocknum <= n /\ n < pos => ring[RingOf(n)] = n
  BY <1>2 DEF PipeInv
<1>4. B \in Nat \ {0} /\ B * count \in Nat
  BY <1>2, BlockType
<1>5. /\ B * count <= pos /\ pos <= (B * count) + B /\ pos' = pos + step /\ count' \in Nat
      /\ count' \in {count, count + 1} /\ Passed'
  <2>1. /\ B * count <= pos /\ pos <= (B * count) + B
        /\ count % 2 = 0 => pos < (B * count) + B
    BY <1>3 DEF Passed
  <2>2. count' = Counted(count, RingOf(pos + step - 1) + 1) /\ pos' = pos + step
    BY <1>1
  <2>3. count' \in Nat
    BY <1>2, <2>2 DEF Counted
  <2>4. /\ count' \in {count, count + 1}
        /\ B * count' <= pos + step /\ pos + step <= (B * count') + B
        /\ count' % 2 = 0 => pos + step < (B * count') + B
    BY <1>2, <2>1, <2>2, <2>3, PassedStep
  <2> QED
    BY <2>1, <2>2, <2>3, <2>4 DEF Passed
<1>6. ASSUME NEW n \in Nat, B * blocknum <= n, n < pos'
      PROVE  ring'[RingOf(n)] = n
  <2> DEFINE s == RingOf(n)
             last == pos + step - 1
  <2>1. B * count <= n /\ n < (B * count) + (2 * B) /\ n <= last /\ last < (B * count) + (2 * B)
        /\ last \in Nat
    BY <1>2, <1>3, <1>4, <1>5, <1>6
  <2>2. s \in Ring
    BY <1>4, BlockType DEF RingOf, B
  <2>3. \/ ring'[s] = ring[s] /\ \A m \in pos .. last : RingOf(m) # s
        \/ ring'[s] \in pos .. last /\ RingOf(ring'[s]) = s
    BY <1>1, <2>2
  <2> HIDE DEF last
  <2>4. CASE ring'[s] = ring[s] /\ \A m \in pos .. last : RingOf(m) # s
    <3>1. n < pos
      BY <1>2, <2>1, <2>4
    <3> QED
      BY <1>3, <1>6, <2>4, <3>1
  <2>5. CASE ring'[s] \in pos .. last /\ RingOf(ring'[s]) = s
    <3> DEFINE m == ring'[s]
    <3>1. m \in Nat /\ B * count <= m /\ m < (B * count) + (2 * B) /\ RingOf(m) = RingOf(n)
      BY <1>2, <1>4, <1>5, <2>1, <2>5
    <3> HIDE DEF m, s
    <3>2. m = n
      BY <1>2, <2>1, <3>1, RingApart
    <3> QED
      BY <3>2 DEF m, s
  <2> QED
    BY <2>3, <2>4, <2>5
<1>7. \A n \in Nat : B * blocknum' <= n /\ n < pos' => ring'[RingOf(n)] = n
  BY <1>2, <1>6
<1> QED
  BY <1>2, <1>3, <1>5, <1>7 DEF PipeInv

LEMMA PipeCheckBlock == TypeInv /\ PipeInv /\ CheckBlock => PipeInv'
<1> SUFFICES ASSUME TypeInv, PipeInv, CheckBlock, carried = 0 PROVE PipeInv'
  BY DEF CheckBlock, PipeInv
<1>1. /\ pc' = "write" /\ UNCHANGED <<pos, count, carried>>
      /\ count \in Nat /\ blocknum \in Nat /\ pos \in Nat /\ out \in Seq([1 .. BlockSectors -> Sectors])
  BY DEF CheckBlock, TypeInv
<1>2. /\ Passed /\ count \in {blocknum, blocknum + 1}
      /\ Len(out) = blocknum /\ \A k \in 1 .. Len(out) : out[k] = StreamBlock(k)
      /\ \A n \in Nat : B * blocknum <= n /\ n < pos => ring[RingOf(n)] = n
  BY <1>1 DEF PipeInv
<1>3. Passed'
  BY <1>1, <1>2 DEF Passed
<1>4. CASE blocknum = count
  <2>1. UNCHANGED <<out, ring, blocknum>>
    BY <1>4 DEF CheckBlock
  <2> QED
    BY <1>1, <1>2, <1>3, <1>4, <2>1 DEF PipeInv
<1>5. CASE count = blocknum + 1
  <2> DEFINE h == blocknum % 2
             half == Half(h, BlockSectors)
  <2>1. h \in {0, 1} /\ (count - 1) % 2 = h /\ (blocknum + 1) % 2 = 1 - h
    BY <1>1, <1>5
  <2>2. /\ out' = Append(out, half) /\ blocknum' = count
        /\ ring' = [s \in Ring |-> IF s \div BlockSectors = h THEN FF ELSE ring[s]]
    BY <1>1, <1>5, <2>1 DEF CheckBlock
  <2>3. B \in Nat \ {0} /\ Ring = 0 .. 2 * B - 1 /\ B * count = (B * blocknum) + B
        /\ B * blocknum \in Nat
    BY <1>1, <1>5, BlockType
  <2>4. B * count <= pos /\ pos <= (B * count) + B /\ (count % 2 = 0 => pos < (B * count) + B)
    BY <1>2 DEF Passed
  <2>5. half = StreamBlock(blocknum + 1)
    <3>1. /\ half \in [1 .. BlockSectors -> Sectors]
          /\ \A s \in 1 .. BlockSectors : half[s] = ring[h * BlockSectors + s - 1]
      BY <2>1, HalfType
    <3>2. ASSUME NEW s \in 1 .. B PROVE half[s] = (B * blocknum) + (s - 1)
      <4>1. s - 1 \in 0 .. B - 1 /\ (B * blocknum) + (s - 1) \in Nat
        BY <2>3
      <4>2. RingOf((B * blocknum) + (s - 1)) = (B * h) + (s - 1)
        BY <1>1, <4>1, RingPlace
      <4>3. ring[RingOf((B * blocknum) + (s - 1))] = (B * blocknum) + (s - 1)
        <5>1. (B * blocknum) + (s - 1) < pos /\ B * blocknum <= (B * blocknum) + (s - 1)
          BY <1>1, <2>3, <2>4, <4>1
        <5> QED
          BY <1>2, <4>1, <5>1
      <4>4. h * B + s - 1 = (B * h) + (s - 1)
        BY <2>1, <2>3
      <4> QED
        BY <3>1, <4>2, <4>3, <4>4 DEF B
    <3>3. StreamBlock(blocknum + 1) = [s \in 1 .. B |-> (B * blocknum) + (s - 1)]
      <4>1. \A s \in 1 .. B : ((blocknum + 1) - 1) * B + s - 1 = (B * blocknum) + (s - 1)
        BY <1>1, <2>3
      <4> QED
        BY <4>1 DEF StreamBlock, B
    <3> HIDE DEF half
    <3> QED
      BY <3>1, <3>2, <3>3 DEF B
  <2> HIDE DEF half
  <2>6. /\ Len(out') = blocknum'
        /\ \A k \in 1 .. Len(out') : out'[k] = StreamBlock(k)
    <3>1. half \in [1 .. BlockSectors -> Sectors]
      BY <2>1, HalfType DEF half
    <3>2. /\ Len(out') = Len(out) + 1 /\ out'[Len(out) + 1] = half
          /\ \A k \in 1 .. Len(out) : out'[k] = out[k]
      BY <1>1, <2>2, <3>1
    <3> QED
      BY <1>1, <1>2, <1>5, <2>2, <2>5, <3>2
  <2>7. ASSUME NEW n \in Nat, B * count <= n, n < pos PROVE ring'[RingOf(n)] = n
    <3> DEFINE t == n - (B * count)
    <3>1. t \in 0 .. B - 1 /\ n = (B * count) + t
      BY <1>1, <2>3, <2>4, <2>7
    <3> HIDE DEF t
    <3>2. RingOf(n) \in Ring /\ RingOf(n) \div B = count % 2
      BY <1>1, <3>1, RingPlace
    <3>3. count % 2 # h
      BY <1>5, <2>1
    <3>4. ring'[RingOf(n)] = ring[RingOf(n)]
      BY <2>2, <3>2, <3>3 DEF B
    <3>5. B * blocknum <= n
      BY <2>3, <2>7
    <3> QED
      BY <1>2, <2>7, <3>4, <3>5
  <2>8. \A n \in Nat : B * blocknum' <= n /\ n < pos' => ring'[RingOf(n)] = n
    BY <1>1, <2>2, <2>7
  <2>9. count' = blocknum'
    BY <1>1, <2>2
  <2> QED
    BY <1>3, <2>6, <2>8, <2>9 DEF PipeInv
<1> QED
  BY <1>2, <1>4, <1>5

LEMMA PipeStep == TypeInv /\ PipeInv /\ [Next]_vars => PipeInv'
<1> SUFFICES ASSUME TypeInv, PipeInv, [Next]_vars PROVE PipeInv'
  OBVIOUS
<1>1. CASE Start
  <2>1. carried' = count /\ count' = count /\ pos' = 0 /\ blocknum' = 0 /\ out' = <<>>
    BY <1>1 DEF Start
  <2>2. B \in Nat \ {0} /\ B * 0 = 0
    BY BlockType
  <2>3. CASE count = 0
    <3>1. Passed'
      BY <2>1, <2>2, <2>3 DEF Passed
    <3>2. \A n \in Nat : B * blocknum' <= n /\ n < pos' => ring'[RingOf(n)] = n
      BY <2>1, <2>2
    <3> QED
      BY <2>1, <2>3, <3>1, <3>2 DEF PipeInv
  <2>4. CASE count # 0
    BY <2>1, <2>4 DEF PipeInv
  <2> QED
    BY <2>3, <2>4
<1>2. CASE PtWrite
  BY <1>2, PipePtWrite
<1>3. CASE CheckBlock
  BY <1>3, PipeCheckBlock
<1>4. CASE LastBlock
  <2>1. UNCHANGED out
    BY <1>4 DEF LastBlock, TypeInv, OffsetInv
  <2>2. pc = "write" /\ UNCHANGED <<pos, ring, count, blocknum, carried>>
    BY <1>4 DEF LastBlock
  <2>3. Passed => Passed'
    BY <2>2 DEF Passed
  <2> QED
    BY <2>1, <2>2, <2>3 DEF PipeInv
<1>5. CASE Finished \/ UNCHANGED vars
  <2>1. UNCHANGED <<pc, pos, ring, count, blocknum, out, carried>>
    BY <1>5 DEF Finished, vars
  <2>2. Passed => Passed'
    BY <2>1 DEF Passed
  <2> QED
    BY <2>1, <2>2 DEF PipeInv
<1> QED
  BY <1>1, <1>2, <1>3, <1>4, <1>5 DEF Next

LEMMA PipeCorrect == Spec => [](TypeInv /\ PipeInv)
BY ConvertInit, ConvertStep, PipeInit, PipeStep, PTL DEF Spec

\* Up to the first image of a session that fills a block, every block start() passes to
\* flash_write is complete and the next one of the stream, however the chunks and the
\* manager's own sectors fall on the borders of the ring.
THEOREM ConvertOrder == Spec => []FirstImageInOrder
<1>1. PipeInv => FirstImageInOrder
  BY DEF PipeInv, FirstImageInOrder, OutInOrder
<1> QED
  BY <1>1, PipeCorrect, PTL

\* And of such an image no more than the last block of the stream is lost.
THEOREM ConvertLoss == Spec => []OnlyLastBlockLost
<1>1. ASSUME TypeInv, PipeInv PROVE OnlyLastBlockLost
  <2> SUFFICES ASSUME pc = "done", carried = 0
               PROVE  pos - Len(out) * BlockSectors <= BlockSectors
    BY DEF OnlyLastBlockLost
  <2>1. pos <= (B * count) + B /\ Len(out) = count
    BY <1>1 DEF PipeInv, Passed
  <2>2. B \in Nat /\ count \in Nat /\ pos \in Nat /\ count * B = B * count
    BY <1>1, BlockType DEF TypeInv
  <2>3. pos - count * B <= B
    BY <2>1, <2>2
  <2> QED
    BY <2>1, <2>3 DEF B
<1> QED
  BY <1>1, PipeCorrect, PTL

=============================================================================
