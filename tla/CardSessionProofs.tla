------------------------- MODULE CardSessionProofs -------------------------
(***************************************************************************)
(* What was answered OKAY stays on the card, and a start that reads without   *)
(* an error starts it, for every table of partitions, every set of images,    *)
(* every size of a chunk, and any number of failures and power cuts.          *)
(***************************************************************************)
EXTENDS CardSession, TLAPS

(* Sectors and chunks *)

\* A number is so many times d and a rest smaller than d in one way only.
LEMMA DivUnique ==
    ASSUME NEW d \in Nat \ {0}, NEW a \in Nat, NEW q \in Nat, NEW r \in 0 .. d - 1,
           a = (d * q) + r
    PROVE  a \div d = q
<1> DEFINE p == a \div d
<1>1. p \in Int /\ a = (d * p) + (a % d) /\ a % d \in 0 .. d - 1
  OBVIOUS
<1> HIDE DEF p
<1>2. ~(p >= q + 1)
  <2> SUFFICES ASSUME p >= q + 1 PROVE FALSE
    OBVIOUS
  <2>1. d * p >= d * (q + 1)
    BY <1>1
  <2>2. d * (q + 1) = (d * q) + d
    OBVIOUS
  <2> QED
    BY <1>1, <2>1, <2>2
<1>3. ~(q >= p + 1)
  <2> SUFFICES ASSUME q >= p + 1 PROVE FALSE
    OBVIOUS
  <2>1. d * q >= d * (p + 1)
    BY <1>1
  <2>2. d * (p + 1) = (d * p) + d
    BY <1>1
  <2> QED
    BY <1>1, <2>1, <2>2
<1> QED
  BY <1>1, <1>2, <1>3 DEF p

LEMMA DivNat ==
    ASSUME NEW d \in Nat \ {0}, NEW a \in Nat
    PROVE  a \div d \in Nat /\ a % d \in 0 .. d - 1 /\ a = (d * (a \div d)) + (a % d)
<1> DEFINE p == a \div d
<1>1. p \in Int /\ a = (d * p) + (a % d) /\ a % d \in 0 .. d - 1
  OBVIOUS
<1> HIDE DEF p
<1>2. ~(p <= 0 - 1)
  <2> SUFFICES ASSUME p <= 0 - 1 PROVE FALSE
    OBVIOUS
  <2>1. d * p <= d * (0 - 1)
    BY <1>1
  <2> QED
    BY <1>1, <2>1
<1> QED
  BY <1>1, <1>2 DEF p

\* The chunks of an image and its rest are its whole sectors.
LEMMA ChunksOf ==
    ASSUME NEW i \in Images
    PROVE  LET n == Bytes[i] \div ChunkBytes
               l == Bytes[i] % ChunkBytes
           IN  /\ ChunkBytes \in Nat \ {0} /\ n \in Nat /\ l \in 0 .. ChunkBytes - 1
               /\ ChunkBytes \div SectorBytes = ChunkSectors
               /\ l \div SectorBytes \in 0 .. ChunkSectors - 1
               /\ WholeSectors(i) = (ChunkSectors * n) + (l \div SectorBytes)
               /\ l = 0 => l \div SectorBytes = 0
<1> USE CardAssumption
<1> DEFINE n == Bytes[i] \div ChunkBytes
           l == Bytes[i] % ChunkBytes
           q == l \div SectorBytes
           r == l % SectorBytes
<1>1. Bytes[i] \in Nat \ {0}
  OBVIOUS
<1>2. ChunkBytes \in Nat \ {0} /\ ChunkBytes = ChunkSectors * SectorBytes
  BY DEF ChunkBytes
<1>3. n \in Nat /\ l \in 0 .. ChunkBytes - 1 /\ Bytes[i] = (ChunkBytes * n) + l
  BY <1>1, <1>2, DivNat
<1> HIDE DEF n, l
<1>4. q \in Nat /\ r \in 0 .. SectorBytes - 1 /\ l = (SectorBytes * q) + r
  <2>1. l \in Nat
    BY <1>2, <1>3
  <2> QED
    BY <2>1, DivNat
<1> HIDE DEF q, r
<1>5. q <= ChunkSectors - 1
  <2> SUFFICES ASSUME q >= ChunkSectors PROVE FALSE
    BY <1>4
  <2>1. SectorBytes * q >= SectorBytes * ChunkSectors
    BY <1>4
  <2>2. SectorBytes * ChunkSectors = ChunkBytes
    BY <1>2
  <2> QED
    BY <1>2, <1>3, <1>4, <2>1, <2>2
<1>6. ChunkBytes \div SectorBytes = ChunkSectors
  <2>1. ChunkBytes = (SectorBytes * ChunkSectors) + 0
    BY <1>2
  <2> QED
    BY <1>2, <2>1, DivUnique
<1>7. WholeSectors(i) = (ChunkSectors * n) + q
  <2>1. (ChunkSectors * n) + q \in Nat
    BY <1>3, <1>4
  <2>2. SectorBytes * ((ChunkSectors * n) + q) = ((ChunkSectors * SectorBytes) * n) + (SectorBytes * q)
    BY <1>3, <1>4
  <2>3. Bytes[i] = (SectorBytes * ((ChunkSectors * n) + q)) + r
    BY <1>2, <1>3, <1>4, <2>2
  <2>4. Bytes[i] \div SectorBytes = (ChunkSectors * n) + q
    BY <1>1, <1>4, <2>1, <2>3, DivUnique
  <2> QED
    BY <2>4 DEF WholeSectors
<1>8. l = 0 => q = 0
  BY <1>4
<1> QED
  BY <1>2, <1>3, <1>4, <1>5, <1>6, <1>7, <1>8 DEF n, l, q

\* The header promises all whole sectors, and one more for a rest.
LEMMA SectorsBound ==
    ASSUME NEW i \in Images
    PROVE  /\ WholeSectors(i) \in Nat /\ SectorsOf(i) \in Nat \ {0}
           /\ WholeSectors(i) <= SectorsOf(i)
           /\ SectorsOf(i) <= MaxRam /\ MaxRam \in Nat
<1> USE CardAssumption
<1> DEFINE w == WholeSectors(i)
           q == SectorsOf(i)
           r == Bytes[i] % SectorBytes
           t == (Bytes[i] + SectorBytes - 1) % SectorBytes
<1>1. Bytes[i] \in Nat \ {0} /\ Bytes[i] + SectorBytes - 1 \in Nat
  OBVIOUS
<1>2. w \in Nat /\ r \in 0 .. SectorBytes - 1 /\ Bytes[i] = (SectorBytes * w) + r
  BY <1>1, DivNat DEF WholeSectors
<1>3. /\ q \in Nat /\ t \in 0 .. SectorBytes - 1
      /\ Bytes[i] + SectorBytes - 1 = (SectorBytes * q) + t
  BY <1>1, DivNat DEF SectorsOf
<1> HIDE DEF w, q, r, t
<1>4. w <= q
  <2> SUFFICES ASSUME w >= q + 1 PROVE FALSE
    BY <1>2, <1>3
  <2>1. SectorBytes * w >= SectorBytes * (q + 1)
    BY <1>2, <1>3
  <2>2. SectorBytes * (q + 1) = (SectorBytes * q) + SectorBytes
    BY <1>3
  <2> QED
    BY <1>1, <1>2, <1>3, <2>1, <2>2
<1>5. q # 0
  BY <1>1, <1>3
<1>6. q <= MaxRam /\ MaxRam \in Nat
  <2> DEFINE V == {SectorsOf(j) : j \in Images}
  <2>1. \E m \in V : \A j \in Images : SectorsOf(j) <= m
    OBVIOUS
  <2>2. MaxRam \in V /\ \A j \in Images : SectorsOf(j) <= MaxRam
    BY <2>1 DEF MaxRam
  <2>3. \A j \in Images : SectorsOf(j) \in Nat
    BY DivNat DEF SectorsOf
  <2> QED
    BY <2>2, <2>3 DEF q
<1> QED
  BY <1>2, <1>3, <1>4, <1>5, <1>6 DEF w, q

\* A chunk ends inside the image, and the next one begins where it ends.
LEMMA ChunkPlace ==
    ASSUME NEW i \in Images, NEW c \in Nat, NEW n, NEW l, NEW nob,
           n = Bytes[i] \div ChunkBytes, l = Bytes[i] % ChunkBytes, c <= n,
           nob = (IF c < n THEN ChunkBytes ELSE l) \div SectorBytes
    PROVE  /\ nob \in Nat /\ (ChunkSectors * c) + nob <= WholeSectors(i)
           /\ \A s \in 0 .. WholeSectors(i) - 1 :
                 s < ChunkSectors * (c + 1) => s < (ChunkSectors * c) + nob
<1> USE CardAssumption
<1>1. /\ n \in Nat /\ ChunkBytes \div SectorBytes = ChunkSectors
      /\ l \div SectorBytes \in 0 .. ChunkSectors - 1
      /\ WholeSectors(i) = (ChunkSectors * n) + (l \div SectorBytes)
  BY ChunksOf
<1>2. ChunkSectors * (c + 1) = (ChunkSectors * c) + ChunkSectors
  OBVIOUS
<1>3. CASE c < n
  <2>1. nob = ChunkSectors
    BY <1>1, <1>3
  <2>2. ChunkSectors * (c + 1) <= ChunkSectors * n
    BY <1>1, <1>3
  <2> QED
    BY <1>1, <1>2, <2>1, <2>2
<1>4. CASE c = n
  <2>1. nob = l \div SectorBytes
    BY <1>1, <1>4
  <2> QED
    BY <1>1, <1>4, <2>1
<1> QED
  BY <1>1, <1>3, <1>4

\* When there are no more chunks all whole sectors have been written.
LEMMA NoMoreChunks ==
    ASSUME NEW i \in Images, NEW c \in Nat, NEW n, NEW l,
           n = Bytes[i] \div ChunkBytes, l = Bytes[i] % ChunkBytes,
           ~(c < n \/ (c = n /\ l > 0))
    PROVE  WholeSectors(i) <= ChunkSectors * c
<1> USE CardAssumption
<1>1. /\ ChunkBytes \in Nat /\ n \in Nat /\ l \in 0 .. ChunkBytes - 1
      /\ l \div SectorBytes \in 0 .. ChunkSectors - 1
      /\ WholeSectors(i) = (ChunkSectors * n) + (l \div SectorBytes)
      /\ l = 0 => l \div SectorBytes = 0
  BY ChunksOf
<1>2. CASE c = n
  BY <1>1, <1>2
<1>3. CASE c >= n + 1
  <2>1. ChunkSectors * c >= ChunkSectors * (n + 1)
    BY <1>1, <1>3
  <2>2. ChunkSectors * (n + 1) = (ChunkSectors * n) + ChunkSectors
    BY <1>1
  <2>3. ChunkSectors * c \in Int /\ ChunkSectors * n \in Int
    BY <1>1
  <2> QED
    BY <1>1, <2>1, <2>2, <2>3
<1>4. c = n \/ c >= n + 1
  <2>1. ~(c < n)
    OBVIOUS
  <2> QED
    BY <1>1, <2>1
<1> QED
  BY <1>2, <1>3, <1>4

-----------------------------------------------------------------------------
(* What holds of the variables *)

PlaceInv ==
    /\ pc \in {"off", "key", "header", "body", "start", "started", "fastboot", "flash", "hung"}
    /\ ptn \in Ptns /\ chunk \in Nat
    /\ pc = "flash" => img \in Images /\ chunk <= num + 1
    /\ DOMAIN ram = 0 .. MaxRam - 1

LEMMA PlaceInit == Init => PlaceInv
BY CardAssumption DEF Init, PlaceInv, Junk

\* A read hangs, or msc_boot goes on.
LEMMA DoMscPlace ==
    ASSUME NEW a, NEW n, NEW next, DoMsc(a, n, next)
    PROVE  pc' \in {next, "hung"} /\ DOMAIN ram' = DOMAIN ram
<1>1. PICK r \in mmc_block_readm(card, Start[ptn] + a, n) :
        /\ ram' = [i \in DOMAIN ram |-> IF i \in a .. a + r.got - 1 THEN disk[Start[ptn] + i] ELSE ram[i]]
        /\ pc' = IF r.hang THEN "hung" ELSE next
  BY DEF DoMsc
<1> QED
  BY <1>1

LEMMA PlaceStep == PlaceInv /\ [Next]_vars => PlaceInv'
<1> SUFFICES ASSUME PlaceInv, [Next]_vars PROVE PlaceInv'
  OBVIOUS
<1> USE CardAssumption DEF PlaceInv
<1>1. CASE PowerOn
  BY <1>1 DEF PowerOn, Junk
<1>2. CASE EnterFastboot
  BY <1>2 DEF EnterFastboot
<1>3. ASSUME NEW p \in {"boot", "recovery"}, MscBoot(p) PROVE PlaceInv'
  BY <1>3 DEF MscBoot
<1>4. CASE ReadHeader
  <2>1. pc' \in {"body", "hung"} /\ DOMAIN ram' = DOMAIN ram
    BY <1>4, DoMscPlace DEF ReadHeader
  <2> QED
    BY <1>4, <2>1 DEF ReadHeader
<1>5. CASE ReadBody
  <2>1. pc' \in {"start", "hung"} /\ DOMAIN ram' = DOMAIN ram
    BY <1>5, DoMscPlace DEF ReadBody
  <2> QED
    BY <1>5, <2>1 DEF ReadBody
<1>6. CASE StartKernel
  BY <1>6 DEF StartKernel
<1>7. CASE WriteChunk
  <2>1. img \in Images /\ chunk <= num /\ num \in Nat
    <3>1. img \in Images /\ MoreChunks
      BY <1>7 DEF WriteChunk
    <3>2. num \in Nat
      BY <3>1, ChunksOf DEF num
    <3> QED
      BY <3>1, <3>2 DEF MoreChunks
  <2>2. UNCHANGED <<ram, ptn, img>> /\ chunk' = chunk + 1 /\ pc' \in {"flash", "hung"}
    BY <1>7 DEF WriteChunk
  <2>3. num' = num
    BY <2>2 DEF num
  <2> QED
    BY <2>1, <2>2, <2>3
<1>8. CASE FlashDone
  BY <1>8 DEF FlashDone
<1>9. ASSUME NEW p \in FlashNames, NEW i \in Images, BeginFlash(p, i) PROVE PlaceInv'
  <2>1. img' \in Images /\ chunk' = 0
    BY <1>9 DEF BeginFlash
  <2>2. num' \in Nat
    BY <2>1, ChunksOf DEF num
  <2>3. chunk' <= num' + 1
    <3>1. \A n \in Nat : 0 <= n + 1
      OBVIOUS
    <3>2. 0 <= num' + 1
      BY <2>2, <3>1
    <3> QED
      BY <2>1, <3>2
  <2>4. pc' = "flash" /\ ptn' \in Ptns /\ UNCHANGED ram
    BY <1>9 DEF BeginFlash
  <2> QED
    BY <2>1, <2>3, <2>4
<1>10. ASSUME NEW p \in EraseNames, Erase(p) PROVE PlaceInv'
  BY <1>10 DEF Erase
<1>11. CASE Reset
  BY <1>11 DEF Reset, Restart, Junk
<1>12. CASE Cut
  BY <1>12 DEF Cut, Restart, Junk
<1>13. CASE UNCHANGED vars
  BY <1>13 DEF vars, num
<1> QED
  BY <1>1, <1>2, <1>3, <1>4, <1>5, <1>6, <1>7, <1>8, <1>9, <1>10, <1>11, <1>12, <1>13
     DEF Next, XBoot, Client

-----------------------------------------------------------------------------
(* The card *)

Held(p, i) == \A s \in 0 .. WholeSectors(i) - 1 : disk[Start[p] + s] = Sector(i, s)

\* What a partition should hold fits into it and is on the card.
KeptInv ==
    /\ kept \in [Ptns -> Images \cup {"any"}]
    /\ \A p \in Ptns : kept[p] \in Images => SectorsOf(kept[p]) <= Len[p] /\ Held(p, kept[p])

\* During a flash no other partition that is relied on is in the way, and without a failure
\* the chunks so far are on the card.
FlashInv ==
    pc = "flash" =>
        /\ \A p \in Ptns : kept[p] \in Images => Extent(ptn, SectorsOf(img)) \cap Extent(p, Len[p]) = {}
        /\ sound => \A s \in 0 .. WholeSectors(img) - 1 :
                       s < ChunkSectors * chunk => disk[Start[ptn] + s] = Sector(img, s)

LEMMA NotKept == "any" \notin Images /\ NoImage \notin Images
BY CardAssumption DEF NoImage

\* The sectors of what is relied on are in its partition.
LEMMA HeldInside ==
    ASSUME NEW p \in Ptns, NEW i \in Images, SectorsOf(i) <= Len[p],
           NEW s \in 0 .. WholeSectors(i) - 1
    PROVE  Start[p] + s \in Extent(p, Len[p]) \cap Sectors
<1> USE CardAssumption
<1>1. WholeSectors(i) <= SectorsOf(i) /\ WholeSectors(i) \in Nat /\ SectorsOf(i) \in Nat
  BY SectorsBound
<1>2. Start[p] \in Nat /\ Len[p] \in Nat /\ Start[p] + Len[p] \in Sectors
  BY DEF Sectors
<1>3. s < Len[p]
  BY <1>1, <1>2
<1> QED
  BY <1>1, <1>2, <1>3 DEF Extent, Sectors

\* What happens outside the partitions relied on changes nothing in them.
LEMMA Untouched ==
    ASSUME KeptInv, NEW S,
           \A s \in Sectors : s \notin S => disk'[s] = disk[s],
           kept' \in [Ptns -> Images \cup {"any"}],
           \A p \in Ptns : kept'[p] \in Images =>
               kept'[p] = kept[p] /\ S \cap Extent(p, Len[p]) = {}
    PROVE  KeptInv'
<1> SUFFICES ASSUME NEW p \in Ptns, kept'[p] \in Images
             PROVE  /\ SectorsOf(kept'[p]) <= Len[p]
                    /\ \A s \in 0 .. WholeSectors(kept'[p]) - 1 : disk'[Start[p] + s] = Sector(kept'[p], s)
  BY DEF KeptInv, Held
<1>1. kept'[p] = kept[p] /\ kept[p] \in Images /\ S \cap Extent(p, Len[p]) = {}
  OBVIOUS
<1>2. SectorsOf(kept[p]) <= Len[p] /\ Held(p, kept[p])
  BY <1>1 DEF KeptInv
<1>3. \A s \in 0 .. WholeSectors(kept[p]) - 1 : disk'[Start[p] + s] = Sector(kept[p], s)
  <2> SUFFICES ASSUME NEW s \in 0 .. WholeSectors(kept[p]) - 1
               PROVE  disk'[Start[p] + s] = Sector(kept[p], s)
    OBVIOUS
  <2>1. Start[p] + s \in Extent(p, Len[p]) \cap Sectors
    BY <1>1, <1>2, HeldInside
  <2>2. disk'[Start[p] + s] = disk[Start[p] + s]
    BY <1>1, <2>1
  <2> QED
    BY <1>2, <2>2 DEF Held
<1> QED
  BY <1>1, <1>2, <1>3

LEMMA HitSpares ==
    ASSUME KeptInv, NEW S, kept' = Hit(S, kept)
    PROVE  /\ kept' \in [Ptns -> Images \cup {"any"}]
           /\ \A p \in Ptns : kept'[p] \in Images =>
                  kept'[p] = kept[p] /\ S \cap Extent(p, Len[p]) = {}
BY NotKept DEF Hit, KeptInv

\* One chunk: what reaches the card lies inside the image; without a failure all of it.
LEMMA WriteChunkEffect ==
    ASSUME PlaceInv, WriteChunk
    PROVE  \E put \in Nat :
              /\ (ChunkSectors * chunk) + put <= WholeSectors(img)
              /\ disk' = [s \in Sectors |->
                             IF s \in ChunkStart .. ChunkStart + put - 1
                             THEN Sector(img, ChunkSectors * chunk + s - ChunkStart) ELSE disk[s]]
              /\ sound' => /\ sound
                           /\ \A s \in 0 .. WholeSectors(img) - 1 :
                                 s < ChunkSectors * (chunk + 1) => s < (ChunkSectors * chunk) + put
<1> USE CardAssumption
<1> DEFINE size == IF chunk < num THEN ChunkBytes ELSE last
           nob  == size \div SectorBytes
<1>1. img \in Images /\ chunk \in Nat /\ pc = "flash" /\ MoreChunks
  BY DEF PlaceInv, WriteChunk
<1>2. num \in Nat /\ chunk <= num
  <2>1. num \in Nat
    BY <1>1, ChunksOf DEF num
  <2> QED
    BY <1>1, <2>1 DEF MoreChunks
<1>3. /\ nob \in Nat /\ (ChunkSectors * chunk) + nob <= WholeSectors(img)
      /\ \A s \in 0 .. WholeSectors(img) - 1 :
            s < ChunkSectors * (chunk + 1) => s < (ChunkSectors * chunk) + nob
  BY <1>1, <1>2, ChunkPlace DEF num, last
<1>4. PICK r \in mmc_block_writem(card, size) :
        /\ disk' = [s \in Sectors |-> IF TakesData(s, r.put)
                                      THEN Sector(img, ChunkSectors * chunk + s - ChunkStart) ELSE disk[s]]
        /\ Count(r.bad, card = "tran")
  BY DEF WriteChunk
<1>5. sound' => sound /\ ~r.bad
  BY <1>4 DEF Count
<1> HIDE DEF nob, size
<1>6. r.put \in Nat /\ r.put <= nob /\ (~r.bad => r.put = nob)
  <2>1. CASE card = "tran" /\ nob > 0
    <3>1. \/ r = [put |-> nob, card |-> "tran", bad |-> FALSE, hang |-> FALSE]
          \/ r \in [put : 0 .. nob - 1, card : {"rcv"}, bad : {TRUE}, hang : {FALSE}]
      BY <1>4, <2>1 DEF mmc_block_writem, nob
    <3>2. CASE r = [put |-> nob, card |-> "tran", bad |-> FALSE, hang |-> FALSE]
      BY <1>3, <3>2
    <3>3. CASE r \in [put : 0 .. nob - 1, card : {"rcv"}, bad : {TRUE}, hang : {FALSE}]
      <4>1. r.put \in 0 .. nob - 1
        BY <3>3
      <4>2. r.bad \in {TRUE}
        BY <3>3
      <4>3. r.bad
        BY <4>2
      <4> QED
        BY <1>3, <4>1, <4>3
    <3> QED
      BY <3>1, <3>2, <3>3
  <2>2. CASE ~(card = "tran" /\ nob > 0)
    <3>1. r \in [put : {0}, card : {card}, bad : {card # "tran"}, hang : BOOLEAN]
      BY <1>4, <2>2 DEF mmc_block_writem, nob
    <3>2. r.put = 0 /\ r.bad = (card # "tran")
      BY <3>1
    <3>3. ~r.bad => card = "tran"
      BY <3>2, Zenon
    <3>4. ~r.bad => nob = 0
      BY <1>3, <2>2, <3>3
    <3> QED
      BY <1>3, <3>2, <3>4
  <2> QED
    BY <2>1, <2>2
<1>7. ChunkSectors * chunk \in Nat /\ WholeSectors(img) \in Nat
  BY <1>1, SectorsBound
<1>8. (ChunkSectors * chunk) + r.put <= WholeSectors(img)
  BY <1>3, <1>6, <1>7
<1>9. sound' => /\ sound
                /\ \A s \in 0 .. WholeSectors(img) - 1 :
                      s < ChunkSectors * (chunk + 1) => s < (ChunkSectors * chunk) + r.put
  BY <1>3, <1>5, <1>6
<1>10. disk' = [s \in Sectors |->
                  IF s \in ChunkStart .. ChunkStart + r.put - 1
                  THEN Sector(img, ChunkSectors * chunk + s - ChunkStart) ELSE disk[s]]
  BY <1>4 DEF TakesData
<1> QED
  BY <1>6, <1>8, <1>9, <1>10

\* The sectors of a chunk, counted from the partition.
LEMMA ChunkInside ==
    ASSUME PlaceInv, pc = "flash", NEW put \in Nat,
           (ChunkSectors * chunk) + put <= WholeSectors(img),
           NEW s \in ChunkStart .. ChunkStart + put - 1
    PROVE  /\ s \in Extent(ptn, WholeSectors(img)) /\ s \in Extent(ptn, SectorsOf(img))
           /\ ChunkSectors * chunk + s - ChunkStart = s - Start[ptn]
<1> USE CardAssumption
<1>1. img \in Images /\ chunk \in Nat /\ ptn \in Ptns
  BY DEF PlaceInv
<1>2. Start[ptn] \in Nat /\ ChunkSectors * chunk \in Nat
  BY <1>1 DEF Sectors
<1>3. ChunkStart = Start[ptn] + (ChunkSectors * chunk)
  BY DEF ChunkStart
<1>4. /\ WholeSectors(img) \in Nat /\ SectorsOf(img) \in Nat
      /\ WholeSectors(img) <= SectorsOf(img)
  BY <1>1, SectorsBound
<1> HIDE DEF ChunkStart
<1> QED
  BY <1>2, <1>3, <1>4 DEF Extent

LEMMA KeptInit == Init => KeptInv /\ FlashInv
BY NotKept DEF Init, KeptInv, FlashInv

LEMMA BeginFlashStep ==
    ASSUME PlaceInv, KeptInv, NEW p \in FlashNames, NEW i \in Images, BeginFlash(p, i)
    PROVE  KeptInv' /\ FlashInv'
<1> USE CardAssumption
<1>1. UNCHANGED disk /\ kept' = Hit(Extent(p, SectorsOf(i)), kept)
  BY DEF BeginFlash
<1>2. ptn' = p /\ img' = i /\ chunk' = 0
  BY DEF BeginFlash
<1>3. /\ kept' \in [Ptns -> Images \cup {"any"}]
      /\ \A q \in Ptns : kept'[q] \in Images =>
             kept'[q] = kept[q] /\ Extent(p, SectorsOf(i)) \cap Extent(q, Len[q]) = {}
  BY <1>1, HitSpares
<1>4. KeptInv'
  <2>1. \A q \in Ptns : kept'[q] \in Images =>
            kept'[q] = kept[q] /\ {} \cap Extent(q, Len[q]) = {}
    BY <1>3
  <2> QED
    BY <1>1, <1>3, <2>1, Untouched
<1>5. \A q \in Ptns : kept'[q] \in Images => Extent(ptn', SectorsOf(img')) \cap Extent(q, Len[q]) = {}
  BY <1>2, <1>3
<1>6. \A s \in 0 .. WholeSectors(img') - 1 : ~(s < ChunkSectors * chunk')
  BY <1>2
<1>7. FlashInv'
  BY <1>5, <1>6 DEF FlashInv, Extent, WholeSectors, SectorsOf
<1> QED
  BY <1>4, <1>7

LEMMA WriteChunkStep ==
    ASSUME PlaceInv, KeptInv, FlashInv, WriteChunk
    PROVE  KeptInv' /\ FlashInv'
<1> USE CardAssumption
<1>1. /\ img \in Images /\ chunk \in Nat /\ ptn \in Ptns /\ pc = "flash"
      /\ UNCHANGED <<ptn, img, kept>> /\ chunk' = chunk + 1
  BY DEF PlaceInv, WriteChunk
<1>2. PICK put \in Nat :
              /\ (ChunkSectors * chunk) + put <= WholeSectors(img)
              /\ disk' = [s \in Sectors |->
                             IF s \in ChunkStart .. ChunkStart + put - 1
                             THEN Sector(img, ChunkSectors * chunk + s - ChunkStart) ELSE disk[s]]
              /\ sound' => /\ sound
                           /\ \A s \in 0 .. WholeSectors(img) - 1 :
                                 s < ChunkSectors * (chunk + 1) => s < (ChunkSectors * chunk) + put
  BY WriteChunkEffect
<1> DEFINE S == Extent(ptn, SectorsOf(img))
<1>3. \A s \in ChunkStart .. ChunkStart + put - 1 :
          s \in S /\ ChunkSectors * chunk + s - ChunkStart = s - Start[ptn]
  BY <1>1, <1>2, ChunkInside
<1>4. \A p \in Ptns : kept[p] \in Images => S \cap Extent(p, Len[p]) = {}
  BY <1>1 DEF FlashInv
<1>5. KeptInv'
  <2>1. \A s \in Sectors : s \notin S => disk'[s] = disk[s]
    BY <1>2, <1>3
  <2>2. \A p \in Ptns : kept'[p] \in Images => kept'[p] = kept[p] /\ S \cap Extent(p, Len[p]) = {}
    BY <1>1, <1>4
  <2>3. kept' \in [Ptns -> Images \cup {"any"}]
    BY <1>1 DEF KeptInv
  <2> HIDE DEF S
  <2> QED
    BY <2>1, <2>2, <2>3, Untouched
<1>6. sound' => \A s \in 0 .. WholeSectors(img) - 1 :
                   s < ChunkSectors * (chunk + 1) => disk'[Start[ptn] + s] = Sector(img, s)
  <2> SUFFICES ASSUME sound', NEW s \in 0 .. WholeSectors(img) - 1, s < ChunkSectors * (chunk + 1)
               PROVE  disk'[Start[ptn] + s] = Sector(img, s)
    OBVIOUS
  <2>1. sound /\ s < (ChunkSectors * chunk) + put
    BY <1>2
  <2>2. /\ Start[ptn] \in Nat /\ Start[ptn] + SectorsOf(img) \in Sectors
        /\ ChunkSectors * chunk \in Nat
    BY <1>1 DEF Sectors
  <2>3. WholeSectors(img) \in Nat /\ SectorsOf(img) \in Nat /\ WholeSectors(img) <= SectorsOf(img)
    BY <1>1, SectorsBound
  <2>4. Start[ptn] + s \in Sectors
    BY <2>2, <2>3 DEF Sectors
  <2>5. ChunkStart = Start[ptn] + (ChunkSectors * chunk)
    BY DEF ChunkStart
  <2> DEFINE x == Start[ptn] + s
  <2>6. x \in Int /\ x - Start[ptn] = s
    BY <2>2, <2>3
  <2>7. x \in ChunkStart .. ChunkStart + put - 1 <=> ~(s < ChunkSectors * chunk)
    BY <2>1, <2>2, <2>3, <2>5
  <2>8. CASE s < ChunkSectors * chunk
    <3>1. disk'[x] = disk[x]
      BY <1>2, <2>4, <2>7, <2>8
    <3>2. disk[Start[ptn] + s] = Sector(img, s)
      BY <1>1, <2>1, <2>8 DEF FlashInv
    <3> QED
      BY <3>1, <3>2
  <2>9. CASE ~(s < ChunkSectors * chunk)
    <3>1. disk'[x] = Sector(img, ChunkSectors * chunk + x - ChunkStart)
      BY <1>2, <2>4, <2>7, <2>9
    <3>2. ChunkSectors * chunk + x - ChunkStart = s
      BY <1>3, <2>6, <2>7, <2>9
    <3> QED
      BY <3>1, <3>2
  <2> QED
    BY <2>8, <2>9
<1>7. FlashInv'
  BY <1>1, <1>4, <1>6 DEF FlashInv, Extent, WholeSectors, SectorsOf
<1> QED
  BY <1>5, <1>7

\* OKAY: without a failure the image is on the card as a whole.
LEMMA FlashDoneStep ==
    ASSUME PlaceInv, KeptInv, FlashInv, FlashDone
    PROVE  KeptInv'
<1> USE CardAssumption
<1>1. /\ img \in Images /\ chunk \in Nat /\ ptn \in Ptns /\ pc = "flash" /\ disk' = disk
      /\ kept' = [kept EXCEPT ![ptn] = IF sound /\ SectorsOf(img) <= Len[ptn] THEN img ELSE "any"]
  BY DEF PlaceInv, FlashDone
<1>2. WholeSectors(img) <= ChunkSectors * chunk
  BY <1>1, NoMoreChunks DEF FlashDone, MoreChunks, num, last
<1>3. sound => Held(ptn, img)
  <2> SUFFICES ASSUME sound, NEW s \in 0 .. WholeSectors(img) - 1
               PROVE  disk[Start[ptn] + s] = Sector(img, s)
    BY DEF Held
  <2>1. WholeSectors(img) \in Nat /\ ChunkSectors * chunk \in Nat
    BY <1>1, SectorsBound
  <2>2. s < ChunkSectors * chunk
    BY <1>2, <2>1
  <2> QED
    BY <1>1, <2>2 DEF FlashInv
<1>4. kept' \in [Ptns -> Images \cup {"any"}]
  BY <1>1 DEF KeptInv
<1>5. ASSUME NEW p \in Ptns, kept'[p] \in Images
      PROVE  SectorsOf(kept'[p]) <= Len[p] /\ \A s \in 0 .. WholeSectors(kept'[p]) - 1 :
                 disk[Start[p] + s] = Sector(kept'[p], s)
  <2>1. CASE p = ptn
    <3>1. sound /\ SectorsOf(img) <= Len[ptn] /\ kept'[p] = img
      BY <1>1, <1>5, <2>1, NotKept DEF KeptInv
    <3> QED
      BY <1>3, <2>1, <3>1 DEF Held
  <2>2. CASE p # ptn
    <3>1. kept'[p] = kept[p]
      BY <1>1, <2>2 DEF KeptInv
    <3> QED
      BY <1>5, <3>1 DEF KeptInv, Held
  <2> QED
    BY <2>1, <2>2
<1> QED
  BY <1>1, <1>4, <1>5 DEF KeptInv, Held

LEMMA EraseStep ==
    ASSUME KeptInv, NEW p \in EraseNames, Erase(p)
    PROVE  KeptInv'
<1> USE CardAssumption
<1>1. CASE card = "tran"
  <2>1. /\ disk' = [s \in Sectors |-> IF s \in EraseRange(p) THEN Blank("erased") ELSE disk[s]]
        /\ kept' = Hit(EraseRange(p), kept)
    BY <1>1 DEF Erase
  <2>2. \A s \in Sectors : s \notin EraseRange(p) => disk'[s] = disk[s]
    BY <2>1
  <2> QED
    BY <2>1, <2>2, HitSpares, Untouched
<1>2. CASE card # "tran"
  <2>1. kept' = [kept EXCEPT ![p] = "any"] /\ UNCHANGED disk
    BY <1>2 DEF Erase
  <2>2. kept' \in [Ptns -> Images \cup {"any"}]
    BY <2>1 DEF KeptInv
  <2>3. \A q \in Ptns : kept'[q] \in Images => kept'[q] = kept[q] /\ {} \cap Extent(q, Len[q]) = {}
    BY <2>1, NotKept DEF KeptInv
  <2> QED
    BY <2>1, <2>2, <2>3, Untouched
<1> QED
  BY <1>1, <1>2

\* A power cut leaves a part of a chunk, inside the image.
LEMMA CutEffect ==
    ASSUME PlaceInv, Cut, NEW s \in Sectors, disk'[s] # disk[s]
    PROVE  pc = "flash" /\ s \in Extent(ptn, WholeSectors(img))
<1> USE CardAssumption
<1>1. pc = "flash" /\ card = "tran"
  BY DEF Cut
<1>2. PICK n \in 0 .. ChunkSectors :
         disk' = [t \in Sectors |->
                     IF t - ChunkStart \in 0 .. n - 1
                        /\ ChunkSectors * chunk + t - ChunkStart < WholeSectors(img)
                     THEN Sector(img, ChunkSectors * chunk + t - ChunkStart) ELSE disk[t]]
  BY <1>1 DEF Cut
<1>3. s - ChunkStart \in 0 .. n - 1 /\ ChunkSectors * chunk + s - ChunkStart < WholeSectors(img)
  BY <1>2
<1>4. img \in Images /\ chunk \in Nat /\ ptn \in Ptns
  BY <1>1 DEF PlaceInv
<1>5. Start[ptn] \in Nat /\ ChunkSectors * chunk \in Nat /\ WholeSectors(img) \in Nat /\ s \in Nat
  BY <1>4, SectorsBound DEF Sectors
<1>6. ChunkStart = Start[ptn] + (ChunkSectors * chunk)
  BY DEF ChunkStart
<1>7. s >= Start[ptn] /\ s < Start[ptn] + WholeSectors(img)
  BY <1>3, <1>5, <1>6
<1> QED
  BY <1>1, <1>5, <1>7 DEF Extent

LEMMA CutStep ==
    ASSUME PlaceInv, KeptInv, FlashInv, Cut
    PROVE  KeptInv'
<1> USE CardAssumption
<1>1. UNCHANGED kept /\ kept' \in [Ptns -> Images \cup {"any"}]
  BY DEF Cut, KeptInv
<1>2. CASE pc = "flash"
  <2>1. img \in Images
    BY <1>2 DEF PlaceInv
  <2>2. \A s \in Sectors : s \notin Extent(ptn, WholeSectors(img)) => disk'[s] = disk[s]
    BY CutEffect
  <2>3. Extent(ptn, WholeSectors(img)) \subseteq Extent(ptn, SectorsOf(img))
    <3>1. Start[ptn] \in Nat
      BY DEF PlaceInv, Sectors
    <3>2. /\ WholeSectors(img) \in Nat /\ SectorsOf(img) \in Nat
          /\ WholeSectors(img) <= SectorsOf(img)
      BY <2>1, SectorsBound
    <3> QED
      BY <3>1, <3>2 DEF Extent
  <2>4. \A p \in Ptns : kept'[p] \in Images =>
            kept'[p] = kept[p] /\ Extent(ptn, WholeSectors(img)) \cap Extent(p, Len[p]) = {}
    BY <1>1, <1>2, <2>3 DEF FlashInv
  <2> QED
    BY <1>1, <2>2, <2>4, Untouched
<1>3. CASE pc # "flash"
  <2>1. \A s \in Sectors : s \notin {} => disk'[s] = disk[s]
    BY <1>3, CutEffect
  <2>2. \A p \in Ptns : kept'[p] \in Images => kept'[p] = kept[p] /\ {} \cap Extent(p, Len[p]) = {}
    BY <1>1
  <2> QED
    BY <1>1, <2>1, <2>2, Untouched
<1> QED
  BY <1>2, <1>3

\* A step that neither changes the card nor begins a flash.
LEMMA SameCard ==
    ASSUME KeptInv, UNCHANGED <<disk, kept>>, pc' # "flash"
    PROVE  KeptInv' /\ FlashInv'
BY DEF KeptInv, FlashInv, Held

LEMMA KeptStep == PlaceInv /\ KeptInv /\ FlashInv /\ [Next]_vars => KeptInv' /\ FlashInv'
<1> SUFFICES ASSUME PlaceInv, KeptInv, FlashInv, [Next]_vars PROVE KeptInv' /\ FlashInv'
  OBVIOUS
<1>1. CASE PowerOn \/ EnterFastboot \/ StartKernel
  BY <1>1, SameCard DEF PowerOn, EnterFastboot, StartKernel
<1>2. ASSUME NEW p \in {"boot", "recovery"}, MscBoot(p) PROVE KeptInv' /\ FlashInv'
  BY <1>2, SameCard DEF MscBoot
<1>3. CASE ReadHeader \/ ReadBody
  <2>1. pc' # "flash"
    BY <1>3, DoMscPlace DEF ReadHeader, ReadBody
  <2> QED
    BY <1>3, <2>1, SameCard DEF ReadHeader, ReadBody
<1>4. CASE WriteChunk
  BY <1>4, WriteChunkStep
<1>5. CASE FlashDone
  BY <1>5, FlashDoneStep DEF FlashDone, FlashInv
<1>6. ASSUME NEW p \in FlashNames, NEW i \in Images, BeginFlash(p, i) PROVE KeptInv' /\ FlashInv'
  BY <1>6, BeginFlashStep
<1>7. ASSUME NEW p \in EraseNames, Erase(p) PROVE KeptInv' /\ FlashInv'
  <2>1. pc' # "flash"
    BY <1>7 DEF Erase
  <2> QED
    BY <1>7, <2>1, EraseStep DEF FlashInv
<1>8. CASE Reset
  BY <1>8, SameCard DEF Reset, Restart
<1>9. CASE Cut
  <2>1. pc' # "flash"
    BY <1>9 DEF Cut, Restart
  <2> QED
    BY <1>9, <2>1, CutStep DEF FlashInv
<1>10. CASE UNCHANGED vars
  BY <1>10 DEF vars, KeptInv, FlashInv, Held
<1> QED
  BY <1>1, <1>2, <1>3, <1>4, <1>5, <1>6, <1>7, <1>8, <1>9, <1>10 DEF Next, XBoot, Client

\* What was answered OKAY in a session without a failed transfer stays on the card,
\* through everything that is done to other partitions and every power cut.
THEOREM KeptCorrect == Spec => []HeldOnDisk
<1>1. KeptInv => HeldOnDisk
  BY DEF KeptInv, Held, HeldOnDisk
<1> QED
  BY <1>1, PlaceInit, PlaceStep, KeptInit, KeptStep, PTL DEF Spec

-----------------------------------------------------------------------------
(* Starts *)

\* A start that has read without an error has in RAM what is on the card, if it begins
\* with the magic.
BootInv ==
    /\ pc = "started" => HasMagic
    /\ sound /\ kept[ptn] \in Images =>
        /\ pc = "body" /\ WholeSectors(kept[ptn]) > 0 => ram[0] = Sector(kept[ptn], 0)
        /\ pc \in {"start", "started"} /\ HasMagic =>
              \A s \in 0 .. WholeSectors(kept[ptn]) - 1 : ram[s] = Sector(kept[ptn], s)

LEMMA BootInit == Init => BootInv
BY DEF Init, BootInv

\* A read that does not fail brings all it was asked for.
LEMMA DoMscEffect ==
    ASSUME NEW a \in Nat, NEW n \in Nat, NEW next, DoMsc(a, n, next), sound'
    PROVE  /\ sound
           /\ ram' = [i \in DOMAIN ram |-> IF i \in a .. a + n - 1 THEN disk[Start[ptn] + i] ELSE ram[i]]
<1>1. PICK r \in mmc_block_readm(card, Start[ptn] + a, n) :
        /\ ram' = [i \in DOMAIN ram |-> IF i \in a .. a + r.got - 1 THEN disk[Start[ptn] + i] ELSE ram[i]]
        /\ Count(r.bad, card = "tran" /\ Start[ptn] + a + n <= NSectors)
  BY DEF DoMsc
<1>2. sound /\ ~r.bad
  BY <1>1 DEF Count
<1>3. r.got = n
  <2>1. CASE card = "tran"
    BY <1>1, <1>2, <2>1 DEF mmc_block_readm
  <2>2. CASE card # "tran"
    <3>1. r.bad \in {TRUE}
      BY <1>1, <2>2 DEF mmc_block_readm
    <3>2. r.bad
      BY <3>1
    <3> QED
      BY <1>2, <3>2
  <2> QED
    BY <2>1, <2>2
<1> QED
  BY <1>1, <1>2, <1>3

LEMMA ReadHeaderStep ==
    ASSUME PlaceInv, KeptInv, ReadHeader
    PROVE  BootInv'
<1> USE CardAssumption
<1>1. pc' \in {"body", "hung"} /\ UNCHANGED <<disk, ptn, kept>> /\ DoMsc(0, 1, "body")
  BY DoMscPlace DEF ReadHeader
<1>2. SUFFICES ASSUME sound', kept[ptn] \in Images, WholeSectors(kept[ptn]) > 0
               PROVE  ram'[0] = Sector(kept[ptn], 0)
  BY <1>1 DEF BootInv, WholeSectors
<1>3. ram' = [i \in DOMAIN ram |-> IF i \in 0 .. 0 + 1 - 1 THEN disk[Start[ptn] + i] ELSE ram[i]]
  BY <1>1, <1>2, DoMscEffect
<1>4. 0 \in DOMAIN ram
  <2>1. MaxRam \in Nat /\ SectorsOf(kept[ptn]) \in Nat \ {0} /\ SectorsOf(kept[ptn]) <= MaxRam
    BY <1>2, SectorsBound
  <2> QED
    BY <2>1 DEF PlaceInv
<1>5. ram'[0] = disk[Start[ptn] + 0]
  BY <1>3, <1>4
<1>6. Held(ptn, kept[ptn]) /\ WholeSectors(kept[ptn]) \in Nat
  BY <1>2, SectorsBound DEF KeptInv, PlaceInv
<1> QED
  BY <1>2, <1>5, <1>6 DEF Held

\* Whatever is read behind the header, the header stays.
LEMMA ReadBodyHead ==
    ASSUME ReadBody, 0 \in DOMAIN ram
    PROVE  ram'[0] = ram[0]
<1>1. PICK n, next : DoMsc(1, n, next)
  BY DEF ReadBody, BodyFrom
<1> QED
  BY <1>1 DEF DoMsc

LEMMA ReadBodyStep ==
    ASSUME PlaceInv, KeptInv, BootInv, ReadBody
    PROVE  BootInv'
<1> USE CardAssumption
<1>1. pc = "body" /\ pc' \in {"start", "hung"} /\ UNCHANGED <<disk, ptn, kept>>
  BY DoMscPlace DEF ReadBody
<1> DEFINE k == kept[ptn]
<1>2. ASSUME sound', k \in Images, HasMagic', NEW s \in 0 .. WholeSectors(k) - 1
      PROVE  ram'[s] = Sector(k, s)
  <2>1. /\ WholeSectors(k) \in Nat /\ SectorsOf(k) \in Nat \ {0} /\ MaxRam \in Nat
        /\ WholeSectors(k) <= SectorsOf(k) /\ SectorsOf(k) <= MaxRam
    BY <1>2, SectorsBound
  <2>2. sound
    BY <1>2 DEF ReadBody, DoMsc, Count
  <2>3. ram[0] = Sector(k, 0)
    <3>1. WholeSectors(k) > 0
      BY <1>2, <2>1
    <3> QED
      BY <1>1, <1>2, <2>2, <3>1 DEF BootInv
  <2>4. HasMagic /\ Promised = SectorsOf(k)
    <3>1. 0 \in DOMAIN ram
      BY <2>1 DEF PlaceInv
    <3>2. ram'[0] = ram[0]
      BY <3>1, ReadBodyHead
    <3> QED
      BY <1>2, <2>3, <3>2 DEF HasMagic, Promised, Sector
  <2>5. disk[Start[ptn] + s] = Sector(k, s)
    BY <1>2 DEF KeptInv, PlaceInv, Held
  <2>6. s \in DOMAIN ram
    BY <1>2, <2>1 DEF PlaceInv
  <2>7. DoMsc(1, SectorsOf(k) - 1, "start") /\ SectorsOf(k) - 1 \in Nat
    BY <2>1, <2>4 DEF ReadBody, BodyFrom
  <2>8. ram' = [i \in DOMAIN ram |-> IF i \in 1 .. 1 + (SectorsOf(k) - 1) - 1
                                     THEN disk[Start[ptn] + i] ELSE ram[i]]
    BY <1>2, <2>7, DoMscEffect
  <2>9. s = 0 \/ s \in 1 .. 1 + (SectorsOf(k) - 1) - 1
    BY <1>2, <2>1
  <2>10. CASE s = 0
    BY <2>3, <2>6, <2>8, <2>10
  <2>11. CASE s \in 1 .. 1 + (SectorsOf(k) - 1) - 1
    BY <2>5, <2>6, <2>8, <2>11
  <2> QED
    BY <2>9, <2>10, <2>11
<1> QED
  BY <1>1, <1>2 DEF BootInv, WholeSectors

\* Steps that leave a start, or do not belong to one.
LEMMA NoStart ==
    ASSUME pc' \notin {"body", "start", "started"}
    PROVE  BootInv'
BY DEF BootInv

LEMMA BootStep == PlaceInv /\ KeptInv /\ BootInv /\ [Next]_vars => BootInv'
<1> SUFFICES ASSUME PlaceInv, KeptInv, BootInv, [Next]_vars PROVE BootInv'
  OBVIOUS
<1>1. CASE PowerOn \/ EnterFastboot \/ FlashDone
  <2>1. pc' \in {"key", "fastboot", "hung"}
    BY <1>1 DEF PowerOn, EnterFastboot, FlashDone
  <2> QED
    BY <2>1, NoStart
<1>2. ASSUME NEW p \in {"boot", "recovery"}, MscBoot(p) PROVE BootInv'
  BY <1>2, NoStart DEF MscBoot
<1>3. CASE ReadHeader
  BY <1>3, ReadHeaderStep
<1>4. CASE ReadBody
  BY <1>4, ReadBodyStep
<1>5. CASE StartKernel
  <2>1. /\ pc = "start" /\ UNCHANGED <<ram, ptn, sound, kept>> /\ pc' # "body"
        /\ pc' = "started" => HasMagic
    BY <1>5 DEF StartKernel
  <2> QED
    BY <2>1 DEF BootInv, WholeSectors, HasMagic
<1>6. CASE WriteChunk
  <2>1. pc' \in {"flash", "hung"}
    BY <1>6 DEF WriteChunk
  <2> QED
    BY <2>1, NoStart
<1>7. ASSUME NEW p \in FlashNames, NEW i \in Images, BeginFlash(p, i) PROVE BootInv'
  BY <1>7, NoStart DEF BeginFlash
<1>8. ASSUME NEW p \in EraseNames, Erase(p) PROVE BootInv'
  <2>1. pc' \in {"fastboot", "hung"}
    BY <1>8 DEF Erase
  <2> QED
    BY <2>1, NoStart
<1>9. CASE Reset
  BY <1>9, NoStart DEF Reset, Restart
<1>10. CASE Cut
  BY <1>10, NoStart DEF Cut, Restart
<1>11. CASE UNCHANGED vars
  BY <1>11 DEF vars, BootInv, HasMagic
<1> QED
  BY <1>1, <1>2, <1>3, <1>4, <1>5, <1>6, <1>7, <1>8, <1>9, <1>10, <1>11
     DEF Next, XBoot, Client

\* A start that reads without an error starts the image that was answered OKAY, entire
\* (do_msc and msc_boot after card_flash).
THEOREM BootCorrect == Spec => []BootsFlashed
<1>1. Init => PlaceInv /\ KeptInv /\ FlashInv /\ BootInv
  BY PlaceInit, KeptInit, BootInit
<1>2. PlaceInv /\ KeptInv /\ FlashInv /\ BootInv /\ [Next]_vars
         => (PlaceInv /\ KeptInv /\ FlashInv /\ BootInv)'
  BY PlaceStep, KeptStep, BootStep
<1>3. BootInv => BootsFlashed
  BY DEF BootInv, BootsFlashed
<1> QED
  BY <1>1, <1>2, <1>3, PTL DEF Spec

-----------------------------------------------------------------------------
(* What a step may change on the card *)

Inside == \A s \in Sectors : disk'[s] # disk[s] =>
              IF pc = "flash" THEN s \in Extent(ptn, WholeSectors(img))
              ELSE pc = "fastboot" /\ s \in Extent(ptn', Len[ptn'] + 1)

LEMMA InsideStep == PlaceInv /\ [Next]_vars => Inside
<1> SUFFICES ASSUME PlaceInv, [Next]_vars, NEW s \in Sectors, disk'[s] # disk[s]
             PROVE  IF pc = "flash" THEN s \in Extent(ptn, WholeSectors(img))
                    ELSE pc = "fastboot" /\ s \in Extent(ptn', Len[ptn'] + 1)
  BY DEF Inside
<1> USE CardAssumption
<1>1. CASE WriteChunk
  <2>1. pc = "flash"
    BY <1>1 DEF WriteChunk
  <2>2. PICK put \in Nat :
            /\ (ChunkSectors * chunk) + put <= WholeSectors(img)
            /\ disk' = [t \in Sectors |->
                           IF t \in ChunkStart .. ChunkStart + put - 1
                           THEN Sector(img, ChunkSectors * chunk + t - ChunkStart) ELSE disk[t]]
    BY <1>1, WriteChunkEffect
  <2>3. s \in ChunkStart .. ChunkStart + put - 1
    BY <2>2
  <2>4. s \in Extent(ptn, WholeSectors(img))
    BY <2>1, <2>2, <2>3, ChunkInside
  <2> QED
    BY <2>1, <2>4
<1>2. CASE Cut
  BY <1>2, CutEffect
<1>3. ASSUME NEW p \in EraseNames, Erase(p)
      PROVE  pc = "fastboot" /\ s \in Extent(ptn', Len[ptn'] + 1)
  <2>1. pc = "fastboot" /\ ptn' = p /\ p \in Ptns
    BY <1>3 DEF Erase
  <2>2. s \in EraseRange(p)
    BY <1>3 DEF Erase
  <2>3. Start[p] \in Nat /\ Len[p] \in Nat
    BY <2>1 DEF Sectors
  <2>4. s \in Extent(p, Len[p] + 1)
    BY <2>2, <2>3 DEF EraseRange, Extent
  <2> QED
    BY <2>1, <2>4
<1>4. CASE \/ PowerOn \/ EnterFastboot \/ ReadHeader \/ ReadBody \/ StartKernel
           \/ FlashDone \/ Reset \/ UNCHANGED vars
  BY <1>4 DEF PowerOn, EnterFastboot, ReadHeader, ReadBody, StartKernel, FlashDone, Reset, vars
<1>5. ASSUME NEW p \in {"boot", "recovery"}, MscBoot(p) PROVE FALSE
  BY <1>5 DEF MscBoot
<1>6. ASSUME NEW p \in FlashNames, NEW i \in Images, BeginFlash(p, i) PROVE FALSE
  BY <1>6 DEF BeginFlash
<1>7. pc = "fastboot" => pc # "flash"
  OBVIOUS
<1> QED
  BY <1>1, <1>2, <1>3, <1>4, <1>5, <1>6, <1>7 DEF Next, XBoot, Client

\* flash_write and mmc_block_erase: a command changes the whole sectors of its image, or
\* its partition and the sector after it; nothing else, and nothing at any other time.
THEOREM ContainedCorrect == Spec => Contained
<1>1. Init => PlaceInv
  BY PlaceInit
<1>2. PlaceInv /\ [Next]_vars => PlaceInv' /\ [Inside]_vars
  BY PlaceStep, InsideStep
<1>3. Spec => [][Inside]_vars
  BY <1>1, <1>2, PTL DEF Spec
<1> QED
  BY <1>3 DEF Contained, Inside

-----------------------------------------------------------------------------
(* Types *)

Cards == {"idle", "tran", "rcv", "data"}

Written == [Sectors -> Contents]
Loaded  == [0 .. MaxRam - 1 -> Contents]

CardType ==
    /\ PlaceInv /\ first \in BOOLEAN /\ card \in Cards
    /\ disk \in Written /\ ram \in Loaded
    /\ img \in Images \cup {NoImage}
    /\ faults \in 0 .. MaxFaults /\ cuts \in 0 .. MaxCuts
    /\ sound \in BOOLEAN /\ kept \in [Ptns -> Images \cup {"any"}]

LEMMA RamSize == MaxRam \in Nat \ {0}
<1>1. PICK i \in Images : TRUE
  BY CardAssumption
<1> QED
  BY <1>1, SectorsBound

LEMMA BlankType ==
    ASSUME NEW what \in {"erased", "xboot", "none", "junk"}
    PROVE  Blank(what) \in Contents
BY RamSize DEF Blank, Sector, Contents

LEMMA SectorType ==
    ASSUME NEW i \in Images, NEW at \in Nat, at < WholeSectors(i)
    PROVE  Sector(i, at) \in Contents
<1>1. at \in 0 .. MaxRam - 1
  BY SectorsBound
<1> QED
  BY <1>1 DEF Sector, Contents

LEMMA JunkType == Junk \in Loaded
BY BlankType DEF Junk, Loaded

LEMMA CountType ==
    ASSUME NEW bad, NEW fault, CardType, Count(bad, fault)
    PROVE  faults' \in 0 .. MaxFaults /\ sound' \in BOOLEAN
<1>1. faults' \in {faults, faults + 1} /\ faults' <= MaxFaults
  BY DEF Count
<1>2. sound' = (sound /\ ~bad)
  BY DEF Count
<1>3. sound' \in BOOLEAN
  BY <1>2
<1> QED
  BY <1>1, <1>3, CardAssumption DEF CardType

LEMMA ReadType ==
    ASSUME NEW c \in Cards, NEW at \in Nat, NEW n \in Nat, NEW r \in mmc_block_readm(c, at, n)
    PROVE  r.card \in Cards /\ r.got \in Nat /\ (r.got > 0 => at + r.got <= NSectors)
<1>1. CASE c = "tran"
  BY <1>1 DEF mmc_block_readm, Cards
<1>2. CASE c # "tran"
  <2>1. r.got \in {0} /\ r.card \in {c}
    BY <1>2 DEF mmc_block_readm
  <2> QED
    BY <2>1
<1> QED
  BY <1>1, <1>2

\* What a read brings comes from the card, wherever it was told to begin and however much
\* it was told to bring.
LEMMA DoMscType ==
    ASSUME CardType, NEW a \in Nat, NEW n \in Nat, NEW next, DoMsc(a, n, next)
    PROVE  ram' \in Loaded /\ card' \in Cards /\ faults' \in 0 .. MaxFaults /\ sound' \in BOOLEAN
<1> USE CardAssumption
<1>1. PICK r \in mmc_block_readm(card, Start[ptn] + a, n) :
        /\ ram' = [i \in DOMAIN ram |-> IF i \in a .. a + r.got - 1 THEN disk[Start[ptn] + i] ELSE ram[i]]
        /\ card' = r.card
        /\ Count(r.bad, card = "tran" /\ Start[ptn] + a + n <= NSectors)
  BY DEF DoMsc
<1>2. card \in Cards /\ ptn \in Ptns /\ disk \in Written /\ ram \in Loaded
  BY DEF CardType, PlaceInv
<1>3. Start[ptn] \in Nat
  BY <1>2 DEF Sectors
<1> DEFINE at == Start[ptn] + a
<1>4. at \in Nat
  BY <1>3
<1>5. r.card \in Cards /\ r.got \in Nat /\ (r.got > 0 => at + r.got <= NSectors)
  BY <1>1, <1>2, <1>4, ReadType
<1>6. ASSUME NEW i \in DOMAIN ram, i \in a .. a + r.got - 1 PROVE disk[Start[ptn] + i] \in Contents
  <2>1. Start[ptn] + i \in Sectors
    BY <1>3, <1>5, <1>6 DEF Sectors
  <2> QED
    BY <1>2, <2>1 DEF Written
<1>7. ram' \in Loaded
  BY <1>1, <1>2, <1>6 DEF Loaded
<1> QED
  BY <1>1, <1>5, <1>7, CountType

LEMMA CardTypeInit == Init => CardType
<1> SUFFICES ASSUME Init PROVE CardType
  OBVIOUS
<1> USE CardAssumption
<1>1. PlaceInv
  BY PlaceInit
<1>2. Blank("xboot") \in Contents /\ Blank("none") \in Contents
  BY BlankType
<1>3. disk = [s \in Sectors |-> IF s = 0 THEN Blank("xboot") ELSE Blank("none")]
  BY DEF Init
<1>4. disk \in Written
  BY <1>2, <1>3 DEF Written
<1>5. ram \in Loaded
  BY JunkType DEF Init
<1>6. first \in BOOLEAN /\ sound \in BOOLEAN
  BY DEF Init
<1> QED
  BY <1>1, <1>4, <1>5, <1>6 DEF Init, CardType, Cards

LEMMA WriteType ==
    ASSUME CardType, WriteChunk
    PROVE  disk' \in Written /\ card' \in Cards /\ faults' \in 0 .. MaxFaults /\ sound' \in BOOLEAN
<1> USE CardAssumption
<1>1. PlaceInv /\ card \in Cards /\ disk \in Written /\ img \in Images /\ chunk \in Nat /\ ptn \in Ptns
  BY DEF CardType, PlaceInv, WriteChunk
<1>2. PICK put \in Nat :
         /\ (ChunkSectors * chunk) + put <= WholeSectors(img)
         /\ disk' = [s \in Sectors |->
                        IF s \in ChunkStart .. ChunkStart + put - 1
                        THEN Sector(img, ChunkSectors * chunk + s - ChunkStart) ELSE disk[s]]
  BY <1>1, WriteChunkEffect
<1>3. ASSUME NEW s \in Sectors, s \in ChunkStart .. ChunkStart + put - 1
      PROVE  Sector(img, ChunkSectors * chunk + s - ChunkStart) \in Contents
  <2>1. /\ ChunkSectors * chunk \in Nat /\ Start[ptn] \in Nat /\ WholeSectors(img) \in Nat /\ s \in Nat
        /\ ChunkStart = Start[ptn] + (ChunkSectors * chunk)
    BY <1>1, SectorsBound DEF Sectors, ChunkStart
  <2> DEFINE at == ChunkSectors * chunk + s - ChunkStart
  <2>2. at \in Nat /\ at < WholeSectors(img)
    BY <1>2, <1>3, <2>1
  <2> HIDE DEF at
  <2>3. Sector(img, at) \in Contents
    BY <1>1, <2>2, SectorType
  <2> QED
    BY <2>3 DEF at
<1>4. disk' \in Written
  BY <1>1, <1>2, <1>3 DEF Written
<1> DEFINE size == IF chunk < num THEN ChunkBytes ELSE last
           nob  == size \div SectorBytes
<1>5. PICK r \in mmc_block_writem(card, size) : card' = r.card /\ Count(r.bad, card = "tran")
  BY DEF WriteChunk
<1>6. r.card \in Cards
  <2> HIDE DEF size
  <2>1. CASE card = "tran" /\ nob > 0
    <3>1. \/ r = [put |-> nob, card |-> "tran", bad |-> FALSE, hang |-> FALSE]
          \/ r \in [put : 0 .. nob - 1, card : {"rcv"}, bad : {TRUE}, hang : {FALSE}]
      BY <1>5, <2>1 DEF mmc_block_writem
    <3>2. CASE r = [put |-> nob, card |-> "tran", bad |-> FALSE, hang |-> FALSE]
      BY <3>2 DEF Cards
    <3>3. CASE r \in [put : 0 .. nob - 1, card : {"rcv"}, bad : {TRUE}, hang : {FALSE}]
      <4> DEFINE P == 0 .. nob - 1
      <4> HIDE DEF P
      <4>1. r \in [put : P, card : {"rcv"}, bad : {TRUE}, hang : {FALSE}]
        BY <3>3 DEF P
      <4>2. r.card = "rcv"
        BY <4>1
      <4> QED
        BY <4>2 DEF Cards
    <3> QED
      BY <3>1, <3>2, <3>3
  <2>2. CASE ~(card = "tran" /\ nob > 0)
    <3>1. r \in [put : {0}, card : {card}, bad : {card # "tran"}, hang : BOOLEAN]
      BY <1>5, <2>2 DEF mmc_block_writem
    <3> QED
      BY <1>1, <3>1
  <2> QED
    BY <2>1, <2>2
<1> QED
  BY <1>4, <1>5, <1>6, CountType

LEMMA CutType ==
    ASSUME CardType, Cut
    PROVE  disk' \in Written /\ card' \in Cards /\ cuts' \in 0 .. MaxCuts
<1> USE CardAssumption
<1>1. card' \in Cards /\ cuts' \in 0 .. MaxCuts /\ disk \in Written
  BY DEF CardType, Cut, Cards
<1>2. CASE ~(pc = "flash" /\ card = "tran")
  BY <1>1, <1>2 DEF Cut
<1>3. CASE pc = "flash" /\ card = "tran"
  <2>1. PICK n \in 0 .. ChunkSectors :
         disk' = [s \in Sectors |->
                     IF s - ChunkStart \in 0 .. n - 1
                        /\ ChunkSectors * chunk + s - ChunkStart < WholeSectors(img)
                     THEN Sector(img, ChunkSectors * chunk + s - ChunkStart) ELSE disk[s]]
    BY <1>3 DEF Cut
  <2>2. img \in Images /\ chunk \in Nat /\ ptn \in Ptns
    BY <1>3 DEF CardType, PlaceInv
  <2>3. ASSUME NEW s \in Sectors, s - ChunkStart \in 0 .. n - 1,
               ChunkSectors * chunk + s - ChunkStart < WholeSectors(img)
        PROVE  Sector(img, ChunkSectors * chunk + s - ChunkStart) \in Contents
    <3>1. /\ ChunkSectors * chunk \in Nat /\ Start[ptn] \in Nat /\ s \in Nat
          /\ ChunkStart = Start[ptn] + (ChunkSectors * chunk)
      BY <2>2 DEF Sectors, ChunkStart
    <3> DEFINE at == ChunkSectors * chunk + s - ChunkStart
    <3>2. at \in Nat /\ at < WholeSectors(img)
      BY <2>3, <3>1
    <3> HIDE DEF at
    <3>3. Sector(img, at) \in Contents
      BY <2>2, <3>2, SectorType
    <3> QED
      BY <3>3 DEF at
  <2>4. disk' \in Written
    BY <1>1, <2>1, <2>3 DEF Written
  <2> QED
    BY <1>1, <2>4
<1> QED
  BY <1>2, <1>3

LEMMA CardTypeStep == CardType /\ [Next]_vars => CardType'
<1> SUFFICES ASSUME CardType, [Next]_vars PROVE CardType'
  OBVIOUS
<1> USE CardAssumption
<1>1. PlaceInv' /\ PlaceInv
  BY PlaceStep DEF CardType
<1>2. Junk' = Junk
  BY DEF Junk, MaxRam
<1>3. CASE PowerOn
  <2>1. PICK i \in mmc_init : \E r \in mmc_block_readm(i.card, 0, 1) :
          card' = r.card /\ Count(i.bad \/ r.bad, TRUE)
    BY <1>3 DEF PowerOn
  <2>2. i.card \in Cards
    BY DEF mmc_init, Cards
  <2>3. card' \in Cards
    BY <2>1, <2>2, ReadType
  <2>4. faults' \in 0 .. MaxFaults /\ sound' \in BOOLEAN
    BY <2>1, CountType
  <2> QED
    BY <1>1, <1>3, <2>3, <2>4, JunkType DEF PowerOn, CardType
<1>4. CASE EnterFastboot \/ StartKernel \/ \E p \in {"boot", "recovery"} : MscBoot(p)
  BY <1>1, <1>4 DEF EnterFastboot, StartKernel, MscBoot, CardType
<1>5. CASE ReadHeader
  <2>1. ram' \in Loaded /\ card' \in Cards /\ faults' \in 0 .. MaxFaults /\ sound' \in BOOLEAN
    BY <1>5, DoMscType DEF ReadHeader
  <2> QED
    BY <1>1, <1>5, <2>1 DEF ReadHeader, CardType
<1>6. CASE ReadBody
  <2>1. \E n \in Nat, next \in {"start", "hung"} : DoMsc(1, n, next)
    <3>1. CASE HasMagic
      <4>1. ram[0].of \in Images /\ Promised = SectorsOf(ram[0].of)
        BY <3>1, CardAssumption DEF HasMagic, Promised
      <4>2. Promised - 1 \in Nat
        BY <4>1, SectorsBound
      <4> QED
        BY <1>6, <3>1, <4>2 DEF ReadBody, BodyFrom
    <3>2. CASE ~HasMagic
      BY <1>6, <3>2, CardAssumption DEF ReadBody, BodyFrom
    <3> QED
      BY <3>1, <3>2
  <2>2. ram' \in Loaded /\ card' \in Cards /\ faults' \in 0 .. MaxFaults /\ sound' \in BOOLEAN
    BY <2>1, DoMscType
  <2> QED
    BY <1>1, <1>6, <2>2 DEF ReadBody, CardType
<1>7. CASE WriteChunk
  <2>1. disk' \in Written /\ card' \in Cards /\ faults' \in 0 .. MaxFaults /\ sound' \in BOOLEAN
    BY <1>7, WriteType
  <2> QED
    BY <1>1, <1>7, <2>1 DEF WriteChunk, CardType
<1>8. CASE FlashDone
  <2>1. kept' \in [Ptns -> Images \cup {"any"}]
    <3>1. img \in Images
      BY <1>1, <1>8 DEF FlashDone, PlaceInv
    <3>2. kept' = [kept EXCEPT ![ptn] = IF sound /\ SectorsOf(img) <= Len[ptn] THEN img ELSE "any"]
      BY <1>8 DEF FlashDone
    <3>3. (IF sound /\ SectorsOf(img) <= Len[ptn] THEN img ELSE "any") \in Images \cup {"any"}
      BY <3>1
    <3> QED
      BY <3>2, <3>3 DEF CardType
  <2> QED
    BY <1>1, <1>8, <2>1 DEF FlashDone, CardType
<1>9. ASSUME NEW p \in FlashNames, NEW i \in Images, BeginFlash(p, i) PROVE CardType'
  <2>1. kept' \in [Ptns -> Images \cup {"any"}]
    BY <1>9 DEF BeginFlash, Hit, CardType
  <2> QED
    BY <1>1, <1>9, <2>1 DEF BeginFlash, CardType
<1>10. ASSUME NEW p \in EraseNames, Erase(p) PROVE CardType'
  <2>1. kept' \in [Ptns -> Images \cup {"any"}]
    BY <1>10 DEF Erase, Hit, CardType
  <2>2. disk' \in Written
    <3>1. Blank("erased") \in Contents
      BY BlankType
    <3>2. \/ disk' = [s \in Sectors |-> IF s \in EraseRange(p) THEN Blank("erased") ELSE disk[s]]
          \/ disk' = disk
      BY <1>10 DEF Erase
    <3> QED
      BY <3>1, <3>2 DEF Written, CardType
  <2> QED
    BY <1>1, <1>10, <2>1, <2>2 DEF Erase, CardType
<1>11. CASE Reset
  BY <1>1, <1>11, JunkType DEF Reset, Restart, CardType
<1>12. CASE Cut
  <2>1. disk' \in Written /\ card' \in Cards /\ cuts' \in 0 .. MaxCuts
    BY <1>12, CutType
  <2> QED
    BY <1>1, <1>12, <2>1, JunkType DEF Cut, Restart, CardType
<1>13. CASE UNCHANGED vars
  BY <1>1, <1>13 DEF vars, CardType
<1> QED
  BY <1>3, <1>4, <1>5, <1>6, <1>7, <1>8, <1>9, <1>10, <1>11, <1>12, <1>13 DEF Next, XBoot, Client

\* What is on the card and in RAM are sectors of images, or no image's, through every
\* write, erase and cut, and every read, also one whose size a sector without a header gives
\* and that asks the card for more than it has (do_msc, msc_boot, mmc_block_writem).
THEOREM CardTypes == Spec => []TypeOK
<1>1. CardType => TypeOK
  BY DEF CardType, PlaceInv, TypeOK, Cards, Written, Loaded
<1> QED
  BY <1>1, CardTypeInit, CardTypeStep, PTL DEF Spec

=============================================================================
