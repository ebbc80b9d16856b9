---------------------------- MODULE I2cBusProofs ----------------------------
(***************************************************************************)
(* Proofs about I2cBus, for bytes of any width, any device, all calls and     *)
(* any number of resets.  The invariant has a part for each thing that is     *)
(* known of the two ends of the wires: where the driver is, what SCL and SDA  *)
(* are at each pin operation, when a device holds SDA or is in step, and what *)
(* the bits seen so far say of registers and buffer.                         *)
(***************************************************************************)
EXTENDS I2cBus, WellFoundedInduction, TLAPS

-----------------------------------------------------------------------------
(* Induction over the natural numbers, and the powers of two *)

\* Every set of natural numbers that is not empty has a least element.
LEMMA LeastElement ==
    ASSUME NEW S \in SUBSET Nat, S # {}
    PROVE  \E m \in S : \A x \in S : m <= x
<1> DEFINE R == OpToRel(<, Nat)
<1>1. IsWellFoundedOn(R, Nat)
  BY NatLessThanWellFounded
<1> HIDE DEF R
<1>2. PICK m \in S : \A x \in S : ~ (<<x, m>> \in R)
  BY <1>1, WFMin
<1>3. \A x, y \in Nat : x < y => <<x, y>> \in R
  BY DEF R, OpToRel
<1>4. \A x \in S : x \in Nat
  OBVIOUS
<1>5. ASSUME NEW x \in S PROVE m <= x
  <2>1. m \in Nat /\ x \in Nat /\ ~(x < m)
    BY <1>2, <1>3, <1>4
  <2> QED
    BY <2>1
<1> QED
  BY <1>5

\* A set that has 0, and i + 1 with every i, has every natural number.
LEMMA NatSetInduction ==
    ASSUME NEW S \in SUBSET Nat, 0 \in S, \A x \in S : x + 1 \in S
    PROVE  \A x \in Nat : x \in S
<1> DEFINE T == Nat \ S
<1> SUFFICES ASSUME T # {} PROVE FALSE
  OBVIOUS
<1>1. T \in SUBSET Nat
  OBVIOUS
<1> HIDE DEF T
<1>2. PICK m \in T : \A x \in T : m <= x
  BY <1>1, LeastElement
<1>3. m \in Nat /\ m \notin S /\ m # 0
  BY <1>2 DEF T
<1>4. m - 1 \in Nat /\ m - 1 \notin T
  BY <1>2, <1>3
<1>5. m - 1 \in S
  BY <1>4 DEF T
<1>6. (m - 1) + 1 = m
  BY <1>3
<1> QED
  BY <1>3, <1>5, <1>6

\* A table of the powers up to i.
Table(f, i) == \A j \in 0 .. i : f[j] = IF j = 0 THEN 1 ELSE 2 * f[j - 1]

LEMMA TablesAgree ==
    ASSUME NEW f, NEW g, NEW i \in Nat, Table(f, i), NEW m \in Nat, Table(g, m), i <= m
    PROVE  f[i] = g[i]
<1> DEFINE S == {x \in Nat : x <= i => f[x] = g[x]}
<1>1. 0 \in S
  BY DEF Table
<1>2. ASSUME NEW x \in S PROVE x + 1 \in S
  <2>1. CASE x + 1 <= i
    <3>1. x + 1 \in 0 .. i /\ x + 1 \in 0 .. m /\ x + 1 # 0 /\ (x + 1) - 1 = x /\ f[x] = g[x]
      BY <2>1
    <3>2. f[x + 1] = 2 * f[x] /\ g[x + 1] = 2 * g[x]
      BY <3>1 DEF Table
    <3> QED
      BY <3>1, <3>2
  <2> QED
    BY <2>1
<1> HIDE DEF S
<1>3. S \in SUBSET Nat
  BY DEF S
<1>4. i \in S
  BY <1>1, <1>2, <1>3, NatSetInduction
<1> QED
  BY <1>4 DEF S

LEMMA TablesExist ==
    \A i \in Nat : \E f : Table(f, i)
<1> DEFINE S == {x \in Nat : \E f : Table(f, x)}
<1>1. 0 \in S
  <2>1. Table([j \in 0 .. 0 |-> 1], 0)
    BY DEF Table
  <2> QED
    BY <2>1
<1>2. ASSUME NEW x \in S PROVE x + 1 \in S
  <2>1. PICK f : Table(f, x)
    OBVIOUS
  <2> DEFINE g == [j \in 0 .. x + 1 |-> IF j = x + 1 THEN 2 * f[x] ELSE f[j]]
  <2>2. Table(g, x + 1)
    BY <2>1 DEF Table
  <2> HIDE DEF g
  <2> QED
    BY <2>2
<1> HIDE DEF S
<1>3. S \in SUBSET Nat
  BY DEF S
<1>4. \A i \in Nat : i \in S
  BY <1>1, <1>2, <1>3, NatSetInduction
<1> QED
  BY <1>4 DEF S

LEMMA Pow2Def ==
    Pow2 = [i \in Nat |-> IF i = 0 THEN 1 ELSE 2 * Pow2[i - 1]]
<1> DEFINE F(i) == CHOOSE f : Table(f, i)
           G == [i \in Nat |-> F(i)[i]]
<1>1. \A i \in Nat : Table(F(i), i)
  BY TablesExist
<1>2. ASSUME NEW i \in Nat
      PROVE  G[i] = IF i = 0 THEN 1 ELSE 2 * G[i - 1]
  <2>1. CASE i = 0
    BY <1>1, <2>1 DEF Table
  <2>2. CASE i # 0
    <3>1. i - 1 \in Nat /\ i \in 0 .. i /\ i - 1 <= i
      BY <2>2
    <3>2. F(i)[i] = 2 * F(i)[i - 1]
      BY <1>1, <2>2, <3>1 DEF Table
    <3>3. Table(F(i - 1), i - 1) /\ Table(F(i), i)
      BY <1>1, <3>1
    <3> HIDE DEF F
    <3>4. F(i - 1)[i - 1] = F(i)[i - 1]
      BY <3>1, <3>3, TablesAgree
    <3> QED
      BY <2>2, <3>1, <3>2, <3>4
  <2> QED
    BY <2>1, <2>2
<1> HIDE DEF F
<1>3. G = [i \in Nat |-> IF i = 0 THEN 1 ELSE 2 * G[i - 1]]
  BY <1>2
<1> HIDE DEF G
<1> QED
  BY <1>3 DEF Pow2

LEMMA Pow2Facts ==
    /\ Pow2[0] = 1
    /\ \A i \in Nat : Pow2[i + 1] = 2 * Pow2[i]
    /\ \A i \in Nat : Pow2[i] \in Nat \ {0}
<1>1. Pow2[0] = 1
  BY Pow2Def
<1>2. \A i \in Nat : Pow2[i + 1] = 2 * Pow2[i]
  <2> TAKE i \in Nat
  <2>1. i + 1 \in Nat /\ i + 1 # 0 /\ (i + 1) - 1 = i
    OBVIOUS
  <2> QED
    BY <2>1, Pow2Def
<1> DEFINE S == {x \in Nat : Pow2[x] \in Nat \ {0}}
<1>3. 0 \in S
  BY <1>1
<1>4. ASSUME NEW x \in S PROVE x + 1 \in S
  BY <1>2
<1> HIDE DEF S
<1>5. \A i \in Nat : i \in S
  <2>1. S \in SUBSET Nat
    BY DEF S
  <2> QED
    BY <2>1, <1>3, <1>4, NatSetInduction
<1> QED
  BY <1>1, <1>2, <1>5 DEF S
\* A number is so many times d and a rest smaller than d in one way only.
LEMMA DivUnique ==
    ASSUME NEW d \in Nat \ {0}, NEW a \in Nat, NEW q \in Nat, NEW r \in 0 .. d - 1,
           a = (d * q) + r
    PROVE  a \div d = q
<1> DEFINE p == a \div d
<1>1. p \in Int /\ a = (d * p) + (a % d) /\ a % d \in 0 .. d - 1
  OBVIOUS
<1> HIDE DEF p
<1>2. ~(p >= q + 1)
  <2> SUFFICES ASSUME p >= q + 1 PROVE FALSE
    OBVIOUS
  <2>1. d * p >= d * (q + 1)
    BY <1>1
  <2>2. d * (q + 1) = (d * q) + d
    OBVIOUS
  <2> QED
    BY <1>1, <2>1, <2>2
<1>3. ~(q >= p + 1)
  <2> SUFFICES ASSUME q >= p + 1 PROVE FALSE
    OBVIOUS
  <2>1. d * q >= d * (p + 1)
    BY <1>1
  <2>2. d * (p + 1) = (d * p) + d
    BY <1>1
  <2> QED
    BY <1>1, <2>1, <2>2
<1> QED
  BY <1>1, <1>2, <1>3 DEF p

LEMMA DivNat ==
    ASSUME NEW d \in Nat \ {0}, NEW a \in Nat
    PROVE  a \div d \in Nat /\ a % d \in 0 .. d - 1 /\ a = (d * (a \div d)) + (a % d)
<1> DEFINE p == a \div d
<1>1. p \in Int /\ a = (d * p) + (a % d) /\ a % d \in 0 .. d - 1
  OBVIOUS
<1> HIDE DEF p
<1>2. ~(p <= 0 - 1)
  <2> SUFFICES ASSUME p <= 0 - 1 PROVE FALSE
    OBVIOUS
  <2>1. d * p <= d * (0 - 1)
    BY <1>1
  <2> QED
    BY <1>1, <2>1
<1> QED
  BY <1>1, <1>2 DEF p


\* The bits of a number: a half, and what is left over.
LEMMA Half ==
    ASSUME NEW v \in Nat, NEW p \in Nat \ {0}
    PROVE  /\ v \div p \in Nat /\ v \div (2 * p) \in Nat
           /\ (v \div p) % 2 \in {0, 1}
           /\ v \div p = 2 * (v \div (2 * p)) + ((v \div p) % 2)
<1> DEFINE b == v \div (2 * p)
           r == v % (2 * p)
<1>1. 2 * p \in Nat \ {0}
  OBVIOUS
<1>2. b \in Nat /\ r \in 0 .. 2 * p - 1 /\ v = (2 * p) * b + r
  BY <1>1, DivNat
<1> HIDE DEF b, r
<1>3. \A x \in Nat : (2 * x) % 2 = 0 /\ (2 * x + 1) % 2 = 1
  OBVIOUS
<1>4. CASE r < p
  <2>1. 2 * b \in Nat /\ r \in 0 .. p - 1 /\ v = p * (2 * b) + r
    BY <1>2, <1>4
  <2>2. v \div p = 2 * b
    BY <2>1, DivUnique
  <2> DEFINE q == v \div p
  <2> HIDE DEF q
  <2>3. q = 2 * b
    BY <2>2 DEF q
  <2>4. q \in Nat /\ q % 2 = 0 /\ q = 2 * b + (q % 2)
    BY <1>2, <1>3, <2>3
  <2>5. q \in Nat /\ b \in Nat /\ q % 2 \in {0, 1} /\ q = 2 * b + (q % 2)
    BY <1>2, <2>4
  <2> QED
    BY <2>5 DEF q, b
<1>5. CASE r >= p
  <2>1. 2 * b + 1 \in Nat /\ r - p \in 0 .. p - 1 /\ v = p * (2 * b + 1) + (r - p)
    <3>1. p * (2 * b + 1) = (2 * p) * b + p
      BY <1>2
    <3> QED
      BY <1>2, <1>5, <3>1
  <2>2. v \div p = 2 * b + 1
    BY <2>1, DivUnique
  <2> DEFINE q == v \div p
  <2> HIDE DEF q
  <2>3. q = 2 * b + 1
    BY <2>2 DEF q
  <2>4. q \in Nat /\ q % 2 = 1 /\ q = 2 * b + (q % 2)
    BY <1>2, <1>3, <2>3
  <2>5. q \in Nat /\ b \in Nat /\ q % 2 \in {0, 1} /\ q = 2 * b + (q % 2)
    BY <1>2, <2>4
  <2> QED
    BY <2>5 DEF q, b
<1> QED
  BY <1>2, <1>4, <1>5

\* Powers below the width of a byte.
LEMMA Powers ==
    /\ Full \in Nat /\ Full >= 4
    /\ \A i \in 0 .. Width : Pow2[i] \in Nat \ {0} /\ Pow2[i] <= Full
    /\ \A i \in 0 .. Width - 1 : Pow2[i + 1] = 2 * Pow2[i] /\ 2 * Pow2[i] <= Full
<1> USE I2cAssumption
<1>1. \A i \in 0 .. Width : i \in Nat /\ Width - i \in Nat
  OBVIOUS
<1> DEFINE S == {d \in Nat : d <= Width => Pow2[Width - d] <= Full}
<1>2. Full \in Nat \ {0}
  BY Pow2Facts DEF Full
<1>3. 0 \in S
  BY <1>2 DEF Full
<1>4. ASSUME NEW d \in S PROVE d + 1 \in S
  <2>1. CASE d + 1 <= Width
    <3>1. Width - (d + 1) \in Nat /\ (Width - (d + 1)) + 1 = Width - d /\ Width - d \in Nat
      BY <2>1
    <3>2. Pow2[Width - d] = 2 * Pow2[Width - (d + 1)] /\ Pow2[Width - (d + 1)] \in Nat
      BY <3>1, Pow2Facts
    <3> QED
      BY <1>2, <2>1, <3>1, <3>2
  <2> QED
    BY <2>1
<1>5. \A d \in Nat : d \in S
  <2> HIDE DEF S
  <2>1. S \in SUBSET Nat
    BY DEF S
  <2> QED
    BY <1>3, <1>4, <2>1, NatSetInduction
<1>6. ASSUME NEW i \in 0 .. Width PROVE Pow2[i] \in Nat \ {0} /\ Pow2[i] <= Full
  <2>1. Width - i \in Nat /\ Width - (Width - i) = i /\ i \in Nat
    OBVIOUS
  <2>2. Width - i <= Width => Pow2[Width - (Width - i)] <= Full
    BY <1>5, <2>1
  <2>3. Pow2[i] <= Full
    BY <2>1, <2>2
  <2> QED
    BY <2>1, <2>3, Pow2Facts
<1>7. ASSUME NEW i \in 0 .. Width - 1
      PROVE  Pow2[i + 1] = 2 * Pow2[i] /\ 2 * Pow2[i] <= Full
  <2>1. i \in Nat /\ i + 1 \in 0 .. Width
    OBVIOUS
  <2> QED
    BY <2>1, <1>6, Pow2Facts
<1>8. Full >= 4
  <2>1. 0 \in Nat /\ 1 \in Nat /\ 0 + 1 = 1 /\ 1 + 1 = 2 /\ 2 \in 0 .. Width
    OBVIOUS
  <2>2. Pow2[0 + 1] = 2 * Pow2[0] /\ Pow2[1 + 1] = 2 * Pow2[1] /\ Pow2[0] = 1
    BY <2>1, Pow2Facts
  <2>3. Pow2[2] = 4
    BY <2>1, <2>2
  <2> QED
    BY <1>6, <2>1, <2>3
<1> QED
  BY <1>2, <1>6, <1>7, <1>8

\* A byte of which i bits have been sent: nothing before the first, all after the last,
\* and one more each time.
Sent(v, i) == v \div Pow2[Width - i]

LEMMA SentBits ==
    ASSUME NEW v \in Bytes
    PROVE  /\ Sent(v, 0) = 0 /\ Sent(v, Width) = v
           /\ \A i \in 0 .. Width : Sent(v, i) \in Bytes
           /\ \A i \in 0 .. Width - 1 : /\ Bit(v, i + 1) \in {0, 1}
                                        /\ Sent(v, i + 1) = 2 * Sent(v, i) + Bit(v, i + 1)
<1> USE I2cAssumption
<1>1. v \in Nat /\ v < Full /\ Full \in Nat
  BY Powers DEF Bytes
<1>2. Sent(v, 0) = 0
  <2>1. v = Full * 0 + v /\ v \in 0 .. Full - 1 /\ Full \in Nat \ {0} /\ 0 \in Nat /\ Width - 0 = Width
    BY <1>1, Powers
  <2>2. v \div Full = 0
    BY <2>1, DivUnique
  <2> QED
    BY <2>1, <2>2 DEF Sent, Full
<1>3. Sent(v, Width) = v
  <2>1. Width - Width = 0 /\ Pow2[0] = 1
    BY Pow2Facts
  <2>2. v \div 1 = v
    BY <1>1
  <2> QED
    BY <2>1, <2>2 DEF Sent
<1>4. ASSUME NEW i \in 0 .. Width PROVE Sent(v, i) \in Bytes
  <2>1. Width - i \in 0 .. Width
    OBVIOUS
  <2> DEFINE p == Pow2[Width - i]
             q == v \div p
             r == v % p
  <2>2. p \in Nat \ {0}
    BY <2>1, Powers
  <2> HIDE DEF p
  <2>3. q \in Nat /\ r \in 0 .. p - 1 /\ v = p * q + r
    BY <1>1, <2>2, DivNat
  <2> HIDE DEF q, r
  <2>4. p * q >= q
    <3>1. (p - 1) * q >= 0 /\ p * q = (p - 1) * q + q
      BY <2>2, <2>3
    <3> QED
      BY <2>2, <2>3, <3>1
  <2>5. q <= v
    BY <1>1, <2>2, <2>3, <2>4
  <2>6. q \in 0 .. Full - 1
    BY <1>1, <2>3, <2>5
  <2> QED
    BY <2>6 DEF Sent, Bytes, p, q
<1>5. ASSUME NEW i \in 0 .. Width - 1
      PROVE  /\ Bit(v, i + 1) \in {0, 1}
             /\ Sent(v, i + 1) = 2 * Sent(v, i) + Bit(v, i + 1)
  <2> DEFINE j == Width - (i + 1)
  <2>1. j \in 0 .. Width - 1 /\ j \in 0 .. Width /\ j + 1 = Width - i
    OBVIOUS
  <2>2. Pow2[j] \in Nat \ {0} /\ Pow2[Width - i] = 2 * Pow2[j]
    BY <2>1, Powers
  <2> HIDE DEF j
  <2> DEFINE p == Pow2[j]
  <2> HIDE DEF p
  <2>3. p \in Nat \ {0} /\ Pow2[Width - i] = 2 * p
    BY <2>2 DEF p
  <2>4. (v \div p) % 2 \in {0, 1} /\ v \div p = 2 * (v \div (2 * p)) + ((v \div p) % 2)
    BY <1>1, <2>3, Half
  <2> DEFINE q == v \div p
             h == v \div (2 * p)
  <2> HIDE DEF q, h
  <2>5. Sent(v, i + 1) = q
    BY DEF Sent, p, j, q
  <2>6. Bit(v, i + 1) = q % 2
    BY DEF Bit, p, j, q
  <2>7. Sent(v, i) = h
    BY <2>3 DEF Sent, h
  <2>8. q % 2 \in {0, 1} /\ q = 2 * h + (q % 2)
    BY <2>4 DEF q, h
  <2> QED
    BY <2>5, <2>6, <2>7, <2>8
<1> QED
  BY <1>2, <1>3, <1>4, <1>5

-----------------------------------------------------------------------------
(* The inductive invariant *)

Free     == {"freeScl", "freeSda"}
Answers  == {"sourceAck", "byteAck", "lastAck"}
Places   == {"idle", "restarts", "byte"} \cup Starts \cup Stops \cup Acks \cup Sends \cup Answers \cup Free
Receives == {"addr", "reg", "data"}

Length ==
    CASE pc \in Starts                         -> 3
      [] pc \in Stops                          -> 4
      [] pc \in Acks \cup Answers \cup Sends   -> 5
      [] pc = "byte"                           -> 6
      [] pc \in Free                           -> 2
      [] OTHER                                 -> 0

\* Where the driver is.
PlaceInv ==
    /\ pc \in Places /\ k \in 0 .. Length
    /\ bit \in 0 .. Width - 1
    /\ bit # 0 => pc \in Sends \cup {"byte"}
    /\ pc \in Sends \cup {"byte"} => /\ k < Length - 4 => bit = 0
                                     /\ k = Length => bit = Width - 1

\* SCL at each pin operation.
SclAt ==
    CASE pc \in {"idle", "restarts", "start"} -> 1
      [] pc = "restart"                       -> IF k = 0 THEN 0 ELSE 1
      [] pc \in {"device", "source"}          -> IF k \in {0, 4} THEN 1 ELSE 0
      [] pc \in {"register", "data"}          -> IF k = 4 THEN 1 ELSE 0
      [] pc \in Acks                          -> IF k \in {3, 4} THEN 1 ELSE 0
      [] pc \in Answers                       -> IF k = 3 THEN 1 ELSE 0
      [] pc = "byte"                          -> IF k \in {4, 5} THEN 1 ELSE 0
      [] pc \in Stops                         -> IF k >= 3 THEN 1 ELSE 0
      [] pc = "freeScl"                       -> IF k = 0 THEN scl ELSE 1
      [] OTHER                                -> IF k = 2 THEN 1 ELSE scl

\* What the master puts on SDA, where it matters.
WireInv ==
    /\ scl \in {0, 1} /\ msda \in {0, 1} /\ scl = SclAt
    /\ pc \in {"idle", "restarts"} => msda = 1
    /\ pc \in Starts => msda = IF k = 3 THEN 0 ELSE 1
    /\ pc \in Sends /\ k \in {3, 4} => msda = Bit(Byte, bit + 1)
    /\ pc \in Acks /\ k >= 2 => msda = 1
    /\ pc \in Answers /\ k \in {2, 3} => msda = IF pc = "lastAck" THEN 1 ELSE 0
    /\ pc \in Answers /\ k = 5 => msda = 1
    /\ pc = "byte" => msda = 1
    /\ pc \in Stops => (k \in {2, 3} => msda = 0) /\ (k = 4 => msda = 1)
    /\ pc = "freeScl" /\ k = 2 => msda = 1
    /\ pc = "freeSda" /\ k >= 1 => msda = 1

\* What holds of the device at any time, also when it is out of step: when it holds SDA.
DeviceInv ==
    /\ mode \in Receives \cup {"idle", "send"} /\ n \in 0 .. Width + 1 /\ shift \in Nat
    /\ ssda \in {0, 1} /\ ptr \in Bytes /\ more \in BOOLEAN /\ regs \in [Regs -> Bytes]
    /\ n = Width + 1 => scl = 1
    /\ mode = "idle" => ssda = 1 /\ n = 0
    /\ mode \in Receives => (ssda = 0 <=> n = Width + 1 \/ (n = Width /\ scl = 0))
    /\ mode = "send" /\ n = Width /\ scl = 0 => ssda = 1

\* A device that receives is in step with the driver, whatever it takes the bytes for.
StepInv ==
    mode \in Receives =>
        /\ pc = "start" /\ k = 3 => n = Width + 1 \/ (n = 0 /\ shift = 0)
        /\ pc = "restart" => /\ n = IF k \in {1, 2} THEN 1 ELSE 0
                             /\ k = 3 => shift = 0 /\ mode = "addr"
        /\ pc \in Sends /\ k = 0 => n = Width + 1 \/ (n = 0 /\ shift = 0)
        /\ pc \in Sends /\ k > 0 =>
              /\ n = IF k >= 4 THEN bit + 1 ELSE bit
              /\ shift = Sent(Byte, n)
        /\ pc \in Acks => /\ n = (IF k \in {0, 1, 2} THEN Width
                                  ELSE IF k = 5 THEN 0 ELSE Width + 1)
                          /\ k = 5 => shift = 0
        /\ pc \in {"source", "sourceAck"} => mode = "addr"
        /\ pc = "source" /\ k = 0 => n = 0
        /\ pc = "sourceAck" => k <= 3 /\ shift = 2 * Device + 1 /\ n = IF k = 3 THEN Width + 1 ELSE Width
        /\ pc \in Stops => pc # "readStop" /\ k < 4 /\ n = IF k = 3 THEN 1 ELSE 0
        /\ pc \notin {"byte", "byteAck", "lastAck"}

\* A device that sends is told once in Width + 1 clocks with SDA released that it is
\* enough.
EnoughInv ==
    /\ pc = "byte" /\ mode = "send" => /\ n >= IF k >= 4 THEN bit + 1 ELSE bit
                                       /\ n = Width + 1 => ~more
    /\ pc = "lastAck" /\ mode = "send" => /\ n >= Width /\ k <= 3
                                          /\ n = Width + 1 => ~more
                                          /\ k = 3 => n = Width + 1
    /\ pc = "readStop" => mode = "idle"

Writing == {"data", "dataAck", "pageStop", "writeStop"}
Reading == {"restart", "source", "sourceAck", "byte", "byteAck", "lastAck", "readStop"}
Turned  == {"byte", "byteAck", "lastAck", "readStop"}

\* The driver's variables.
DriverInv ==
    /\ IF pc \in Free \cup {"idle"} THEN call = NoCall ELSE call \in Calls
    /\ pc \in Writing => call.op = "write"
    /\ pc \in Reading => call.op = "read"
    /\ idx \in Nat /\ addr \in Bytes /\ inpage \in 0 .. PageSize /\ sample \in Bytes
    /\ pc \in Free \cup {"idle"} => idx = 0
    /\ pc \in {"start", "device", "deviceAck", "register", "registerAck", "pageStop", "restart",
               "source", "sourceAck"} =>
          /\ addr = call.reg + idx /\ inpage = 0 /\ idx < call.count
          /\ call.op = "read" => idx = 0
          /\ buf = <<>>
    /\ pc \in {"data", "dataAck"} =>
          addr + inpage = call.reg + idx + 1 /\ inpage > 0 /\ idx < call.count
    /\ pc \in Writing => buf = <<>>
    /\ pc = "writeStop" => idx = call.count
    /\ pc \in Turned => buf \in [1 .. idx -> Bytes]
    /\ pc \in {"byte"} => idx < call.count
    /\ pc = "byteAck" => idx < call.count
    /\ pc \in {"lastAck", "readStop"} => idx = call.count

\* Once the START of a call has been heard, device and driver mean the same by a byte.
\* First what the device takes it for.
ModeInv ==
    ~torn =>
        /\ pc \in Free \cup {"idle", "restarts"} => ssda = 1
        /\ pc \in Starts => ssda = 1
        /\ pc = "start" /\ k = 3 => mode = "addr"
        /\ pc \in {"device", "source"} => mode \in {"addr", "idle"} /\ (k < 5 => ssda = 1)
        /\ pc = "deviceAck" => mode \in IF k < 5 THEN {"addr", "idle"} ELSE {"reg", "idle"}
        /\ pc = "deviceAck" /\ mode = "addr" => shift = 2 * Device
        /\ pc = "register" => mode \in {"reg", "idle"}
        /\ pc = "registerAck" => mode \in IF k < 5 THEN {"reg", "idle"} ELSE {"data", "idle"}
        /\ pc \in {"data", "dataAck"} => mode \in {"data", "idle"}
        /\ pc = "restart" => mode = IF k < 3 THEN "data" ELSE "addr"
        /\ pc \in Acks => /\ k < 4 => (mode = "idle" <=> ssda = 1)
                          /\ k >= 4 => (mode = "idle" <=> sample = 1)
        /\ pc \in Acks /\ k = 5 => ssda = 1
        /\ pc \in Stops => ssda = 1 /\ mode \in {"data", "idle"}
        /\ pc = "sourceAck" => mode \in IF k < 4 THEN {"addr", "idle"} ELSE {"send", "idle"}

\* The register pointer, and what a write has put into the registers.
RegsInv ==
    ~torn =>
        /\ pc = "registerAck" /\ mode # "idle" => ptr = addr
        /\ pc = "register" /\ k = 5 /\ mode # "idle" => ptr = addr
        /\ pc \in {"restart", "source", "sourceAck"} => ptr = addr
        /\ mode = "data" /\ pc = "data" => ptr = (call.reg + idx + (IF k = 5 THEN 1 ELSE 0)) % Full
        /\ mode = "data" /\ pc = "dataAck" => ptr = (call.reg + idx + 1) % Full
        /\ call \in Calls /\ call.op = "write" =>
              \A i \in 1 .. idx : regs[call.reg + i - 1] = call.data[i]
        /\ mode = "data" /\ (pc = "dataAck" \/ (pc = "data" /\ k = 5)) =>
              regs[call.reg + idx] = call.data[idx + 1]

\* The bytes of a read.
Slice(b) == \A i \in 1 .. idx : b[i] = regs[call.reg + i - 1]

Floats(b) == \A i \in 1 .. idx : b[i] = Full - 1

\* In the middle of a byte: the bits that have come.
Come == IF k >= 5 THEN bit + 1 ELSE bit

ReadsRegister ==
    /\ Slice(buf) /\ ptr = call.reg + idx
    /\ n = IF k >= 4 THEN bit + 1 ELSE bit
    /\ k < 6 => ssda = Bit(regs[ptr], bit + 1)
    /\ sample = Sent(regs[ptr], Come)

ReadsNothing == Floats(buf) /\ sample = Pow2[Come] - 1

BytesInv ==
    ~torn =>
        /\ pc \in Turned => /\ mode \in {"send", "idle"}
                            /\ Slice(buf) \/ Floats(buf)
        /\ pc = "sourceAck" /\ mode = "send" => n = 0 /\ ssda = Bit(regs[ptr], 1)
        /\ pc = "byte" => /\ mode = "send" => ReadsRegister
                          /\ mode = "idle" => ReadsNothing
        /\ pc = "byteAck" =>
              /\ mode = "send" =>
                    /\ Slice(buf)
                    /\ ptr = call.reg + idx - (IF k < 4 THEN 1 ELSE 0)
                    /\ n = IF k < 3 THEN Width ELSE IF k = 3 THEN Width + 1 ELSE 0
                    /\ k = 3 => more
                    /\ k >= 4 => ssda = Bit(regs[ptr], 1)
              /\ mode = "idle" => Floats(buf)

IInv ==
    /\ PlaceInv /\ WireInv /\ DeviceInv /\ StepInv /\ EnoughInv /\ DriverInv
    /\ ModeInv /\ RegsInv /\ BytesInv

-----------------------------------------------------------------------------
(* Every place, and every pin operation *)

LEMMA ByteType ==
    ASSUME DriverInv, pc \in Sends
    PROVE  Byte \in Bytes
<1> USE I2cAssumption
<1>1. CASE pc \in {"device", "source"}
  <2>1. Full = 2 * (Full \div 2)
    <3>1. Width - 1 \in Nat /\ (Width - 1) + 1 = Width
      OBVIOUS
    <3>2. Full = 2 * Pow2[Width - 1] /\ Pow2[Width - 1] \in Nat
      BY <3>1, Pow2Facts DEF Full
    <3> QED
      BY <3>2
  <2>2. 2 * Device \in Bytes /\ 2 * Device + 1 \in Bytes
    BY <2>1, Powers DEF Bytes
  <2> QED
    BY <1>1, <2>2 DEF Byte
<1>2. CASE pc = "register"
  BY <1>2 DEF Byte, DriverInv
<1>3. CASE pc = "data"
  <2>1. call \in Calls /\ call.op = "write" /\ idx \in Nat /\ idx < call.count
    BY <1>3 DEF DriverInv, Writing, Free
  <2>2. call.data \in [1 .. call.count -> Bytes] /\ idx + 1 \in 1 .. call.count
    BY <2>1
  <2> QED
    BY <1>3, <2>2 DEF Byte
<1> QED
  BY <1>1, <1>2, <1>3 DEF Sends

\* The operation done at each place.
LEMMA Operation ==
    ASSUME PlaceInv
    PROVE  /\ Len(Ops) = Length
           /\ pc \in Starts => Ops = <<"C1", "D1", "D0">>
           /\ pc \in Stops => Ops = <<"C0", "D0", "C1", "D1">>
           /\ pc \in Acks => Ops = <<"C0", "D1", "C1", "A", "C0">>
           /\ pc \in Sends => Ops = <<"C0", "C0", IF Bit(Byte, bit + 1) = 1 THEN "D1" ELSE "D0",
                                      "C1", "C0">>
           /\ pc = "byte" => Ops = <<"C0", "D1", "C0", "C1", "B", "C0">>
           /\ pc \in Answers => Ops = <<"C0", IF pc = "lastAck" THEN "D1" ELSE "D0", "C1", "C0", "D1">>
           /\ pc = "freeScl" => Ops = <<"C1", "D1">>
           /\ pc = "freeSda" => Ops = <<"D1", "C1">>
<1> USE DEF Places, Starts, Stops, Acks, Sends, Answers, Free, Length
<1>1. CASE pc \in Starts
  BY <1>1 DEF Ops, I2C_start
<1>2. CASE pc \in Stops
  BY <1>2 DEF Ops, I2C_stop
<1>3. CASE pc \in Acks
  BY <1>3 DEF Ops, I2C_read_ack
<1>4. CASE pc \in Sends
  BY <1>4 DEF Ops, send_one_byte
<1>5. CASE pc = "byte"
  BY <1>5 DEF Ops, read_one_byte
<1>6. CASE pc \in Answers
  BY <1>6 DEF Ops, I2C_send_ack
<1>7. CASE pc \in Free \cup {"idle", "restarts"}
  BY <1>7 DEF Ops
<1> QED
  BY <1>1, <1>2, <1>3, <1>4, <1>5, <1>6, <1>7 DEF PlaceInv

LEMMA PlaceStep ==
    ASSUME PlaceInv, PinStep
    PROVE  PlaceInv' /\ k < Length /\ pc' = pc
<1> USE I2cAssumption
<1>1. Len(Ops) = Length /\ k \in Nat /\ bit \in Nat
  BY Operation DEF PlaceInv
<1>2. Length' = Length /\ pc' = pc
  BY DEF PinStep, Length
<1>3. k < Length
  BY <1>1 DEF PinStep
<1>4. Length \in Nat /\ (pc \in Sends \cup {"byte"} => Length \in {5, 6})
  BY DEF Length, PlaceInv, Places, Starts, Stops, Acks, Sends, Answers, Free
<1>5. CASE Again
  <2>1. k' = Length - 4 /\ bit' = bit + 1 /\ pc \in Sends \cup {"byte"} /\ bit + 1 < Width
    BY <1>1, <1>5 DEF PinStep, Again
  <2> QED
    BY <1>1, <1>2, <1>3, <1>4, <2>1 DEF PlaceInv
<1>6. CASE ~Again
  <2>1. k' = k + 1 /\ bit' = bit
    BY <1>1, <1>6 DEF PinStep
  <2>2. pc \in Sends \cup {"byte"} /\ k + 1 = Length => bit = Width - 1
    BY <1>1, <1>6 DEF Again, PlaceInv
  <2> QED
    BY <1>1, <1>2, <1>3, <1>4, <2>1, <2>2 DEF PlaceInv
<1> QED
  BY <1>2, <1>3, <1>5, <1>6

\* What an operation does to the wires.
LEMMA Wires ==
    ASSUME NEW op, Pin(op)
    PROVE  /\ op = "C0" => scl' = 0 /\ msda' = msda
           /\ op = "C1" => scl' = 1 /\ msda' = msda
           /\ op = "D0" => scl' = scl /\ msda' = 0
           /\ op = "D1" => scl' = scl /\ msda' = 1
           /\ op \in {"A", "B"} => scl' = scl /\ msda' = msda
  BY DEF Pin, wires

LEMMA WireStep ==
    ASSUME PlaceInv, WireInv, DriverInv, PinStep
    PROVE  WireInv'
<1> USE DEF Places, Starts, Stops, Acks, Sends, Answers, Free
<1>1. /\ k < Length /\ pc' = pc /\ Len(Ops) = Length /\ Pin(Ops[k + 1])
      /\ Again => k' = Length - 4 /\ bit' = bit + 1
      /\ ~Again => k' = k + 1 /\ bit' = bit
  BY PlaceStep, Operation DEF PinStep
<1>2. Again => pc \in Sends \cup {"byte"} /\ k = Length - 1
  BY <1>1 DEF Again, PlaceInv
<1>3. CASE pc \in Starts
  <2>1. k \in {0, 1, 2} /\ k' = k + 1 /\ Ops[k + 1] = (IF k = 0 THEN "C1" ELSE IF k = 1 THEN "D1" ELSE "D0")
    BY <1>1, <1>2, <1>3, Operation DEF PlaceInv, Length
  <2> QED
    BY <1>1, <1>3, <2>1, Wires DEF WireInv, SclAt
<1>4. CASE pc \in Stops
  <2>1. k \in {0, 1, 2, 3} /\ k' = k + 1
        /\ Ops[k + 1] = (IF k = 0 THEN "C0" ELSE IF k = 1 THEN "D0" ELSE IF k = 2 THEN "C1" ELSE "D1")
    BY <1>1, <1>2, <1>4, Operation DEF PlaceInv, Length
  <2> QED
    BY <1>1, <1>4, <2>1, Wires DEF WireInv, SclAt
<1>5. CASE pc \in Acks
  <2>1. k \in {0, 1, 2, 3, 4} /\ k' = k + 1
        /\ Ops[k + 1] = (IF k \in {0, 4} THEN "C0" ELSE IF k = 1 THEN "D1" ELSE IF k = 2 THEN "C1" ELSE "A")
    BY <1>1, <1>2, <1>5, Operation DEF PlaceInv, Length
  <2> QED
    BY <1>1, <1>5, <2>1, Wires DEF WireInv, SclAt
<1>6. CASE pc \in Answers
  <2>1. k \in {0, 1, 2, 3, 4} /\ k' = k + 1
        /\ Ops[k + 1] = (IF k \in {0, 3} THEN "C0" ELSE IF k = 2 THEN "C1" ELSE IF (k = 4 \/ pc = "lastAck") THEN "D1"
                         ELSE "D0")
    BY <1>1, <1>2, <1>6, Operation DEF PlaceInv, Length
  <2> QED
    BY <1>1, <1>6, <2>1, Wires DEF WireInv, SclAt
<1>7. CASE pc \in Sends
  <2>1. /\ k \in {0, 1, 2, 3, 4}
        /\ Ops[k + 1] = (IF k \in {0, 1, 4} THEN "C0" ELSE IF k = 3 THEN "C1"
                         ELSE IF Bit(Byte, bit + 1) = 1 THEN "D1" ELSE "D0")
    BY <1>1, <1>7, Operation DEF PlaceInv, Length
  <2>2. Bit(Byte, bit + 1) \in {0, 1}
    BY <1>7, ByteType, SentBits DEF PlaceInv
  <2>3. Byte' = Byte
    BY <1>1 DEF PinStep, Byte
  <2>4. k < 4 => k' = k + 1 /\ bit' = bit
    BY <1>1, <1>2, <1>7, <2>1 DEF Length
  <2>5. k = 4 => k' \in {1, 5}
    BY <1>1, <1>2, <1>7, <2>1 DEF Length
  <2>6. k < 4 => Bit(Byte, bit + 1)' = Bit(Byte, bit + 1)
    BY <2>3, <2>4 DEF Bit
  <2> QED
    BY <1>1, <1>7, <2>1, <2>2, <2>4, <2>5, <2>6, Wires DEF WireInv, SclAt
<1>8. CASE pc = "byte"
  <2>1. /\ k \in {0, 1, 2, 3, 4, 5}
        /\ Ops[k + 1] = (IF k \in {0, 2, 5} THEN "C0" ELSE IF k = 1 THEN "D1" ELSE IF k = 3 THEN "C1" ELSE "B")
    BY <1>1, <1>8, Operation DEF PlaceInv, Length
  <2>2. (k < 5 => k' = k + 1) /\ (k = 5 => k' \in {2, 6})
    BY <1>1, <1>2, <1>8, <2>1 DEF Length
  <2> QED
    BY <1>1, <1>8, <2>1, <2>2, Wires DEF WireInv, SclAt
<1>9. CASE pc \in Free
  <2>1. k \in {0, 1} /\ k' = k + 1
        /\ Ops[k + 1] = (IF pc = "freeScl" THEN IF k = 0 THEN "C1" ELSE "D1" ELSE IF k = 0 THEN "D1" ELSE "C1")
    BY <1>1, <1>2, <1>9, Operation DEF PlaceInv, Length
  <2> QED
    BY <1>1, <1>9, <2>1, Wires DEF WireInv, SclAt
<1>10. CASE pc \in {"idle", "restarts"}
  BY <1>1, <1>10 DEF Length, PlaceInv
<1> QED
  BY <1>3, <1>4, <1>5, <1>6, <1>7, <1>8, <1>9, <1>10 DEF PlaceInv

-----------------------------------------------------------------------------
(* What a pin operation is to the device *)

Still  == scl' = scl /\ Quiet
Raised == scl = 0 /\ scl' = 1 /\ Rise /\ UNCHANGED torn
Fallen == scl = 1 /\ scl' = 0 /\ Fall /\ UNCHANGED torn

NextBit ==
    \/ bit + 1 < Width /\ k' = Length - 4 /\ bit' = bit + 1
    \/ bit + 1 = Width /\ k' = Length /\ bit' = bit

Op == Ops[k + 1]

LEMMA PinAt ==
    ASSUME PlaceInv, PinStep
    PROVE  /\ pc' = pc /\ k \in Nat /\ bit \in 0 .. Width - 1 /\ Pin(Op)
           /\ UNCHANGED <<call, timeout, idx, addr, inpage, buf, ret, resets>>
           /\ pc \notin {"idle", "restarts"}
           /\ pc \notin Sends \cup {"byte"} => k' = k + 1 /\ bit' = bit
           /\ pc \in Sends => \/ k < 4 /\ k' = k + 1 /\ bit' = bit
                              \/ k = 4 /\ NextBit
           /\ pc = "byte" => \/ k < 5 /\ k' = k + 1 /\ bit' = bit
                             \/ k = 5 /\ NextBit
<1>1. /\ k < Length /\ pc' = pc /\ Len(Ops) = Length /\ Pin(Op)
      /\ Again => k' = Length - 4 /\ bit' = bit + 1
      /\ ~Again => k' = k + 1 /\ bit' = bit
      /\ k \in Nat /\ bit \in 0 .. Width - 1
  BY PlaceStep, Operation DEF PinStep, PlaceInv, Op
<1>2. UNCHANGED <<call, timeout, idx, addr, inpage, buf, ret, resets>>
  BY DEF PinStep
<1>3. Again <=> pc \in Sends \cup {"byte"} /\ k = Length - 1 /\ bit + 1 < Width
  BY <1>1 DEF Again, PlaceInv, Length
<1>4. pc \notin {"idle", "restarts"}
  BY <1>1 DEF Length, Starts, Stops, Acks, Answers, Sends, Free
<1>5. ASSUME pc \in Sends
      PROVE  (k < 4 /\ k' = k + 1 /\ bit' = bit) \/ (k = 4 /\ NextBit)
  <2>1. Length = 5
    BY <1>5 DEF Length, Starts, Stops, Acks, Answers, Sends, Free
  <2> QED
    BY <1>1, <1>3, <1>5, <2>1, I2cAssumption DEF NextBit
<1>6. ASSUME pc = "byte"
      PROVE  (k < 5 /\ k' = k + 1 /\ bit' = bit) \/ (k = 5 /\ NextBit)
  <2>1. Length = 6
    BY <1>6 DEF Length, Starts, Stops, Acks, Answers, Sends, Free
  <2> QED
    BY <1>1, <1>3, <1>6, <2>1, I2cAssumption DEF NextBit
<1> QED
  BY <1>1, <1>2, <1>3, <1>4, <1>5, <1>6

LEMMA OpAt ==
    ASSUME PlaceInv, k < Length
    PROVE  /\ pc \in Starts => /\ k \in {0, 1, 2}
                               /\ k = 0 => Op = "C1"
                               /\ k = 1 => Op = "D1"
                               /\ k = 2 => Op = "D0"
           /\ pc \in Stops => /\ k \in {0, 1, 2, 3}
                              /\ k = 0 => Op = "C0"
                              /\ k = 1 => Op = "D0"
                              /\ k = 2 => Op = "C1"
                              /\ k = 3 => Op = "D1"
           /\ pc \in Acks => /\ k \in {0, 1, 2, 3, 4}
                             /\ k \in {0, 4} => Op = "C0"
                             /\ k = 1 => Op = "D1"
                             /\ k = 2 => Op = "C1"
                             /\ k = 3 => Op = "A"
           /\ pc \in Answers => /\ k \in {0, 1, 2, 3, 4}
                                /\ k \in {0, 3} => Op = "C0"
                                /\ k = 1 => Op \in {"D0", "D1"}
                                /\ k = 2 => Op = "C1"
                                /\ k = 4 => Op = "D1"
           /\ pc \in Sends => /\ k \in {0, 1, 2, 3, 4} /\ (k = 0 => bit = 0)
                              /\ k \in {0, 1, 4} => Op = "C0"
                              /\ k = 2 => Op \in {"D0", "D1"}
                              /\ k = 3 => Op = "C1"
           /\ pc = "byte" => /\ k \in {0, 1, 2, 3, 4, 5} /\ (k \in {0, 1} => bit = 0)
                             /\ k \in {0, 2, 5} => Op = "C0"
                             /\ k = 1 => Op = "D1"
                             /\ k = 3 => Op = "C1"
                             /\ k = 4 => Op = "B"
           /\ pc = "freeScl" => /\ k \in {0, 1}
                                /\ k = 0 => Op = "C1"
                                /\ k = 1 => Op = "D1"
           /\ pc = "freeSda" => /\ k \in {0, 1}
                                /\ k = 0 => Op = "D1"
                                /\ k = 1 => Op = "C1"
<1> USE DEF Op, Starts, Stops, Acks, Sends, Answers, Free, PlaceInv
<1>1. ASSUME pc \in Starts
      PROVE  /\ k \in {0, 1, 2}
             /\ k = 0 => Op = "C1"
             /\ k = 1 => Op = "D1"
             /\ k = 2 => Op = "D0"
  <2>1. k \in {0, 1, 2}
    BY <1>1 DEF Length
  <2> QED
    BY <1>1, <2>1, Operation
<1>2. ASSUME pc \in Stops
      PROVE  /\ k \in {0, 1, 2, 3}
             /\ k = 0 => Op = "C0"
             /\ k = 1 => Op = "D0"
             /\ k = 2 => Op = "C1"
             /\ k = 3 => Op = "D1"
  <2>1. k \in {0, 1, 2, 3}
    BY <1>2 DEF Length
  <2> QED
    BY <1>2, <2>1, Operation
<1>3. ASSUME pc \in Acks
      PROVE  /\ k \in {0, 1, 2, 3, 4}
             /\ k \in {0, 4} => Op = "C0"
             /\ k = 1 => Op = "D1"
             /\ k = 2 => Op = "C1"
             /\ k = 3 => Op = "A"
  <2>1. k \in {0, 1, 2, 3, 4}
    BY <1>3 DEF Length
  <2> QED
    BY <1>3, <2>1, Operation
<1>4. ASSUME pc \in Answers
      PROVE  /\ k \in {0, 1, 2, 3, 4}
             /\ k \in {0, 3} => Op = "C0"
             /\ k = 1 => Op \in {"D0", "D1"}
             /\ k = 2 => Op = "C1"
             /\ k = 4 => Op = "D1"
  <2>1. k \in {0, 1, 2, 3, 4}
    BY <1>4 DEF Length
  <2> QED
    BY <1>4, <2>1, Operation
<1>5. ASSUME pc \in Sends
      PROVE  /\ k \in {0, 1, 2, 3, 4} /\ (k = 0 => bit = 0)
             /\ k \in {0, 1, 4} => Op = "C0"
             /\ k = 2 => Op \in {"D0", "D1"}
             /\ k = 3 => Op = "C1"
  <2>1. k \in {0, 1, 2, 3, 4} /\ (k = 0 => bit = 0)
    BY <1>5 DEF Length
  <2> QED
    BY <1>5, <2>1, Operation
<1>6. ASSUME pc = "byte"
      PROVE  /\ k \in {0, 1, 2, 3, 4, 5} /\ (k \in {0, 1} => bit = 0)
             /\ k \in {0, 2, 5} => Op = "C0"
             /\ k = 1 => Op = "D1"
             /\ k = 3 => Op = "C1"
             /\ k = 4 => Op = "B"
  <2>1. k \in {0, 1, 2, 3, 4, 5} /\ (k \in {0, 1} => bit = 0)
    BY <1>6 DEF Length
  <2> QED
    BY <1>6, <2>1, Operation
<1>7. ASSUME pc = "freeScl"
      PROVE  /\ k \in {0, 1}
             /\ k = 0 => Op = "C1"
             /\ k = 1 => Op = "D1"
  <2>1. k \in {0, 1}
    BY <1>7 DEF Length
  <2> QED
    BY <1>7, <2>1, Operation
<1>8. ASSUME pc = "freeSda"
      PROVE  /\ k \in {0, 1}
             /\ k = 0 => Op = "D1"
             /\ k = 1 => Op = "C1"
  <2>1. k \in {0, 1}
    BY <1>8 DEF Length
  <2> QED
    BY <1>8, <2>1, Operation
<1> QED
  BY <1>1, <1>2, <1>3, <1>4, <1>5, <1>6, <1>7, <1>8

LEMMA Moves ==
    ASSUME PlaceInv, WireInv, DeviceInv, PinStep
    PROVE  /\ pc \in Starts => sample' = sample /\
                \/ k = 0 /\ pc = "start" /\ Still
                \/ k = 0 /\ pc = "restart" /\ Raised
                \/ k = 1 /\ Still
                \/ k = 2 /\ scl = 1 /\ scl' = scl /\ (IF ssda = 1 THEN StartCondition ELSE Quiet)
           /\ pc \in Stops => sample' = sample /\
                \/ k \in {0, 1} /\ Still
                \/ k = 2 /\ Raised
                \/ k = 3 /\ scl = 1 /\ scl' = scl /\ (IF ssda = 1 THEN StopCondition ELSE Quiet)
           /\ pc \in Acks =>
                \/ k \in {0, 1} /\ Still /\ sample' = sample
                \/ k = 2 /\ Raised /\ sample' = sample
                \/ k = 3 /\ Still /\ sample' = ssda
                \/ k = 4 /\ Fallen /\ sample' = sample
           /\ pc \in Answers => sample' = sample /\
                \/ k \in {0, 1, 4} /\ Still
                \/ k = 2 /\ Raised
                \/ k = 3 /\ Fallen
           /\ pc \in Sends => sample' = sample /\
                \/ k = 0 /\ bit = 0 /\ (IF pc \in {"device", "source"} THEN Fallen ELSE Still)
                \/ k \in {1, 2} /\ Still
                \/ k = 3 /\ Raised
                \/ k = 4 /\ Fallen
           /\ pc = "byte" =>
                \/ k \in {0, 1, 2} /\ Still /\ sample' = sample
                \/ k = 3 /\ Raised /\ sample' = sample
                \/ k = 4 /\ Still /\ sample' = Shifted(sample, ssda)
                \/ k = 5 /\ Fallen /\ sample' = sample
           /\ pc \in Free => sample' = sample /\
                (Still \/ Raised \/ (scl = 1 /\ scl' = scl /\ ssda = 1 /\ StopCondition))
<1> USE DEF Places, Starts, Stops, Acks, Sends, Answers, Free
<1>0. k < Length
  BY PlaceStep
<1>1. msda \in {0, 1} /\ scl \in {0, 1} /\ ssda \in {0, 1} /\ scl = SclAt
  BY DEF WireInv, DeviceInv
<1>2. (msda = 1 => Sda = ssda) /\ (msda = 0 => Sda = 0) /\ Sda \in {0, 1}
  BY <1>1 DEF Sda
<1>3. /\ Op = "C0" => sample' = sample /\ (IF scl = 1 THEN Fallen ELSE Still)
      /\ Op = "C1" => sample' = sample /\ (IF scl = 0 THEN Raised ELSE Still)
      /\ Op = "D0" => sample' = sample /\ scl' = scl
                      /\ IF scl = 1 /\ Sda = 1 THEN StartCondition ELSE Quiet
      /\ Op = "D1" => sample' = sample /\ scl' = scl
                      /\ IF scl = 1 /\ msda = 0 /\ ssda = 1 THEN StopCondition ELSE Quiet
      /\ Op = "A" => sample' = Sda /\ Still
      /\ Op = "B" => sample' = Shifted(sample, Sda) /\ Still
  BY <1>1, PinAt DEF Pin, Fallen, Raised, Still, wires
<1>4. CASE pc \in Starts
  <2>1. k \in {0, 1, 2} /\ (k = 0 => Op = "C1") /\ (k = 1 => Op = "D1") /\ (k = 2 => Op = "D0")
    BY <1>0, <1>4, OpAt
  <2>2. k < 3 => msda = 1
    BY <1>4 DEF WireInv
  <2>3. /\ pc = "start" => scl = 1
        /\ pc = "restart" => scl = IF k = 0 THEN 0 ELSE 1
    BY <1>1 DEF SclAt
  <2> QED
    BY <1>2, <1>3, <1>4, <2>1, <2>2, <2>3 DEF Still
<1>5. CASE pc \in Stops
  <2>1. k \in {0, 1, 2, 3} /\ (k = 0 => Op = "C0") /\ (k = 1 => Op = "D0") /\ (k = 2 => Op = "C1")
        /\ (k = 3 => Op = "D1")
    BY <1>0, <1>5, OpAt
  <2>2. k = 3 => msda = 0
    BY <1>5 DEF WireInv
  <2>3. scl = IF k >= 3 THEN 1 ELSE 0
    BY <1>1, <1>5 DEF SclAt
  <2>4. k \in {0, 1} => Still /\ sample' = sample
    BY <1>3, <2>1, <2>3 DEF Still
  <2>5. k = 2 => Raised /\ sample' = sample
    BY <1>3, <2>1, <2>3
  <2>6. k = 3 => scl = 1 /\ scl' = scl /\ sample' = sample
                 /\ (IF ssda = 1 THEN StopCondition ELSE Quiet)
    BY <1>1, <1>3, <2>1, <2>2, <2>3
  <2> QED
    BY <1>5, <2>1, <2>4, <2>5, <2>6
<1>6. CASE pc \in Acks
  BY <1>1, <1>2, <1>3, <1>6, <1>0, OpAt DEF SclAt, WireInv, Still
<1>7. CASE pc \in Answers
  BY <1>1, <1>2, <1>3, <1>7, <1>0, OpAt DEF SclAt, WireInv, Still
<1>8. CASE pc \in Sends
  BY <1>1, <1>2, <1>3, <1>8, <1>0, OpAt DEF SclAt, WireInv, Still
<1>9. CASE pc = "byte"
  BY <1>1, <1>2, <1>3, <1>9, <1>0, OpAt DEF SclAt, WireInv, Still
<1>10. CASE pc \in Free
  BY <1>1, <1>2, <1>3, <1>0, <1>10, OpAt DEF Still
<1> QED
  BY <1>4, <1>5, <1>6, <1>7, <1>8, <1>9, <1>10

-----------------------------------------------------------------------------
(* The device *)

\* A byte is complete when the device acknowledges it.
LEMMA WholeByte ==
    ASSUME PlaceInv, WireInv, DriverInv, DeviceInv, StepInv, PinStep, Fallen,
           mode \in Receives, n = Width
    PROVE  pc \in Sends /\ k = 4 /\ bit + 1 = Width /\ shift = Byte /\ shift \in Bytes
<1> USE DEF Starts, Stops, Acks, Sends, Answers, Free, Receives
<1>1. scl = 1 /\ scl' = 0 /\ Width > 1 /\ Width \in Nat
  BY I2cAssumption DEF Fallen
<1>2. k < Length
  BY PlaceStep
<1>3. pc \in Sends
  <2>1. pc \notin Starts \cup Stops \cup Free
    <3>1. pc \in Stops => k = 3
      BY <1>1, <1>2, OpAt DEF SclAt, WireInv
    <3>2. pc \in Starts \cup Stops \cup Free => Op \in {"C1", "D0", "D1"}
      BY <1>2, <3>1, OpAt
    <3>3. Op \notin {"C1", "D0", "D1"}
      BY <1>1, PinAt, Wires
    <3> QED
      BY <3>2, <3>3
  <2>2. pc \notin Acks
    BY <1>1, <1>2, PinAt, OpAt DEF StepInv, SclAt, WireInv
  <2>3. pc \notin Answers \cup {"byte"}
    BY <1>1, <1>2, PinAt, OpAt DEF StepInv, SclAt, WireInv
  <2> QED
    BY <2>1, <2>2, <2>3, PinAt DEF PlaceInv, Places
<1>4. k \in {0, 4}
  BY <1>1, <1>2, <1>3, PinAt, OpAt DEF SclAt, WireInv
<1>5. k = 4 /\ bit + 1 = Width /\ shift = Sent(Byte, Width) /\ bit \in 0 .. Width - 1
  BY <1>1, <1>3, <1>4, PinAt DEF StepInv
<1>6. Byte \in Bytes
  BY <1>3, ByteType
<1> QED
  BY <1>3, <1>5, <1>6, SentBits

LEMMA DeviceStep ==
    ASSUME PlaceInv, WireInv, DriverInv, DeviceInv, StepInv, PinStep
    PROVE  DeviceInv'
<1> USE DEF Receives
<1>1. Width \in Nat /\ Width > 1 /\ Full \in Nat /\ Full >= 4 /\ Bytes = 0 .. Full - 1
  BY I2cAssumption, Powers DEF Bytes
<1>2. CASE Still
  BY <1>2 DEF Still, Quiet, device, DeviceInv
<1>3. CASE scl' = scl /\ StartCondition
  BY <1>1, <1>3 DEF StartCondition, DeviceInv
<1>4. CASE scl' = scl /\ StopCondition
  BY <1>1, <1>4 DEF StopCondition, DeviceInv
<1>5. CASE Raised
  <2>1. Sda \in {0, 1}
    BY DEF WireInv, DeviceInv, Sda
  <2>2. scl = 0 /\ scl' = 1 /\ UNCHANGED <<mode, ssda, ptr, regs>>
    BY <1>5 DEF Raised, Rise
  <2>3. n \in 0 .. Width
    BY <1>1, <2>2 DEF DeviceInv
  <2>4. /\ n' \in 0 .. Width + 1 /\ (mode = "idle" => n' = n)
        /\ n' = Width + 1 <=> mode # "idle" /\ n = Width
    BY <1>1, <1>5, <2>3 DEF Raised, Rise
  <2>5. shift' \in Nat /\ more' \in BOOLEAN
    <3>1. shift \in Nat /\ more \in BOOLEAN /\ 2 * shift + Sda \in Nat
      BY <2>1 DEF DeviceInv
    <3>2. shift' \in {shift, 2 * shift + Sda} /\ more' \in {more, Sda = 0}
      BY <1>5 DEF Raised, Rise
    <3> QED
      BY <3>1, <3>2
  <2> QED
    BY <1>1, <2>2, <2>3, <2>4, <2>5 DEF DeviceInv
<1>6. CASE Fallen
  <2>1. scl = 1 /\ scl' = 0
    BY <1>6 DEF Fallen
  <2>2. \A p \in Nat : Reg(p) \in Bytes
    BY <1>1 DEF Reg, DeviceInv
  <2>3. \A p \in Nat, i \in 0 .. Width - 1 : Bit(Reg(p), i + 1) \in {0, 1}
    <3> TAKE p \in Nat, i \in 0 .. Width - 1
    <3>1. Reg(p) \in Bytes
      BY <2>2
    <3> QED
      BY <3>1, SentBits
  <2>4. CASE mode = "idle"
    BY <1>1, <1>6, <2>1, <2>4 DEF Fallen, Fall, DeviceInv, device
  <2>5. CASE mode = "send"
    <3>1. SendNext
      BY <1>6, <2>5 DEF Fallen, Fall
    <3>2. ptr \in Nat /\ (ptr + 1) % Full \in Bytes /\ (ptr + 1) % Full \in Nat /\ 0 \in 0 .. Width - 1 /\ 0 + 1 = 1
      BY <1>1 DEF DeviceInv
    <3>3. Bit(Reg((ptr + 1) % Full), 1) \in {0, 1}
      BY <2>3, <3>2
    <3>4. n < Width => n \in 0 .. Width - 1 /\ Bit(Reg(ptr), n + 1) \in {0, 1}
      BY <1>1, <2>3, <3>2 DEF DeviceInv
    <3> HIDE DEF Bit, Reg
    <3>5. CASE n < Width
      BY <1>1, <2>1, <2>5, <3>1, <3>4, <3>5 DEF SendNext, DeviceInv
    <3>6. CASE n = Width
      BY <1>1, <2>1, <2>5, <3>1, <3>6 DEF SendNext, DeviceInv
    <3>7. CASE n > Width
      BY <1>1, <2>1, <2>5, <3>1, <3>2, <3>3, <3>7 DEF SendNext, DeviceInv
    <3> QED
      BY <1>1, <3>5, <3>6, <3>7 DEF DeviceInv
  <2>6. CASE mode \in Receives /\ n < Width
    BY <1>1, <1>6, <2>1, <2>6 DEF Fallen, Fall, DeviceInv, device
  <2>7. CASE mode \in Receives /\ n = Width
    <3>1. Received /\ shift \in Bytes
      BY <1>1, <1>6, <2>7, WholeByte DEF Fallen, Fall
    <3>2. CASE Refuse
      BY <1>1, <2>1, <3>2 DEF Refuse, DeviceInv
    <3>3. CASE Acknowledge
      <4>1. (ptr + 1) % Full \in Bytes
        BY <1>1 DEF DeviceInv
      <4>2. regs' \in [Regs -> Bytes] /\ ptr' \in Bytes
        BY <3>1, <3>3, <4>1 DEF Acknowledge, DeviceInv
      <4> QED
        BY <1>1, <2>1, <2>7, <3>3, <4>2 DEF Acknowledge, DeviceInv
    <3> QED
      BY <3>1, <3>2, <3>3 DEF Received
  <2>8. CASE mode \in Receives /\ n > Width
    <3>1. NextByte
      BY <1>1, <1>6, <2>8 DEF Fallen, Fall, DeviceInv
    <3>2. Bit(Reg(ptr), 1) \in {0, 1}
      <4>1. ptr \in Nat /\ 0 \in 0 .. Width - 1 /\ 0 + 1 = 1
        BY <1>1 DEF DeviceInv
      <4> QED
        BY <2>3, <4>1
    <3> QED
      BY <1>1, <2>1, <2>8, <3>1, <3>2 DEF NextByte, DeviceInv
  <2> QED
    BY <1>1, <2>4, <2>5, <2>6, <2>7, <2>8 DEF DeviceInv
<1>7. \/ Still \/ Raised \/ Fallen
      \/ scl' = scl /\ StartCondition
      \/ scl' = scl /\ StopCondition
  <2>1. pc \in Starts \cup Stops \cup Acks \cup Answers \cup Sends \cup Free \cup {"byte"}
    BY PinAt DEF PlaceInv, Places
  <2> QED
    BY <2>1, Moves DEF Still
<1> QED
  BY <1>2, <1>3, <1>4, <1>5, <1>6, <1>7

-----------------------------------------------------------------------------
(* In step *)

\* A clock, to a device that receives.
LEMMA Listening ==
    ASSUME DeviceInv, mode' \in Receives
    PROVE  /\ Quiet => /\ mode' = mode /\ n' = n /\ shift' = shift /\ ssda' = ssda
           /\ Rise => /\ mode' = mode /\ n' = n + 1 /\ ssda' = ssda
                      /\ shift' = IF n < Width THEN 2 * shift + Sda ELSE shift
           /\ StartCondition => mode' = "addr" /\ n' = 0 /\ shift' = 0 /\ ssda' = 1
           /\ ~StopCondition
           /\ Fall => /\ mode \in Receives
                      /\ n < Width => mode' = mode /\ n' = n /\ shift' = shift /\ ssda' = ssda
                      /\ n = Width => mode' = mode /\ n' = n /\ shift' = shift /\ ssda' = 0
                      /\ n > Width => /\ n' = 0 /\ shift' = 0 /\ ssda' = 1
                                      /\ ~(mode = "addr" /\ shift % 2 = 1)
<1> USE I2cAssumption DEF Receives
<1>1. n \in 0 .. Width + 1 /\ mode \in Receives \cup {"idle", "send"}
  BY DEF DeviceInv
<1>2. Quiet => mode' = mode /\ n' = n /\ shift' = shift /\ ssda' = ssda
  BY DEF Quiet, device
<1>3. Rise => /\ mode' = mode /\ n' = n + 1 /\ ssda' = ssda
              /\ shift' = IF n < Width THEN 2 * shift + Sda ELSE shift
  BY DEF Rise
<1>4. StartCondition => mode' = "addr" /\ n' = 0 /\ shift' = 0 /\ ssda' = 1
  BY DEF StartCondition
<1>5. ~StopCondition
  BY DEF StopCondition
<1>6. ASSUME Fall
      PROVE  /\ mode \in Receives
             /\ n < Width => mode' = mode /\ n' = n /\ shift' = shift /\ ssda' = ssda
             /\ n = Width => mode' = mode /\ n' = n /\ shift' = shift /\ ssda' = 0
             /\ n > Width => /\ n' = 0 /\ shift' = 0 /\ ssda' = 1
                             /\ ~(mode = "addr" /\ shift % 2 = 1)
  <2>1. mode # "idle"
    BY <1>6 DEF Fall, device
  <2>2. mode # "send"
    BY <1>6 DEF Fall, SendNext
  <2>3. mode \in Receives
    BY <1>1, <2>1, <2>2
  <2>4. CASE n < Width
    BY <1>1, <1>6, <2>3, <2>4 DEF Fall, device
  <2>5. CASE n = Width
    BY <1>1, <1>6, <2>3, <2>5 DEF Fall, Received, Refuse, Acknowledge
  <2>6. CASE n > Width
    <3>1. NextByte
      BY <1>1, <1>6, <2>3, <2>6 DEF Fall
    <3> QED
      BY <1>1, <2>3, <2>6, <3>1 DEF NextByte
  <2> QED
    BY <1>1, <2>3, <2>4, <2>5, <2>6
<1> QED
  BY <1>2, <1>3, <1>4, <1>5, <1>6

LEMMA StepStep ==
    ASSUME PlaceInv, WireInv, DriverInv, DeviceInv, StepInv, PinStep
    PROVE  StepInv'
<1> SUFFICES ASSUME mode' \in Receives
             PROVE  StepInv'
  BY DEF StepInv
<1> USE I2cAssumption DEF Starts, Stops, Acks, Sends, Answers, Free
<1>1. pc' = pc /\ k \in Nat /\ bit \in 0 .. Width - 1 /\ Byte' = Byte
  <2>1. Byte' = Byte
    BY PinAt DEF Byte
  <2> QED
    BY <2>1, PinAt
<1>2. /\ n \in 0 .. Width + 1 /\ shift \in Nat /\ ssda \in {0, 1}
      /\ n = Width + 1 => scl = 1
      /\ mode \in Receives => (ssda = 0 <=> n = Width + 1 \/ (n = Width /\ scl = 0))
  BY DEF DeviceInv
<1>3. CASE pc \in Starts
  <2>1. k' = k + 1 /\ k \in {0, 1, 2}
    BY <1>3, PlaceStep, OpAt, PinAt
  <2>2. CASE pc = "start"
    BY <1>1, <1>2, <1>3, <2>1, <2>2, Moves, Listening DEF StepInv, Receives
  <2>3. CASE pc = "restart"
    BY <1>1, <1>2, <1>3, <2>1, <2>3, Moves, Listening DEF StepInv, Receives, Raised, Still
  <2> QED
    BY <1>3, <2>2, <2>3
<1>4. CASE pc \in Stops
  BY <1>1, <1>2, <1>4, PinAt, Moves, Listening DEF StepInv, Raised, Still
<1>5. CASE pc \in Acks
  BY <1>1, <1>2, <1>5, PinAt, Moves, Listening DEF StepInv, Raised, Still, Fallen
<1>6. CASE pc \in Answers
  <2>1. pc = "sourceAck" /\ (2 * Device + 1) % 2 = 1
    BY <1>1, <1>6, PinAt, Moves, Listening DEF StepInv, Raised, Still, Fallen
  <2> QED
    BY <1>1, <1>2, <1>6, <2>1, PinAt, Moves, Listening DEF StepInv, Raised, Still, Fallen
<1>7. CASE pc \in Sends
  <2>1. mode \in Receives
    BY <1>7, Moves, Listening DEF Raised, Still, Fallen
  <2>2. /\ (k < 4 /\ k' = k + 1 /\ bit' = bit) \/ (k = 4 /\ NextBit)
        /\ k \in {0, 1, 2, 3, 4} /\ (k = 0 => bit = 0)
    BY <1>7, PinAt, OpAt, PlaceStep
  <2>3. Byte \in Bytes
    BY <1>7, ByteType
  <2>4. CASE k = 0
    <3>1. n' = 0 /\ shift' = 0 /\ (pc = "source" => mode' = mode)
      <4>1. n = Width + 1 \/ (n = 0 /\ shift = 0)
        BY <1>7, <2>1, <2>4 DEF StepInv
      <4>2. pc = "source" => n = 0
        BY <2>1, <2>4 DEF StepInv
      <4>3. CASE pc \in {"device", "source"}
        <5>1. Fall
          BY <2>4, <4>3, Moves DEF Fallen
        <5> QED
          BY <4>1, <4>2, <5>1, Listening
      <4>4. CASE pc \notin {"device", "source"}
        <5>1. Still /\ scl = 0
          BY <1>7, <2>4, <4>4, Moves DEF WireInv, SclAt
        <5>2. n = 0 /\ shift = 0
          BY <1>2, <4>1, <5>1
        <5> QED
          BY <4>4, <5>1, <5>2, Listening DEF Still
      <4> QED
        BY <4>3, <4>4
    <3>2. k' = 1 /\ bit' = 0
      BY <2>2, <2>4
    <3>3. Sent(Byte, n)' = 0
      BY <1>1, <2>3, <3>1, SentBits DEF Sent
    <3> QED
      BY <1>1, <1>7, <2>1, <3>1, <3>2, <3>3 DEF StepInv
  <2>5. CASE k \in {1, 2}
    <3>1. n' = n /\ shift' = shift /\ mode' = mode
      BY <1>7, <2>1, <2>5, Moves, Listening DEF Still
    <3>2. Sent(Byte, n)' = Sent(Byte, n)
      BY <1>1, <3>1 DEF Sent
    <3> QED
      BY <1>1, <1>7, <2>1, <2>2, <2>5, <3>1, <3>2 DEF StepInv
  <2>6. CASE k = 3
    <3>1. n = bit /\ shift = Sent(Byte, bit) /\ ssda = 1 /\ scl = 0 /\ msda = Bit(Byte, bit + 1)
      BY <1>1, <1>2, <1>7, <2>1, <2>6, Moves DEF StepInv, WireInv, Raised
    <3>2. Sda = Bit(Byte, bit + 1) /\ Sent(Byte, bit + 1) = 2 * Sent(Byte, bit) + Bit(Byte, bit + 1)
      BY <1>1, <2>3, <3>1, SentBits DEF Sda
    <3>3. n' = bit + 1 /\ shift' = Sent(Byte, bit + 1) /\ mode' = mode
      BY <1>1, <1>7, <2>1, <2>6, <3>1, <3>2, Moves, Listening DEF Raised
    <3>4. Sent(Byte, n)' = Sent(Byte, bit + 1)
      BY <1>1, <3>3 DEF Sent
    <3>5. k' = 4 /\ bit' = bit
      BY <2>2, <2>6
    <3> QED
      BY <1>1, <1>7, <2>1, <3>3, <3>4, <3>5 DEF StepInv
  <2>7. CASE k = 4
    <3>1. n = bit + 1 /\ shift = Sent(Byte, n) /\ n <= Width
      BY <1>1, <1>7, <2>1, <2>7 DEF StepInv
    <3>2. n' = n /\ shift' = shift /\ mode' = mode
      BY <1>1, <1>2, <1>7, <2>1, <2>7, <3>1, Moves, Listening DEF Fallen
    <3>3. Sent(Byte, n)' = Sent(Byte, n)
      BY <1>1, <3>2 DEF Sent
    <3>4. (k' = 1 /\ bit' = bit + 1) \/ (k' = 5 /\ bit' = bit)
      <4>1. Length = 5
        BY <1>7 DEF Length
      <4> QED
        BY <2>2, <2>7, <4>1 DEF NextBit
    <3> QED
      BY <1>1, <1>7, <2>1, <3>1, <3>2, <3>3, <3>4 DEF StepInv
  <2> QED
    BY <2>2, <2>4, <2>5, <2>6, <2>7
<1>8. CASE pc = "byte"
  BY <1>8, Moves, Listening DEF StepInv, Raised, Still, Fallen
<1>9. CASE pc \in Free
  BY <1>1, <1>9 DEF StepInv
<1> QED
  BY <1>1, <1>3, <1>4, <1>5, <1>6, <1>7, <1>8, <1>9, PinAt DEF PlaceInv, Places

LEMMA EnoughStep ==
    ASSUME PlaceInv, WireInv, DriverInv, DeviceInv, StepInv, EnoughInv, PinStep
    PROVE  EnoughInv'
<1> USE I2cAssumption DEF Starts, Stops, Acks, Sends, Answers, Free
<1>1. pc' = pc /\ k \in Nat /\ bit \in 0 .. Width - 1
  BY PinAt
<1>2. /\ n \in 0 .. Width + 1 /\ ssda \in {0, 1}
      /\ n = Width + 1 => scl = 1
      /\ mode = "send" /\ n = Width /\ scl = 0 => ssda = 1
  BY DEF DeviceInv
<1>3. CASE pc = "byte"
  <2> SUFFICES ASSUME mode' = "send"
               PROVE  /\ n' >= IF k' >= 4 THEN bit' + 1 ELSE bit'
                      /\ n' = Width + 1 => ~more'
    BY <1>1, <1>3 DEF EnoughInv
  <2>1. /\ (k < 5 /\ k' = k + 1 /\ bit' = bit) \/ (k = 5 /\ NextBit)
        /\ k \in {0, 1, 2, 3, 4, 5} /\ Length = 6 /\ msda = 1
    BY <1>3, PinAt, OpAt, PlaceStep DEF WireInv, Length
  <2>2. mode = "send"
    BY <1>1, <1>3, <2>1, Moves, Listening DEF Still, Quiet, device, Raised, Rise, Fallen, Fall, StepInv,
          Receives, DeviceInv
  <2>3. CASE k \in {0, 1, 2, 4}
    <3>1. n' = n /\ more' = more
      BY <1>3, <2>3, Moves DEF Still, Quiet, device
    <3> QED
      BY <1>1, <1>2, <1>3, <2>1, <2>2, <2>3, <3>1 DEF EnoughInv
  <2>4. CASE k = 3
    <3>1. n' = n + 1 /\ scl = 0 /\ (n = Width => more' = (Sda = 0))
      BY <1>3, <2>2, <2>4, Moves DEF Raised, Rise
    <3>2. n = Width => Sda # 0
      BY <1>2, <2>1, <2>2, <3>1 DEF Sda
    <3>3. n = Width => ~more'
      BY <3>1, <3>2, Zenon
    <3> QED
      BY <1>1, <1>2, <1>3, <2>1, <2>2, <2>4, <3>1, <3>3 DEF EnoughInv
  <2>5. CASE k = 5
    <3>1. SendNext
      BY <1>3, <2>2, <2>5, Moves DEF Fallen, Fall
    <3>2. n <= Width
      BY <1>1, <1>2, <1>3, <2>2, <2>5, <3>1 DEF SendNext, EnoughInv
    <3>3. n' = n /\ n' <= Width
      BY <1>2, <2>2, <3>1, <3>2 DEF SendNext
    <3> QED
      BY <1>1, <1>2, <1>3, <2>1, <2>2, <2>5, <3>3 DEF EnoughInv, NextBit
  <2> QED
    BY <2>1, <2>3, <2>4, <2>5
<1>4. CASE pc = "lastAck"
  <2> SUFFICES ASSUME mode' = "send"
               PROVE  /\ n' >= Width /\ k' <= 3
                      /\ n' = Width + 1 => ~more'
                      /\ k' = 3 => n' = Width + 1
    BY <1>1, <1>4 DEF EnoughInv
  <2>1. k' = k + 1 /\ k \in {0, 1, 2, 3, 4}
    BY <1>4, PinAt, OpAt, PlaceStep
  <2>2. mode = "send"
    BY <1>1, <1>4, <2>1, Moves DEF Still, Quiet, device, Raised, Rise, Fallen, Fall, StepInv,
          Receives, DeviceInv
  <2>3. k <= 3
    BY <1>4, <2>2 DEF EnoughInv
  <2>4. CASE k \in {0, 1}
    <3>1. n' = n /\ more' = more
      BY <1>4, <2>4, Moves DEF Still, Quiet, device
    <3> QED
      BY <1>1, <1>2, <1>4, <2>1, <2>2, <2>4, <3>1 DEF EnoughInv
  <2>5. CASE k = 2
    <3>1. scl = 0 /\ msda = 1
      BY <1>4, <2>5, Moves DEF Raised, WireInv
    <3>2. n = Width /\ ssda = 1
      BY <1>2, <1>4, <2>2, <3>1 DEF EnoughInv
    <3>3. n' = n + 1 /\ more' = (Sda = 0) /\ Sda # 0
      BY <1>4, <2>2, <2>5, <3>1, <3>2, Moves DEF Raised, Rise, Sda
    <3>4. ~more'
      BY <3>3, Zenon
    <3> QED
      BY <2>1, <2>5, <3>2, <3>3, <3>4
  <2>6. CASE k = 3
    <3>1. SendNext
      BY <1>4, <2>2, <2>6, Moves DEF Fallen, Fall
    <3> QED
      BY <1>2, <1>4, <2>2, <2>6, <3>1 DEF SendNext, EnoughInv
  <2> QED
    BY <2>1, <2>3, <2>4, <2>5, <2>6
<1>5. CASE pc = "readStop"
  <2>1. mode = "idle"
    BY <1>5 DEF EnoughInv
  <2>2. mode' = "idle"
    BY <1>5, <2>1, Moves DEF Still, Quiet, device, Raised, Rise, StopCondition
  <2> QED
    BY <1>1, <1>5, <2>2 DEF EnoughInv
<1> QED
  BY <1>1, <1>3, <1>4, <1>5 DEF EnoughInv

LEMMA DriverStep ==
    ASSUME PlaceInv, WireInv, DeviceInv, DriverInv, PinStep
    PROVE  DriverInv'
<1>1. pc' = pc /\ UNCHANGED <<call, idx, addr, inpage, buf>>
  BY PinAt
<1>2. sample' \in Bytes
  <2>1. sample \in Bytes /\ ssda \in {0, 1} /\ Full \in Nat /\ Full >= 4
    BY Powers DEF DriverInv, DeviceInv
  <2>2. ssda \in Bytes /\ Shifted(sample, ssda) \in Bytes
    BY <2>1 DEF Bytes, Shifted
  <2>3. sample' \in {sample, ssda, Shifted(sample, ssda)}
    BY PinAt, Moves DEF PlaceInv, Places
  <2> QED
    BY <2>1, <2>2, <2>3
<1> QED
  BY <1>1, <1>2 DEF DriverInv

-----------------------------------------------------------------------------
(* What the device takes the bytes for *)

\* SCL falls, to a device that receives, or waits for a START.
LEMMA Hearing ==
    ASSUME DeviceInv, Fall
    PROVE  /\ mode = "idle" => UNCHANGED device
           /\ mode \in Receives /\ n < Width => UNCHANGED device
           /\ mode \in Receives /\ n = Width =>
                 /\ mode' \in {mode, "idle"}
                 /\ mode' = "idle" => ssda' = 1 /\ ptr' = ptr /\ regs' = regs
                 /\ mode' # "idle" => ssda' = 0 /\ Acknowledge
           /\ mode \in Receives /\ n > Width =>
                 /\ ptr' = ptr /\ regs' = regs /\ n' = 0
                 /\ mode = "addr" /\ shift % 2 = 1 => mode' = "send" /\ ssda' = Bit(Reg(ptr), 1)
                 /\ mode = "addr" /\ shift % 2 # 1 => mode' = "reg" /\ ssda' = 1
                 /\ mode # "addr" => mode' = "data" /\ ssda' = 1
<1> USE I2cAssumption DEF Receives
<1>1. n \in 0 .. Width + 1
  BY DEF DeviceInv
<1>2. CASE mode = "idle"
  BY <1>2 DEF Fall
<1>3. CASE mode \in Receives /\ n < Width
  BY <1>1, <1>3 DEF Fall
<1>4. CASE mode \in Receives /\ n = Width
  BY <1>1, <1>4 DEF Fall, Received, Refuse, Acknowledge
<1>5. CASE mode \in Receives /\ n > Width
  <2>1. NextByte
    BY <1>1, <1>5 DEF Fall
  <2> HIDE DEF Bit, Reg
  <2> QED
    BY <1>1, <1>5, <2>1 DEF NextByte
<1> QED
  BY <1>1, <1>2, <1>3, <1>4, <1>5

\* Only the START of a call wipes out a reset.
LEMMA TornStep ==
    ASSUME PlaceInv, WireInv, DeviceInv, PinStep, ~torn'
    PROVE  ~torn \/ (pc = "start" /\ k = 2 /\ idx = 0 /\ ssda = 1 /\ StartCondition)
<1>1. CASE pc \in Starts
  BY <1>1, Moves DEF Still, Raised, Quiet, Rise, StartCondition
<1>2. CASE pc \notin Starts
  BY <1>2, PinAt, Moves DEF PlaceInv, Places, Still, Raised, Fallen, Quiet, StopCondition
<1> QED
  BY <1>1, <1>2

LEMMA ModeStep ==
    ASSUME PlaceInv, WireInv, DeviceInv, StepInv, DriverInv, ModeInv, PinStep
    PROVE  ModeInv'
<1> SUFFICES ASSUME ~torn'
             PROVE  ModeInv'
  BY DEF ModeInv
<1> USE I2cAssumption DEF Starts, Stops, Acks, Sends, Answers, Free
<1>1. pc' = pc /\ k \in Nat /\ bit \in 0 .. Width - 1 /\ k < Length
  BY PinAt, PlaceStep
<1>2. /\ n \in 0 .. Width + 1 /\ ssda \in {0, 1} /\ shift \in Nat
      /\ n = Width + 1 => scl = 1
      /\ mode = "idle" => ssda = 1
      /\ mode \in {"addr", "reg", "data"} => (ssda = 0 <=> n = Width + 1 \/ (n = Width /\ scl = 0))
  BY DEF DeviceInv, Receives
<1>3. ~torn \/ (pc = "start" /\ k = 2 /\ idx = 0 /\ ssda = 1 /\ StartCondition)
  BY TornStep
<1>4. /\ Quiet => mode' = mode /\ ssda' = ssda /\ n' = n /\ shift' = shift
      /\ Rise => mode' = mode /\ ssda' = ssda
      /\ StartCondition => mode' = "addr" /\ ssda' = 1
      /\ StopCondition => mode' = "idle" /\ ssda' = 1
  BY DEF Quiet, device, Rise, StartCondition, StopCondition
<1>5. CASE pc \in Starts
  <2>1. k' = k + 1 /\ k \in {0, 1, 2}
    BY <1>1, <1>5, OpAt, PinAt
  <2>2. ssda = 1
    BY <1>3, <1>5 DEF ModeInv
  <2>3. ssda' = 1 /\ (k < 2 => mode' = mode) /\ (k = 2 => mode' = "addr")
    BY <1>4, <1>5, <2>2, Moves DEF Still, Raised
  <2> QED
    BY <1>1, <1>3, <1>5, <2>1, <2>3 DEF ModeInv
<1>6. CASE pc \in Stops
  <2>1. ~torn /\ ssda = 1 /\ mode \in {"data", "idle"}
    BY <1>3, <1>6 DEF ModeInv
  <2>2. ssda' = 1 /\ mode' \in {"data", "idle"}
    BY <1>4, <1>6, <2>1, Moves DEF Still, Raised
  <2> QED
    BY <1>1, <1>6, <2>2 DEF ModeInv
<1>7. CASE pc \in Acks
  <2>1. ~torn /\ k' = k + 1 /\ k \in {0, 1, 2, 3, 4}
    BY <1>1, <1>3, <1>7, OpAt, PinAt
  <2>2. /\ pc = "deviceAck" => mode \in {"addr", "idle"}
        /\ pc = "registerAck" => mode \in {"reg", "idle"}
        /\ pc = "dataAck" => mode \in {"data", "idle"}
        /\ pc = "deviceAck" /\ mode = "addr" => shift = 2 * Device
        /\ k < 4 => (mode = "idle" <=> ssda = 1)
        /\ k = 4 => (mode = "idle" <=> sample = 1)
    BY <1>7, <2>1 DEF ModeInv
  <2>3. CASE k < 4
    <3>1. mode' = mode /\ ssda' = ssda /\ (k = 3 => sample' = ssda) /\ (k < 3 => sample' = sample)
      BY <1>4, <1>7, <2>1, <2>3, Moves DEF Still, Raised
    <3>2. pc = "deviceAck" /\ mode = "addr" => shift' = shift
      BY <1>7, <2>1, <2>2, <2>3, <3>1, Moves DEF Still, Raised, Quiet, device, Rise, StepInv, Receives
    <3> QED
      BY <1>1, <1>7, <2>1, <2>2, <2>3, <3>1, <3>2 DEF ModeInv
  <2>4. CASE k = 4
    <3>1. Fall /\ sample' = sample
      BY <1>7, <2>4, Moves DEF Fallen
    <3>2. mode \in Receives => n > Width
      BY <1>2, <1>7, <2>4 DEF StepInv
    <3>3. (2 * Device) % 2 # 1
      OBVIOUS
    <3>4. /\ mode = "idle" => mode' = "idle" /\ ssda' = 1
          /\ mode = "addr" => mode' = "reg" /\ ssda' = 1
          /\ mode \in {"reg", "data"} => mode' = "data" /\ ssda' = 1
      BY <1>2, <1>7, <2>2, <3>1, <3>2, <3>3, Hearing DEF Receives, device
    <3> QED
      BY <1>1, <1>7, <2>1, <2>2, <2>4, <3>1, <3>4 DEF ModeInv
  <2> QED
    BY <2>1, <2>3, <2>4
<1>8. CASE pc = "sourceAck"
  <2>1. ~torn /\ k' = k + 1 /\ k \in {0, 1, 2, 3, 4}
    BY <1>1, <1>3, <1>8, OpAt, PinAt
  <2>2. mode \in IF k < 4 THEN {"addr", "idle"} ELSE {"send", "idle"}
    BY <1>8, <2>1 DEF ModeInv
  <2>3. CASE k # 3
    <3>1. mode' = mode
      BY <1>4, <1>8, <2>1, <2>3, Moves DEF Still, Raised
    <3> QED
      BY <1>1, <1>8, <2>1, <2>2, <2>3, <3>1 DEF ModeInv
  <2>4. CASE k = 3
    <3>1. Fall
      BY <1>8, <2>4, Moves DEF Fallen
    <3>2. mode = "addr" => n > Width /\ shift = 2 * Device + 1
      BY <1>8, <2>4 DEF StepInv, Receives
    <3>3. (2 * Device + 1) % 2 = 1
      OBVIOUS
    <3>4. mode' \in {"send", "idle"}
      BY <2>2, <2>4, <3>1, <3>2, <3>3, Hearing DEF Receives, device
    <3> QED
      BY <1>1, <1>8, <2>1, <2>4, <3>4 DEF ModeInv
  <2> QED
    BY <2>3, <2>4
<1>9. CASE pc \in Sends
  <2>1. /\ ~torn /\ k \in {0, 1, 2, 3, 4} /\ (k = 0 => bit = 0)
        /\ (k < 4 /\ k' = k + 1 /\ bit' = bit) \/ (k = 4 /\ NextBit)
    BY <1>1, <1>3, <1>9, OpAt, PinAt
  <2>2. /\ pc \in {"device", "source"} => mode \in {"addr", "idle"} /\ ssda = 1
        /\ pc = "register" => mode \in {"reg", "idle"}
        /\ pc = "data" => mode \in {"data", "idle"}
    BY <1>9, <2>1 DEF ModeInv
  <2>3. CASE k < 4
    <3>1. mode' = mode /\ (pc \in {"device", "source"} => ssda' = 1)
      <4>1. CASE k = 0 /\ pc \in {"device", "source"}
        <5>1. mode = "addr" => n < Width
          BY <1>2, <1>9, <2>2, <4>1 DEF StepInv, Receives
        <5> QED
          BY <2>2, <4>1, <5>1, Moves, Hearing DEF Fallen, device, Receives
      <4>2. CASE ~(k = 0 /\ pc \in {"device", "source"})
        BY <1>4, <1>9, <2>1, <2>2, <2>3, <4>2, Moves DEF Still, Raised
      <4> QED
        BY <4>1, <4>2
    <3> QED
      BY <1>1, <1>9, <2>1, <2>2, <2>3, <3>1 DEF ModeInv
  <2>4. CASE k = 4
    <3>1. Fall
      BY <1>9, <2>4, Moves DEF Fallen
    <3>2. mode \in Receives => n = bit + 1
      BY <1>9, <2>4 DEF StepInv
    <3>3. mode' \in {mode, "idle"}
      BY <1>1, <1>2, <2>2, <1>9, <3>1, <3>2, Hearing DEF Receives, device
    <3>4. bit + 1 < Width /\ ssda = 1 => ssda' = 1
      BY <1>1, <1>2, <2>2, <1>9, <3>1, <3>2, Hearing DEF Receives, device
    <3>5. (bit + 1 < Width /\ k' = 1) \/ k' = 5
      BY <1>9, <2>1, <2>4 DEF NextBit, Length
    <3> QED
      BY <1>1, <1>9, <2>2, <3>3, <3>4, <3>5 DEF ModeInv
  <2> QED
    BY <2>1, <2>3, <2>4
<1>10. CASE pc \in Free
  <2>1. ~torn /\ ssda = 1
    BY <1>3, <1>10 DEF ModeInv
  <2>2. ssda' = 1
    BY <1>4, <1>10, <2>1, Moves DEF Still, Raised
  <2> QED
    BY <1>1, <1>10, <2>2 DEF ModeInv
<1>11. CASE pc \in {"byte", "byteAck", "lastAck"}
  BY <1>1, <1>11 DEF ModeInv
<1> QED
  BY <1>1, <1>5, <1>6, <1>7, <1>8, <1>9, <1>10, <1>11, PinAt DEF PlaceInv, Places

-----------------------------------------------------------------------------
(* The registers *)

\* A call stays within the registers.
LEMMA Within ==
    ASSUME call \in Calls, NEW i \in Nat, i < call.count
    PROVE  /\ call.reg \in Nat /\ call.count \in Nat
           /\ call.reg + i \in Regs /\ call.reg + i \in Bytes /\ call.reg + i \in Nat
           /\ (call.reg + i) % Full = call.reg + i
<1>1. /\ call.count \in Nat /\ call.reg \in Regs /\ call.reg + call.count - 1 \in Regs
      /\ NRegs \in 1 .. Full /\ Full \in Nat /\ Full >= 4
  BY I2cAssumption, Powers
<1>2. call.reg \in 0 .. NRegs - 1 /\ call.reg + call.count - 1 \in 0 .. NRegs - 1
  BY <1>1 DEF Regs
<1>3. call.reg + i \in 0 .. NRegs - 1 /\ call.reg + i \in 0 .. Full - 1
  BY <1>1, <1>2
<1> QED
  BY <1>1, <1>2, <1>3 DEF Regs, Bytes

LEMMA InFile ==
    ASSUME call \in Calls, idx \in Nat, idx < call.count
    PROVE  /\ call.reg \in Nat /\ call.count \in Nat
           /\ call.reg + idx \in Regs /\ call.reg + idx \in Bytes /\ call.reg + idx \in Nat
           /\ (call.reg + idx) % Full = call.reg + idx
  BY Within

\* A register changes when the last bit of a byte sent has been heard.
LEMMA Stored ==
    ASSUME PlaceInv, WireInv, DriverInv, DeviceInv, StepInv, PinStep,
           regs' # regs \/ ptr' # ptr
    PROVE  /\ mode = "send" => regs' = regs
           /\ mode # "send" => /\ mode \in Receives /\ n = Width /\ Fallen /\ Acknowledge
                               /\ mode' = mode /\ mode # "idle"
                               /\ pc \in Sends /\ k = 4 /\ bit + 1 = Width /\ shift = Byte
<1>1. Fallen
  BY PinAt, Moves DEF PlaceInv, Places, Still, Raised, Quiet, Rise, device,
     StartCondition, StopCondition
<1>2. mode \in Receives \cup {"idle", "send"} /\ n \in 0 .. Width + 1
  BY DEF DeviceInv
<1>3. ASSUME mode = "send" PROVE regs' = regs
  BY <1>1, <1>3 DEF Fallen, Fall, SendNext
<1>4. ASSUME mode # "send" PROVE mode \in Receives /\ n = Width /\ mode' # "idle" /\ Acknowledge
  BY <1>1, <1>2, <1>4, Hearing, I2cAssumption DEF Fallen, device
<1>5. ASSUME mode # "send" PROVE mode' = mode /\ mode # "idle"
  BY <1>4, <1>5 DEF Acknowledge, Receives
<1> QED
  BY <1>1, <1>3, <1>4, <1>5, WholeByte

LEMMA RegsStep ==
    ASSUME PlaceInv, WireInv, DeviceInv, StepInv, DriverInv, ModeInv, RegsInv, PinStep
    PROVE  RegsInv'
<1> SUFFICES ASSUME ~torn'
             PROVE  RegsInv'
  BY DEF RegsInv
<1> USE I2cAssumption
<1>1. /\ pc' = pc /\ k \in Nat /\ bit \in 0 .. Width - 1 /\ k < Length
      /\ call' = call /\ idx' = idx /\ addr' = addr
      /\ pc \notin Sends \cup {"byte"} => k' = k + 1
  BY PinAt, PlaceStep
<1>2. Full \in Nat /\ Full >= 4 /\ ptr \in Bytes /\ Bytes = 0 .. Full - 1 /\ regs \in [Regs -> Bytes]
  BY Powers DEF DeviceInv, Bytes
<1>3. idx \in Nat /\ addr \in Bytes
  BY DEF DriverInv
\* The START of a call.
<1>4. CASE torn
  <2>1. pc = "start" /\ idx = 0 /\ StartCondition
    BY <1>4, TornStep
  <2>2. mode' = "addr"
    BY <2>1 DEF StartCondition
  <2> QED
    BY <1>1, <1>3, <2>1, <2>2 DEF RegsInv
\* Outside the bytes that are sent nothing is stored.
<1>5. CASE ~torn /\ pc \notin {"register", "data"}
  <2>1. regs' = regs
    <3> SUFFICES ASSUME regs' # regs PROVE FALSE
      OBVIOUS
    <3>1. pc \in {"device", "source"} /\ mode # "idle" /\ Acknowledge
      BY <1>5, Stored DEF Sends
    <3>2. mode = "addr"
      BY <1>5, <3>1 DEF ModeInv
    <3> QED
      BY <3>1, <3>2 DEF Acknowledge
  <2>2. ASSUME pc \in {"registerAck", "restart", "source", "sourceAck", "dataAck"}
        PROVE  ptr' = ptr
    <3> SUFFICES ASSUME ptr' # ptr PROVE FALSE
      OBVIOUS
    <3>1. CASE mode = "send"
      <4>1. pc = "sourceAck" /\ k >= 4
        <5>1. pc \in {"registerAck", "dataAck"} => k < 5
          BY <1>1, OpAt DEF Acks
        <5> QED
          BY <1>1, <1>5, <2>2, <3>1, <5>1 DEF ModeInv
      <4>2. Still
        BY <1>1, <4>1, Moves DEF Answers
      <4> QED
        BY <4>2 DEF Still, Quiet, device
    <3>2. CASE mode # "send"
      <4>1. pc = "source" /\ mode # "idle" /\ Acknowledge
        BY <1>5, <2>2, <3>2, Stored DEF Sends
      <4>2. mode = "addr"
        BY <1>5, <4>1 DEF ModeInv
      <4> QED
        BY <4>1, <4>2 DEF Acknowledge
    <3> QED
      BY <3>1, <3>2
  <2>3. ASSUME pc \in {"registerAck", "dataAck"}, mode' # "idle"
        PROVE  mode # "idle"
    BY <2>3, Moves, Hearing DEF Acks, Still, Raised, Fallen, Quiet, Rise, device
  <2>4. ASSUME pc = "dataAck", mode' = "data"
        PROVE  mode = "data"
    BY <1>5, <2>3, <2>4 DEF ModeInv
  <2> QED
    BY <1>1, <1>5, <2>1, <2>2, <2>3, <2>4 DEF RegsInv
\* The register number.
<1>6. CASE ~torn /\ pc = "register"
  <2>1. mode \in {"reg", "idle"}
    BY <1>6 DEF ModeInv
  <2>2. regs' = regs
    BY <1>6, <2>1, Stored DEF Acknowledge
  <2>3. ASSUME k' = 5, mode' # "idle"
        PROVE  ptr' = addr
    <3>1. k \in {0, 1, 2, 3, 4} /\ ((k < 4 /\ k' = k + 1) \/ (k = 4 /\ NextBit)) /\ Length = 5
      BY <1>1, <1>6, OpAt, PinAt DEF Sends, Length, Starts, Stops, Acks, Answers, Free
    <3>2. k = 4 /\ bit + 1 = Width
      BY <2>3, <3>1 DEF NextBit
    <3>3. Fallen
      BY <1>6, <3>2, Moves DEF Sends
    <3>4. mode = "reg"
      BY <2>1, <2>3, <3>3, Hearing DEF device, Fallen
    <3>5. n = Width
      BY <1>6, <3>2, <3>4 DEF StepInv, Sends, Receives
    <3>6. Acknowledge /\ shift = Byte
      BY <2>3, <3>3, <3>4, <3>5, Hearing, WholeByte DEF Fallen, Receives
    <3> QED
      BY <1>6, <3>4, <3>6 DEF Acknowledge, Byte
  <2> QED
    BY <1>1, <1>6, <2>2, <2>3 DEF RegsInv
\* A byte for a register.
<1>7. CASE ~torn /\ pc = "data"
  <2>1. mode \in {"data", "idle"}
    BY <1>7 DEF ModeInv
  <2>2. /\ k \in {0, 1, 2, 3, 4} /\ Length = 5
        /\ (k < 4 /\ k' = k + 1) \/ (k = 4 /\ NextBit)
    BY <1>1, <1>7, OpAt, PinAt DEF Sends, Length, Starts, Stops, Acks, Answers, Free
  <2>3. call \in Calls /\ call.op = "write" /\ idx < call.count
    BY <1>7 DEF DriverInv, Writing, Free
  <2>4. CASE k < 4
    <3>1. regs' = regs /\ ptr' = ptr /\ mode' = mode
      BY <1>7, <2>2, <2>4, Moves DEF Sends, Still, Raised, Quiet, Rise, device
    <3> QED
      BY <1>1, <1>7, <2>2, <2>4, <3>1 DEF RegsInv
  <2>5. CASE k = 4 /\ (bit + 1 < Width \/ mode = "idle")
    <3>1. Fall
      BY <1>7, <2>5, Moves DEF Sends, Fallen
    <3>2. mode = "data" => n = bit + 1
      BY <1>7, <2>5 DEF StepInv, Sends, Receives
    <3>3. regs' = regs /\ ptr' = ptr /\ mode' = mode
      BY <1>1, <2>1, <2>5, <3>1, <3>2, Hearing DEF Receives, device
    <3>4. mode = "data" => k' = 1
      BY <1>1, <2>2, <2>5 DEF NextBit
    <3> QED
      BY <1>1, <1>7, <2>5, <3>3, <3>4 DEF RegsInv
  <2>6. CASE k = 4 /\ bit + 1 = Width /\ mode = "data"
    <3>1. Fallen
      BY <1>7, <2>6, Moves DEF Sends
    <3>2. n = Width
      BY <1>7, <2>6 DEF StepInv, Sends, Receives
    <3>3. shift = Byte /\ Byte = call.data[idx + 1] /\ k' = 5
      BY <1>1, <1>7, <2>2, <2>6, <3>1, <3>2, WholeByte DEF Receives, Byte, NextBit
    <3>4. /\ call.reg + idx \in Regs /\ call.reg \in Nat /\ call.reg + idx \in Bytes
          /\ (call.reg + idx) % Full = call.reg + idx
      BY <1>3, <2>3, InFile
    <3>5. ptr = call.reg + idx
      <4>1. ptr = (call.reg + idx + (IF k = 5 THEN 1 ELSE 0)) % Full
        BY <1>7, <2>6 DEF RegsInv
      <4>2. call.reg + idx + (IF k = 5 THEN 1 ELSE 0) = call.reg + idx
        BY <1>3, <2>6, <3>4
      <4> QED
        BY <3>4, <4>1, <4>2
    <3>6. CASE mode' = "idle"
      <4>1. regs' = regs
        BY <2>6, <3>1, <3>2, <3>6, Hearing DEF Receives, Fallen
      <4> QED
        BY <1>1, <1>7, <3>6, <4>1 DEF RegsInv
    <3>7. CASE mode' # "idle"
      <4>1. Acknowledge
        BY <2>6, <3>1, <3>2, <3>7, Hearing DEF Receives, Fallen
      <4>2. ptr' = (call.reg + idx + 1) % Full
        BY <2>6, <3>5, <4>1 DEF Acknowledge
      <4>3. regs' = [regs EXCEPT ![call.reg + idx] = call.data[idx + 1]]
        BY <2>6, <3>3, <3>4, <3>5, <4>1 DEF Acknowledge
      <4>4. regs'[call.reg + idx] = call.data[idx + 1]
        BY <1>2, <3>4, <4>3
      <4>5. \A i \in 1 .. idx : regs'[call.reg + i - 1] = call.data[i]
        <5> TAKE i \in 1 .. idx
        <5>1. call.reg + i - 1 # call.reg + idx
          BY <1>3, <3>4
        <5>2. regs'[call.reg + i - 1] = regs[call.reg + i - 1]
          BY <1>2, <4>3, <5>1
        <5>3. regs[call.reg + i - 1] = call.data[i]
          BY <1>7, <2>3 DEF RegsInv
        <5> QED
          BY <5>2, <5>3
      <4> QED
        BY <1>1, <1>7, <3>3, <4>2, <4>4, <4>5 DEF RegsInv
    <3> QED
      BY <3>6, <3>7
  <2> QED
    BY <1>1, <2>1, <2>2, <2>4, <2>5, <2>6
<1> QED
  BY <1>4, <1>5, <1>6, <1>7

-----------------------------------------------------------------------------
(* The bytes of a read *)

LEMMA RegBits ==
    ASSUME DeviceInv, NEW p \in Regs
    PROVE  /\ Reg(p) = regs[p] /\ regs[p] \in Bytes
           /\ \A i \in 0 .. Width - 1 : Bit(regs[p], i + 1) \in {0, 1}
<1>1. Reg(p) = regs[p]
  BY DEF Reg
<1>2. regs[p] \in Bytes
  BY DEF DeviceInv
<1> QED
  BY <1>1, <1>2, SentBits

\* What read_one_byte does with a bit.
LEMMA ShiftedIn ==
    /\ \A v \in Bytes, i \in 0 .. Width - 1 :
          Shifted(Sent(v, i), Bit(v, i + 1)) = Sent(v, i + 1)
    /\ \A i \in 0 .. Width - 1 : Shifted(Pow2[i] - 1, 1) = Pow2[i + 1] - 1
<1> USE I2cAssumption
<1>1. Full \in Nat /\ Full >= 4 /\ Bytes = 0 .. Full - 1
  BY Powers DEF Bytes
<1>2. ASSUME NEW v \in Bytes, NEW i \in 0 .. Width - 1
      PROVE  Shifted(Sent(v, i), Bit(v, i + 1)) = Sent(v, i + 1)
  <2>1. i + 1 \in 0 .. Width
    OBVIOUS
  <2>2. Sent(v, i + 1) = 2 * Sent(v, i) + Bit(v, i + 1) /\ Sent(v, i + 1) \in Bytes
    BY <2>1, SentBits
  <2>3. \A x \in Bytes : x % Full = x
    BY <1>1
  <2> QED
    BY <2>2, <2>3 DEF Shifted
<1>3. ASSUME NEW i \in 0 .. Width - 1
      PROVE  Shifted(Pow2[i] - 1, 1) = Pow2[i + 1] - 1
  <2>1. /\ i \in 0 .. Width /\ i + 1 \in 0 .. Width
        /\ Pow2[i] \in Nat \ {0} /\ Pow2[i + 1] = 2 * Pow2[i] /\ Pow2[i + 1] <= Full
    BY Powers
  <2> DEFINE p == Pow2[i]
  <2>2. p \in Nat \ {0} /\ Pow2[i + 1] = 2 * p /\ 2 * p <= Full
    BY <2>1
  <2> HIDE DEF p
  <2>3. 2 * (p - 1) + 1 = 2 * p - 1 /\ 2 * p - 1 \in 0 .. Full - 1
    BY <1>1, <2>2
  <2>4. (2 * (p - 1) + 1) % Full = 2 * p - 1
    BY <1>1, <2>3
  <2> QED
    BY <2>2, <2>4 DEF Shifted, p
<1> QED
  BY <1>2, <1>3

LEMMA BytesStep ==
    ASSUME PlaceInv, WireInv, DeviceInv, StepInv, DriverInv, ModeInv, RegsInv, BytesInv, PinStep
    PROVE  BytesInv'
<1> SUFFICES ASSUME ~torn'
             PROVE  BytesInv'
  BY DEF BytesInv
<1> USE I2cAssumption
<1>1. /\ pc' = pc /\ k \in Nat /\ bit \in 0 .. Width - 1 /\ k < Length
      /\ call' = call /\ idx' = idx /\ buf' = buf
      /\ pc # "byte" /\ pc \notin Sends => k' = k + 1
      /\ ~torn \/ pc = "start"
  BY PinAt, PlaceStep, TornStep
<1>2. Full \in Nat /\ Full >= 4 /\ ptr \in Bytes /\ Bytes = 0 .. Full - 1
  BY Powers DEF DeviceInv, Bytes
<1>3. /\ n \in 0 .. Width + 1 /\ ssda \in {0, 1} /\ more \in BOOLEAN
      /\ mode = "idle" => ssda = 1
      /\ n = Width + 1 => scl = 1
  BY DEF DeviceInv
<1>4. idx \in Nat
  BY DEF DriverInv
\* The turned bus: nothing is stored, and the device only sends or waits.
<1>5. ASSUME pc \in Turned
      PROVE  /\ ~torn /\ regs' = regs /\ mode \in {"send", "idle"} /\ mode' \in {"send", "idle"}
             /\ mode = "idle" => mode' = "idle" /\ ssda' = 1
             /\ Slice(buf)' = Slice(buf) /\ Floats(buf)' = Floats(buf)
             /\ Slice(buf) \/ Floats(buf)
  <2>1. ~torn /\ mode \in {"send", "idle"} /\ (Slice(buf) \/ Floats(buf))
    BY <1>1, <1>5 DEF Turned, BytesInv
  <2>2. regs' = regs
    BY <2>1, Stored DEF Receives
  <2>3. \/ Still \/ Raised \/ Fallen \/ StopCondition
    BY <1>5, Moves DEF Turned, Stops, Answers, Still
  <2>4. mode' \in {"send", "idle"} /\ (mode = "idle" => mode' = "idle" /\ ssda' = 1)
    <3>1. CASE mode = "idle"
      BY <1>3, <2>3, <3>1, Hearing DEF Still, Raised, Fallen, Quiet, Rise, StopCondition, device
    <3>2. CASE mode = "send"
      <4>1. SendNext => mode' \in {"send", "idle"}
        BY <1>3, <3>2 DEF SendNext
      <4> QED
        BY <2>3, <3>2, <4>1 DEF Still, Raised, Fallen, Quiet, Rise, StopCondition, device, Fall
    <3> QED
      BY <2>1, <3>1, <3>2
  <2>5. Slice(buf)' = Slice(buf) /\ Floats(buf)' = Floats(buf)
    BY <1>1, <2>2 DEF Slice, Floats
  <2> QED
    BY <2>1, <2>2, <2>4, <2>5
<1>6. CASE pc = "sourceAck"
  <2>1. ~torn /\ k' = k + 1 /\ k \in {0, 1, 2, 3, 4}
    BY <1>1, <1>6, OpAt DEF Answers, Sends
  <2>2. ptr = addr /\ addr \in Regs
    <3>1. ptr = addr /\ addr = call.reg + idx /\ idx < call.count /\ call \in Calls
      BY <1>6, <2>1 DEF RegsInv, DriverInv, Free
    <3> QED
      BY <1>4, <3>1, InFile
  <2>3. CASE k = 3
    <3>1. Fall /\ mode \in {"addr", "idle"}
      BY <1>6, <2>1, <2>3, Moves DEF Fallen, Answers, ModeInv
    <3>2. mode = "addr" => n > Width /\ shift = 2 * Device + 1
      BY <1>6, <2>3 DEF StepInv, Receives
    <3>3. (2 * Device + 1) % 2 = 1
      OBVIOUS
    <3>4. mode' = "send" => /\ n' = 0 /\ ssda' = Bit(Reg(ptr), 1)
                            /\ ptr' = ptr /\ regs' = regs
      BY <3>1, <3>2, <3>3, Hearing DEF Receives, device
    <3>5. mode' = "send" => n' = 0 /\ ssda' = Bit(regs[ptr], 1)'
      BY <2>2, <3>4, RegBits DEF Bit
    <3> QED
      BY <1>1, <1>6, <3>5 DEF BytesInv, Turned
  <2>4. CASE k = 4
    <3>1. Still
      BY <1>6, <2>4, Moves DEF Answers
    <3>2. mode' = mode /\ n' = n /\ ssda' = ssda /\ Bit(regs[ptr], 1)' = Bit(regs[ptr], 1)
      BY <3>1 DEF Still, Quiet, device, Bit
    <3> QED
      BY <1>1, <1>6, <2>1, <3>2 DEF BytesInv, Turned
  <2>5. CASE k < 3
    <3>1. mode' = mode
      BY <1>6, <2>1, <2>5, Moves DEF Answers, Still, Quiet, device, Raised, Rise
    <3>2. mode # "send"
      BY <1>6, <2>1, <2>5 DEF ModeInv
    <3> QED
      BY <1>1, <1>6, <3>1, <3>2 DEF BytesInv, Turned
  <2> QED
    BY <2>1, <2>3, <2>4, <2>5
<1>7. CASE pc = "byte"
  <2>1. call \in Calls /\ idx < call.count /\ pc \in Turned
    BY <1>7 DEF DriverInv, Free, Turned
  <2>2. call.reg + idx \in Regs
    BY <1>4, <2>1, InFile
  <2>3. /\ k \in {0, 1, 2, 3, 4, 5} /\ Length = 6 /\ msda = 1
        /\ (k < 5 /\ k' = k + 1 /\ bit' = bit) \/ (k = 5 /\ NextBit)
    BY <1>1, <1>7, OpAt, PinAt DEF WireInv, Sends, Length, Starts, Stops, Acks, Answers, Free
  <2>4. /\ ~torn /\ regs' = regs /\ mode \in {"send", "idle"}
        /\ mode = "idle" => mode' = "idle" /\ ssda' = 1
        /\ Slice(buf)' = Slice(buf) /\ Floats(buf)' = Floats(buf)
    BY <1>5, <2>1
  <2>5. k # 4 => Come' = Come
    BY <1>1, <2>3 DEF Come, NextBit
  <2>6. k = 4 => Come = bit /\ Come' = bit + 1 /\ k' = 5 /\ bit' = bit
    BY <1>1, <2>3 DEF Come
  <2>7. CASE mode = "idle"
    <3>1. Floats(buf) /\ sample = Pow2[Come] - 1
      BY <1>7, <2>4, <2>7 DEF BytesInv, ReadsNothing
    <3>2. k # 4 => sample' = sample
      BY <1>7, <2>3, Moves
    <3>3. k = 4 => sample' = Pow2[bit + 1] - 1
      <4>1. k = 4 => sample' = Shifted(Pow2[bit] - 1, 1)
        BY <1>3, <1>7, <2>6, <2>7, <3>1, Moves
      <4> QED
        BY <1>1, <4>1, ShiftedIn
    <3>4. sample' = Pow2[Come'] - 1
      BY <2>5, <2>6, <3>1, <3>2, <3>3
    <3>5. ReadsNothing'
      BY <2>4, <3>1, <3>4 DEF ReadsNothing
    <3> QED
      BY <1>1, <1>5, <1>7, <2>1, <2>4, <2>7, <3>5 DEF BytesInv, Turned
  <2>8. CASE mode = "send"
    <3> DEFINE v == regs[ptr]
    <3>1. /\ Slice(buf) /\ ptr = call.reg + idx
          /\ n = IF k >= 4 THEN bit + 1 ELSE bit
          /\ ssda = Bit(v, bit + 1)
          /\ sample = Sent(v, Come)
      BY <1>7, <2>3, <2>4, <2>8 DEF BytesInv, ReadsRegister
    <3>2. v \in Bytes /\ Reg(ptr) = v /\ ptr \in Regs
      BY <2>2, <3>1, RegBits
    <3>3. /\ ptr' = ptr /\ mode' = "send"
          /\ n' = IF k = 3 THEN n + 1 ELSE n
          /\ k < 5 => ssda' = ssda
          /\ k = 5 /\ bit + 1 < Width => ssda' = Bit(v, n + 1)
      <4>1. CASE k # 5
        BY <1>7, <2>3, <2>8, <4>1, Moves DEF Still, Raised, Quiet, Rise, device
      <4>2. CASE k = 5
        <5>1. SendNext
          BY <1>7, <2>8, <4>2, Moves DEF Fallen, Fall
        <5>2. n = bit + 1 /\ n <= Width
          BY <1>1, <3>1, <4>2
        <5> QED
          BY <1>1, <2>8, <3>2, <4>2, <5>1, <5>2 DEF SendNext
      <4> QED
        BY <4>1, <4>2
    <3>4. regs'[ptr'] = v
      BY <2>4, <3>3
    <3> HIDE DEF v
    <3>5. sample' = Sent(v, Come')
      <4>1. CASE k # 4
        BY <1>7, <2>3, <2>5, <3>1, <4>1, Moves
      <4>2. CASE k = 4
        <5>1. sample' = Shifted(Sent(v, bit), Bit(v, bit + 1))
          BY <1>7, <2>6, <3>1, <4>2, Moves
        <5> QED
          BY <1>1, <2>6, <3>2, <4>2, <5>1, ShiftedIn
      <4> QED
        BY <4>1, <4>2
    <3>6. k' < 6 => ssda' = Bit(v, bit' + 1)
      BY <1>1, <2>3, <3>1, <3>3 DEF NextBit
    <3>7. n' = IF k' >= 4 THEN bit' + 1 ELSE bit'
      BY <1>1, <2>3, <3>1, <3>3 DEF NextBit
    <3>8. ReadsRegister'
      <4>1. Sent(regs[ptr], Come)' = Sent(v, Come') /\ Bit(regs[ptr], bit + 1)' = Bit(v, bit' + 1)
        BY <3>4 DEF Sent, Bit
      <4> QED
        BY <1>1, <2>4, <3>1, <3>3, <3>5, <3>6, <3>7, <4>1 DEF ReadsRegister
    <3> QED
      BY <1>1, <1>5, <1>7, <2>1, <3>3, <3>8 DEF BytesInv, Turned
  <2> QED
    BY <2>4, <2>7, <2>8
<1>8. CASE pc = "byteAck"
  <2>1. call \in Calls /\ idx < call.count /\ pc \in Turned
    BY <1>8 DEF DriverInv, Free, Turned
  <2>2. /\ call.reg + idx \in Regs /\ call.reg + idx \in Nat /\ call.reg \in Nat
        /\ (call.reg + idx) % Full = call.reg + idx
    BY <1>4, <2>1, InFile
  <2>3. k \in {0, 1, 2, 3, 4} /\ k' = k + 1
    BY <1>1, <1>8, OpAt DEF Answers, Sends
  <2>4. /\ ~torn /\ regs' = regs /\ mode \in {"send", "idle"}
        /\ mode = "idle" => mode' = "idle" /\ ssda' = 1
        /\ Slice(buf)' = Slice(buf) /\ Floats(buf)' = Floats(buf)
    BY <1>5, <2>1
  <2>5. CASE mode = "idle"
    BY <1>1, <1>5, <1>8, <2>1, <2>4, <2>5 DEF BytesInv, Turned
  <2>6. CASE mode = "send"
    <3>1. /\ Slice(buf)
          /\ ptr = call.reg + idx - (IF k < 4 THEN 1 ELSE 0)
          /\ n = IF k < 3 THEN Width ELSE IF k = 3 THEN Width + 1 ELSE 0
          /\ k = 3 => more
          /\ k >= 4 => ssda = Bit(regs[ptr], 1)
      BY <1>8, <2>4, <2>6 DEF BytesInv
    <3>2. CASE k \in {0, 1, 4}
      <4>1. mode' = mode /\ ptr' = ptr /\ n' = n /\ ssda' = ssda
        BY <1>8, <3>2, Moves DEF Answers, Still, Quiet, device
      <4>2. Bit(regs[ptr], 1)' = Bit(regs[ptr], 1)
        BY <2>4, <4>1 DEF Bit
      <4> QED
        BY <1>1, <1>5, <1>8, <2>1, <2>3, <2>4, <2>6, <3>1, <3>2, <4>1, <4>2 DEF BytesInv, Turned
    <3>3. CASE k = 2
      <4>1. n' = n + 1 /\ mode' = mode /\ ptr' = ptr /\ more' = (Sda = 0)
        BY <1>8, <2>6, <3>1, <3>3, Moves DEF Answers, Raised, Rise
      <4>2. Sda = 0
        BY <1>3, <1>8, <3>3 DEF Sda, WireInv, Answers
      <4>3. more'
        BY <4>1, <4>2, Zenon
      <4> QED
        BY <1>1, <1>5, <1>8, <2>1, <2>3, <2>4, <2>6, <3>1, <3>3, <4>1, <4>3 DEF BytesInv, Turned
    <3>4. CASE k = 3
      <4>1. SendNext
        BY <1>8, <2>6, <3>4, Moves DEF Answers, Fallen, Fall
      <4>2. ptr = call.reg + idx - 1 /\ n = Width + 1 /\ more
        BY <3>1, <3>4
      <4>3. (ptr + 1) % Full = call.reg + idx
        <5>1. ptr + 1 = call.reg + idx
          BY <1>4, <2>2, <4>2
        <5> QED
          BY <2>2, <5>1
      <4>4. mode' = "send" /\ n' = 0 /\ ptr' = call.reg + idx /\ ssda' = Bit(Reg(call.reg + idx), 1)
        BY <2>6, <4>1, <4>2, <4>3 DEF SendNext
      <4>5. Reg(call.reg + idx) = regs[call.reg + idx]
        BY <2>2, RegBits
      <4>6. Bit(regs[ptr], 1)' = Bit(Reg(call.reg + idx), 1)
        BY <2>4, <4>4, <4>5 DEF Bit
      <4>7. k' = 4 /\ ptr' = call'.reg + idx' - (IF k' < 4 THEN 1 ELSE 0)
        BY <1>1, <1>4, <2>2, <2>3, <3>4, <4>4
      <4> QED
        BY <1>1, <1>5, <1>8, <2>1, <2>4, <3>1, <4>4, <4>6, <4>7 DEF BytesInv, Turned
    <3> QED
      BY <2>3, <3>2, <3>3, <3>4
  <2> QED
    BY <2>4, <2>5, <2>6
<1>9. CASE pc \in {"lastAck", "readStop"}
  BY <1>1, <1>5, <1>9 DEF BytesInv, Turned
<1>10. CASE pc \notin Turned \cup {"sourceAck"}
  BY <1>1, <1>10 DEF BytesInv, Turned
<1> QED
  BY <1>6, <1>7, <1>8, <1>9, <1>10 DEF Turned

-----------------------------------------------------------------------------
(* The code between two functions *)

LEMMA AtEnd ==
    ASSUME PlaceInv, NEW place, At(place)
    PROVE  /\ pc = place /\ k = Length /\ bit \in 0 .. Width - 1
           /\ place \in Sends => k = 5 /\ bit = Width - 1
           /\ place = "byte" => k = 6 /\ bit = Width - 1
           /\ place \in Acks \cup Answers => k = 5
           /\ place \in Stops => k = 4
           /\ place \in Starts => k = 3
           /\ place \in Free => k = 2
  BY Operation DEF At, PlaceInv, Length, Starts, Stops, Acks, Sends, Answers, Free

LEMMA Between ==
    ASSUME PlaceInv, DeviceInv, UNCHANGED wires, UNCHANGED device,
           pc' \in Places, k' = 0, bit' = 0
    PROVE  PlaceInv' /\ DeviceInv'
<1>1. PlaceInv'
  <2>1. Length' \in Nat /\ (pc' \in Sends \cup {"byte"} => Length' \in {5, 6})
    BY DEF Length, Places, Starts, Stops, Acks, Sends, Answers, Free
  <2> QED
    BY <2>1, I2cAssumption DEF PlaceInv
<1>2. DeviceInv'
  BY DEF DeviceInv, wires, device
<1> QED
  BY <1>1, <1>2

LEMMA IssueStep ==
    ASSUME IInv, Issue
    PROVE  IInv'
<1> USE DEF IInv, Places, Starts, Stops, Acks, Sends, Answers, Free
<1>1. /\ pc = "idle" /\ pc' = "restarts" /\ k' = 0 /\ bit' = 0
      /\ UNCHANGED wires /\ UNCHANGED device /\ UNCHANGED <<sample, torn>>
      /\ call' \in Calls /\ idx' = 0 /\ addr' = 0 /\ inpage' = 0
  BY AtEnd DEF Issue, Go, Same
<1>2. PlaceInv' /\ DeviceInv'
  BY <1>1, Between
<1>3. WireInv'
  BY <1>1 DEF WireInv, SclAt, wires
<1>4. StepInv' /\ EnoughInv'
  BY <1>1 DEF StepInv, EnoughInv
<1>5. DriverInv'
  BY <1>1, Powers, I2cAssumption DEF DriverInv, Writing, Reading, Turned, Bytes
<1>6. ModeInv'
  BY <1>1 DEF ModeInv, device
<1>7. RegsInv'
  BY <1>1 DEF RegsInv
<1>8. BytesInv'
  BY <1>1 DEF BytesInv, Turned
<1> QED
  BY <1>2, <1>3, <1>4, <1>5, <1>6, <1>7, <1>8

LEMMA ReturnStep ==
    ASSUME IInv, GiveUp \/ Written \/ ReadDone
    PROVE  IInv'
<1> USE DEF IInv, Places, Starts, Stops, Acks, Sends, Answers, Free
<1>1. /\ pc \in {"restarts", "writeStop", "readStop"} /\ (pc # "restarts" => k = 4)
      /\ pc' = "idle" /\ k' = 0 /\ bit' = 0 /\ torn' = (torn /\ mode # "idle")
      /\ UNCHANGED wires /\ UNCHANGED device /\ sample' = sample
      /\ call' = NoCall /\ idx' = 0 /\ addr' = 0 /\ inpage' = 0
  BY AtEnd DEF GiveUp, Written, ReadDone, Return, Go
<1>2. PlaceInv' /\ DeviceInv'
  BY <1>1, Between
<1>3. WireInv'
  BY <1>1 DEF WireInv, SclAt, wires
<1>4. StepInv' /\ EnoughInv'
  BY <1>1 DEF StepInv, EnoughInv
<1>5. DriverInv'
  BY <1>1, Powers, I2cAssumption DEF DriverInv, Writing, Reading, Turned, Bytes
<1>6. ModeInv'
  BY <1>1 DEF ModeInv, DeviceInv, device
<1>7. RegsInv'
  BY <1>1 DEF RegsInv
<1>8. BytesInv'
  BY <1>1 DEF BytesInv, Turned
<1> QED
  BY <1>2, <1>3, <1>4, <1>5, <1>6, <1>7, <1>8

LEMMA ResetStep ==
    ASSUME IInv, Reset
    PROVE  IInv'
<1> USE DEF IInv, Places, Starts, Stops, Acks, Sends, Answers, Free
<1>1. /\ pc' \in {"freeScl", "freeSda"} /\ k' = 0 /\ bit' = 0 /\ torn' = (torn \/ ssda = 0)
      /\ UNCHANGED wires /\ UNCHANGED device /\ sample' = sample
      /\ call' = NoCall /\ idx' = 0 /\ addr' = 0 /\ inpage' = 0
  BY DEF Reset, Go
<1>2. PlaceInv' /\ DeviceInv'
  BY <1>1, Between
<1>3. WireInv'
  BY <1>1 DEF WireInv, SclAt, wires
<1>4. StepInv' /\ EnoughInv'
  BY <1>1 DEF StepInv, EnoughInv
<1>5. DriverInv'
  BY <1>1, Powers, I2cAssumption DEF DriverInv, Writing, Reading, Turned, Bytes
<1>6. ModeInv'
  BY <1>1 DEF ModeInv, DeviceInv, device
<1>7. RegsInv'
  BY <1>1 DEF RegsInv
<1>8. BytesInv'
  BY <1>1 DEF BytesInv, Turned
<1> QED
  BY <1>2, <1>3, <1>4, <1>5, <1>6, <1>7, <1>8

LEMMA RestartStep ==
    ASSUME IInv, Restart
    PROVE  IInv'
<1> USE DEF IInv, Places, Starts, Stops, Acks, Sends, Answers, Free
<1>1. /\ pc = "restarts" /\ pc' = "start" /\ k' = 0 /\ bit' = 0
      /\ UNCHANGED wires /\ UNCHANGED device /\ UNCHANGED <<sample, torn, call>>
      /\ idx' = 0 /\ addr' = call.reg /\ inpage' = 0 /\ buf' = <<>>
  BY AtEnd DEF Restart, FromTheTop, Go, Same
<1>2. PlaceInv' /\ DeviceInv'
  BY <1>1, Between
<1>3. WireInv'
  BY <1>1 DEF WireInv, SclAt, wires
<1>4. StepInv' /\ EnoughInv'
  BY <1>1 DEF StepInv, EnoughInv
<1>5. DriverInv'
  <2>1. call \in Calls /\ sample \in Bytes
    BY <1>1 DEF DriverInv
  <2>2. call.reg \in Nat /\ call.reg \in Bytes /\ 0 < call.count /\ PageSize \in Nat
    <3>1. call.count \in Nat \ {0} /\ call.reg \in Regs /\ NRegs \in 1 .. Full /\ PageSize \in Nat
      BY <2>1, I2cAssumption
    <3> QED
      BY <3>1, Powers DEF Regs, Bytes
  <2> QED
    BY <1>1, <2>1, <2>2 DEF DriverInv, Writing, Reading, Turned
<1>6. ModeInv'
  BY <1>1 DEF ModeInv, device
<1>7. RegsInv'
  BY <1>1 DEF RegsInv
<1>8. BytesInv'
  BY <1>1 DEF BytesInv, Turned
<1> QED
  BY <1>2, <1>3, <1>4, <1>5, <1>6, <1>7, <1>8

LEMMA NotAcknowledgedStep ==
    ASSUME IInv, NotAcknowledged
    PROVE  IInv'
<1> USE DEF IInv, Places, Starts, Stops, Acks, Sends, Answers, Free
<1>1. /\ pc \in Acks /\ k = 5 /\ sample = 1 /\ pc' = "retryStop" /\ k' = 0 /\ bit' = 0
      /\ UNCHANGED wires /\ UNCHANGED device
      /\ UNCHANGED <<sample, torn, call, idx, addr, inpage, buf>>
  BY AtEnd DEF NotAcknowledged, Go, Same
<1>2. PlaceInv' /\ DeviceInv'
  BY <1>1, Between
<1>3. WireInv'
  BY <1>1 DEF WireInv, SclAt, wires
<1>4. StepInv' /\ EnoughInv'
  BY <1>1 DEF StepInv, EnoughInv, device
<1>5. DriverInv'
  BY <1>1 DEF DriverInv, Writing, Reading, Turned
<1>6. ModeInv'
  BY <1>1 DEF ModeInv, device
<1>7. RegsInv'
  BY <1>1 DEF RegsInv, device
<1>8. BytesInv'
  BY <1>1 DEF BytesInv, Turned
<1> QED
  BY <1>2, <1>3, <1>4, <1>5, <1>6, <1>7, <1>8

LEMMA SendRegisterStep ==
    ASSUME IInv, SendRegister
    PROVE  IInv'
<1> USE DEF IInv, Places, Starts, Stops, Acks, Sends, Answers, Free
<1>1. /\ pc = "deviceAck" /\ k = 5 /\ sample = 0 /\ pc' = "register" /\ k' = 0 /\ bit' = 0
      /\ UNCHANGED wires /\ UNCHANGED device
      /\ UNCHANGED <<sample, torn, call, idx, addr, inpage, buf>>
  BY AtEnd DEF SendRegister, Go, Same
<1>2. PlaceInv' /\ DeviceInv'
  BY <1>1, Between
<1>3. WireInv'
  BY <1>1 DEF WireInv, SclAt, wires
<1>4. StepInv' /\ EnoughInv'
  BY <1>1 DEF StepInv, EnoughInv, device
<1>5. DriverInv'
  BY <1>1 DEF DriverInv, Writing, Reading, Turned
<1>6. ModeInv'
  BY <1>1 DEF ModeInv, device
<1>7. RegsInv'
  BY <1>1 DEF RegsInv, device
<1>8. BytesInv'
  BY <1>1 DEF BytesInv, Turned
<1> QED
  BY <1>2, <1>3, <1>4, <1>5, <1>6, <1>7, <1>8

LEMMA ReadAddressStep ==
    ASSUME IInv, ReadAddress
    PROVE  IInv'
<1> USE DEF IInv, Places, Starts, Stops, Acks, Sends, Answers, Free
<1>1. /\ pc = "registerAck" /\ k = 5 /\ sample = 0 /\ pc' = "restart" /\ k' = 0 /\ bit' = 0
      /\ call.op = "read" /\ UNCHANGED wires /\ UNCHANGED device
      /\ UNCHANGED <<sample, torn, call, idx, addr, inpage, buf>>
  BY AtEnd DEF ReadAddress, Go, Same
<1>2. PlaceInv' /\ DeviceInv'
  BY <1>1, Between
<1>3. WireInv'
  BY <1>1 DEF WireInv, SclAt, wires
<1>4. StepInv' /\ EnoughInv'
  BY <1>1 DEF StepInv, EnoughInv, device
<1>5. DriverInv'
  BY <1>1 DEF DriverInv, Writing, Reading, Turned
<1>6. ModeInv'
  BY <1>1 DEF ModeInv, device
<1>7. RegsInv'
  BY <1>1 DEF RegsInv, ModeInv, device
<1>8. BytesInv'
  BY <1>1 DEF BytesInv, Turned
<1> QED
  BY <1>2, <1>3, <1>4, <1>5, <1>6, <1>7, <1>8

LEMMA WriteDataStep ==
    ASSUME IInv, WriteData
    PROVE  IInv'
<1> USE DEF IInv, Places, Starts, Stops, Acks, Sends, Answers, Free
<1> DEFINE done == IF pc = "dataAck" THEN idx + 1 ELSE idx
<1>1. /\ pc \in {"registerAck", "dataAck"} /\ k = 5 /\ sample = 0 /\ call.op = "write"
      /\ pc' \in {"writeStop", "pageStop", "data"} /\ k' = 0 /\ bit' = 0 /\ idx' = done
      /\ UNCHANGED wires /\ UNCHANGED device
      /\ UNCHANGED <<sample, torn, call, buf>>
      /\ pc' = "writeStop" => done = call.count /\ addr' = addr /\ inpage' = inpage
      /\ pc' = "pageStop" => /\ done < call.count /\ inpage = PageSize
                             /\ inpage' = 0 /\ addr' = (addr + PageSize) % Full
      /\ pc' = "data" => /\ done < call.count /\ inpage < PageSize
                         /\ inpage' = inpage + 1 /\ addr' = addr
  BY AtEnd DEF WriteData, Go, Same
<1>2. PlaceInv' /\ DeviceInv'
  BY <1>1, Between
<1>3. WireInv'
  BY <1>1 DEF WireInv, SclAt, wires
<1>4. StepInv' /\ EnoughInv'
  BY <1>1 DEF StepInv, EnoughInv, device
<1>5. /\ call \in Calls /\ idx \in Nat /\ addr \in Bytes /\ inpage \in 0 .. PageSize /\ buf = <<>>
      /\ PageSize \in Nat \ {0} /\ Bytes \subseteq Nat /\ call.reg \in Nat
      /\ pc = "registerAck" => addr = call.reg + idx /\ inpage = 0 /\ idx < call.count
      /\ pc = "dataAck" => addr + inpage = call.reg + idx + 1 /\ inpage > 0 /\ idx < call.count
  <2>1. call \in Calls
    BY <1>1 DEF DriverInv
  <2>2. call.reg \in Nat /\ PageSize \in Nat \ {0} /\ Bytes \subseteq Nat
    BY <2>1, I2cAssumption, Powers DEF Regs, Bytes
  <2> QED
    BY <1>1, <2>1, <2>2 DEF DriverInv, Writing
<1>6. idx' \in Nat /\ idx' = IF pc = "dataAck" THEN idx + 1 ELSE idx
  BY <1>1, <1>5
<1>7. idx' < call.count => /\ call.reg + idx' \in Bytes
                           /\ (call.reg + idx') % Full = call.reg + idx'
  BY <1>5, <1>6, Within
<1>8. DriverInv'
  <2>1. CASE pc' = "writeStop"
    BY <1>1, <1>5, <1>6, <2>1 DEF DriverInv, Writing, Reading, Turned
  <2>2. CASE pc' = "pageStop"
    <3>1. idx' < call.count /\ addr + PageSize = call.reg + idx'
      BY <1>1, <1>5, <1>6, <2>2
    <3>2. addr' = call.reg + idx' /\ addr' \in Bytes
      BY <1>1, <1>7, <2>2, <3>1
    <3> QED
      BY <1>1, <1>5, <1>6, <2>2, <3>1, <3>2 DEF DriverInv, Writing, Reading, Turned
  <2>3. CASE pc' = "data"
    <3>1. addr' + inpage' = call.reg + idx' + 1 /\ idx' < call.count /\ inpage' \in 1 .. PageSize
      BY <1>1, <1>5, <1>6, <2>3
    <3> QED
      BY <1>1, <1>5, <1>6, <2>3, <3>1 DEF DriverInv, Writing, Reading, Turned
  <2> QED
    BY <1>1, <2>1, <2>2, <2>3
<1>9. ~torn => mode = "data" /\ ssda = 1
  BY <1>1 DEF ModeInv
<1>10. ModeInv'
  BY <1>1, <1>9 DEF ModeInv, device
<1>11. RegsInv'
  <2> SUFFICES ASSUME ~torn
               PROVE  RegsInv'
    BY <1>1 DEF RegsInv
  <2>1. \A i \in 1 .. idx' : regs[call.reg + i - 1] = call.data[i]
    <3>1. \A i \in 1 .. idx : regs[call.reg + i - 1] = call.data[i]
      BY <1>1, <1>5 DEF RegsInv
    <3>2. pc = "dataAck" => regs[call.reg + idx] = call.data[idx + 1]
      BY <1>1, <1>9 DEF RegsInv
    <3> TAKE i \in 1 .. idx'
    <3>3. CASE i \in 1 .. idx
      BY <3>1, <3>3
    <3>4. CASE i = idx + 1 /\ pc = "dataAck"
      <4>1. call.reg + i - 1 = call.reg + idx
        BY <1>5, <3>4
      <4> QED
        BY <3>2, <3>4, <4>1
    <3> QED
      BY <1>5, <1>6, <3>3, <3>4
  <2>2. pc' = "data" => ptr = (call.reg + idx' + 0) % Full
    <3> SUFFICES ASSUME pc' = "data"
                 PROVE  ptr = (call.reg + idx' + 0) % Full
      OBVIOUS
    <3>1. call.reg + idx' + 0 = call.reg + idx' /\ idx' < call.count
      BY <1>1, <1>5, <1>6
    <3>2. CASE pc = "registerAck"
      <4>1. ptr = addr
        BY <1>1, <1>9, <3>2 DEF RegsInv
      <4> QED
        BY <1>5, <1>6, <1>7, <3>1, <3>2, <4>1
    <3>3. CASE pc = "dataAck"
      <4>1. ptr = (call.reg + idx + 1) % Full
        BY <1>1, <1>9, <3>3 DEF RegsInv
      <4>2. call.reg + idx + 1 = call.reg + idx'
        BY <1>5, <1>6, <3>3
      <4> QED
        BY <3>1, <4>1, <4>2
    <3> QED
      BY <1>1, <3>2, <3>3
  <2> QED
    BY <1>1, <2>1, <2>2 DEF RegsInv, device
<1>12. BytesInv'
  BY <1>1 DEF BytesInv, Turned
<1> QED
  BY <1>2, <1>3, <1>4, <1>8, <1>10, <1>11, <1>12

LEMMA ReadByteStep ==
    ASSUME IInv, ReadByte
    PROVE  IInv'
<1> USE DEF IInv, Places, Starts, Stops, Acks, Sends, Answers, Free
<1>1. /\ pc = "byte" /\ k = 6 /\ bit = Width - 1 /\ k' = 0 /\ bit' = 0
      /\ idx' = idx + 1 /\ buf' = Append(buf, sample)
      /\ pc' = IF idx + 1 = call.count THEN "lastAck" ELSE "byteAck"
      /\ UNCHANGED wires /\ UNCHANGED device
      /\ UNCHANGED <<sample, torn, call, addr, inpage>>
  BY AtEnd DEF ReadByte, Go, Same
<1>2. PlaceInv' /\ DeviceInv'
  BY <1>1, Between
<1>3. WireInv'
  BY <1>1 DEF WireInv, SclAt, wires
<1>4. StepInv'
  BY <1>1 DEF StepInv, device
<1>5. Width \in Nat /\ Width > 1 /\ (Width - 1) + 1 = Width
  BY I2cAssumption
<1>6. EnoughInv'
  BY <1>1, <1>5 DEF EnoughInv, device
<1>7. /\ call \in Calls /\ call.op = "read" /\ idx \in Nat /\ idx < call.count
      /\ sample \in Bytes /\ buf \in [1 .. idx -> Bytes]
  BY <1>1 DEF DriverInv, Reading, Turned
<1>8. /\ call.reg + idx \in Regs /\ call.reg \in Nat /\ call.count \in Nat
  BY <1>7, InFile
<1>9. /\ buf' \in [1 .. idx + 1 -> Bytes] /\ buf'[idx + 1] = sample
      /\ \A i \in 1 .. idx : buf'[i] = buf[i]
  <2>1. buf \in Seq(Bytes) /\ Len(buf) = idx
    BY <1>7
  <2>2. Append(buf, sample) \in Seq(Bytes) /\ Len(Append(buf, sample)) = idx + 1
    BY <1>7, <2>1
  <2>3. Append(buf, sample) \in [1 .. idx + 1 -> Bytes]
    <3> DEFINE b == Append(buf, sample)
    <3>1. b \in Seq(Bytes) /\ Len(b) = idx + 1
      BY <2>2
    <3> HIDE DEF b
    <3>2. b \in [1 .. idx + 1 -> Bytes]
      BY <3>1
    <3> QED
      BY <3>2 DEF b
  <2>4. Append(buf, sample)[idx + 1] = sample
    BY <1>7, <2>1
  <2>5. \A i \in 1 .. idx : Append(buf, sample)[i] = buf[i]
    BY <1>7, <2>1
  <2> QED
    BY <1>1, <2>3, <2>4, <2>5
<1>10. DriverInv'
  BY <1>1, <1>7, <1>8, <1>9 DEF DriverInv, Writing, Reading, Turned
<1>11. ModeInv'
  BY <1>1 DEF ModeInv
<1>12. RegsInv'
  <2>1. call.op # "write"
    BY <1>7
  <2> QED
    BY <1>1, <2>1 DEF RegsInv
<1>13. BytesInv'
  <2> SUFFICES ASSUME ~torn
               PROVE  BytesInv'
    BY <1>1 DEF BytesInv
  <2>1. mode \in {"send", "idle"}
    BY <1>1 DEF BytesInv, Turned
  <2>2. Come = Width
    BY <1>1, <1>5 DEF Come
  <2>3. mode = "send" => /\ Slice(buf) /\ ptr = call.reg + idx /\ n = Width
                         /\ sample = Sent(regs[ptr], Width)
    BY <1>1, <1>5, <2>2 DEF BytesInv, ReadsRegister
  <2>4. mode = "idle" => Floats(buf) /\ sample = Full - 1
    BY <1>1, <2>2 DEF BytesInv, ReadsNothing, Full
  <2>5. mode = "send" => sample = regs[call.reg + idx]
    BY <1>8, <2>3, SentBits, RegBits
  <2>6. mode = "send" => Slice(buf)'
    <3> SUFFICES ASSUME mode = "send", NEW i \in 1 .. idx + 1
                 PROVE  buf'[i] = regs[call.reg + i - 1]
      BY <1>1 DEF Slice, device
    <3>1. CASE i \in 1 .. idx
      BY <1>9, <2>3, <3>1 DEF Slice
    <3>2. CASE i = idx + 1
      <4>1. call.reg + i - 1 = call.reg + idx
        BY <1>7, <1>8, <3>2
      <4> QED
        BY <1>9, <2>5, <3>2, <4>1
    <3> QED
      BY <1>7, <3>1, <3>2
  <2>7. mode = "idle" => Floats(buf)'
    <3> SUFFICES ASSUME mode = "idle", NEW i \in 1 .. idx + 1
                 PROVE  buf'[i] = Full - 1
      BY <1>1 DEF Floats
    <3>1. CASE i \in 1 .. idx
      BY <1>9, <2>4, <3>1 DEF Floats
    <3>2. CASE i = idx + 1
      BY <1>9, <2>4, <3>2
    <3> QED
      BY <1>7, <3>1, <3>2
  <2>8. ptr = call.reg + idx => ptr = call.reg + idx' - 1
    BY <1>1, <1>7, <1>8
  <2> QED
    BY <1>1, <2>1, <2>3, <2>6, <2>7, <2>8 DEF BytesInv, Turned, device
<1> QED
  BY <1>2, <1>3, <1>4, <1>6, <1>10, <1>11, <1>12, <1>13

LEMMA ProceedStep ==
    ASSUME IInv, Proceed
    PROVE  IInv'
<1> USE DEF IInv, Places, Starts, Stops, Acks, Sends, Answers, Free
<1>1. /\ \E next \in Following : pc = next[1] /\ pc' = next[2]
      /\ <<pc, pc'>> \in Following /\ k' = 0 /\ bit' = 0
      /\ sample' = IF pc' = "byte" THEN 0 ELSE sample
      /\ UNCHANGED wires /\ UNCHANGED device
      /\ UNCHANGED <<call, idx, addr, inpage, buf, torn>>
      /\ pc \in Sends => k = 5 /\ bit = Width - 1
      /\ pc \in Answers => k = 5
      /\ pc \in Stops => k = 4
      /\ pc \in Starts => k = 3
      /\ pc \in Free => k = 2
  BY AtEnd DEF Proceed, Go, Following
<1>2. PlaceInv' /\ DeviceInv'
  <2>1. pc' \in Places
    BY <1>1 DEF Following
  <2> QED
    BY <1>1, <2>1, Between
<1>3. WireInv'
  BY <1>1 DEF WireInv, SclAt, wires, Following
<1>4. n \in 0 .. Width + 1 /\ (n = Width + 1 => scl = 1) /\ Width \in Nat /\ Width > 1
  BY I2cAssumption DEF DeviceInv
<1>5. pc \in Sends => Sent(Byte, Width) = Byte
  BY ByteType, SentBits
<1>6. StepInv'
  BY <1>1, <1>4, <1>5 DEF StepInv, Following, device, Byte
<1>7. pc \in {"sourceAck", "byteAck"} => scl = 0
  BY <1>1 DEF WireInv, SclAt
<1>8. EnoughInv'
  BY <1>1, <1>4, <1>7 DEF EnoughInv, Following, device, StepInv, DeviceInv
<1>9. DriverInv'
  <2>1. 0 \in Bytes
    BY Powers DEF Bytes
  <2>2. CASE pc \in {"start", "device", "register", "data", "restart", "source"}
    BY <1>1, <2>2 DEF DriverInv, Following, Writing, Reading, Turned
  <2>3. CASE pc \in {"pageStop", "retryStop", "freeScl", "freeSda"}
    BY <1>1, <2>3 DEF DriverInv, Following, Writing, Reading, Turned
  <2>4. CASE pc = "sourceAck"
    <3>1. idx = 0 /\ buf = <<>> /\ call \in Calls /\ call.op = "read" /\ idx < call.count
      BY <2>4 DEF DriverInv, Reading
    <3>2. buf \in [1 .. idx -> Bytes]
      BY <3>1
    <3> QED
      BY <1>1, <2>1, <2>4, <3>1, <3>2 DEF DriverInv, Following, Writing, Reading, Turned
  <2>5. CASE pc \in {"byteAck", "lastAck"}
    BY <1>1, <2>1, <2>5 DEF DriverInv, Following, Writing, Reading, Turned
  <2> QED
    BY <1>1, <2>2, <2>3, <2>4, <2>5 DEF Following
<1>10. ModeInv'
  BY <1>1, <1>4, <1>5 DEF ModeInv, Following, device, DeviceInv, StepInv, WireInv, SclAt, Byte, Receives, EnoughInv
<1>11. RegsInv'
  BY <1>1 DEF RegsInv, Following, device
<1>12. BytesInv'
  <2> SUFFICES ASSUME ~torn
               PROVE  BytesInv'
    BY <1>1 DEF BytesInv
  <2>1. CASE pc' = "byte"
    <3>1. pc \in {"sourceAck", "byteAck"} /\ k = 5 /\ sample' = 0
      BY <1>1, <2>1 DEF Following
    <3>2. Come' = 0 /\ 0 + 1 = 1 /\ Pow2[0] - 1 = 0
      BY <1>1, Pow2Facts DEF Come
    <3>3. mode \in {"send", "idle"}
      BY <3>1 DEF ModeInv, BytesInv, Turned
    <3>4. call \in Calls /\ idx \in Nat /\ idx < call.count /\ call.reg + idx \in Regs /\ call.reg \in Nat
      BY <3>1, InFile DEF DriverInv, Reading
    <3>5. ASSUME pc = "sourceAck"
          PROVE  /\ mode = "send" => /\ Slice(buf) /\ ptr = call.reg + idx /\ n = 0
                                    /\ ssda = Bit(regs[ptr], 1) /\ Sent(regs[ptr], 0) = 0
                 /\ mode = "idle" => Floats(buf)
      <4>1. idx = 0 /\ addr = call.reg + idx
        BY <3>5 DEF DriverInv, Reading
      <4>2. Slice(buf) /\ Floats(buf)
        BY <4>1 DEF Slice, Floats
      <4>3. ptr = call.reg + idx
        BY <3>5, <4>1 DEF RegsInv
      <4>4. mode = "send" => n = 0 /\ ssda = Bit(regs[ptr], 1)
        BY <3>5 DEF BytesInv
      <4>5. regs[ptr] \in Bytes
        BY <3>4, <4>3, RegBits
      <4>6. Sent(regs[ptr], 0) = 0
        BY <4>5, SentBits
      <4>7. (mode = "send" => Slice(buf) /\ n = 0) /\ (mode = "idle" => Floats(buf))
        BY <4>2, <4>4
      <4> QED
        BY <4>3, <4>4, <4>6, <4>7
    <3>6. ASSUME pc = "byteAck"
          PROVE  /\ mode = "send" => /\ Slice(buf) /\ ptr = call.reg + idx /\ n = 0
                                    /\ ssda = Bit(regs[ptr], 1) /\ Sent(regs[ptr], 0) = 0
                 /\ mode = "idle" => Floats(buf)
      <4>1. mode = "send" => /\ Slice(buf) /\ ptr = call.reg + idx - 0 /\ n = 0
                             /\ ssda = Bit(regs[ptr], 1)
        BY <3>1, <3>6 DEF BytesInv
      <4>2. mode = "idle" => Floats(buf)
        BY <3>6 DEF BytesInv
      <4>3. call.reg + idx - 0 = call.reg + idx
        BY <3>4
      <4>4. mode = "send" => Sent(regs[ptr], 0) = 0
        BY <3>4, <4>1, <4>3, RegBits, SentBits
      <4> QED
        BY <4>1, <4>2, <4>3, <4>4
    <3>7. Slice(buf)' = Slice(buf) /\ Floats(buf)' = Floats(buf)
      BY <1>1 DEF Slice, Floats, device
    <3>8. Sent(regs[ptr], Come)' = Sent(regs[ptr], 0) /\ Bit(regs[ptr], bit + 1)' = Bit(regs[ptr], 1)
      BY <1>1, <3>2 DEF device, Sent, Bit
    <3>9. mode = "send" => ReadsRegister'
      BY <1>1, <3>1, <3>2, <3>5, <3>6, <3>7, <3>8 DEF ReadsRegister, device
    <3>10. mode = "idle" => ReadsNothing'
      BY <1>1, <3>1, <3>2, <3>5, <3>6, <3>7 DEF ReadsNothing
    <3>11. Slice(buf)' \/ Floats(buf)'
      BY <3>1, <3>3, <3>5, <3>6, <3>7
    <3> QED
      BY <1>1, <2>1, <3>3, <3>9, <3>10, <3>11 DEF BytesInv, Turned, device
  <2>2. CASE pc' = "readStop"
    <3>1. pc = "lastAck"
      BY <1>1, <2>2 DEF Following
    <3> QED
      BY <1>1, <2>2, <3>1 DEF BytesInv, Turned, Slice, Floats, device
  <2>3. CASE pc' = "sourceAck"
    <3>1. mode # "send"
      BY <1>1, <2>3 DEF ModeInv, Following
    <3> QED
      BY <1>1, <2>3, <3>1 DEF BytesInv, Turned, device
  <2> QED
    BY <1>1, <2>1, <2>2, <2>3 DEF BytesInv, Turned, Following
<1> QED
  BY <1>2, <1>3, <1>6, <1>8, <1>9, <1>10, <1>11, <1>12

-----------------------------------------------------------------------------
(* The invariant *)

LEMMA InitIInv == Init => IInv
<1> SUFFICES ASSUME Init
             PROVE  IInv
  OBVIOUS
<1> USE I2cAssumption DEF Init, Places, Starts, Stops, Acks, Sends, Answers, Free
<1>1. 0 \in Bytes /\ regs \in [Regs -> Bytes]
  BY Powers DEF Bytes
<1>2. PlaceInv
  BY DEF PlaceInv, Length
<1>3. WireInv
  BY DEF WireInv, SclAt
<1>4. DeviceInv
  <2>1. Width + 1 \in Nat /\ 0 # Width + 1 /\ 0 # Width /\ 0 \in 0 .. Width + 1
    OBVIOUS
  <2> QED
    BY <1>1, <2>1 DEF DeviceInv, Receives
<1>5. StepInv /\ EnoughInv
  BY DEF StepInv, EnoughInv, Receives
<1>6. DriverInv
  BY <1>1 DEF DriverInv, Writing, Reading, Turned
<1>7. ModeInv
  BY DEF ModeInv
<1>8. RegsInv
  BY DEF RegsInv
<1>9. BytesInv
  BY DEF BytesInv, Turned
<1> QED
  BY <1>2, <1>3, <1>4, <1>5, <1>6, <1>7, <1>8, <1>9 DEF IInv

LEMMA NextIInv == IInv /\ [Next]_vars => IInv'
<1> SUFFICES ASSUME IInv, [Next]_vars
             PROVE  IInv'
  OBVIOUS
<1>1. CASE PinStep
  <2>1. /\ PlaceInv /\ WireInv /\ DeviceInv /\ StepInv /\ EnoughInv /\ DriverInv
        /\ ModeInv /\ RegsInv /\ BytesInv
    BY DEF IInv
  <2>2. PlaceInv' /\ WireInv' /\ DeviceInv'
    BY <1>1, <2>1, PlaceStep, WireStep, DeviceStep
  <2>3. StepInv' /\ EnoughInv' /\ DriverInv'
    BY <1>1, <2>1, StepStep, EnoughStep, DriverStep
  <2>4. ModeInv' /\ RegsInv' /\ BytesInv'
    BY <1>1, <2>1, ModeStep, RegsStep, BytesStep
  <2> QED
    BY <2>2, <2>3, <2>4 DEF IInv
<1>2. CASE UNCHANGED vars
  <2>1. /\ UNCHANGED <<scl, msda>> /\ UNCHANGED <<mode, n, shift, ssda, ptr, more, regs>>
        /\ UNCHANGED <<pc, k, bit, call, idx, addr, inpage, sample, buf, torn>>
    BY <1>2 DEF vars
  <2>2. PlaceInv' /\ WireInv' /\ DeviceInv'
    BY <2>1 DEF IInv, PlaceInv, Length, WireInv, SclAt, Bit, Byte, DeviceInv
  <2>3. StepInv' /\ EnoughInv' /\ DriverInv'
    BY <2>1 DEF IInv, StepInv, Sent, Byte, EnoughInv, DriverInv
  <2>4. ModeInv' /\ RegsInv'
    BY <2>1 DEF IInv, ModeInv, RegsInv
  <2>5. BytesInv'
    BY <2>1 DEF IInv, BytesInv, ReadsRegister, ReadsNothing, Slice, Floats, Come, Sent, Bit
  <2> QED
    BY <2>2, <2>3, <2>4, <2>5 DEF IInv
<1>3. CASE Proceed
  BY <1>3, ProceedStep
<1>4. CASE GiveUp \/ Written \/ ReadDone
  BY <1>4, ReturnStep
<1>5. CASE Restart
  BY <1>5, RestartStep
<1>6. CASE NotAcknowledged
  BY <1>6, NotAcknowledgedStep
<1>7. CASE SendRegister
  BY <1>7, SendRegisterStep
<1>8. CASE WriteData
  BY <1>8, WriteDataStep
<1>9. CASE ReadAddress
  BY <1>9, ReadAddressStep
<1>10. CASE ReadByte
  BY <1>10, ReadByteStep
<1>11. CASE Issue
  BY <1>11, IssueStep
<1>12. CASE Reset
  BY <1>12, ResetStep
<1> QED
  BY <1>1, <1>2, <1>3, <1>4, <1>5, <1>6, <1>7, <1>8, <1>9, <1>10, <1>11, <1>12 DEF Next, Drive

\* At every pin operation, through every refusal and reset: driver and device mean the same
\* by every byte after the START of a call, and the bits, registers and buffer agree with it.
THEOREM Invariant == Spec => []IInv
<1>1. Init => IInv
  BY InitIInv
<1>2. IInv /\ [Next]_vars => IInv'
  BY NextIInv
<1> QED
  BY <1>1, <1>2, PTL DEF Spec

-----------------------------------------------------------------------------
(* The register file *)

\* What a step of the driver is to the caller.
LEMMA ReturnFile ==
    ASSUME IInv, ~torn, Written \/ ReadDone
    PROVE  File!Return
<1>1. CASE Written
  <2>1. /\ pc = "writeStop" /\ call' = NoCall /\ regs' = regs
        /\ ret' = [answer |-> "done", bytes |-> <<>>]
    BY <1>1, AtEnd DEF IInv, Written, Return, device
  <2>2. /\ call \in Calls /\ call.op = "write" /\ idx = call.count
        /\ \A i \in 1 .. idx : regs[call.reg + i - 1] = call.data[i]
    BY <2>1 DEF IInv, DriverInv, RegsInv, Writing, Free
  <2>3. call.data \in [1 .. call.count -> Bytes]
    BY <2>2, I2cAssumption
  <2>4. File!Slice = call.data
    BY <2>2, <2>3 DEF File!Slice
  <2>5. call # NoCall
    BY <2>2 DEF NoCall
  <2> QED
    BY <2>1, <2>2, <2>4, <2>5 DEF File!Return, File!Answer
<1>2. CASE ReadDone
  <2>1. /\ pc = "readStop" /\ call' = NoCall /\ regs' = regs
        /\ ret' = [answer |-> "done", bytes |-> buf]
    BY <1>2, AtEnd DEF IInv, ReadDone, Return, device
  <2>2. /\ call \in Calls /\ call.op = "read" /\ idx = call.count
        /\ buf \in [1 .. idx -> Bytes] /\ (Slice(buf) \/ Floats(buf))
    BY <2>1 DEF IInv, DriverInv, BytesInv, Reading, Turned, Free
  <2>3. buf = File!Slice \/ buf = [i \in 1 .. call.count |-> Full - 1]
    BY <2>2 DEF File!Slice, Slice, Floats
  <2>4. call # NoCall
    BY <2>2 DEF NoCall
  <2> QED
    BY <2>1, <2>2, <2>3, <2>4 DEF File!Return, File!Answer
<1> QED
  BY <1>1, <1>2

LEMMA FileStep ==
    ASSUME IInv, [Next]_vars
    PROVE  File!Next \/ torn \/ UNCHANGED <<regs, call, ret>>
<1> SUFFICES ASSUME ~torn
             PROVE  File!Next \/ UNCHANGED <<regs, call, ret>>
  OBVIOUS
<1>1. CASE PinStep
  <2>1. call' = call /\ ret' = ret
    BY <1>1 DEF PinStep
  <2> SUFFICES ASSUME regs' # regs
               PROVE  File!Store
    BY <2>1 DEF File!Next
  <2>2. /\ mode # "idle" /\ Acknowledge /\ mode \in Receives /\ pc \in Sends /\ shift = Byte
        /\ mode # "send"
    BY <1>1, Stored DEF IInv
  <2>3. mode = "data" /\ pc = "data" /\ k = 4
    BY <1>1, <2>2, Stored DEF IInv, ModeInv, Acknowledge, Sends, Receives
  <2>4. call \in Calls /\ call.op = "write" /\ idx \in Nat /\ idx < call.count
    BY <2>3 DEF IInv, DriverInv, Writing, Free
  <2>5. /\ call.reg + idx \in Regs /\ call.reg \in Nat /\ call.count \in Nat
        /\ (call.reg + idx) % Full = call.reg + idx
    BY <2>4, InFile
  <2>6. ptr = call.reg + idx
    <3>1. ptr = (call.reg + idx + 0) % Full
      BY <2>3 DEF IInv, RegsInv
    <3>2. call.reg + idx + 0 = call.reg + idx
      BY <2>4, <2>5
    <3> QED
      BY <2>5, <3>1, <3>2
  <2>7. regs' = [regs EXCEPT ![call.reg + (idx + 1) - 1] = call.data[idx + 1]]
    <3>1. call.reg + (idx + 1) - 1 = call.reg + idx
      BY <2>4, <2>5
    <3> QED
      BY <2>2, <2>3, <2>5, <2>6, <3>1 DEF Acknowledge, Byte
  <2>8. idx + 1 \in 1 .. call.count /\ call # NoCall
    BY <2>4, <2>5 DEF NoCall
  <2> QED
    BY <2>1, <2>4, <2>7, <2>8 DEF File!Store
<1>2. CASE Written \/ ReadDone
  BY <1>2, ReturnFile DEF File!Next
<1>3. CASE GiveUp
  <2>1. /\ pc = "restarts" /\ call' = NoCall /\ regs' = regs
        /\ ret' = [answer |-> "failed", bytes |-> <<>>]
    BY <1>3, AtEnd DEF IInv, GiveUp, Return, device
  <2>2. call # NoCall
    BY <2>1, I2cAssumption DEF IInv, DriverInv, Free, NoCall
  <2> QED
    BY <2>1, <2>2 DEF File!Next, File!Return, File!Answer
<1>4. CASE Issue
  <2>1. call = NoCall
    BY <1>4, AtEnd DEF IInv, Issue, DriverInv
  <2> QED
    BY <1>4, <2>1 DEF Issue, Same, device, File!Next, File!Issue
<1>5. CASE Reset
  BY <1>5 DEF Reset, device, File!Next, File!Reset
<1>6. CASE Proceed \/ Restart \/ NotAcknowledged \/ SendRegister \/ WriteData \/ ReadAddress \/ ReadByte
  BY <1>6 DEF Proceed, Restart, NotAcknowledged, SendRegister, WriteData, ReadAddress, ReadByte, Same,
     device
<1>7. CASE UNCHANGED vars
  BY <1>7 DEF vars
<1> QED
  BY <1>1, <1>2, <1>3, <1>4, <1>5, <1>6, <1>7 DEF Next, Drive

\* The driver on its two pins implements the register file, for every width of a byte,
\* every device, all calls and every number of resets: a write answered with its length
\* has been done, and nothing else has; a read gives what the registers hold, or a bus
\* nobody drives (simulate_i2c_read, simulate_i2c_write).
THEOREM ImplementsFile == Spec => Implements
<1>1. Init => File!Init
  BY I2cAssumption DEF Init, File!Init
<1>2. IInv /\ [Next]_vars => [File!Next \/ torn]_<<regs, call, ret>>
  BY FileStep
<1> QED
  BY <1>1, <1>2, Invariant, PTL DEF Spec, Implements

\* A read that is answered with its bytes leaves the device waiting for a START, also
\* when it began in the middle of a transfer (simulate_i2c_read).
THEOREM Resyncs == Spec => ReadResyncs
<1>1. ASSUME IInv, [Next]_vars, call.op = "read", call' = NoCall, ret'.answer = "done"
      PROVE  mode' = "idle"
  <2>1. CASE ReadDone
    <3>1. pc = "readStop" /\ mode' = mode
      BY <1>1, <2>1, AtEnd DEF IInv, ReadDone, Return, device
    <3> QED
      BY <1>1, <3>1 DEF IInv, EnoughInv
  <2>2. CASE Written
    <3>1. pc = "writeStop"
      BY <1>1, <2>2, AtEnd DEF IInv, Written
    <3> QED
      BY <1>1, <3>1 DEF IInv, DriverInv, Writing
  <2>3. CASE GiveUp \/ Reset
    BY <1>1, <2>3 DEF GiveUp, Return, Reset, NoReturn
  <2>4. CASE Issue
    BY <1>1, <2>4, I2cAssumption DEF Issue, NoCall
  <2>5. CASE call' = call
    BY <1>1, <2>5 DEF NoCall
  <2> QED
    BY <1>1, <2>1, <2>2, <2>3, <2>4, <2>5 DEF Next, Drive, PinStep, Proceed, Restart, NotAcknowledged,
       SendRegister, WriteData, ReadAddress, ReadByte, vars
<1>2. IInv /\ [Next]_vars =>
        [call.op = "read" /\ call' = NoCall /\ ret'.answer = "done" => mode' = "idle"]_vars
  BY <1>1
<1> QED
  BY <1>2, Invariant, PTL DEF Spec, ReadResyncs
=============================================================================
