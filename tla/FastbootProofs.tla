---------------------------- MODULE FastbootProofs ----------------------------
(***************************************************************************)
(* The fastboot protocol, for every size of a download, a packet and the      *)
(* FIFO, all commands and requests, and any number of clients that are        *)
(* stopped: every packet is taken for what it is, every reply belongs to the  *)
(* command that waits for it, and the OKAY of a download means all of it.     *)
(***************************************************************************)
EXTENDS Fastboot, TLAPS

(* The receive FIFO *)

Entries == [kind : {"cmd", "data", "setup", "setupcomp"},
            cmd : AllCommands \cup Requests \cup {"none"}, n : Nat]

Sane(e) ==
    /\ e.kind = "cmd" => e.cmd \in AllCommands
    /\ e.kind = "data" => e.n \in 1 .. MaxPkt
    /\ e.kind = "setup" => e.cmd \in Requests

Bulk(e) == e.kind \in {"cmd", "data"}

NoBulk(q)    == \A k \in 1 .. Len(q) : ~Bulk(q[k])
NoCommands(q) == \A k \in 1 .. Len(q) : q[k].kind # "cmd"

\* Nothing of endpoint 1 but one command.
OnlyCommand(q, c, n) ==
    \E k \in 1 .. Len(q) :
        /\ q[k] = Out("cmd", c, n)
        /\ \A j \in 1 .. Len(q) : j # k => ~Bulk(q[j])

\* One command, with no data behind it.
CommandLast(q) ==
    \E k \in 1 .. Len(q) :
        /\ q[k].kind = "cmd"
        /\ \A j \in 1 .. Len(q) : (j # k => q[j].kind # "cmd") /\ (j > k => ~Bulk(q[j]))

\* f counts the data that has arrived when entry k has been popped, from what is in the
\* buffer now up to to; only the packet that completes total is short.
Counts(f, q, from, to, total) ==
    /\ f[0] = from /\ f[Len(q)] = to
    /\ \A j, k \in 0 .. Len(q) : j <= k => f[j] <= f[k]
    /\ \A k \in 1 .. Len(q) :
          IF q[k].kind = "data"
          THEN /\ f[k] = f[k - 1] + q[k].n
               /\ q[k].n \in 1 .. MaxPkt /\ (q[k].n < MaxPkt => f[k] = total)
          ELSE f[k] = f[k - 1]

Stream(q, from, to, total) == \E f \in [0 .. Len(q) -> Nat] : Counts(f, q, from, to, total)

\* What the protocol on endpoint 1 sees of q is in q2 as well.
SameBulk(q, q2) ==
    /\ NoBulk(q) => NoBulk(q2)
    /\ NoCommands(q) => NoCommands(q2)
    /\ \A c, n : OnlyCommand(q, c, n) => OnlyCommand(q2, c, n)
    /\ CommandLast(q) => CommandLast(q2)
    /\ \A from, to, total \in Nat : Stream(q, from, to, total) => Stream(q2, from, to, total)

LEMMA AppendStream ==
    ASSUME NEW q \in Seq(Entries), NEW e \in Entries, e.kind # "data",
           NEW from \in Nat, NEW to \in Nat, NEW total \in Nat, Stream(q, from, to, total)
    PROVE  Stream(Append(q, e), from, to, total)
<1> DEFINE r == Append(q, e)
<1>1. /\ Len(r) = Len(q) + 1 /\ Len(q) \in Nat /\ r[Len(q) + 1] = e
      /\ \A k \in 1 .. Len(q) : r[k] = q[k]
  OBVIOUS
<1> HIDE DEF r
<1>2. PICK f \in [0 .. Len(q) -> Nat] : Counts(f, q, from, to, total)
  BY DEF Stream
<1> DEFINE g == [k \in 0 .. Len(r) |-> IF k = Len(r) THEN to ELSE f[k]]
<1>3. g \in [0 .. Len(r) -> Nat] /\ \A k \in 0 .. Len(q) : g[k] = f[k] /\ g[Len(r)] = to
  BY <1>1
<1>4. f[0] = from /\ f[Len(q)] = to /\ \A j, k \in 0 .. Len(q) : j <= k => f[j] <= f[k]
  BY <1>2 DEF Counts
<1> HIDE DEF g
<1>5. \A j, k \in 0 .. Len(r) : j <= k => g[j] <= g[k]
  BY <1>1, <1>3, <1>4
<1>6. ASSUME NEW k \in 1 .. Len(r)
      PROVE  IF r[k].kind = "data"
             THEN /\ g[k] = g[k - 1] + r[k].n
                  /\ r[k].n \in 1 .. MaxPkt /\ (r[k].n < MaxPkt => g[k] = total)
             ELSE g[k] = g[k - 1]
  <2>1. CASE k = Len(r)
    BY <1>1, <1>3, <1>4, <2>1
  <2>2. CASE k # Len(r)
    <3>1. k \in 1 .. Len(q) /\ k - 1 \in 0 .. Len(q) /\ k \in 0 .. Len(q)
      BY <1>1, <2>2
    <3> QED
      BY <1>1, <1>2, <1>3, <3>1 DEF Counts
  <2> QED
    BY <2>1, <2>2
<1>7. g[0] = from /\ g[Len(r)] = to
  BY <1>1, <1>3, <1>4
<1> QED
  BY <1>3, <1>5, <1>6, <1>7 DEF Stream, Counts, r

LEMMA AppendOther ==
    ASSUME NEW q \in Seq(Entries), NEW e \in Entries, ~Bulk(e)
    PROVE  SameBulk(q, Append(q, e))
<1> DEFINE r == Append(q, e)
<1>1. /\ Len(r) = Len(q) + 1 /\ Len(q) \in Nat /\ r[Len(q) + 1] = e
      /\ \A k \in 1 .. Len(q) : r[k] = q[k]
  OBVIOUS
<1>2. e.kind # "cmd" /\ e.kind # "data"
  BY DEF Bulk
<1>3. \A from, to, total \in Nat : Stream(q, from, to, total) => Stream(r, from, to, total)
  BY <1>2, AppendStream
<1> HIDE DEF r
<1>4. NoBulk(q) => NoBulk(r)
  BY <1>1 DEF NoBulk
<1>5. NoCommands(q) => NoCommands(r)
  BY <1>1, <1>2 DEF NoCommands
<1>6. ASSUME NEW c, NEW n, OnlyCommand(q, c, n) PROVE OnlyCommand(r, c, n)
  BY <1>1, <1>6 DEF OnlyCommand
<1>7. CommandLast(q) => CommandLast(r)
  BY <1>1, <1>2 DEF CommandLast
<1> QED
  BY <1>3, <1>4, <1>5, <1>6, <1>7 DEF SameBulk, r

LEMMA AppendData ==
    ASSUME NEW q \in Seq(Entries), NEW e \in Entries, e.kind = "data", e.n \in 1 .. MaxPkt,
           MaxPkt \in Nat, NEW from \in Nat, NEW to \in Nat, NEW total \in Nat,
           Stream(q, from, to, total), e.n < MaxPkt => to + e.n = total
    PROVE  Stream(Append(q, e), from, to + e.n, total)
<1> DEFINE r == Append(q, e)
<1>1. /\ Len(r) = Len(q) + 1 /\ Len(q) \in Nat /\ r[Len(q) + 1] = e
      /\ \A k \in 1 .. Len(q) : r[k] = q[k]
  OBVIOUS
<1> HIDE DEF r
<1>2. PICK f \in [0 .. Len(q) -> Nat] : Counts(f, q, from, to, total)
  BY DEF Stream
<1> DEFINE g == [k \in 0 .. Len(r) |-> IF k = Len(r) THEN to + e.n ELSE f[k]]
<1>3. /\ g \in [0 .. Len(r) -> Nat] /\ \A k \in 0 .. Len(q) : g[k] = f[k]
      /\ g[Len(r)] = to + e.n
  BY <1>1
<1>4. f[0] = from /\ f[Len(q)] = to /\ \A j, k \in 0 .. Len(q) : j <= k => f[j] <= f[k]
  BY <1>2 DEF Counts
<1> HIDE DEF g
<1>5. \A j, k \in 0 .. Len(r) : j <= k => g[j] <= g[k]
  <2>1. ASSUME NEW k \in 0 .. Len(q) PROVE f[k] <= to /\ f[k] \in Nat
    <3>1. Len(q) \in 0 .. Len(q) /\ k <= Len(q)
      BY <1>1
    <3> QED
      BY <1>4, <3>1
  <2> SUFFICES ASSUME NEW j \in 0 .. Len(r), NEW k \in 0 .. Len(r), j <= k PROVE g[j] <= g[k]
    OBVIOUS
  <2>2. CASE k = Len(r)
    <3>1. g[k] = to + e.n /\ e.n \in Nat
      BY <1>3, <2>2
    <3>2. CASE j = Len(r)
      BY <1>3, <2>2, <3>1, <3>2
    <3>3. CASE j # Len(r)
      <4>1. j \in 0 .. Len(q)
        BY <1>1, <3>3
      <4>2. g[j] = f[j]
        BY <1>3, <4>1
      <4> QED
        BY <2>1, <3>1, <4>1, <4>2
    <3> QED
      BY <3>2, <3>3
  <2>3. CASE k # Len(r)
    <3>1. j \in 0 .. Len(q) /\ k \in 0 .. Len(q)
      BY <1>1, <2>3
    <3>2. g[j] = f[j] /\ g[k] = f[k] /\ f[j] <= f[k]
      BY <1>3, <1>4, <3>1
    <3> QED
      BY <3>2
  <2> QED
    BY <2>2, <2>3
<1>6. ASSUME NEW k \in 1 .. Len(r)
      PROVE  IF r[k].kind = "data"
             THEN /\ g[k] = g[k - 1] + r[k].n
                  /\ r[k].n \in 1 .. MaxPkt /\ (r[k].n < MaxPkt => g[k] = total)
             ELSE g[k] = g[k - 1]
  <2>1. CASE k = Len(r)
    BY <1>1, <1>3, <1>4, <2>1
  <2>2. CASE k # Len(r)
    <3>1. k \in 1 .. Len(q) /\ k - 1 \in 0 .. Len(q) /\ k \in 0 .. Len(q)
      BY <1>1, <2>2
    <3> QED
      BY <1>1, <1>2, <1>3, <3>1 DEF Counts
  <2> QED
    BY <2>1, <2>2
<1>7. g[0] = from /\ g[Len(r)] = to + e.n
  BY <1>1, <1>3, <1>4
<1> QED
  BY <1>3, <1>5, <1>6, <1>7 DEF Stream, Counts, r

\* The first entry taken off.
LEMMA TailStream ==
    ASSUME NEW q \in Seq(Entries), q # <<>>, MaxPkt \in Nat,
           NEW from \in Nat, NEW to \in Nat, NEW total \in Nat, Stream(q, from, to, total)
    PROVE  LET e == Head(q)
           IN  IF e.kind = "data"
               THEN /\ e.n \in 1 .. MaxPkt /\ from + e.n <= to
                    /\ e.n < MaxPkt => from + e.n = total
                    /\ Stream(Tail(q), from + e.n, to, total)
               ELSE Stream(Tail(q), from, to, total)
<1> DEFINE r == Tail(q)
           e == Head(q)
<1>1. /\ Len(q) = Len(r) + 1 /\ Len(r) \in Nat /\ q[1] = e
      /\ \A k \in 1 .. Len(r) : r[k] = q[k + 1]
  OBVIOUS
<1> HIDE DEF r, e
<1>2. PICK f \in [0 .. Len(q) -> Nat] : Counts(f, q, from, to, total)
  BY DEF Stream
<1> DEFINE g == [k \in 0 .. Len(r) |-> f[k + 1]]
<1>3. g \in [0 .. Len(r) -> Nat] /\ \A k \in 0 .. Len(r) : g[k] = f[k + 1]
  BY <1>1
<1>4. /\ f[0] = from /\ f[Len(q)] = to /\ \A j, k \in 0 .. Len(q) : j <= k => f[j] <= f[k]
      /\ f[1] \in Nat /\ f[1] <= to
  BY <1>1, <1>2 DEF Counts
<1> HIDE DEF g
<1>5. /\ e.kind = "data" => /\ f[1] = from + e.n /\ e.n \in 1 .. MaxPkt
                            /\ e.n < MaxPkt => f[1] = total
      /\ e.kind # "data" => f[1] = from
  <2>1. 1 \in 1 .. Len(q) /\ 1 - 1 = 0
    BY <1>1
  <2>2. IF q[1].kind = "data"
        THEN /\ f[1] = f[1 - 1] + q[1].n
             /\ q[1].n \in 1 .. MaxPkt /\ (q[1].n < MaxPkt => f[1] = total)
        ELSE f[1] = f[1 - 1]
    BY <1>2, <2>1 DEF Counts
  <2>3. q[1] = e /\ f[1 - 1] = from
    BY <1>1, <1>4, <2>1
  <2>4. CASE e.kind = "data"
    <3>1. f[1] = from + e.n /\ e.n \in 1 .. MaxPkt /\ (e.n < MaxPkt => f[1] = total)
      BY <2>2, <2>3, <2>4
    <3> QED
      BY <2>4, <3>1
  <2>5. CASE e.kind # "data"
    <3>1. f[1] = from
      BY <2>2, <2>3, <2>5
    <3> QED
      BY <2>5, <3>1
  <2> QED
    BY <2>4, <2>5
<1>6. ASSUME NEW j \in 0 .. Len(r), NEW k \in 0 .. Len(r), j <= k PROVE g[j] <= g[k]
  <2>1. j + 1 \in 0 .. Len(q) /\ k + 1 \in 0 .. Len(q) /\ j + 1 <= k + 1
    BY <1>1, <1>6
  <2>2. f[j + 1] <= f[k + 1]
    BY <1>4, <2>1
  <2> QED
    BY <1>3, <2>2
<1>7. ASSUME NEW k \in 1 .. Len(r)
      PROVE  IF r[k].kind = "data"
             THEN /\ g[k] = g[k - 1] + r[k].n
                  /\ r[k].n \in 1 .. MaxPkt /\ (r[k].n < MaxPkt => g[k] = total)
             ELSE g[k] = g[k - 1]
  <2>1. k + 1 \in 1 .. Len(q) /\ r[k] = q[k + 1] /\ k \in 0 .. Len(r) /\ k - 1 \in 0 .. Len(r)
    BY <1>1
  <2>2. g[k] = f[k + 1] /\ g[k - 1] = f[k] /\ (k + 1) - 1 = k
    BY <1>3, <2>1
  <2>3. IF q[k + 1].kind = "data"
        THEN /\ f[k + 1] = f[(k + 1) - 1] + q[k + 1].n
             /\ q[k + 1].n \in 1 .. MaxPkt /\ (q[k + 1].n < MaxPkt => f[k + 1] = total)
        ELSE f[k + 1] = f[(k + 1) - 1]
    BY <1>2, <2>1 DEF Counts
  <2> QED
    BY <2>1, <2>2, <2>3
<1>8. g[0] = f[1] /\ g[Len(r)] = to
  BY <1>1, <1>3, <1>4
<1>9. Stream(r, f[1], to, total)
  BY <1>3, <1>6, <1>7, <1>8 DEF Stream, Counts
<1> QED
  BY <1>4, <1>5, <1>9 DEF r, e

\* When all data has arrived there is none left in the FIFO.
LEMMA StreamEnd ==
    ASSUME NEW q \in Seq(Entries), NEW to \in Nat, NEW total \in Nat, Stream(q, to, to, total),
           NoCommands(q)
    PROVE  NoBulk(q)
<1>1. PICK f \in [0 .. Len(q) -> Nat] : Counts(f, q, to, to, total)
  BY DEF Stream
<1> SUFFICES ASSUME NEW k \in 1 .. Len(q), q[k].kind = "data" PROVE FALSE
  BY DEF NoBulk, NoCommands, Bulk
<1>2. Len(q) \in Nat /\ k - 1 \in 0 .. Len(q) /\ k \in 0 .. Len(q) /\ 0 \in 0 .. Len(q)
      /\ Len(q) \in 0 .. Len(q)
  OBVIOUS
<1>3. f[k] = f[k - 1] + q[k].n /\ q[k].n \in 1 .. MaxPkt
  BY <1>1 DEF Counts
<1>4. to <= f[k - 1] /\ f[k] <= to
  BY <1>1, <1>2 DEF Counts
<1>5. f[k - 1] \in Nat /\ f[k] \in Nat
  BY <1>2
<1> QED
  BY <1>3, <1>4, <1>5

\* Without data there is nothing to count.
LEMMA StreamNone ==
    ASSUME NEW q \in Seq(Entries), NEW to \in Nat, NEW total \in Nat, NoBulk(q)
    PROVE  Stream(q, to, to, total)
<1> DEFINE g == [k \in 0 .. Len(q) |-> to]
<1>1. g \in [0 .. Len(q) -> Nat] /\ \A k \in 0 .. Len(q) : g[k] = to
  OBVIOUS
<1>2. Len(q) \in Nat
  OBVIOUS
<1> HIDE DEF g
<1>3. \A k \in 1 .. Len(q) : q[k].kind # "data" /\ g[k] = g[k - 1]
  BY <1>1, <1>2 DEF NoBulk, Bulk
<1> QED
  BY <1>1, <1>2, <1>3 DEF Stream, Counts

LEMMA TailOther ==
    ASSUME NEW q \in Seq(Entries), q # <<>>, ~Bulk(Head(q)), MaxPkt \in Nat
    PROVE  SameBulk(q, Tail(q))
<1> DEFINE r == Tail(q)
<1>1. /\ Len(q) = Len(r) + 1 /\ Len(r) \in Nat /\ q[1] = Head(q)
      /\ \A k \in 1 .. Len(r) : r[k] = q[k + 1] /\ k + 1 \in 1 .. Len(q)
  OBVIOUS
<1> HIDE DEF r
<1>2. q[1].kind # "cmd" /\ q[1].kind # "data"
  BY <1>1 DEF Bulk
<1>3. NoBulk(q) => NoBulk(r)
  BY <1>1 DEF NoBulk
<1>4. NoCommands(q) => NoCommands(r)
  BY <1>1 DEF NoCommands
<1>5. ASSUME NEW c, NEW n, OnlyCommand(q, c, n) PROVE OnlyCommand(r, c, n)
  <2>1. PICK k \in 1 .. Len(q) : q[k] = Out("cmd", c, n) /\ \A j \in 1 .. Len(q) : j # k => ~Bulk(q[j])
    BY <1>5 DEF OnlyCommand
  <2>2. k # 1
    BY <1>2, <2>1 DEF Out
  <2>3. k - 1 \in 1 .. Len(r) /\ (k - 1) + 1 = k
    BY <1>1, <2>2
  <2>4. r[k - 1] = Out("cmd", c, n)
    BY <1>1, <2>1, <2>3
  <2>5. ASSUME NEW j \in 1 .. Len(r), j # k - 1 PROVE ~Bulk(r[j])
    <3>1. j + 1 \in 1 .. Len(q) /\ j + 1 # k
      BY <1>1, <2>5
    <3> QED
      BY <1>1, <2>1, <3>1
  <2> QED
    BY <2>3, <2>4, <2>5 DEF OnlyCommand
<1>6. ASSUME CommandLast(q) PROVE CommandLast(r)
  <2>1. PICK k \in 1 .. Len(q) :
            /\ q[k].kind = "cmd"
            /\ \A j \in 1 .. Len(q) : (j # k => q[j].kind # "cmd") /\ (j > k => ~Bulk(q[j]))
    BY <1>6 DEF CommandLast
  <2>2. k - 1 \in 1 .. Len(r) /\ (k - 1) + 1 = k
    BY <1>1, <1>2, <2>1
  <2>3. r[k - 1].kind = "cmd"
    BY <1>1, <2>1, <2>2
  <2>4. ASSUME NEW j \in 1 .. Len(r)
        PROVE  (j # k - 1 => r[j].kind # "cmd") /\ (j > k - 1 => ~Bulk(r[j]))
    <3>1. j + 1 \in 1 .. Len(q) /\ (j # k - 1 => j + 1 # k) /\ (j > k - 1 => j + 1 > k)
      BY <1>1
    <3> QED
      BY <1>1, <2>1, <3>1
  <2> QED
    BY <2>2, <2>3, <2>4 DEF CommandLast
<1>7. \A from, to, total \in Nat : Stream(q, from, to, total) => Stream(r, from, to, total)
  <2>1. Head(q).kind # "data"
    BY <1>1, <1>2
  <2> QED
    BY <2>1, TailStream DEF r
<1> QED
  BY <1>3, <1>4, <1>5, <1>6, <1>7 DEF SameBulk, r

\* A command is put behind what is there.
LEMMA AppendCommand ==
    ASSUME NEW q \in Seq(Entries), NEW c, NEW n, Out("cmd", c, n) \in Entries
    PROVE  LET r == Append(q, Out("cmd", c, n))
           IN  /\ NoBulk(q) => OnlyCommand(r, c, n)
               /\ NoCommands(q) => CommandLast(r)
<1> DEFINE e == Out("cmd", c, n)
           r == Append(q, e)
<1>1. /\ Len(r) = Len(q) + 1 /\ Len(q) \in Nat /\ r[Len(q) + 1] = e
      /\ \A k \in 1 .. Len(q) : r[k] = q[k]
  OBVIOUS
<1>2. e.kind = "cmd"
  BY DEF Out
<1> HIDE DEF r, e
<1>3. Len(r) \in 1 .. Len(r) /\ \A j \in 1 .. Len(r) : j # Len(r) => j \in 1 .. Len(q)
  BY <1>1
<1>4. NoBulk(q) => OnlyCommand(r, c, n)
  BY <1>1, <1>3 DEF NoBulk, OnlyCommand, e
<1>5. NoCommands(q) => CommandLast(r)
  BY <1>1, <1>2, <1>3 DEF NoCommands, CommandLast
<1> QED
  BY <1>4, <1>5 DEF r, e

LEMMA AppendKeepsNoCommands ==
    ASSUME NEW q \in Seq(Entries), NEW e \in Entries, e.kind # "cmd", NoCommands(q)
    PROVE  NoCommands(Append(q, e))
BY DEF NoCommands

\* What is known of the first entry, and of the others.
LEMMA TailBulk ==
    ASSUME NEW q \in Seq(Entries), q # <<>>
    PROVE  /\ NoBulk(q) => ~Bulk(Head(q))
           /\ NoCommands(q) => Head(q).kind # "cmd" /\ NoCommands(Tail(q))
           /\ \A c, n : OnlyCommand(q, c, n) /\ Bulk(Head(q)) =>
                  Head(q) = Out("cmd", c, n) /\ NoBulk(Tail(q))
           /\ CommandLast(q) /\ Head(q).kind = "cmd" => NoBulk(Tail(q))
           /\ CommandLast(q) /\ Head(q).kind = "data" => CommandLast(Tail(q))
<1> DEFINE r == Tail(q)
<1>1. /\ Len(q) = Len(r) + 1 /\ Len(r) \in Nat /\ q[1] = Head(q) /\ 1 \in 1 .. Len(q)
      /\ \A k \in 1 .. Len(r) : r[k] = q[k + 1] /\ k + 1 \in 1 .. Len(q) /\ k + 1 # 1 /\ k + 1 > 1
  OBVIOUS
<1> HIDE DEF r
<1>2. NoBulk(q) => ~Bulk(Head(q))
  BY <1>1 DEF NoBulk
<1>3. NoCommands(q) => Head(q).kind # "cmd" /\ NoCommands(r)
  BY <1>1 DEF NoCommands
<1>4. ASSUME NEW c, NEW n, OnlyCommand(q, c, n), Bulk(Head(q))
      PROVE  Head(q) = Out("cmd", c, n) /\ NoBulk(r)
  <2>1. PICK k \in 1 .. Len(q) : q[k] = Out("cmd", c, n) /\ \A j \in 1 .. Len(q) : j # k => ~Bulk(q[j])
    BY <1>4 DEF OnlyCommand
  <2>2. k = 1
    BY <1>1, <1>4, <2>1
  <2> QED
    BY <1>1, <2>1, <2>2 DEF NoBulk
<1>5. ASSUME CommandLast(q)
      PROVE  /\ Head(q).kind = "cmd" => NoBulk(r)
             /\ Head(q).kind = "data" => CommandLast(r)
  <2>1. PICK k \in 1 .. Len(q) :
            /\ q[k].kind = "cmd"
            /\ \A j \in 1 .. Len(q) : (j # k => q[j].kind # "cmd") /\ (j > k => ~Bulk(q[j]))
    BY <1>5 DEF CommandLast
  <2>2. CASE Head(q).kind = "cmd"
    <3>1. k = 1
      BY <1>1, <2>1, <2>2
    <3> QED
      BY <1>1, <2>1, <2>2, <3>1 DEF NoBulk
  <2>3. CASE Head(q).kind = "data"
    <3>1. k - 1 \in 1 .. Len(r) /\ (k - 1) + 1 = k
      BY <1>1, <2>1, <2>3
    <3>2. r[k - 1].kind = "cmd"
      BY <1>1, <2>1, <3>1
    <3>3. ASSUME NEW j \in 1 .. Len(r)
          PROVE  (j # k - 1 => r[j].kind # "cmd") /\ (j > k - 1 => ~Bulk(r[j]))
      <4>1. j + 1 \in 1 .. Len(q) /\ (j # k - 1 => j + 1 # k) /\ (j > k - 1 => j + 1 > k)
        BY <1>1
      <4> QED
        BY <1>1, <2>1, <4>1
    <3>4. CommandLast(r)
      BY <3>1, <3>2, <3>3 DEF CommandLast
    <3> QED
      BY <2>3, <3>4
  <2> QED
    BY <2>2, <2>3
<1> QED
  BY <1>2, <1>3, <1>4, <1>5 DEF r

-----------------------------------------------------------------------------
(* Where the client and the loop are with a command *)

NoReply == 1 \notin empmsk /\ Bulk_Out.cmd = "none"

\* Nothing is under way (or the command was unknown).
Idle ==
    /\ host.st \in {"idle", "cut", "lost", "wait"} /\ (host.st = "lost" => ~Orderly)
    /\ pc # "hung" /\ NoBulk(rxfifo) /\ NoReply /\ ~cmd_downloadding

\* A command is in the FIFO.
Sent ==
    /\ host.st = "wait" /\ pc \notin {"gone", "hung"}
    /\ OnlyCommand(rxfifo, host.cmd, host.n) /\ NoReply /\ ~cmd_downloadding

\* It is in Bulk_Out_Buf.
Taken ==
    /\ host.st = "wait" /\ host.cmd \in AllCommands
    /\ pc \in {"iep1", "iep0", "spin0", "oep", "cmd"}
    /\ NoBulk(rxfifo) /\ 1 \notin empmsk /\ ~cmd_downloadding
    /\ Bulk_Out = [cmd |-> host.cmd, n |-> host.n]

\* Its reply waits: it is sent before a control request can come between.
Answered ==
    /\ host.st = "wait" /\ pc \in {"poll", "rx", "iep1", "spin1"}
    /\ pc \in {"rx", "iep1"} => "IEP" \in ints
    /\ NoBulk(rxfifo) /\ Bulk_Out.cmd = "none" /\ 1 \in empmsk /\ ~status.flag
    /\ IF host.cmd = "download"
       THEN /\ status.says = Reply("DATA", "download")
            /\ cmd_downloadding /\ rx_length = host.n /\ Bulk_Data_Size = 0
       ELSE /\ status.says \in {Reply("OKAY", host.cmd), Reply("FAIL", host.cmd)}
            /\ ~cmd_downloadding

\* The data phase.
Flow ==
    /\ host.st \in {"data", "datawait"} /\ pc \notin {"gone", "hung"}
    /\ host.left <= host.n /\ (host.st = "datawait" <=> host.left = 0)
    /\ NoCommands(rxfifo) /\ NoReply
    /\ cmd_downloadding /\ rx_length = host.n
    /\ Stream(rxfifo, Bulk_Data_Size, host.n - host.left, rx_length)

\* The data phase is over: the client's own, or the one that a client before it left
\* open and that the command ended.
Over ==
    /\ host.st \in {"wait", "datawait"} /\ pc \notin {"gone", "hung"}
    /\ NoBulk(rxfifo) /\ Bulk_Out.cmd = "none" /\ 1 \in empmsk /\ ~cmd_downloadding
    /\ status.says \in {Reply("OKAY", "data"), Descriptor, Nothing}
    /\ ~crossed => status.says = Reply("OKAY", "data")
    /\ host.st = "wait" => broken > 0
    /\ host.st = "datawait" => host.n > 0 /\ Bulk_Data_Size = host.n /\ rx_length = host.n

\* A client that was stopped has left a data phase open.
Stale ==
    /\ host.st \in {"idle", "wait"} /\ pc \notin {"gone", "hung"}
    /\ IF host.st = "idle" THEN NoCommands(rxfifo) ELSE CommandLast(rxfifo)
    /\ NoReply /\ cmd_downloadding /\ mixed < broken
    /\ \E to \in 0 .. rx_length : (to < rx_length \/ to = 0) /\ Stream(rxfifo, Bulk_Data_Size, to, rx_length)

\* The endless loop in do_cmd_erase.
Hung == pc = "hung" /\ host.st = "wait" /\ NoBulk(rxfifo) /\ ~cmd_downloadding

\* A transfer that the loop waits for is of the endpoint the status was set for.
SpinInv ==
    /\ pc = "spin1" => 1 \in empmsk /\ ~status.flag /\ status.says # Nothing
    /\ pc = "iep0" /\ 1 \in empmsk /\ "IEP" \in ints => status.flag \/ status.says = Nothing
    /\ pc = "spin0" => 1 \notin empmsk

ModeInv == mixed <= broken /\ (Idle \/ Sent \/ Taken \/ Answered \/ Flow \/ Over \/ Stale \/ Hung)

TypeInv ==
    /\ TypeOK
    /\ rxfifo \in Seq(Entries) /\ \A k \in 1 .. Len(rxfifo) : Sane(rxfifo[k])
    /\ pc = "rx" /\ "RXFIFO_NEMPTY" \in ints => rxfifo # <<>>

-----------------------------------------------------------------------------
(* Types *)

LEMMA TypeInit == Init => TypeInv
<1> SUFFICES ASSUME Init PROVE TypeInv
  OBVIOUS
<1>1. rxfifo = <<>> /\ rxfifo \in Seq(Entries) /\ Len(rxfifo) = 0
  BY DEF Init
<1>2. host \in [st : {"idle", "wait", "data", "datawait", "lost", "cut"},
                cmd : AllCommands \cup {"none"}, n : Nat, left : Nat]
  BY DEF Init, Quiet
<1>3. status \in [says : Replies, flag : BOOLEAN]
  BY DEF Init, Nothing, Reply, Replies
<1>4. Bulk_Out \in [cmd : AllCommands \cup {"none"}, n : Nat]
  BY DEF Init, None
<1>5. /\ ctl = "none" /\ pc = "poll" /\ ints = {} /\ setup = "none" /\ setupdone = FALSE
      /\ empmsk = {} /\ cmd_downloadding = FALSE /\ rx_length = 0 /\ Bulk_Data_Size = 0
      /\ mixed = 0 /\ broken = 0 /\ crossed = FALSE
  BY DEF Init
<1>6. 0 \in 0 .. 0 + MaxPkt /\ 0 \in 0 .. MaxBroken
  BY FastbootAssumption
<1>7. rx_length \in Nat /\ Bulk_Data_Size \in 0 .. rx_length + MaxPkt /\ broken \in 0 .. MaxBroken
  BY <1>5, <1>6
<1>8. setupdone \in BOOLEAN /\ cmd_downloadding \in BOOLEAN /\ crossed \in BOOLEAN
  BY <1>5
<1>9. TypeOK
  BY <1>2, <1>3, <1>4, <1>5, <1>7, <1>8 DEF TypeOK
<1> QED
  BY <1>1, <1>5, <1>9 DEF TypeInv

\* The FIFO after its first entry, and with one more.
LEMMA FifoTail ==
    ASSUME TypeInv, rxfifo # <<>>
    PROVE  /\ Head(rxfifo) \in Entries /\ Sane(Head(rxfifo))
           /\ Tail(rxfifo) \in Seq(Entries)
           /\ \A k \in 1 .. Len(Tail(rxfifo)) : Sane(Tail(rxfifo)[k])
<1> DEFINE r == Tail(rxfifo)
<1>1. rxfifo \in Seq(Entries) /\ \A k \in 1 .. Len(rxfifo) : Sane(rxfifo[k])
  BY DEF TypeInv
<1>2. /\ r \in Seq(Entries) /\ Len(rxfifo) = Len(r) + 1 /\ Len(r) \in Nat
      /\ Head(rxfifo) = rxfifo[1] /\ 1 \in 1 .. Len(rxfifo) /\ rxfifo[1] \in Entries
      /\ \A k \in 1 .. Len(r) : r[k] = rxfifo[k + 1] /\ k + 1 \in 1 .. Len(rxfifo)
  BY <1>1
<1> HIDE DEF r
<1> QED
  BY <1>1, <1>2 DEF r

LEMMA FifoAppend ==
    ASSUME TypeInv, NEW e \in Entries, Sane(e)
    PROVE  /\ Append(rxfifo, e) \in Seq(Entries)
           /\ \A k \in 1 .. Len(Append(rxfifo, e)) : Sane(Append(rxfifo, e)[k])
BY DEF TypeInv

LEMMA ReplyType ==
    ASSUME NEW kind \in {"OKAY", "FAIL", "DATA", "desc", "none"},
           NEW cmd \in AllCommands \cup {"data", "none"}
    PROVE  Reply(kind, cmd) \in Replies
BY DEF Reply, Replies

LEMMA NewStatus ==
    ASSUME NEW kind \in {"OKAY", "FAIL", "DATA"}, NEW cmd \in AllCommands \cup {"data"},
           TypeInv, TxStatus(kind, cmd)
    PROVE  status' \in [says : Replies, flag : BOOLEAN] /\ empmsk' \subseteq {0, 1}
<1>1. Reply(kind, cmd) \in Replies
  BY ReplyType
<1> QED
  BY <1>1 DEF TxStatus, TypeInv, TypeOK

\* What StoreData leaves: the phase, its counter and its end.
LEMMA StoreDataEffect ==
    ASSUME TypeInv, NEW e \in Entries, Sane(e), e.kind \in {"cmd", "data"}, StoreData(e)
    PROVE  LET size  == IF e.kind = "cmd" THEN 1 ELSE e.n
               total == IF Bulk_Data_Size <= rx_length THEN Bulk_Data_Size + size ELSE Bulk_Data_Size
           IN  /\ size \in 1 .. MaxPkt /\ total \in 0 .. rx_length + MaxPkt
               /\ Bulk_Data_Size' = total
               /\ cmd_downloadding' = ~(size < MaxPkt \/ total = rx_length)
               /\ IF size < MaxPkt \/ total = rx_length
                  THEN TxStatus("OKAY", "data") ELSE UNCHANGED <<status, empmsk>>
               /\ mixed' = IF e.kind = "cmd" THEN mixed + 1 ELSE mixed
               /\ UNCHANGED <<rx_length, Bulk_Out, setup, setupdone>>
<1> USE FastbootAssumption
<1> DEFINE size  == IF e.kind = "cmd" THEN 1 ELSE e.n
           total == IF Bulk_Data_Size <= rx_length THEN Bulk_Data_Size + size ELSE Bulk_Data_Size
<1>1. size \in 1 .. MaxPkt
  BY DEF Sane
<1>2. rx_length \in Nat /\ Bulk_Data_Size \in 0 .. rx_length + MaxPkt
  BY DEF TypeInv, TypeOK
<1>3. total \in 0 .. rx_length + MaxPkt
  BY <1>1, <1>2
<1>4. /\ Bulk_Data_Size' = total
      /\ cmd_downloadding' = ~(size < MaxPkt \/ total = rx_length)
      /\ IF size < MaxPkt \/ total = rx_length
         THEN TxStatus("OKAY", "data") ELSE UNCHANGED <<status, empmsk>>
      /\ mixed' = IF e.kind = "cmd" THEN mixed + 1 ELSE mixed
      /\ UNCHANGED <<rx_length, Bulk_Out, setup, setupdone>>
  BY DEF StoreData, StillDownloading, LastPacket
<1> QED
  BY <1>1, <1>3, <1>4

LEMMA RxType == TypeInv /\ Rx => TypeInv'
<1> SUFFICES ASSUME TypeInv, Rx PROVE TypeInv'
  OBVIOUS
<1> USE FastbootAssumption
<1>1. TypeOK /\ pc' \in {"iep1"} /\ UNCHANGED <<ints, crossed, host, ctl, broken>>
  BY DEF Rx, TypeInv, After, hostvars
<1>2. CASE "RXFIFO_NEMPTY" \notin ints
  <2>1. UNCHANGED <<rxfifo, setup, setupdone, status, empmsk, Bulk_Out, mixed,
                    cmd_downloadding, rx_length, Bulk_Data_Size>>
    BY <1>2 DEF Rx, data
  <2> QED
    BY <1>1, <2>1 DEF TypeInv, TypeOK
<1>3. CASE "RXFIFO_NEMPTY" \in ints /\ rxfifo # <<>>
  <2> DEFINE e == Head(rxfifo)
  <2>1. /\ e \in Entries /\ Sane(e) /\ rxfifo' = Tail(rxfifo) /\ rxfifo' \in Seq(Entries)
        /\ \A k \in 1 .. Len(rxfifo') : Sane(rxfifo'[k])
    BY <1>3, FifoTail DEF Rx
  <2>2. \/ e.kind \in {"cmd", "data"} /\ StoreData(e)
        \/ e.kind \in {"cmd", "data"} /\ StoreCommand(e)
        \/ /\ e.kind = "setup" /\ setup' = e.cmd
           /\ UNCHANGED <<setupdone, status, empmsk, Bulk_Out, mixed, data>>
        \/ /\ e.kind = "setupcomp" /\ setupdone' = TRUE
           /\ UNCHANGED <<setup, status, empmsk, Bulk_Out, mixed, data>>
    BY <1>3 DEF Rx
  <2> HIDE DEF e
  <2>3. CASE e.kind \in {"cmd", "data"} /\ StoreData(e)
    <3>1. /\ Bulk_Data_Size' \in 0 .. rx_length + MaxPkt /\ cmd_downloadding' \in BOOLEAN
          /\ mixed' \in {mixed, mixed + 1} /\ UNCHANGED <<rx_length, Bulk_Out, setup, setupdone>>
          /\ TxStatus("OKAY", "data") \/ UNCHANGED <<status, empmsk>>
      BY <2>1, <2>3, StoreDataEffect
    <3>2. status' \in [says : Replies, flag : BOOLEAN] /\ empmsk' \subseteq {0, 1}
      <4>1. CASE TxStatus("OKAY", "data")
        BY <4>1, NewStatus
      <4>2. CASE UNCHANGED <<status, empmsk>>
        BY <1>1, <4>2 DEF TypeOK
      <4> QED
        BY <3>1, <4>1, <4>2
    <3> QED
      BY <1>1, <2>1, <3>1, <3>2 DEF TypeInv, TypeOK
  <2>4. CASE e.kind \in {"cmd", "data"} /\ StoreCommand(e)
    <3>1. /\ UNCHANGED <<status, empmsk, setup, setupdone, cmd_downloadding, rx_length, Bulk_Data_Size>>
          /\ mixed' \in {mixed, mixed + 1}
          /\ Bulk_Out' = [cmd |-> IF e.kind = "cmd" THEN e.cmd ELSE "unknown", n |-> e.n]
      BY <2>4 DEF StoreCommand, data
    <3>2. (IF e.kind = "cmd" THEN e.cmd ELSE "unknown") \in AllCommands /\ e.n \in Nat
      BY <2>1, <2>4 DEF Sane, Entries, AllCommands
    <3>3. Bulk_Out' \in [cmd : AllCommands \cup {"none"}, n : Nat]
      BY <3>1, <3>2
    <3> QED
      BY <1>1, <2>1, <3>1, <3>3 DEF TypeInv, TypeOK
  <2>5. CASE /\ e.kind = "setup" /\ setup' = e.cmd
             /\ UNCHANGED <<setupdone, status, empmsk, Bulk_Out, mixed, data>>
    <3>1. setup' \in Requests
      BY <2>1, <2>5 DEF Sane
    <3> QED
      BY <1>1, <2>1, <2>5, <3>1 DEF TypeInv, TypeOK, data
  <2>6. CASE /\ e.kind = "setupcomp" /\ setupdone' = TRUE
             /\ UNCHANGED <<setup, status, empmsk, Bulk_Out, mixed, data>>
    BY <1>1, <2>1, <2>6 DEF TypeInv, TypeOK, data
  <2> QED
    BY <2>2, <2>3, <2>4, <2>5, <2>6
<1>4. "RXFIFO_NEMPTY" \in ints => rxfifo # <<>>
  BY DEF TypeInv, Rx
<1> QED
  BY <1>2, <1>3, <1>4

\* Steps that leave the FIFO as it is.
LEMMA SameFifo ==
    ASSUME TypeInv, TypeOK', UNCHANGED rxfifo, pc' = "rx" => rxfifo # <<>> \/ UNCHANGED <<pc, ints>>
                                                       \/ "RXFIFO_NEMPTY" \notin ints'
    PROVE  TypeInv'
BY DEF TypeInv

\* The device leaves the bus.
LEMMA DisconnectType ==
    ASSUME TypeInv, Disconnected, pc' \in {"poll", "gone"}, UNCHANGED <<mixed, broken, crossed>>, UNCHANGED data
    PROVE  TypeInv'
<1>0. TypeOK
  BY DEF TypeInv
<1>1. /\ Disconnected /\ pc' \in {"poll", "gone"}
      /\ UNCHANGED <<mixed, broken, crossed, cmd_downloadding, rx_length, Bulk_Data_Size>>
  BY DEF data
<1>2. /\ rxfifo' = <<>> /\ setup' = "none" /\ setupdone' = FALSE /\ empmsk' = {}
      /\ status' = [says |-> Nothing, flag |-> FALSE] /\ ints' = {} /\ Bulk_Out' = None
      /\ ctl' = "none"
  BY <1>1 DEF Disconnected
<1>3. host' \in [st : {"idle", "wait", "data", "datawait", "lost", "cut"},
                 cmd : AllCommands \cup {"none"}, n : Nat, left : Nat]
  BY <1>0, <1>1 DEF Disconnected, TypeOK
<1>4. None \in [cmd : AllCommands \cup {"none"}, n : Nat] /\ Nothing \in Replies
  BY ReplyType DEF None, Nothing
<1>5. TypeOK'
  BY <1>0, <1>1, <1>2, <1>3, <1>4 DEF TypeOK
<1>6. rxfifo' \in Seq(Entries) /\ \A k \in 1 .. Len(rxfifo') : Sane(rxfifo'[k])
  BY <1>2
<1> QED
  BY <1>1, <1>5, <1>6 DEF TypeInv

LEMMA HandlerType == TypeInv /\ Handler => TypeInv'
<1> SUFFICES ASSUME TypeInv, Handler PROVE TypeInv'
  OBVIOUS
<1> USE FastbootAssumption
<1>0. TypeOK
  BY DEF TypeInv
<1>1. CASE Poll
  <2>1. TypeOK'
    BY <1>0, <1>1 DEF Poll, hostvars, usbvars, data, TypeOK
  <2>2. UNCHANGED rxfifo /\ (rxfifo = <<>> => "RXFIFO_NEMPTY" \notin ints')
    BY <1>1 DEF Poll, usbvars
  <2> QED
    BY <2>1, <2>2, SameFifo
<1>2. CASE Rx
  BY <1>2, RxType
<1>3. ASSUME NEW ep \in {0, 1}, Iep(ep) PROVE TypeInv'
  <2>1. pc' \in {"spin0", "spin1", "iep0", "oep"}
    BY <1>3 DEF Iep, IepStep, SpinStep, After
  <2>2. TypeOK' /\ UNCHANGED rxfifo
    BY <1>0, <1>3, <2>1 DEF Iep, hostvars, usbvars, data, TypeOK
  <2> QED
    BY <2>1, <2>2, SameFifo
<1>4. CASE Oep
  <2>1. pc' = "cmd" /\ UNCHANGED <<host, rxfifo, ints, setup, Bulk_Out, mixed, broken,
                                  cmd_downloadding, rx_length, Bulk_Data_Size>>
    BY <1>4 DEF Oep, After, data
  <2>2. Descriptor \in Replies /\ Nothing \in Replies
    BY ReplyType DEF Descriptor, Nothing
  <2>3. status' \in [says : Replies, flag : BOOLEAN]
    <3>1. CASE "OEP" \in ints
      <4>1. status' = [says |-> IF setup = "desc" THEN Descriptor ELSE Nothing, flag |-> FALSE]
        BY <1>4, <3>1 DEF Oep
      <4>2. (IF setup = "desc" THEN Descriptor ELSE Nothing) \in Replies
        BY <2>2
      <4> QED
        BY <4>1, <4>2
    <3>2. CASE "OEP" \notin ints
      BY <1>0, <1>4, <3>2 DEF Oep, TypeOK
    <3> QED
      BY <3>1, <3>2
  <2>4. /\ empmsk' \subseteq {0, 1} /\ setupdone' \in BOOLEAN
        /\ ctl' \in Requests \cup {"none"} /\ crossed' \in BOOLEAN
    BY <1>0, <1>4 DEF Oep, TypeOK
  <2>5. TypeOK'
    BY <1>0, <2>1, <2>3, <2>4 DEF TypeOK
  <2> QED
    BY <2>1, <2>5, SameFifo
<1>5. CASE pc = "cmd" /\ Finish /\ (UNCHANGED <<status, empmsk>> \/ \E kind \in {"OKAY", "FAIL", "DATA"} : TxStatus(kind, Bulk_Out.cmd))
           /\ Bulk_Out.cmd \in AllCommands \cup {"none"}
           /\ (Bulk_Out.cmd = "none" => UNCHANGED <<status, empmsk>>)
           /\ cmd_downloadding' \in BOOLEAN /\ rx_length' \in Nat
           /\ Bulk_Data_Size' \in 0 .. rx_length' + MaxPkt
  <2>1. /\ pc' = "poll" /\ Bulk_Out' = None
        /\ UNCHANGED <<ints, mixed, crossed, host, ctl, broken, rxfifo, setup, setupdone>>
    BY <1>5 DEF Finish, After, hostvars, usbvars
  <2>2. status' \in [says : Replies, flag : BOOLEAN] /\ empmsk' \subseteq {0, 1}
    BY <1>0, <1>5, NewStatus DEF TypeOK
  <2>3. None \in [cmd : AllCommands \cup {"none"}, n : Nat]
    BY DEF None
  <2>4. TypeOK'
    BY <1>0, <1>5, <2>1, <2>2, <2>3 DEF TypeOK
  <2> QED
    BY <2>1, <2>4, SameFifo
<1>6. CASE NoCommand
  <2>1. UNCHANGED <<status, empmsk, cmd_downloadding, rx_length, Bulk_Data_Size>>
        /\ pc = "cmd" /\ Finish
    BY <1>6 DEF NoCommand, data
  <2> QED
    BY <1>0, <1>5, <2>1 DEF TypeOK
<1>7. CASE GetvarCommand \/ FlashCommand \/ EraseCommand
  <2>1. /\ pc = "cmd" /\ Finish /\ UNCHANGED <<rx_length, Bulk_Data_Size>>
        /\ Bulk_Out.cmd \in {"getvar", "flash", "erase"}
        /\ \E kind \in {"OKAY", "FAIL"} : TxStatus(kind, Bulk_Out.cmd)
        /\ cmd_downloadding' \in {FALSE, cmd_downloadding}
    BY <1>7 DEF GetvarCommand, FlashCommand, EraseCommand, data
  <2> QED
    BY <1>0, <1>5, <2>1 DEF TypeOK, AllCommands, Answering
<1>8. CASE DownloadCommand
  <2>1. /\ pc = "cmd" /\ Finish /\ rx_length' = Bulk_Out.n /\ Bulk_Data_Size' = 0
        /\ Bulk_Out.cmd = "download" /\ TxStatus("DATA", "download") /\ cmd_downloadding' = TRUE
    BY <1>8 DEF DownloadCommand
  <2>2. rx_length' \in Nat /\ Bulk_Data_Size' \in 0 .. rx_length' + MaxPkt
    BY <1>0, <2>1 DEF TypeOK
  <2> QED
    BY <1>0, <1>5, <2>1, <2>2 DEF TypeOK, AllCommands, Answering
<1>9. CASE BootFails
  <2>1. /\ pc = "cmd" /\ Finish /\ UNCHANGED <<cmd_downloadding, rx_length, Bulk_Data_Size>>
        /\ Bulk_Out.cmd \in {"continue", "boot"} /\ TxStatus("OKAY", Bulk_Out.cmd)
    BY <1>9 DEF BootFails, data
  <2> QED
    BY <1>0, <1>5, <2>1 DEF TypeOK, AllCommands, Leaving
<1>10. CASE RebootBootloader \/ Leave
  BY <1>10, DisconnectType DEF RebootBootloader, Leave
<1>11. CASE EraseHangs
  <2>1. /\ pc' = "hung" /\ Bulk_Out.cmd \in Hanging /\ TxStatus("OKAY", Bulk_Out.cmd)
        /\ UNCHANGED <<ints, Bulk_Out, mixed, crossed, host, ctl, broken, rxfifo, setup, setupdone,
                       cmd_downloadding, rx_length, Bulk_Data_Size>>
    BY <1>11 DEF EraseHangs, hostvars, usbvars, data
  <2>2. status' \in [says : Replies, flag : BOOLEAN] /\ empmsk' \subseteq {0, 1}
    BY <2>1, NewStatus DEF AllCommands
  <2>3. TypeOK'
    BY <1>0, <2>1, <2>2 DEF TypeOK
  <2> QED
    BY <2>1, <2>3, SameFifo
<1> QED
  BY <1>1, <1>2, <1>3, <1>4, <1>6, <1>7, <1>8, <1>9, <1>10, <1>11 DEF Handler

\* Steps of the host that put an entry into the FIFO.
LEMMA MoreFifo ==
    ASSUME TypeInv, TypeOK', NEW e \in Entries, Sane(e), rxfifo' = Append(rxfifo, e)
    PROVE  TypeInv'
<1>1. Append(rxfifo, e) # <<>>
  BY DEF TypeInv
<1> QED
  BY <1>1, FifoAppend DEF TypeInv

\* Two entries are put into the FIFO one after the other.
LEMMA TwoEntries ==
    ASSUME NEW q \in Seq(Entries), NEW a \in Entries, NEW b \in Entries
    PROVE  q \o <<a, b>> = Append(Append(q, a), b)
OBVIOUS

LEMMA RequestEffect ==
    ASSUME TypeInv, NEW req \in Requests, SendRequest(req)
    PROVE  LET a == Out("setup", req, 0)
               b == Out("setupcomp", req, 0)
           IN  /\ a \in Entries /\ b \in Entries /\ Sane(a) /\ Sane(b) /\ ~Bulk(a) /\ ~Bulk(b)
               /\ rxfifo' = Append(Append(rxfifo, a), b)
<1> DEFINE a == Out("setup", req, 0)
           b == Out("setupcomp", req, 0)
<1>1. /\ a \in Entries /\ b \in Entries /\ Sane(a) /\ Sane(b) /\ ~Bulk(a) /\ ~Bulk(b)
  BY DEF Out, Entries, Sane, Bulk
<1>2. rxfifo' = rxfifo \o <<a, b>> /\ rxfifo \in Seq(Entries)
  BY DEF SendRequest, TypeInv
<1> HIDE DEF a, b
<1>3. rxfifo' = Append(Append(rxfifo, a), b)
  BY <1>1, <1>2, TwoEntries
<1> QED
  BY <1>1, <1>3 DEF a, b

LEMMA RequestType == \A req \in Requests : TypeInv /\ SendRequest(req) => TypeInv'
<1> SUFFICES ASSUME NEW req \in Requests, TypeInv, SendRequest(req) PROVE TypeInv'
  OBVIOUS
<1> DEFINE a == Out("setup", req, 0)
           b == Out("setupcomp", req, 0)
           q == Append(rxfifo, a)
<1>1. /\ a \in Entries /\ b \in Entries /\ Sane(a) /\ Sane(b)
      /\ rxfifo' = Append(q, b)
  BY RequestEffect
<1> HIDE DEF a, b
<1>2. TypeOK'
  BY DEF TypeInv, TypeOK, SendRequest, data
<1>3. q \in Seq(Entries) /\ \A k \in 1 .. Len(q) : Sane(q[k])
  BY <1>1, FifoAppend
<1> HIDE DEF q
<1>4. /\ Append(q, b) \in Seq(Entries) /\ Append(q, b) # <<>>
      /\ \A k \in 1 .. Len(Append(q, b)) : Sane(Append(q, b)[k])
  BY <1>1, <1>3
<1> QED
  BY <1>1, <1>2, <1>4 DEF TypeInv

LEMMA UnderstoodType ==
    ASSUME TypeInv, NEW r
    PROVE  /\ Understood(r) \in [st : {"idle", "wait", "data", "datawait", "lost", "cut"},
                                 cmd : AllCommands \cup {"none"}, n : Nat, left : Nat]
<1> DEFINE Hosts == [st : {"idle", "wait", "data", "datawait", "lost", "cut"},
                     cmd : AllCommands \cup {"none"}, n : Nat, left : Nat]
<1>1. host \in Hosts
  BY DEF TypeInv, TypeOK
<1>2. host.n \in Nat
  BY <1>1
<1>3. \/ Understood(r) = [host EXCEPT !.st = IF host.n = 0 THEN "datawait" ELSE "data", !.left = host.n]
      \/ Understood(r) = [host EXCEPT !.st = "idle"]
      \/ Understood(r) = [host EXCEPT !.st = "lost"]
  BY DEF Understood
<1>4. (IF host.n = 0 THEN "datawait" ELSE "data") \in {"data", "datawait"}
  OBVIOUS
<1> QED
  BY <1>1, <1>2, <1>3, <1>4

LEMMA TypeStep == TypeInv /\ [Next]_vars => TypeInv'
<1> SUFFICES ASSUME TypeInv, [Next]_vars PROVE TypeInv'
  OBVIOUS
<1> USE FastbootAssumption
<1> DEFINE Hosts == [st : {"idle", "wait", "data", "datawait", "lost", "cut"},
                     cmd : AllCommands \cup {"none"}, n : Nat, left : Nat]
<1>0. TypeOK /\ host \in Hosts
  BY DEF TypeInv, TypeOK
<1>1. CASE Handler
  BY <1>1, HandlerType
<1>2. ASSUME NEW ep \in {0, 1}, XferComp(ep) PROVE TypeInv'
  <2>1. host' \in Hosts
    BY <1>0, <1>2, UnderstoodType DEF XferComp
  <2>2. /\ pc' \in {"iep0", "oep"} /\ ctl' \in {ctl, "none"}
        /\ empmsk' \subseteq empmsk
        /\ UNCHANGED <<ints, Bulk_Out, mixed, broken, crossed, rxfifo, setup, setupdone,
                       cmd_downloadding, rx_length, Bulk_Data_Size>>
    BY <1>2 DEF XferComp, SpinStep, After, usbvars, data
  <2>3. status' \in [says : Replies, flag : BOOLEAN]
    BY <1>0, <1>2 DEF XferComp, TypeOK
  <2>4. TypeOK'
    BY <1>0, <2>1, <2>2, <2>3 DEF TypeOK
  <2> QED
    BY <2>2, <2>4, SameFifo
<1>3. ASSUME NEW cmd \in Commands, NEW n \in Sizes, SendCommand(cmd, n) PROVE TypeInv'
  <2>1. cmd \in AllCommands /\ n \in Nat
    OBVIOUS
  <2>2. host' \in Hosts
    BY <1>3, <2>1 DEF SendCommand
  <2>3. /\ UNCHANGED <<ctl, pc, ints, status, setup, setupdone, empmsk, Bulk_Out, mixed, broken, crossed,
                       cmd_downloadding, rx_length, Bulk_Data_Size>>
        /\ rxfifo' = Append(rxfifo, Out("cmd", cmd, n))
    BY <1>3 DEF SendCommand, data
  <2>4. TypeOK'
    BY <1>0, <2>2, <2>3 DEF TypeOK
  <2>5. Out("cmd", cmd, n) \in Entries /\ Sane(Out("cmd", cmd, n))
    BY <2>1 DEF Out, Entries, Sane
  <2> QED
    BY <2>3, <2>4, <2>5, MoreFifo
<1>4. CASE SendData
  <2>1. PICK size \in 1 .. MaxPkt :
          /\ size <= host.left
          /\ rxfifo' = Append(rxfifo, Out("data", host.cmd, size))
          /\ host' = [host EXCEPT !.left = @ - size,
                                  !.st = IF size = host.left THEN "datawait" ELSE "data"]
    BY <1>4 DEF SendData
  <2>2. size \in Nat /\ host.left - size \in Nat /\ host.cmd \in AllCommands \cup {"none"}
    BY <1>0, <2>1
  <2>3. (IF size = host.left THEN "datawait" ELSE "data") \in {"data", "datawait"}
    OBVIOUS
  <2>4. host' \in Hosts
    BY <1>0, <2>1, <2>2, <2>3
  <2>5. UNCHANGED <<ctl, pc, ints, status, setup, setupdone, empmsk, Bulk_Out, mixed, broken, crossed,
                    cmd_downloadding, rx_length, Bulk_Data_Size>>
    BY <1>4 DEF SendData, data
  <2>6. TypeOK'
    BY <1>0, <2>4, <2>5 DEF TypeOK
  <2>7. Out("data", host.cmd, size) \in Entries /\ Sane(Out("data", host.cmd, size))
    BY <2>2 DEF Out, Entries, Sane
  <2> QED
    BY <2>1, <2>6, <2>7, MoreFifo
<1>5. CASE NewClient \/ StopClient
  <2>1. Quiet \in Hosts
    BY DEF Quiet
  <2>2. /\ host' = Quiet /\ broken' \in 0 .. MaxBroken
        /\ UNCHANGED <<ctl, pc, ints, status, empmsk, Bulk_Out, mixed, crossed, rxfifo, setup, setupdone,
                       cmd_downloadding, rx_length, Bulk_Data_Size>>
    BY <1>0, <1>5 DEF NewClient, StopClient, usbvars, data, TypeOK
  <2>3. TypeOK'
    BY <1>0, <2>1, <2>2 DEF TypeOK
  <2> QED
    BY <2>2, <2>3, SameFifo
<1>6. ASSUME NEW req \in Requests, SendRequest(req) PROVE TypeInv'
  BY <1>6, RequestType
<1>7. CASE GiveUpRequest
  BY <1>0, <1>7, SameFifo DEF GiveUpRequest, usbvars, data, TypeOK
<1>8. CASE PowerOn
  <2>1. /\ pc' = "poll" /\ cmd_downloadding' = FALSE /\ rx_length' = 0 /\ Bulk_Data_Size' = 0
        /\ UNCHANGED <<ints, status, empmsk, Bulk_Out, mixed, crossed, host, ctl, broken,
                       rxfifo, setup, setupdone>>
    BY <1>8 DEF PowerOn, hostvars, usbvars
  <2>2. cmd_downloadding' \in BOOLEAN
    BY <2>1
  <2>3. rx_length' \in Nat /\ Bulk_Data_Size' \in 0 .. rx_length' + MaxPkt
    BY <2>1
  <2>4. TypeOK'
    BY <1>0, <2>1, <2>2, <2>3 DEF TypeOK
  <2> QED
    BY <2>1, <2>4, SameFifo
<1>9. CASE Spin \/ UNCHANGED vars
  BY <1>0, <1>9, SameFifo DEF Spin, vars, TypeOK
<1>10. CASE PowerOff
  BY <1>10, DisconnectType DEF PowerOff
<1> QED
  BY <1>1, <1>2, <1>3, <1>4, <1>5, <1>6, <1>7, <1>8, <1>9, <1>10 DEF Next, Client

\* The variables of jz4780_poll.c stay in their ranges, whatever the host sends: a data
\* phase never stores more than one packet past what was announced.
THEOREM TypeCorrect == Spec => []TypeOK
<1>1. TypeInv => TypeOK
  BY DEF TypeInv
<1> QED
  BY <1>1, TypeInit, TypeStep, PTL DEF Spec

-----------------------------------------------------------------------------
(* The loop, without a command or a packet of endpoint 1 *)

LEMMA SpinStepInv == TypeInv /\ SpinInv /\ [Next]_vars => SpinInv'
<1> SUFFICES ASSUME TypeInv, SpinInv, [Next]_vars PROVE SpinInv'
  OBVIOUS
<1>1. CASE Poll \/ Rx \/ Oep \/ NoCommand \/ GetvarCommand \/ FlashCommand \/ EraseCommand \/ EraseHangs
           \/ DownloadCommand \/ RebootBootloader \/ Leave \/ BootFails \/ PowerOff \/ PowerOn
  <2>1. pc' \in {"rx", "iep1", "cmd", "poll", "gone", "hung"}
    BY <1>1 DEF Poll, Rx, Oep, NoCommand, GetvarCommand, FlashCommand, EraseCommand, EraseHangs,
                DownloadCommand, RebootBootloader, Leave, BootFails, PowerOff, PowerOn, Finish, After
  <2> QED
    BY <2>1 DEF SpinInv
<1>2. CASE Iep(1)
  <2>1. /\ UNCHANGED <<ints, status, empmsk>>
        /\ pc' = IF "IEP" \in ints /\ 1 \in empmsk /\ ~status.flag /\ status.says # Nothing
                 THEN "spin1" ELSE "iep0"
    BY <1>2 DEF Iep, SpinStep, After, IepStep
  <2> QED
    BY <2>1 DEF SpinInv
<1>3. CASE Iep(0)
  <2>1. /\ UNCHANGED <<ints, status, empmsk>> /\ pc = "iep0"
        /\ pc' = IF "IEP" \in ints /\ 0 \in empmsk /\ ~status.flag /\ status.says # Nothing
                 THEN "spin0" ELSE "oep"
    BY <1>3 DEF Iep, SpinStep, After, IepStep
  <2> QED
    BY <2>1 DEF SpinInv
<1>4. CASE XferComp(1)
  <2>1. pc' = "iep0" /\ empmsk' = empmsk \ {1}
    BY <1>4 DEF XferComp, SpinStep, After
  <2> QED
    BY <2>1 DEF SpinInv
<1>5. CASE XferComp(0)
  <2>1. pc' = "oep"
    BY <1>5 DEF XferComp, SpinStep, After
  <2> QED
    BY <2>1 DEF SpinInv
<1>6. CASE UNCHANGED <<pc, ints, status, empmsk>>
  BY <1>6 DEF SpinInv
<1>7. ASSUME NEW cmd \in Commands, NEW n \in Sizes, SendCommand(cmd, n) PROVE SpinInv'
  BY <1>6, <1>7 DEF SendCommand
<1>8. ASSUME NEW req \in Requests, SendRequest(req) PROVE SpinInv'
  BY <1>6, <1>8 DEF SendRequest
<1>9. CASE SendData \/ NewClient \/ StopClient \/ GiveUpRequest
  BY <1>6, <1>9 DEF SendData, NewClient, StopClient, GiveUpRequest
<1>10. CASE Spin \/ UNCHANGED vars
  BY <1>6, <1>10 DEF Spin, vars
<1> QED
  BY <1>1, <1>2, <1>3, <1>4, <1>5, <1>7, <1>8, <1>9, <1>10 DEF Next, Handler, Client

\* What no step of the loop on its own behalf, and no control request, changes.
Still ==
    /\ UNCHANGED <<host, cmd_downloadding, rx_length, Bulk_Data_Size, mixed, broken>>
    /\ Bulk_Out'.cmd = Bulk_Out.cmd /\ (Bulk_Out' = Bulk_Out \/ ~Taken)
    /\ SameBulk(rxfifo, rxfifo')
    /\ 1 \in empmsk' <=> 1 \in empmsk
    /\ crossed => crossed'
    /\ pc # "hung" /\ pc' \notin {"gone", "hung"}

\* It leaves the client and the loop where they are with a command.
LEMMA StillMode ==
    ASSUME TypeInv, ModeInv, Still,
           Taken => pc' \in {"iep1", "iep0", "spin0", "oep", "cmd"},
           Answered => /\ pc' \in {"poll", "rx", "iep1", "spin1"} /\ UNCHANGED status
                       /\ pc' \in {"rx", "iep1"} => "IEP" \in ints',
           Over => /\ status'.says \in {Reply("OKAY", "data"), Descriptor, Nothing}
                   /\ ~crossed' => status'.says = Reply("OKAY", "data")
    PROVE  ModeInv'
<1>1. mixed' <= broken'
  BY DEF ModeInv, Still
<1>2. /\ UNCHANGED <<host, cmd_downloadding, rx_length, Bulk_Data_Size, mixed, broken>>
      /\ 1 \in empmsk' <=> 1 \in empmsk
      /\ Bulk_Out'.cmd = Bulk_Out.cmd /\ pc # "hung" /\ pc' \notin {"gone", "hung"}
  BY DEF Still
<1>3. CASE Idle
  <2>1. NoBulk(rxfifo')
    BY <1>3 DEF Still, SameBulk, Idle
  <2>2. Idle'
    BY <1>2, <1>3, <2>1 DEF Idle, NoReply, Orderly, Still
  <2> QED
    BY <1>1, <2>2 DEF ModeInv
<1>4. CASE Sent
  <2>1. OnlyCommand(rxfifo', host.cmd, host.n)
    BY <1>4 DEF Still, SameBulk, Sent
  <2>2. Sent'
    BY <1>2, <1>4, <2>1 DEF Sent, NoReply
  <2> QED
    BY <1>1, <2>2 DEF ModeInv
<1>5. CASE Taken
  <2>1. NoBulk(rxfifo') /\ Bulk_Out' = Bulk_Out
    BY <1>5 DEF Still, SameBulk, Taken
  <2>2. Taken'
    BY <1>2, <1>5, <2>1 DEF Taken
  <2> QED
    BY <1>1, <2>2 DEF ModeInv
<1>6. CASE Answered
  <2>1. NoBulk(rxfifo')
    BY <1>6 DEF Still, SameBulk, Answered
  <2>2. Answered'
    BY <1>2, <1>6, <2>1 DEF Answered
  <2> QED
    BY <1>1, <2>2 DEF ModeInv
<1>7. CASE Flow
  <2>1. /\ Bulk_Data_Size \in Nat /\ rx_length \in Nat /\ host.n - host.left \in Nat
    BY <1>7 DEF Flow, TypeInv, TypeOK
  <2>2. /\ NoCommands(rxfifo')
        /\ Stream(rxfifo', Bulk_Data_Size, host.n - host.left, rx_length)
    BY <1>7, <2>1 DEF Still, SameBulk, Flow
  <2>3. Flow'
    BY <1>2, <1>7, <2>2 DEF Flow, NoReply
  <2> QED
    BY <1>1, <2>3 DEF ModeInv
<1>8. CASE Over
  <2>1. NoBulk(rxfifo')
    BY <1>8 DEF Still, SameBulk, Over
  <2>2. Over'
    BY <1>2, <1>8, <2>1 DEF Over
  <2> QED
    BY <1>1, <2>2 DEF ModeInv
<1>9. CASE Stale
  <2>1. Bulk_Data_Size \in Nat /\ rx_length \in Nat
    BY DEF TypeInv, TypeOK
  <2>2. PICK to \in 0 .. rx_length :
            (to < rx_length \/ to = 0) /\ Stream(rxfifo, Bulk_Data_Size, to, rx_length)
    BY <1>9 DEF Stale
  <2>3. /\ host.st = "idle" => NoCommands(rxfifo')
        /\ host.st # "idle" => CommandLast(rxfifo')
        /\ Stream(rxfifo', Bulk_Data_Size, to, rx_length)
    BY <1>9, <2>1, <2>2 DEF Still, SameBulk, Stale
  <2>4. \E t \in 0 .. rx_length' :
            (t < rx_length' \/ t = 0) /\ Stream(rxfifo', Bulk_Data_Size', t, rx_length')
    BY <1>2, <2>2, <2>3
  <2>5. Stale'
    BY <1>2, <1>9, <2>3, <2>4 DEF Stale, NoReply
  <2> QED
    BY <1>1, <2>5 DEF ModeInv
<1> QED
  BY <1>2, <1>3, <1>4, <1>5, <1>6, <1>7, <1>8, <1>9 DEF ModeInv, Hung

LEMMA SameBulkItself == \A q : SameBulk(q, q)
BY DEF SameBulk

LEMMA RequestMode ==
    ASSUME TypeInv, ModeInv, NEW req \in Requests, SendRequest(req)
    PROVE  ModeInv'
<1> DEFINE a == Out("setup", req, 0)
           b == Out("setupcomp", req, 0)
           q == Append(rxfifo, a)
<1>1. /\ a \in Entries /\ b \in Entries /\ ~Bulk(a) /\ ~Bulk(b) /\ rxfifo \in Seq(Entries)
      /\ rxfifo' = Append(q, b)
  BY RequestEffect DEF TypeInv
<1> HIDE DEF a, b
<1>2. SameBulk(rxfifo, q) /\ q \in Seq(Entries)
  BY <1>1, AppendOther
<1> HIDE DEF q
<1>3. SameBulk(q, rxfifo')
  BY <1>1, <1>2, AppendOther
<1>4. SameBulk(rxfifo, rxfifo')
  BY <1>2, <1>3 DEF SameBulk
<1>5. UNCHANGED <<host, cmd_downloadding, rx_length, Bulk_Data_Size, mixed, broken, Bulk_Out, empmsk,
                  crossed, pc, ints, status>> /\ pc # "gone"
  BY DEF SendRequest, data
<1>6. CASE pc # "hung"
  <2>1. Still
    BY <1>4, <1>5, <1>6 DEF Still
  <2> QED
    BY <1>5, <2>1, StillMode DEF Taken, Answered, Over
<1>7. CASE pc = "hung"
  <2>1. Hung /\ mixed <= broken
    BY <1>7 DEF ModeInv, Idle, Sent, Taken, Answered, Flow, Over, Stale
  <2>2. NoBulk(rxfifo')
    BY <1>4, <2>1 DEF Hung, SameBulk
  <2>3. Hung'
    BY <1>5, <2>1, <2>2 DEF Hung
  <2> QED
    BY <1>5, <2>1, <2>3 DEF ModeInv
<1> QED
  BY <1>6, <1>7

\* The turns of the loop that handle neither a command nor a packet of endpoint 1.
LEMMA LoopMode ==
    ASSUME TypeInv, SpinInv, ModeInv, Poll \/ Iep(0) \/ Iep(1) \/ Oep \/ XferComp(0)
    PROVE  ModeInv'
<1>1. CASE Poll
  <2>1. /\ UNCHANGED <<host, cmd_downloadding, rx_length, Bulk_Data_Size, mixed, broken, Bulk_Out, empmsk,
                       crossed, status, rxfifo>>
        /\ pc = "poll" /\ pc' = "rx" /\ (empmsk # {} => "IEP" \in ints')
    BY <1>1 DEF Poll, hostvars, usbvars, data
  <2>2. Still
    BY <2>1, SameBulkItself DEF Still
  <2>3. ~Taken
    BY <2>1 DEF Taken
  <2> QED
    BY <2>1, <2>2, <2>3, StillMode DEF Answered, Over
<1>2. ASSUME NEW ep \in {0, 1}, Iep(ep) PROVE ModeInv'
  <2>1. /\ UNCHANGED <<host, cmd_downloadding, rx_length, Bulk_Data_Size, mixed, broken, Bulk_Out, empmsk,
                       crossed, status, rxfifo, ints>>
        /\ ep = 1 => /\ pc = "iep1"
                     /\ pc' = IF "IEP" \in ints /\ 1 \in empmsk /\ ~status.flag /\ status.says # Nothing
                              THEN "spin1" ELSE "iep0"
        /\ ep = 0 => pc = "iep0" /\ pc' \in {"spin0", "oep"}
    BY <1>2 DEF Iep, IepStep, SpinStep, After, hostvars, usbvars, data
  <2>2. Still
    BY <2>1, SameBulkItself DEF Still
  <2>3. Taken => pc' \in {"iep1", "iep0", "spin0", "oep", "cmd"}
    BY <2>1 DEF Taken
  <2>4. Answered => pc' = "spin1"
    BY <2>1 DEF Answered, Reply, Nothing
  <2> QED
    BY <2>1, <2>2, <2>3, <2>4, StillMode DEF Over
<1>3. CASE Oep
  <2>1. /\ UNCHANGED <<host, cmd_downloadding, rx_length, Bulk_Data_Size, mixed, broken, Bulk_Out, rxfifo>>
        /\ pc = "oep" /\ pc' = "cmd"
    BY <1>3 DEF Oep, After, data
  <2>5. 1 \in empmsk' <=> 1 \in empmsk
    BY <1>3 DEF Oep
  <2>6. crossed => crossed'
    <3>1. crossed' = (crossed \/ 1 \in empmsk) \/ crossed' = crossed
      BY <1>3 DEF Oep
    <3> QED
      BY <3>1, Zenon
  <2>2. Still
    BY <2>1, <2>5, <2>6, SameBulkItself DEF Still
  <2>3. ~Answered
    BY <2>1 DEF Answered
  <2>4. Over => /\ status'.says \in {Reply("OKAY", "data"), Descriptor, Nothing}
                /\ ~crossed' => status'.says = Reply("OKAY", "data")
    <3>1. CASE "OEP" \in ints
      <4>1. status' = [says |-> IF setup = "desc" THEN Descriptor ELSE Nothing, flag |-> FALSE]
            /\ crossed' = (crossed \/ 1 \in empmsk)
        BY <1>3, <3>1 DEF Oep
      <4>2. status'.says \in {Descriptor, Nothing}
        BY <4>1
      <4> QED
        BY <4>1, <4>2 DEF Over
    <3>2. CASE "OEP" \notin ints
      BY <1>3, <3>2 DEF Oep, Over
    <3> QED
      BY <3>1, <3>2
  <2> QED
    BY <2>1, <2>2, <2>3, <2>4, StillMode
<1>4. CASE XferComp(0)
  <2>1. /\ UNCHANGED <<host, cmd_downloadding, rx_length, Bulk_Data_Size, mixed, broken, Bulk_Out, rxfifo,
                       crossed>>
        /\ pc = "spin0" /\ pc' = "oep" /\ (1 \in empmsk' <=> 1 \in empmsk)
        /\ status'.says = status.says
    BY <1>4 DEF XferComp, SpinStep, After, usbvars, data, TypeInv, TypeOK
  <2>2. Still
    BY <2>1, SameBulkItself DEF Still
  <2>3. ~Answered
    BY <2>1 DEF Answered
  <2> QED
    BY <2>1, <2>2, <2>3, StillMode DEF Over
<1> QED
  BY <1>1, <1>2, <1>3, <1>4

\* A handler that has executed a command.
LEMMA CommandMode ==
    ASSUME TypeInv, ModeInv, NoCommand \/ GetvarCommand \/ FlashCommand \/ EraseCommand
                              \/ DownloadCommand \/ BootFails
    PROVE  ModeInv'
<1>1. /\ pc = "cmd" /\ pc' = "poll" /\ Bulk_Out' = None /\ mixed' <= broken'
      /\ UNCHANGED <<ints, mixed, crossed, host, ctl, broken, rxfifo, setup, setupdone>>
  BY DEF NoCommand, GetvarCommand, FlashCommand, EraseCommand, DownloadCommand, BootFails, Finish, After,
         hostvars, usbvars, ModeInv
<1>2. Bulk_Out'.cmd = "none"
  BY <1>1 DEF None
<1>3. CASE ~Taken
  <2>1. Bulk_Out.cmd = "none" /\ ~Answered
    BY <1>1, <1>3 DEF ModeInv, Hung, Idle, Sent, Answered, Flow, Over, Stale, NoReply
  <2>2. UNCHANGED <<status, empmsk, cmd_downloadding, rx_length, Bulk_Data_Size>>
    BY <2>1 DEF NoCommand, GetvarCommand, FlashCommand, EraseCommand, DownloadCommand, BootFails, data
  <2>3. Still
    BY <1>1, <1>2, <1>3, <2>1, <2>2, SameBulkItself DEF Still
  <2> QED
    BY <1>1, <1>3, <2>1, <2>2, <2>3, StillMode DEF Over
<1>4. CASE Taken
  <2> DEFINE c == host.cmd
  <2>1. /\ host.st = "wait" /\ NoBulk(rxfifo) /\ 1 \notin empmsk /\ ~cmd_downloadding
        /\ c \in AllCommands /\ Bulk_Out.cmd = c /\ Bulk_Out.n = host.n
    BY <1>4 DEF Taken
  <2> HIDE DEF c
  <2>2. CASE NoCommand
    <3>1. UNCHANGED <<empmsk, cmd_downloadding>>
      BY <2>2 DEF NoCommand, data
    <3>2. Idle'
      BY <1>1, <1>2, <2>1, <3>1 DEF Idle, NoReply
    <3> QED
      BY <1>1, <3>2 DEF ModeInv
  <2>3. CASE GetvarCommand \/ FlashCommand \/ EraseCommand \/ BootFails
    <3>1. PICK kind \in {"OKAY", "FAIL"} : TxStatus(kind, c)
      BY <2>1, <2>3 DEF GetvarCommand, FlashCommand, EraseCommand, BootFails
    <3>2. c # "download" /\ cmd_downloadding' = FALSE
      <4>1. CASE GetvarCommand \/ EraseCommand \/ BootFails
        BY <2>1, <4>1 DEF GetvarCommand, EraseCommand, BootFails, data
      <4>2. CASE FlashCommand
        BY <2>1, <4>2 DEF FlashCommand
      <4> QED
        BY <2>3, <4>1, <4>2
    <3>3. 1 \in empmsk' /\ status' = [says |-> Reply(kind, c), flag |-> FALSE]
      BY <3>1 DEF TxStatus
    <3>4. status'.says \in {Reply("OKAY", c), Reply("FAIL", c)} /\ ~status'.flag
      BY <3>3
    <3>5. Answered'
      BY <1>1, <1>2, <2>1, <3>2, <3>3, <3>4 DEF Answered, c
    <3> QED
      BY <1>1, <3>5 DEF ModeInv
  <2>4. CASE DownloadCommand
    <3>1. /\ c = "download" /\ cmd_downloadding' = TRUE /\ rx_length' = host.n
          /\ Bulk_Data_Size' = 0 /\ TxStatus("DATA", "download")
      BY <2>1, <2>4 DEF DownloadCommand
    <3>2. 1 \in empmsk' /\ status' = [says |-> Reply("DATA", "download"), flag |-> FALSE]
      BY <3>1 DEF TxStatus
    <3>3. status'.says = Reply("DATA", "download") /\ ~status'.flag
      BY <3>2
    <3>4. Answered'
      BY <1>1, <1>2, <2>1, <3>1, <3>2, <3>3 DEF Answered, c
    <3> QED
      BY <1>1, <3>4 DEF ModeInv
  <2> QED
    BY <2>2, <2>3, <2>4
<1> QED
  BY <1>3, <1>4

\* The device leaves the bus: nothing is left of what was under way.
LEMMA LeaveMode ==
    ASSUME TypeInv, ModeInv, RebootBootloader \/ Leave
    PROVE  ModeInv'
<1>1. /\ pc = "cmd" /\ pc' # "hung" /\ Disconnected /\ Bulk_Out.cmd # "none" /\ mixed' <= broken'
      /\ UNCHANGED <<mixed, broken, crossed, cmd_downloadding>>
  BY DEF RebootBootloader, Leave, data, ModeInv
<1>2. Taken
  BY <1>1 DEF ModeInv, Hung, Idle, Sent, Answered, Flow, Over, Stale, NoReply
<1>3. host.st = "wait" /\ ~cmd_downloadding /\ host \in [st : {"idle", "wait", "data", "datawait", "lost", "cut"},
                 cmd : AllCommands \cup {"none"}, n : Nat, left : Nat]
  BY <1>2 DEF Taken, TypeInv, TypeOK
<1>4. rxfifo' = <<>> /\ empmsk' = {} /\ Bulk_Out'.cmd = "none" /\ host'.st = "cut"
  BY <1>1, <1>3 DEF Disconnected, None
<1>5. NoBulk(rxfifo')
  BY <1>4 DEF NoBulk
<1>6. Idle'
  BY <1>1, <1>3, <1>4, <1>5 DEF Idle, NoReply
<1> QED
  BY <1>1, <1>6 DEF ModeInv

\* The erase that does not come back, and the power key.
LEMMA HangMode ==
    ASSUME TypeInv, ModeInv, EraseHangs
    PROVE  ModeInv'
<1>1. /\ pc = "cmd" /\ pc' = "hung" /\ Bulk_Out.cmd # "none" /\ mixed' <= broken'
      /\ UNCHANGED <<host, rxfifo, cmd_downloadding>>
  BY DEF EraseHangs, Hanging, hostvars, usbvars, data, ModeInv
<1>2. Taken
  BY <1>1 DEF ModeInv, Hung, Idle, Sent, Answered, Flow, Over, Stale, NoReply
<1>3. Hung'
  BY <1>1, <1>2 DEF Taken, Hung
<1> QED
  BY <1>1, <1>3 DEF ModeInv

LEMMA PowerOffMode ==
    ASSUME TypeInv, ModeInv, PowerOff
    PROVE  ModeInv'
<1>1. /\ pc = "hung" /\ pc' = "gone" /\ Disconnected /\ mixed' <= broken'
      /\ UNCHANGED <<mixed, broken, crossed, cmd_downloadding>>
  BY DEF PowerOff, data, ModeInv
<1>2. Hung
  BY <1>1 DEF ModeInv, Idle, Sent, Taken, Answered, Flow, Over, Stale
<1>3. host.st = "wait" /\ ~cmd_downloadding /\ host \in [st : {"idle", "wait", "data", "datawait", "lost", "cut"},
                 cmd : AllCommands \cup {"none"}, n : Nat, left : Nat]
  BY <1>2 DEF Hung, TypeInv, TypeOK
<1>4. rxfifo' = <<>> /\ empmsk' = {} /\ Bulk_Out'.cmd = "none" /\ host'.st = "cut"
  BY <1>1, <1>3 DEF Disconnected, None
<1>5. NoBulk(rxfifo')
  BY <1>4 DEF NoBulk
<1>6. Idle'
  BY <1>1, <1>3, <1>4, <1>5 DEF Idle, NoReply
<1> QED
  BY <1>1, <1>6 DEF ModeInv

\* The client reads a reply.
LEMMA ReadMode ==
    ASSUME TypeInv, SpinInv, ModeInv, XferComp(1)
    PROVE  ModeInv'
<1>1. /\ pc = "spin1" /\ pc' = "iep0" /\ host' = Understood(status.says) /\ mixed' <= broken'
      /\ empmsk' = empmsk \ {1} /\ 1 \in empmsk /\ status.says # Nothing /\ ~status.flag
      /\ UNCHANGED <<ints, Bulk_Out, mixed, broken, crossed, rxfifo, cmd_downloadding, rx_length,
                     Bulk_Data_Size>>
  BY DEF XferComp, SpinStep, After, usbvars, data, SpinInv, ModeInv
<1>2. host \in [st : {"idle", "wait", "data", "datawait", "lost", "cut"},
                cmd : AllCommands \cup {"none"}, n : Nat, left : Nat]
      /\ host.n \in Nat
  BY DEF TypeInv, TypeOK
<1>3. Answered \/ Over
  BY <1>1 DEF ModeInv, Hung, Idle, Sent, Taken, Flow, Stale, NoReply
<1>4. NoBulk(rxfifo) /\ Bulk_Out.cmd = "none"
  BY <1>3 DEF Answered, Over
<1>5. CASE Answered /\ host.cmd = "download"
  <2>1. /\ host.st = "wait" /\ status.says = Reply("DATA", host.cmd)
        /\ cmd_downloadding /\ rx_length = host.n /\ Bulk_Data_Size = 0
    BY <1>5 DEF Answered
  <2>10. status.says \notin {Reply("OKAY", host.cmd), Reply("FAIL", host.cmd)}
    BY <2>1 DEF Reply
  <2>2. host' = [host EXCEPT !.st = IF host.n = 0 THEN "datawait" ELSE "data", !.left = host.n]
    BY <1>1, <2>1, <2>10 DEF Understood
  <2>3. /\ host'.st = IF host.n = 0 THEN "datawait" ELSE "data"
        /\ host'.left = host.n /\ host'.n = host.n
    BY <1>2, <2>2
  <2>4. NoCommands(rxfifo)
    BY <1>4 DEF NoBulk, NoCommands, Bulk
  <2>5. Stream(rxfifo, 0, 0, rx_length)
    BY <1>2, <1>4, <2>1, StreamNone DEF TypeInv
  <2>6. host'.n - host'.left = 0
    BY <1>2, <2>3
  <2>7. Stream(rxfifo', Bulk_Data_Size', host'.n - host'.left, rx_length')
    BY <1>1, <2>1, <2>5, <2>6
  <2>8. host'.st \in {"data", "datawait"} /\ host'.left <= host'.n
        /\ (host'.st = "datawait" <=> host'.left = 0)
    BY <1>2, <2>3
  <2>9. Flow'
    BY <1>1, <1>4, <2>1, <2>3, <2>4, <2>7, <2>8 DEF Flow, NoReply
  <2> QED
    BY <1>1, <2>9 DEF ModeInv
<1>6. CASE host'.st \in {"idle", "lost"} /\ (host'.st = "lost" => ~Orderly) /\ ~cmd_downloadding
  <2>1. Orderly' <=> Orderly
    BY <1>1 DEF Orderly
  <2>2. Idle'
    BY <1>1, <1>4, <1>6, <2>1 DEF Idle, NoReply
  <2> QED
    BY <1>1, <2>2 DEF ModeInv
<1>7. CASE Answered /\ host.cmd # "download"
  <2>1. /\ host.st = "wait" /\ ~cmd_downloadding
        /\ status.says \in {Reply("OKAY", host.cmd), Reply("FAIL", host.cmd)}
    BY <1>7 DEF Answered
  <2>2. status.says # Reply("DATA", host.cmd)
    BY <2>1 DEF Reply
  <2>3. host' = [host EXCEPT !.st = "idle"]
    BY <1>1, <2>1, <2>2 DEF Understood
  <2> QED
    BY <1>2, <1>6, <2>1, <2>3
<1>8. CASE Over /\ host.st = "datawait" /\ status.says = Reply("OKAY", "data")
  <2>1. host' = [host EXCEPT !.st = "idle"]
    BY <1>1, <1>8 DEF Understood
  <2> QED
    BY <1>2, <1>6, <1>8, <2>1 DEF Over
<1>9. CASE Over /\ ~(host.st = "datawait" /\ status.says = Reply("OKAY", "data"))
  <2>1. status.says \in {Reply("OKAY", "data"), Descriptor} /\ ~cmd_downloadding
    BY <1>1, <1>9 DEF Over
  <2>2. ~Orderly
    BY <1>9, <1>2 DEF Over, Orderly
  <2>3. host.cmd # "data"
    BY <1>2 DEF AllCommands, Answering, Leaving, Hanging
  <2>4. /\ ~(host.st = "wait" /\ status.says = Reply("DATA", host.cmd))
        /\ ~(host.st = "wait" /\ status.says \in {Reply("OKAY", host.cmd), Reply("FAIL", host.cmd)})
    BY <2>1, <2>3 DEF Reply, Descriptor
  <2>5. host' = [host EXCEPT !.st = "lost"]
    BY <1>1, <1>9, <2>4 DEF Understood
  <2> QED
    BY <1>2, <1>6, <2>1, <2>2, <2>5
<1> QED
  BY <1>3, <1>5, <1>7, <1>8, <1>9

-----------------------------------------------------------------------------
(* Packets of endpoint 1 *)

\* A packet that the loop pops.
LEMMA RxMode ==
    ASSUME TypeInv, ModeInv, Rx
    PROVE  ModeInv'
<1> USE FastbootAssumption
<1> DEFINE e == Head(rxfifo)
<1>1. /\ pc = "rx" /\ pc' = "iep1" /\ UNCHANGED <<ints, crossed, host, ctl, broken>>
      /\ rxfifo \in Seq(Entries) /\ mixed <= broken /\ ~Taken
      /\ mixed \in Nat /\ broken \in Nat
  BY DEF Rx, After, hostvars, TypeInv, TypeOK, ModeInv, Taken
<1>2. CASE /\ UNCHANGED <<status, empmsk, Bulk_Out, mixed, cmd_downloadding, rx_length, Bulk_Data_Size>>
           /\ SameBulk(rxfifo, rxfifo')
  <2>1. Still
    BY <1>1, <1>2 DEF Still
  <2>2. Answered => "IEP" \in ints'
    BY <1>1 DEF Answered
  <2> QED
    BY <1>1, <1>2, <2>1, <2>2, StillMode DEF Over
<1>3. CASE "RXFIFO_NEMPTY" \notin ints
  BY <1>2, <1>3, SameBulkItself DEF Rx, data
<1>4. CASE "RXFIFO_NEMPTY" \in ints
  <2>1. /\ rxfifo # <<>> /\ e \in Entries /\ Sane(e) /\ rxfifo' = Tail(rxfifo)
        /\ rxfifo' \in Seq(Entries)
    BY <1>1, <1>4, FifoTail DEF TypeInv, Rx
  <2>2. CASE ~Bulk(e)
    <3>1. UNCHANGED <<status, empmsk, Bulk_Out, mixed, cmd_downloadding, rx_length, Bulk_Data_Size>>
      BY <1>4, <2>2 DEF Rx, data, Bulk
    <3>2. SameBulk(rxfifo, rxfifo')
      BY <1>1, <2>1, <2>2, TailOther
    <3> QED
      BY <1>2, <3>1, <3>2
  <2>3. CASE Bulk(e)
    <3>1. ~NoBulk(rxfifo)
      BY <1>1, <2>1, <2>3, TailBulk
    <3>2. Sent \/ Flow \/ Stale
      BY <1>1, <3>1 DEF ModeInv, Hung, Idle, Answered, Over
    <3>3. cmd_downloadding => StoreData(e)
      BY <1>4, <2>3 DEF Rx, Bulk
    <3>4. ~cmd_downloadding => StoreCommand(e)
      BY <1>4, <2>3 DEF Rx, Bulk
    <3> HIDE DEF e
    <3>5. CASE Sent
      <4>1. e = Out("cmd", host.cmd, host.n) /\ NoBulk(rxfifo')
        BY <1>1, <2>1, <2>3, <3>5, TailBulk DEF Sent, e
      <4>2. e.kind = "cmd" /\ e.cmd = host.cmd /\ e.n = host.n
        BY <4>1 DEF Out
      <4>3. /\ Bulk_Out' = [cmd |-> host.cmd, n |-> host.n] /\ mixed' = mixed
            /\ UNCHANGED <<status, empmsk, cmd_downloadding>>
        BY <3>4, <3>5, <4>2 DEF StoreCommand, data, Sent
      <4>4. host.cmd \in AllCommands
        BY <2>1, <4>2 DEF Sane
      <4>5. Taken'
        BY <1>1, <3>5, <4>1, <4>3, <4>4 DEF Taken, Sent, NoReply
      <4> QED
        BY <1>1, <4>3, <4>5 DEF ModeInv
    <3>6. CASE Flow \/ Stale
      <4> DEFINE size  == IF e.kind = "cmd" THEN 1 ELSE e.n
                 total == IF Bulk_Data_Size <= rx_length THEN Bulk_Data_Size + size ELSE Bulk_Data_Size
                 last  == size < MaxPkt \/ total = rx_length
      <4>1. /\ size \in 1 .. MaxPkt
            /\ Bulk_Data_Size' = total
            /\ cmd_downloadding' = ~last
            /\ IF last THEN TxStatus("OKAY", "data") ELSE UNCHANGED <<status, empmsk>>
            /\ mixed' = IF e.kind = "cmd" THEN mixed + 1 ELSE mixed
            /\ UNCHANGED <<rx_length, Bulk_Out, setup, setupdone>>
        BY <2>1, <2>3, <3>3, <3>6, StoreDataEffect DEF Flow, Stale, Bulk
      <4> HIDE DEF size, total, last
      <4>2. /\ host.left \in Nat /\ host.n \in Nat /\ rx_length \in Nat /\ Bulk_Data_Size \in Nat
        BY DEF TypeInv, TypeOK
      <4>3. NoReply /\ Bulk_Out'.cmd = "none"
        BY <3>6, <4>1 DEF Flow, Stale, NoReply
      <4>4. last => /\ status'.says = Reply("OKAY", "data") /\ 1 \in empmsk'
                    /\ cmd_downloadding' = FALSE
        <5>1. ASSUME last
              PROVE  status' = [says |-> Reply("OKAY", "data"), flag |-> FALSE] /\ 1 \in empmsk'
                     /\ cmd_downloadding' = FALSE
          BY <4>1, <5>1 DEF TxStatus
        <5> QED
          BY <5>1
      <4>5. ~last => UNCHANGED <<status, empmsk>> /\ cmd_downloadding' = TRUE /\ NoReply'
        BY <4>1, <4>3 DEF NoReply
      <4>6. CASE Flow
        <5> DEFINE to == host.n - host.left
        <5>1. /\ to \in Nat /\ NoCommands(rxfifo) /\ Stream(rxfifo, Bulk_Data_Size, to, rx_length)
              /\ rx_length = host.n /\ host.left <= host.n /\ (host.st = "datawait" <=> host.left = 0)
              /\ host.st \in {"data", "datawait"}
          BY <4>2, <4>6 DEF Flow
        <5> HIDE DEF to
        <5>2. e.kind = "data" /\ NoCommands(rxfifo')
          BY <1>1, <2>1, <2>3, <5>1, TailBulk DEF Bulk, e
        <5>3. /\ e.n \in 1 .. MaxPkt /\ Bulk_Data_Size + e.n <= to
              /\ e.n < MaxPkt => Bulk_Data_Size + e.n = rx_length
              /\ Stream(rxfifo', Bulk_Data_Size + e.n, to, rx_length)
          BY <1>1, <2>1, <4>2, <5>1, <5>2, TailStream DEF e
        <5>4. size = e.n /\ total = Bulk_Data_Size + e.n
          <6>1. size = e.n
            BY <5>2 DEF size
          <6>2. Bulk_Data_Size <= rx_length
            BY <4>2, <5>1, <5>3 DEF to
          <6> QED
            BY <6>1, <6>2 DEF total
        <5>5. mixed' = mixed
          BY <4>1, <5>2
        <5>6. CASE last
          <6>1. total = rx_length /\ rx_length > 0
            BY <4>2, <5>3, <5>4, <5>6 DEF last
          <6>2. host.left = 0 /\ to = rx_length
            BY <4>2, <5>1, <5>3, <5>4, <6>1 DEF to
          <6>3. NoBulk(rxfifo')
            BY <2>1, <4>2, <5>2, <5>3, <5>4, <6>1, <6>2, StreamEnd
          <6>4. Over'
            BY <1>1, <4>1, <4>3, <4>4, <5>1, <5>6, <6>1, <6>2, <6>3 DEF Over
          <6> QED
            BY <1>1, <5>5, <6>4 DEF ModeInv
        <5>7. CASE ~last
          <6>1. Stream(rxfifo', Bulk_Data_Size', (host.n - host.left)', rx_length')
            BY <1>1, <4>1, <5>3, <5>4 DEF to
          <6>2. Flow'
            BY <1>1, <4>1, <4>5, <5>1, <5>2, <5>7, <6>1 DEF Flow
          <6> QED
            BY <1>1, <5>5, <6>2 DEF ModeInv
        <5> QED
          BY <5>6, <5>7
      <4>7. CASE Stale
        <5>1. PICK to \in 0 .. rx_length :
                  (to < rx_length \/ to = 0) /\ Stream(rxfifo, Bulk_Data_Size, to, rx_length)
          BY <4>7 DEF Stale
        <5>2. to \in Nat /\ to <= rx_length /\ mixed < broken /\ host.st \in {"idle", "wait"}
          BY <4>2, <4>7, <5>1 DEF Stale
        <5>3. CASE e.kind = "data"
          <6>1. /\ e.n \in 1 .. MaxPkt /\ Bulk_Data_Size + e.n <= to
                /\ e.n < MaxPkt => Bulk_Data_Size + e.n = rx_length
                /\ Stream(rxfifo', Bulk_Data_Size + e.n, to, rx_length)
            BY <1>1, <2>1, <4>2, <5>1, <5>2, <5>3, TailStream DEF e
          <6>2. size = e.n
            BY <5>3 DEF size
          <6>3. Bulk_Data_Size <= rx_length /\ to < rx_length
            BY <4>2, <5>1, <5>2, <6>1
          <6>4. total = Bulk_Data_Size + e.n
            BY <6>2, <6>3 DEF total
          <6>5. ~last
            BY <4>2, <5>2, <6>1, <6>2, <6>3, <6>4 DEF last
          <6>6. mixed' = mixed
            BY <4>1, <5>3
          <6>7. IF host.st = "idle" THEN NoCommands(rxfifo') ELSE CommandLast(rxfifo')
            BY <1>1, <2>1, <4>7, <5>3, TailBulk DEF Stale, e
          <6>8. \E t \in 0 .. rx_length' :
                    (t < rx_length' \/ t = 0) /\ Stream(rxfifo', Bulk_Data_Size', t, rx_length')
            BY <4>1, <5>1, <6>1, <6>4
          <6>9. Stale'
            BY <1>1, <4>5, <5>2, <6>5, <6>6, <6>7, <6>8 DEF Stale
          <6> QED
            BY <1>1, <6>6, <6>9 DEF ModeInv
        <5>4. CASE e.kind = "cmd"
          <6>1. host.st = "wait" /\ NoBulk(rxfifo')
            BY <1>1, <2>1, <4>7, <5>2, <5>4, TailBulk DEF Stale, e
          <6>2. size = 1 /\ last
            BY <5>4 DEF size, last
          <6>3. mixed' = mixed + 1 /\ mixed' <= broken' /\ broken > 0
            BY <1>1, <4>1, <5>2, <5>4
          <6>4. Over'
            BY <1>1, <4>3, <4>4, <6>1, <6>2, <6>3 DEF Over
          <6> QED
            BY <6>3, <6>4 DEF ModeInv
        <5> QED
          BY <2>3, <5>3, <5>4 DEF Bulk
      <4> QED
        BY <3>6, <4>6, <4>7
    <3> QED
      BY <3>2, <3>5, <3>6
  <2> QED
    BY <2>2, <2>3
<1> QED
  BY <1>3, <1>4

\* The client sends a command, after a client that was stopped also into its data phase.
LEMMA CommandSentMode ==
    ASSUME TypeInv, ModeInv, NEW cmd \in Commands, NEW n \in Sizes, SendCommand(cmd, n)
    PROVE  ModeInv'
<1> USE FastbootAssumption
<1> DEFINE e == Out("cmd", cmd, n)
<1>1. /\ host.st = "idle" /\ pc # "gone" /\ mixed' <= broken'
      /\ rxfifo' = Append(rxfifo, e)
      /\ host' = [st |-> "wait", cmd |-> cmd, n |-> n, left |-> 0]
      /\ UNCHANGED <<pc, ints, status, empmsk, Bulk_Out, mixed, broken, crossed, cmd_downloadding,
                     rx_length, Bulk_Data_Size>>
  BY DEF SendCommand, data, ModeInv
<1>2. host'.st = "wait" /\ host'.cmd = cmd /\ host'.n = n
  BY <1>1
<1>3. e \in Entries /\ e.kind = "cmd" /\ rxfifo \in Seq(Entries)
  BY DEF Out, Entries, TypeInv
<1>4. /\ NoBulk(rxfifo) => OnlyCommand(rxfifo', cmd, n)
      /\ NoCommands(rxfifo) => CommandLast(rxfifo')
  BY <1>1, <1>3, AppendCommand
<1>5. Idle \/ Stale
  BY <1>1 DEF ModeInv, Hung, Sent, Taken, Answered, Flow, Over
<1>6. CASE Idle
  <2>1. Sent'
    BY <1>1, <1>2, <1>4, <1>6 DEF Idle, Sent, NoReply
  <2> QED
    BY <1>1, <2>1 DEF ModeInv
<1>7. CASE Stale
  <2>1. Bulk_Data_Size \in Nat /\ rx_length \in Nat
    BY DEF TypeInv, TypeOK
  <2>2. PICK to \in 0 .. rx_length :
            (to < rx_length \/ to = 0) /\ Stream(rxfifo, Bulk_Data_Size, to, rx_length)
    BY <1>7 DEF Stale
  <2> HIDE DEF e
  <2>3. Stream(rxfifo', Bulk_Data_Size, to, rx_length)
    BY <1>1, <1>3, <2>1, <2>2, AppendStream
  <2>4. CommandLast(rxfifo')
    BY <1>1, <1>4, <1>7 DEF Stale
  <2>5. \E t \in 0 .. rx_length' :
            (t < rx_length' \/ t = 0) /\ Stream(rxfifo', Bulk_Data_Size', t, rx_length')
    BY <1>1, <2>2, <2>3
  <2>6. Stale'
    BY <1>1, <1>2, <1>7, <2>4, <2>5 DEF Stale, NoReply
  <2> QED
    BY <1>1, <2>6 DEF ModeInv
<1> QED
  BY <1>5, <1>6, <1>7

\* It sends a packet of its data.
LEMMA DataSentMode ==
    ASSUME TypeInv, ModeInv, SendData
    PROVE  ModeInv'
<1> USE FastbootAssumption
<1>1. PICK size \in 1 .. MaxPkt :
          /\ host.st = "data" /\ size <= host.left /\ (size = MaxPkt \/ size = host.left)
          /\ rxfifo' = Append(rxfifo, Out("data", host.cmd, size))
          /\ host' = [host EXCEPT !.left = @ - size,
                                  !.st = IF size = host.left THEN "datawait" ELSE "data"]
  BY DEF SendData
<1>2. /\ mixed' <= broken'
      /\ UNCHANGED <<pc, ints, status, empmsk, Bulk_Out, mixed, broken, crossed, cmd_downloadding,
                     rx_length, Bulk_Data_Size>>
  BY DEF SendData, data, ModeInv
<1> DEFINE e == Out("data", host.cmd, size)
           to == host.n - host.left
<1>3. /\ host \in [st : {"idle", "wait", "data", "datawait", "lost", "cut"},
                  cmd : AllCommands \cup {"none"}, n : Nat, left : Nat]
      /\ host.n \in Nat /\ host.left \in Nat /\ rx_length \in Nat /\ Bulk_Data_Size \in Nat
      /\ rxfifo \in Seq(Entries)
  BY DEF TypeInv, TypeOK
<1>4. /\ host'.left = host.left - size /\ host'.n = host.n
      /\ host'.st = IF size = host.left THEN "datawait" ELSE "data"
  BY <1>1, <1>3
<1>5. e \in Entries /\ e.kind = "data" /\ e.n = size /\ e.n \in 1 .. MaxPkt
  BY <1>3 DEF Out, Entries
<1> HIDE DEF e
<1>6. Flow
  BY <1>1 DEF ModeInv, Hung, Idle, Sent, Taken, Answered, Over, Stale
<1>7. /\ to \in Nat /\ NoCommands(rxfifo) /\ Stream(rxfifo, Bulk_Data_Size, to, rx_length)
      /\ rx_length = host.n /\ host.left <= host.n
  BY <1>3, <1>6 DEF Flow
<1>8. e.n < MaxPkt => to + e.n = rx_length
  BY <1>1, <1>3, <1>5, <1>7
<1>9. host'.n - host'.left = to + e.n
  BY <1>3, <1>4, <1>5
<1> HIDE DEF to
<1>10. NoCommands(rxfifo')
  BY <1>1, <1>3, <1>5, <1>7, AppendKeepsNoCommands DEF e
<1>11. Stream(Append(rxfifo, e), Bulk_Data_Size, to + e.n, rx_length)
  BY <1>3, <1>5, <1>7, <1>8, AppendData
<1>12. Stream(rxfifo', Bulk_Data_Size', host'.n - host'.left, rx_length')
  BY <1>1, <1>2, <1>9, <1>11 DEF e
<1>13. /\ host'.st \in {"data", "datawait"} /\ host'.left <= host'.n
       /\ (host'.st = "datawait" <=> host'.left = 0)
  BY <1>1, <1>3, <1>4, <1>7
<1>14. Flow'
  BY <1>2, <1>4, <1>6, <1>10, <1>12, <1>13 DEF Flow, NoReply
<1> QED
  BY <1>2, <1>14 DEF ModeInv

\* A client starts, or is stopped in the middle of its data.
LEMMA ClientMode ==
    ASSUME TypeInv, ModeInv, NewClient \/ StopClient
    PROVE  ModeInv'
<1> USE FastbootAssumption
<1>1. /\ host' = Quiet /\ broken \in Nat /\ mixed \in Nat /\ mixed <= broken
      /\ UNCHANGED <<pc, ints, status, empmsk, Bulk_Out, mixed, crossed, rxfifo, cmd_downloadding,
                     rx_length, Bulk_Data_Size>>
  BY DEF NewClient, StopClient, usbvars, data, ModeInv, TypeInv, TypeOK
<1>2. host'.st = "idle"
  BY <1>1 DEF Quiet
<1>3. CASE NewClient
  <2>1. host.st \in {"cut", "lost"} /\ broken' \in {broken, broken + 1}
    BY <1>3 DEF NewClient
  <2>2. Idle
    BY <2>1 DEF ModeInv, Hung, Sent, Taken, Answered, Flow, Over, Stale
  <2>3. Idle'
    BY <1>1, <1>2, <2>2 DEF Idle, NoReply
  <2> QED
    BY <1>1, <2>1, <2>3 DEF ModeInv
<1>4. CASE StopClient
  <2>1. (host.st = "data" \/ (host.st = "datawait" /\ host.n = 0)) /\ broken' = broken + 1
    BY <1>4 DEF StopClient
  <2>2. Flow
    BY <2>1 DEF ModeInv, Hung, Idle, Sent, Taken, Answered, Over, Stale
  <2>3. /\ host.n \in Nat /\ host.left \in Nat /\ rx_length \in Nat
    BY DEF TypeInv, TypeOK
  <2>4. /\ host.left # 0 \/ host.n = 0
        /\ host.left <= host.n /\ rx_length = host.n
        /\ Stream(rxfifo, Bulk_Data_Size, host.n - host.left, rx_length)
    BY <2>1, <2>2 DEF Flow
  <2>5. host.n - host.left \in 0 .. rx_length /\ (host.n - host.left < rx_length \/ host.n - host.left = 0)
    BY <2>3, <2>4
  <2>6. \E to \in 0 .. rx_length' :
            (to < rx_length' \/ to = 0) /\ Stream(rxfifo', Bulk_Data_Size', to, rx_length')
    BY <1>1, <2>4, <2>5
  <2>7. mixed' < broken'
    BY <1>1, <2>1
  <2>8. Stale'
    BY <1>1, <1>2, <2>2, <2>6, <2>7 DEF Stale, Flow, NoReply
  <2> QED
    BY <1>1, <2>1, <2>8 DEF ModeInv
<1> QED
  BY <1>3, <1>4

-----------------------------------------------------------------------------
(* Every step *)

LEMMA ModeInit == Init => ModeInv
<1> SUFFICES ASSUME Init PROVE ModeInv
  OBVIOUS
<1>1. host.st = "idle" /\ NoBulk(rxfifo) /\ Bulk_Out.cmd = "none" /\ mixed <= broken
  BY DEF Init, Quiet, None, NoBulk
<1> QED
  BY <1>1 DEF Init, ModeInv, Hung, Idle, NoReply

LEMMA ModeStep == TypeInv /\ SpinInv /\ ModeInv /\ [Next]_vars => ModeInv'
<1> SUFFICES ASSUME TypeInv, SpinInv, ModeInv, [Next]_vars PROVE ModeInv'
  OBVIOUS
<1>1. CASE Handler
  <2>1. ASSUME NEW ep \in {0, 1}, Iep(ep) PROVE ModeInv'
    BY <2>1, LoopMode
  <2> QED
    BY <1>1, <2>1, LoopMode, RxMode, CommandMode, HangMode, LeaveMode DEF Handler
<1>2. ASSUME NEW ep \in {0, 1}, XferComp(ep) PROVE ModeInv'
  BY <1>2, LoopMode, ReadMode
<1>3. CASE Client
  BY <1>3, CommandSentMode, DataSentMode, ClientMode DEF Client
<1>4. ASSUME NEW req \in Requests, SendRequest(req) PROVE ModeInv'
  BY <1>4, RequestMode
<1>5. CASE PowerOn
  <2>1. /\ pc = "gone" /\ pc' = "poll" /\ cmd_downloadding' = FALSE /\ mixed' <= broken'
        /\ UNCHANGED <<empmsk, Bulk_Out, mixed, crossed, host, broken, rxfifo>>
    BY <1>5 DEF PowerOn, hostvars, usbvars, ModeInv
  <2>2. Idle
    BY <2>1 DEF ModeInv, Hung, Sent, Taken, Answered, Flow, Over, Stale
  <2>3. Idle'
    BY <2>1, <2>2 DEF Idle, NoReply, Orderly
  <2> QED
    BY <2>1, <2>3 DEF ModeInv
<1>6. CASE UNCHANGED <<host, cmd_downloadding, rx_length, Bulk_Data_Size, mixed, broken, Bulk_Out, empmsk,
                       crossed, pc, ints, status, rxfifo>>
  <2>1. UNCHANGED <<Idle, Sent, Taken, Answered, Flow, Over, Stale, Hung>>
    BY <1>6 DEF Idle, Sent, Taken, Answered, Flow, Over, Stale, Hung, NoReply, Orderly
  <2> QED
    BY <1>6, <2>1 DEF ModeInv
<1>7. CASE GiveUpRequest \/ Spin \/ UNCHANGED vars
  BY <1>6, <1>7 DEF GiveUpRequest, Spin, vars, usbvars, data
<1> QED
  BY <1>1, <1>2, <1>3, <1>4, <1>5, <1>7, PowerOffMode DEF Next

AllInv == TypeInv /\ SpinInv /\ ModeInv

LEMMA AllCorrect == Spec => []AllInv
<1>1. Init => SpinInv
  BY DEF Init, SpinInv
<1>2. Init => AllInv
  BY <1>1, TypeInit, ModeInit DEF AllInv
<1>3. AllInv /\ [Next]_vars => AllInv'
  BY TypeStep, SpinStepInv, ModeStep DEF AllInv
<1> QED
  BY <1>2, <1>3, PTL DEF Spec

\* Every packet that the client reads answers what it waits for, unless a client was
\* stopped or a control request was answered while a reply was waiting.
THEOREM RepliesCorrect == Spec => []RepliesMatch
<1>1. AllInv => RepliesMatch
  BY DEF AllInv, ModeInv, Hung, RepliesMatch, Idle, Sent, Taken, Answered, Flow, Over, Stale
<1> QED
  BY <1>1, AllCorrect, PTL

\* No command ends in the download buffer and no data in the command buffer, but for one
\* command for each client that gave up: dwc_read_out_packet decides by
\* cmd_downloadding alone.
THEOREM SortedCorrect == Spec => []PacketsSorted
<1>1. AllInv => PacketsSorted
  BY DEF AllInv, ModeInv, PacketsSorted
<1> QED
  BY <1>1, AllCorrect, PTL

LEMMA OkayStep ==
    ASSUME AllInv, [Next]_vars, host.st = "datawait", host'.st = "idle", Orderly'
    PROVE  Bulk_Data_Size = host.n /\ rx_length = host.n
<1>1. CASE XferComp(1)
  <2>1. 1 \in empmsk
    BY <1>1 DEF AllInv, SpinInv, XferComp, SpinStep
  <2>2. Over
    BY <2>1 DEF AllInv, ModeInv, Hung, Idle, Sent, Taken, Answered, Flow, Stale, NoReply
  <2> QED
    BY <2>2 DEF Over
<1>2. CASE UNCHANGED host
  BY <1>2
<1>3. CASE Handler
  <2>1. CASE RebootBootloader \/ Leave
    <3>1. Bulk_Out.cmd # "none"
      BY <2>1 DEF RebootBootloader, Leave
    <3>2. Taken
      BY <3>1 DEF AllInv, ModeInv, Hung, Idle, Sent, Answered, Flow, Over, Stale, NoReply
    <3> QED
      BY <3>2 DEF Taken
  <2>2. CASE Poll \/ Rx \/ (\E ep \in {0, 1} : Iep(ep)) \/ Oep \/ NoCommand \/ GetvarCommand
             \/ FlashCommand \/ EraseCommand \/ EraseHangs \/ DownloadCommand \/ BootFails
    BY <1>2, <2>2 DEF Poll, Rx, Iep, Oep, NoCommand, GetvarCommand, FlashCommand, EraseCommand, EraseHangs,
                      DownloadCommand, BootFails, Finish, hostvars
  <2> QED
    BY <1>3, <2>1, <2>2 DEF Handler
<1>4. CASE XferComp(0)
  BY <1>2, <1>4 DEF XferComp
<1>5. CASE Client
  <2>1. broken \in Nat
    BY DEF AllInv, TypeInv, TypeOK
  <2>2. ~StopClient
    BY <2>1 DEF StopClient, Orderly
  <2> QED
    BY <1>5, <2>2 DEF Client, SendCommand, SendData, NewClient
<1>6. CASE (\E req \in Requests : SendRequest(req)) \/ GiveUpRequest \/ PowerOn \/ Spin \/ UNCHANGED vars
  BY <1>2, <1>6 DEF SendRequest, GiveUpRequest, PowerOn, Spin, vars, hostvars
<1>7. CASE PowerOff
  <2>1. Hung
    BY <1>7 DEF PowerOff, AllInv, ModeInv, Idle, Sent, Taken, Answered, Flow, Over, Stale
  <2> QED
    BY <2>1 DEF Hung
<1> QED
  BY <1>1, <1>3, <1>4, <1>5, <1>6, <1>7 DEF Next

\* When the client reads the OKAY of its data phase, all it announced is in the buffer
\* and rx_length, which flash uses, is its length.
THEOREM OkayCorrect == Spec => OkayMeansStored
<1>1. AllInv /\ [Next]_vars
      => [(Orderly' /\ host.st = "datawait" /\ host'.st = "idle") =>
             Bulk_Data_Size = host.n /\ rx_length = host.n]_vars
  BY OkayStep
<1> QED
  BY <1>1, AllCorrect, PTL DEF Spec, OkayMeansStored

=============================================================================
