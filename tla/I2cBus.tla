------------------------------- MODULE I2cBus -------------------------------
(***************************************************************************)
(* boot/common/simulate_i2c.c: an I2C master made of two GPIO pins, and the  *)
(* PMU at the other end of the wires.                                        *)
(*                                                                         *)
(* Every change of a pin and every sample of SDA is one step.  pc is the call *)
(* of one of the driver's functions, k counts the pin operations done in it,   *)
(* and the code between two calls runs when all are done.  SDA is the AND of   *)
(* what master and device put on it.  The device (external) follows the I2C   *)
(* protocol: it looks at edges only, may refuse any byte, keeps its state     *)
(* when the CPU is reset, and has a register pointer that counts up.          *)
(***************************************************************************)
EXTENDS Integers, Sequences

CONSTANTS
    Width,      \* bits of a byte: 8
    Device,     \* ATC8930_I2C_ADDR, in Width - 1 bits
    NRegs,      \* registers of the device (bounds it)
    PageSize,   \* bytes in one write transfer: 8
    Timeout,    \* timeout: 5
    Calls,      \* the calls of the PMU drivers
    Contents,   \* what the registers hold at the beginning
    MaxResets   \* resets of the CPU (bounds them)

Pow2[i \in Nat] == IF i = 0 THEN 1 ELSE 2 * Pow2[i - 1]

Full  == Pow2[Width]
Bytes == 0 .. Full - 1
Regs  == 0 .. NRegs - 1

NoReturn == [answer |-> "none", bytes |-> <<>>]

NoCall == [op |-> "none", reg |-> 0, count |-> 0, data |-> <<>>]

ASSUME I2cAssumption ==
    /\ Width \in Nat /\ Width > 1
    /\ Device \in 0 .. (Full \div 2) - 1
    /\ NRegs \in 1 .. Full /\ PageSize \in Nat \ {0} /\ Timeout \in Nat
    /\ \A c \in Calls : /\ c.op \in {"read", "write"} /\ c.count \in Nat \ {0}
                        /\ c.reg \in Regs /\ c.reg + c.count - 1 \in Regs
                        /\ c.op = "write" => c.data \in [1 .. c.count -> Bytes]
    /\ Contents \subseteq [Regs -> Bytes]
    /\ MaxResets \in Nat

VARIABLES
    \* the wires
    scl,      \* SCL, driven by the master only
    msda,     \* what the master puts on SDA
    \* the device
    mode,     \* "idle" "addr" "reg" "data" | "send"
    n,        \* clocks of the current byte, the ninth is the acknowledge
    shift,    \* the byte being received, or its first bits
    ssda,     \* what the device puts on SDA
    ptr,      \* register pointer
    more,     \* the master acknowledged the byte sent
    regs,     \* the registers
    \* the driver
    pc,       \* the function being called, and from where
    k,        \* pin operations done in it
    bit,      \* i of send_one_byte and read_one_byte
    call,     \* the call being served
    timeout,  \* timeout
    idx,      \* bytes done: count - cnt
    addr,     \* tmpaddr
    inpage,   \* cnt_in_pg
    sample,   \* what read_sda gave, shifted
    buf,      \* bytes read
    ret,      \* what the last call returned
    \* bounds and history
    resets,
    torn      \* a reset found the device holding SDA, and it has not heard a whole call since

wires  == <<scl, msda>>
device == <<mode, n, shift, ssda, ptr, more, regs>>
driver == <<pc, k, bit, call, timeout, idx, addr, inpage, sample, buf, ret>>
vars   == <<scl, msda, mode, n, shift, ssda, ptr, more, regs, pc, k, bit, call,
            timeout, idx, addr, inpage, sample, buf, ret, resets, torn>>

Init ==
    /\ scl = 1 /\ msda = 1
    /\ mode = "idle" /\ n = 0 /\ shift = 0 /\ ssda = 1 /\ ptr = 0 /\ more = FALSE
    /\ regs \in Contents
    /\ pc = "idle" /\ k = 0 /\ bit = 0 /\ call = NoCall /\ timeout = Timeout
    /\ idx = 0 /\ addr = 0 /\ inpage = 0 /\ sample = 0 /\ buf = <<>> /\ ret = NoReturn
    /\ resets = 0 /\ torn = FALSE

-----------------------------------------------------------------------------
(* The device *)

Sda == msda * ssda

\* Bit i of a byte, the first one sent is bit 1.
Bit(v, i) == (v \div Pow2[Width - i]) % 2

Reg(p) == IF p \in Regs THEN regs[p] ELSE Full - 1

StartCondition ==
    /\ mode' = "addr" /\ n' = 0 /\ shift' = 0 /\ ssda' = 1
    /\ torn' = (torn /\ ~(pc = "start" /\ idx = 0))
    /\ UNCHANGED <<ptr, more, regs>>

StopCondition ==
    /\ mode' = "idle" /\ n' = 0 /\ ssda' = 1
    /\ UNCHANGED <<shift, ptr, more, regs, torn>>

\* SCL rises: a bit is taken, or the master's acknowledge.
Rise ==
    /\ UNCHANGED <<mode, ssda, ptr, regs>>
    /\ IF mode = "idle" THEN UNCHANGED <<n, shift, more>>
       ELSE /\ n' = n + 1
            /\ shift' = IF mode # "send" /\ n < Width THEN 2 * shift + Sda ELSE shift
            /\ more' = IF mode = "send" /\ n = Width THEN Sda = 0 ELSE more

\* SCL falls after the last bit of a byte received: it is acknowledged, or refused
\* (always, when another device is addressed; at any time, when it is busy).
Acknowledge ==
    /\ ssda' = 0 /\ UNCHANGED <<mode, n, shift, more>>
    /\ ptr' = CASE mode = "reg"  -> shift
                [] mode = "data" -> (ptr + 1) % Full
                [] OTHER         -> ptr
    /\ regs' = IF mode = "data" /\ ptr \in Regs THEN [regs EXCEPT ![ptr] = shift] ELSE regs

Refuse ==
    /\ mode' = "idle" /\ n' = 0 /\ ssda' = 1
    /\ UNCHANGED <<shift, ptr, more, regs>>

Received ==
    \/ /\ mode # "addr" \/ shift \div 2 = Device
       /\ Acknowledge
    \/ Refuse

\* SCL falls after the acknowledge of a byte received: SDA is released, or the
\* first bit of a byte is sent.
NextByte ==
    /\ n' = 0 /\ shift' = 0 /\ UNCHANGED <<ptr, more, regs>>
    /\ IF mode = "addr" /\ shift % 2 = 1
       THEN mode' = "send" /\ ssda' = Bit(Reg(ptr), 1)
       ELSE mode' = (IF mode = "addr" THEN "reg" ELSE "data") /\ ssda' = 1

\* SCL falls while the device sends.
SendNext ==
    /\ UNCHANGED <<shift, more, regs>>
    /\ CASE n < Width  -> ssda' = Bit(Reg(ptr), n + 1) /\ UNCHANGED <<mode, n, ptr>>
         [] n = Width  -> ssda' = 1 /\ UNCHANGED <<mode, n, ptr>>
         [] OTHER      -> IF more
                          THEN /\ n' = 0 /\ ptr' = (ptr + 1) % Full
                               /\ ssda' = Bit(Reg((ptr + 1) % Full), 1)
                               /\ UNCHANGED mode
                          ELSE mode' = "idle" /\ n' = 0 /\ ssda' = 1 /\ UNCHANGED ptr

Fall ==
    CASE mode = "idle"                          -> UNCHANGED device
      [] mode = "send"                          -> SendNext
      [] mode \notin {"idle", "send"} /\ n < Width -> UNCHANGED device
      [] mode \notin {"idle", "send"} /\ n = Width -> Received
      [] OTHER                                  -> NextByte

Quiet == UNCHANGED device /\ UNCHANGED torn

-----------------------------------------------------------------------------
(* The pins: C0, C1 are scl_out_low, scl_in; D0, D1 are sda_out_low, sda_in;   *)
(* A and B sample an acknowledge and a bit.                                   *)

Shifted(v, b) == (2 * v + b) % Full

Pin(op) ==
    CASE op = "C0" -> scl' = 0 /\ UNCHANGED <<msda, sample>> /\ IF scl = 1 THEN Fall /\ UNCHANGED torn ELSE Quiet
      [] op = "C1" -> scl' = 1 /\ UNCHANGED <<msda, sample>> /\ IF scl = 0 THEN Rise /\ UNCHANGED torn ELSE Quiet
      [] op = "D0" -> /\ msda' = 0 /\ UNCHANGED <<scl, sample>>
                      /\ IF scl = 1 /\ Sda = 1 THEN StartCondition ELSE Quiet
      [] op = "D1" -> /\ msda' = 1 /\ UNCHANGED <<scl, sample>>
                      /\ IF scl = 1 /\ msda = 0 /\ ssda = 1 THEN StopCondition ELSE Quiet
      [] op = "A"  -> sample' = Sda /\ UNCHANGED wires /\ Quiet
      [] op = "B"  -> sample' = Shifted(sample, Sda) /\ UNCHANGED wires /\ Quiet

I2C_start    == <<"C1", "D1", "D0">>
I2C_stop     == <<"C0", "D0", "C1", "D1">>
I2C_read_ack == <<"C0", "D1", "C1", "A", "C0">>

\* Mutant of I2C_send_ack: the last byte is acknowledged too.
I2C_send_ack_low(high) == <<"C0", "D0", "C1", "C0", "D1">>

I2C_send_ack(high) == <<"C0", IF high THEN "D1" ELSE "D0", "C1", "C0", "D1">>

\* The last four operations are done for every bit.
send_one_byte(v) == <<"C0", "C0", IF Bit(v, bit + 1) = 1 THEN "D1" ELSE "D0", "C1", "C0">>
read_one_byte    == <<"C0", "D1", "C0", "C1", "B", "C0">>

Starts == {"start", "restart"}
Stops  == {"retryStop", "pageStop", "writeStop", "readStop"}
Acks   == {"deviceAck", "registerAck", "dataAck"}
Sends  == {"device", "register", "data", "source"}

\* The byte that is sent.
Byte ==
    CASE pc = "device"   -> 2 * Device
      [] pc = "source"   -> 2 * Device + 1
      [] pc = "register" -> addr
      [] OTHER           -> call.data[idx + 1]

\* The pin operations of the function called at pc.
Ops ==
    CASE pc \in Starts                  -> I2C_start
      [] pc \in Stops                   -> I2C_stop
      [] pc \in Acks                    -> I2C_read_ack
      [] pc \in Sends                   -> send_one_byte(Byte)
      [] pc = "byte"                    -> read_one_byte
      [] pc \in {"sourceAck", "byteAck"} -> I2C_send_ack(FALSE)
      [] pc = "lastAck"                 -> I2C_send_ack(TRUE)
      [] pc = "freeScl"                 -> <<"C1", "D1">>
      [] pc = "freeSda"                 -> <<"D1", "C1">>
      [] OTHER                          -> <<>>

Again == pc \in Sends \cup {"byte"} /\ k + 1 = Len(Ops) /\ bit + 1 < Width

PinStep ==
    /\ k < Len(Ops)
    /\ Pin(Ops[k + 1])
    /\ IF Again THEN k' = Len(Ops) - 4 /\ bit' = bit + 1
                ELSE k' = k + 1 /\ UNCHANGED bit
    /\ UNCHANGED <<pc, call, timeout, idx, addr, inpage, buf, ret, resets>>

-----------------------------------------------------------------------------
(* The driver *)

At(place) == pc = place /\ k = Len(Ops)

Go(place) == pc' = place /\ k' = 0 /\ bit' = 0

\* What the code between two functions leaves alone.
Same == UNCHANGED wires /\ UNCHANGED device /\ UNCHANGED <<sample, resets, torn>>

Issue ==
    /\ At("idle")
    /\ \E c \in Calls : call' = c
    /\ Go("restarts") /\ timeout' = Timeout
    /\ ret' = NoReturn /\ buf' = <<>> /\ idx' = 0 /\ addr' = 0 /\ inpage' = 0
    /\ Same

Return(answer, bytes) ==
    /\ Go("idle") /\ call' = NoCall /\ ret' = [answer |-> answer, bytes |-> bytes]
    /\ timeout' = Timeout /\ idx' = 0 /\ addr' = 0 /\ inpage' = 0 /\ buf' = <<>>
    /\ torn' = (torn /\ mode # "idle")
    /\ UNCHANGED wires /\ UNCHANGED device /\ UNCHANGED <<sample, resets>>

\* "I2C READ TIMEOUT"
GiveUp ==
    /\ At("restarts") /\ timeout < 0
    /\ Return("failed", <<>>)

\* Mutant of FromTheTop: tmpbuf and cnt go on where the failed try stopped.
FromTheMiddle == idx' = idx /\ addr' = call.reg /\ inpage' = 0 /\ buf' = <<>>

\* cnt, ptr or tmpbuf, tmpaddr and cnt_in_pg are set again.
FromTheTop == idx' = 0 /\ addr' = call.reg /\ inpage' = 0 /\ buf' = <<>>

Restart ==
    /\ At("restarts") /\ timeout >= 0
    /\ FromTheTop
    /\ Go("start")
    /\ UNCHANGED <<call, timeout, ret>> /\ Same

\* A function returns and the next one is called, with nothing in between.
Following ==
    {<<"start", "device">>, <<"device", "deviceAck">>, <<"register", "registerAck">>,
     <<"data", "dataAck">>, <<"pageStop", "start">>, <<"restart", "source">>,
     <<"source", "sourceAck">>, <<"sourceAck", "byte">>, <<"byteAck", "byte">>,
     <<"lastAck", "readStop">>, <<"retryStop", "restarts">>,
     <<"freeScl", "idle">>, <<"freeSda", "idle">>}

\* read_one_byte begins with data = 0.
Proceed ==
    /\ \E next \in Following : At(next[1]) /\ Go(next[2])
    /\ sample' = IF pc' = "byte" THEN 0 ELSE sample
    /\ UNCHANGED <<call, timeout, idx, addr, inpage, buf, ret, resets, torn>>
    /\ UNCHANGED wires /\ UNCHANGED device

\* Mutant of TriesLeft: timeout-- is forgotten.
SameTriesLeft == timeout

TriesLeft == timeout - 1

\* i2c_stop: the device did not acknowledge.
NotAcknowledged ==
    /\ \E place \in Acks : At(place)
    /\ sample = 1
    /\ timeout' = TriesLeft
    /\ Go("retryStop")
    /\ UNCHANGED <<call, idx, addr, inpage, buf, ret>> /\ Same

SendRegister ==
    /\ At("deviceAck") /\ sample = 0
    /\ Go("register")
    /\ UNCHANGED <<call, timeout, idx, addr, inpage, buf, ret>> /\ Same

\* while (cnt): the next byte, or a new transfer PageSize registers on, or the end.
WriteData ==
    /\ At("registerAck") \/ At("dataAck")
    /\ call.op = "write" /\ sample = 0
    /\ LET done == IF pc = "dataAck" THEN idx + 1 ELSE idx
       IN  /\ idx' = done
           /\ \/ /\ done = call.count
                 /\ Go("writeStop") /\ UNCHANGED <<addr, inpage>>
              \/ /\ done < call.count /\ inpage = PageSize
                 /\ inpage' = 0 /\ addr' = (addr + PageSize) % Full
                 /\ Go("pageStop")
              \/ /\ done < call.count /\ inpage < PageSize
                 /\ inpage' = inpage + 1 /\ UNCHANGED addr
                 /\ Go("data")
    /\ UNCHANGED <<call, timeout, buf, ret>> /\ Same

Written ==
    /\ At("writeStop")
    /\ Return("done", <<>>)

\* The repeated start; the answer to the second address is driven by the master.
ReadAddress ==
    /\ At("registerAck") /\ call.op = "read" /\ sample = 0
    /\ Go("restart")
    /\ UNCHANGED <<call, timeout, idx, addr, inpage, buf, ret>> /\ Same

\* A byte has come: acknowledge it and read the next, or refuse it and stop.
ReadByte ==
    /\ At("byte")
    /\ buf' = Append(buf, sample) /\ idx' = idx + 1
    /\ Go(IF idx + 1 = call.count THEN "lastAck" ELSE "byteAck")
    /\ UNCHANGED <<call, timeout, addr, inpage, ret>> /\ Same

ReadDone ==
    /\ At("readStop")
    /\ Return("done", buf)

\* The CPU is reset: both pins become inputs, in either order; the device keeps
\* its state.  The program starts again.
Reset ==
    /\ resets < MaxResets
    /\ resets' = resets + 1
    /\ torn' = (torn \/ ssda = 0)
    /\ Go("freeScl") \/ Go("freeSda")
    /\ call' = NoCall /\ ret' = NoReturn
    /\ timeout' = Timeout /\ idx' = 0 /\ addr' = 0 /\ inpage' = 0 /\ buf' = <<>>
    /\ UNCHANGED wires /\ UNCHANGED device /\ UNCHANGED sample

Drive ==
    \/ PinStep \/ Proceed \/ GiveUp \/ Restart \/ NotAcknowledged \/ SendRegister
    \/ WriteData \/ Written \/ ReadAddress \/ ReadByte \/ ReadDone

Next == Drive \/ Issue \/ Reset

\* A call is straight-line code with delays: once begun it goes on.
Spec == Init /\ [][Next]_vars /\ WF_vars(Drive)

-----------------------------------------------------------------------------
(* Properties *)

File == INSTANCE RegisterFile WITH Values <- Bytes, Floating <- Full - 1

\* The driver on its wires implements the register file: whatever bytes the device
\* refuses and however often the driver starts again, a write answered with its length
\* is in the registers named and nowhere else, and a read gives what they hold.  Only a
\* call whose first START was not heard, after a reset in the middle of a transfer, may
\* do otherwise.
Implements == File!Init /\ [][File!Next \/ torn]_<<regs, call, ret>>

\* The driver has no sequence that frees the bus; still a read that is answered with
\* its bytes leaves the device waiting for a START, whatever it was in the middle of:
\* the last byte and its acknowledge are Width + 1 clocks with SDA released, and a
\* device that sends is told once in as many clocks that it is enough.
ReadResyncs ==
    [][call.op = "read" /\ call' = NoCall /\ ret'.answer = "done" => mode' = "idle"]_vars

\* Every call returns, also when the device never answers: timeout bounds the restarts.
CallEnds == (call # NoCall) ~> (call = NoCall)

=============================================================================
