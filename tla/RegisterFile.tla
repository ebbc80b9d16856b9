---------------------------- MODULE RegisterFile ----------------------------
(***************************************************************************)
(* What simulate_i2c_read and simulate_i2c_write promise the PMU drivers:    *)
(* a device of registers, one call at a time.  A write that is answered with *)
(* its length has been done; one answered with -1 may have been done in part.*)
(* A read is answered with what the registers hold, or, since the driver     *)
(* does not look at the device's answer to the second address, with the      *)
(* bytes of a bus that nobody drives.  A reset ends the call.                 *)
(***************************************************************************)
EXTENDS Integers, Sequences

CONSTANTS
    Regs,     \* the registers
    Values,   \* what a register may hold
    Floating, \* the byte read from a bus nobody drives
    Calls,    \* the calls: [op : {"read", "write"}, reg, count, data]
    NoCall, NoReturn

VARIABLES regs, call, ret

vars == <<regs, call, ret>>

Init ==
    /\ regs \in [Regs -> Values]
    /\ call = NoCall /\ ret = NoReturn

Issue ==
    /\ call = NoCall
    /\ \E c \in Calls : call' = c
    /\ ret' = NoReturn /\ UNCHANGED regs

\* A byte of the pending write arrives.
Store ==
    /\ call # NoCall /\ call.op = "write"
    /\ \E i \in 1 .. call.count : regs' = [regs EXCEPT ![call.reg + i - 1] = call.data[i]]
    /\ UNCHANGED <<call, ret>>

Slice == [i \in 1 .. call.count |-> regs[call.reg + i - 1]]

Answer(a, bytes) == [answer |-> a, bytes |-> bytes]

Return ==
    /\ call # NoCall
    /\ \/ ret' = Answer("failed", <<>>)
       \/ call.op = "write" /\ Slice = call.data /\ ret' = Answer("done", <<>>)
       \/ /\ call.op = "read"
          /\ \/ ret' = Answer("done", Slice)
             \/ ret' = Answer("done", [i \in 1 .. call.count |-> Floating])
    /\ call' = NoCall /\ UNCHANGED regs

Reset ==
    /\ call' = NoCall /\ ret' = NoReturn /\ UNCHANGED regs

Next == Issue \/ Store \/ Return \/ Reset

Spec == Init /\ [][Next]_vars

=============================================================================
