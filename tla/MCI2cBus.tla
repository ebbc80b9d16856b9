------------------------------ MODULE MCI2cBus ------------------------------
(* I2cBus for TLC: three-bit bytes, transfers of two bytes. *)
EXTENDS I2cBus

MCCalls ==
    {[op |-> "write", reg |-> 2, count |-> 1, data |-> <<4>>],
     [op |-> "write", reg |-> 0, count |-> 3, data |-> <<6, 1, 4>>],
     [op |-> "read", reg |-> 1, count |-> 1, data |-> <<>>],
     [op |-> "read", reg |-> 0, count |-> 2, data |-> <<>>]}

MCContents == {[r \in Regs |-> v] : v \in {0, 5}}

=============================================================================
