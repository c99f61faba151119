----------------------------- MODULE MCEapCodec -----------------------------
(* A small instance of EapCodec for TLC. *)
EXTENDS EapCodec

\* Lengths that leave every remainder modulo four but one, and none at all.
MCLength == {0, 5, 8, 11}

\* Headers that go on, that overrun, that read beyond the end and that stand still.
MCStray ==
    {[type |-> "ATMac", words |-> 1, prefix |-> 0],
     [type |-> "other", words |-> 0, prefix |-> 0],
     [type |-> "ATCounterTooSmall", words |-> 0, prefix |-> 0],
     [type |-> "ATRes", words |-> 200, prefix |-> 64]}
=============================================================================
