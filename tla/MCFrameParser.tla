---------------------------- MODULE MCFrameParser ----------------------------
EXTENDS FrameParser

\* Payloads that need escaping, one whose FCS does, and S- and U-frames.
MCSent ==
  <<[address |-> 48, type |-> "I", pf |-> FALSE, nr |-> 7, ns |-> 5, payload |-> <<126, 125>>],
    [address |-> 48, type |-> "SREJ", pf |-> TRUE, nr |-> 3, ns |-> 0, payload |-> <<>>],
    [address |-> 48, type |-> "UI", pf |-> FALSE, nr |-> 0, ns |-> 0, payload |-> <<94>>],
    [address |-> 48, type |-> "TEST", pf |-> FALSE, nr |-> 0, ns |-> 0, payload |-> <<>>]>>

\* A flag and more bytes than twice max_length allows.
MCJunk == <<126>> \o [i \in 1..17 |-> 0]

MCChanged == {0, 93, 94, 125, 126}
=============================================================================
