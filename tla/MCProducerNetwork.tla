------------------------- MODULE MCProducerNetwork -------------------------
(***************************************************************************)
(* Small instances of ProducerNetwork.                                     *)
(***************************************************************************)
EXTENDS ProducerNetwork

CONSTANTS dcd, bpa, bpb, bpc, bpd

ThreeProducers == <<bpa, bpb, bpc>>

\* One of them may be late, lagging or wrong without effect on the lib.
FourProducers == <<bpa, bpb, bpc, bpd>>

\* Two rounds in which every block reaches everyone; then any slot may be missed.
TwoRounds == 1..8
AfterThem == [s \in 1..MaxSlot |-> IF s \in TwoRounds THEN {"signed"} ELSE {"signed", "missed"}]

\* bpd is cut off after three slots.  The others make a block irreversible of
\* which only bpc hears, and sign nothing until bpd's branch is longer than what
\* bpa and bpb have; then it reaches them.
Isolation == (1..3) \cup (27..MaxSlot)
LongBreak == [s \in 1..MaxSlot |->
                IF s \in {12, 13, 14, 16, 17, 18, 20, 21, 22, 24, 25, 26, 30} THEN {"missed"}
                                                                        ELSE {"signed"}]
=============================================================================
