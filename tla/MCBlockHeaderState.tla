------------------------- MODULE MCBlockHeaderState -------------------------
(***************************************************************************)
(* Small instances of BlockHeaderState.                                    *)
(***************************************************************************)
EXTENDS BlockHeaderState

CONSTANTS dcd, bpa, bpb, bpc

MCProducer == {dcd, bpa, bpb, bpc}

\* The system account hands over to two producers, who must agree on the lib, or
\* to four, one of whom may lag; the two may become four.  An empty schedule is
\* asked for too; whether it is refused depends on DisallowEmpty.
Growing == {<<>>, <<bpa, bpb>>, <<dcd, bpa, bpb, bpc>>}

\* From four producers, one of which may lag, to three, none of which may.
Shrinking == {<<dcd, bpa, bpb, bpc>>, <<bpa, bpb, bpc>>}
=============================================================================
