------------------------------- MODULE MCBypass -------------------------------
(***************************************************************************)
(* BypassTransport for TLC: callbacks of one or two samples, blocks of two *)
(* and a ring of three, so that a block may not fit, and six samples in    *)
(* all, twice what the ring holds.                                         *)
(***************************************************************************)
EXTENDS BypassTransport

MCQuanta == {1, 2}
=============================================================================
