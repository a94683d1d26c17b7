---------------------- MODULE MCMultiSignatureProposal ----------------------
(* Small instances of MultiSignatureProposal. *)
EXTENDS MultiSignatureProposal
=============================================================================
