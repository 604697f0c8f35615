---------------------------- MODULE MCFskSession ----------------------------
(* FskSession with the one byte of two bits that the data peers write.    *)
EXTENDS FskSession

MCPeerBytes == {<<TRUE, FALSE>>}
=============================================================================
