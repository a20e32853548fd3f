---------------------------- MODULE MCRmrStream ----------------------------
(***************************************************************************)
(* Instances of RmrStream.                                                 *)
(***************************************************************************)
EXTENDS RmrStream

\* Messages of the least length, of one that fits and of one that does not.
MCStreams == {<<3, 9>>, <<4, 10, 13>>}
=============================================================================
