------------------------ MODULE MCParserInputBuffer ------------------------
(***************************************************************************)
(* Instances of ParserInputBuffer for TLC.  StaticSize = 6 gives halves of *)
(* an odd number of bytes and positions strictly inside, on and beside the *)
(* middle; the log is long enough to wrap twice and to grow.               *)
(***************************************************************************)
EXTENDS ParserInputBuffer
=============================================================================
