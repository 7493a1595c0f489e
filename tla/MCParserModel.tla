--------------------------- MODULE MCParserModel ---------------------------
(***************************************************************************)
(* Values for the constants of ParserModel.                                *)
(***************************************************************************)
EXTENDS ParserModel

\* One frame, two frames, a frame without its end or beginning, and one that is
\* followed by the beginning of another.
MCDatagrams ==
  {Whole("f"), Whole("g") \o Whole("f"), <<Piece("f", 1)>>, <<Piece("g", 1)>>,
   <<Piece("f", 2), Piece("f", 3)>>, Whole("g") \o <<Piece("f", 1)>>}
=============================================================================
