--------------------------- MODULE MC_GraphStream ---------------------------
(* Model of GraphStream: a log of three lines.  The first is JSON with a result, and
   the object inside it is JSON by itself; the second is plain text, a blank and a
   two-byte character; the third is JSON without a result.  One "char" stands for a
   run of plain characters that is not cut. *)
EXTENDS GraphStream
MCText == <<"char", "char", "char", "newline",
            "blank", "head", "tail", "char", "newline",
            "char", "newline">>
MCResults == {<<1, 3>>}
MCBare == {<<2, 2>>, <<10, 10>>}
=============================================================================
