--------------------------- MODULE MCMarkdownBlocks ---------------------------
(***************************************************************************)
(* MarkdownBlocks on all documents of a few lines out of these.  No line   *)
(* consists of spaces or of a list mark alone.                             *)
(***************************************************************************)
EXTENDS MarkdownBlocks

MCLines == {
  <<>>,
  <<"words">>,
  <<"# ", "words">>,
  <<">", " ", ">", "words">>,
  <<">", ">", "words">>,
  <<">", " ", "* ", "words">>,
  <<"* ", "words">>,
  <<"  ", "* ", "words">>,
  <<"1. ", "words">>,
  <<"  ", "1. ", "words">>,
  <<"- ", "[ ] ", "words">>,
  <<"  ", "- ", "[ ] ", "words">>,
  <<"fence">>,
  <<"|table>">>,
  <<"- ", "| - | -">>,
  <<"|<table">>
}
=============================================================================
