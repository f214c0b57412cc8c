------------------------------ MODULE MCConsole ------------------------------
(***************************************************************************)
(* A screen of three rows of four columns, with tab stops every two.  The  *)
(* texts end a row exactly, tab over the last column, and scroll; one ends *)
(* in an escape sequence.                                                  *)
(***************************************************************************)
EXTENDS Console

SomeTexts == { <<"a", "esc", "b", "c", "d">>, <<"tab", "a", "tab", "b", "tab">>,
               <<"a", "nl", "nl", "b", "nl">>, <<"b", "a", "c", "esc">> }

Second == <<"t", "nl">>

Warning == <<"esc", "s", "esc", "s", "nl">>
=============================================================================
