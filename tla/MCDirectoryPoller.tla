--------------------------- MODULE MCDirectoryPoller ---------------------------
(***************************************************************************)
(* An instance of DirectoryPoller for TLC: two files.  The first one gets  *)
(* its first text back, the second one has something in it for a while     *)
(* that is not ASCII, and is written again with the text it has.           *)
(***************************************************************************)
EXTENDS DirectoryPoller

CONSTANTS f1, f2

TwoFiles == {f1, f2}
Texts == [f \in TwoFiles |->
            IF f = f1 THEN <<"a", "b", "a">> ELSE <<"not ASCII", "a", "a">>]
NotAscii == {"not ASCII"}
=============================================================================
