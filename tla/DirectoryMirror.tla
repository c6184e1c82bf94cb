--------------------------- MODULE DirectoryMirror ---------------------------
(***************************************************************************)
(* What poll_directory_and_store_upon_content_change is for: a server that *)
(* follows a directory.  The contents of a file are numbered in the order  *)
(* in which it gets them.                                                  *)
(***************************************************************************)
EXTENDS Naturals

CONSTANT File

VARIABLES
    version,   \* version[f]: number of the last content that f has got
    server     \* server[f]: number of the content that the server has, 0 for none

vars == <<version, server>>

Init == version = [f \in File |-> 0] /\ server = [f \in File |-> 0]

Write(f) ==
    /\ version' = [version EXCEPT ![f] = @ + 1]
    /\ UNCHANGED server

\* Some files are stored, none with a content older than the one there was.
Store ==
    /\ server' \in [File -> Nat]
    /\ \A f \in File : server[f] <= server'[f] /\ server'[f] <= version[f]
    /\ UNCHANGED version

Next == Store \/ \E f \in File : Write(f)

Spec == Init /\ [][Next]_vars
=============================================================================
