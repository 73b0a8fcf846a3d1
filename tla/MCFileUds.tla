----------------------------- MODULE MCFileUds -----------------------------
(***************************************************************************)
(* Two services and three descriptors: two listening sockets and one for a *)
(* connection or another thread, so that numbers are reused at once and    *)
(* can run out.                                                            *)
(***************************************************************************)
EXTENDS FileUds

CONSTANTS p1, p2, f1, f2, f3

MCPaths == {p1, p2}
MCFds == {f1, f2, f3}
=============================================================================
