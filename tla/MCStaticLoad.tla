----------------------------- MODULE MCStaticLoad -----------------------------
(* Two inodes for one path; a limit of one or two blocks.                     *)
EXTENDS StaticLoad

CONSTANTS n1, n2, b1

MCNodes == {n1, n2}
OneBody == {b1}
===============================================================================
