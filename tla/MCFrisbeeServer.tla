-------------------------- MODULE MCFrisbeeServer ---------------------------
(* FrisbeeServer for TLC: values the cfg files cannot write.               *)
EXTENDS FrisbeeServer

\* frisbeed -T -1: exit when the last client leaves.
WhenLastLeaves == -1

=============================================================================
