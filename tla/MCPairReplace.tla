--------------------------- MODULE MCPairReplace ---------------------------
(* Constants of the runs of PairReplace. *)
EXTENDS PairReplace

\* Every operation may fail but lstat, whose failure is the subject of a run of
\* its own (pair_lstat).
AllButLstat == Ops \ {"lstat"}
=============================================================================
