------------------------------ MODULE MCSession ------------------------------
(* Session for TLC: one topic stands for those of the commands. *)
EXTENDS Session

MCTopics == <<"console/cmd", "rdm/transport/set">>
=============================================================================
