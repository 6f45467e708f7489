---------------------------- MODULE MCAdmission ----------------------------
(* ClientAdmission with two clients: the connections in Others are the     *)
(* second client's, the rest are the first's.                              *)
EXTENDS ClientAdmission
CONSTANTS k1, k2, Others
MCKeyOf == [c \in Conns |-> IF c \in Others THEN k2 ELSE k1]
=============================================================================
