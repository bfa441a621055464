---------------------------- MODULE MCAuthenticate ----------------------------
(***************************************************************************)
(* Authenticate with the one mechanism that is implemented, and servers    *)
(* that offer any list of it and another one.                              *)
(***************************************************************************)
EXTENDS Authenticate

MCMechanisms   == {"SCRAM-SHA-1", "SCRAM-SHA-256"}
MCRegistered   == {"SCRAM-SHA-256"}
MCOffers       == {<<>>} \cup [1 .. 1 -> MCMechanisms] \cup [1 .. 2 -> MCMechanisms]
MCCompressions == SUBSET {"Snappy", "ZLib"}

===============================================================================
