---- MODULE MCMambaSplit ----
(* Instances of MambaSplit for TLC: see the .cfg files. *)
EXTENDS MambaSplit
====
