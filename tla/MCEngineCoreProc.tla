-------------------------- MODULE MCEngineCoreProc --------------------------
(* Two requests and two calls.                                             *)
EXTENDS EngineCoreProc

Two == 1 .. 2
OneEach == [r \in Two |-> 1]
=============================================================================
