---------------------------- MODULE MCSecretSync ----------------------------
(* Three names, of which the desired Set has none, one or two and the store  *)
(* reserves none, a desired one or another one.                              *)
EXTENDS SecretSync

MCWants == {{}, {1}, {1, 2}}
MCReserves == {{}, {2}, {3}}
=============================================================================
