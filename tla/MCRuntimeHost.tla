--------------------------- MODULE MCRuntimeHost ---------------------------
(* Instances of RuntimeHost for model checking.                            *)
EXTENDS RuntimeHost

MCClients == 1 .. LogEnd

=============================================================================
