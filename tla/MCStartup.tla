------------------------------ MODULE MCStartup ------------------------------
(* Three processes, one with a shorter pid than the others, and a host name *)
(* with two addresses; or two processes and one address.                    *)
EXTENDS Startup

MCDigits == [p \in Procs |-> IF p = 1 THEN 1 ELSE 2]
MCAddrs  == <<"v6", "v4">>
OneAddr  == <<"v4">>
=============================================================================
