------------------------------ MODULE MCDesktop ------------------------------
(***************************************************************************)
(* What the desktop application and the service share beside the backups:  *)
(* the token of the local API, and the list of servers.  Each behaviour    *)
(* follows one of the two (part; the other stays in an initial state).     *)
(*                                                                         *)
(* Two concurrent requests and four tokens; two servers, with two API     *)
(* tokens, a user and a key to choose from.                                *)
(***************************************************************************)
EXTENDS ServerConfig, LocalToken, TLC

CONSTANTS q1, q2, a, b, t1, t2

VARIABLE part

MCInit ==
  /\ part \in {"token", "config"}
  /\ Init /\ (part # "config" => stored = <<>> /\ mode = "standalone")
  /\ TokenInit /\ (part # "token" => app.canRead /\ app.env = 1)

MCNext ==
  /\ UNCHANGED part
  /\ \/ part = "config" /\ Next /\ UNCHANGED tokenVars
     \/ part = "token" /\ TokenNext /\ UNCHANGED vars

MCSpec == MCInit /\ [][MCNext]_<<part, vars, tokenVars>>

MCSymmetry == Permutations({q1, q2}) \cup Permutations({a, b}) \cup Permutations({t1, t2})
==============================================================================
