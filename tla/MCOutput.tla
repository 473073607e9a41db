------------------------------ MODULE MCOutput ------------------------------
(***************************************************************************)
(* The two halves of write_line() for the model checker, see README.md.    *)
(* The event log and the remote delivery share no state and neither reads  *)
(* the other's, so a behaviour runs one of them from its start and leaves  *)
(* the other one where it began.                                           *)
(***************************************************************************)
EXTENDS EventLog, Delivery

CONSTANT Parts \* the halves to run, of "log" and "delivery"

VARIABLE part

MCInit ==
  /\ part \in Parts
  /\ LogInit /\ Init
  /\ part = "log" => dnsUp

MCNext ==
  \/ part = "log" /\ LogNext /\ UNCHANGED <<part, vars>>
  \/ part = "delivery" /\ Next /\ UNCHANGED <<part, logVars>>

MCSpec == MCInit /\ [][MCNext]_<<part, logVars, vars>> /\ Fairness

=============================================================================
