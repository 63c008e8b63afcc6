----------------------------- MODULE MCClientForm -----------------------------
EXTENDS ClientForm, TLC
CONSTANTS d, w, p, c1
(* An operator with every capability, one that is not implemented and      *)
(* one that only counts while operators are enabled among them.            *)
MCRegistered == c1 :> [profile |-> "operator", capabilities |-> {d, w, p}]
=============================================================================
