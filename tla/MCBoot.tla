------------------------------- MODULE MCBoot -------------------------------
EXTENDS Boot
(* An answer that passes, one that is refused with a code the UI does not  *)
(* know, one with a code it knows, a body that is not JSON, a hollow one,  *)
(* and no answer at all.                                                   *)
MCResponse == {[status |-> 200, code |-> "", body |-> "valid"],
               [status |-> 200, code |-> "", body |-> "hollow"],
               [status |-> 200, code |-> "", body |-> "garbage"],
               [status |-> 503, code |-> "unavailable", body |-> "valid"],
               [status |-> 0, code |-> "", body |-> "garbage"]}
=============================================================================
