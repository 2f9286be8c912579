---------------------------- MODULE Facilitator ----------------------------
(***************************************************************************)
(* How DelegatedFacilitator (obolus/src/facilitator.rs) reads what a       *)
(* third-party facilitator answers to POST /verify and POST /settle.       *)
(*                                                                         *)
(* An answer is abstracted to the two things the code looks at: the class  *)
(* of its HTTP status and what its body says.  Reasons are grouped the way *)
(* the code groups them; wording, hashes and addresses are left out.       *)
(***************************************************************************)

\* 1xx, 3xx and 5xx are one class: the code refuses to read a verdict there.
StatusClasses == {"2xx", "4xx", "other"}

(***************************************************************************)
(*   garbled    not JSON of the expected shape, or over the size limit     *)
(*   silent     parsed, but without the isValid or success field           *)
(*   yes        isValid / success is true                                  *)
(*   no         false, for a reason that is the client's (or no reason)    *)
(*   ourFault   false, for a reason in OUR_FAULT_REASONS                   *)
(*   pending    false, for the reason settlement_pending                   *)
(***************************************************************************)
Bodies == {"garbled", "silent", "yes", "no", "ourFault", "pending"}

\* The round trip did not complete: no connection, a broken read, a timeout.
Incomplete == [status |-> "none", body |-> "none"]

Answers == [status : StatusClasses, body : Bodies] \cup {Incomplete}

Verdicts == {"Ok", "Refused", "Unavailable"}

\* Only a 2xx or a 4xx says the payment was evaluated.
Authoritative(answer) == answer.status \in {"2xx", "4xx"}

\* Mutant: a refusal is believed whatever status it comes with.
VerifyVerdictAnyRefusal(answer) ==
    CASE Authoritative(answer) /\ answer.body = "yes" -> "Ok"
      [] answer.body \in {"no", "pending"}            -> "Refused"
      [] OTHER                                        -> "Unavailable"

\* settlement_pending means nothing special to verify: it is a plain refusal.
VerifyVerdict(answer) ==
    CASE Authoritative(answer) /\ answer.body = "yes"               -> "Ok"
      [] Authoritative(answer) /\ answer.body \in {"no", "pending"} -> "Refused"
      [] OTHER                                                      -> "Unavailable"

\* Mutant: the receipt is believed whatever status it comes with.
SettleVerdictAnySuccess(answer) ==
    CASE answer.body = "yes"                         -> "Ok"
      [] Authoritative(answer) /\ answer.body = "no" -> "Refused"
      [] OTHER                                       -> "Unavailable"

\* Mutant: settlement_pending is not an exception, so it reads as a refusal.
SettleVerdictPendingRefused(answer) ==
    CASE Authoritative(answer) /\ answer.body = "yes"               -> "Ok"
      [] Authoritative(answer) /\ answer.body \in {"no", "pending"} -> "Refused"
      [] OTHER                                                      -> "Unavailable"

\* A broadcast that is not confirmed may still charge the payer, so it is not
\* a refusal.  duplicate_settlement is not told apart from any other refusal.
SettleVerdict(answer) ==
    CASE Authoritative(answer) /\ answer.body = "yes" -> "Ok"
      [] Authoritative(answer) /\ answer.body = "no"  -> "Refused"
      [] OTHER                                        -> "Unavailable"
=============================================================================
