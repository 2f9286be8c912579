------------------------------- MODULE MCBooks -------------------------------
(***************************************************************************)
(* A small instance of Books: a payment for each of two options, and      *)
(* requests that are paid for, served to a token, or refused.              *)
(***************************************************************************)
EXTENDS Books, TLC

CONSTANTS base, solana, pBase, pSolana

MCOptions == {base, solana}
MCQuotes == {(base :> 3) @@ (solana :> 2)}
MCPayments == {pBase, pSolana}
MCAccepted ==
    (pBase :> [option |-> base, amount |-> 3])
      @@ (pSolana :> [option |-> solana, amount |-> 2])
MCWindow == [o \in MCOptions |-> 2]

Paying(p) ==
    [ambiguous |-> FALSE, routed |-> TRUE, bearer |-> "none", bounded |-> TRUE,
     rated |-> TRUE, payment |-> p, agrees |-> TRUE]

MCForms ==
    {Paying(pBase), Paying(pSolana), Paying(None), [Paying(None) EXCEPT !.bearer = "honoured"]}

\* One answer for each verdict.
MCHeard == {[status |-> "2xx", body |-> body] : body \in {"yes", "no"}} \cup {Incomplete}
=============================================================================
