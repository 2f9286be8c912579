----------------------------- MODULE MCGateway -----------------------------
(***************************************************************************)
(* A small instance of Gateway: two chains with windows of different       *)
(* lengths, a promotion that may start or end at any time, and clients     *)
(* that present the same payment more than once.                           *)
(***************************************************************************)
EXTENDS Gateway, TLC

CONSTANTS base, solana, pFull, pSolana

MCOptions == {base, solana}

FullPrices  == (base :> 3) @@ (solana :> 3)
PromoPrices == (base :> 2) @@ (solana :> 3)
MCQuotes == {FullPrices, PromoPrices}

MCPayments == {pFull, pSolana}
MCAccepted ==
    (pFull :> [option |-> base, amount |-> 3])
      @@ (pSolana :> [option |-> solana, amount |-> 3])

MCWindow == (base :> 2) @@ (solana :> 4)

\* A request that passes every check and presents payment p.
Paying(p) ==
    [ambiguous |-> FALSE, routed |-> TRUE, bearer |-> "none", bounded |-> TRUE,
     rated |-> TRUE, payment |-> p, agrees |-> TRUE]

\* One form for each way to be refused, each of them carrying a good payment
\* where it can, so that a check left out would let it through to a charge.
MCForms ==
    {Paying(p) : p \in MCPayments \cup {Malformed, None}}
      \cup {[Paying(pFull) EXCEPT !.ambiguous = TRUE],
            [Paying(pFull) EXCEPT !.routed = FALSE],
            [Paying(pFull) EXCEPT !.bearer = "honoured"],
            [Paying(pFull) EXCEPT !.bearer = "refused", !.bounded = FALSE],
            [Paying(pFull) EXCEPT !.rated = FALSE],
            [Paying(pFull) EXCEPT !.agrees = FALSE]}

\* The forms that get past the checks: enough to see what a settlement may do.
MCServedForms ==
    {Paying(pFull), [Paying(pFull) EXCEPT !.bearer = "honoured"]}
=============================================================================
