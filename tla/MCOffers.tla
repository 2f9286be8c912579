------------------------------ MODULE MCOffers ------------------------------
(***************************************************************************)
(* Instances of Offers: one network of each namespace, two assets and      *)
(* receivers, two prices; the extras an operator could write for them and  *)
(* the entries one change away from a good one.                            *)
(***************************************************************************)
EXTENDS Offers

CONSTANTS Base, Solana1, Stellar, Usdc, Eurc, Alice, Bob

MCEvm == {Base}
MCSolana == {Solana1}
MCOther == {Stellar}
MCAssets == {Usdc, Eurc}
MCPayees == {Alice, Bob}
MCAmounts == {1, 2}

Domain == [name |-> "text", version |-> "text"]

With(extra, key, value) == Extended(extra, key, value)

MCExtras ==
    { NoExtra, Domain, With(Domain, "version", "blank"), With(Domain, "name", "number"),
      With(Domain, "assetTransferMethod", "eip3009"),
      With(Domain, "assetTransferMethod", "permit2"),
      With(Domain, "paymentFlow", "authorization"), With(Domain, "paymentFlow", "upfront"),
      With(Domain, "note", "text"), With(NoExtra, "recentBlockhash", "text"),
      With(NoExtra, "note", "text"), With(NoExtra, "paymentFlow", "upfront"),
      With(NoExtra, "assetTransferMethod", "default") }

Good(network, extra) ==
    [ network |-> network, asset |-> Usdc, payTo |-> Alice, amount |-> 1, extra |-> extra,
      v1 |-> FALSE ]

MCWritten ==
    LET e == Good(Base, Domain)
    IN  {Good(n, x) : n \in Networks, x \in Extras}
            \cup {[e EXCEPT !.network = Blank], [e EXCEPT !.asset = Blank],
                  [e EXCEPT !.payTo = Blank], [e EXCEPT !.amount = Junk],
                  [e EXCEPT !.amount = Missing], [e EXCEPT !.v1 = TRUE],
                  [e EXCEPT !.asset = Eurc]}

\* Fewer entries, for payments with every edit.
MCTampered ==
    { Good(Base, Domain), Good(Base, With(Domain, "note", "text")),
      Good(Base, With(Domain, "paymentFlow", "upfront")),
      [Good(Base, Domain) EXCEPT !.asset = Eurc],
      Good(Solana1, With(NoExtra, "recentBlockhash", "text")), Good(Solana1, NoExtra),
      Good(Stellar, NoExtra) }
=============================================================================
