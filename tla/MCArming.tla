------------------------------ MODULE MCArming ------------------------------
(***************************************************************************)
(* Instances of Arming: one testnet, one mainnet and one short name, each  *)
(* in the spellings that are diagnosed differently, and the placeholder.   *)
(***************************************************************************)
EXTENDS Arming, TLC

CONSTANTS Sepolia, Base, Short

MCTestnets == {Sepolia}
MCShortNames == {Short, One}

Spelt(name, spellings) == [name : {name}, spelling : spellings]

MCNetworks ==
    Spelt(Sepolia, Spellings) \cup Spelt(Base, {"exact", "space"})
        \cup Spelt(Short, {"exact", "lookalike"})
        \cup Spelt(Placeholder, {"exact", "space", "lookalike"})

\* An edit of the value writes down what could have been meant for these, a
\* blank, the retired form.
MCEntries ==
    Spelt(Base, {"exact", "ascii"}) \cup Spelt(Sepolia, {"exact", "ascii"})
        \cup {Exact(Blank), Exact(One)}
=============================================================================
