---------------------------- MODULE MCDevSeller ----------------------------
(***************************************************************************)
(* Instances of DevSeller: one testnet of each kind, one mainnet; options  *)
(* one field away from a good one; environments one or two variables away  *)
(* from a plain one; widths of two bits.                                   *)
(***************************************************************************)
EXTENDS DevSeller

CONSTANTS Sepolia, Base, Devnet, Usdc, Alice, Bob, Shop, TokenA, TokenB

MCAddresses == {Usdc, Alice, Bob, Shop}
MCDomains == {TokenA, TokenB}

Good ==
    [network |-> Sepolia, asset |-> Usdc, payTo |-> Shop, amount |-> 1, domain |-> TokenA]

Foreign ==
    [ network |-> Devnet, asset |-> ForeignAddress, payTo |-> ForeignAddress, amount |-> 1,
      domain |-> None ]

MCOptionSets ==
    {<<>>, <<Good>>, <<Foreign>>, <<Good, Foreign>>, <<Good, [Good EXCEPT !.asset = Alice]>>}
    \cup {<<o>> : o \in {[Good EXCEPT !.network = Base],
                         [Good EXCEPT !.network = PlaceholderNetwork],
                         [Good EXCEPT !.payTo = PlaceholderAddress],
                         [Good EXCEPT !.payTo = ForeignAddress],
                         [Good EXCEPT !.asset = ForeignAddress],
                         [Foreign EXCEPT !.payTo = PlaceholderAddress]}}
    \cup {<<Good, [Foreign EXCEPT !.network = PlaceholderNetwork]>>}

Plain ==
    [ verify |-> Unset, rejectReason |-> Unset, settle |-> Unset, settleReason |-> Unset,
      delay |-> Unset, retired |-> Unset, allowMainnet |-> Unset, addr |-> "loopback",
      upstream |-> Unset, ack |-> Unset, options |-> <<Good>> ]

WithModes(e) ==
    {[e EXCEPT !.verify = v] : v \in VerifyModes \cup {Blank, Junk, NotUnicode}}
    \cup {[e EXCEPT !.settle = v] : v \in SettleModes \cup {Blank, Junk, NotUnicode}}

WithProxy(e) ==
    {[e EXCEPT !.upstream = u] : u \in {Unset, NotUnicode, Blank, Junk}}
    \cup {[e EXCEPT !.upstream = "http", !.addr = a, !.ack = k] :
            a \in {"loopback", "beyond", Blank}, k \in {Unset, One, Junk}}

MCEnvironments ==
    UNION {WithModes([Plain EXCEPT !.options = o]) : o \in OptionSets}
    \cup {[Plain EXCEPT !.verify = v, !.settle = s] : v \in VerifyModes, s \in SettleModes}
    \cup UNION {WithProxy([Plain EXCEPT !.verify = v]) : v \in VerifyModes}
    \cup {[Plain EXCEPT !.retired = v, !.allowMainnet = m] :
            v \in {Unset, NotUnicode, Blank}, m \in {Unset, NotUnicode, Blank, One}}
    \cup {[Plain EXCEPT !.verify = "reject", !.rejectReason = v] : v \in {Blank, "reason"}}
    \cup {[Plain EXCEPT !.settle = s, !.settleReason = v] :
            s \in {"rejected", "succeed"}, v \in {Blank, "reason"}}
    \cup {[Plain EXCEPT !.settle = s, !.delay = d] :
            s \in {"timeout", "succeed"}, d \in {Blank, Junk, 0, 2}}
=============================================================================
