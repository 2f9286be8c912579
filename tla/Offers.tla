------------------------------- MODULE Offers -------------------------------
(***************************************************************************)
(* What a gateway offers and how a payment is matched to it: the options   *)
(* an operator configures (validated_option and parse_accepts in config.rs,*)
(* Gateway::new in gateway.rs), the challenge made of them at the price of *)
(* the moment, the payment a client makes of the challenge, and what the   *)
(* gateway makes of the payment before it asks the facilitator             *)
(* (paid_completion in gateway.rs, x402/v2.rs).                            *)
(*                                                                         *)
(* Names, addresses and the values of extra are members of small sets; an  *)
(* extra is a function on the keys it has.  How a header is encoded is     *)
(* left out; at which point its decoding stops is not.                     *)
(***************************************************************************)
EXTENDS Naturals, Sequences, FiniteSets

CONSTANTS
    Evm, Solana, OtherNetworks,  \* networks, by the namespace of their id
    Assets, Payees,              \* token and receiver addresses
    Amounts,                     \* in atomic units
    Extras,                      \* what an operator writes as extra
    Written,                     \* the entries an operator may write, see EntrySet
    Tampered,                    \* bound: those whose offers payments are edited for
    Window,                      \* OBOLUS_MAX_TIMEOUT_SECS, already checked by main
    Reserve,                     \* SETTLE_RESERVE_SECS
    MaxEntries,                  \* bound: entries of OBOLUS_ACCEPTS
    MaxReprices,                 \* bound: how often the price changes
    Blank,                       \* a value of whitespace, or none
    Junk,                        \* not an amount
    Missing,                     \* a key that is not there
    NoExtra,                     \* no extra at all
    NotObject,                   \* an extra that is no JSON object
    None

Networks == Evm \cup Solana \cup OtherNetworks

Keys == {"name", "version", "assetTransferMethod", "paymentFlow", "recentBlockhash", "note"}
Texts == {"text", "fresh", "eip3009", "permit2", "default", "authorization", "upfront"}
Values == Texts \cup {"blank", "number"}

Objects == UNION {[keys -> Values] : keys \in SUBSET Keys}

ASSUME ExtrasAssumption ==
    Extras \subseteq Objects \cup {NoExtra} /\ NoExtra \notin Objects /\ NotObject \notin Objects
ASSUME WindowAssumption == Window \in Nat /\ Reserve \in Nat /\ Reserve < Window
ASSUME AmountsAssumption == Amounts \subseteq Nat /\ Amounts # {}
ASSUME BoundsAssumption == MaxEntries \in Nat \ {0} /\ MaxReprices \in Nat
ASSUME NullsAssumption ==
    /\ Cardinality({Blank, Junk, Missing, NoExtra, NotObject, None}) = 6
    /\ Blank \notin Networks \cup Assets \cup Payees
    /\ {Junk, Missing} \cap Amounts = {}
    /\ {Junk, Missing} \cap [ scheme : {"exact"}, network : Networks, amount : Amounts,
                             asset : Assets, payTo : Payees, timeout : {Window},
                             extra : Objects \cup {NoExtra}, unknown : {FALSE} ] = {}

\* An AcceptEntry, before any check; v1 is whether it has x402 v1's amount key.
EntrySet ==
    [ network : Networks \cup {Blank}, asset : Assets \cup {Blank}, payTo : Payees \cup {Blank},
      amount : Amounts \cup {Junk, Missing}, extra : Extras, v1 : BOOLEAN ]

ASSUME WrittenAssumption == Tampered \subseteq Written /\ Written \subseteq EntrySet

VARIABLES
    entries,   \* the configuration
    options,   \* Gateway.requirements; none, unless the gateway has started
    quote,     \* what the determiner asks on each network at the moment
    payer,     \* "honest", or "any" for one who sends any edit of an offer
    client,    \* where the client is
    seen,      \* the options of the challenge it holds
    sent,      \* the payment it has sent
    reply,     \* the gateway's verdict on it
    reprices

vars == <<entries, options, quote, payer, client, seen, sent, reply, reprices>>
-----------------------------------------------------------------------------
(***************************************************************************)
(* One option.                                                             *)
(***************************************************************************)

IsObject(extra) == extra \notin {NoExtra, NotObject}

Has(extra, key) == IsObject(extra) /\ key \in DOMAIN extra

\* default_asset_transfer_method.
DefaultMethod(o) ==
    IF o.scheme # "exact" THEN None
    ELSE IF o.network \in Evm THEN "eip3009"
    ELSE IF o.network \in Solana THEN "default"
    ELSE None

\* Mutant: no field of extra is the client's to fill in.
NoDynamicFields(o) == {}

DynamicFields(o) ==
    IF o.scheme = "exact" /\ o.network \in Solana THEN {"recentBlockhash"} ELSE {}

Without(extra, keys) ==
    IF IsObject(extra) THEN [k \in DOMAIN extra \ keys |-> extra[k]] ELSE extra

ContainsSubset(expected, actual) ==
    IF IsObject(expected)
    THEN /\ IsObject(actual)
         /\ \A k \in DOMAIN expected : k \in DOMAIN actual /\ actual[k] = expected[k]
    ELSE expected = actual

\* What moves the value and when, as the option resolves it.
ResolvedMethod(o) ==
    IF Has(o.extra, "assetTransferMethod") /\ o.extra.assetTransferMethod \in Texts \cup {"blank"}
    THEN o.extra.assetTransferMethod ELSE DefaultMethod(o)

ResolvedFlow(o) ==
    IF Has(o.extra, "paymentFlow") /\ o.extra.paymentFlow \in Texts \cup {"blank"}
    THEN o.extra.paymentFlow ELSE "authorization"

UnsupportedTransfer(o) ==
    \/ Has(o.extra, "paymentFlow") /\ o.extra.paymentFlow # "authorization"
    \/ Has(o.extra, "assetTransferMethod") /\ o.extra.assetTransferMethod # DefaultMethod(o)
-----------------------------------------------------------------------------
(***************************************************************************)
(* From the configuration to the gateway.                                  *)
(***************************************************************************)

Usable(extra, key) == Has(extra, key) /\ extra[key] \in Texts

Option(e) ==
    [ scheme |-> "exact", network |-> e.network, amount |-> e.amount, asset |-> e.asset,
      payTo |-> e.payTo, timeout |-> Window, extra |-> e.extra ]

\* Mutant: an amount that is no number is taken as it stands.
EntryDefectIgnoringAmount(e) ==
    \/ e.v1 \/ e.amount = Missing
    \/ Blank \in {e.network, e.asset, e.payTo}
    \/ e.network \in Evm /\ ~(Usable(e.extra, "name") /\ Usable(e.extra, "version"))
    \/ UnsupportedTransfer(Option(e))

\* What parse_accepts and validated_option refuse an entry for; the order of the
\* checks only chooses the words.
EntryDefect(e) ==
    \/ e.v1 \/ e.amount \in {Missing, Junk}
    \/ Blank \in {e.network, e.asset, e.payTo}
    \/ e.network \in Evm /\ ~(Usable(e.extra, "name") /\ Usable(e.extra, "version"))
    \/ UnsupportedTransfer(Option(e))

\* Mutant: only options that agree in everything are duplicates.
SameInFull(a, b) == a = b

SameOption(a, b) == a.scheme = b.scheme /\ a.network = b.network

\* GatewayError, on whatever options it is handed.
GatewayDefect(opts) ==
    \/ opts = <<>>
    \/ \E i, j \in DOMAIN opts : i < j /\ SameOption(opts[i], opts[j])
    \/ \E i \in DOMAIN opts :
            opts[i].scheme # "exact" \/ UnsupportedTransfer(opts[i]) \/ opts[i].timeout <= Reserve

Assembled == [i \in DOMAIN entries |-> Option(entries[i])]

\* Every entry has to pass, then the set of them.
Boot ==
    /\ client = "away"
    /\ ~\E i \in DOMAIN entries : EntryDefect(entries[i])
    /\ ~GatewayDefect(Assembled)
    /\ options' = {Assembled[i] : i \in DOMAIN entries}
    /\ client' = "asking"
    /\ UNCHANGED <<payer, entries, quote, seen, sent, reply, reprices>>

\* The determiner's answer changes for some network: a promotion starts or ends.
Reprice ==
    /\ reprices < MaxReprices
    /\ reprices' = reprices + 1
    /\ \E n \in Networks : \E a \in Amounts \ {quote[n]} : quote' = [quote EXCEPT ![n] = a]
    /\ UNCHANGED <<payer, entries, options, client, seen, sent, reply>>
-----------------------------------------------------------------------------
(***************************************************************************)
(* The challenge, and the payments a client may make of one.               *)
(***************************************************************************)

Priced == {[o EXCEPT !.amount = quote[o.network]] : o \in options}

\* Mutant: the challenge carries the configured amounts.
ChallengeAsConfigured == options

Challenge == Priced

Accepting(o, extra) ==
    [ scheme |-> o.scheme, network |-> o.network, amount |-> o.amount, asset |-> o.asset,
      payTo |-> o.payTo, timeout |-> o.timeout, extra |-> extra, unknown |-> FALSE ]

\* A header that decodes, and says what the challenge said.
Envelope(accepted) ==
    [ header |-> "json", version |-> 2, accepted |-> accepted, payload |-> "object",
      extension |-> "none" ]

Extended(extra, key, value) ==
    [k \in (IF IsObject(extra) THEN DOMAIN extra ELSE {}) \cup {key} |->
        IF k = key THEN value ELSE extra[k]]

\* What the scheme's own document leaves to the client.
ClientFills(o) == IF o.network \in Solana THEN {"recentBlockhash"} ELSE {}

\* A conforming client echoes extra, fills in what is its to fill in, and may name
\* what the option resolves to anyway.
HonestExtras(o) ==
    {o.extra}
        \cup {Extended(o.extra, key, "fresh") : key \in ClientFills(o)}
        \cup {Extended(o.extra, "paymentFlow", "authorization")}
        \cup (IF DefaultMethod(o) = None THEN {}
              ELSE {Extended(o.extra, "assetTransferMethod", DefaultMethod(o))})

HonestPayments(o) == {Envelope(Accepting(o, extra)) : extra \in HonestExtras(o)}

EditedExtras(o) ==
    HonestExtras(o) \cup {NoExtra, NotObject}
        \cup {Extended(o.extra, key, value) : key \in Keys, value \in Values}
        \cup {Without(o.extra, {key}) : key \in Keys}

EditedFields(a) ==
    {a, [a EXCEPT !.unknown = TRUE], [a EXCEPT !.timeout = @ + 1], [a EXCEPT !.scheme = "upto"]}
        \cup {[a EXCEPT !.asset = x] : x \in Assets}
        \cup {[a EXCEPT !.payTo = x] : x \in Payees}
        \cup {[a EXCEPT !.network = n] : n \in Networks}

EditedEnvelopes(p) ==
    {p} \cup {[p EXCEPT !.header = h] : h \in {"not ascii", "not base64", "not json"}}
        \cup {[p EXCEPT !.version = v] : v \in {None, 1, 300}}
        \cup {[p EXCEPT !.version = 1, !.accepted = Missing]}
        \cup {[p EXCEPT !.accepted = x] : x \in {Missing, Junk}}
        \cup {[p EXCEPT !.payload = x] : x \in {"other", "missing"}}
        \cup {[p EXCEPT !.extension = x] : x \in {"unlisted", "server's, in info", "server's"}}

Sends(o) ==
    \/ \E p \in HonestPayments(o) : sent' = p
    \/ /\ payer = "any"
       /\ \/ \E extra \in EditedExtras(o) : \E n \in Amounts :
                sent' = Envelope([Accepting(o, extra) EXCEPT !.amount = n])
          \/ \E extra \in HonestExtras(o) :
                \E a \in EditedFields(Accepting(o, extra)) : sent' = Envelope(a)
          \/ \E p \in HonestPayments(o) : \E q \in EditedEnvelopes(p) : sent' = q

Verdict(outcome, hint, os) == [outcome |-> outcome, hint |-> hint, options |-> os]

NoVerdict == Verdict("none", "none", {})

\* The client asks, and is told how to pay.
Ask ==
    /\ client = "asking"
    /\ seen' = Challenge
    /\ client' = "holding"
    /\ UNCHANGED <<payer, entries, options, quote, sent, reply, reprices>>

\* The gateway keeps nothing of a payment it refuses, so an edited one is sent once.
Pay ==
    /\ client = "holding"
    /\ payer = "any" => sent = None
    /\ \E o \in seen : Sends(o)
    /\ client' = "waiting"
    /\ reply' = NoVerdict
    /\ UNCHANGED <<payer, entries, options, quote, seen, reprices>>
-----------------------------------------------------------------------------
(***************************************************************************)
(* What the gateway makes of a payment.                                    *)
(***************************************************************************)

\* check_version and decode_payment, in their order.
DecodeError(p) ==
    IF p.header # "json" THEN p.header
    ELSE IF p.version \notin 0..255 THEN "no version"
    ELSE IF p.version # 2 THEN "unsupported version"
    ELSE IF p.accepted = Missing THEN "no accepted"
    ELSE IF p.accepted = Junk THEN "accepted"
    ELSE IF p.payload # "object" THEN "payload"
    ELSE "none"

IsAcceptedBy(o, p) ==
    /\ ~p.accepted.unknown
    /\ \A f \in {"scheme", "network", "amount", "asset", "payTo", "timeout"} :
            p.accepted[f] = o[f]
    /\ o.extra # NoExtra =>
            ContainsSubset(Without(o.extra, DynamicFields(o)),
                           Without(p.accepted.extra, DynamicFields(o)))

\* Mutant: only what the option itself names can be disagreed with.
TransferAgreesWithNamed(o, p) ==
    \A key \in {"assetTransferMethod", "paymentFlow"} :
        Has(o.extra, key) /\ Has(p.accepted.extra, key) => p.accepted.extra[key] = o.extra[key]

\* transfer_disagreement finds none.
TransferAgrees(o, p) ==
    /\ Has(p.accepted.extra, "assetTransferMethod") =>
            p.accepted.extra.assetTransferMethod = ResolvedMethod(o)
    /\ Has(p.accepted.extra, "paymentFlow") =>
            p.accepted.extra.paymentFlow = ResolvedFlow(o)

AcceptedFor(p) == {o \in Priced : IsAcceptedBy(o, p)}

\* Mutant: an option on the same network is taken for the one that was repriced.
RepricedOnNetwork(p) == {o \in Priced : o.network = p.accepted.network}

RepricedFor(p) == {o \in Priced : IsAcceptedBy([o EXCEPT !.amount = p.accepted.amount], p)}

Judge(p) ==
    IF DecodeError(p) # "none" THEN Verdict("PaymentMalformed", DecodeError(p), {})
    ELSE IF AcceptedFor(p) = {}
    THEN Verdict("OptionUnmatched", IF RepricedFor(p) # {} THEN "repriced" ELSE "unmatched",
                 RepricedFor(p))
    ELSE IF \E o \in AcceptedFor(p) : ~TransferAgrees(o, p)
    THEN Verdict("OptionUnmatched", "transfer", AcceptedFor(p))
    ELSE IF p.extension \in {"server's, in info", "server's"}
    THEN Verdict("OptionUnmatched", "extension", AcceptedFor(p))
    ELSE Verdict("verify", "none", AcceptedFor(p))

\* The reply, and with a refusal a challenge at the price of now.
Decide ==
    /\ client = "waiting"
    /\ reply' = Judge(sent)
    /\ IF reply'.outcome = "verify"
       THEN client' = "through" /\ UNCHANGED seen
       ELSE client' = "holding" /\ seen' = Challenge
    /\ UNCHANGED <<payer, entries, options, quote, sent, reprices>>

Init ==
    /\ payer \in {"honest", "any"}
    /\ \E n \in 0..MaxEntries :
            entries \in [1..n -> IF payer = "honest" THEN Written ELSE Tampered]
    /\ options = {}
    /\ quote \in {[n \in Networks |-> a] : a \in Amounts}
    /\ client = "away"
    /\ seen = {}
    /\ sent = None
    /\ reply = NoVerdict
    /\ reprices = 0

Exchange == Ask \/ Pay \/ Decide

Next == Boot \/ Reprice \/ Exchange

\* A client that wants its answer goes on; the gateway always replies.
Spec == Init /\ [][Next]_vars /\ WF_vars(Exchange)
-----------------------------------------------------------------------------
(***************************************************************************)
(* Correctness.                                                            *)
(***************************************************************************)

OptionSet ==
    [ scheme : {"exact"}, network : Networks, amount : Amounts, asset : Assets,
      payTo : Payees, timeout : {Window}, extra : Extras ]

\* Every variable keeps to its type; what is offered is whole.
TypeOK ==
    /\ \A i \in DOMAIN entries : entries[i] \in Written
    /\ options \subseteq OptionSet /\ seen \subseteq OptionSet
    /\ quote \in [Networks -> Amounts]
    /\ client \in {"away", "asking", "holding", "waiting", "through"}
    /\ reply.outcome \in {"none", "PaymentMalformed", "OptionUnmatched", "verify"}
    /\ reply.options \subseteq OptionSet
    /\ reprices \in 0..MaxReprices

\* Whatever configuration passed the doors, each of its options can be paid by the
\* client that takes it as given: the option matches its own echo, with the
\* client's own values where those are the client's, and no later check refuses it.
EveryOfferIsPayable ==
    \A o \in Priced : \A p \in HonestPayments(o) : Judge(p) = Verdict("verify", "none", {o})

\* What is sent on to the facilitator is a payment for exactly one option at the
\* price of that moment, and names no way or time of paying but those this gateway
\* runs, whatever extra the operator and the client wrote.
PaidAsOffered ==
    reply.outcome = "verify" =>
        \E o \in reply.options :
            /\ sent.accepted = Accepting(o, sent.accepted.extra)
            /\ LET extra == sent.accepted.extra
               IN  /\ Has(extra, "paymentFlow") => extra.paymentFlow = "authorization"
                   /\ Has(extra, "assetTransferMethod") =>
                            extra.assetTransferMethod = DefaultMethod(o)
                   /\ IsObject(o.extra) => IsObject(extra)

\* accepted_for takes the first option that matches; it is the only one.
OneOptionAtMost == Cardinality(reply.options) <= 1

\* What leaves for the facilitator is what was offered, and one option of it.
PaymentsMatchOffers == TypeOK /\ PaidAsOffered /\ OneOptionAtMost

\* The reason a refused payer reads is the reason: told of a price, it gets through
\* to the option with that price alone; told that nothing matches, no price helps.
HintsAreTrue ==
    LET at(o) == [sent EXCEPT !.accepted.amount = o.amount]
    IN  /\ reply.hint = "repriced" /\ client = "holding" =>
                \A o \in reply.options : IsAcceptedBy(o, at(o))
        /\ reply.hint = "unmatched" /\ client = "holding" =>
                \A o \in seen : ~IsAcceptedBy(o, at(o))

\* A challenge can be met, and a refusal helps to meet it.
ChallengesCanBeMet == EveryOfferIsPayable /\ HintsAreTrue

\* A payer that takes each challenge as given gets through, once prices hold still.
PayersGetThrough == payer = "honest" /\ client = "asking" ~> client = "through"
=============================================================================
