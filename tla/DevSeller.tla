----------------------------- MODULE DevSeller -----------------------------
(***************************************************************************)
(* The development seller (devseller/): the same gateway over a facilitator*)
(* that checks payments offline, settles nothing, and fails on command.    *)
(* Its configuration and the guards it starts behind (config.rs, main.rs), *)
(* the offline judge (verify.rs, over the eip3009 crate), and the two      *)
(* answers of its facilitator (facilitator.rs) as the gateway passes them  *)
(* on.                                                                     *)
(*                                                                         *)
(* Hashes are symbolic: a signature names what it is over, and a digest is *)
(* its domain and its authorization.  A signature over anything else, or   *)
(* with the other parity (v is 0 or 27 with its own, 1 or 28 with the      *)
(* other), recovers to a stranger.  The options are what validated_option  *)
(* lets through (module Offers).                                           *)
(*                                                                         *)
(* The token contract the judge stands in for is not the seller's to know: *)
(* its name and version, the nonces it has seen and the balances it holds  *)
(* are any (Contracts).                                                    *)
(***************************************************************************)
EXTENDS Naturals, Sequences, FiniteSets

CONSTANTS
    EvmTestnets, OtherTestnets, Mainnets, PlaceholderNetwork,
    Addresses,            \* of 20 bytes
    PlaceholderAddress,   \* the built-in one, which is none
    ForeignAddress,       \* an address of another form
    Domains,              \* token names and versions
    OptionSets,           \* the payment options either door may yield
    Environments,
    Payers, Nonces,
    MaxU64, MaxU128,      \* the widths of a timestamp and of an amount
    Amounts, Times,       \* the numbers on the wire, wider than the widths
    MaxTime, MaxRequests, \* bounds: time, and requests made
    DefaultDelay,         \* seconds a timeout sleeps for
    Unset, NotUnicode, Blank, Junk, One, Number, None, Stranger, NotVerified

Networks == EvmTestnets \cup OtherTestnets \cup Mainnets \cup {PlaceholderNetwork}

ASSUME WidthsAssumption ==
    /\ MaxU64 \in Nat /\ MaxU128 \in Nat /\ MaxU64 <= MaxU128 /\ MaxTime < MaxU64
    /\ Amounts \subseteq Nat /\ Times \subseteq Nat
ASSUME PayersAssumption ==
    /\ Payers \subseteq Addresses
    /\ {Stranger, Junk, None, NotVerified} \cap Addresses = {} /\ Junk \notin Nat
    /\ Junk \notin [ from : Addresses, to : Addresses, value : 0..MaxU128,
                     validAfter : 0..MaxU64, validBefore : 0..MaxU64, nonce : Nonces ]
ASSUME PricesAssumption ==
    \A e \in Environments : \A i \in DOMAIN e.options : e.options[i].amount \in 0..MaxU128
ASSUME BoundsAssumption == MaxTime \in Nat /\ MaxRequests \in Nat /\ DefaultDelay \in Nat \ {0}

VARIABLES
    env,       \* the environment of the process
    outcome,   \* what its start came to
    seller,    \* what runs
    now,
    phase,     \* of the request at hand
    payment,   \* the payment it carries
    verdict,   \* verify's, and when it was given
    waited,    \* how long settle has slept
    reply,     \* the last reply
    requests

vars == <<env, outcome, seller, now, phase, payment, verdict, waited, reply, requests>>

Elements(s) == {s[i] : i \in DOMAIN s}
-----------------------------------------------------------------------------
(***************************************************************************)
(* The configuration.                                                      *)
(***************************************************************************)

\* std::env::var(..).ok(), as every variable but two is read.
Look(v) == IF v = NotUnicode THEN Unset ELSE v

Mode(v, default) == IF Look(v) = Unset THEN default ELSE v

VerifyModes == {"verify", "accept", "reject"}
SettleModes ==
    {"succeed", "unsuccessful", "unavailable", "rejected", "empty-receipt", "timeout"}

VerifyMode(e) == Mode(e.verify, "verify")
SettleMode(e) == Mode(e.settle, "succeed")

\* Read under "timeout" alone.
Delay(e) == IF SettleMode(e) = "timeout" THEN Mode(e.delay, DefaultDelay) ELSE 0

BadReasons(e) ==
    \/ VerifyMode(e) = "reject" /\ e.rejectReason = Blank
    \/ SettleMode(e) \in {"unavailable", "rejected"} /\ e.settleReason = Blank

\* Mutant: a mode nobody knows is a mode.
BadModesUnlessBlank(e) ==
    \/ Blank \in {VerifyMode(e), SettleMode(e)}
    \/ BadReasons(e)
    \/ SettleMode(e) = "timeout" /\ Delay(e) \notin Nat \ {0}

\* A reason or a delay is read, and refused, only by the mode that reports it.
BadModes(e) ==
    \/ VerifyMode(e) \notin VerifyModes \/ SettleMode(e) \notin SettleModes
    \/ BadReasons(e)
    \/ SettleMode(e) = "timeout" /\ Delay(e) \notin Nat \ {0}

\* The retired variables and the arming value count as set in any encoding.
BadVariables(e) ==
    \/ e.retired # Unset \/ e.allowMainnet # Unset
    \/ e.addr = Blank \/ Look(e.upstream) \in {Blank, Junk}

IsEvm(network) == network \in EvmTestnets \cup Mainnets

\* chain_id_of, pay_to_of and domain_for.
HasRecipient(o) == o.payTo \in Addresses
HasDomain(o) == IsEvm(o.network) /\ o.asset \in Addresses /\ o.domain # None

\* Mutant: an option that cannot be verified is found out when it is paid.
BadOffersUntilPaid(e) ==
    \E o \in Elements(e.options) :
        \/ o.network \notin EvmTestnets \cup OtherTestnets \cup {PlaceholderNetwork}
        \/ o.network = PlaceholderNetwork
        \/ IsEvm(o.network) /\ ~HasRecipient(o)
        \/ o.payTo = PlaceholderAddress

\* check_arming with nothing armed, then this binary's own guards.
BadOffers(e) ==
    \E o \in Elements(e.options) :
        \/ o.network \notin EvmTestnets \cup OtherTestnets \cup {PlaceholderNetwork}
        \/ o.network = PlaceholderNetwork
        \/ IsEvm(o.network) /\ ~HasRecipient(o)
        \/ o.payTo = PlaceholderAddress
        \/ VerifyMode(e) = "verify" /\ ~HasDomain(o)

RealUpstream(e) == Look(e.upstream) # Unset

\* Mutant: a loopback bind needs no acknowledgement.
OpenProxyBeyondLoopback(e) ==
    RealUpstream(e) /\ VerifyMode(e) = "accept" /\ e.ack # One /\ e.addr # "loopback"

OpenProxy(e) == RealUpstream(e) /\ VerifyMode(e) = "accept" /\ e.ack # One

\* Gateway::new.
NoGateway(e) ==
    \/ e.options = <<>>
    \/ \E i, j \in DOMAIN e.options : i < j /\ e.options[i].network = e.options[j].network

Refused(e) ==
    BadModes(e) \/ BadVariables(e) \/ BadOffers(e) \/ OpenProxy(e) \/ NoGateway(e)

Nothing == [verify |-> None, settle |-> None, delay |-> 0, options |-> {}, real |-> FALSE]

Start ==
    /\ outcome = "not started"
    /\ IF Refused(env) THEN outcome' = "refused" /\ UNCHANGED seller
       ELSE /\ outcome' = "started"
            /\ seller' = [ verify |-> VerifyMode(env), settle |-> SettleMode(env),
                           delay |-> Delay(env), options |-> Elements(env.options),
                           real |-> RealUpstream(env) ]
    /\ UNCHANGED <<env, now, phase, payment, verdict, waited, reply, requests>>
-----------------------------------------------------------------------------
(***************************************************************************)
(* Payments, and the judge.                                                *)
(***************************************************************************)

Authorization(from, to, value, after, before, nonce) ==
    [ from |-> from, to |-> to, value |-> value, validAfter |-> after, validBefore |-> before,
      nonce |-> nonce ]

Domain(o) == [token |-> o.domain, chain |-> o.network, contract |-> o.asset]

\* The signature of a wallet: r || s || v.
Signed(who, auth, domain) ==
    [bytes |-> 65, v |-> 27, signer |-> who, over |-> auth, under |-> domain]

Payment(o, auth, signature) ==
    [scheme |-> "exact", network |-> o.network, auth |-> auth, signature |-> signature]

Honest(o, from, after, before, nonce) ==
    LET auth == Authorization(from, o.payTo, o.amount, after, before, nonce)
    IN  Payment(o, auth, Signed(from, auth, Domain(o)))

\* One field of the authorization is another, or none.
Edits(auth) ==
    {[auth EXCEPT !.from = x] : x \in Payers \cup {Junk, None}}
        \cup {[auth EXCEPT !.to = x] : x \in Addresses \cup {Junk}}
        \cup {[auth EXCEPT !.value = x] : x \in Amounts \cup {Number, Junk, None}}
        \cup {[auth EXCEPT !.validAfter = x] : x \in Times \cup {Number}}
        \cup {[auth EXCEPT !.validBefore = x] : x \in Times \cup {Number}}
        \cup {[auth EXCEPT !.nonce = x] : x \in Nonces \cup {Junk}}

\* Signed as it is, or edited after it was signed, or by, or under, another.
Payments(o) ==
    UNION {{ Payment(o, auth, Signed(p.auth.from, auth, Domain(o))) : auth \in Edits(p.auth) }
              \cup {[p EXCEPT !.auth = auth] : auth \in Edits(p.auth)}
              \cup {[p EXCEPT !.signature.signer = x] : x \in Payers}
              \cup {[p EXCEPT !.signature.under.token = x] : x \in Domains}
              \cup {[p EXCEPT !.signature.under.chain = x] : x \in EvmTestnets \cup Mainnets}
              \cup {[p EXCEPT !.signature.under.contract = x] : x \in Addresses}
              \cup {[p EXCEPT !.signature.v = x] : x \in {0, 1, 28, 2}}
              \cup {[p EXCEPT !.signature.bytes = 64]}
           : p \in {Honest(o, from, 0, MaxU64, n) : from \in Payers, n \in Nonces}}

\* Mutant: what is wider than the integer is cut to it.
Uint128Cut(x) == x % (MaxU128 + 1)

\* uint_field and window_field: no number on the wire is cut to a width.
Uint128(x) == IF x \in 0..MaxU128 THEN x ELSE Junk

Uint64(x) == IF x \in 0..MaxU64 THEN x ELSE Junk

\* parse_exact_payload; Junk where it stops.
Parsed(p) ==
    LET a == p.auth
        value == IF a.value \in Nat THEN Uint128(a.value) ELSE Junk
    IN  IF \/ a.from \notin Addresses \/ a.to \notin Addresses \/ a.nonce \notin Nonces
           \/ value = Junk \/ Junk \in {Uint64(a.validAfter), Uint64(a.validBefore)}
        THEN Junk
        ELSE [a EXCEPT !.value = value]

\* check_terms.
TermsHold(o, auth, p) ==
    /\ p.scheme = "exact" /\ p.network = o.network
    /\ o.payTo \in Addresses /\ auth.to = o.payTo
    /\ auth.value = o.amount

\* check_window: neither end is in it.
WindowOpen(auth, t) == auth.validAfter < t /\ t < auth.validBefore

\* recover_address, over transfer_digest.
Recovered(signature, auth, domain) ==
    IF signature.bytes # 65 \/ signature.v \notin {0, 1, 27, 28} THEN Junk
    ELSE IF signature.v \in {0, 27} /\ signature.over = auth /\ signature.under = domain
    THEN signature.signer
    ELSE Stranger

\* Mutant: it is verified under the domain the client signed.
SignatureHoldsAsSigned(o, auth, p) ==
    HasDomain(o) /\ Recovered(p.signature, auth, p.signature.under) = auth.from

SignatureHolds(o, auth, p) ==
    HasDomain(o) /\ Recovered(p.signature, auth, Domain(o)) = auth.from

Judge(o, p) ==
    LET auth == Parsed(p)
    IN  IF auth = Junk THEN "payload"
        ELSE IF ~TermsHold(o, auth, p) THEN "terms"
        ELSE IF ~WindowOpen(auth, now) THEN "window"
        ELSE IF ~SignatureHolds(o, auth, p) THEN "signature"
        ELSE "ok"
-----------------------------------------------------------------------------
(***************************************************************************)
(* One request after another, through the gateway.                         *)
(***************************************************************************)

OptionOf(p) == CHOOSE o \in seller.options : o.network = p.network

Reply(status, served, receipt) == [status |-> status, served |-> served, receipt |-> receipt]
NoReceipt == [success |-> FALSE, transaction |-> None, payer |-> None]
Receipt(success, transaction, payer) ==
    [success |-> success, transaction |-> transaction, payer |-> payer]
NoReply == Reply(0, FALSE, NoReceipt)
NoVerdict == [says |-> "none", at |-> 0]

Request ==
    /\ outcome = "started" /\ phase = "idle" /\ requests < MaxRequests
    /\ \E o \in seller.options : payment' \in Payments(o)
    /\ phase' = "verify"
    /\ requests' = requests + 1
    /\ verdict' = NoVerdict
    /\ reply' = NoReply
    /\ UNCHANGED <<env, outcome, seller, now, waited>>

\* Accept inspects nothing, reject refuses anything, and no failure is ours.
Verify ==
    /\ phase = "verify"
    /\ LET says == CASE seller.verify = "accept" -> "ok"
                     [] seller.verify = "reject" -> "refused"
                     [] seller.verify = "verify" -> Judge(OptionOf(payment), payment)
       IN  /\ verdict' = [says |-> says, at |-> now]
           /\ IF says = "ok" THEN phase' = "forward" /\ UNCHANGED reply
              ELSE phase' = "idle" /\ reply' = Reply(402, FALSE, NoReceipt)
    /\ UNCHANGED <<env, outcome, seller, now, payment, waited, requests>>

\* The canned upstream never fails; the real one answers here, Gateway has the rest.
Forward ==
    /\ phase = "forward"
    /\ phase' = "settle"
    /\ waited' = 0
    /\ UNCHANGED <<env, outcome, seller, now, payment, verdict, reply, requests>>

\* Mutant: the receipt names whoever the payment says it is from.
PayerClaimed(p) == IF Parsed(p) = Junk THEN NotVerified ELSE p.auth.from

\* payer_of.
Payer(p) ==
    IF seller.verify # "verify" \/ Parsed(p) = Junk THEN NotVerified ELSE p.auth.from

\* A refused settlement, and a success without a transaction, name nobody.
SettledReceipt ==
    IF seller.settle \in {"succeed", "unsuccessful"}
    THEN Receipt(seller.settle = "succeed", "synthetic", Payer(payment))
    ELSE Receipt(seller.settle = "empty-receipt", "", None)

\* The gateway serves on success alone, and shows a refused payer a receipt.
Settled ==
    IF seller.settle \in {"unavailable", "timeout"} THEN Reply(502, FALSE, NoReceipt)
    ELSE IF SettledReceipt.success THEN Reply(200, TRUE, SettledReceipt)
    ELSE Reply(402, FALSE, SettledReceipt)

\* Mutant: the timeout is a reply that never comes, not a late one.
SettleHanging ==
    /\ phase = "settle"
    /\ seller.settle # "timeout"
    /\ reply' = Settled
    /\ phase' = "idle"
    /\ UNCHANGED <<env, outcome, seller, now, payment, verdict, waited, requests>>

Settle ==
    /\ phase = "settle"
    /\ seller.settle = "timeout" => waited = seller.delay
    /\ reply' = Settled
    /\ phase' = "idle"
    /\ UNCHANGED <<env, outcome, seller, now, payment, verdict, waited, requests>>

\* The clock is read up to MaxTime; a sleep is counted past it.
Tick ==
    /\ \/ now < MaxTime /\ now' = now + 1
       \/ now = MaxTime /\ waited < seller.delay /\ phase = "settle" /\ UNCHANGED now
    /\ waited' = IF phase = "settle" /\ waited < seller.delay THEN waited + 1 ELSE waited
    /\ UNCHANGED <<env, outcome, seller, phase, payment, verdict, reply, requests>>

Init ==
    /\ env \in Environments
    /\ outcome = "not started"
    /\ seller = Nothing
    /\ now = 0
    /\ phase = "idle"
    /\ payment = None
    /\ verdict = NoVerdict
    /\ waited = 0
    /\ reply = NoReply
    /\ requests = 0

Next == Start \/ Request \/ Verify \/ Forward \/ Settle \/ Tick

\* The process runs, and time passes.
Spec ==
    /\ Init /\ [][Next]_vars
    /\ WF_vars(Tick) /\ WF_vars(Verify) /\ WF_vars(Forward) /\ WF_vars(Settle)
-----------------------------------------------------------------------------
(***************************************************************************)
(* Correctness.                                                            *)
(***************************************************************************)

\* Every variable keeps to its type.
TypeOK ==
    /\ outcome \in {"not started", "refused", "started"}
    /\ seller.verify \in VerifyModes \cup {None} /\ seller.settle \in SettleModes \cup {None}
    /\ seller.delay \in Nat /\ seller.real \in BOOLEAN
    /\ now \in 0..MaxTime /\ waited \in 0..seller.delay
    /\ phase \in {"idle", "verify", "forward", "settle"}
    /\ reply.status \in {0, 200, 402, 502}
    /\ requests \in 0..MaxRequests

\* What may be deployed at an asset, as a payer finds it: its name and version (None
\* where there is no such token), the payer's spent nonces and its balance.
Contracts == [token : Domains \cup {None}, spent : SUBSET Nonces, balance : Amounts]

\* The contract's own recovery: of v it takes 27 and 28.
ContractRecovers(signature, auth, domain) ==
    IF signature.bytes # 65 \/ signature.v \notin {27, 28} THEN Junk
    ELSE IF signature.v = 27 /\ signature.over = auth /\ signature.under = domain
    THEN signature.signer
    ELSE Stranger

\* transferWithAuthorization at time t, with all the 256 bits of a number, moves the
\* price of the option to the seller.
PaysThePrice(c, o, p, t) ==
    LET a == p.auth
    IN  /\ a.from \in Addresses /\ a.to = o.payTo /\ a.value = o.amount
        /\ a.validAfter \in Nat /\ a.validAfter < t
        /\ a.validBefore \in Nat /\ t < a.validBefore
        /\ a.nonce \in Nonces \ c.spent
        /\ o.amount <= c.balance
        /\ ContractRecovers(p.signature, a,
                [token |-> c.token, chain |-> o.network, contract |-> o.asset]) = a.from

\* A payment that was verified fails on the chain for one of these reasons and no other:
\* the challenge names or versions the token wrongly, the nonce was spent, the balance
\* does not cover the price, or v is written in the convention that only this side takes.
AcceptedFailsOnlyOnChain ==
    verdict.says = "ok" /\ seller.verify = "verify" =>
        LET o == OptionOf(payment)
        IN  \A c \in Contracts :
                PaysThePrice(c, o, payment, verdict.at) <=>
                    /\ c.token = o.domain
                    /\ payment.auth.nonce \notin c.spent
                    /\ o.amount <= c.balance
                    /\ payment.signature.v \in {27, 28}

\* A payment the judge refused is none that the token, as the challenge describes it,
\* would have paid out, but for one: it expires beyond what a u64 holds.
RefusedWouldFail ==
    verdict.says \notin {"none", "ok"} /\ seller.verify = "verify" =>
        LET o == OptionOf(payment)
        IN  \A c \in Contracts :
                c.token = o.domain /\ PaysThePrice(c, o, payment, verdict.at) =>
                    payment.auth.validBefore > MaxU64

\* No client is told its signing is broken by a configuration that is: whatever was
\* let past the guards, a payment made of any challenge as it stands is verified.
HonestIsAccepted ==
    seller.verify = "verify" /\ now \in 1..(MaxU64 - 1) =>
        \A o \in seller.options : \A from \in Payers : \A n \in Nonces :
            Judge(o, Honest(o, from, now - 1, now + 1, n)) = "ok"

\* Who is named as the payer has signed for it.
NamedPayerSigned ==
    reply.receipt.payer \notin {None, NotVerified} =>
        /\ payment.signature.signer = reply.receipt.payer
        /\ payment.signature.over = payment.auth

\* The offline judge and the token contract differ where verify.rs says that they do, and
\* in the two encodings named above; an honest client of the challenge meets neither.
DiffersFromTheChainAsSaid ==
    AcceptedFailsOnlyOnChain /\ RefusedWouldFail /\ HonestIsAccepted /\ NamedPayerSigned

\* Nobody reaches a model on a payment that nothing looked at, unless the operator
\* said so in as many words; and no option of a seller that settles nothing is on a
\* chain where the payment would be worth something, or on none at all.
NothingIsGivenAway ==
    /\ reply.served /\ seller.real /\ seller.verify = "accept" => env.ack = One
    /\ \A o \in seller.options :
            /\ o.network \in EvmTestnets \cup OtherTestnets
            /\ IsEvm(o.network) => o.payTo \in Addresses
            /\ o.payTo # PlaceholderAddress

\* What starts is a seller whose modes are known ones and that its guards let past.  That
\* does not make it safe to expose: one that verifies serves a real model to whoever has
\* a key, for it knows no balance and no nonce (docs/exposure.md).
StartsSafely == TypeOK /\ NothingIsGivenAway

\* Every request gets its reply, whichever way it was told to fail.
EveryRequestIsAnswered == phase = "verify" ~> phase = "idle"
=============================================================================
