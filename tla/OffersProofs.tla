---------------------------- MODULE OffersProofs ----------------------------
(***************************************************************************)
(* What is sent on to the facilitator was offered, what is offered can be  *)
(* paid, and a refusal says what is wrong: for configurations of any       *)
(* length, any extras, and payments with every edit.  The invariant is     *)
(* what the doors leave of a configuration, what the edits leave of a      *)
(* payment, and that the options of a verdict are one.                     *)
(***************************************************************************)
EXTENDS Offers, FiniteSetTheorems, TLAPS

Headers == {"json", "not ascii", "not base64", "not json"}

\* The accepted object of a payment, with what it has that no option has.
IsAccepting(a) ==
    /\ a = [ scheme |-> a.scheme, network |-> a.network, amount |-> a.amount,
             asset |-> a.asset, payTo |-> a.payTo, timeout |-> a.timeout, extra |-> a.extra,
             unknown |-> a.unknown ]
    /\ a.unknown \in BOOLEAN

IsEnvelope(p) ==
    p = [ header |-> p.header, version |-> p.version, accepted |-> p.accepted,
          payload |-> p.payload, extension |-> p.extension ]

IsPayment(p) ==
    /\ IsEnvelope(p)
    /\ p.header \in Headers
    /\ p.accepted \in {Missing, Junk} \/ IsAccepting(p.accepted)

\* Options that could be repriced, and options of which no two are alike.
Sound(o) == o \in OptionSet /\ ~UnsupportedTransfer(o)

Distinct(os) == \A a, b \in os : SameOption(a, b) => a = b

ConfigurationIsSound ==
    /\ \A i \in DOMAIN entries : i \in Nat /\ entries[i] \in Written
    /\ \A o \in options : Sound(o)
    /\ Distinct(options)
    /\ quote \in [Networks -> Amounts]

ClientIsSound ==
    /\ seen \subseteq OptionSet
    /\ client = "waiting" => IsPayment(sent)

ReplyIsSound ==
    /\ reply.outcome \in {"none", "PaymentMalformed", "OptionUnmatched", "verify"}
    /\ reply.options \subseteq OptionSet
    /\ \A a, b \in reply.options : a = b
    /\ PaidAsOffered

BoundsHold ==
    /\ client \in {"away", "asking", "holding", "waiting", "through"}
    /\ reprices \in 0..MaxReprices

IInv == ConfigurationIsSound /\ ClientIsSound /\ ReplyIsSound /\ BoundsHold
-----------------------------------------------------------------------------
(***************************************************************************)
(* The configuration.                                                      *)
(***************************************************************************)

\* What passes the doors is what is said of it.
LEMMA AssembledIsSound ==
    ASSUME ConfigurationIsSound, ~GatewayDefect(Assembled),
           ~\E i \in DOMAIN entries : EntryDefect(entries[i])
    PROVE  LET os == {Assembled[i] : i \in DOMAIN entries}
           IN  (\A o \in os : Sound(o)) /\ Distinct(os)
<1> DEFINE os == {Assembled[i] : i \in DOMAIN entries}
<1>1. /\ DOMAIN Assembled = DOMAIN entries
      /\ \A i \in DOMAIN entries : Assembled[i] = Option(entries[i])
    BY DEF Assembled
<1>2. ASSUME NEW i \in DOMAIN entries
      PROVE  Sound(Assembled[i])
  <2> DEFINE e == entries[i]
  <2>1. e \in EntrySet /\ ~EntryDefect(e)
      BY WrittenAssumption DEF ConfigurationIsSound
  <2>2. /\ e.network \in Networks /\ e.asset \in Assets /\ e.payTo \in Payees
        /\ e.amount \in Amounts /\ e.extra \in Extras /\ ~UnsupportedTransfer(Option(e))
      BY <2>1 DEF EntryDefect, EntrySet
  <2>3. Option(e) \in OptionSet
      BY <2>2 DEF Option, OptionSet
  <2> QED BY <1>1, <2>2, <2>3 DEF Sound
<1>3. ASSUME NEW i \in DOMAIN entries, NEW j \in DOMAIN entries,
             SameOption(Assembled[i], Assembled[j])
      PROVE  i = j
  <2>1. i \in Nat /\ j \in Nat /\ SameOption(Assembled[j], Assembled[i])
      BY <1>3 DEF ConfigurationIsSound, SameOption
  <2>2. ~(i < j) /\ ~(j < i)
      BY <1>1, <1>3, <2>1 DEF GatewayDefect
  <2> QED BY <2>1, <2>2
<1> QED BY <1>2, <1>3 DEF Distinct

\* At whatever price, the options stay what they are.
LEMMA PricedIsSound ==
    ASSUME ConfigurationIsSound
    PROVE  (\A o \in Priced : Sound(o)) /\ Distinct(Priced)
<1>1. ASSUME NEW o \in options
      PROVE  LET q == [o EXCEPT !.amount = quote[o.network]]
             IN  /\ q \in OptionSet /\ q.scheme = o.scheme /\ q.network = o.network
                 /\ q.extra = o.extra
    BY DEF ConfigurationIsSound, Sound, OptionSet
<1>2. ASSUME NEW o \in options
      PROVE  ~UnsupportedTransfer([o EXCEPT !.amount = quote[o.network]])
    BY <1>1 DEF ConfigurationIsSound, Sound, UnsupportedTransfer, DefaultMethod
<1>3. ASSUME NEW a \in options, NEW b \in options,
             SameOption([a EXCEPT !.amount = quote[a.network]],
                        [b EXCEPT !.amount = quote[b.network]])
      PROVE  a = b
    BY <1>1, <1>3 DEF SameOption, ConfigurationIsSound, Distinct
<1> QED BY <1>1, <1>2, <1>3 DEF Priced, Sound, Distinct
-----------------------------------------------------------------------------
(***************************************************************************)
(* The payments.                                                           *)
(***************************************************************************)

LEMMA AcceptingIsRecord ==
    ASSUME NEW o, NEW extra
    PROVE  IsAccepting(Accepting(o, extra))
BY DEF IsAccepting, Accepting

LEMMA EnvelopeIsPayment ==
    ASSUME NEW a, IsAccepting(a)
    PROVE  IsPayment(Envelope(a))
BY DEF IsPayment, IsEnvelope, Envelope, Headers

LEMMA EditsAreRecords ==
    ASSUME NEW a, IsAccepting(a), NEW b \in EditedFields(a)
    PROVE  IsAccepting(b)
BY DEF IsAccepting, EditedFields

LEMMA EnvelopesArePayments ==
    ASSUME NEW a, IsAccepting(a), NEW q \in EditedEnvelopes(Envelope(a))
    PROVE  IsPayment(q)
<1> DEFINE p == Envelope(a)
           Fine(r) == /\ IsEnvelope(r) /\ r.header \in Headers
                      /\ r.accepted \in {a, Missing, Junk}
<1>1. Fine(p)
    BY DEF IsEnvelope, Envelope, Headers
<1>2. \A x \in Headers : Fine([p EXCEPT !.header = x])
    BY DEF IsEnvelope, Envelope
<1>3. \A x : /\ Fine([p EXCEPT !.version = x]) /\ Fine([p EXCEPT !.payload = x])
             /\ Fine([p EXCEPT !.extension = x])
    BY DEF IsEnvelope, Envelope, Headers
<1>4. \A x \in {Missing, Junk} : Fine([p EXCEPT !.accepted = x])
    BY DEF IsEnvelope, Envelope, Headers
<1>5. Fine([p EXCEPT !.version = 1, !.accepted = Missing])
  <2> DEFINE r == [p EXCEPT !.version = 1, !.accepted = Missing]
             R == [ header : {"json"}, version : {1, 2}, accepted : {a, Missing},
                    payload : {"object"}, extension : {"none"} ]
  <2>1. p \in R
      BY DEF Envelope
  <2>2. r \in R
      BY <2>1
  <2>3. \A x \in R : IsEnvelope(x)
    <3> HIDE DEF p, r, Fine
    <3> QED BY DEF IsEnvelope
  <2>4. \A x \in R : x.header \in Headers /\ x.accepted \in {a, Missing, Junk}
      BY DEF Headers
  <2> QED BY <2>2, <2>3, <2>4
<1>6. Fine(q)
  <2> HIDE DEF p, Fine
  <2>1. \/ q = p
        \/ \E x \in Headers : q = [p EXCEPT !.header = x]
        \/ \E x : q = [p EXCEPT !.version = x]
        \/ q = [p EXCEPT !.version = 1, !.accepted = Missing]
        \/ \E x \in {Missing, Junk} : q = [p EXCEPT !.accepted = x]
        \/ \E x : q = [p EXCEPT !.payload = x]
        \/ \E x : q = [p EXCEPT !.extension = x]
    <3>1. q \in EditedEnvelopes(p)
        BY DEF p
    <3> QED BY <3>1 DEF EditedEnvelopes, Headers
  <2> QED BY <1>1, <1>2, <1>3, <1>4, <1>5, <2>1, Zenon
<1> QED BY <1>6 DEF IsPayment

LEMMA WhatIsSentIsAPayment ==
    ASSUME NEW o, Sends(o)
    PROVE  IsPayment(sent')
<1>1. CASE \E p \in HonestPayments(o) : sent' = p
    BY <1>1, AcceptingIsRecord, EnvelopeIsPayment DEF HonestPayments
<1>2. CASE \E extra \in EditedExtras(o) : \E n \in Amounts :
                sent' = Envelope([Accepting(o, extra) EXCEPT !.amount = n])
  <2>1. PICK extra, n : sent' = Envelope([Accepting(o, extra) EXCEPT !.amount = n])
      BY <1>2
  <2>2. IsAccepting([Accepting(o, extra) EXCEPT !.amount = n])
    <3> DEFINE R == [ scheme : {o.scheme}, network : {o.network}, amount : {o.amount, n},
                      asset : {o.asset}, payTo : {o.payTo}, timeout : {o.timeout},
                      extra : {extra}, unknown : BOOLEAN ]
    <3>1. Accepting(o, extra) \in R
        BY DEF Accepting
    <3>2. [Accepting(o, extra) EXCEPT !.amount = n] \in R
        BY <3>1
    <3>3. \A r \in R : IsAccepting(r)
        BY DEF IsAccepting
    <3> QED BY <3>2, <3>3
  <2> QED BY <2>1, <2>2, EnvelopeIsPayment
<1>3. CASE \E extra \in HonestExtras(o) :
                \E a \in EditedFields(Accepting(o, extra)) : sent' = Envelope(a)
    BY <1>3, AcceptingIsRecord, EditsAreRecords, EnvelopeIsPayment
<1>4. CASE \E p \in HonestPayments(o) : \E q \in EditedEnvelopes(p) : sent' = q
    BY <1>4, AcceptingIsRecord, EnvelopesArePayments DEF HonestPayments
<1> QED BY <1>1, <1>2, <1>3, <1>4 DEF Sends
-----------------------------------------------------------------------------
(***************************************************************************)
(* The verdict.                                                            *)
(***************************************************************************)

\* The options of a verdict agree with the payment on what makes them one.
LEMMA JudgedOptions ==
    ASSUME NEW p
    PROVE  /\ Judge(p).outcome \in {"PaymentMalformed", "OptionUnmatched", "verify"}
           /\ Judge(p).options \subseteq Priced
           /\ \A o \in Judge(p).options :
                o.scheme = p.accepted.scheme /\ o.network = p.accepted.network
           /\ Judge(p).outcome = "verify" =>
                /\ DecodeError(p) = "none" /\ Judge(p).options = AcceptedFor(p)
                /\ AcceptedFor(p) # {}
                /\ \A o \in AcceptedFor(p) : TransferAgrees(o, p)
<1>1. \A outcome, hint, os : /\ Verdict(outcome, hint, os).outcome = outcome
                             /\ Verdict(outcome, hint, os).options = os
    BY DEF Verdict
<1>2. AcceptedFor(p) \subseteq Priced /\ RepricedFor(p) \subseteq Priced
    BY DEF AcceptedFor, RepricedFor
<1>3. \A o \in AcceptedFor(p) : o.scheme = p.accepted.scheme /\ o.network = p.accepted.network
    BY DEF AcceptedFor, IsAcceptedBy
<1>4. ASSUME NEW o \in RepricedFor(p)
      PROVE  o.scheme = p.accepted.scheme /\ o.network = p.accepted.network
  <2>1. IsAcceptedBy([o EXCEPT !.amount = p.accepted.amount], p)
      BY DEF RepricedFor
  <2>2. /\ [o EXCEPT !.amount = p.accepted.amount].scheme = o.scheme
        /\ [o EXCEPT !.amount = p.accepted.amount].network = o.network
      OBVIOUS
  <2> QED BY <2>1, <2>2 DEF IsAcceptedBy
<1>5. \/ Judge(p) = Verdict("PaymentMalformed", DecodeError(p), {})
      \/ /\ Judge(p) = Verdict("OptionUnmatched",
                               IF RepricedFor(p) # {} THEN "repriced" ELSE "unmatched",
                               RepricedFor(p))
      \/ Judge(p) = Verdict("OptionUnmatched", "transfer", AcceptedFor(p))
      \/ Judge(p) = Verdict("OptionUnmatched", "extension", AcceptedFor(p))
      \/ /\ Judge(p) = Verdict("verify", "none", AcceptedFor(p))
         /\ DecodeError(p) = "none" /\ AcceptedFor(p) # {}
         /\ \A o \in AcceptedFor(p) : TransferAgrees(o, p)
    BY DEF Judge
<1> QED BY <1>1, <1>2, <1>3, <1>4, <1>5

\* Keys are left out of an object, and what is left is one.
LEMMA WithoutIsObject ==
    ASSUME NEW extra \in Extras, NEW dynamic, IsObject(extra)
    PROVE  IsObject(Without(extra, dynamic))
<1>1. PICK keys \in SUBSET Keys : extra \in [keys -> Values]
    BY ExtrasAssumption DEF IsObject, Objects
<1>2. Without(extra, dynamic) \in [keys \ dynamic -> Values]
    BY <1>1 DEF Without
<1>3. Without(extra, dynamic) \in Objects
    BY <1>2 DEF Objects
<1> QED BY <1>3, ExtrasAssumption DEF IsObject

\* A payment that is accepted names the option, and no other way of paying it.
LEMMA AcceptedIsOffered ==
    ASSUME NEW o, Sound(o), NEW p, IsPayment(p), DecodeError(p) = "none",
           IsAcceptedBy(o, p), TransferAgrees(o, p)
    PROVE  /\ p.accepted = Accepting(o, p.accepted.extra)
           /\ Has(p.accepted.extra, "paymentFlow") =>
                p.accepted.extra.paymentFlow = "authorization"
           /\ Has(p.accepted.extra, "assetTransferMethod") =>
                p.accepted.extra.assetTransferMethod = DefaultMethod(o)
           /\ IsObject(o.extra) => IsObject(p.accepted.extra)
<1> DEFINE a == p.accepted
<1>1. IsAccepting(a)
  <2>1. a # Missing /\ a # Junk
      BY DEF DecodeError, IsPayment, Headers
  <2> QED BY <2>1 DEF IsPayment
<1>2. /\ a.scheme = o.scheme /\ a.network = o.network /\ a.amount = o.amount
      /\ a.asset = o.asset /\ a.payTo = o.payTo /\ a.timeout = o.timeout /\ ~a.unknown
    BY DEF IsAcceptedBy
<1>3. a = Accepting(o, a.extra)
  <2>1. a = [ scheme |-> a.scheme, network |-> a.network, amount |-> a.amount,
              asset |-> a.asset, payTo |-> a.payTo, timeout |-> a.timeout, extra |-> a.extra,
              unknown |-> FALSE ]
      BY <1>1, <1>2 DEF IsAccepting
  <2> HIDE DEF a
  <2> QED BY <1>2, <2>1 DEF Accepting
<1>4. /\ ResolvedFlow(o) = "authorization" /\ ResolvedMethod(o) = DefaultMethod(o)
    BY DEF Sound, UnsupportedTransfer, ResolvedFlow, ResolvedMethod
<1>5. IsObject(o.extra) => IsObject(a.extra)
  <2>1. o.extra # NoExtra =>
            ContainsSubset(Without(o.extra, DynamicFields(o)), Without(a.extra, DynamicFields(o)))
      BY DEF IsAcceptedBy
  <2>2. IsObject(o.extra) => IsObject(Without(o.extra, DynamicFields(o)))
      BY WithoutIsObject DEF Sound, OptionSet
  <2>3. ~IsObject(a.extra) => ~IsObject(Without(a.extra, DynamicFields(o)))
      BY DEF Without
  <2> QED BY <2>1, <2>2, <2>3 DEF ContainsSubset, IsObject
<1> QED BY <1>3, <1>4, <1>5 DEF TransferAgrees
-----------------------------------------------------------------------------
(***************************************************************************)
(* The exchange.                                                           *)
(***************************************************************************)

LEMMA InitHolds == Init => IInv
<1> SUFFICES ASSUME Init PROVE IInv
    OBVIOUS
<1>1. ConfigurationIsSound
  <2>1. PICK n \in 0..MaxEntries :
            entries \in [1..n -> IF payer = "honest" THEN Written ELSE Tampered]
      BY DEF Init
  <2>2. \A i \in DOMAIN entries : i \in Nat /\ entries[i] \in Written
      BY <2>1, WrittenAssumption
  <2> QED BY <2>2 DEF Init, ConfigurationIsSound, Distinct
<1>2. ClientIsSound /\ BoundsHold
    BY BoundsAssumption DEF Init, ClientIsSound, BoundsHold
<1>3. reply.outcome = "none" /\ reply.options = {}
    BY DEF Init, NoVerdict, Verdict
<1>4. ReplyIsSound
    BY <1>3 DEF ReplyIsSound, PaidAsOffered
<1> QED BY <1>1, <1>2, <1>4 DEF IInv

\* What the reply is said to be depends on the reply and the payment alone.
LEMMA ReplyStays ==
    ASSUME ReplyIsSound, UNCHANGED <<reply, sent>>
    PROVE  ReplyIsSound'
BY DEF ReplyIsSound, PaidAsOffered

LEMMA ConfigurationStays ==
    ASSUME ConfigurationIsSound, UNCHANGED <<entries, options, quote>>
    PROVE  ConfigurationIsSound'
BY DEF ConfigurationIsSound

LEMMA ChallengeIsSound ==
    ASSUME ConfigurationIsSound
    PROVE  Challenge \subseteq OptionSet
BY PricedIsSound DEF Challenge, Sound

LEMMA DecisionIsSound ==
    ASSUME IInv, Decide
    PROVE  ReplyIsSound'
<1>1. reply' = Judge(sent) /\ UNCHANGED sent /\ IsPayment(sent)
    BY DEF IInv, Decide, ClientIsSound
<1>2. (\A o \in Priced : Sound(o)) /\ Distinct(Priced)
    BY PricedIsSound DEF IInv
<1>3. /\ reply'.outcome \in {"none", "PaymentMalformed", "OptionUnmatched", "verify"}
      /\ reply'.options \subseteq OptionSet
    BY <1>1, <1>2, JudgedOptions DEF Sound
<1>4. \A a, b \in reply'.options : a = b
    BY <1>1, <1>2, JudgedOptions DEF Distinct, SameOption
<1>5. PaidAsOffered'
  <2> SUFFICES ASSUME Judge(sent).outcome = "verify"
               PROVE  \E o \in Judge(sent).options :
                        /\ sent.accepted = Accepting(o, sent.accepted.extra)
                        /\ LET extra == sent.accepted.extra
                           IN  /\ Has(extra, "paymentFlow") =>
                                        extra.paymentFlow = "authorization"
                               /\ Has(extra, "assetTransferMethod") =>
                                        extra.assetTransferMethod = DefaultMethod(o)
                               /\ IsObject(o.extra) => IsObject(extra)
      BY <1>1 DEF PaidAsOffered
  <2>1. PICK o \in AcceptedFor(sent) : TransferAgrees(o, sent)
      BY JudgedOptions
  <2>2. o \in Priced /\ IsAcceptedBy(o, sent) /\ DecodeError(sent) = "none"
        /\ o \in Judge(sent).options
      BY <2>1, JudgedOptions DEF AcceptedFor
  <2> QED BY <1>1, <1>2, <2>1, <2>2, AcceptedIsOffered
<1> QED BY <1>3, <1>4, <1>5 DEF ReplyIsSound

LEMMA StepHolds == IInv /\ [Next]_vars => IInv'
<1> SUFFICES ASSUME IInv, [Next]_vars PROVE IInv'
    OBVIOUS
<1> USE DEF IInv
<1>1. CASE Boot
  <2>1. ConfigurationIsSound'
      BY <1>1, AssembledIsSound DEF Boot, ConfigurationIsSound
  <2> QED BY <1>1, <2>1, ReplyStays DEF Boot, ClientIsSound, BoundsHold
<1>2. CASE Reprice
  <2>1. quote' \in [Networks -> Amounts]
      BY <1>2 DEF Reprice, ConfigurationIsSound
  <2>2. ConfigurationIsSound'
      BY <1>2, <2>1 DEF Reprice, ConfigurationIsSound
  <2>3. BoundsHold'
      BY <1>2, BoundsAssumption DEF Reprice, BoundsHold
  <2> QED BY <1>2, <2>2, <2>3, ReplyStays DEF Reprice, ClientIsSound
<1>3. CASE Ask
    BY <1>3, ChallengeIsSound, ReplyStays, ConfigurationStays
    DEF Ask, ClientIsSound, BoundsHold
<1>4. CASE Pay
  <2>1. IsPayment(sent')
      BY <1>4, WhatIsSentIsAPayment DEF Pay
  <2>2. reply'.outcome = "none" /\ reply'.options = {}
      BY <1>4 DEF Pay, NoVerdict, Verdict
  <2>3. ReplyIsSound'
      BY <2>2 DEF ReplyIsSound, PaidAsOffered
  <2> QED BY <1>4, <2>1, <2>3, ConfigurationStays DEF Pay, ClientIsSound, BoundsHold
<1>5. CASE Decide
  <2>1. ClientIsSound' /\ BoundsHold'
      BY <1>5, ChallengeIsSound DEF Decide, ClientIsSound, BoundsHold
  <2> QED BY <1>5, <2>1, DecisionIsSound, ConfigurationStays DEF Decide
<1>6. CASE UNCHANGED vars
    BY <1>6, ReplyStays, ConfigurationStays DEF vars, ClientIsSound, BoundsHold
<1> QED BY <1>1, <1>2, <1>3, <1>4, <1>5, <1>6 DEF Next, Exchange

\* At most one option: two that agree are the same, so the set has one member or none.
LEMMA OneAtMost ==
    ASSUME \A a, b \in reply.options : a = b
    PROVE  OneOptionAtMost
<1>1. CASE reply.options = {}
    BY <1>1, FS_EmptySet DEF OneOptionAtMost
<1>2. CASE reply.options # {}
  <2>1. PICK o : reply.options = {o}
      BY <1>2
  <2>2. Cardinality({o}) = 1
      BY FS_Singleton
  <2> QED BY <2>1, <2>2 DEF OneOptionAtMost
<1> QED BY <1>1, <1>2

\* Whatever an operator configures and a client edits, what leaves for the facilitator
\* is a payment for one option of the gateway's at the price of that moment, by no way
\* or time of paying but its own (is_accepted_by and transfer_disagreement in x402/v2.rs).
THEOREM PaymentsAreOffers == Spec => []PaymentsMatchOffers
<1>1. IInv => PaymentsMatchOffers
  <2>1. IInv => TypeOK
      BY DEF IInv, TypeOK, ConfigurationIsSound, ClientIsSound, ReplyIsSound, BoundsHold, Sound
  <2> QED BY <2>1, OneAtMost DEF IInv, ReplyIsSound, PaymentsMatchOffers
<1> QED BY <1>1, InitHolds, StepHolds, PTL DEF Spec
-----------------------------------------------------------------------------
(***************************************************************************)
(* The way back: what is offered can be paid.                              *)
(***************************************************************************)

\* One key more, or another value of it, and the rest as it was.
Extends(after, extra, key, value) ==
    /\ after \in Objects /\ IsObject(after)
    /\ DOMAIN after = (IF IsObject(extra) THEN DOMAIN extra ELSE {}) \cup {key}
    /\ after[key] = value
    /\ \A k \in DOMAIN extra \ {key} : IsObject(extra) => after[k] = extra[k]

LEMMA ExtendedIsObject ==
    ASSUME NEW extra \in Objects \cup {NoExtra}, NEW key \in Keys, NEW value \in Values,
           NEW after, after = Extended(extra, key, value)
    PROVE  Extends(after, extra, key, value)
<1> DEFINE before == IF IsObject(extra) THEN DOMAIN extra ELSE {}
<1>1. before \subseteq Keys /\ \A k \in before : extra[k] \in Values
    BY DEF IsObject, Objects
<1>2. after = [k \in before \cup {key} |-> IF k = key THEN value ELSE extra[k]]
    BY DEF Extended
<1>3. after \in [before \cup {key} -> Values]
    BY <1>1, <1>2
<1>4. after \in Objects
    BY <1>1, <1>3 DEF Objects
<1> QED BY <1>2, <1>4, ExtrasAssumption DEF IsObject, Extends

\* What an honest client makes of extra: what was offered, and one key more at most,
\* which is its own to fill in or says what the option resolves to.
LEMMA HonestExtrasAgree ==
    ASSUME NEW o, Sound(o), NEW extra \in HonestExtras(o)
    PROVE  /\ extra \in Objects \cup {NoExtra}
           /\ o.extra # NoExtra =>
                ContainsSubset(Without(o.extra, DynamicFields(o)),
                               Without(extra, DynamicFields(o)))
           /\ Has(extra, "assetTransferMethod") =>
                extra.assetTransferMethod = ResolvedMethod(o)
           /\ Has(extra, "paymentFlow") => extra.paymentFlow = ResolvedFlow(o)
<1>1. o.extra \in Objects \cup {NoExtra} /\ o.scheme = "exact" /\ ~UnsupportedTransfer(o)
    BY ExtrasAssumption DEF Sound, OptionSet
<1>2. ResolvedFlow(o) = "authorization" /\ ResolvedMethod(o) = DefaultMethod(o)
    BY DEF Sound, UnsupportedTransfer, ResolvedFlow, ResolvedMethod
<1>3. /\ Has(o.extra, "assetTransferMethod") =>
            o.extra.assetTransferMethod = ResolvedMethod(o)
      /\ Has(o.extra, "paymentFlow") => o.extra.paymentFlow = ResolvedFlow(o)
    BY <1>1, <1>2 DEF UnsupportedTransfer
<1>4. ASSUME o.extra # NoExtra
      PROVE  o.extra \in Objects /\ IsObject(o.extra) /\ o.extra \in Extras
    BY <1>1, <1>4, ExtrasAssumption DEF IsObject, Sound, OptionSet
<1>5. CASE extra = o.extra
  <2>1. o.extra # NoExtra => IsObject(Without(o.extra, DynamicFields(o)))
      BY <1>4, WithoutIsObject
  <2>2. o.extra # NoExtra =>
            ContainsSubset(Without(o.extra, DynamicFields(o)),
                           Without(o.extra, DynamicFields(o)))
      BY <2>1 DEF ContainsSubset
  <2> QED BY <1>1, <1>3, <1>5, <2>2
<1>6. ASSUME NEW key \in Keys, NEW value \in Values, extra = Extended(o.extra, key, value),
             key \in DynamicFields(o)
                \/ (key = "paymentFlow" /\ value = "authorization")
                \/ (key = "assetTransferMethod" /\ value = DefaultMethod(o)),
             key \notin DynamicFields(o) => key \in {"paymentFlow", "assetTransferMethod"}
      PROVE  /\ extra \in Objects \cup {NoExtra}
             /\ o.extra # NoExtra =>
                    ContainsSubset(Without(o.extra, DynamicFields(o)),
                                   Without(extra, DynamicFields(o)))
             /\ Has(extra, "assetTransferMethod") =>
                    extra.assetTransferMethod = ResolvedMethod(o)
             /\ Has(extra, "paymentFlow") => extra.paymentFlow = ResolvedFlow(o)
  <2>1. /\ extra \in Objects /\ IsObject(extra)
        /\ DOMAIN extra = (IF IsObject(o.extra) THEN DOMAIN o.extra ELSE {}) \cup {key}
        /\ extra[key] = value
        /\ \A k \in DOMAIN o.extra \ {key} : IsObject(o.extra) => extra[k] = o.extra[k]
    <3>1. Extends(extra, o.extra, key, value)
        BY <1>1, <1>6, ExtendedIsObject
    <3> QED BY <3>1 DEF Extends
  <2>2. DynamicFields(o) \subseteq {"recentBlockhash"}
      BY DEF DynamicFields
  <2>3. Has(extra, "assetTransferMethod") => extra.assetTransferMethod = ResolvedMethod(o)
      BY <1>2, <1>3, <1>6, <2>1, <2>2 DEF Has
  <2>4. Has(extra, "paymentFlow") => extra.paymentFlow = ResolvedFlow(o)
      BY <1>2, <1>3, <1>6, <2>1, <2>2 DEF Has
  <2>5. ASSUME o.extra # NoExtra
        PROVE  ContainsSubset(Without(o.extra, DynamicFields(o)),
                              Without(extra, DynamicFields(o)))
    <3> DEFINE kept == Without(o.extra, DynamicFields(o))
               sentBack == Without(extra, DynamicFields(o))
    <3>1. IsObject(o.extra) /\ IsObject(kept)
        BY <1>4, <2>5, WithoutIsObject
    <3>2. IsObject(sentBack)
      <4>1. PICK keys \in SUBSET Keys : extra \in [keys -> Values]
          BY <2>1 DEF Objects
      <4>2. sentBack \in [keys \ DynamicFields(o) -> Values]
          BY <2>1, <4>1 DEF Without
      <4>3. sentBack \in Objects
          BY <4>2 DEF Objects
      <4> QED BY <4>3, ExtrasAssumption DEF IsObject
    <3>3. /\ kept = [k \in DOMAIN o.extra \ DynamicFields(o) |-> o.extra[k]]
          /\ sentBack = [k \in DOMAIN extra \ DynamicFields(o) |-> extra[k]]
        BY <2>1, <3>1 DEF Without
    <3>4. ASSUME NEW k \in DOMAIN kept
          PROVE  k \in DOMAIN sentBack /\ sentBack[k] = kept[k]
      <4>1. k \in DOMAIN o.extra /\ k \notin DynamicFields(o) /\ kept[k] = o.extra[k]
          BY <3>3
      <4>2. k \in DOMAIN extra /\ sentBack[k] = extra[k] /\ k \in DOMAIN sentBack
          BY <2>1, <3>1, <3>3, <4>1
      <4>3. CASE k = key
        <5>1. \/ key = "paymentFlow" /\ value = "authorization"
              \/ key = "assetTransferMethod" /\ value = DefaultMethod(o)
            BY <1>6, <4>1, <4>3
        <5>2. k = "paymentFlow" => o.extra[k] = "authorization"
            BY <1>2, <1>3, <3>1, <4>1 DEF Has
        <5>3. k = "assetTransferMethod" => o.extra[k] = DefaultMethod(o)
            BY <1>2, <1>3, <3>1, <4>1 DEF Has
        <5> QED BY <2>1, <4>1, <4>2, <4>3, <5>1, <5>2, <5>3
      <4>4. CASE k # key
          BY <2>1, <4>1, <4>2, <4>4
      <4> QED BY <4>3, <4>4
    <3> HIDE DEF kept, sentBack
    <3>5. ContainsSubset(kept, sentBack)
        BY <3>1, <3>2, <3>4 DEF ContainsSubset
    <3> QED BY <3>5 DEF kept, sentBack
  <2> QED BY <2>1, <2>3, <2>4, <2>5
<1>7. CASE \E key \in ClientFills(o) : extra = Extended(o.extra, key, "fresh")
  <2>1. PICK key \in ClientFills(o) : extra = Extended(o.extra, key, "fresh")
      BY <1>7
  <2>3. o.network \in Solana /\ key = "recentBlockhash"
      BY <2>1 DEF ClientFills
  <2>2. key \in DynamicFields(o) /\ key \in Keys /\ "fresh" \in Values
      BY <1>1, <2>3 DEF DynamicFields, Keys, Values, Texts
  <2> QED BY <1>6, <2>1, <2>2
<1>8. CASE extra = Extended(o.extra, "paymentFlow", "authorization")
    BY <1>6, <1>8 DEF Keys, Values, Texts
<1>9. CASE /\ DefaultMethod(o) # None
           /\ extra = Extended(o.extra, "assetTransferMethod", DefaultMethod(o))
  <2>1. DefaultMethod(o) \in Values
      BY <1>9 DEF DefaultMethod, Values, Texts
  <2> QED BY <1>6, <1>9, <2>1 DEF Keys
<1> QED BY <1>5, <1>7, <1>8, <1>9 DEF HonestExtras

\* An honest payment decodes.
LEMMA HonestDecodes ==
    ASSUME NEW o, Sound(o), NEW extra \in Objects \cup {NoExtra}
    PROVE  DecodeError(Envelope(Accepting(o, extra))) = "none"
<1>1. Accepting(o, extra) \in [ scheme : {"exact"}, network : Networks, amount : Amounts,
                                asset : Assets, payTo : Payees, timeout : {Window},
                                extra : Objects \cup {NoExtra}, unknown : {FALSE} ]
    BY DEF Sound, OptionSet, Accepting
<1>2. Accepting(o, extra) \notin {Missing, Junk}
    BY <1>1, NullsAssumption
<1> QED BY <1>2 DEF DecodeError, Envelope

LEMMA OffersArePayable ==
    ASSUME ConfigurationIsSound
    PROVE  EveryOfferIsPayable
<1> SUFFICES ASSUME NEW o \in Priced, NEW extra \in HonestExtras(o)
             PROVE  Judge(Envelope(Accepting(o, extra))) = Verdict("verify", "none", {o})
    BY DEF EveryOfferIsPayable, HonestPayments
<1> DEFINE p == Envelope(Accepting(o, extra))
<1>1. Sound(o) /\ Distinct(Priced)
    BY PricedIsSound
<1>2. /\ extra \in Objects \cup {NoExtra}
      /\ o.extra # NoExtra =>
            ContainsSubset(Without(o.extra, DynamicFields(o)), Without(extra, DynamicFields(o)))
      /\ Has(extra, "assetTransferMethod") => extra.assetTransferMethod = ResolvedMethod(o)
      /\ Has(extra, "paymentFlow") => extra.paymentFlow = ResolvedFlow(o)
    BY <1>1, HonestExtrasAgree
<1>3. DecodeError(p) = "none"
    BY <1>1, <1>2, HonestDecodes
<1>4. /\ p.accepted = Accepting(o, extra) /\ p.extension = "none"
      /\ p.accepted.extra = extra /\ p.accepted.unknown = FALSE
      /\ \A f \in {"scheme", "network", "amount", "asset", "payTo", "timeout"} :
            p.accepted[f] = o[f]
    BY DEF Envelope, Accepting
<1> HIDE DEF p
<1>5. IsAcceptedBy(o, p) /\ TransferAgrees(o, p)
    BY <1>2, <1>4 DEF IsAcceptedBy, TransferAgrees
<1>6. AcceptedFor(p) = {o}
  <2>1. ASSUME NEW q \in AcceptedFor(p)
        PROVE  q = o
    <3>1. q \in Priced /\ q.scheme = o.scheme /\ q.network = o.network
        BY <1>4 DEF AcceptedFor, IsAcceptedBy
    <3> QED BY <1>1, <3>1 DEF Distinct, SameOption
  <2> QED BY <1>5, <2>1 DEF AcceptedFor
<1>7. Judge(p) = Verdict("verify", "none", {o})
    BY <1>3, <1>4, <1>5, <1>6 DEF Judge
<1> QED BY <1>7 DEF p
-----------------------------------------------------------------------------
(***************************************************************************)
(* The hints.                                                              *)
(***************************************************************************)

\* A payment of the price asked for now, and one of the price that was asked.
LEMMA AmountApart ==
    ASSUME NEW o, o \in OptionSet, NEW p, IsAccepting(p.accepted), IsEnvelope(p)
    PROVE  IsAcceptedBy([o EXCEPT !.amount = p.accepted.amount], p)
                <=> IsAcceptedBy(o, [p EXCEPT !.accepted.amount = o.amount])
<1> DEFINE a == p.accepted
           asked == [o EXCEPT !.amount = a.amount]
           now == [p EXCEPT !.accepted.amount = o.amount]
<1>1. /\ asked.scheme = o.scheme /\ asked.network = o.network /\ asked.amount = a.amount
      /\ asked.asset = o.asset /\ asked.payTo = o.payTo /\ asked.timeout = o.timeout
      /\ asked.extra = o.extra
    BY DEF OptionSet
<1>2. now.accepted = [a EXCEPT !.amount = o.amount]
    BY DEF IsEnvelope
<1>3. /\ now.accepted.scheme = a.scheme /\ now.accepted.network = a.network
      /\ now.accepted.amount = o.amount /\ now.accepted.asset = a.asset
      /\ now.accepted.payTo = a.payTo /\ now.accepted.timeout = a.timeout
      /\ now.accepted.extra = a.extra /\ now.accepted.unknown = a.unknown
    BY <1>2 DEF IsAccepting
<1>4. DynamicFields(asked) = DynamicFields(o)
    BY <1>1 DEF DynamicFields
<1> HIDE DEF asked, now
<1>5. IsAcceptedBy(asked, p) <=> IsAcceptedBy(o, now)
    BY <1>1, <1>3, <1>4 DEF IsAcceptedBy
<1> QED BY <1>5 DEF asked, now

\* A hint is of a decision: before the first, and from the next payment on, there is none.
HintInv ==
    /\ client \in {"away", "asking"} => reply.hint = "none"
    /\ HintsAreTrue

LEMMA DecisionsHintTruly ==
    ASSUME IInv, Decide
    PROVE  HintInv'
<1>1. reply' = Judge(sent) /\ UNCHANGED sent /\ IsPayment(sent)
    BY DEF IInv, Decide, ClientIsSound
<1>2. client' \in {"holding", "through"} /\ (client' = "holding" => seen' = Priced)
    BY DEF Decide, Challenge
<1>3. \A o \in Priced : o \in OptionSet
    BY PricedIsSound DEF IInv, Sound
<1>4. ASSUME Judge(sent).hint \in {"repriced", "unmatched"}
      PROVE  /\ Judge(sent).options = RepricedFor(sent)
             /\ Judge(sent).hint = "repriced" <=> RepricedFor(sent) # {}
             /\ IsAccepting(sent.accepted)
  <2>1. \A outcome, hint, os : /\ Verdict(outcome, hint, os).hint = hint
                               /\ Verdict(outcome, hint, os).options = os
      BY DEF Verdict
  <2>2. DecodeError(sent) \notin {"repriced", "unmatched"}
      BY <1>1 DEF DecodeError, IsPayment, Headers
  <2>3. /\ DecodeError(sent) = "none"
        /\ Judge(sent) = Verdict("OptionUnmatched",
                                 IF RepricedFor(sent) # {} THEN "repriced" ELSE "unmatched",
                                 RepricedFor(sent))
    <3>1. \/ Judge(sent) = Verdict("PaymentMalformed", DecodeError(sent), {})
          \/ /\ DecodeError(sent) = "none"
             /\ Judge(sent) = Verdict("OptionUnmatched",
                                      IF RepricedFor(sent) # {} THEN "repriced" ELSE "unmatched",
                                      RepricedFor(sent))
          \/ Judge(sent) = Verdict("OptionUnmatched", "transfer", AcceptedFor(sent))
          \/ Judge(sent) = Verdict("OptionUnmatched", "extension", AcceptedFor(sent))
          \/ Judge(sent) = Verdict("verify", "none", AcceptedFor(sent))
        BY DEF Judge
    <3> QED BY <1>4, <2>1, <2>2, <3>1
  <2>4. sent.accepted \notin {Missing, Junk}
      BY <1>1, <2>3 DEF DecodeError, IsPayment, Headers
  <2> QED BY <1>1, <2>1, <2>3, <2>4 DEF IsPayment
<1>5. ASSUME IsAccepting(sent.accepted), NEW o \in Priced
      PROVE  o \in RepricedFor(sent)
                <=> IsAcceptedBy(o, [sent EXCEPT !.accepted.amount = o.amount])
    BY <1>1, <1>3, <1>5, AmountApart DEF RepricedFor, IsPayment
<1>6. HintsAreTrue'
    BY <1>1, <1>2, <1>4, <1>5 DEF HintsAreTrue, RepricedFor
<1> QED BY <1>2, <1>6 DEF HintInv

LEMMA HintsHold == IInv /\ HintInv /\ [Next]_vars => HintInv'
<1> SUFFICES ASSUME IInv, HintInv, [Next]_vars PROVE HintInv'
    OBVIOUS
<1>1. CASE Boot
    BY <1>1 DEF Boot, HintInv, HintsAreTrue
<1>2. CASE Reprice
    BY <1>2 DEF Reprice, HintInv, HintsAreTrue
<1>3. CASE Ask
    BY <1>3 DEF Ask, HintInv, HintsAreTrue
<1>4. CASE Pay
    BY <1>4 DEF Pay, HintInv, HintsAreTrue
<1>5. CASE Decide
    BY <1>5, DecisionsHintTruly
<1>6. CASE UNCHANGED vars
    BY <1>6 DEF vars, HintInv, HintsAreTrue
<1> QED BY <1>1, <1>2, <1>3, <1>4, <1>5, <1>6 DEF Next, Exchange

\* Whatever passed the doors, each option can be paid by a client that takes it as given;
\* and a payer told of a price needs that price alone, one told that nothing matches is
\* not helped by any (accepted_for, repriced_for and transfer_disagreement).
THEOREM OffersCanBePaid == Spec => []ChallengesCanBeMet
<1>1. Init => HintInv
    BY DEF Init, NoVerdict, Verdict, HintInv, HintsAreTrue
<1>2. IInv /\ HintInv => ChallengesCanBeMet
    BY OffersArePayable DEF IInv, HintInv, ChallengesCanBeMet
<1> QED BY <1>1, <1>2, InitHolds, StepHolds, HintsHold, PTL DEF Spec
-----------------------------------------------------------------------------
(***************************************************************************)
(* What Gateway makes of the same payment.                                 *)
(***************************************************************************)

\* The handler as Gateway has it: its options are networks, its payments are those
\* held, signed says for which offer each of them was signed.
Booth(nets, held, signed) ==
    INSTANCE Gateway WITH
        Requests <- {}, Payments <- held, Options <- nets, Quotes <- [nets -> Nat],
        Accepted <- signed, Forms <- {}, Window <- [n \in nets |-> Window],
        FacilitatorTimeout <- 1, HeadTimeout <- 1, ModelRatesRequired <- TRUE,
        Malformed <- Junk, None <- Missing,
        pc <- None, payment <- None, trace <- None, answer <- None, response <- None,
        event <- None, age <- None, wait <- None, prices <- None, forwarded <- None,
        flying <- None, ledger <- None

Nets == {o.network : o \in options}

\* The offer a payment names.  Gateway has none for what nobody advertises: such a
\* payment stands beside any offer and agrees with none.
Names(p) == p.accepted.network \in Nets /\ p.accepted.amount \in Nat

SignedFor(p) ==
    IF Names(p) THEN [option |-> p.accepted.network, amount |-> p.accepted.amount]
    ELSE [option |-> CHOOSE n \in Nets : TRUE, amount |-> 0]

\* Everything that is compared, apart from which option it is and its amount.
Agrees(p) ==
    /\ DecodeError(p) = "none" /\ Names(p)
    /\ \E o \in options :
            /\ IsAcceptedBy([o EXCEPT !.amount = p.accepted.amount], p)
            /\ TransferAgrees(o, p)
    /\ p.extension \notin {"server's, in info", "server's"}

\* A request that is let through to the payment, with this one.
FormOf(p) ==
    [ ambiguous |-> FALSE, routed |-> TRUE, bearer |-> "none", bounded |-> TRUE,
      rated |-> TRUE, payment |-> IF DecodeError(p) = "none" THEN p ELSE Junk,
      agrees |-> Agrees(p) ]

List == [n \in Nets |-> quote[n]]

Holdable(p) == IsPayment(p) /\ DecodeError(p) = "none"

SameOutcome(nets, held, signed, list, p) ==
    Booth(nets, held, signed)!Screen(FormOf(p), Booth(nets, held, signed)!Priced(list)) =
        IF Judge(p).outcome = "verify" THEN "verifying" ELSE Judge(p).outcome

SameOffer(nets, held, signed, list, p) ==
    Booth(nets, held, signed)!Screen(FormOf(p), Booth(nets, held, signed)!Priced(list))
            = "verifying" =>
        \A o \in Judge(p).options :
            Booth(nets, held, signed)!ScreenedTrace(
                FormOf(p), Booth(nets, held, signed)!Priced(list)).paid =
                    [option |-> o.network, amount |-> o.amount]

\* Whatever payments there are, Gateway's assumptions on payments, offers and price
\* lists hold of the gateway configured here, and its handler screens each payment as
\* this one judges it, and would charge the offer that this one matched.
GatewayScreensAlike ==
    \A nets, held, signed, list :
        /\ nets = Nets /\ nets # {} /\ list = List
        /\ \A p \in held : Holdable(p)
        /\ {Junk, Missing} \cap held = {}
        /\ signed = [p \in held |-> SignedFor(p)]
        => /\ list \in [nets -> Nat]
           /\ signed \in [held -> Booth(nets, held, signed)!Offers]
           /\ \A p : (p \in held \/ (IsPayment(p) /\ DecodeError(p) # "none")) =>
                /\ FormOf(p) \in Booth(nets, held, signed)!FormSet
                /\ SameOutcome(nets, held, signed, list, p)
                /\ SameOffer(nets, held, signed, list, p)

LEMMA AmountAside ==
    ASSUME NEW a \in OptionSet, NEW x, NEW o, o = [a EXCEPT !.amount = x]
    PROVE  /\ o.scheme = a.scheme /\ o.network = a.network /\ o.extra = a.extra
           /\ o.amount = x
           /\ \A p : TransferAgrees(o, p) <=> TransferAgrees(a, p)
<1>1. /\ o.scheme = a.scheme /\ o.network = a.network /\ o.extra = a.extra
      /\ o.amount = x
    BY DEF OptionSet
<1>2. ResolvedMethod(o) = ResolvedMethod(a) /\ ResolvedFlow(o) = ResolvedFlow(a)
    BY ONLY <1>1 DEF ResolvedMethod, ResolvedFlow, DefaultMethod
<1>3. \A p : TransferAgrees(o, p) <=> TransferAgrees(a, p)
    BY ONLY <1>2 DEF TransferAgrees
<1> QED BY <1>1, <1>3

LEMMA AcceptedSays ==
    ASSUME NEW o, NEW p, IsAcceptedBy(o, p)
    PROVE  p.accepted.network = o.network /\ p.accepted.amount = o.amount
BY DEF IsAcceptedBy

\* A payment that matches an option at its price names that option and that price.
LEMMA MatchIsNamed ==
    ASSUME ConfigurationIsSound, NEW p, NEW o \in AcceptedFor(p)
    PROVE  \E a \in options :
              /\ o = [a EXCEPT !.amount = quote[a.network]]
              /\ o = [a EXCEPT !.amount = p.accepted.amount]
              /\ a \in OptionSet /\ a.network \in Nets
              /\ p.accepted.network = a.network /\ p.accepted.amount = quote[a.network]
              /\ Names(p)
<1>1. PICK a \in options : o = [a EXCEPT !.amount = quote[a.network]]
    BY DEF AcceptedFor, Priced
<1>2. a \in OptionSet /\ a.network \in Nets /\ a.network \in Networks
    BY DEF ConfigurationIsSound, Sound, Nets, OptionSet
<1>3. o.network = a.network /\ o.amount = quote[a.network]
    BY <1>1, <1>2, AmountAside
<1>4. p.accepted.network = o.network /\ p.accepted.amount = o.amount
    BY AcceptedSays DEF AcceptedFor
<1>5. quote[a.network] \in Nat
    BY <1>2, AmountsAssumption DEF ConfigurationIsSound
<1>6. Names(p)
    BY <1>2, <1>3, <1>4, <1>5 DEF Names
<1> QED BY <1>1, <1>2, <1>3, <1>4, <1>6

\* No two options match one payment.
LEMMA MatchIsAlone ==
    ASSUME ConfigurationIsSound, NEW p, NEW o \in AcceptedFor(p), NEW q \in AcceptedFor(p)
    PROVE  o = q
<1>1. /\ o.scheme = p.accepted.scheme /\ q.scheme = p.accepted.scheme
      /\ o.network = p.accepted.network /\ q.network = p.accepted.network
    BY DEF AcceptedFor, IsAcceptedBy
<1>2. o \in Priced /\ q \in Priced
    BY DEF AcceptedFor
<1> QED BY <1>1, <1>2, PricedIsSound DEF Distinct, SameOption

\* The verdict, in the terms of a Form: an offer that is the one named, and agreement.
LEMMA VerdictByForm ==
    ASSUME ConfigurationIsSound, NEW p, DecodeError(p) = "none"
    PROVE  /\ Judge(p).outcome \in {"OptionUnmatched", "verify"}
           /\ Judge(p).outcome = "verify" <=>
                  /\ Names(p) /\ quote[p.accepted.network] = p.accepted.amount
                  /\ Agrees(p)
           /\ Judge(p).outcome = "verify" =>
                  \A o \in Judge(p).options :
                      o.network = p.accepted.network /\ o.amount = p.accepted.amount
<1>1. /\ Judge(p).outcome \in {"OptionUnmatched", "verify"}
      /\ Judge(p).outcome = "verify" <=>
             /\ AcceptedFor(p) # {}
             /\ ~\E o \in AcceptedFor(p) : ~TransferAgrees(o, p)
             /\ p.extension \notin {"server's, in info", "server's"}
      /\ Judge(p).outcome = "verify" => Judge(p).options = AcceptedFor(p)
    BY DEF Judge, Verdict
<1>2. ASSUME Judge(p).outcome = "verify"
      PROVE  Names(p) /\ quote[p.accepted.network] = p.accepted.amount /\ Agrees(p)
  <2>1. PICK o \in AcceptedFor(p) : TransferAgrees(o, p)
      BY <1>1, <1>2
  <2>2. PICK a \in options :
              /\ o = [a EXCEPT !.amount = p.accepted.amount]
              /\ a \in OptionSet
              /\ p.accepted.network = a.network /\ p.accepted.amount = quote[a.network]
              /\ Names(p)
      BY MatchIsNamed
  <2>3. IsAcceptedBy([a EXCEPT !.amount = p.accepted.amount], p)
      BY <2>2 DEF AcceptedFor
  <2>4. TransferAgrees(a, p)
      BY <2>1, <2>2, AmountAside
  <2>5. Agrees(p)
      BY <1>1, <1>2, <2>2, <2>3, <2>4 DEF Agrees
  <2> QED BY <2>2, <2>5
<1>3. ASSUME Names(p), quote[p.accepted.network] = p.accepted.amount, Agrees(p)
      PROVE  Judge(p).outcome = "verify"
  <2>1. PICK a \in options :
              /\ IsAcceptedBy([a EXCEPT !.amount = p.accepted.amount], p)
              /\ TransferAgrees(a, p)
      BY <1>3 DEF Agrees
  <2> DEFINE o == [a EXCEPT !.amount = p.accepted.amount]
  <2>2. a \in OptionSet
      BY DEF ConfigurationIsSound, Sound
  <2>3. p.accepted.network = a.network
    <3>1. o.network = a.network
        BY <2>2, AmountAside
    <3>2. IsAcceptedBy(o, p)
        BY <2>1
    <3> HIDE DEF o
    <3> QED BY <3>1, <3>2, AcceptedSays
  <2>4. o = [a EXCEPT !.amount = quote[a.network]]
      BY <1>3, <2>3
  <2>5. o \in AcceptedFor(p)
      BY <2>1, <2>4 DEF AcceptedFor, Priced
  <2>6. TransferAgrees(o, p)
      BY <2>1, <2>2, AmountAside
  <2>7. p.extension \notin {"server's, in info", "server's"}
      BY <1>3 DEF Agrees
  <2> HIDE DEF o
  <2>8. \A q \in AcceptedFor(p) : TransferAgrees(q, p)
    <3>1. SUFFICES ASSUME NEW q \in AcceptedFor(p) PROVE TransferAgrees(q, p)
        OBVIOUS
    <3>2. q = o
        BY <2>5, <3>1, MatchIsAlone
    <3> QED BY <2>6, <3>2
  <2> QED BY <1>1, <2>5, <2>7, <2>8
<1>4. ASSUME NEW o \in AcceptedFor(p)
      PROVE  o.network = p.accepted.network /\ o.amount = p.accepted.amount
    BY AcceptedSays DEF AcceptedFor
<1> QED BY <1>1, <1>2, <1>3, <1>4

\* The handler of Gateway, on a payment of which it knows what a Form says.
LEMMA ScreenByForm ==
    ASSUME NEW nets, NEW held, NEW signed, NEW list, NEW p,
           nets = Nets, nets # {}, list = List, signed = [q \in held |-> SignedFor(q)],
           {Junk, Missing} \cap held = {}, DecodeError(p) = "none", p \in held
    PROVE  LET offered == Booth(nets, held, signed)!Priced(list)
               screen == Booth(nets, held, signed)!Screen(FormOf(p), offered)
           IN  /\ screen \in {"OptionUnmatched", "verifying"}
               /\ screen = "verifying" <=>
                      /\ Names(p) /\ quote[p.accepted.network] = p.accepted.amount
                      /\ Agrees(p)
               /\ screen = "verifying" =>
                      Booth(nets, held, signed)!ScreenedTrace(FormOf(p), offered).paid =
                          [option |-> p.accepted.network, amount |-> p.accepted.amount]
<1> DEFINE offered == Booth(nets, held, signed)!Priced(list)
           screen == Booth(nets, held, signed)!Screen(FormOf(p), offered)
           matched == Booth(nets, held, signed)!AcceptedFor(offered, p)
<1>1. offered = {[option |-> n, amount |-> list[n]] : n \in nets}
    BY DEF Booth!Priced
<1>2. matched = {o \in offered : o = SignedFor(p)}
    BY DEF Booth!AcceptedFor
<1> HIDE DEF offered
<1>3. matched # {} /\ Agrees(p) <=>
          Names(p) /\ quote[p.accepted.network] = p.accepted.amount /\ Agrees(p)
  <2>1. ASSUME Names(p)
        PROVE  matched # {} <=> quote[p.accepted.network] = p.accepted.amount
    <3>1. SignedFor(p) = [option |-> p.accepted.network, amount |-> p.accepted.amount]
        BY <2>1 DEF SignedFor
    <3>2. p.accepted.network \in nets
        BY <2>1 DEF Names
    <3>3. \A n \in nets : list[n] = quote[n]
        BY DEF List
    <3>4. matched # {} <=> \E n \in nets : [option |-> n, amount |-> list[n]] = SignedFor(p)
        BY <1>1, <1>2
    <3>5. ASSUME NEW n \in nets, [option |-> n, amount |-> list[n]] = SignedFor(p)
          PROVE  quote[p.accepted.network] = p.accepted.amount
        BY <3>1, <3>3, <3>5
    <3>6. ASSUME quote[p.accepted.network] = p.accepted.amount
          PROVE  \E n \in nets : [option |-> n, amount |-> list[n]] = SignedFor(p)
      <4>1. list[p.accepted.network] = p.accepted.amount
          BY <3>2, <3>3, <3>6
      <4> QED BY <3>1, <3>2, <4>1
    <3> QED BY <3>4, <3>5, <3>6
  <2>2. Agrees(p) => Names(p)
      BY DEF Agrees
  <2> QED BY <2>1, <2>2
<1>4. screen = IF matched = {} \/ ~Agrees(p) THEN "OptionUnmatched" ELSE "verifying"
  <2>1. /\ FormOf(p).ambiguous = FALSE /\ FormOf(p).routed = TRUE
        /\ FormOf(p).bearer = "none" /\ FormOf(p).bounded = TRUE
        /\ FormOf(p).rated = TRUE /\ FormOf(p).payment = p
        /\ FormOf(p).agrees = Agrees(p)
      BY DEF FormOf
  <2>2. p # Missing /\ p # Junk
      OBVIOUS
  <2> HIDE DEF matched
  <2>3. matched = Booth(nets, held, signed)!AcceptedFor(offered, p)
      BY DEF matched
  <2> QED BY <2>1, <2>2, <2>3 DEF Booth!Screen
<1>5. ASSUME screen = "verifying"
      PROVE  Booth(nets, held, signed)!ScreenedTrace(FormOf(p), offered).paid =
                 [option |-> p.accepted.network, amount |-> p.accepted.amount]
  <2>1. matched # {} /\ Names(p)
      BY <1>4, <1>5 DEF Agrees
  <2>2. FormOf(p).payment = p
      BY DEF FormOf
  <2>3. Booth(nets, held, signed)!ScreenedTrace(FormOf(p), offered).paid =
            CHOOSE o \in matched : TRUE
      BY <1>5, <2>2 DEF Booth!ScreenedTrace
  <2>4. (CHOOSE o \in matched : TRUE) \in matched
    <3> HIDE DEF matched
    <3> QED BY <2>1
  <2>5. (CHOOSE o \in matched : TRUE) = SignedFor(p)
      BY <1>2, <2>4
  <2> QED BY <2>1, <2>3, <2>5 DEF SignedFor
<1> HIDE DEF screen, matched
<1>6. /\ screen \in {"OptionUnmatched", "verifying"}
      /\ screen = "verifying" <=> matched # {} /\ Agrees(p)
    BY <1>4
<1> QED BY <1>3, <1>5, <1>6 DEF screen, offered

AtMost(S, n) == IsFiniteSet(S) /\ Cardinality(S) <= n

With(S, x) == S \cup {x}

LEMMA OneMore ==
    ASSUME NEW S, NEW x, NEW n \in Nat, AtMost(S, n)
    PROVE  AtMost(With(S, x), n + 1)
<1>1. IsFiniteSet(S) /\ Cardinality(S) \in Nat /\ Cardinality(S) <= n
    BY FS_CardinalityType DEF AtMost
<1>2. /\ IsFiniteSet(With(S, x))
      /\ Cardinality(With(S, x)) = IF x \in S THEN Cardinality(S) ELSE Cardinality(S) + 1
    BY <1>1, FS_AddElement DEF With
<1> QED BY <1>1, <1>2 DEF AtMost

LEMMA NullsApart == Junk # Missing
<1> DEFINE A == With({}, Blank)
           B == With(A, Missing)
           C == With(B, NoExtra)
           D == With(C, NotObject)
           E == With(D, None)
<1>1. AtMost({}, 0)
    BY FS_EmptySet DEF AtMost
<1>2. AtMost(A, 1)
    BY <1>1, OneMore
<1> HIDE DEF A
<1>3. AtMost(B, 2)
    BY <1>2, OneMore
<1> HIDE DEF B
<1>4. AtMost(C, 3)
    BY <1>3, OneMore
<1> HIDE DEF C
<1>5. AtMost(D, 4)
    BY <1>4, OneMore
<1> HIDE DEF D
<1>6. AtMost(E, 5)
    BY <1>5, OneMore
<1>7. Cardinality({Blank, Missing, NoExtra, NotObject, None}) <= 5
  <2>1. E = {Blank, Missing, NoExtra, NotObject, None}
      BY DEF A, B, C, D, E, With
  <2> HIDE DEF E
  <2> QED BY <1>6, <2>1 DEF AtMost
<1>8. Junk = Missing =>
          {Blank, Junk, Missing, NoExtra, NotObject, None}
              = {Blank, Missing, NoExtra, NotObject, None}
    OBVIOUS
<1> QED BY <1>7, <1>8, NullsAssumption

\* One that does not decode is malformed to both.
LEMMA MalformedAlike ==
    ASSUME NEW nets, NEW held, NEW signed, NEW list, NEW p,
           {Junk, Missing} \cap held = {}, DecodeError(p) # "none"
    PROVE  /\ Booth(nets, held, signed)!Screen(
                  FormOf(p), Booth(nets, held, signed)!Priced(list)) = "PaymentMalformed"
           /\ Judge(p).outcome = "PaymentMalformed"
<1>1. /\ FormOf(p).ambiguous = FALSE /\ FormOf(p).routed = TRUE
      /\ FormOf(p).bearer = "none" /\ FormOf(p).bounded = TRUE
      /\ FormOf(p).rated = TRUE /\ FormOf(p).payment = Junk
    BY DEF FormOf
<1>2. Junk # Missing
    BY NullsApart
<1>3. Booth(nets, held, signed)!Screen(
          FormOf(p), Booth(nets, held, signed)!Priced(list)) = "PaymentMalformed"
    BY <1>1, <1>2 DEF Booth!Screen
<1>4. Judge(p).outcome = "PaymentMalformed"
    BY DEF Judge, Verdict
<1> QED BY <1>3, <1>4

\* The module Gateway is about the gateway that is configured here: what it assumes of
\* its payments, offers and price lists holds, whatever payments there are, and what it
\* makes of a payment by a Form (Screen; paid_completion in gateway.rs) is what the
\* checks on the payment itself come to, down to the offer that is charged.
THEOREM FormsSayWhatIsJudged == Spec => []GatewayScreensAlike
<1>1. ConfigurationIsSound => GatewayScreensAlike
  <2> SUFFICES ASSUME ConfigurationIsSound,
                      NEW nets, NEW held, NEW signed, NEW list,
                      nets = Nets, nets # {}, list = List,
                      \A p \in held : Holdable(p),
                      {Junk, Missing} \cap held = {},
                      signed = [p \in held |-> SignedFor(p)]
               PROVE  /\ list \in [nets -> Nat]
                      /\ signed \in [held -> Booth(nets, held, signed)!Offers]
                      /\ \A p : (p \in held \/ (IsPayment(p) /\ DecodeError(p) # "none")) =>
                            /\ FormOf(p) \in Booth(nets, held, signed)!FormSet
                            /\ SameOutcome(nets, held, signed, list, p)
                            /\ SameOffer(nets, held, signed, list, p)
      BY DEF GatewayScreensAlike
  <2>1. list \in [nets -> Nat]
    <3>1. nets \subseteq Networks
        BY DEF Nets, ConfigurationIsSound, Sound, OptionSet
    <3>2. \A n \in nets : quote[n] \in Nat
        BY <3>1, AmountsAssumption DEF ConfigurationIsSound
    <3> QED BY <3>2 DEF List
  <2>2. ASSUME NEW p
        PROVE  SignedFor(p) \in [option : nets, amount : Nat]
    <3>1. CASE Names(p)
        BY <3>1 DEF SignedFor, Names
    <3>2. CASE ~Names(p)
      <4>1. (CHOOSE n \in Nets : TRUE) \in Nets
          OBVIOUS
      <4> QED BY <3>2, <4>1 DEF SignedFor
    <3> QED BY <3>1, <3>2
  <2>3. signed \in [held -> Booth(nets, held, signed)!Offers]
      BY <2>2 DEF Booth!Offers
  <2>4. ASSUME NEW p, p \in held \/ (IsPayment(p) /\ DecodeError(p) # "none")
        PROVE  FormOf(p) \in Booth(nets, held, signed)!FormSet
    <3>1. (IF DecodeError(p) = "none" THEN p ELSE Junk) \in held \cup {Junk, Missing}
        BY <2>4 DEF Holdable
    <3>2. Agrees(p) \in BOOLEAN
        BY DEF Agrees
    <3> QED BY <3>1, <3>2, Zenon DEF FormOf, Booth!FormSet
  <2>5. ASSUME NEW p \in held
        PROVE  SameOutcome(nets, held, signed, list, p) /\ SameOffer(nets, held, signed, list, p)
    <3> DEFINE offered == Booth(nets, held, signed)!Priced(list)
               screen == Booth(nets, held, signed)!Screen(FormOf(p), offered)
               charged == Booth(nets, held, signed)!ScreenedTrace(FormOf(p), offered).paid
               agreed == /\ Names(p) /\ quote[p.accepted.network] = p.accepted.amount
                         /\ Agrees(p)
    <3>1. DecodeError(p) = "none"
        BY DEF Holdable
    <3>2. /\ Judge(p).outcome \in {"OptionUnmatched", "verify"}
          /\ Judge(p).outcome = "verify" <=> agreed
          /\ Judge(p).outcome = "verify" =>
                 \A o \in Judge(p).options :
                     o.network = p.accepted.network /\ o.amount = p.accepted.amount
        BY <3>1, VerdictByForm
    <3>3. /\ screen \in {"OptionUnmatched", "verifying"}
          /\ screen = "verifying" <=> agreed
          /\ screen = "verifying" =>
                 charged = [option |-> p.accepted.network, amount |-> p.accepted.amount]
        BY <3>1, ScreenByForm
    <3>4. SameOutcome(nets, held, signed, list, p) <=>
              screen = IF Judge(p).outcome = "verify" THEN "verifying" ELSE Judge(p).outcome
        BY DEF SameOutcome
    <3>5. SameOffer(nets, held, signed, list, p) <=>
              (screen = "verifying" =>
                  \A o \in Judge(p).options :
                      charged = [option |-> o.network, amount |-> o.amount])
        BY DEF SameOffer
    <3> HIDE DEF screen, charged, agreed
    <3> QED BY <3>2, <3>3, <3>4, <3>5
  <2>6. ASSUME NEW p, DecodeError(p) # "none"
        PROVE  SameOutcome(nets, held, signed, list, p) /\ SameOffer(nets, held, signed, list, p)
      BY <2>6, MalformedAlike DEF SameOutcome, SameOffer
  <2> QED BY <2>1, <2>3, <2>4, <2>5, <2>6
<1>2. IInv => GatewayScreensAlike
    BY <1>1 DEF IInv
<1> QED BY <1>2, InitHolds, StepHolds, PTL DEF Spec
=============================================================================
