--------------------------- MODULE DevSellerProofs ---------------------------
(***************************************************************************)
(* Where the offline judge and the token contract differ, for every payment*)
(* a client may make of an offer, every contract there may be at its asset,*)
(* every width of the integers, and any number of requests; and what the   *)
(* guards of a start leave.  The invariant ties the verdict to the payment *)
(* that is still at hand, and the reply to both; and what runs to what was *)
(* configured.                                                             *)
(***************************************************************************)
EXTENDS DevSeller, TLAPS

\* An authorization is a record of its six fields.
IsAuthorization(a) ==
    a = Authorization(a.from, a.to, a.value, a.validAfter, a.validBefore, a.nonce)

\* What every seller that starts as a verifier has in its options.
SoundOptions ==
    seller.verify = "verify" =>
        \A o \in seller.options :
            HasDomain(o) /\ HasRecipient(o) /\ o.amount \in 0..MaxU128

\* A payment a client sends: of one of the options, and whole in form.
IsPayment(p) ==
    /\ IsAuthorization(p.auth) /\ p.scheme = "exact"
    /\ \E o \in seller.options : o.network = p.network

VerdictStands ==
    /\ phase \in {"forward", "settle"} => verdict.says = "ok"
    /\ phase \in {"verify", "forward", "settle"} => reply = NoReply
    /\ phase = "verify" => IsPayment(payment)
    /\ now \in 0..MaxTime

\* What was verified is signed by the party it names.
AcceptedIsSigned ==
    verdict.says = "ok" /\ seller.verify = "verify" =>
        /\ payment.signature.signer = payment.auth.from
        /\ payment.signature.over = payment.auth

\* Nothing is asked of a seller that has not started.
SellerStands ==
    /\ outcome = "not started" => phase = "idle" /\ verdict = NoVerdict /\ reply = NoReply
    /\ phase # "idle" => outcome = "started"

\* What stays as it is while the payment, its verdict and the options do.
OfTheVerdict == AcceptedFailsOnlyOnChain /\ RefusedWouldFail /\ AcceptedIsSigned

IInv == SellerStands /\ SoundOptions /\ VerdictStands /\ OfTheVerdict /\ NamedPayerSigned
-----------------------------------------------------------------------------
(***************************************************************************)
(* Payments.                                                               *)
(***************************************************************************)

LEMMA EditsAreAuthorizations ==
    ASSUME NEW a, IsAuthorization(a), NEW b \in Edits(a)
    PROVE  IsAuthorization(b)
BY DEF Edits, IsAuthorization, Authorization

LEMMA PaymentsAreRecords ==
    ASSUME NEW o, NEW p \in Payments(o)
    PROVE  IsAuthorization(p.auth) /\ p.scheme = "exact" /\ p.network = o.network
<1> DEFINE honest == {Honest(o, from, 0, MaxU64, n) : from \in Payers, n \in Nonces}
           whole(q) == q = Payment(o, q.auth, q.signature) /\ IsAuthorization(q.auth)
<1>1. \A q \in honest : whole(q)
  <2> SUFFICES ASSUME NEW from \in Payers, NEW n \in Nonces
               PROVE  whole(Honest(o, from, 0, MaxU64, n))
      OBVIOUS
  <2> DEFINE auth == Authorization(from, o.payTo, o.amount, 0, MaxU64, n)
             signature == Signed(from, auth, Domain(o))
  <2>1. Honest(o, from, 0, MaxU64, n) = Payment(o, auth, signature)
      BY DEF Honest
  <2>2. IsAuthorization(auth)
      BY DEF IsAuthorization, Authorization
  <2> HIDE DEF auth, signature
  <2> QED BY <2>1, <2>2 DEF Payment
<1>2. PICK q \in honest :
        p \in { Payment(o, auth, Signed(q.auth.from, auth, Domain(o))) : auth \in Edits(q.auth) }
              \cup {[q EXCEPT !.auth = auth] : auth \in Edits(q.auth)}
              \cup {[q EXCEPT !.signature.signer = x] : x \in Payers}
              \cup {[q EXCEPT !.signature.under.token = x] : x \in Domains}
              \cup {[q EXCEPT !.signature.under.chain = x] : x \in EvmTestnets \cup Mainnets}
              \cup {[q EXCEPT !.signature.under.contract = x] : x \in Addresses}
              \cup {[q EXCEPT !.signature.v = x] : x \in {0, 1, 28, 2}}
              \cup {[q EXCEPT !.signature.bytes = 64]}
    BY DEF Payments
<1>3. whole(q)
    BY <1>1, <1>2
<1>4. CASE \E auth \in Edits(q.auth) :
                p = Payment(o, auth, Signed(q.auth.from, auth, Domain(o)))
    BY <1>3, <1>4, EditsAreAuthorizations DEF Payment
<1>5. CASE \E auth \in Edits(q.auth) : p = [q EXCEPT !.auth = auth]
    BY <1>3, <1>5, EditsAreAuthorizations DEF Payment
<1>6. CASE p.auth = q.auth /\ p.scheme = q.scheme /\ p.network = q.network
    BY <1>3, <1>6 DEF Payment
<1> HIDE DEF honest
<1> QED BY <1>2, <1>3, <1>4, <1>5, <1>6 DEF Payment
-----------------------------------------------------------------------------
(***************************************************************************)
(* The judge.                                                              *)
(***************************************************************************)

\* What parses has lost nothing on the way: no number was cut to a width.
LEMMA ParsedIsWritten ==
    ASSUME NEW p, IsAuthorization(p.auth), Parsed(p) # Junk
    PROVE  Parsed(p) = p.auth /\ p.auth.from \in Addresses
<1> DEFINE a == p.auth
           value == IF a.value \in Nat THEN Uint128(a.value) ELSE Junk
<1>1. /\ Parsed(p) = [a EXCEPT !.value = value]
      /\ a.from \in Addresses /\ value # Junk
    BY DEF Parsed
<1>2. value = a.value
    BY <1>1 DEF Uint128
<1>3. [a EXCEPT !.value = a.value] = a
    BY DEF IsAuthorization, Authorization
<1> QED BY <1>1, <1>2, <1>3

LEMMA SignerIsRecovered ==
    ASSUME NEW signature, NEW auth, NEW domain, Recovered(signature, auth, domain) \in Addresses
    PROVE  /\ signature.signer = Recovered(signature, auth, domain)
           /\ signature.over = auth /\ signature.under = domain
           /\ signature.bytes = 65 /\ signature.v \in {0, 27}
BY PayersAssumption DEF Recovered

\* What the judge has seen of a payment it lets pass.
LEMMA AcceptedMeans ==
    ASSUME NEW o, NEW p, IsAuthorization(p.auth), Judge(o, p) = "ok"
    PROVE  LET a == p.auth
           IN  /\ a.from \in Addresses /\ a.to = o.payTo /\ a.value = o.amount
               /\ a.validAfter \in Nat /\ a.validAfter < now
               /\ a.validBefore \in Nat /\ now < a.validBefore /\ a.nonce \in Nonces
               /\ p.signature.signer = a.from /\ p.signature.over = a
               /\ p.signature.under = Domain(o)
               /\ p.signature.bytes = 65 /\ p.signature.v \in {0, 27}
<1>1. /\ Parsed(p) # Junk /\ TermsHold(o, Parsed(p), p)
      /\ WindowOpen(Parsed(p), now) /\ SignatureHolds(o, Parsed(p), p)
    BY DEF Judge
<1>2. Parsed(p) = p.auth /\ p.auth.from \in Addresses
    BY <1>1, ParsedIsWritten
<1>3. /\ p.auth.nonce \in Nonces
      /\ Uint64(p.auth.validAfter) # Junk /\ Uint64(p.auth.validBefore) # Junk
    BY <1>1 DEF Parsed
<1>4. p.auth.validAfter \in Nat /\ p.auth.validBefore \in Nat
    BY <1>3, WidthsAssumption DEF Uint64
<1>5. Recovered(p.signature, p.auth, Domain(o)) = p.auth.from
    BY <1>1, <1>2 DEF SignatureHolds
<1> QED BY <1>1, <1>2, <1>3, <1>4, <1>5, SignerIsRecovered DEF TermsHold, WindowOpen

\* A payment that passes here fails on the chain for what the chain alone can see.
LEMMA AcceptedOnChain ==
    ASSUME NEW o, NEW p, IsAuthorization(p.auth), Judge(o, p) = "ok", NEW c \in Contracts
    PROVE  PaysThePrice(c, o, p, now) <=>
               /\ c.token = o.domain /\ p.auth.nonce \notin c.spent
               /\ o.amount <= c.balance /\ p.signature.v \in {27, 28}
<1> DEFINE a == p.auth
           d == [token |-> c.token, chain |-> o.network, contract |-> o.asset]
<1>1. /\ a.from \in Addresses /\ a.to = o.payTo /\ a.value = o.amount
      /\ a.validAfter \in Nat /\ a.validAfter < now
      /\ a.validBefore \in Nat /\ now < a.validBefore /\ a.nonce \in Nonces
      /\ p.signature.signer = a.from /\ p.signature.over = a
      /\ p.signature.under = Domain(o)
      /\ p.signature.bytes = 65 /\ p.signature.v \in {0, 27}
    BY AcceptedMeans
<1>2. d = Domain(o) <=> c.token = o.domain
    BY DEF Domain
<1> HIDE DEF a, d
<1>3. ContractRecovers(p.signature, a, d) = a.from <=>
          c.token = o.domain /\ p.signature.v \in {27, 28}
    BY <1>1, <1>2, PayersAssumption DEF ContractRecovers
<1>4. PaysThePrice(c, o, p, now) <=>
          /\ a.nonce \in Nonces \ c.spent /\ o.amount <= c.balance
          /\ ContractRecovers(p.signature, a, d) = a.from
    BY <1>1 DEF PaysThePrice, a, d
<1> QED BY <1>1, <1>3, <1>4 DEF a

\* What the token as it is described would pay out the judge lets pass, but for an expiry
\* that is wider than a u64.
LEMMA PayableIsAccepted ==
    ASSUME NEW o, HasDomain(o), HasRecipient(o), o.amount \in 0..MaxU128, now \in 0..MaxTime,
           NEW p, IsAuthorization(p.auth), p.scheme = "exact", p.network = o.network,
           NEW c, c.token = o.domain, PaysThePrice(c, o, p, now),
           ~(p.auth.validBefore > MaxU64)
    PROVE  Judge(o, p) = "ok"
<1> DEFINE a == p.auth
           d == [token |-> c.token, chain |-> o.network, contract |-> o.asset]
<1>1. /\ a.from \in Addresses /\ a.to = o.payTo /\ a.value = o.amount
      /\ a.validAfter \in Nat /\ a.validAfter < now
      /\ a.validBefore \in Nat /\ now < a.validBefore
      /\ a.nonce \in Nonces
      /\ ContractRecovers(p.signature, a, d) = a.from
    BY DEF PaysThePrice
<1>2. d = Domain(o)
    BY DEF Domain
<1>3. MaxU64 \in Nat /\ MaxU128 \in Nat /\ MaxTime \in Nat /\ MaxTime < MaxU64
    BY WidthsAssumption, BoundsAssumption
<1>4. a = Authorization(a.from, a.to, a.value, a.validAfter, a.validBefore, a.nonce)
    BY DEF IsAuthorization
<1> HIDE DEF a, d
<1>5. a.validAfter \in 0..MaxU64 /\ a.validBefore \in 0..MaxU64
    BY <1>1, <1>3 DEF a
<1>6. a.validAfter # Junk /\ a.validBefore # Junk /\ a.value # Junk /\ a.value \in Nat
    BY <1>1, <1>3, PayersAssumption
<1>7. /\ Uint64(a.validAfter) = a.validAfter /\ Uint64(a.validBefore) = a.validBefore
      /\ Uint128(a.value) = a.value
    BY <1>1, <1>5 DEF Uint64, Uint128
<1>8. a.to \in Addresses
    BY <1>1 DEF HasRecipient
<1>9. [a EXCEPT !.value = a.value] = a
    BY <1>4 DEF Authorization
<1>10. Parsed(p) = a
    BY <1>1, <1>6, <1>7, <1>8, <1>9 DEF Parsed, a
<1>11. a # Junk
  <2>1. a \in [ from : Addresses, to : Addresses, value : 0..MaxU128,
                validAfter : 0..MaxU64, validBefore : 0..MaxU64, nonce : Nonces ]
      BY <1>1, <1>4, <1>5, <1>8 DEF Authorization
  <2> QED BY <2>1, PayersAssumption
<1>12. TermsHold(o, a, p) /\ WindowOpen(a, now)
    BY <1>1 DEF TermsHold, WindowOpen, HasRecipient
<1>13. Recovered(p.signature, a, Domain(o)) = a.from
    BY <1>1, <1>2, PayersAssumption DEF Recovered, ContractRecovers
<1>14. SignatureHolds(o, a, p)
    BY <1>13 DEF SignatureHolds, a
<1> QED BY <1>10, <1>11, <1>12, <1>14 DEF Judge

\* A payment made of an offer as it stands, for a window around now, is verified.
LEMMA HonestHolds ==
    ASSUME NEW o, HasDomain(o), HasRecipient(o), o.amount \in 0..MaxU128,
           NEW from \in Payers, NEW n \in Nonces, now \in 1..(MaxU64 - 1)
    PROVE  Judge(o, Honest(o, from, now - 1, now + 1, n)) = "ok"
<1> DEFINE auth == Authorization(from, o.payTo, o.amount, now - 1, now + 1, n)
           p == Honest(o, from, now - 1, now + 1, n)
<1>1. /\ p.auth = auth /\ p.scheme = "exact" /\ p.network = o.network
      /\ p.signature = Signed(from, auth, Domain(o))
    BY DEF Honest, Payment
<1>2. /\ auth.from = from /\ auth.to = o.payTo /\ auth.value = o.amount
      /\ auth.validAfter = now - 1 /\ auth.validBefore = now + 1 /\ auth.nonce = n
      /\ [auth EXCEPT !.value = o.amount] = auth
    BY DEF Authorization
<1> HIDE DEF auth, p
<1>3. /\ MaxU64 \in Nat /\ MaxU128 \in Nat /\ now \in Nat
      /\ now - 1 \in 0..MaxU64 /\ now + 1 \in 0..MaxU64
    BY WidthsAssumption
<1>4. Uint128(o.amount) = o.amount /\ o.amount \in Nat /\ o.amount # Junk
    BY <1>3, PayersAssumption DEF Uint128
<1>5. Uint64(now - 1) = now - 1 /\ Uint64(now + 1) = now + 1
    BY <1>3 DEF Uint64
<1>6. now - 1 # Junk /\ now + 1 # Junk
    BY <1>3, PayersAssumption
<1>7. from \in Addresses /\ o.payTo \in Addresses
    BY PayersAssumption DEF HasRecipient
<1>8. Parsed(p) = auth
    BY <1>1, <1>2, <1>4, <1>5, <1>6, <1>7 DEF Parsed
<1>9. auth # Junk
  <2>1. auth \in [ from : Addresses, to : Addresses, value : 0..MaxU128,
                  validAfter : 0..MaxU64, validBefore : 0..MaxU64, nonce : Nonces ]
      BY <1>3, <1>7 DEF auth, Authorization
  <2> QED BY <2>1, PayersAssumption
<1>10. TermsHold(o, auth, p) /\ WindowOpen(auth, now)
    BY <1>1, <1>2, <1>3, <1>7 DEF TermsHold, WindowOpen
<1>11. SignatureHolds(o, auth, p)
    BY <1>1, <1>2 DEF SignatureHolds, Recovered, Signed
<1> QED BY <1>8, <1>9, <1>10, <1>11 DEF Judge, p
-----------------------------------------------------------------------------
(***************************************************************************)
(* The process.                                                            *)
(***************************************************************************)

\* Of a payment that was not judged nothing is said; and what was said of one stays true.
LEMMA NothingSaid == verdict = NoVerdict => OfTheVerdict
BY DEF OfTheVerdict, AcceptedFailsOnlyOnChain, RefusedWouldFail, AcceptedIsSigned, NoVerdict

LEMMA NothingSaidNext == verdict' = NoVerdict => OfTheVerdict'
BY DEF OfTheVerdict, AcceptedFailsOnlyOnChain, RefusedWouldFail, AcceptedIsSigned, NoVerdict

LEMMA SaidStands == OfTheVerdict /\ UNCHANGED <<seller, payment, verdict>> => OfTheVerdict'
<1> SUFFICES ASSUME OfTheVerdict, UNCHANGED <<seller, payment, verdict>> PROVE OfTheVerdict'
    OBVIOUS
<1>1. seller' = seller /\ payment' = payment /\ verdict' = verdict
    OBVIOUS
<1>2. OptionOf(payment)' = OptionOf(payment)
    BY <1>1 DEF OptionOf
<1> QED BY <1>1, <1>2 DEF OfTheVerdict, AcceptedFailsOnlyOnChain, RefusedWouldFail,
                          AcceptedIsSigned, PaysThePrice

LEMMA InitHolds == Init => IInv
<1> SUFFICES ASSUME Init PROVE IInv
    OBVIOUS
<1>1. /\ outcome = "not started" /\ phase = "idle" /\ verdict = NoVerdict /\ reply = NoReply
      /\ seller.options = {}
    BY DEF Init, Nothing
<1>2. SellerStands /\ SoundOptions
    BY <1>1 DEF SellerStands, SoundOptions
<1>3. VerdictStands
  <2>1. now = 0
      BY DEF Init
  <2>2. now \in 0..MaxTime
      BY <2>1, BoundsAssumption
  <2>3. phase = "idle"
      BY <1>1
  <2> QED BY <2>2, <2>3 DEF VerdictStands
<1>4. OfTheVerdict
    BY <1>1, NothingSaid
<1>5. NamedPayerSigned
    BY <1>1 DEF NamedPayerSigned, NoReply, Reply, NoReceipt
<1> QED BY <1>2, <1>3, <1>4, <1>5 DEF IInv

\* What the guards let past can be verified.
LEMMA StartIsSound ==
    ASSUME env \in Environments, ~Refused(env), VerifyMode(env) = "verify",
           NEW o \in Elements(env.options)
    PROVE  HasDomain(o) /\ HasRecipient(o) /\ o.amount \in 0..MaxU128
<1>1. ~BadOffers(env)
    BY DEF Refused
<1>2. HasDomain(o)
    BY <1>1 DEF BadOffers
<1>3. HasRecipient(o)
    BY <1>1, <1>2 DEF BadOffers, HasDomain
<1>4. o.amount \in 0..MaxU128
    BY PricesAssumption DEF Elements
<1> QED BY <1>2, <1>3, <1>4

\* The seller has the verify mode and the options it was started with.
LEMMA StartedAsAsked ==
    ASSUME Start, ~Refused(env)
    PROVE  /\ outcome' = "started"
           /\ seller'.verify = VerifyMode(env)
           /\ seller'.options = Elements(env.options)
<1>1. /\ outcome' = "started"
      /\ seller' = [ verify |-> VerifyMode(env), settle |-> SettleMode(env),
                     delay |-> Delay(env), options |-> Elements(env.options),
                     real |-> RealUpstream(env) ]
    BY Zenon DEF Start
<1> QED BY <1>1

\* The option a payment is judged by is one of the seller's, on the payment's network.
LEMMA OptionIsOffered ==
    ASSUME NEW p, IsPayment(p)
    PROVE  OptionOf(p) \in seller.options /\ OptionOf(p).network = p.network
BY DEF IsPayment, OptionOf

\* What Verify says is right, of any contract.
LEMMA VerdictIsFair ==
    ASSUME SoundOptions, VerdictStands, Verify
    PROVE  OfTheVerdict'
<1> DEFINE o == OptionOf(payment)
<1>1. /\ UNCHANGED <<seller, payment, now>> /\ verdict'.at = now
      /\ IsPayment(payment) /\ now \in 0..MaxTime
    BY DEF Verify, VerdictStands
<1>2. seller.verify = "verify" => verdict'.says = Judge(o, payment)
    BY DEF Verify
<1>3. o' = o
    BY <1>1 DEF OptionOf
<1>4. IsAuthorization(payment.auth) /\ payment.scheme = "exact"
    BY <1>1 DEF IsPayment
<1>5. o \in seller.options /\ o.network = payment.network
    BY <1>1, OptionIsOffered
<1> HIDE DEF o
<1>6. AcceptedFailsOnlyOnChain'
  <2> SUFFICES ASSUME verdict'.says = "ok", seller'.verify = "verify", NEW c \in Contracts
               PROVE  PaysThePrice(c, o, payment, now) <=>
                          /\ c.token = o.domain /\ payment.auth.nonce \notin c.spent
                          /\ o.amount <= c.balance /\ payment.signature.v \in {27, 28}
      BY <1>1, <1>3 DEF AcceptedFailsOnlyOnChain, o, PaysThePrice
  <2>1. Judge(o, payment) = "ok"
      BY <1>1, <1>2
  <2> QED BY <1>4, <2>1, AcceptedOnChain
<1>7. RefusedWouldFail'
  <2> SUFFICES ASSUME verdict'.says \notin {"none", "ok"}, seller'.verify = "verify",
                      NEW c \in Contracts, c.token = o.domain,
                      PaysThePrice(c, o, payment, now)
               PROVE  payment.auth.validBefore > MaxU64
      BY <1>1, <1>3 DEF RefusedWouldFail, o, PaysThePrice
  <2>1. seller.verify = "verify" /\ Judge(o, payment) # "ok"
      BY <1>1, <1>2
  <2>2. HasDomain(o) /\ HasRecipient(o) /\ o.amount \in 0..MaxU128
      BY <1>5, <2>1 DEF SoundOptions
  <2> QED BY <1>1, <1>4, <1>5, <2>1, <2>2, PayableIsAccepted
<1>8. AcceptedIsSigned'
  <2> SUFFICES ASSUME verdict'.says = "ok", seller'.verify = "verify"
               PROVE  /\ payment.signature.signer = payment.auth.from
                      /\ payment.signature.over = payment.auth
      BY <1>1 DEF AcceptedIsSigned
  <2>1. Judge(o, payment) = "ok"
      BY <1>1, <1>2
  <2> QED BY <1>4, <2>1, AcceptedMeans
<1> QED BY <1>6, <1>7, <1>8 DEF OfTheVerdict

LEMMA StepHolds == env \in Environments /\ IInv /\ [Next]_vars => IInv'
<1> SUFFICES ASSUME env \in Environments, IInv, [Next]_vars PROVE IInv'
    OBVIOUS
<1> USE DEF IInv
<1>1. CASE Start
  <2>1. SoundOptions'
    <3>1. CASE Refused(env)
        BY <1>1, <3>1 DEF Start, SoundOptions
    <3>2. CASE ~Refused(env)
      <4>1. seller'.verify = VerifyMode(env) /\ seller'.options = Elements(env.options)
          BY <3>2, StartedAsAsked, <1>1
      <4>2. VerifyMode(env) = "verify" =>
                \A o \in Elements(env.options) :
                    HasDomain(o) /\ HasRecipient(o) /\ o.amount \in 0..MaxU128
          BY <3>2, StartIsSound
      <4> QED BY <4>1, <4>2 DEF SoundOptions, HasDomain, HasRecipient, IsEvm
    <3> QED BY <3>1, <3>2
  <2>2. /\ phase = "idle" /\ verdict = NoVerdict /\ reply = NoReply
        /\ UNCHANGED <<phase, verdict, reply>>
      BY <1>1 DEF Start, SellerStands
  <2>3. SellerStands'
      BY <1>1, <2>2 DEF Start, SellerStands
  <2>4. VerdictStands'
    <3>1. UNCHANGED now
        BY <1>1 DEF Start
    <3> QED BY <2>2, <3>1 DEF VerdictStands
  <2>5. OfTheVerdict'
      BY <2>2, NothingSaidNext
  <2>6. NamedPayerSigned'
      BY <2>2 DEF NamedPayerSigned, NoReply, Reply, NoReceipt
  <2> QED BY <2>1, <2>3, <2>4, <2>5, <2>6
<1>2. CASE Request
  <2>1. PICK o \in seller.options : payment' \in Payments(o)
      BY <1>2 DEF Request
  <2>2. /\ IsAuthorization(payment'.auth) /\ payment'.scheme = "exact"
        /\ payment'.network = o.network
      BY <2>1, PaymentsAreRecords
  <2>3. /\ phase' = "verify" /\ verdict' = NoVerdict /\ reply' = NoReply
        /\ UNCHANGED <<seller, now>>
      BY <1>2 DEF Request
  <2>4. VerdictStands'
      BY <2>2, <2>3 DEF VerdictStands, IsPayment
  <2>5. SoundOptions' /\ OfTheVerdict' /\ NamedPayerSigned'
    <3>1. OfTheVerdict'
        BY <2>3, NothingSaidNext
    <3> QED BY <2>3, <3>1 DEF SoundOptions, NamedPayerSigned, NoReply, Reply, NoReceipt
  <2>6. SellerStands'
      BY <1>2 DEF Request, SellerStands
  <2> QED BY <2>4, <2>5, <2>6
<1>3. CASE Verify
  <2>1. /\ phase = "verify" /\ UNCHANGED <<seller, payment>>
        /\ UNCHANGED now
        /\ \/ verdict'.says = "ok" /\ phase' = "forward" /\ reply' = reply
           \/ phase' = "idle" /\ reply' = Reply(402, FALSE, NoReceipt)
      BY <1>3 DEF Verify
  <2>3. OfTheVerdict'
      BY <1>3, VerdictIsFair
  <2>4. VerdictStands' /\ SoundOptions'
      BY <2>1 DEF VerdictStands, SoundOptions
  <2>5. NamedPayerSigned'
      BY <2>1 DEF VerdictStands, NamedPayerSigned, NoReply, Reply, NoReceipt
  <2>6. SellerStands'
      BY <1>3, <2>1 DEF Verify, SellerStands
  <2> QED BY <2>3, <2>4, <2>5, <2>6
<1>4. CASE Forward
  <2>1. /\ phase = "forward" /\ phase' = "settle"
        /\ UNCHANGED <<outcome, seller, now, payment, verdict, reply>>
      BY <1>4 DEF Forward
  <2>2. OfTheVerdict'
      BY <2>1, SaidStands
  <2> QED BY <2>1, <2>2 DEF SellerStands, SoundOptions, VerdictStands, NamedPayerSigned
<1>5. CASE Settle
  <2>1. /\ phase = "settle" /\ phase' = "idle" /\ reply' = Settled
        /\ UNCHANGED <<outcome, seller, now, payment, verdict>>
      BY <1>5 DEF Settle
  <2>2. SoundOptions' /\ VerdictStands' /\ OfTheVerdict'
    <3>1. OfTheVerdict'
        BY <2>1, SaidStands
    <3> QED BY <2>1, <3>1 DEF SoundOptions, VerdictStands
  <2>3. SellerStands'
      BY <2>1 DEF SellerStands
  <2>4. NamedPayerSigned'
    <3> SUFFICES ASSUME Settled.receipt.payer \notin {None, NotVerified}
                 PROVE  /\ payment.signature.signer = Settled.receipt.payer
                        /\ payment.signature.over = payment.auth
        BY <2>1 DEF NamedPayerSigned
    <3>1. Settled.receipt.payer = Payer(payment)
      <4>1. NoReceipt.payer = None
          BY DEF NoReceipt
      <4>2. Settled.receipt \in {NoReceipt, SettledReceipt}
          BY DEF Settled, Reply
      <4>3. SettledReceipt.payer \in {Payer(payment), None}
          BY DEF SettledReceipt, Receipt
      <4> QED BY <4>1, <4>2, <4>3
    <3>2. seller.verify = "verify" /\ Payer(payment) = payment.auth.from
        BY <3>1 DEF Payer
    <3>3. verdict.says = "ok"
        BY <2>1 DEF VerdictStands
    <3> QED BY <3>1, <3>2, <3>3 DEF OfTheVerdict, AcceptedIsSigned
  <2> QED BY <2>2, <2>3, <2>4
<1>6. CASE Tick
  <2>1. UNCHANGED <<outcome, seller, phase, payment, verdict, reply>>
      BY <1>6 DEF Tick
  <2>2. OfTheVerdict'
      BY <2>1, SaidStands
  <2>3. now' \in 0..MaxTime
    <3>1. now' = now \/ (now < MaxTime /\ now' = now + 1)
        BY <1>6 DEF Tick
    <3> QED BY <3>1, BoundsAssumption DEF VerdictStands
  <2> QED BY <2>1, <2>2, <2>3 DEF SellerStands, SoundOptions, VerdictStands, IsPayment,
                                  NamedPayerSigned
<1>7. CASE UNCHANGED vars
  <2>1. UNCHANGED <<outcome, seller, now, phase, payment, verdict, reply>>
      BY <1>7 DEF vars
  <2>2. OfTheVerdict'
      BY <2>1, SaidStands
  <2> QED BY <2>1, <2>2 DEF SellerStands, SoundOptions, VerdictStands, IsPayment,
                            NamedPayerSigned
<1> QED BY <1>1, <1>2, <1>3, <1>4, <1>5, <1>6, <1>7 DEF Next

\* Whatever is deployed at the asset, a payment the development seller accepts (verify.rs)
\* fails there only for what its comments say it cannot see: the token's true name and
\* version, its nonces and balances; or for the convention of v.  What it refuses fails
\* there too, unless it expires past a u64.  What a client makes of its challenge it
\* accepts, and whoever it names as the payer has signed (payer_of in facilitator.rs).
THEOREM OfflineDiffersAsSaid == Spec => []DiffersFromTheChainAsSaid
<1>1. Init => env \in Environments
    BY DEF Init
<1>2. env \in Environments /\ [Next]_vars => (env \in Environments)'
    BY DEF Next, vars, Start, Request, Verify, Forward, Settle, Tick
<1>3. IInv => DiffersFromTheChainAsSaid
    BY HonestHolds DEF IInv, OfTheVerdict, DiffersFromTheChainAsSaid, HonestIsAccepted,
                       SoundOptions
<1> QED BY <1>1, <1>2, <1>3, InitHolds, StepHolds, PTL DEF Spec
-----------------------------------------------------------------------------
(***************************************************************************)
(* What starts.                                                            *)
(***************************************************************************)

\* The seller is the one its environment describes, or none.
AsConfigured ==
    IF outcome = "started"
    THEN /\ ~Refused(env)
         /\ seller.verify = VerifyMode(env) /\ seller.settle = SettleMode(env)
         /\ seller.delay = Delay(env) /\ seller.options = Elements(env.options)
         /\ seller.real = RealUpstream(env)
    ELSE seller = Nothing

\* What the requests come to, apart from what the seller is.
OutcomeOK == outcome \in {"not started", "refused", "started"}
ClockOK == now \in 0..MaxTime
WaitOK == waited \in Nat /\ waited <= seller.delay
PhaseOK == phase \in {"idle", "verify", "forward", "settle"}
ReplyOK == reply.status \in {0, 200, 402, 502}
CountOK == requests \in 0..MaxRequests

RequestsOK == OutcomeOK /\ ClockOK /\ WaitOK /\ PhaseOK /\ ReplyOK /\ CountOK

SafeInv == AsConfigured /\ RequestsOK

\* An environment the guards let past asks for known modes and for a sleep that ends.
LEMMA GuardedModes ==
    ASSUME ~Refused(env)
    PROVE  /\ VerifyMode(env) \in VerifyModes /\ SettleMode(env) \in SettleModes
           /\ Delay(env) \in Nat /\ RealUpstream(env) \in BOOLEAN
<1>1. ~BadModes(env)
    BY DEF Refused
<1>2. Delay(env) \in Nat
    BY <1>1 DEF BadModes, Delay
<1> QED BY <1>1, <1>2 DEF BadModes, RealUpstream

LEMMA NothingFields ==
    /\ Nothing.verify = None /\ Nothing.settle = None
    /\ Nothing.delay = 0 /\ Nothing.options = {} /\ Nothing.real = FALSE
<1>1. Nothing.verify = None
    BY DEF Nothing
<1>2. Nothing.settle = None
    BY DEF Nothing
<1>3. Nothing.delay = 0
    BY DEF Nothing
<1>4. Nothing.options = {}
    BY DEF Nothing
<1>5. Nothing.real = FALSE
    BY DEF Nothing
<1> QED BY <1>1, <1>2, <1>3, <1>4, <1>5

\* Whatever mode a settlement is answered in, the reply is one of the gateway's.
LEMMA SettledStatus == Settled.status \in {200, 402, 502}
BY DEF Settled, Reply

LEMMA SellerTypes ==
    ASSUME AsConfigured
    PROVE  /\ seller.verify \in VerifyModes \cup {None} /\ seller.settle \in SettleModes \cup {None}
           /\ seller.delay \in Nat /\ seller.real \in BOOLEAN
<1>1. CASE outcome = "started"
    BY <1>1, GuardedModes DEF AsConfigured
<1>2. CASE outcome # "started"
  <2>1. seller = Nothing
      BY <1>2 DEF AsConfigured
  <2>2. seller.delay = 0 /\ seller.verify = None /\ seller.settle = None
      BY <2>1, NothingFields
  <2>3. seller.real \in BOOLEAN
      BY <2>1, NothingFields
  <2> QED BY <2>2, <2>3
<1> QED BY <1>1, <1>2

LEMMA NoWait ==
    /\ \A w, d : w = 0 /\ d \in Nat => w \in Nat /\ w <= d
    /\ \A w, d : w \in Nat /\ w <= d /\ d = 0 => w = 0
OBVIOUS

LEMMA SafeInit == Init => SafeInv
<1> SUFFICES ASSUME Init PROVE SafeInv
    OBVIOUS
<1>1. /\ outcome = "not started" /\ seller = Nothing /\ now = 0 /\ waited = 0
      /\ phase = "idle" /\ requests = 0 /\ reply.status = 0
    BY DEF Init, NoReply, Reply
<1>2. WaitOK
    BY <1>1, NothingFields, NoWait DEF WaitOK
<1>3. MaxTime \in Nat /\ MaxRequests \in Nat
    BY BoundsAssumption
<1>4. ClockOK /\ CountOK
  <2>1. now = 0 /\ requests = 0
      BY <1>1
  <2> QED BY <1>3, <2>1 DEF ClockOK, CountOK
<1>5. OutcomeOK /\ PhaseOK
    BY <1>1 DEF OutcomeOK, PhaseOK
<1>6. ReplyOK
  <2>1. reply.status = 0
      BY <1>1
  <2> QED BY <2>1 DEF ReplyOK
<1>7. AsConfigured
    BY <1>1 DEF AsConfigured
<1> QED BY <1>2, <1>4, <1>5, <1>6, <1>7 DEF SafeInv, RequestsOK

\* What a step leaves alone keeps its part of the invariant.
LEMMA PartsKept ==
    /\ OutcomeOK /\ UNCHANGED outcome => OutcomeOK'
    /\ ClockOK /\ UNCHANGED now => ClockOK'
    /\ WaitOK /\ UNCHANGED <<waited, seller>> => WaitOK'
    /\ PhaseOK /\ UNCHANGED phase => PhaseOK'
    /\ ReplyOK /\ UNCHANGED reply => ReplyOK'
    /\ CountOK /\ UNCHANGED requests => CountOK'
<1>1. OutcomeOK /\ UNCHANGED outcome => OutcomeOK'
    BY DEF OutcomeOK
<1>2. ClockOK /\ UNCHANGED now => ClockOK'
    BY DEF ClockOK
<1>3. WaitOK /\ UNCHANGED <<waited, seller>> => WaitOK'
    BY DEF WaitOK
<1>4. PhaseOK /\ UNCHANGED phase => PhaseOK'
    BY DEF PhaseOK
<1>5. ReplyOK /\ UNCHANGED reply => ReplyOK'
    BY DEF ReplyOK
<1>6. CountOK /\ UNCHANGED requests => CountOK'
    BY DEF CountOK
<1> QED BY <1>1, <1>2, <1>3, <1>4, <1>5, <1>6

LEMMA SafeStep == SafeInv /\ [Next]_vars => SafeInv'
<1> SUFFICES ASSUME SafeInv, [Next]_vars PROVE SafeInv'
    OBVIOUS
<1>1. AsConfigured /\ OutcomeOK /\ ClockOK /\ WaitOK /\ PhaseOK /\ ReplyOK /\ CountOK
    BY DEF SafeInv, RequestsOK
<1>2. /\ now \in 0..MaxTime /\ waited \in Nat /\ requests \in 0..MaxRequests
      /\ waited <= seller.delay /\ seller.delay \in Nat
      /\ MaxTime \in Nat /\ MaxRequests \in Nat
  <2>1. seller.delay \in Nat
      BY <1>1, SellerTypes
  <2> QED BY <1>1, <2>1, BoundsAssumption DEF ClockOK, WaitOK, CountOK
<1>3. CASE Start
  <2>1. UNCHANGED <<env, now, phase, waited, reply, requests>>
      BY <1>3 DEF Start
  <2>2. ClockOK' /\ PhaseOK' /\ ReplyOK' /\ CountOK'
      BY <1>1, <2>1, PartsKept
  <2>3. outcome = "not started" /\ seller.delay = 0 /\ waited = 0
    <3>1. outcome = "not started"
        BY <1>3 DEF Start
    <3>2. seller.delay = 0
        BY <1>1, <3>1, NothingFields DEF AsConfigured
    <3> QED BY <1>2, <3>1, <3>2, NoWait
  <2>4. CASE Refused(env)
    <3>1. outcome' = "refused" /\ UNCHANGED seller
        BY <1>3, <2>4 DEF Start
    <3>2. AsConfigured'
        BY <1>1, <2>3, <3>1 DEF AsConfigured
    <3>3. OutcomeOK'
        BY <3>1 DEF OutcomeOK
    <3>4. WaitOK'
        BY <1>1, <2>1, <3>1, PartsKept
    <3> QED BY <2>2, <3>2, <3>3, <3>4 DEF SafeInv, RequestsOK
  <2>5. CASE ~Refused(env)
    <3>1. /\ outcome' = "started"
          /\ seller' = [ verify |-> VerifyMode(env), settle |-> SettleMode(env),
                         delay |-> Delay(env), options |-> Elements(env.options),
                         real |-> RealUpstream(env) ]
        BY <1>3, <2>5, Zenon DEF Start
    <3>2. /\ seller'.verify = VerifyMode(env) /\ seller'.settle = SettleMode(env)
          /\ seller'.delay = Delay(env) /\ seller'.options = Elements(env.options)
          /\ seller'.real = RealUpstream(env)
        BY <3>1
    <3>3. AsConfigured'
      <4>1. env' = env
          BY <2>1
      <4> QED BY <2>5, <3>1, <3>2, <4>1 DEF AsConfigured
    <3>4. OutcomeOK'
        BY <3>1 DEF OutcomeOK
    <3>5. WaitOK'
      <4>1. seller'.delay \in Nat
          BY <2>5, <3>2, GuardedModes
      <4>2. waited' = 0
          BY <2>1, <2>3
      <4> QED BY <4>1, <4>2, NoWait DEF WaitOK
    <3> QED BY <2>2, <3>3, <3>4, <3>5 DEF SafeInv, RequestsOK
  <2> QED BY <2>4, <2>5
<1>4. ASSUME UNCHANGED <<env, outcome, seller>>,
             ClockOK', WaitOK', PhaseOK', ReplyOK', CountOK'
      PROVE  SafeInv'
  <2>1. AsConfigured'
      BY <1>1, <1>4 DEF AsConfigured
  <2>2. OutcomeOK'
      BY <1>1, <1>4, PartsKept
  <2> QED BY <1>4, <2>1, <2>2 DEF SafeInv, RequestsOK
<1>5. CASE Request
  <2>1. /\ UNCHANGED <<env, outcome, seller, now, waited>> /\ phase' = "verify"
        /\ requests < MaxRequests /\ requests' = requests + 1 /\ reply'.status = 0
      BY <1>5 DEF Request, NoReply, Reply
  <2>2. ClockOK' /\ WaitOK'
      BY <1>1, <2>1, PartsKept
  <2>3. CountOK'
      BY <1>2, <2>1 DEF CountOK
  <2>4. PhaseOK'
      BY <2>1 DEF PhaseOK
  <2>5. ReplyOK'
      BY <2>1 DEF ReplyOK
  <2> QED BY <1>4, <2>1, <2>2, <2>3, <2>4, <2>5
<1>6. CASE Verify
  <2>1. /\ UNCHANGED <<env, outcome, seller, now, waited, requests>>
        /\ phase' \in {"idle", "forward"}
        /\ reply' = reply \/ reply'.status = 402
      BY <1>6 DEF Verify, Reply
  <2>2. ClockOK' /\ WaitOK' /\ CountOK'
      BY <1>1, <2>1, PartsKept
  <2>3. PhaseOK'
      BY <2>1 DEF PhaseOK
  <2>4. ReplyOK'
    <3>1. CASE reply' = reply
        BY <1>1, <3>1, PartsKept
    <3>2. CASE reply'.status = 402
        BY <3>2 DEF ReplyOK
    <3> QED BY <2>1, <3>1, <3>2
  <2> QED BY <1>4, <2>1, <2>2, <2>3, <2>4
<1>7. CASE Forward
  <2>1. /\ UNCHANGED <<env, outcome, seller, now, reply, requests>>
        /\ phase' = "settle" /\ waited' = 0
      BY <1>7 DEF Forward
  <2>2. ClockOK' /\ ReplyOK' /\ CountOK'
      BY <1>1, <2>1, PartsKept
  <2>3. WaitOK'
      BY <1>2, <2>1, NoWait DEF WaitOK
  <2>4. PhaseOK'
      BY <2>1 DEF PhaseOK
  <2> QED BY <1>4, <2>1, <2>2, <2>3, <2>4
<1>8. CASE Settle
  <2>1. /\ UNCHANGED <<env, outcome, seller, now, waited, requests>>
        /\ phase' = "idle" /\ reply' = Settled
      BY <1>8 DEF Settle
  <2>2. ClockOK' /\ WaitOK' /\ CountOK'
      BY <1>1, <2>1, PartsKept
  <2>3. PhaseOK'
      BY <2>1 DEF PhaseOK
  <2>4. ReplyOK'
    <3>1. reply'.status = Settled.status
        BY <2>1
    <3> QED BY <3>1, SettledStatus DEF ReplyOK
  <2> QED BY <1>4, <2>1, <2>2, <2>3, <2>4
<1>9. CASE Tick
  <2>1. /\ UNCHANGED <<env, outcome, seller, phase, reply, requests>>
        /\ now' = now \/ (now < MaxTime /\ now' = now + 1)
        /\ waited' = waited \/ (waited < seller.delay /\ waited' = waited + 1)
      BY <1>9 DEF Tick
  <2>2. PhaseOK' /\ ReplyOK' /\ CountOK'
      BY <1>1, <2>1, PartsKept
  <2>3. ClockOK'
      BY <1>2, <2>1 DEF ClockOK
  <2>4. WaitOK'
      BY <1>2, <2>1 DEF WaitOK
  <2> QED BY <1>4, <2>1, <2>2, <2>3, <2>4
<1>10. CASE UNCHANGED vars
  <2>1. UNCHANGED <<env, outcome, seller, now, phase, waited, reply, requests>>
      BY <1>10 DEF vars
  <2>2. ClockOK' /\ WaitOK' /\ PhaseOK' /\ ReplyOK' /\ CountOK'
      BY <1>1, <2>1, PartsKept
  <2> QED BY <1>4, <2>1, <2>2
<1> QED BY <1>3, <1>5, <1>6, <1>7, <1>8, <1>9, <1>10 DEF Next

\* What runs was let past the guards (main.rs and config.rs of the development
\* seller): it proxies to a real upstream only behind a check of the payment or an
\* acknowledgement, and sells on no chain where a payment is worth something.
THEOREM StartIsSafe == Spec => []StartsSafely
<1>1. SafeInv => NothingIsGivenAway
  <2> SUFFICES ASSUME SafeInv PROVE NothingIsGivenAway
      OBVIOUS
  <2>1. CASE outcome = "started"
    <3>1. /\ ~Refused(env) /\ seller.verify = VerifyMode(env)
          /\ seller.options = Elements(env.options) /\ seller.real = RealUpstream(env)
        BY <2>1 DEF SafeInv, AsConfigured
    <3>2. ~OpenProxy(env) /\ ~BadOffers(env)
        BY <3>1 DEF Refused
    <3>3. seller.real /\ seller.verify = "accept" => env.ack = One
        BY <3>1, <3>2 DEF OpenProxy
    <3>4. ASSUME NEW o \in seller.options
          PROVE  /\ o.network \in EvmTestnets \cup OtherTestnets
                 /\ IsEvm(o.network) => o.payTo \in Addresses
                 /\ o.payTo # PlaceholderAddress
        BY <3>1, <3>2, <3>4 DEF BadOffers, HasRecipient
    <3> QED BY <3>3, <3>4 DEF NothingIsGivenAway
  <2>2. CASE outcome # "started"
      BY <2>2 DEF SafeInv, AsConfigured, Nothing, NothingIsGivenAway
  <2> QED BY <2>1, <2>2
<1>2. SafeInv => StartsSafely
  <2> SUFFICES ASSUME SafeInv PROVE TypeOK
      BY <1>1 DEF StartsSafely
  <2>1. /\ seller.verify \in VerifyModes \cup {None}
        /\ seller.settle \in SettleModes \cup {None}
        /\ seller.delay \in Nat /\ seller.real \in BOOLEAN
      BY SellerTypes DEF SafeInv
  <2>2. waited \in Nat /\ waited <= seller.delay
      BY DEF SafeInv, RequestsOK, WaitOK
  <2>3. waited \in 0..seller.delay
      BY <2>1, <2>2
  <2> QED BY <2>1, <2>3, Zenon DEF SafeInv, RequestsOK, OutcomeOK, ClockOK, PhaseOK,
                                   ReplyOK, CountOK, TypeOK
<1> QED BY <1>2, SafeInit, SafeStep, PTL DEF Spec
=============================================================================
