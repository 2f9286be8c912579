------------------------------ MODULE Gateway ------------------------------
(***************************************************************************)
(* The toll booth (obolus/src/gateway.rs): what one completion request     *)
(* goes through, from its arrival at the handler to the telemetry event    *)
(* that records it, with every await a point where other requests, the     *)
(* facilitator, the clock and a client that hangs up may get in between.   *)
(*                                                                         *)
(* The handler is asynchronous and single-stepped between awaits, so each  *)
(* stretch of code from one await to the next is one action.  The          *)
(* facilitator and the origin are the environment: a settle call is out    *)
(* of the gateway's hands once sent, and may move funds long after the     *)
(* gateway has stopped waiting for its answer.                             *)
(***************************************************************************)
EXTENDS Facilitator, Integers

CONSTANTS
    Requests,            \* completion requests, each handled once
    Payments,            \* signed authorizations; requests may present the same one
    Options,             \* the advertised (scheme, network) pairs
    Quotes,              \* the price lists the determiner may have in force
    Accepted,            \* the offer each payment was signed for
    Forms,               \* the shapes of request the clients send
    Window,              \* maxTimeoutSeconds of each option
    Reserve,             \* SETTLE_RESERVE_SECS
    FacilitatorTimeout,  \* DelegatedFacilitator.timeout, on each call
    HeadTimeout,         \* OllamaUpstream.head_timeout
    ModelRatesRequired,  \* Gateway.model_rates_required
    Malformed,           \* a payment header that does not decode
    None                 \* Rust's Option::None

Offers == [option : Options, amount : Nat]

FormSet ==
    [ambiguous : BOOLEAN,                           \* a case variant of a key
     routed    : BOOLEAN,                           \* Backends::route finds one
     bearer    : {"none", "refused", "honoured"},   \* as TokenPath::verify says
     bounded   : BOOLEAN,                           \* passes output_cap_refusal
     rated     : BOOLEAN,                           \* model_rate finds a rate
     payment   : Payments \cup {Malformed, None},   \* the PAYMENT-SIGNATURE header
     agrees    : BOOLEAN]                           \* extra and extensions are plain

ASSUME QuotesAssumption == Quotes \subseteq [Options -> Nat]
ASSUME AcceptedAssumption == Accepted \in [Payments -> Offers]
ASSUME FormsAssumption == Forms \subseteq FormSet
\* Gateway::new refuses a window that is no longer than the reserve.
ASSUME TimesAssumption ==
    /\ Reserve \in Nat
    /\ Window \in [Options -> Nat]
    /\ \A o \in Options : Window[o] > Reserve
    /\ FacilitatorTimeout \in Nat \ {0}
    /\ HeadTimeout \in Nat \ {0}
ASSUME SwitchAssumption == ModelRatesRequired \in BOOLEAN
ASSUME NoneAssumption ==
    /\ Malformed # None
    /\ {Malformed, None} \cap Payments = {}
    /\ None \notin Offers

VARIABLES
    pc,         \* where each request's handler is
    payment,    \* the payment each request presented
    trace,      \* each request's telemetry::Trace
    answer,     \* the last facilitator answer each request got
    response,   \* what the client was sent
    event,      \* the RequestEvent recorded
    age,        \* time since arrival, while the handler runs
    wait,       \* time in the current await
    prices,     \* the price list in force
    forwarded,  \* requests whose body was sent to the origin
    flying,     \* settle calls whose fate at the facilitator is open
    ledger      \* settle calls that moved funds

handler == <<pc, payment, trace, answer, response, event>>
clocks  == <<age, wait>>
world   == <<prices, forwarded, flying, ledger>>
vars    == <<handler, clocks, world>>

\* The awaits of serve() and paid_completion().
Awaits == {"verifying", "forwarding", "settling", "serving"}

Outcomes ==
    {"Unroutable", "AmbiguousKey", "OutputCapRefused", "UnpricedModel", "Served",
     "PaymentRequired", "PaymentMalformed", "OptionUnmatched", "VerifyRejected",
     "VerifyUnavailable", "UpstreamUnavailable", "UpstreamRefused",
     "PaymentWindowElapsed", "SettleRejected", "SettleUnavailable", "Settled",
     "Abandoned"}

Traces ==
    [access           : {"none", "Token", "Payment"},
     paid             : Offers \cup {None},
     upstream_invoked : BOOLEAN,
     upstream_status  : {"none", "success", "error"},
     settle_attempted : BOOLEAN]

EmptyTrace ==
    [access |-> "none", paid |-> None, upstream_invoked |-> FALSE,
     upstream_status |-> "none", settle_attempted |-> FALSE]

Calls == [request : Requests, payment : Payments, offer : Offers]
-----------------------------------------------------------------------------
(***************************************************************************)
(* Accounting and replies.                                                 *)
(***************************************************************************)

\* Mutant: the cost is taken to be incurred once the head has arrived.
CostOfAnsweredWork(t) == IF t.upstream_status # "none" THEN "declared" ELSE "zero"

\* A declared cost is incurred exactly when the upstream was called.
Cost(t) == IF t.upstream_invoked THEN "declared" ELSE "zero"

Known(amount) == [known |-> TRUE, amount |-> amount]
Unknown == [known |-> FALSE, amount |-> 0]

\* Mutant: a request abandoned while it settles is booked as a loss.
RevenueOfTheServed(t, outcome) ==
    CASE outcome = "Settled"           -> Known(t.paid.amount)
      [] outcome = "SettleUnavailable" -> Unknown
      [] OTHER                         -> Known(0)

\* Mutant: an amount that is not known is put down as minus one.
RevenueWithSentinel(t, outcome) ==
    CASE outcome = "Settled"           -> Known(t.paid.amount)
      [] outcome = "SettleUnavailable" -> Known(-1)
      [] OTHER                         -> Known(0)

\* Mutant: a settlement that was asked for is revenue, whatever came of it.
RevenueOnceAsked(t, outcome) == Known(IF t.settle_attempted THEN t.paid.amount ELSE 0)

Revenue(t, outcome) ==
    CASE outcome = "Settled"                          -> Known(t.paid.amount)
      [] outcome = "SettleUnavailable"                -> Unknown
      [] outcome = "Abandoned" /\ t.settle_attempted  -> Unknown
      [] OTHER                                        -> Known(0)

Event(t, outcome) ==
    [outcome |-> outcome, cost |-> Cost(t), revenue |-> Revenue(t, outcome)]

Events ==
    [outcome : Outcomes, cost : {"declared", "zero"},
     revenue : [known : BOOLEAN, amount : Nat]]

\* 402 for what the client can mend by paying, 502 and 504 for what it cannot; an origin's
\* refusal keeps its status.  A model nobody serves is a 404, none at all a 400.
Status(outcome) ==
    CASE outcome \in {"Settled", "Served"}                           -> "200"
      [] outcome = "UpstreamRefused"                                 -> "upstream"
      [] outcome = "Unroutable"                                      -> "400 or 404"
      [] outcome \in {"AmbiguousKey", "OutputCapRefused",
                      "UnpricedModel"}                               -> "400"
      [] outcome \in {"PaymentRequired", "PaymentMalformed", "OptionUnmatched",
                      "VerifyRejected", "SettleRejected"}            -> "402"
      [] outcome = "PaymentWindowElapsed"                            -> "504"
      [] OTHER                                                       -> "502"

Receipt(outcome) ==
    CASE outcome = "Settled"        -> "success"
      [] outcome = "SettleRejected" -> "failure"
      [] OTHER                      -> "none"

Responses ==
    [status  : {"200", "upstream", "400", "400 or 404", "402", "502", "504"},
     receipt : {"success", "failure", "none"}]

\* None is none of the values it may stand in for.
ASSUME AbsenceAssumption == None \notin Answers \cup Events \cup Responses

\* A client that is gone gets nothing.
Response(outcome) ==
    IF outcome = "Abandoned" THEN None
    ELSE [status |-> Status(outcome), receipt |-> Receipt(outcome)]
-----------------------------------------------------------------------------
(***************************************************************************)
(* From arrival to the first await: everything the code decides without    *)
(* asking anybody, in the order it decides it.                             *)
(***************************************************************************)

\* Gateway::priced: the options keep their identity, only the amount is quoted.
Priced(list) == {[option |-> o, amount |-> list[o]] : o \in Options}

\* Mutant: scheme and network match, the amount is not compared.
AcceptedForAnyAmount(offered, p) == {o \in offered : o.option = Accepted[p].option}

\* accepted_for: the offers a payment matches in full.
AcceptedFor(offered, p) == {o \in offered : o = Accepted[p]}

\* The outcome of the checks, or the await they lead to.
Screen(form, offered) ==
    IF form.ambiguous                            THEN "AmbiguousKey"
    ELSE IF ~form.routed                         THEN "Unroutable"
    ELSE IF form.bearer = "honoured"             THEN "serving"
    ELSE IF ~form.bounded                        THEN "OutputCapRefused"
    ELSE IF ModelRatesRequired /\ ~form.rated    THEN "UnpricedModel"
    ELSE IF form.payment = None                  THEN "PaymentRequired"
    ELSE IF form.payment = Malformed             THEN "PaymentMalformed"
    ELSE IF AcceptedFor(offered, form.payment) = {} \/ ~form.agrees
                                                 THEN "OptionUnmatched"
    ELSE "verifying"

AccessPath(form) ==
    CASE form.ambiguous \/ ~form.routed -> "none"
      [] form.bearer = "honoured"       -> "Token"
      [] OTHER                          -> "Payment"

\* The trace as the checks leave it.
ScreenedTrace(form, offered) ==
    [access           |-> AccessPath(form),
     paid             |-> IF Screen(form, offered) = "verifying"
                          THEN CHOOSE o \in AcceptedFor(offered, form.payment) : TRUE
                          ELSE None,
     upstream_invoked |-> Screen(form, offered) = "serving",
     upstream_status  |-> "none",
     settle_attempted |-> FALSE]
-----------------------------------------------------------------------------
(***************************************************************************)
(* The handler's steps.                                                    *)
(***************************************************************************)

\* The handler suspends: its trace is written, its new wait begins.
Suspend(r, await, t) ==
    /\ pc' = [pc EXCEPT ![r] = await]
    /\ trace' = [trace EXCEPT ![r] = t]
    /\ wait' = [wait EXCEPT ![r] = 0]
    /\ UNCHANGED <<age, response, event>>

\* The handler ends: Recorder::drop derives the event, the client is answered.
Finish(r, t, outcome) ==
    /\ pc' = [pc EXCEPT ![r] = "done"]
    /\ trace' = [trace EXCEPT ![r] = t]
    /\ response' = [response EXCEPT ![r] = Response(outcome)]
    /\ event' = [event EXCEPT ![r] = Event(t, outcome)]
    /\ age' = [age EXCEPT ![r] = 0]
    /\ wait' = [wait EXCEPT ![r] = 0]

\* completion() and serve(), up to the first await.
Arrive(r) ==
    /\ pc[r] = "idle"
    /\ \E form \in Forms :
        LET offered == Priced(prices)
            next    == Screen(form, offered)
            t       == ScreenedTrace(form, offered)
        IN  /\ payment' = [payment EXCEPT ![r] = form.payment]
            /\ forwarded' = IF next = "serving" THEN forwarded \cup {r} ELSE forwarded
            /\ \/ next \in Awaits /\ Suspend(r, next, t)
               \/ next \in Outcomes /\ Finish(r, t, next)
    /\ UNCHANGED <<answer, prices, flying, ledger>>

\* Mutant: the whole window may pass before settlement starts.
BudgetWithoutReserve(t) == Window[t.paid.option]

\* How long after arrival the head may still come: the matched option's window
\* less the reserve.
Budget(t) == Window[t.paid.option] - Reserve

\* paid_completion() from the answer to /verify to the next await.
AfterVerify(r, a) ==
    LET t == trace[r] IN
    /\ pc[r] = "verifying"
    /\ answer' = [answer EXCEPT ![r] = a]
    /\ \/ /\ VerifyVerdict(a) = "Ok"
          /\ age[r] < Budget(t)
          /\ Suspend(r, "forwarding", [t EXCEPT !.upstream_invoked = TRUE])
          /\ forwarded' = forwarded \cup {r}
       \/ /\ VerifyVerdict(a) = "Ok"
          /\ age[r] >= Budget(t)
          /\ Finish(r, t, "PaymentWindowElapsed")
          /\ UNCHANGED forwarded
       \/ /\ VerifyVerdict(a) = "Refused"
          /\ Finish(r, t, "VerifyRejected")
          /\ UNCHANGED forwarded
       \/ /\ VerifyVerdict(a) = "Unavailable"
          /\ Finish(r, t, "VerifyUnavailable")
          /\ UNCHANGED forwarded
    /\ UNCHANGED <<payment, prices, flying, ledger>>

VerifyAnswered(r) == \E a \in Answers : AfterVerify(r, a)

VerifyTimesOut(r) ==
    /\ wait[r] = FacilitatorTimeout
    /\ AfterVerify(r, Incomplete)

\* The settle call a request makes: the payment, against the option it matched.
Call(r) == [request |-> r, payment |-> payment[r], offer |-> trace[r].paid]

\* Mutant: settle on any head, without looking at its status.
HeadArrivesUnread(r) ==
    /\ pc[r] = "forwarding"
    /\ \E status \in {"success", "error"} :
        Suspend(r, "settling", [trace[r] EXCEPT !.upstream_status = status,
                                                !.settle_attempted = TRUE])
    /\ flying' = flying \cup {Call(r)}
    /\ UNCHANGED <<payment, answer, prices, forwarded, ledger>>

\* The upstream's head reaches a paying request: settle on success, else hand it on.
HeadArrives(r) ==
    /\ pc[r] = "forwarding"
    /\ \/ /\ Suspend(r, "settling", [trace[r] EXCEPT !.upstream_status = "success",
                                                     !.settle_attempted = TRUE])
          /\ flying' = flying \cup {Call(r)}
       \/ /\ Finish(r, [trace[r] EXCEPT !.upstream_status = "error"], "UpstreamRefused")
          /\ UNCHANGED flying
    /\ UNCHANGED <<payment, answer, prices, forwarded, ledger>>

\* The same on the token path, where the head is all there is to wait for.
TokenHeadArrives(r) ==
    /\ pc[r] = "serving"
    /\ \/ Finish(r, [trace[r] EXCEPT !.upstream_status = "success"], "Served")
       \/ Finish(r, [trace[r] EXCEPT !.upstream_status = "error"], "UpstreamRefused")
    /\ UNCHANGED <<payment, answer, world>>

\* The origin cannot be reached, or its connection breaks before the head.
UpstreamFails(r) ==
    /\ pc[r] \in {"forwarding", "serving"}
    /\ Finish(r, trace[r], "UpstreamUnavailable")
    /\ UNCHANGED <<payment, answer, world>>

\* OllamaUpstream's own deadline for the head; reported like any other failure.
HeadTimesOut(r) ==
    /\ wait[r] = HeadTimeout
    /\ UpstreamFails(r)

\* The payment's clock runs out before the head.  tokio's timeout polls the
\* forward first, so a head deadline that fires in the same instant wins.
WindowElapses(r) ==
    /\ pc[r] = "forwarding"
    /\ age[r] = Budget(trace[r])
    /\ wait[r] < HeadTimeout
    /\ Finish(r, trace[r], "PaymentWindowElapsed")
    /\ UNCHANGED <<payment, answer, world>>

\* Mutant: a settle call that got no answer is sent again.
AfterSettleRetrying(r, a) ==
    /\ pc[r] = "settling"
    /\ answer' = [answer EXCEPT ![r] = a]
    /\ \/ /\ a = Incomplete
          /\ Suspend(r, "settling", trace[r])
          /\ flying' = flying \cup {Call(r)}
       \/ /\ a # Incomplete
          /\ Finish(r, trace[r], IF SettleVerdict(a) = "Ok" THEN "Settled"
                                 ELSE "SettleUnavailable")
          /\ UNCHANGED flying
    /\ UNCHANGED <<payment, prices, forwarded, ledger>>

\* paid_completion() from the answer to /settle to its end.
AfterSettle(r, a) ==
    /\ pc[r] = "settling"
    /\ answer' = [answer EXCEPT ![r] = a]
    /\ \/ SettleVerdict(a) = "Ok" /\ Finish(r, trace[r], "Settled")
       \/ SettleVerdict(a) = "Refused" /\ Finish(r, trace[r], "SettleRejected")
       \/ SettleVerdict(a) = "Unavailable" /\ Finish(r, trace[r], "SettleUnavailable")
    /\ UNCHANGED <<payment, world>>

\* What the facilitator may truthfully answer while the call stands as it does.
\* Only a verdict the gateway is entitled to read binds it.
Truthful(r, a) ==
    Authoritative(a) =>
        /\ a.body = "yes" => \E c \in ledger : c.request = r
        /\ a.body = "no" => \A c \in flying \cup ledger : c.request # r

SettleAnswered(r) == \E a \in Answers : Truthful(r, a) /\ AfterSettle(r, a)

SettleTimesOut(r) ==
    /\ wait[r] = FacilitatorTimeout
    /\ AfterSettle(r, Incomplete)

\* The client hangs up: the server drops the handler wherever it is suspended.
Disconnect(r) ==
    /\ pc[r] \in Awaits
    /\ Finish(r, trace[r], "Abandoned")
    /\ UNCHANGED <<payment, answer, world>>
-----------------------------------------------------------------------------
(***************************************************************************)
(* The environment.                                                        *)
(***************************************************************************)

\* The transfer executes.  An authorization's nonce can be used once.
Land(c) ==
    /\ c \in flying
    /\ \A d \in ledger : d.payment # c.payment
    /\ ledger' = ledger \cup {c}
    /\ flying' = flying \ {c}
    /\ UNCHANGED <<handler, clocks, prices, forwarded>>

\* The call is lost, refused or reverted: it will never move funds.
Fall(c) ==
    /\ c \in flying
    /\ flying' = flying \ {c}
    /\ UNCHANGED <<handler, clocks, prices, forwarded, ledger>>

\* A promotion starts or ends: later requests are quoted from another list.
Reprice ==
    /\ prices' \in Quotes
    /\ UNCHANGED <<handler, clocks, forwarded, flying, ledger>>

\* Mutant: the facilitator client is built without a timeout.
DueUnlessCalling(r) ==
    \/ pc[r] \in {"forwarding", "serving"} /\ wait[r] >= HeadTimeout
    \/ pc[r] = "forwarding" /\ age[r] >= Budget(trace[r])

\* A timer of r's current await has run out.
Due(r) ==
    \/ pc[r] \in {"verifying", "settling"} /\ wait[r] >= FacilitatorTimeout
    \/ pc[r] \in {"forwarding", "serving"} /\ wait[r] >= HeadTimeout
    \/ pc[r] = "forwarding" /\ age[r] >= Budget(trace[r])

\* Time passes.  The runtime polls a handler whose timer is due before the
\* clock moves again.
Tick ==
    /\ \A r \in Requests : ~Due(r)
    /\ age'  = [r \in Requests |-> IF pc[r] \in Awaits THEN age[r] + 1 ELSE age[r]]
    /\ wait' = [r \in Requests |-> IF pc[r] \in Awaits THEN wait[r] + 1 ELSE wait[r]]
    /\ UNCHANGED <<handler, world>>
-----------------------------------------------------------------------------
Init ==
    /\ pc = [r \in Requests |-> "idle"]
    /\ payment = [r \in Requests |-> None]
    /\ trace = [r \in Requests |-> EmptyTrace]
    /\ answer = [r \in Requests |-> None]
    /\ response = [r \in Requests |-> None]
    /\ event = [r \in Requests |-> None]
    /\ age = [r \in Requests |-> 0]
    /\ wait = [r \in Requests |-> 0]
    /\ prices \in Quotes
    /\ forwarded = {}
    /\ flying = {}
    /\ ledger = {}

\* Mutant: nothing ends a settlement that is never answered.
ExpireUnlessSettling(r) == VerifyTimesOut(r) \/ HeadTimesOut(r) \/ WindowElapses(r)

\* What the runtime owes a request whose timer is due.
Expire(r) ==
    \/ VerifyTimesOut(r)
    \/ HeadTimesOut(r)
    \/ WindowElapses(r)
    \/ SettleTimesOut(r)

Handle(r) ==
    \/ Arrive(r)
    \/ VerifyAnswered(r)
    \/ HeadArrives(r)
    \/ TokenHeadArrives(r)
    \/ UpstreamFails(r)
    \/ SettleAnswered(r)
    \/ Disconnect(r)
    \/ Expire(r)

Next ==
    \/ \E r \in Requests : Handle(r)
    \/ \E c \in flying : Land(c) \/ Fall(c)
    \/ Reprice
    \/ Tick

\* Nobody owes the gateway an answer; the clock and the timers do run.
Fairness == WF_vars(Tick) /\ \A r \in Requests : WF_vars(Expire(r))

Spec == Init /\ [][Next]_vars /\ Fairness
-----------------------------------------------------------------------------
(***************************************************************************)
(* Correctness.                                                            *)
(***************************************************************************)

\* Every variable keeps to its type.
TypeOK ==
    /\ pc \in [Requests -> Awaits \cup {"idle", "done"}]
    /\ payment \in [Requests -> Payments \cup {Malformed, None}]
    /\ trace \in [Requests -> Traces]
    /\ answer \in [Requests -> Answers \cup {None}]
    /\ response \in [Requests -> Responses \cup {None}]
    /\ event \in [Requests -> Events \cup {None}]
    /\ age \in [Requests -> Nat]
    /\ wait \in [Requests -> Nat]
    /\ prices \in Quotes
    /\ forwarded \subseteq Requests
    /\ flying \subseteq Calls
    /\ ledger \subseteq Calls

Ended(r) == event[r] # None

\* Settlement is only ever asked for while at least Reserve of the matched
\* option's window is left, counted from arrival, however long verify and the
\* origin took between them (paid_completion's remaining budget).
SettlesInsideWindow ==
    \A r \in Requests :
        pc[r] = "settling" =>
            (age[r] - wait[r]) + Reserve <= Window[trace[r].paid.option]

\* Funds move, now or later, only for a request whose origin committed to a
\* successful answer before the settle call was made: a payment is never taken
\* for work nobody started (the order verify, head, settle).
ChargesOnlyCommittedWork ==
    \A c \in flying \cup ledger :
        /\ trace[c.request].upstream_status = "success"
        /\ c.request \in forwarded

\* What a payer is charged is the offer the payer accepted, whatever became of
\* the price list between the challenge, the retry and the settlement.
ChargesWhatWasAccepted ==
    \A c \in flying \cup ledger : c.offer = Accepted[c.payment]

\* No transfer is asked for that is not both earned and agreed to, also when the
\* request that asked has long ended and the answer to it was lost.
ChargesAreRightful == ChargesOnlyCommittedWork /\ ChargesWhatWasAccepted

\* A payment buys one answer: of the requests that present it at the same time
\* or one after the other, at most one is served paid work.
OnePaymentOneAnswer ==
    \A r, s \in Requests :
        /\ Ended(r) /\ event[r].outcome = "Settled"
        /\ Ended(s) /\ event[s].outcome = "Settled"
        /\ payment[r] = payment[s]
        => r = s

\* Paid work is handed out exactly for settled requests, and each of those has a
\* transfer of its own behind it (paid_completion reads the receipt, not Ok(_)).
PaidAnswersArePaidFor ==
    \A r \in Requests :
        Ended(r) /\ trace[r].access = "Payment" /\ response[r] # None =>
            (response[r].status = "200" <=>
                event[r].outcome = "Settled" /\ \E c \in ledger : c.request = r)

\* The revenue on record is honest for good.  An amount was moved by this
\* request's own settle call; "0" means no call of it moved funds or still may;
\* null is kept for a settlement whose fate the gateway was never told.
RevenueIsHonest ==
    \A r \in Requests :
        LET mine  == {c \in flying \cup ledger : c.request = r}
            known == event[r].revenue.known
        IN  Ended(r) =>
                /\ known /\ event[r].outcome = "Settled" =>
                       /\ mine \subseteq ledger
                       /\ \E c \in mine : c.offer.amount = event[r].revenue.amount
                /\ known /\ event[r].outcome # "Settled" =>
                       event[r].revenue.amount = 0 /\ mine = {}
                /\ ~known => trace[r].settle_attempted

\* The cost on record covers the work: it is declared exactly when the body was
\* sent to an origin, also when the gateway gave up on it or the client left.
CostCoversTheWork ==
    \A r \in Requests :
        Ended(r) => (event[r].cost = "declared" <=> r \in forwarded)

\* What is paid for and what is served agree, for each request and for each payment.
ServedIsPaidFor == PaidAnswersArePaidFor /\ OnePaymentOneAnswer

\* The books are true: what came in and what went out.
BooksAreTrue == RevenueIsHonest /\ CostCoversTheWork

\* Blame is put where it belongs.  A 402 after a payment matched means that the
\* facilitator evaluated that payment and said no; a 504, whose text says that
\* nothing was charged, means that no settle call was ever made.
BlameIsEarned ==
    \A r \in Requests :
        response[r] # None =>
            /\ response[r].status = "402" /\ trace[r].paid # None =>
                   answer[r] # None /\ Authoritative(answer[r])
                                   /\ answer[r].body \in {"no", "pending"}
            /\ response[r].status = "504" =>
                   /\ ~trace[r].settle_attempted
                   /\ \A c \in flying \cup ledger : c.request # r

\* No await outlives what its timers add up to (docs/exposure.md: "about twice
\* the window"): verify has the facilitator's timeout, the head of a paid answer
\* shares the window with it, settle has a timeout of its own on top, and a
\* token request has the head timeout alone.
AnswerIsBounded ==
    \A r \in Requests :
        /\ pc[r] = "verifying"  => age[r] <= FacilitatorTimeout
        /\ pc[r] = "forwarding" => age[r] <= Budget(trace[r])
        /\ pc[r] = "settling"   => age[r] <= Budget(trace[r]) + FacilitatorTimeout
        /\ pc[r] = "serving"    => age[r] <= HeadTimeout

\* Once recorded, an event is never revised, and no step starts a second settle
\* call for a request that has one (no retry of POST /settle).
RecordedOnceSettledOnce ==
    [][\A r \in Requests :
          /\ event[r] # None => event'[r] = event[r]
          /\ trace[r].settle_attempted =>
                {c \in flying' : c.request = r} \subseteq {c \in flying : c.request = r}
      ]_vars

\* How each request's end reads to its payer.
Reply(r) ==
    CASE ~Ended(r)                                               -> None
      [] Ended(r) /\ event[r].outcome = "Settled"                -> "paid"
      [] Ended(r) /\ event[r].outcome = "Served"                 -> "free"
      [] Ended(r) /\ event[r].outcome \in {"SettleUnavailable",
                                           "Abandoned"}          -> "gaveUp"
      [] OTHER                                                   -> "refused"

Booth == INSTANCE TollBooth WITH
    asked   <- {r \in Requests : trace[r].settle_attempted},
    owed    <- flying,
    charged <- ledger,
    reply   <- [r \in Requests |-> Reply(r)]

\* The gateway keeps the abstract booth's promises: one transfer asked for per
\* request, at the accepted offer, before any reply; paid work only on a transfer
\* of one's own; every reply but a 502 of settle and a hang-up is final about the
\* money.
ImplementsTollBooth == Booth!Spec

\* Every request that arrives is recorded, with a facilitator, an origin and a
\* client that need never say another word.
EveryRequestIsRecorded ==
    \A r \in Requests : pc[r] # "idle" ~> event[r] # None

\* docs/architecture.md, "A paid request": a failed settlement serves nothing and
\* charges nothing.
FailedSettlementChargesNothing ==
    \A r \in Requests :
        Ended(r) /\ event[r].outcome \in {"SettleRejected", "SettleUnavailable"} =>
            \A c \in ledger : c.request # r
=============================================================================
