-------------------------------- MODULE Shop --------------------------------
(***************************************************************************)
(* How a gateway comes to quote a price: the part of start-up that reads   *)
(* the backends, the payment options and the rate out of the environment   *)
(* (obolus/src/main.rs, config.rs), one refusable door after another, and  *)
(* the request path up to the quote (gateway.rs), under a clock that may   *)
(* cross a promotion's bounds between any two of these steps.              *)
(***************************************************************************)
EXTENDS Backends

CONSTANTS
    Environments,   \* the environments the operator may start the gateway in
    Forms,          \* the requests clients send
    DefaultId,      \* the id of the backend OBOLUS_UPSTREAM_URL declares
    DefaultPrice,   \* OBOLUS_PRICE when unset
    DefaultCap,     \* DEFAULT_MAX_OUTPUT_TOKENS
    Unreadable,     \* a backends file that cannot be read
    NotUnicode,     \* a variable that std::env::var reports as an error
    MaxTime         \* bound: the last instant of the clock

\* A variable that holds a number when it parses, and in its type's range.
Numbers == Amounts \cup {None, Junk, NotUnicode}

EnvironmentSet ==
    [backendsFile : {None, Blank, Unreadable, Junk, NotUnicode} \cup Seq(Entries),
     upstreamUrl  : {None, NotUnicode, "http", "other"},
     modelRates   : {None, Blank, Junk, NotUnicode} \cup Seq(RateEntries),
     upstreamCost : Numbers,
     accepts      : {None, Blank, Junk, NotUnicode} \cup Seq(Amounts),
     singleChain  : BOOLEAN,    \* any of NETWORK, ASSET, PAY_TO, EXTRA
     price        : Numbers,
     pricing      : {None, Junk, NotUnicode, "static", "cost-plus", "token"},
     margin       : Numbers,
     discount     : Numbers,
     start        : Numbers,
     end          : Numbers,
     cap          : Numbers]

\* What RequestShape tells the gateway of a body: the model, its length, the
\* limit it asks for, and whether something in it could lift that limit.
FormSet ==
    [ambiguous : BOOLEAN, model : Models \cup {None}, bytes : Nat,
     max_tokens : Nat \cup {None, Junk}, whole : BOOLEAN, lifts : BOOLEAN]

ASSUME EnvironmentsAssumption == Environments \subseteq EnvironmentSet
\* A limit is read from the body, so a body with a limit is not empty.
ASSUME ShopFormsAssumption ==
    /\ Forms \subseteq FormSet
    /\ \A form \in Forms : form.max_tokens # None => form.bytes > 0
ASSUME DefaultsAssumption ==
    /\ DefaultId \in Ids
    /\ DefaultPrice \in Amounts
    /\ DefaultCap \in Nat \ {0}
    /\ MaxTime \in Nat
    /\ None \notin {"cost-plus", "token"}
    /\ NotUnicode \notin Int \cup {None, Junk, Blank, Unreadable}

VARIABLES
    env,        \* the process environment
    door,       \* the door of main() to be passed next, or "open", or "refused"
    refusal,    \* the defect the process stopped on
    registry,   \* Backends.entries
    options,    \* the amount each payment option is armed with
    choice,     \* PricingChoice
    promo,      \* Option<PromoConfig>
    cap,        \* Gateway.max_output_tokens
    now,        \* Unix time
    served      \* the last request and how it was answered, up to its price

built == <<registry, options, choice, promo, cap>>
vars  == <<env, door, refusal, built, now, served>>

Doors == {"backends", "options", "pricing", "promo", "cap", "coverage", "open", "refused"}

\* std::env::var(..).ok(): a value that is not Unicode reads as no value at all.
Read(v) == IF v = NotUnicode THEN None ELSE v

IsSet(v) == Read(v) # None

Static == [rate |-> "static", margin |-> 0, cost |-> None]

\* Pass one door, or stop the process on its first failing check.
Pass(here, next, checks) ==
    /\ door = here
    /\ LET defect == FirstOf(checks)
       IN  /\ refusal' = defect
           /\ door' = IF defect = "none" THEN next ELSE "refused"
    /\ UNCHANGED <<env, now, served>>

Init ==
    /\ env \in Environments
    /\ door = "backends"
    /\ refusal = "none"
    /\ registry = <<>>
    /\ options = <<>>
    /\ choice = Static
    /\ promo = None
    /\ cap = DefaultCap
    /\ now = 0
    /\ served = None
-----------------------------------------------------------------------------
(***************************************************************************)
(* The doors.                                                              *)
(***************************************************************************)

FromFile == IsSet(env.backendsFile)

FileChecks ==
    LET defect == IF env.backendsFile \in {Blank, Unreadable, Junk}
                  THEN "none" ELSE LoadDefect(env.backendsFile)
    IN  << Check("EmptyPath", env.backendsFile = Blank),
           Check("UpstreamUrlToo", IsSet(env.upstreamUrl)),
           Check("UpstreamCostToo", IsSet(env.upstreamCost)),
           Check("RatesNotUnicode", env.modelRates = NotUnicode),
           Check("AlongsideBackendsFile", env.modelRates # None),
           Check("Unreadable", env.backendsFile = Unreadable),
           Check("Malformed", env.backendsFile = Junk),
           Check(defect, defect # "none") >>

LoadBackends ==
    /\ FromFile
    /\ Pass("backends", "options", FileChecks)
    /\ registry' = IF refusal' = "none" THEN BuildAll(env.backendsFile) ELSE registry
    /\ UNCHANGED <<options, choice, promo, cap>>

\* select_model_rates alone tells a value that is not Unicode from none at all;
\* a catch-all lists no models, so its rates may name any.
SingleChecks ==
    << Check("BadUpstreamUrl", env.upstreamUrl = "other"),
       Check("RatesNotUnicode", env.modelRates = NotUnicode),
       Check("EmptyRates", env.modelRates = Blank),
       Check("BadRates", /\ env.modelRates \notin {None, NotUnicode, Blank}
                         /\ ~RatesSound(env.modelRates, {})) >>

SingleBackend ==
    /\ ~FromFile
    /\ Pass("backends", "options", SingleChecks)
    /\ registry' = IF refusal' = "none"
                   THEN << Single(DefaultId, RatesOf(env.modelRates)) >> ELSE registry
    /\ UNCHANGED <<options, choice, promo, cap>>

\* OBOLUS_ACCEPTS supersedes the single-chain variables and refuses their company.
AcceptsChecks ==
    << Check("EmptyAccepts", env.accepts = Blank),
       Check("Superseded", env.singleChain \/ IsSet(env.price)),
       Check("BadAccepts", env.accepts \in {Junk, <<>>}) >>

ManyOptions ==
    /\ IsSet(env.accepts)
    /\ Pass("options", "pricing", AcceptsChecks)
    /\ options' = IF refusal' = "none" THEN env.accepts ELSE options
    /\ UNCHANGED <<registry, choice, promo, cap>>

AmountChecks == << Check("BadAmount", env.price = Junk) >>

SingleOption ==
    /\ ~IsSet(env.accepts)
    /\ Pass("options", "pricing", AmountChecks)
    /\ options' = IF refusal' = "none"
                  THEN << IF IsSet(env.price) THEN env.price ELSE DefaultPrice >>
                  ELSE options
    /\ UNCHANGED <<registry, choice, promo, cap>>

\* Mutant: a price set beside a rate that overrides it is let through.
PricingChecksWithoutInertPrice(rate) ==
    LET derived == rate \in {"cost-plus", "token"}
        plus    == rate = "cost-plus"
    IN  << Check("UnknownRate", rate = Junk),
           Check("MultiChain", derived /\ IsSet(env.accepts)),
           Check("OrphanedParams",
                 ~plus /\ (IsSet(env.upstreamCost) \/ IsSet(env.margin))),
           Check("ZeroCost", plus /\ env.upstreamCost = 0),
           Check("BadCost", plus /\ env.upstreamCost = Junk),
           Check("MissingParam", plus /\ ~IsSet(env.margin)),
           Check("BadMargin", plus /\ env.margin = Junk) >>

\* select_pricing: what sets the amounts must be all that could set them.
PricingChecks(rate) ==
    LET derived == rate \in {"cost-plus", "token"}
        plus    == rate = "cost-plus"
    IN  << Check("UnknownRate", rate = Junk),
           Check("MultiChain", derived /\ IsSet(env.accepts)),
           Check("InertPrice", derived /\ IsSet(env.price)),
           Check("OrphanedParams",
                 ~plus /\ (IsSet(env.upstreamCost) \/ IsSet(env.margin))),
           Check("ZeroCost", plus /\ env.upstreamCost = 0),
           Check("BadCost", plus /\ env.upstreamCost = Junk),
           Check("MissingParam", plus /\ ~IsSet(env.margin)),
           Check("BadMargin", plus /\ env.margin = Junk) >>

Chosen(rate) ==
    IF rate = "cost-plus"
    THEN [rate |-> rate, margin |-> env.margin, cost |-> Read(env.upstreamCost)]
    ELSE IF rate = "token" THEN [Static EXCEPT !.rate = "token"] ELSE Static

SelectPricing ==
    LET rate == Read(env.pricing)
    IN  /\ Pass("pricing", "promo", PricingChecks(rate))
        /\ choice' = IF refusal' = "none" THEN Chosen(rate) ELSE choice
        /\ UNCHANGED <<registry, options, promo, cap>>

SomePromo == IsSet(env.discount) \/ IsSet(env.start) \/ IsSet(env.end)
FullPromo == IsSet(env.discount) /\ IsSet(env.start) /\ IsSet(env.end)
HasBounds == FullPromo /\ env.start \in Nat /\ env.end \in Nat

\* select_promo reads the clock once; the window may yet end before the process
\* serves its first request.
PromoChecks ==
    << Check("Incomplete", SomePromo /\ ~FullPromo),
       Check("BadDiscount", FullPromo /\ env.discount = Junk),
       Check("ZeroDiscount", FullPromo /\ env.discount = 0),
       Check("DiscountTooLarge",
             FullPromo /\ env.discount \in Nat /\ env.discount >= Whole),
       Check("BadTimestamp", FullPromo /\ Junk \in {env.start, env.end}),
       Check("EmptyWindow", HasBounds /\ env.start >= env.end),
       Check("AlreadyEnded", HasBounds /\ env.end <= now) >>

SelectPromo ==
    /\ Pass("promo", "cap", PromoChecks)
    /\ promo' = IF refusal' = "none" /\ FullPromo
                THEN [discount |-> env.discount, start |-> env.start, end |-> env.end]
                ELSE promo
    /\ UNCHANGED <<registry, options, choice, cap>>

\* Mutant: a cap of zero is taken as it stands.
CapChecksWithoutZero == << Check("NotANumber", env.cap = Junk) >>

\* select_max_output_tokens
CapChecks == << Check("NotANumber", env.cap = Junk), Check("Zero", env.cap = 0) >>

SelectCap ==
    /\ Pass("cap", "coverage", CapChecks)
    /\ cap' = IF refusal' = "none" /\ IsSet(env.cap) THEN env.cap ELSE cap
    /\ UNCHANGED <<registry, options, choice, promo>>

Costed(bs) == {i \in DOMAIN bs : bs[i].cost # None}
RatedIn(bs) == {i \in DOMAIN bs : bs[i].rates # NoRates}

\* Mutant: rates that no selected rate reads are let through.
CoverageChecksWithoutInertRates(bs) ==
    << Check("MissingBackendCost", choice.rate = "cost-plus" /\ Costed(bs) # DOMAIN bs),
       Check("InertBackendCost", choice.rate # "cost-plus" /\ Costed(bs) # {}),
       Check("UnratedBackends", choice.rate = "token" /\ RatedIn(bs) # DOMAIN bs) >>

\* require_backend_costs, then require_backend_rates.
CoverageChecks(bs) ==
    << Check("MissingBackendCost", choice.rate = "cost-plus" /\ Costed(bs) # DOMAIN bs),
       Check("InertBackendCost", choice.rate # "cost-plus" /\ Costed(bs) # {}),
       Check("UnratedBackends", choice.rate = "token" /\ RatedIn(bs) # DOMAIN bs),
       Check("InertRates", choice.rate # "token" /\ RatedIn(bs) # {}) >>

\* with_sole_cost
Sealed ==
    IF choice.cost # None THEN [registry EXCEPT ![1].cost = choice.cost] ELSE registry

SealRegistry ==
    /\ Pass("coverage", "open", CoverageChecks(Sealed))
    /\ registry' = IF refusal' = "none" THEN Sealed ELSE registry
    /\ UNCHANGED <<options, choice, promo, cap>>
-----------------------------------------------------------------------------
(***************************************************************************)
(* The request path, as far as the quote.                                  *)
(***************************************************************************)

\* Gateway.model_rates_required, set from the same match as the determiner.
RatesRequired == choice.rate = "token"

ModelRate(form, b) == form.model # None /\ b.rates[form.model] # None

\* Mutant: a limit that is absent or cannot be read bounds the output too.
BoundedByAnything(form, b) ==
    /\ form.whole
    /\ b.kind # "ollama" => ~form.lifts
    /\ form.max_tokens \in {None, Junk} \cup 1 .. cap

\* output_cap_refusal finds nothing to refuse.
Bounded(form, b) ==
    /\ form.whole
    /\ b.kind # "ollama" => ~form.lifts
    /\ form.max_tokens \in 1 .. cap

\* The base determiner; each branch that lacks an input fails closed.
BaseQuote(form, b, amount) ==
    CASE choice.rate = "static"    -> amount
      [] choice.rate = "cost-plus" ->
            CostPlus(IF b.cost = None THEN MaxAmount ELSE b.cost, choice.margin)
      [] choice.rate = "token"     ->
            IF ModelRate(form, b) /\ form.max_tokens \in Nat
            THEN TokenPrice(form.bytes, form.max_tokens, b.rates[form.model])
            ELSE MaxAmount

\* The quote of one option at t, with the promotion that then holds.
Quote(form, b, amount, t) ==
    IF promo # None /\ InWindow(promo, t)
    THEN Discounted(BaseQuote(form, b, amount), promo.discount)
    ELSE BaseQuote(form, b, amount)

\* Gateway::priced: every option, and nothing but its amount, option o as at[o].
Priced(form, b, at) == [o \in DOMAIN options |-> Quote(form, b, options[o], at[o])]

\* Promotional::quote reads the clock for each option in turn, and the clock may
\* move on, as far as later, between two options of one request.
Readings(later) ==
    {at \in [DOMAIN options -> now .. later] :
        \A i, j \in DOMAIN options : i < j => at[i] <= at[j]}

Answer(form, outcome, at, offers) ==
    /\ served' = [form |-> form, at |-> at, outcome |-> outcome, offers |-> offers]
    /\ UNCHANGED <<env, door, refusal, built>>

Refuse(form, outcome) == Answer(form, outcome, <<>>, <<>>) /\ UNCHANGED now

AskAmbiguous(form) ==
    /\ door = "open"
    /\ form.ambiguous
    /\ Refuse(form, "AmbiguousKey")

AskUnroutable(form) ==
    /\ door = "open"
    /\ ~form.ambiguous
    /\ Route(registry, form.model) = 0
    /\ Refuse(form, "Unroutable")

\* A paid request that has a backend.
Routed(form) == door = "open" /\ ~form.ambiguous /\ Route(registry, form.model) # 0

BackendOf(form) == registry[Route(registry, form.model)]

AskUnbounded(form) ==
    /\ Routed(form)
    /\ ~Bounded(form, BackendOf(form))
    /\ Refuse(form, "OutputCapRefused")

AskUnrated(form) ==
    /\ Routed(form)
    /\ Bounded(form, BackendOf(form))
    /\ RatesRequired /\ ~ModelRate(form, BackendOf(form))
    /\ Refuse(form, "UnpricedModel")

AskPriced(form) ==
    /\ Routed(form)
    /\ Bounded(form, BackendOf(form))
    /\ RatesRequired => ModelRate(form, BackendOf(form))
    /\ \E later \in now .. MaxTime :
        /\ now' = later
        /\ \E at \in Readings(later) :
            Answer(form, "Priced", at, Priced(form, BackendOf(form), at))

Tick ==
    /\ now < MaxTime
    /\ now' = now + 1
    /\ UNCHANGED <<env, door, refusal, built, served>>

Next ==
    \/ LoadBackends \/ SingleBackend
    \/ ManyOptions \/ SingleOption
    \/ SelectPricing \/ SelectPromo \/ SelectCap \/ SealRegistry
    \/ \E form \in Forms :
        \/ AskAmbiguous(form) \/ AskUnroutable(form) \/ AskUnbounded(form)
        \/ AskUnrated(form) \/ AskPriced(form)
    \/ Tick

Spec == Init /\ [][Next]_vars
-----------------------------------------------------------------------------
(***************************************************************************)
(* Properties.                                                             *)
(***************************************************************************)

Answers ==
    [form : Forms, at : Seq(0 .. MaxTime),
     outcome : {"AmbiguousKey", "Unroutable", "OutputCapRefused", "UnpricedModel",
                "Priced"},
     offers : Seq(Amounts)]

\* Every variable keeps its type, through every door and every request: what
\* the doors let in is what the request path computes with.
TypeOK ==
    /\ env \in EnvironmentSet
    /\ door \in Doors
    /\ refusal = "none" <=> door # "refused"
    /\ registry \in Seq(BackendSet)
    /\ options \in Seq(Amounts)
    /\ choice \in [rate : {"static", "cost-plus", "token"}, margin : Nat,
                   cost : (Amounts \ {0}) \cup {None}]
    /\ promo \in {None} \cup [discount : 1 .. Whole - 1, start : Nat, end : Nat]
    /\ cap \in Nat \ {0}
    /\ now \in 0 .. MaxTime
    /\ served \in {None} \cup Answers

Built == door \notin {"backends", "refused"}

\* A registry that got past its door gives every model one answer: no two
\* backends that serve it stand at the same rank, catch-alls included
\* (Backends::route takes the maximum and relies on there being one).
RouteIsUnambiguous ==
    Built => \A m \in Models : \A i, j \in Foremost(registry, m) : i = j

\* Written in another order, the same entries are accepted or refused alike and
\* send every request to the same backend: the file is a set, not a list.
OrderIsImmaterial ==
    \A p \in {f \in [DOMAIN registry -> DOMAIN registry] :
                \A i, j \in DOMAIN registry : f[i] = f[j] => i = j} :
        LET moved == [i \in DOMAIN registry |-> registry[p[i]]]
        IN  Built => /\ RegistryDefect(moved) = "none"
                     /\ \A m \in Models \cup {None} :
                            LET i == Route(registry, m)
                                j == Route(moved, m)
                            IN  IF i = 0 THEN j = 0 ELSE j # 0 /\ moved[j] = registry[i]

\* The switches set from one choice agree with what every backend declares, and
\* a backend rates only models it serves: no determiner wants for an input, and
\* no declared cost or rate is one that nothing would ever read.
CoverageAgrees ==
    door = "open" =>
        \A i \in DOMAIN registry :
            /\ registry[i].cost # None <=> choice.rate = "cost-plus"
            /\ registry[i].rates # NoRates <=> choice.rate = "token"
            /\ \A m \in Models : registry[i].rates[m] # None => Serves(registry[i], m)

\* Whether what the operator set is what the open gateway runs on.
RateInEffect ==
    IF IsSet(env.pricing) THEN choice.rate = env.pricing ELSE choice.rate = "static"

CostInEffect ==
    IsSet(env.upstreamCost) =>
        /\ choice.rate = "cost-plus"
        /\ \A i \in DOMAIN registry : registry[i].cost = env.upstreamCost

MarginInEffect ==
    IsSet(env.margin) => choice.rate = "cost-plus" /\ choice.margin = env.margin

AmountsInEffect ==
    /\ IsSet(env.accepts) =>
        choice.rate = "static" /\ options = env.accepts /\ ~env.singleChain
    /\ IsSet(env.price) => choice.rate = "static" /\ options = <<env.price>>

BackendsInEffect ==
    /\ FromFile =>
        /\ ~IsSet(env.upstreamUrl)
        /\ Len(registry) = Len(env.backendsFile)
        /\ \A i \in DOMAIN registry :
            /\ registry[i].cost = env.backendsFile[i].cost
            /\ registry[i].rates = RatesOf(env.backendsFile[i].rates)
    /\ IsSet(env.modelRates) =>
        choice.rate = "token" /\ registry[1].rates = RatesOf(env.modelRates)

PromotionInEffect ==
    \/ promo = None /\ ~IsSet(env.discount) /\ ~IsSet(env.start) /\ ~IsSet(env.end)
    \/ promo = [discount |-> env.discount, start |-> env.start, end |-> env.end]

\* A gateway that opens runs on everything the operator set: no variable the
\* process could read is superseded, orphaned or inert (config.rs: configuration
\* that cannot take effect refuses rather than being silently dropped).
NothingIsInert ==
    door = "open" =>
        /\ RateInEffect /\ CostInEffect /\ MarginInEffect /\ AmountsInEffect
        /\ BackendsInEffect /\ PromotionInEffect
        /\ IsSet(env.cap) => cap = env.cap

WasPriced == served # None /\ served.outcome = "Priced"

\* n is a / b rounded down, and n is a / b rounded up.
Floors(n, a, b) == n * b <= a /\ a < (n + 1) * b
Ceils(n, a, b) == a <= n * b /\ (n - 1) * b < a

\* What the configured rate comes to for a request, as exact arithmetic: q is
\* the one amount the operator's figures give, with nothing saturated.
ExactBase(q, form, b, amount) ==
    \/ choice.rate = "static" /\ q = amount
    \/ /\ choice.rate = "cost-plus"
       /\ Floors(q, b.cost * (Whole + choice.margin), Whole)
    \/ /\ choice.rate = "token"
       /\ \E input \in 0 .. form.bytes :
            /\ Ceils(input, form.bytes, BytesPerToken)
            /\ Ceils(q, TokenCost(input, form.max_tokens, b.rates[form.model]), PerRate)

\* [start, end): whether the promotion covers the instant t.
Promoted(t) == promo # None /\ promo.start <= t /\ t < promo.end

\* The determiner has what it computes from.
HasInputs(form, b) ==
    /\ choice.rate = "cost-plus" => b.cost # None
    /\ choice.rate = "token" => ModelRate(form, b) /\ form.max_tokens \in Nat

\* The largest product or sum the determiner forms stays within a u128.
FitsBase(form, b) ==
    CASE choice.rate = "static"    -> TRUE
      [] choice.rate = "cost-plus" -> b.cost * (Whole + choice.margin) <= MaxAmount
      [] choice.rate = "token"     ->
            TokenCost(EstimatedInputTokens(form.bytes), form.max_tokens,
                      b.rates[form.model]) <= MaxAmount

\* An option read outside a promotion is quoted exactly what the configured
\* figures come to, unless they overflow; and then it is never quoted less than
\* the backend's own cost, nor a token price that anyone can pay.
QuotesAreExact ==
    WasPriced =>
        LET b == BackendOf(served.form)
        IN  /\ HasInputs(served.form, b)
            /\ \A o \in {o \in DOMAIN options : ~Promoted(served.at[o])} :
                IF FitsBase(served.form, b)
                THEN ExactBase(served.offers[o], served.form, b, options[o])
                ELSE /\ choice.rate = "cost-plus" => served.offers[o] >= b.cost
                     /\ choice.rate = "token" => served.offers[o] = MaxAmount

\* On a configured gateway only an overflow reaches the amount no client can
\* pay: no request is turned away by a price its operator did not set.
OnlyOverflowIsUnpayable ==
    WasPriced /\ choice.rate # "static" =>
        LET b == BackendOf(served.form)
        IN  \A o \in DOMAIN options :
                served.offers[o] = MaxAmount =>
                    /\ HasInputs(served.form, b)
                    /\ \/ ~FitsBase(served.form, b)
                       \/ ExactBase(MaxAmount, served.form, b, options[o])

\* A request is quoted nothing only where the operator armed an amount of zero:
\* no markup, rate or discount rounds a payable request down to a free one.
PayableIsNeverFree ==
    WasPriced =>
        \A o \in DOMAIN options :
            served.offers[o] = 0 => choice.rate = "static" /\ options[o] = 0

\* A client that resends its body is quoted the same amount, unless the clock
\* crossed a bound of the promotion in between; and then the promotional amount
\* is never above the other one.
SameBodySamePrice ==
    [][ /\ WasPriced
        /\ served'.form = served.form
        => /\ served'.outcome = "Priced"
           /\ \A o \in DOMAIN options :
                IF Promoted(served.at[o]) <=> Promoted(served'.at[o])
                THEN served'.offers[o] = served.offers[o]
                ELSE IF Promoted(served'.at[o])
                THEN served'.offers[o] <= served.offers[o]
                ELSE served.offers[o] <= served'.offers[o] ]_served

\* A promotion discounts by the percentage configured: inside its window a
\* payable quote is the exact fraction of the undiscounted one, rounded down,
\* or one unit where that leaves nothing.
PromotionIsExact ==
    WasPriced =>
        LET b == BackendOf(served.form)
        IN  \A o \in {o \in DOMAIN options : Promoted(served.at[o])} :
                LET base == BaseQuote(served.form, b, options[o])
                    q    == served.offers[o]
                    kept == base * (Whole - promo.discount)
                IN  base > 0 /\ kept <= MaxAmount =>
                        Floors(q, kept, Whole) \/ (q = 1 /\ kept < Whole)

\* At every moment a quote is the exact amount, inside a promotion and outside, and
\* beyond anybody's reach only where that amount is.
PricesAreExact == QuotesAreExact /\ PromotionIsExact /\ OnlyOverflowIsUnpayable

\* README: any other value of OBOLUS_PRICING is a startup error, never a silent
\* fallback to a price you did not choose.
NoRateIsGuessed == door = "open" /\ env.pricing # None => choice.rate = env.pricing
=============================================================================
