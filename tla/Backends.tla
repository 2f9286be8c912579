------------------------------ MODULE Backends ------------------------------
(***************************************************************************)
(* The registry of origins a gateway serves from (obolus/src/backends.rs): *)
(* what an entry of the backends file must satisfy, the rules that only    *)
(* several entries together can break, and the backend a request's model   *)
(* is routed to.                                                           *)
(*                                                                         *)
(* Text is kept only as far as the code tells it apart: Blank is a value   *)
(* that is empty or all spaces, Junk one that does not parse (a number     *)
(* too wide for its type included), None one that is absent.               *)
(***************************************************************************)
EXTENDS Pricing, Sequences, FiniteSetsExt

CONSTANTS Models, Ids, None, Blank, Junk

ASSUME TextAssumption ==
    /\ None \notin Int \cup [input : Nat, output : Nat]
    /\ Blank \notin Models \cup Ids \cup {None, Junk}
    /\ None \notin Models \cup Ids
    /\ Junk \notin Int \cup {None}

Kinds == {"ollama", "openai-compat", "anthropic-compat"}

\* What reading an entry's keyFile yields: nothing named, or one of five contents.
KeyFiles == {"none", "unreadable", "binary", "blank", "unsafe", "token"}

RateEntries ==
    [model : Models \cup {Blank}, input : Nat \cup {Junk}, output : Nat \cup {Junk}]

\* A `rates` value keeps repeated keys, in order (Loose::Object).
RateTexts == {None, Junk} \cup Seq(RateEntries)

Entries ==
    [id : Ids \cup {Blank}, kind : Kinds, http : BOOLEAN,
     models : SUBSET (Models \cup {Blank}), precedence : Int \cup {None},
     cost : Amounts \cup {None, Junk}, rates : RateTexts, key : KeyFiles]

\* The name of the first check that fails, as a chain of early returns gives it.
FirstOf(checks) ==
    LET failing == {i \in DOMAIN checks : checks[i].fails}
    IN  IF failing = {} THEN "none" ELSE checks[Min(failing)].name

Check(name, fails) == [name |-> name, fails |-> fails]
-----------------------------------------------------------------------------
(***************************************************************************)
(* One entry.                                                              *)
(***************************************************************************)

\* Mutant: a name outside the models list is let through.
RatesSoundForAnyModel(rates, models) ==
    /\ rates # Junk
    /\ rates # <<>>
    /\ \A i \in DOMAIN rates :
        /\ rates[i].model # Blank
        /\ \A j \in 1 .. i - 1 : rates[j].model # rates[i].model
        /\ rates[i].input \in Nat
        /\ rates[i].output \in Nat
        /\ ~(rates[i].input = 0 /\ rates[i].output = 0)

\* parse_rates: a non-empty object, each model once and served, no rate free.
RatesSound(rates, models) ==
    /\ rates # Junk
    /\ rates # <<>>
    /\ \A i \in DOMAIN rates :
        /\ rates[i].model # Blank
        /\ \A j \in 1 .. i - 1 : rates[j].model # rates[i].model
        /\ models # {} => rates[i].model \in models
        /\ rates[i].input \in Nat
        /\ rates[i].output \in Nat
        /\ ~(rates[i].input = 0 /\ rates[i].output = 0)

\* Backend.rates: a rate for some of the models.
TokenRates == {rate \in [input : Nat, output : Nat] : rate.input + rate.output > 0}
NoRates == [m \in Models |-> None]

RatesOf(rates) ==
    [m \in Models |->
        IF rates # None /\ \E i \in DOMAIN rates : rates[i].model = m
        THEN LET i == CHOOSE i \in DOMAIN rates : rates[i].model = m
             IN  [input |-> rates[i].input, output |-> rates[i].output]
        ELSE None]

\* build_backend's early returns, in its order.
EntryDefect(e) ==
    FirstOf(<<
        Check("EmptyId", e.id = Blank),
        Check("BadBaseUrl", ~e.http),
        Check("EmptyModelAlias", Blank \in e.models),
        Check("ZeroCost", e.cost = 0),
        Check("BadCost", e.cost = Junk),
        Check("BadRates", e.rates # None /\ ~RatesSound(e.rates, e.models)),
        Check("KindNotImplemented", e.kind = "anthropic-compat"),
        Check("KeyOnKeylessKind", e.kind = "ollama" /\ e.key # "none"),
        Check("KeyFileUnreadable", e.key = "unreadable"),
        Check("KeyNotText", e.key = "binary"),
        Check("EmptyKeyFile", e.key = "blank"),
        Check("KeyNotHeaderSafe", e.key = "unsafe") >>)

BackendSet ==
    [id : Ids, kind : Kinds, models : SUBSET Models, precedence : Int \cup {None},
     has_key : BOOLEAN, cost : (Amounts \ {0}) \cup {None},
     rates : [Models -> TokenRates \cup {None}]]

Build(e) ==
    [id |-> e.id, kind |-> e.kind, models |-> e.models, precedence |-> e.precedence,
     has_key |-> e.key # "none", cost |-> e.cost, rates |-> RatesOf(e.rates)]

\* The backend OBOLUS_UPSTREAM_URL declares: a catch-all, alone.
Single(id, rates) ==
    [id |-> id, kind |-> "ollama", models |-> {}, precedence |-> None,
     has_key |-> FALSE, cost |-> None, rates |-> rates]
-----------------------------------------------------------------------------
(***************************************************************************)
(* The registry as a whole.                                                *)
(***************************************************************************)

IsCatchAll(b) == b.models = {}
Serves(b, model) == IsCatchAll(b) \/ model \in b.models

\* Mutant: only explicit precedences are compared.
AmbiguousWhenRanked(bs) ==
    \E i, j \in DOMAIN bs :
        /\ i < j
        /\ bs[i].precedence # None
        /\ bs[i].precedence = bs[j].precedence
        /\ bs[i].models \cap bs[j].models # {}

\* Two backends serve one model at one rank, two absent ranks included.
Ambiguous(bs) ==
    \E i, j \in DOMAIN bs :
        /\ i < j
        /\ bs[i].precedence = bs[j].precedence
        /\ bs[i].models \cap bs[j].models # {}

\* Mutant: an id is compared with the next entry's only.
DuplicateNeighbour(bs) == \E i \in 2 .. Len(bs) : bs[i - 1].id = bs[i].id

DuplicateId(bs) == \E i, j \in DOMAIN bs : i < j /\ bs[i].id = bs[j].id

CatchAllWithSiblings(bs) == Len(bs) > 1 /\ \E i \in DOMAIN bs : IsCatchAll(bs[i])

RegistryDefect(bs) ==
    FirstOf(<<
        Check("DuplicateBackendId", DuplicateId(bs)),
        Check("CatchAllWithSiblings", CatchAllWithSiblings(bs)),
        Check("AmbiguousRoute", Ambiguous(bs)) >>)

BuildAll(entries) == [i \in DOMAIN entries |-> Build(entries[i])]

\* load_backends: the first entry at fault, and only then the registry's rules.
LoadDefect(entries) ==
    LET faulty == {i \in DOMAIN entries : EntryDefect(entries[i]) # "none"}
    IN  IF entries = <<>> THEN "Empty"
        ELSE IF faulty # {} THEN EntryDefect(entries[Min(faulty)])
        ELSE RegistryDefect(BuildAll(entries))
-----------------------------------------------------------------------------
(***************************************************************************)
(* Backends::route, as the position of the backend; 0 when there is none.  *)
(***************************************************************************)

\* Option<i64> as Rust orders it: None below every rank.
Below(p, q) == q # None /\ (p = None \/ p < q)

Eligible(bs, model) == {i \in DOMAIN bs : Serves(bs[i], model)}

\* The positions no eligible backend outranks.
Foremost(bs, model) ==
    {i \in Eligible(bs, model) :
        \A j \in Eligible(bs, model) : ~Below(bs[i].precedence, bs[j].precedence)}

\* Mutant: the first backend that serves the model takes it, whatever its rank.
RouteToFirst(bs, model) ==
    LET able == IF model = None THEN {i \in DOMAIN bs : IsCatchAll(bs[i])}
                ELSE Eligible(bs, model)
    IN  IF able = {} THEN 0 ELSE Min(able)

\* max_by_key keeps the last of equals; a request that names no model goes to
\* the first catch-all.
Route(bs, model) ==
    LET catchAlls == {i \in DOMAIN bs : IsCatchAll(bs[i])}
    IN  IF model = None
        THEN IF catchAlls = {} THEN 0 ELSE Min(catchAlls)
        ELSE IF Eligible(bs, model) = {} THEN 0 ELSE Max(Foremost(bs, model))
=============================================================================
