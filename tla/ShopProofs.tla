----------------------------- MODULE ShopProofs -----------------------------
(***************************************************************************)
(* For every environment, every backends file and every request: a         *)
(* registry that got past its door routes each model one way, in whatever  *)
(* order its entries are; an open gateway runs on all that was set and its *)
(* switches agree with what its backends declare; and a quote is the exact *)
(* amount, the same for the same body, and never nothing for something.    *)
(***************************************************************************)
EXTENDS Shop, FiniteSetTheorems, WellFoundedInduction, TLAPS

-----------------------------------------------------------------------------
(***************************************************************************)
(* Chains of early returns.                                                *)
(***************************************************************************)

\* A non-empty set of naturals has a least element, and Min finds it.
LEMMA MinIsLeast ==
    ASSUME NEW S, S \subseteq Nat, S # {}
    PROVE  Min(S) \in S /\ \A y \in S : Min(S) <= y
<1>1. PICK x \in S : \A y \in S : <<y, x>> \notin OpToRel(<, Nat)
  BY NatLessThanWellFounded, WFMin
<1>2. ASSUME NEW y \in S PROVE x <= y
  <2>1. <<y, x>> \notin {ss \in Nat \X Nat : ss[1] < ss[2]}
    BY <1>1 DEF OpToRel
  <2>2. ~(y < x)
    BY <2>1
  <2> QED
    BY <2>2
<1> QED
  BY <1>2 DEF Min

\* A chain that names no defect had no failing check.
LEMMA NoneFails ==
    ASSUME NEW checks, DOMAIN checks \subseteq Nat,
           \A i \in DOMAIN checks : checks[i].fails => checks[i].name # "none",
           FirstOf(checks) = "none"
    PROVE  \A i \in DOMAIN checks : ~checks[i].fails
<1> DEFINE failing == {i \in DOMAIN checks : checks[i].fails}
<1>1. CASE failing = {}
  BY <1>1
<1>2. CASE failing # {}
  <2>1. Min(failing) \in failing
    BY <1>2, MinIsLeast
  <2>2. FirstOf(checks) = checks[Min(failing)].name
    BY <1>2 DEF FirstOf
  <2> QED
    BY <2>1, <2>2
<1> QED
  BY <1>1, <1>2
-----------------------------------------------------------------------------
(***************************************************************************)
(* Routing.                                                                *)
(***************************************************************************)

\* What the rules of check_registry come to: two backends never have one id, and
\* are never both able to serve a model at one rank.
Ordered(bs) ==
    /\ DOMAIN bs \subseteq Nat
    /\ \A i \in DOMAIN bs : bs[i].precedence \in Int \cup {None}
    /\ \A i, j \in DOMAIN bs :
        i # j => /\ bs[i].id # bs[j].id
                 /\ bs[i].models # {}
                 /\ bs[i].precedence = bs[j].precedence =>
                        bs[i].models \cap bs[j].models = {}

\* In an ordered registry no two backends are foremost for one model.
LEMMA OrderedRoutesOneWay ==
    ASSUME NEW bs, Ordered(bs), NEW m,
           NEW i \in Foremost(bs, m), NEW j \in Foremost(bs, m)
    PROVE  i = j
<1>1. i \in DOMAIN bs /\ j \in DOMAIN bs
  BY DEF Foremost, Eligible
<1>2. Serves(bs[i], m) /\ Serves(bs[j], m)
  BY DEF Foremost, Eligible
<1>3. /\ ~Below(bs[i].precedence, bs[j].precedence)
      /\ ~Below(bs[j].precedence, bs[i].precedence)
  BY DEF Foremost
<1>4. bs[i].precedence = bs[j].precedence
  <2>1. bs[i].precedence \in Int \cup {None} /\ bs[j].precedence \in Int \cup {None}
    BY <1>1 DEF Ordered
  <2> QED
    BY <1>3, <2>1, TextAssumption DEF Below
<1>5. SUFFICES ASSUME i # j PROVE FALSE
  OBVIOUS
<1>6. bs[i].models # {} /\ bs[j].models # {}
  BY <1>1, <1>5 DEF Ordered
<1>7. m \in bs[i].models \cap bs[j].models
  BY <1>2, <1>6 DEF Serves, IsCatchAll
<1> QED
  BY <1>1, <1>4, <1>5, <1>7 DEF Ordered

\* The three rules of check_registry, read off its verdict.
LEMMA RegistryRules ==
    ASSUME NEW bs, RegistryDefect(bs) = "none"
    PROVE  ~DuplicateId(bs) /\ ~CatchAllWithSiblings(bs) /\ ~Ambiguous(bs)
<1> DEFINE checks == <<
        Check("DuplicateBackendId", DuplicateId(bs)),
        Check("CatchAllWithSiblings", CatchAllWithSiblings(bs)),
        Check("AmbiguousRoute", Ambiguous(bs)) >>
<1>1. DOMAIN checks = 1 .. 3
  OBVIOUS
<1>2. /\ checks[1] = Check("DuplicateBackendId", DuplicateId(bs))
      /\ checks[2] = Check("CatchAllWithSiblings", CatchAllWithSiblings(bs))
      /\ checks[3] = Check("AmbiguousRoute", Ambiguous(bs))
  OBVIOUS
<1>3. \A i \in DOMAIN checks : checks[i].name # "none"
  BY <1>1, <1>2 DEF Check
<1>4. FirstOf(checks) = "none"
  BY DEF RegistryDefect
<1>5. \A i \in DOMAIN checks : ~checks[i].fails
  <2> HIDE DEF checks
  <2> QED
    BY <1>1, <1>3, <1>4, NoneFails
<1>6. ~checks[1].fails /\ ~checks[2].fails /\ ~checks[3].fails
  BY <1>1, <1>5
<1>7. /\ Check("DuplicateBackendId", DuplicateId(bs)).fails = DuplicateId(bs)
      /\ Check("CatchAllWithSiblings", CatchAllWithSiblings(bs)).fails
            = CatchAllWithSiblings(bs)
      /\ Check("AmbiguousRoute", Ambiguous(bs)).fails = Ambiguous(bs)
  BY Zenon DEF Check
<1> QED
  BY <1>2, <1>6, <1>7

\* A file without a defect builds an ordered registry.
LEMMA LoadedIsOrdered ==
    ASSUME NEW entries \in Seq(Entries), LoadDefect(entries) = "none"
    PROVE  Ordered(BuildAll(entries))
<1> DEFINE bs == BuildAll(entries)
<1>1. DOMAIN bs = 1 .. Len(entries) /\ Len(entries) \in Nat
  BY DEF BuildAll
<1>2. \A i \in DOMAIN bs : bs[i] = Build(entries[i]) /\ entries[i] \in Entries
  BY DEF BuildAll
<1>3. Len(bs) = Len(entries)
  BY <1>1
<1>4. RegistryDefect(bs) = "none"
  <2> DEFINE faulty == {i \in DOMAIN entries : EntryDefect(entries[i]) # "none"}
  <2>1. CASE faulty = {}
    BY <2>1 DEF LoadDefect
  <2>2. CASE faulty # {}
    <3>1. Min(faulty) \in faulty
      BY <2>2, MinIsLeast
    <3> QED
      BY <2>2, <3>1 DEF LoadDefect
  <2> QED
    BY <2>1, <2>2
<1>5. ~DuplicateId(bs) /\ ~CatchAllWithSiblings(bs) /\ ~Ambiguous(bs)
  BY <1>4, RegistryRules
<1>6. \A i \in DOMAIN bs : bs[i].precedence \in Int \cup {None}
  BY <1>2 DEF Build, Entries
<1>7. ASSUME NEW i \in DOMAIN bs, NEW j \in DOMAIN bs, i # j
      PROVE  /\ bs[i].id # bs[j].id
             /\ bs[i].models # {}
             /\ bs[i].precedence = bs[j].precedence =>
                    bs[i].models \cap bs[j].models = {}
  <2>1. Len(bs) > 1
    BY <1>1, <1>3, <1>7
  <2>2. bs[i].models # {}
    BY <1>5, <2>1 DEF CatchAllWithSiblings, IsCatchAll
  <2>3. i < j \/ j < i
    BY <1>1, <1>7
  <2>4. bs[i].id # bs[j].id
    BY <1>5, <2>3 DEF DuplicateId
  <2> QED
    BY <1>5, <2>2, <2>3, <2>4 DEF Ambiguous
<1> HIDE DEF bs
<1> QED
  BY <1>1, <1>6, <1>7 DEF Ordered, bs
-----------------------------------------------------------------------------
(***************************************************************************)
(* What the doors let in.                                                  *)
(***************************************************************************)

\* What a check of a chain holds.
LEMMA CheckFields ==
    ASSUME NEW name, NEW fails
    PROVE  Check(name, fails).name = name /\ Check(name, fails).fails = fails
BY Zenon DEF Check

\* What build_backend has made sure of in an entry it accepts.
LEMMA EntryRules ==
    ASSUME NEW e, EntryDefect(e) = "none"
    PROVE  /\ e.id # Blank
           /\ Blank \notin e.models
           /\ e.cost # 0 /\ e.cost # Junk
           /\ e.rates # None => RatesSound(e.rates, e.models)
<1> DEFINE checks == <<
        Check("EmptyId", e.id = Blank),
        Check("BadBaseUrl", ~e.http),
        Check("EmptyModelAlias", Blank \in e.models),
        Check("ZeroCost", e.cost = 0),
        Check("BadCost", e.cost = Junk),
        Check("BadRates", e.rates # None /\ ~RatesSound(e.rates, e.models)),
        Check("KindNotImplemented", e.kind = "anthropic-compat"),
        Check("KeyOnKeylessKind", e.kind = "ollama" /\ e.key # "none"),
        Check("KeyFileUnreadable", e.key = "unreadable"),
        Check("KeyNotText", e.key = "binary"),
        Check("EmptyKeyFile", e.key = "blank"),
        Check("KeyNotHeaderSafe", e.key = "unsafe") >>
<1>1. DOMAIN checks = 1 .. 12
  OBVIOUS
<1>2. /\ checks[1] = Check("EmptyId", e.id = Blank)
      /\ checks[3] = Check("EmptyModelAlias", Blank \in e.models)
      /\ checks[4] = Check("ZeroCost", e.cost = 0)
      /\ checks[5] = Check("BadCost", e.cost = Junk)
      /\ checks[6] = Check("BadRates", e.rates # None /\ ~RatesSound(e.rates, e.models))
  OBVIOUS
<1>3. \A i \in DOMAIN checks : checks[i].name # "none"
  BY <1>1, CheckFields
<1>4. FirstOf(checks) = "none"
  BY DEF EntryDefect
<1>5. \A i \in 1 .. 12 : ~checks[i].fails
  <2> HIDE DEF checks
  <2> QED
    BY <1>1, <1>3, <1>4, NoneFails
<1>6. /\ ~checks[1].fails /\ ~checks[3].fails /\ ~checks[4].fails /\ ~checks[5].fails
      /\ ~checks[6].fails
  BY <1>5
<1>7. ~(e.id = Blank)
  <2>1. Check("EmptyId", e.id = Blank).fails = (e.id = Blank)
    BY Zenon DEF Check
  <2> QED
    BY <1>2, <1>6, <2>1
<1>8. ~(Blank \in e.models)
  <2>1. Check("EmptyModelAlias", Blank \in e.models).fails
            = (Blank \in e.models)
    BY Zenon DEF Check
  <2> QED
    BY <1>2, <1>6, <2>1
<1>9. ~(e.cost = Junk)
  <2>1. Check("BadCost", e.cost = Junk).fails = (e.cost = Junk)
    BY Zenon DEF Check
  <2> QED
    BY <1>2, <1>6, <2>1
<1>10. ~(e.rates # None /\ ~RatesSound(e.rates, e.models))
  <2>1. Check("BadRates", e.rates # None /\ ~RatesSound(e.rates, e.models)).fails
            = (e.rates # None /\ ~RatesSound(e.rates, e.models))
    BY Zenon DEF Check
  <2> QED
    BY <1>2, <1>6, <2>1
<1>11. ~(e.cost = 0)
  <2>1. Check("ZeroCost", e.cost = 0).fails = (e.cost = 0)
    BY Zenon DEF Check
  <2> QED
    BY <1>2, <1>6, <2>1
<1> QED
  BY <1>7, <1>8, <1>9, <1>10, <1>11

\* Sound rates, read into a backend, are rates of models.
LEMMA RatesAreTyped ==
    ASSUME NEW rates, NEW models, rates \in Seq(RateEntries) \cup {None},
           rates # None => RatesSound(rates, models)
    PROVE  /\ RatesOf(rates) \in [Models -> TokenRates \cup {None}]
           /\ \A m \in Models : RatesOf(rates)[m] # None => models = {} \/ m \in models
<1>1. ASSUME NEW m \in Models
      PROVE  /\ RatesOf(rates)[m] \in TokenRates \cup {None}
             /\ RatesOf(rates)[m] # None => models = {} \/ m \in models
  <2>1. CASE ~(rates # None /\ \E i \in DOMAIN rates : rates[i].model = m)
    BY <2>1 DEF RatesOf
  <2>2. CASE rates # None /\ \E i \in DOMAIN rates : rates[i].model = m
    <3> DEFINE k == CHOOSE i \in DOMAIN rates : rates[i].model = m
    <3>1. k \in DOMAIN rates /\ rates[k].model = m
      BY <2>2
    <3>2. RatesOf(rates)[m] = [input |-> rates[k].input, output |-> rates[k].output]
      BY <2>2 DEF RatesOf
    <3> HIDE DEF k
    <3>3. /\ rates[k].input \in Nat /\ rates[k].output \in Nat
          /\ rates[k].input + rates[k].output > 0
          /\ models # {} => m \in models
      BY <2>2, <3>1 DEF RatesSound
    <3> QED
      BY <3>2, <3>3 DEF TokenRates
  <2> QED
    BY <2>1, <2>2
<1> QED
  BY <1>1 DEF RatesOf

\* An accepted entry builds a backend that rates only what it serves.
LEMMA BuiltIsTyped ==
    ASSUME NEW e \in Entries, EntryDefect(e) = "none"
    PROVE  /\ Build(e) \in BackendSet
           /\ \A m \in Models : Build(e).rates[m] # None => Serves(Build(e), m)
<1>1. /\ e.id \in Ids /\ e.models \in SUBSET Models /\ e.cost \in (Amounts \ {0}) \cup {None}
      /\ e.kind \in Kinds /\ e.precedence \in Int \cup {None}
  <2>1. /\ e.id \in Ids \cup {Blank} /\ e.models \in SUBSET (Models \cup {Blank})
        /\ e.cost \in Amounts \cup {None, Junk}
        /\ e.kind \in Kinds /\ e.precedence \in Int \cup {None}
    BY DEF Entries
  <2> QED
    BY <2>1, EntryRules
<1>2. e.rates \in Seq(RateEntries) \cup {None}
  <2>1. e.rates \in {None, Junk} \cup Seq(RateEntries)
    BY DEF Entries, RateTexts
  <2>2. e.rates # None => e.rates # Junk
    BY EntryRules DEF RatesSound
  <2> QED
    BY <2>1, <2>2
<1>3. e.rates # None => RatesSound(e.rates, e.models)
  BY EntryRules
<1>4. RatesOf(e.rates) \in [Models -> TokenRates \cup {None}]
  BY <1>2, <1>3, RatesAreTyped
<1>5. \A m \in Models : RatesOf(e.rates)[m] # None => e.models = {} \/ m \in e.models
  BY <1>2, <1>3, RatesAreTyped
<1>6. (e.key # "none") \in BOOLEAN
  OBVIOUS
<1>7. Build(e) \in BackendSet
  BY <1>1, <1>4, <1>6 DEF Build, BackendSet
<1>8. Build(e).rates = RatesOf(e.rates) /\ Build(e).models = e.models
  BY DEF Build
<1> QED
  BY <1>5, <1>7, <1>8 DEF Serves, IsCatchAll
-----------------------------------------------------------------------------
(***************************************************************************)
(* Where a model is routed.                                                *)
(***************************************************************************)

\* Among finitely many ranks, one is outranked by none: had some set of
\* positions no such rank, take one with the least bound and drop its last.
LEMMA SomeRankIsForemost ==
    ASSUME NEW rank, NEW N \in Nat, \A i \in 1 .. N : rank[i] \in Int \cup {None},
           NEW S0 \in SUBSET (1 .. N), S0 # {}
    PROVE  \E i \in S0 : \A j \in S0 : ~Below(rank[i], rank[j])
<1> DEFINE Topless(S) == \A i \in S : \E j \in S : Below(rank[i], rank[j])
           bounds == {n \in 0 .. N : \E S \in SUBSET (1 .. n) : S # {} /\ Topless(S)}
<1>1. SUFFICES ASSUME Topless(S0) PROVE FALSE
  OBVIOUS
<1>2. bounds \subseteq Nat /\ bounds # {}
  <2>1. N \in bounds
    <3> HIDE DEF Topless
    <3> QED
      BY <1>1
  <2>2. bounds \subseteq Nat
    <3> HIDE DEF Topless
    <3> QED
      OBVIOUS
  <2> QED
    BY <2>1, <2>2
<1>3. PICK n \in bounds : \A y \in bounds : n <= y
  BY <1>2, MinIsLeast
<1>4. PICK S \in SUBSET (1 .. n) : S # {} /\ Topless(S)
  BY <1>3
<1>5. n \in 1 .. N
  <2>1. n \in 0 .. N
    BY <1>3
  <2>2. n # 0
    <3>1. n = 0 => 1 .. n = {}
      BY <2>1
    <3> QED
      BY <1>4, <3>1
  <2> QED
    BY <2>1, <2>2
<1>6. \A T \in SUBSET (1 .. n - 1) : T # {} => ~Topless(T)
  <2>1. n - 1 \notin bounds
    <3> HIDE DEF bounds
    <3> QED
      BY <1>3, <1>5
  <2>2. n - 1 \in 0 .. N
    BY <1>5
  <2> HIDE DEF Topless
  <2> QED
    BY <2>1, <2>2
<1>7. n \in S
  <2>1. CASE n \notin S
    <3>1. S \in SUBSET (1 .. n - 1)
      BY <1>5, <2>1
    <3> QED
      BY <1>4, <1>5, <1>6, <3>1
  <2> QED
    BY <2>1
<1>8. S \ {n} # {}
  <2>1. PICK j \in S : Below(rank[n], rank[j])
    BY <1>4, <1>7
  <2>2. j # n
    BY <1>5, <2>1, TextAssumption DEF Below
  <2> QED
    BY <2>1, <2>2
<1>9. PICK x \in S \ {n} : \A j \in S \ {n} : ~Below(rank[x], rank[j])
  <2>1. S \ {n} \in SUBSET (1 .. n - 1)
    BY <1>5
  <2>2. ~Topless(S \ {n})
    <3> HIDE DEF Topless
    <3> QED
      BY <1>6, <1>8, <2>1
  <2> QED
    BY <2>2
<1>10. /\ rank[x] \in Int \cup {None} /\ rank[n] \in Int \cup {None}
       /\ \A j \in S : rank[j] \in Int \cup {None}
  BY <1>5
<1>11. Below(rank[x], rank[n])
  <2>1. PICK j \in S : Below(rank[x], rank[j])
    BY <1>4, <1>9
  <2> QED
    BY <1>9, <2>1
<1>12. PICK k \in S : Below(rank[n], rank[k])
  BY <1>4, <1>7
<1>13. k # n
  BY <1>10, <1>12, TextAssumption DEF Below
<1>14. Below(rank[x], rank[k])
  BY <1>10, <1>11, <1>12, TextAssumption DEF Below
<1> QED
  BY <1>9, <1>12, <1>13, <1>14

\* In an ordered registry a model some backend serves is routed to a backend
\* that serves it and that no other one outranks.
LEMMA RouteIsForemost ==
    ASSUME NEW bs \in Seq(BackendSet), Ordered(bs), NEW model, model # None,
           Eligible(bs, model) # {}
    PROVE  Route(bs, model) \in Foremost(bs, model)
<1>1. Route(bs, model) = Max(Foremost(bs, model))
  BY DEF Route
<1>2. Eligible(bs, model) \in SUBSET (1 .. Len(bs)) /\ Len(bs) \in Nat
  BY DEF Eligible
<1> DEFINE rank == [i \in DOMAIN bs |-> bs[i].precedence]
<1>3. \A i \in 1 .. Len(bs) : rank[i] = bs[i].precedence
  OBVIOUS
<1>4. \A i \in 1 .. Len(bs) : rank[i] \in Int \cup {None}
  BY <1>2, <1>3 DEF Ordered
<1> HIDE DEF rank
<1>5. PICK i \in Eligible(bs, model) :
          \A j \in Eligible(bs, model) : ~Below(rank[i], rank[j])
  BY <1>2, <1>4, SomeRankIsForemost
<1>6. i \in Foremost(bs, model)
  <2>1. \A j \in Eligible(bs, model) : ~Below(bs[i].precedence, bs[j].precedence)
    BY <1>2, <1>3, <1>5
  <2> QED
    BY <2>1 DEF Foremost
<1>7. \A j \in Foremost(bs, model) : j = i
  BY <1>6, OrderedRoutesOneWay
<1>8. \A y \in Foremost(bs, model) : i >= y
  <2>1. i \in Int
    BY <1>2
  <2> QED
    BY <1>7, <2>1
<1> QED
  BY <1>1, <1>6, <1>7, <1>8 DEF Max

\* A request that names no model is routed to a catch-all.
LEMMA RouteIsCatchAll ==
    ASSUME NEW bs \in Seq(BackendSet), NEW c \in DOMAIN bs, IsCatchAll(bs[c])
    PROVE  Route(bs, None) \in DOMAIN bs /\ IsCatchAll(bs[Route(bs, None)])
<1> DEFINE catchAlls == {i \in DOMAIN bs : IsCatchAll(bs[i])}
<1>1. catchAlls # {} /\ catchAlls \subseteq Nat
  OBVIOUS
<1>2. Route(bs, None) = Min(catchAlls)
  BY <1>1 DEF Route
<1>3. Min(catchAlls) \in catchAlls
  <2> HIDE DEF catchAlls
  <2> QED
    BY <1>1, MinIsLeast
<1> QED
  BY <1>2, <1>3

\* No request is routed to a position that holds no backend that takes it.
LEMMA RouteServes ==
    ASSUME NEW bs \in Seq(BackendSet), Ordered(bs), NEW model \in Models \cup {None},
           Route(bs, model) # 0
    PROVE  /\ Route(bs, model) \in DOMAIN bs
           /\ IF model = None THEN IsCatchAll(bs[Route(bs, model)])
              ELSE Route(bs, model) \in Foremost(bs, model)
<1>1. CASE model = None
  <2>1. PICK c \in DOMAIN bs : IsCatchAll(bs[c])
    BY <1>1 DEF Route
  <2> QED
    BY <1>1, <2>1, RouteIsCatchAll
<1>2. CASE model # None
  <2>1. Eligible(bs, model) # {}
    BY <1>2 DEF Route
  <2> QED
    BY <1>2, <2>1, RouteIsForemost DEF Foremost, Eligible
<1> QED
  BY <1>1, <1>2

\* A chain none of whose checks fails names no defect; so an ordered registry has
\* none.
LEMMA OrderedIsSound ==
    ASSUME NEW bs \in Seq(BackendSet), Ordered(bs)
    PROVE  RegistryDefect(bs) = "none"
<1>1. ~DuplicateId(bs) /\ ~Ambiguous(bs)
  <2>1. \A i, j \in DOMAIN bs : i < j => i # j
    OBVIOUS
  <2> QED
    BY <2>1 DEF Ordered, DuplicateId, Ambiguous
<1>2. ~CatchAllWithSiblings(bs)
  <2>1. SUFFICES ASSUME Len(bs) > 1, NEW i \in DOMAIN bs
                 PROVE  ~IsCatchAll(bs[i])
    BY DEF CatchAllWithSiblings
  <2>2. PICK j \in DOMAIN bs : j # i
    <3>1. 1 \in DOMAIN bs /\ 2 \in DOMAIN bs
      BY <2>1
    <3> QED
      BY <3>1
  <2> QED
    BY <2>2 DEF Ordered, IsCatchAll
<1> DEFINE checks == <<
        Check("DuplicateBackendId", DuplicateId(bs)),
        Check("CatchAllWithSiblings", CatchAllWithSiblings(bs)),
        Check("AmbiguousRoute", Ambiguous(bs)) >>
<1>3. DOMAIN checks = 1 .. 3
  OBVIOUS
<1>4. /\ checks[1] = Check("DuplicateBackendId", DuplicateId(bs))
      /\ checks[2] = Check("CatchAllWithSiblings", CatchAllWithSiblings(bs))
      /\ checks[3] = Check("AmbiguousRoute", Ambiguous(bs))
  OBVIOUS
<1>5. /\ ~Check("DuplicateBackendId", DuplicateId(bs)).fails
      /\ ~Check("CatchAllWithSiblings", CatchAllWithSiblings(bs)).fails
      /\ ~Check("AmbiguousRoute", Ambiguous(bs)).fails
  <2>1. /\ Check("DuplicateBackendId", DuplicateId(bs)).fails = DuplicateId(bs)
        /\ Check("CatchAllWithSiblings", CatchAllWithSiblings(bs)).fails
              = CatchAllWithSiblings(bs)
        /\ Check("AmbiguousRoute", Ambiguous(bs)).fails = Ambiguous(bs)
    BY Zenon DEF Check
  <2> QED
    BY <1>1, <1>2, <2>1
<1>6. RegistryDefect(bs) = FirstOf(checks)
  BY DEF RegistryDefect
<1> HIDE DEF checks
<1>7. {i \in DOMAIN checks : checks[i].fails} = {}
  BY <1>3, <1>4, <1>5
<1> QED
  BY <1>6, <1>7 DEF FirstOf

OneToOne(f, N) == \A i, j \in 1 .. N : f[i] = f[j] => i = j

\* A list put in another order holds every element it held.
LEMMA NothingIsLost ==
    ASSUME NEW N \in Nat, NEW f \in [1 .. N -> 1 .. N], OneToOne(f, N), NEW y \in 1 .. N
    PROVE  \E x \in 1 .. N : f[x] = y
<1>1. SUFFICES ASSUME \A x \in 1 .. N : f[x] # y PROVE FALSE
  OBVIOUS
<1>2. IsFiniteSet(1 .. N)
  BY FS_Interval
<1>3. /\ IsFiniteSet((1 .. N) \ {y})
      /\ Cardinality((1 .. N) \ {y}) = Cardinality(1 .. N) - 1
      /\ Cardinality(1 .. N) \in Nat
  BY <1>2, FS_RemoveElement, FS_CardinalityType
<1>4. f \in [1 .. N -> (1 .. N) \ {y}]
  BY <1>1
<1>5. \E a, b \in 1 .. N : a # b /\ f[a] = f[b]
  <2>1. Cardinality((1 .. N) \ {y}) < Cardinality(1 .. N)
    BY <1>3
  <2> DEFINE S == 1 .. N
             T == S \ {y}
  <2>2. IsFiniteSet(S) /\ IsFiniteSet(T) /\ Cardinality(T) < Cardinality(S) /\ f \in [S -> T]
    BY <1>2, <1>3, <1>4, <2>1
  <2> HIDE DEF S, T
  <2>3. \E a, b \in S : a # b /\ f[a] = f[b]
    BY <2>2, FS_PigeonHole
  <2> QED
    BY <2>3 DEF S
<1> QED
  BY <1>5 DEF OneToOne

\* The same entries, in the order p gives.
Moved(bs, p) == [i \in DOMAIN bs |-> bs[p[i]]]

\* Put in another order, an ordered registry is ordered, and routes every request
\* to the backend it went to.
LEMMA MovedRoutesAlike ==
    ASSUME NEW bs \in Seq(BackendSet), Ordered(bs),
           NEW p \in [DOMAIN bs -> DOMAIN bs],
           \A i, j \in DOMAIN bs : p[i] = p[j] => i = j,
           NEW moved, moved = Moved(bs, p)
    PROVE  /\ moved \in Seq(BackendSet) /\ Ordered(moved)
           /\ \A m \in Models \cup {None} :
                IF Route(bs, m) = 0 THEN Route(moved, m) = 0
                ELSE Route(moved, m) # 0 /\ moved[Route(moved, m)] = bs[Route(bs, m)]
<1>1. Len(bs) \in Nat /\ DOMAIN bs = 1 .. Len(bs)
  OBVIOUS
<1>2. DOMAIN moved = DOMAIN bs /\ \A i \in DOMAIN bs : moved[i] = bs[p[i]]
  BY DEF Moved
<1>3. \A i \in DOMAIN bs : bs[i] \in BackendSet
  OBVIOUS
<1>4. moved \in Seq(BackendSet)
  <2>1. \A i \in 1 .. Len(bs) : bs[p[i]] \in BackendSet
    BY <1>1, <1>3
  <2>2. moved = [i \in 1 .. Len(bs) |-> bs[p[i]]]
    BY <1>1 DEF Moved
  <2> QED
    BY <1>1, <2>1, <2>2
<1>5. Ordered(moved)
  <2>1. DOMAIN moved \subseteq Nat
    BY <1>1, <1>2
  <2>2. ASSUME NEW i \in DOMAIN moved
        PROVE  moved[i] = bs[p[i]] /\ p[i] \in DOMAIN bs
    BY <1>2
  <2>3. \A i \in DOMAIN moved : moved[i].precedence \in Int \cup {None}
    BY <2>2 DEF Ordered
  <2>4. ASSUME NEW i \in DOMAIN moved, NEW j \in DOMAIN moved, i # j
        PROVE  /\ moved[i].id # moved[j].id
               /\ moved[i].models # {}
               /\ moved[i].precedence = moved[j].precedence =>
                        moved[i].models \cap moved[j].models = {}
    <3>1. p[i] # p[j]
      BY <1>2, <2>4
    <3>2. p[i] \in DOMAIN bs /\ p[j] \in DOMAIN bs
      BY <2>2
    <3>3. /\ bs[p[i]].id # bs[p[j]].id
          /\ bs[p[i]].models # {}
          /\ bs[p[i]].precedence = bs[p[j]].precedence =>
                bs[p[i]].models \cap bs[p[j]].models = {}
      BY ONLY Ordered(bs), <3>1, <3>2 DEF Ordered
    <3>4. moved[i] = bs[p[i]] /\ moved[j] = bs[p[j]]
      BY <2>2
    <3> QED
      BY ONLY <3>3, <3>4
  <2> QED
    BY <2>1, <2>3, <2>4 DEF Ordered
<1>6. ASSUME NEW k \in DOMAIN bs PROVE \E i \in DOMAIN bs : p[i] = k
  <2>1. /\ p \in [1 .. Len(bs) -> 1 .. Len(bs)]
        /\ \A i, j \in 1 .. Len(bs) : p[i] = p[j] => i = j
        /\ k \in 1 .. Len(bs)
    BY <1>1
  <2>2. \E i \in 1 .. Len(bs) : p[i] = k
    <3> DEFINE N == Len(bs)
    <3>1. /\ N \in Nat /\ p \in [1 .. N -> 1 .. N] /\ k \in 1 .. N
          /\ OneToOne(p, N)
      BY ONLY <1>1, <2>1 DEF OneToOne
    <3> HIDE DEF N
    <3>2. \E i \in 1 .. N : p[i] = k
      BY ONLY <3>1, NothingIsLost
    <3> QED
      BY ONLY <3>2 DEF N
  <2> QED
    BY <1>1, <2>2
<1>7. ASSUME NEW m \in Models \cup {None}
      PROVE  IF Route(bs, m) = 0 THEN Route(moved, m) = 0
             ELSE Route(moved, m) # 0 /\ moved[Route(moved, m)] = bs[Route(bs, m)]
  <2>1. 0 \notin DOMAIN bs
    BY <1>1
  <2>2. CASE Route(bs, m) = 0
    <3>1. SUFFICES ASSUME Route(moved, m) # 0 PROVE FALSE
      BY <2>2
    <3>2. Route(moved, m) \in DOMAIN moved
      BY <1>4, <1>5, <3>1, RouteServes
    <3>3. p[Route(moved, m)] \in DOMAIN bs
          /\ moved[Route(moved, m)] = bs[p[Route(moved, m)]]
      BY <1>2, <3>2
    <3>4. CASE m = None
      <4>1. IsCatchAll(bs[p[Route(moved, m)]])
        BY <1>4, <1>5, <3>1, <3>3, <3>4, RouteServes
      <4> QED
        BY <2>1, <2>2, <3>3, <3>4, <4>1, RouteIsCatchAll
    <3>5. CASE m # None
      <4>1. Route(moved, m) \in Foremost(moved, m)
        BY <1>4, <1>5, <3>1, <3>5, RouteServes
      <4>2. p[Route(moved, m)] \in Eligible(bs, m)
        BY <3>3, <4>1 DEF Foremost, Eligible
      <4>3. Route(bs, m) \in Foremost(bs, m)
        BY <3>5, <4>2, RouteIsForemost
      <4> QED
        BY <2>1, <2>2, <4>3 DEF Foremost, Eligible
    <3> QED
      BY <3>4, <3>5
  <2>3. CASE Route(bs, m) # 0
    <3>1. /\ Route(bs, m) \in DOMAIN bs
          /\ IF m = None THEN IsCatchAll(bs[Route(bs, m)])
             ELSE Route(bs, m) \in Foremost(bs, m)
      BY <2>3, RouteServes
    <3>2. PICK k \in DOMAIN bs : p[k] = Route(bs, m)
      BY <1>6, <3>1
    <3>3. moved[k] = bs[Route(bs, m)]
      BY <1>2, <3>2
    <3>4. CASE m = None
      <4>1. k \in DOMAIN moved /\ IsCatchAll(moved[k])
        BY <1>2, <3>1, <3>3, <3>4
      <4>2. Route(moved, m) \in DOMAIN moved /\ IsCatchAll(moved[Route(moved, m)])
        BY <1>4, <3>4, <4>1, RouteIsCatchAll
      <4>3. Route(moved, m) = k
        BY <1>5, <4>1, <4>2 DEF Ordered, IsCatchAll
      <4> QED
        BY <1>2, <2>1, <2>3, <3>3, <4>2, <4>3
    <3>5. CASE m # None
      <4>1. Route(bs, m) \in Foremost(bs, m)
        BY <3>1, <3>5
      <4>2. k \in Eligible(moved, m)
        BY <1>2, <3>3, <4>1 DEF Foremost, Eligible
      <4>3. Route(moved, m) \in Foremost(moved, m)
        BY <1>4, <1>5, <3>5, <4>2, RouteIsForemost
      <4> DEFINE j == Route(moved, m)
      <4>4. j \in DOMAIN bs /\ p[j] \in DOMAIN bs /\ moved[j] = bs[p[j]]
        BY <1>2, <4>3 DEF Foremost, Eligible
      <4>5. \A l \in Eligible(bs, m) : ~Below(moved[j].precedence, bs[l].precedence)
        <5>1. SUFFICES ASSUME NEW l \in Eligible(bs, m)
                       PROVE  ~Below(moved[j].precedence, bs[l].precedence)
          OBVIOUS
        <5>2. PICK q \in DOMAIN bs : p[q] = l
          BY <1>6 DEF Eligible
        <5>3. moved[q] = bs[l]
          BY <1>2, <5>2
        <5>4. q \in Eligible(moved, m)
          BY <1>2, <5>3 DEF Eligible
        <5>5. ~Below(moved[j].precedence, moved[q].precedence)
          BY <4>3, <5>4 DEF Foremost
        <5> QED
          BY <5>3, <5>5
      <4>6. p[j] \in Foremost(bs, m)
        <5>1. p[j] \in Eligible(bs, m)
          BY <4>3, <4>4 DEF Foremost, Eligible
        <5> QED
          BY <4>4, <4>5, <5>1 DEF Foremost
      <4>7. p[j] = Route(bs, m)
        BY <4>1, <4>6, OrderedRoutesOneWay
      <4> QED
        BY <2>1, <2>3, <4>4, <4>7
    <3> QED
      BY <3>4, <3>5
  <2> QED
    BY <2>2, <2>3
<1> QED
  BY <1>4, <1>5, <1>7
-----------------------------------------------------------------------------
(***************************************************************************)
(* Registries.                                                             *)
(***************************************************************************)

\* A backend rates only models it serves.
RatesServed(bs) ==
    \A i \in DOMAIN bs : \A m \in Models : bs[i].rates[m] # None => Serves(bs[i], m)

\* A file without a defect has no entry with one.
LEMMA LoadedEntries ==
    ASSUME NEW entries \in Seq(Entries), LoadDefect(entries) = "none"
    PROVE  \A i \in DOMAIN entries : EntryDefect(entries[i]) = "none"
<1> DEFINE faulty == {i \in DOMAIN entries : EntryDefect(entries[i]) # "none"}
<1>1. ASSUME faulty # {} PROVE FALSE
  <2>1. Min(faulty) \in faulty
    BY <1>1, MinIsLeast
  <2> QED
    BY <1>1, <2>1 DEF LoadDefect
<1> QED
  BY <1>1

\* A file without a defect builds backends that rate only what they serve.
LEMMA LoadedIsTyped ==
    ASSUME NEW entries \in Seq(Entries), LoadDefect(entries) = "none"
    PROVE  BuildAll(entries) \in Seq(BackendSet) /\ RatesServed(BuildAll(entries))
<1>1. DOMAIN BuildAll(entries) = 1 .. Len(entries) /\ Len(entries) \in Nat
  BY DEF BuildAll
<1>2. \A i \in DOMAIN BuildAll(entries) :
        /\ BuildAll(entries)[i] = Build(entries[i])
        /\ entries[i] \in Entries
        /\ EntryDefect(entries[i]) = "none"
  BY LoadedEntries DEF BuildAll
<1>3. \A i \in DOMAIN BuildAll(entries) : BuildAll(entries)[i] \in BackendSet
  BY <1>2, BuiltIsTyped
<1>4. BuildAll(entries) \in Seq(BackendSet)
  <2>1. BuildAll(entries) = [i \in 1 .. Len(entries) |-> Build(entries[i])]
    BY DEF BuildAll
  <2>2. \A i \in 1 .. Len(entries) : Build(entries[i]) \in BackendSet
    BY <1>1, <1>2, <1>3
  <2> QED
    BY <1>1, <2>1, <2>2
<1> QED
  BY <1>2, <1>4, BuiltIsTyped DEF RatesServed

\* The backend of OBOLUS_UPSTREAM_URL is a registry by itself.
LEMMA SoleIsSound ==
    ASSUME NEW rates \in [Models -> TokenRates \cup {None}]
    PROVE  LET bs == << Single(DefaultId, rates) >>
           IN  bs \in Seq(BackendSet) /\ RatesServed(bs) /\ Ordered(bs)
<1> DEFINE b == Single(DefaultId, rates)
<1>1. b = [id |-> DefaultId, kind |-> "ollama", models |-> {}, precedence |-> None,
           has_key |-> FALSE, cost |-> None, rates |-> rates]
  BY DEF Single
<1>2. b \in BackendSet
  BY <1>1, DefaultsAssumption DEF BackendSet, Kinds
<1>3. b.models = {} /\ b.precedence = None
  BY <1>1
<1> HIDE DEF b
<1>4. <<b>> \in Seq(BackendSet) /\ DOMAIN <<b>> = {1} /\ <<b>>[1] = b
  BY <1>2
<1>5. RatesServed(<<b>>)
  BY <1>3, <1>4 DEF RatesServed, Serves, IsCatchAll
<1>6. Ordered(<<b>>)
  BY <1>3, <1>4 DEF Ordered
<1> QED
  BY <1>4, <1>5, <1>6 DEF b

\* Only costs change when a registry is sealed.
LEMMA SealedIsSound ==
    ASSUME registry \in Seq(BackendSet), RatesServed(registry), Ordered(registry),
           choice.cost \in (Amounts \ {0}) \cup {None}
    PROVE  Sealed \in Seq(BackendSet) /\ RatesServed(Sealed) /\ Ordered(Sealed)
<1> DEFINE kept(i) == /\ Sealed[i].id = registry[i].id
                      /\ Sealed[i].models = registry[i].models
                      /\ Sealed[i].precedence = registry[i].precedence
                      /\ Sealed[i].rates = registry[i].rates
<1>1. Len(registry) \in Nat /\ DOMAIN registry = 1 .. Len(registry)
  OBVIOUS
<1>2. DOMAIN Sealed = DOMAIN registry
  BY DEF Sealed
<1>3. ASSUME NEW i \in DOMAIN registry
      PROVE  Sealed[i] \in BackendSet /\ kept(i)
  <2>1. registry[i] \in BackendSet
    OBVIOUS
  <2>2. CASE choice.cost # None /\ i = 1
    <3>1. Sealed[i] = [registry[i] EXCEPT !.cost = choice.cost]
      BY <2>2 DEF Sealed
    <3> QED
      BY <2>1, <2>2, <3>1 DEF BackendSet
  <2>3. CASE ~(choice.cost # None /\ i = 1)
    <3>1. Sealed[i] = registry[i]
      BY <2>3 DEF Sealed
    <3> QED
      BY <2>1, <3>1
  <2> QED
    BY <2>2, <2>3
<1>4. Sealed \in Seq(BackendSet)
  <2>1. CASE choice.cost = None
    BY <2>1 DEF Sealed
  <2>2. CASE choice.cost # None
    <3>1. Sealed = [i \in 1 .. Len(registry) |-> Sealed[i]]
      BY <1>1, <2>2 DEF Sealed
    <3>2. \A i \in 1 .. Len(registry) : Sealed[i] \in BackendSet
      BY <1>1, <1>3
    <3> QED
      BY <1>1, <3>1, <3>2
  <2> QED
    BY <2>1, <2>2
<1>5. RatesServed(Sealed)
  BY <1>2, <1>3 DEF RatesServed, Serves, IsCatchAll
<1>6. Ordered(Sealed)
  <2> HIDE DEF kept
  <2>1. /\ DOMAIN Sealed \subseteq Nat
        /\ \A i \in DOMAIN Sealed : Sealed[i].precedence \in Int \cup {None}
    BY <1>1, <1>2, <1>3 DEF kept, Ordered
  <2>2. ASSUME NEW i \in DOMAIN Sealed, NEW j \in DOMAIN Sealed, i # j
        PROVE  /\ Sealed[i].id # Sealed[j].id
               /\ Sealed[i].models # {}
               /\ Sealed[i].precedence = Sealed[j].precedence =>
                      Sealed[i].models \cap Sealed[j].models = {}
    <3>1. kept(i) /\ kept(j)
      BY <1>2, <1>3
    <3>2. /\ registry[i].id # registry[j].id
          /\ registry[i].models # {}
          /\ registry[i].precedence = registry[j].precedence =>
                 registry[i].models \cap registry[j].models = {}
      BY <1>2, <2>2 DEF Ordered
    <3> QED
      BY <3>1, <3>2 DEF kept
  <2> QED
    BY <2>1, <2>2 DEF Ordered
<1> QED
  BY <1>4, <1>5, <1>6
-----------------------------------------------------------------------------
(***************************************************************************)
(* What a request costs.                                                   *)
(***************************************************************************)

LEMMA SaturateBounds ==
    ASSUME NEW n \in Nat
    PROVE  Saturate(n) \in Amounts /\ (n > 0 => Saturate(n) > 0)
BY UnitsAssumption DEF Saturate, Amounts

LEMMA DivBounds ==
    ASSUME NEW a \in Nat, NEW b \in Nat \ {0}
    PROVE  a \div b \in 0 .. a
OBVIOUS

\* A backend that costs something is never quoted for nothing.
LEMMA CostPlusIsPaid ==
    ASSUME NEW cost \in Nat \ {0}, NEW margin \in Nat
    PROVE  CostPlus(cost, margin) \in Amounts \ {0}
<1>1. cost * margin \in Nat
  OBVIOUS
<1>2. Saturate(cost * margin) \in Nat
  BY <1>1, SaturateBounds DEF Amounts
<1>3. Saturate(cost * margin) \div Whole \in Nat
  BY <1>2, DivBounds, UnitsAssumption
<1>4. cost + Saturate(cost * margin) \div Whole \in Nat \ {0}
  BY <1>3
<1> QED
  BY <1>4, SaturateBounds DEF CostPlus

\* A token price is at least one unit, rates of zero and empty bodies included.
LEMMA TokenPriceIsPaid ==
    ASSUME NEW bytes \in Nat, NEW max_tokens \in Nat, NEW rate \in TokenRates
    PROVE  TokenPrice(bytes, max_tokens, rate) \in Amounts \ {0}
<1> DEFINE units == TokenCost(EstimatedInputTokens(bytes), max_tokens, rate)
<1>1. EstimatedInputTokens(bytes) \in Nat
  <2>1. bytes + BytesPerToken - 1 \in Nat
    BY UnitsAssumption
  <2> QED
    BY <2>1, DivBounds, UnitsAssumption DEF EstimatedInputTokens, CeilDiv
<1>2. units \in Nat
  <2>1. rate.input \in Nat /\ rate.output \in Nat
    BY DEF TokenRates
  <2>2. EstimatedInputTokens(bytes) * rate.input \in Nat
    BY <1>1, <2>1
  <2>3. max_tokens * rate.output \in Nat
    BY <2>1
  <2> QED
    BY <2>2, <2>3 DEF TokenCost
<1> HIDE DEF units
<1>3. CASE units > MaxAmount \/ CeilDiv(units, PerRate) = 0
  BY <1>3, UnitsAssumption DEF TokenPrice, units, Amounts
<1>4. CASE ~(units > MaxAmount \/ CeilDiv(units, PerRate) = 0)
  <2>1. CeilDiv(units, PerRate) \in 0 .. MaxAmount
    BY <1>2, <1>4, UnitsAssumption DEF CeilDiv
  <2>2. TokenPrice(bytes, max_tokens, rate) = CeilDiv(units, PerRate)
    BY <1>4 DEF TokenPrice, units
  <2> QED
    BY <1>4, <2>1, <2>2 DEF Amounts
<1> QED
  BY <1>3, <1>4

\* A promotion never raises a price, and never gives away what was payable.
THEOREM PromotionOnlyDiscounts ==
    ASSUME NEW base \in Amounts, NEW discount \in 1 .. Whole - 1
    PROVE  /\ Discounted(base, discount) \in 0 .. base
           /\ base > 0 => Discounted(base, discount) > 0
<1> DEFINE kept == base * (Whole - discount)
           floored == Saturate(kept) \div Whole
<1>1. base \in Nat /\ Whole - discount \in 1 .. Whole /\ Whole \in Nat \ {0}
  BY UnitsAssumption DEF Amounts
<1>2. kept \in Nat /\ kept <= base * Whole
  <2>1. \A w \in 1 .. Whole : base * w \in Nat /\ base * w <= base * Whole
    BY <1>1
  <2> QED
    BY <1>1, <2>1
<1>3. Saturate(kept) \in Nat /\ Saturate(kept) <= base * Whole
  <2>1. \A n \in Nat : Saturate(n) \in Nat /\ Saturate(n) <= n
    BY UnitsAssumption DEF Saturate
  <2>2. base * Whole \in Nat
    BY <1>1
  <2> HIDE DEF kept
  <2> QED
    BY <1>2, <2>1, <2>2
<1>4. floored \in 0 .. base
  <2>1. \A n \in Nat : n <= base * Whole => n \div Whole \in 0 .. base
    BY <1>1
  <2> HIDE DEF kept
  <2> QED
    BY <1>3, <2>1
<1>5. Discounted(base, discount) = IF base > 0 /\ floored = 0 THEN 1 ELSE floored
  BY DEF Discounted
<1> HIDE DEF floored
<1> QED
  BY <1>1, <1>4, <1>5

\* What an armed amount is quoted at, under any rate and any promotion: an
\* amount, and nothing only where the operator armed nothing.
LEMMA QuoteIsPaid ==
    ASSUME NEW form \in FormSet, NEW b \in BackendSet, NEW amount \in Amounts, NEW t,
           choice \in [rate : {"static", "cost-plus", "token"}, margin : Nat,
                       cost : (Amounts \ {0}) \cup {None}],
           promo \in {None} \cup [discount : 1 .. Whole - 1, start : Nat, end : Nat]
    PROVE  /\ Quote(form, b, amount, t) \in Amounts
           /\ Quote(form, b, amount, t) = 0 => choice.rate = "static" /\ amount = 0
<1> DEFINE base == BaseQuote(form, b, amount)
<1>1. MaxAmount \in Amounts \ {0}
  BY UnitsAssumption DEF Amounts
<1>2. base \in Amounts /\ (base = 0 => choice.rate = "static" /\ amount = 0)
  <2>1. CASE choice.rate = "static"
    BY <2>1 DEF BaseQuote
  <2>2. CASE choice.rate = "cost-plus"
    <3>1. b.cost \in (Amounts \ {0}) \cup {None} /\ choice.margin \in Nat
      BY DEF BackendSet
    <3>2. (IF b.cost = None THEN MaxAmount ELSE b.cost) \in Nat \ {0}
      BY <1>1, <3>1, UnitsAssumption DEF Amounts
    <3>3. CostPlus(IF b.cost = None THEN MaxAmount ELSE b.cost, choice.margin)
            \in Amounts \ {0}
      BY <3>1, <3>2, CostPlusIsPaid
    <3> QED
      BY <2>2, <3>3 DEF BaseQuote
  <2>3. CASE choice.rate = "token"
    <3>1. CASE ~(ModelRate(form, b) /\ form.max_tokens \in Nat)
      BY <1>1, <2>3, <3>1 DEF BaseQuote
    <3>2. CASE ModelRate(form, b) /\ form.max_tokens \in Nat
      <4>1. form.bytes \in Nat /\ form.model \in Models \cup {None}
        BY DEF FormSet
      <4>2. b.rates[form.model] \in TokenRates
        BY <3>2, <4>1 DEF ModelRate, BackendSet
      <4>3. TokenPrice(form.bytes, form.max_tokens, b.rates[form.model])
              \in Amounts \ {0}
        BY <3>2, <4>1, <4>2, TokenPriceIsPaid
      <4> QED
        BY <2>3, <3>2, <4>3 DEF BaseQuote
    <3> QED
      BY <3>1, <3>2
  <2> QED
    BY <2>1, <2>2, <2>3
<1>3. base \in 0 .. MaxAmount
  BY <1>2 DEF Amounts
<1> HIDE DEF base
<1>4. CASE promo # None /\ InWindow(promo, t)
  <2>1. promo.discount \in 1 .. Whole - 1
    BY <1>4
  <2>2. /\ Discounted(base, promo.discount) \in 0 .. base
        /\ base > 0 => Discounted(base, promo.discount) > 0
    BY <1>2, <2>1, PromotionOnlyDiscounts
  <2>3. Quote(form, b, amount, t) = Discounted(base, promo.discount)
    BY <1>4 DEF Quote, base
  <2>4. Discounted(base, promo.discount) \in Amounts
    BY <1>3, <2>2, UnitsAssumption DEF Amounts
  <2>5. Discounted(base, promo.discount) = 0 => base = 0
    BY <1>3, <2>2
  <2> QED
    BY <1>2, <2>3, <2>4, <2>5
<1>5. CASE ~(promo # None /\ InWindow(promo, t))
  BY <1>2, <1>5 DEF Quote, base
<1> QED
  BY <1>4, <1>5
-----------------------------------------------------------------------------
(***************************************************************************)
(* The inductive invariant: the types, an ordered registry whose backends  *)
(* rate only what they serve from its door on, coverage once the gateway   *)
(* is open, and answers that only an open gateway has given.               *)
(***************************************************************************)
ConfigTyped ==
    /\ registry \in Seq(BackendSet)
    /\ options \in Seq(Amounts)
    /\ choice \in [rate : {"static", "cost-plus", "token"}, margin : Nat,
                   cost : (Amounts \ {0}) \cup {None}]
    /\ promo \in {None} \cup [discount : 1 .. Whole - 1, start : Nat, end : Nat]
    /\ cap \in Nat \ {0}

RegistrySound == Built => RatesServed(registry) /\ Ordered(registry)

ServedOpen == served # None => door = "open"

IInv == TypeOK /\ RegistrySound /\ CoverageAgrees /\ ServedOpen /\ PayableIsNeverFree

LEMMA InitEstablishes == Init => IInv
<1> SUFFICES ASSUME Init PROVE IInv
  OBVIOUS
<1>1. env \in EnvironmentSet
  BY EnvironmentsAssumption DEF Init
<1>2. choice = [rate |-> "static", margin |-> 0, cost |-> None]
  BY DEF Init, Static
<1>3. TypeOK
  BY <1>1, <1>2, DefaultsAssumption DEF Init, TypeOK, Doors
<1>4. RegistrySound /\ CoverageAgrees /\ ServedOpen /\ PayableIsNeverFree
  BY DEF Init, RegistrySound, Built, CoverageAgrees, ServedOpen, PayableIsNeverFree,
         WasPriced
<1> QED
  BY <1>3, <1>4 DEF IInv

\* What passing a door comes to: a process that has answered nobody stops on the
\* first failing check or goes on to the next door.
LEMMA PassedOrRefused ==
    ASSUME NEW here, NEW next, NEW checks, IInv, Pass(here, next, checks),
           here # "open", next # "refused"
    PROVE  /\ door = here /\ env' = env /\ now' = now
           /\ served = None /\ served' = None
           /\ refusal' = FirstOf(checks)
           /\ refusal' = "none" => door' = next
           /\ refusal' # "none" => door' = "refused"
BY DEF IInv, ServedOpen, Pass

\* What is left to show of a door once its frame is known.
LEMMA DoorStep ==
    ASSUME IInv, env' = env, now' = now, served' = None,
           door' \in Doors, refusal' = "none" <=> door' # "refused",
           ConfigTyped', RegistrySound', CoverageAgrees'
    PROVE  IInv'
<1>1. TypeOK'
  BY DEF IInv, TypeOK, ConfigTyped
<1>2. ServedOpen' /\ PayableIsNeverFree'
  BY DEF ServedOpen, PayableIsNeverFree, WasPriced
<1> QED
  BY <1>1, <1>2 DEF IInv
-----------------------------------------------------------------------------
(***************************************************************************)
(* One lemma per door.                                                     *)
(***************************************************************************)

\* A file that passes its checks can be read, has no defect and is set alone.
LEMMA FileRules ==
    ASSUME env \in EnvironmentSet, FromFile, FirstOf(FileChecks) = "none"
    PROVE  /\ env.backendsFile \in Seq(Entries) /\ LoadDefect(env.backendsFile) = "none"
           /\ ~IsSet(env.upstreamUrl) /\ ~IsSet(env.upstreamCost) /\ env.modelRates = None
<1> DEFINE checks == FileChecks
<1>1. DOMAIN checks = 1 .. 8
  BY DEF FileChecks
<1>2. PICK defect : defect = IF env.backendsFile \in {Blank, Unreadable, Junk}
                             THEN "none" ELSE LoadDefect(env.backendsFile)
  OBVIOUS
<1>3. /\ checks[1] = Check("EmptyPath", env.backendsFile = Blank)
      /\ checks[2] = Check("UpstreamUrlToo", IsSet(env.upstreamUrl))
      /\ checks[3] = Check("UpstreamCostToo", IsSet(env.upstreamCost))
      /\ checks[5] = Check("AlongsideBackendsFile", env.modelRates # None)
      /\ checks[6] = Check("Unreadable", env.backendsFile = Unreadable)
      /\ checks[7] = Check("Malformed", env.backendsFile = Junk)
      /\ checks[8] = Check(defect, defect # "none")
  BY <1>2 DEF FileChecks
<1>4. \A i \in 1 .. 7 : checks[i].name # "none"
  BY CheckFields DEF FileChecks
<1> HIDE DEF checks
<1>5. checks[8].name = defect
  BY <1>3, CheckFields
<1>6. checks[8].fails => defect # "none"
  <2>1. Check(defect, defect # "none").fails = (defect # "none")
    BY Zenon DEF Check
  <2> QED
    BY <1>3, <2>1
<1>7. \A i \in 1 .. 8 : ~checks[i].fails
  <2>1. \A i \in DOMAIN checks : checks[i].fails => checks[i].name # "none"
    BY <1>1, <1>4, <1>5, <1>6
  <2>2. FirstOf(checks) = "none"
    BY DEF checks
  <2> QED
    BY <1>1, <2>1, <2>2, NoneFails
<1>8. /\ ~checks[1].fails /\ ~checks[2].fails /\ ~checks[3].fails /\ ~checks[5].fails
      /\ ~checks[6].fails /\ ~checks[7].fails /\ ~checks[8].fails
  BY <1>7
<1>9. ~(env.backendsFile = Blank)
  <2>1. Check("EmptyPath", env.backendsFile = Blank).fails
            = (env.backendsFile = Blank)
    BY Zenon DEF Check
  <2> QED
    BY <1>3, <1>8, <2>1
<1>10. ~(env.backendsFile = Unreadable)
  <2>1. Check("Unreadable", env.backendsFile = Unreadable).fails
            = (env.backendsFile = Unreadable)
    BY Zenon DEF Check
  <2> QED
    BY <1>3, <1>8, <2>1
<1>11. ~(env.backendsFile = Junk)
  <2>1. Check("Malformed", env.backendsFile = Junk).fails
            = (env.backendsFile = Junk)
    BY Zenon DEF Check
  <2> QED
    BY <1>3, <1>8, <2>1
<1>12. ~(defect # "none")
  <2>1. Check(defect, defect # "none").fails = (defect # "none")
    BY Zenon DEF Check
  <2> QED
    BY <1>3, <1>8, <2>1
<1>13. env.backendsFile \notin {None, NotUnicode}
  BY DEF FromFile, IsSet, Read
<1>14. env.backendsFile \in {None, Blank, Unreadable, Junk, NotUnicode} \cup Seq(Entries)
  BY DEF EnvironmentSet
<1>15. ~IsSet(env.upstreamUrl)
  <2>1. Check("UpstreamUrlToo", IsSet(env.upstreamUrl)).fails = IsSet(env.upstreamUrl)
    BY Zenon DEF Check
  <2> QED
    BY <1>3, <1>8, <2>1
<1>16. ~IsSet(env.upstreamCost)
  <2>1. Check("UpstreamCostToo", IsSet(env.upstreamCost)).fails = IsSet(env.upstreamCost)
    BY Zenon DEF Check
  <2> QED
    BY <1>3, <1>8, <2>1
<1>17. ~(env.modelRates # None)
  <2>1. Check("AlongsideBackendsFile", env.modelRates # None).fails
            = (env.modelRates # None)
    BY Zenon DEF Check
  <2> QED
    BY <1>3, <1>8, <2>1
<1> QED
  BY <1>2, <1>9, <1>10, <1>11, <1>12, <1>13, <1>14, <1>15, <1>16, <1>17

LEMMA LoadBackendsStep == IInv /\ LoadBackends => IInv'
<1> SUFFICES ASSUME IInv, LoadBackends PROVE IInv'
  OBVIOUS
<1>1. /\ door = "backends" /\ env' = env /\ now' = now /\ served' = None
      /\ refusal' = FirstOf(FileChecks)
      /\ refusal' = "none" => door' = "options"
      /\ refusal' # "none" => door' = "refused"
  <2> HIDE DEF FileChecks
  <2> QED
    BY PassedOrRefused DEF LoadBackends
<1>2. /\ registry' = IF refusal' = "none" THEN BuildAll(env.backendsFile) ELSE registry
      /\ UNCHANGED <<options, choice, promo, cap>>
  BY DEF LoadBackends
<1>3. refusal' = "none" =>
        /\ registry' \in Seq(BackendSet)
        /\ RatesServed(registry') /\ Ordered(registry')
  <2>1. SUFFICES ASSUME refusal' = "none"
                 PROVE  /\ registry' \in Seq(BackendSet)
                        /\ RatesServed(registry') /\ Ordered(registry')
    OBVIOUS
  <2>2. env.backendsFile \in Seq(Entries) /\ LoadDefect(env.backendsFile) = "none"
    BY <1>1, <2>1, FileRules DEF IInv, TypeOK, LoadBackends
  <2> QED
    BY <1>2, <2>1, <2>2, LoadedIsTyped, LoadedIsOrdered
<1>4. ConfigTyped'
  BY <1>2, <1>3 DEF IInv, TypeOK, ConfigTyped
<1>5. RegistrySound'
  BY <1>1, <1>3 DEF RegistrySound, Built, RatesServed, Ordered
<1>6. door' \in Doors /\ door' # "open" /\ (refusal' = "none" <=> door' # "refused")
  BY <1>1 DEF Doors
<1>7. CoverageAgrees'
  BY <1>6 DEF CoverageAgrees
<1> QED
  BY <1>1, <1>4, <1>5, <1>6, <1>7, DoorStep

\* Sound rates rate some model.
LEMMA SomethingIsRated ==
    ASSUME NEW rates \in Seq(RateEntries), rates # None, NEW models,
           RatesSound(rates, models)
    PROVE  RatesOf(rates) # NoRates
<1>1. rates # <<>>
  BY DEF RatesSound
<1>2. 1 \in DOMAIN rates /\ rates[1] \in RateEntries /\ rates[1].model # Blank
  BY <1>1 DEF RatesSound
<1> DEFINE m == rates[1].model
<1>3. m \in Models
  BY <1>2 DEF RateEntries
<1> DEFINE k == CHOOSE i \in DOMAIN rates : rates[i].model = m
<1>4. k \in DOMAIN rates
  BY <1>2
<1>5. RatesOf(rates)[m] = [input |-> rates[k].input, output |-> rates[k].output]
  BY <1>2, <1>3 DEF RatesOf
<1> HIDE DEF k
<1>6. rates[k].input \in Nat /\ rates[k].output \in Nat
  BY <1>4 DEF RatesSound
<1>7. RatesOf(rates)[m] \in [input : Nat, output : Nat]
  BY <1>5, <1>6
<1> HIDE DEF m
<1>8. NoRates[m] = None
  BY <1>3 DEF NoRates
<1> QED
  BY <1>7, <1>8, TextAssumption

\* What select_model_rates lets through are the rates of some models, or none.
LEMMA SoleRules ==
    ASSUME env \in EnvironmentSet, FirstOf(SingleChecks) = "none"
    PROVE  /\ RatesOf(env.modelRates) \in [Models -> TokenRates \cup {None}]
           /\ IsSet(env.modelRates) => RatesOf(env.modelRates) # NoRates
<1> DEFINE checks == SingleChecks
<1>1. DOMAIN checks = 1 .. 4
  BY DEF SingleChecks
<1>2. /\ checks[1] = Check("BadUpstreamUrl", env.upstreamUrl = "other")
      /\ checks[2] = Check("RatesNotUnicode", env.modelRates = NotUnicode)
      /\ checks[3] = Check("EmptyRates", env.modelRates = Blank)
      /\ checks[4] = Check("BadRates",
                env.modelRates \notin {None, NotUnicode, Blank}
                    /\ ~RatesSound(env.modelRates, {}))
  BY DEF SingleChecks
<1>3. \A i \in 1 .. 4 : checks[i].name # "none"
  <2> HIDE DEF checks
  <2>1. checks[1].name # "none" /\ checks[2].name # "none"
    BY <1>2, CheckFields
  <2>2. checks[3].name # "none" /\ checks[4].name # "none"
    BY <1>2, CheckFields
  <2> QED
    BY <2>1, <2>2
<1>4. \A i \in 1 .. 4 : ~checks[i].fails
  <2>1. FirstOf(checks) = "none"
    OBVIOUS
  <2> HIDE DEF checks
  <2> QED
    BY <1>1, <1>3, <2>1, NoneFails
<1>5. ~checks[2].fails /\ ~checks[3].fails /\ ~checks[4].fails
  BY <1>4
<1> HIDE DEF checks
<1>6. ~(env.modelRates = Blank)
  <2>1. checks[3] = Check("EmptyRates", env.modelRates = Blank) /\ ~checks[3].fails
    BY <1>2, <1>5
  <2> QED
    BY <2>1, CheckFields, Zenon
<1>7. ~(env.modelRates \notin {None, NotUnicode, Blank} /\ ~RatesSound(env.modelRates, {}))
  <2>1. Check("BadRates", env.modelRates \notin {None, NotUnicode, Blank}
                            /\ ~RatesSound(env.modelRates, {})).fails
            = (env.modelRates \notin {None, NotUnicode, Blank}
                            /\ ~RatesSound(env.modelRates, {}))
    BY Zenon DEF Check
  <2> QED
    BY <1>2, <1>5, <2>1
<1>8. ~(env.modelRates = NotUnicode)
  <2>1. checks[2] = Check("RatesNotUnicode", env.modelRates = NotUnicode) /\ ~checks[2].fails
    BY <1>2, <1>5
  <2> QED
    BY <2>1, CheckFields, Zenon
<1>9. env.modelRates \in {None, Blank, Junk, NotUnicode} \cup Seq(RateEntries)
  BY DEF EnvironmentSet
<1>10. env.modelRates # None => RatesSound(env.modelRates, {})
  BY <1>6, <1>7, <1>8
<1>11. env.modelRates # None => env.modelRates # Junk
  BY <1>10 DEF RatesSound
<1>12. env.modelRates \in Seq(RateEntries) \cup {None}
  BY <1>6, <1>9, <1>11, <1>8
<1>13. IsSet(env.modelRates) => RatesOf(env.modelRates) # NoRates
  <2>1. SUFFICES ASSUME IsSet(env.modelRates) PROVE RatesOf(env.modelRates) # NoRates
    OBVIOUS
  <2>2. env.modelRates # None
    BY <2>1, <1>8 DEF IsSet, Read
  <2>3. env.modelRates \in Seq(RateEntries) /\ RatesSound(env.modelRates, {})
    BY <1>10, <1>12, <2>2
  <2> QED
    BY <2>2, <2>3, SomethingIsRated
<1> QED
  BY <1>10, <1>12, <1>13, RatesAreTyped

LEMMA SingleBackendStep == IInv /\ SingleBackend => IInv'
<1> SUFFICES ASSUME IInv, SingleBackend PROVE IInv'
  OBVIOUS
<1>1. /\ door = "backends" /\ env' = env /\ now' = now /\ served' = None
      /\ refusal' = FirstOf(SingleChecks)
      /\ refusal' = "none" => door' = "options"
      /\ refusal' # "none" => door' = "refused"
  <2> HIDE DEF SingleChecks
  <2> QED
    BY PassedOrRefused DEF SingleBackend
<1>2. /\ registry' = IF refusal' = "none"
                     THEN << Single(DefaultId, RatesOf(env.modelRates)) >> ELSE registry
      /\ UNCHANGED <<options, choice, promo, cap>>
  BY DEF SingleBackend
<1>3. refusal' = "none" =>
        /\ registry' \in Seq(BackendSet)
        /\ RatesServed(registry') /\ Ordered(registry')
  <2>1. SUFFICES ASSUME refusal' = "none"
                 PROVE  /\ registry' \in Seq(BackendSet)
                        /\ RatesServed(registry') /\ Ordered(registry')
    OBVIOUS
  <2>2. RatesOf(env.modelRates) \in [Models -> TokenRates \cup {None}]
    BY <1>1, <2>1, SoleRules DEF IInv, TypeOK
  <2> QED
    BY <1>2, <2>1, <2>2, SoleIsSound
<1>4. ConfigTyped'
  BY <1>2, <1>3 DEF IInv, TypeOK, ConfigTyped
<1>5. RegistrySound'
  BY <1>1, <1>3 DEF RegistrySound, Built, RatesServed, Ordered
<1>6. door' \in Doors /\ door' # "open" /\ (refusal' = "none" <=> door' # "refused")
  BY <1>1 DEF Doors
<1>7. CoverageAgrees'
  BY <1>6 DEF CoverageAgrees
<1> QED
  BY <1>1, <1>4, <1>5, <1>6, <1>7, DoorStep

\* The doors after the backends' leave the registry as it is.
LEMMA LaterDoor ==
    ASSUME IInv, NEW here \in {"options", "pricing", "promo", "cap"},
           NEW next \in {"pricing", "promo", "cap", "coverage"}, NEW checks,
           Pass(here, next, checks), registry' = registry, ConfigTyped'
    PROVE  IInv'
<1>1. /\ door = here /\ env' = env /\ now' = now /\ served' = None
      /\ refusal' = "none" => door' = next
      /\ refusal' # "none" => door' = "refused"
  BY PassedOrRefused
<1>2. door' \in Doors /\ door' # "open" /\ (refusal' = "none" <=> door' # "refused")
  BY <1>1 DEF Doors
<1>3. RegistrySound'
  BY <1>1 DEF IInv, RegistrySound, Built, RatesServed, Ordered
<1>4. CoverageAgrees'
  BY <1>2 DEF CoverageAgrees
<1> QED
  BY <1>1, <1>2, <1>3, <1>4, DoorStep

\* A list of options that passes its checks is one, and is set alone.
LEMMA AcceptsRules ==
    ASSUME env \in EnvironmentSet, IsSet(env.accepts),
           FirstOf(AcceptsChecks) = "none"
    PROVE  /\ env.accepts \in Seq(Amounts)
           /\ ~env.singleChain /\ ~IsSet(env.price)
<1> DEFINE checks == AcceptsChecks
<1>1. DOMAIN checks = 1 .. 3
  BY DEF AcceptsChecks
<1>2. /\ checks[1] = Check("EmptyAccepts", env.accepts = Blank)
      /\ checks[2] = Check("Superseded", env.singleChain \/ IsSet(env.price))
      /\ checks[3] = Check("BadAccepts", env.accepts \in {Junk, <<>>})
  BY DEF AcceptsChecks
<1>3. \A i \in 1 .. 3 : checks[i].name # "none"
  BY CheckFields DEF AcceptsChecks
<1> HIDE DEF checks
<1>4. \A i \in 1 .. 3 : ~checks[i].fails
  <2>1. FirstOf(checks) = "none"
    BY DEF checks
  <2> QED
    BY <1>1, <1>3, <2>1, NoneFails
<1>5. ~checks[1].fails /\ ~checks[2].fails /\ ~checks[3].fails
  BY <1>4
<1>6. ~(env.accepts = Blank)
  <2>1. Check("EmptyAccepts", env.accepts = Blank).fails = (env.accepts = Blank)
    BY Zenon DEF Check
  <2> QED
    BY <1>2, <1>5, <2>1
<1>7. ~(env.accepts \in {Junk, <<>>})
  <2>1. Check("BadAccepts", env.accepts \in {Junk, <<>>}).fails
            = (env.accepts \in {Junk, <<>>})
    BY Zenon DEF Check
  <2> QED
    BY <1>2, <1>5, <2>1
<1>8. env.accepts \notin {None, NotUnicode}
  BY DEF IsSet, Read
<1>9. env.accepts \in {None, Blank, Junk, NotUnicode} \cup Seq(Amounts)
  BY DEF EnvironmentSet
<1>10. ~(env.singleChain \/ IsSet(env.price))
  <2>1. Check("Superseded", env.singleChain \/ IsSet(env.price)).fails
            = (env.singleChain \/ IsSet(env.price))
    BY Zenon DEF Check
  <2> QED
    BY <1>2, <1>5, <2>1
<1> QED
  BY <1>6, <1>7, <1>8, <1>9, <1>10

LEMMA ManyOptionsStep == IInv /\ ManyOptions => IInv'
<1> SUFFICES ASSUME IInv, ManyOptions PROVE IInv'
  OBVIOUS
<1>1. Pass("options", "pricing", AcceptsChecks) /\ registry' = registry
  BY DEF ManyOptions
<1>2. refusal' = FirstOf(AcceptsChecks)
  BY <1>1, PassedOrRefused
<1>3. refusal' = "none" => env.accepts \in Seq(Amounts)
  BY <1>2, AcceptsRules DEF ManyOptions, IInv, TypeOK
<1>4. ConfigTyped'
  BY <1>3 DEF ManyOptions, IInv, TypeOK, ConfigTyped
<1> HIDE DEF AcceptsChecks
<1> QED
  BY <1>1, <1>4, LaterDoor

\* One amount, set or not.
LEMMA AmountRules ==
    ASSUME env \in EnvironmentSet, FirstOf(AmountChecks) = "none"
    PROVE  IsSet(env.price) => env.price \in Amounts
<1> DEFINE checks == AmountChecks
<1>1. DOMAIN checks = 1 .. 1
  BY DEF AmountChecks
<1>2. /\ checks[1] = Check("BadAmount", env.price = Junk)
  BY DEF AmountChecks
<1>3. \A i \in 1 .. 1 : checks[i].name # "none"
  BY CheckFields DEF AmountChecks
<1> HIDE DEF checks
<1>4. \A i \in 1 .. 1 : ~checks[i].fails
  <2>1. FirstOf(checks) = "none"
    BY DEF checks
  <2> QED
    BY <1>1, <1>3, <2>1, NoneFails
<1>5. ~checks[1].fails
  BY <1>4
<1>6. ~(env.price = Junk)
  <2>1. Check("BadAmount", env.price = Junk).fails = (env.price = Junk)
    BY Zenon DEF Check
  <2> QED
    BY <1>2, <1>5, <2>1
<1>7. IsSet(env.price) => env.price \notin {None, NotUnicode}
  BY DEF IsSet, Read
<1>8. env.price \in Amounts \cup {None, Junk, NotUnicode}
  BY DEF EnvironmentSet, Numbers
<1> QED
  BY <1>6, <1>7, <1>8

LEMMA SingleOptionStep == IInv /\ SingleOption => IInv'
<1> SUFFICES ASSUME IInv, SingleOption PROVE IInv'
  OBVIOUS
<1>1. Pass("options", "pricing", AmountChecks) /\ registry' = registry
  BY DEF SingleOption
<1>2. refusal' = FirstOf(AmountChecks)
  BY <1>1, PassedOrRefused
<1>3. refusal' = "none" =>
        << IF IsSet(env.price) THEN env.price ELSE DefaultPrice >> \in Seq(Amounts)
  BY <1>2, AmountRules, DefaultsAssumption DEF IInv, TypeOK
<1>4. ConfigTyped'
  BY <1>3 DEF SingleOption, IInv, TypeOK, ConfigTyped
<1> QED
  BY <1>1, <1>4, LaterDoor

\* A cap, set or not.
LEMMA CapRules ==
    ASSUME env \in EnvironmentSet, FirstOf(CapChecks) = "none"
    PROVE  IsSet(env.cap) => env.cap \in Nat \ {0}
<1> DEFINE checks == CapChecks
<1>1. DOMAIN checks = 1 .. 2
  BY DEF CapChecks
<1>2. /\ checks[1] = Check("NotANumber", env.cap = Junk)
      /\ checks[2] = Check("Zero", env.cap = 0)
  BY DEF CapChecks
<1>3. \A i \in 1 .. 2 : checks[i].name # "none"
  BY CheckFields DEF CapChecks
<1> HIDE DEF checks
<1>4. \A i \in 1 .. 2 : ~checks[i].fails
  <2>1. FirstOf(checks) = "none"
    BY DEF checks
  <2> QED
    BY <1>1, <1>3, <2>1, NoneFails
<1>5. ~checks[1].fails /\ ~checks[2].fails
  BY <1>4
<1>6. ~(env.cap = Junk)
  <2>1. Check("NotANumber", env.cap = Junk).fails = (env.cap = Junk)
    BY Zenon DEF Check
  <2> QED
    BY <1>2, <1>5, <2>1
<1>7. ~(env.cap = 0)
  <2>1. Check("Zero", env.cap = 0).fails = (env.cap = 0)
    BY Zenon DEF Check
  <2> QED
    BY <1>2, <1>5, <2>1
<1>8. IsSet(env.cap) => env.cap \notin {None, NotUnicode}
  BY DEF IsSet, Read
<1>9. env.cap \in Amounts \cup {None, Junk, NotUnicode}
  BY DEF EnvironmentSet, Numbers
<1> QED
  BY <1>6, <1>7, <1>8, <1>9 DEF Amounts

LEMMA SelectCapStep == IInv /\ SelectCap => IInv'
<1> SUFFICES ASSUME IInv, SelectCap PROVE IInv'
  OBVIOUS
<1>1. Pass("cap", "coverage", CapChecks) /\ registry' = registry
  BY DEF SelectCap
<1>2. refusal' = FirstOf(CapChecks)
  BY <1>1, PassedOrRefused
<1>3. refusal' = "none" /\ IsSet(env.cap) => env.cap \in Nat \ {0}
  BY <1>2, CapRules DEF IInv, TypeOK
<1>4. ConfigTyped'
  BY <1>3 DEF SelectCap, IInv, TypeOK, ConfigTyped
<1> QED
  BY <1>1, <1>4, LaterDoor

\* A promotion that passes its checks is wholly set, and discounts some but not all.
LEMMA PromoRules ==
    ASSUME env \in EnvironmentSet, FirstOf(PromoChecks) = "none"
    PROVE  /\ SomePromo => FullPromo
           /\ FullPromo =>
                [discount |-> env.discount, start |-> env.start, end |-> env.end]
                    \in [discount : 1 .. Whole - 1, start : Nat, end : Nat]
<1> DEFINE checks == PromoChecks
<1>1. DOMAIN checks = 1 .. 7
  BY DEF PromoChecks
<1>2. /\ checks[1] = Check("Incomplete", SomePromo /\ ~FullPromo)
      /\ checks[2] = Check("BadDiscount", FullPromo /\ env.discount = Junk)
      /\ checks[3] = Check("ZeroDiscount", FullPromo /\ env.discount = 0)
      /\ checks[4] = Check("DiscountTooLarge", FullPromo /\ env.discount \in Nat /\ env.discount >= Whole)
      /\ checks[5] = Check("BadTimestamp", FullPromo /\ Junk \in {env.start, env.end})
  BY DEF PromoChecks
<1>3. \A i \in 1 .. 7 : checks[i].name # "none"
  BY CheckFields DEF PromoChecks
<1> HIDE DEF checks
<1>4. \A i \in 1 .. 7 : ~checks[i].fails
  <2>1. FirstOf(checks) = "none"
    BY DEF checks
  <2> QED
    BY <1>1, <1>3, <2>1, NoneFails
<1>5. /\ ~checks[1].fails /\ ~checks[2].fails /\ ~checks[3].fails
      /\ ~checks[4].fails /\ ~checks[5].fails
  BY <1>4
<1>6. ~(FullPromo /\ env.discount = Junk)
  <2>1. Check("BadDiscount", FullPromo /\ env.discount = Junk).fails
            = (FullPromo /\ env.discount = Junk)
    BY Zenon DEF Check
  <2> QED
    BY <1>2, <1>5, <2>1
<1>7. ~(FullPromo /\ env.discount = 0)
  <2>1. Check("ZeroDiscount", FullPromo /\ env.discount = 0).fails
            = (FullPromo /\ env.discount = 0)
    BY Zenon DEF Check
  <2> QED
    BY <1>2, <1>5, <2>1
<1>8. ~(FullPromo /\ env.discount \in Nat /\ env.discount >= Whole)
  <2>1. Check("DiscountTooLarge", FullPromo /\ env.discount \in Nat /\ env.discount >= Whole).fails
            = (FullPromo /\ env.discount \in Nat /\ env.discount >= Whole)
    BY Zenon DEF Check
  <2> QED
    BY <1>2, <1>5, <2>1
<1>9. ~(FullPromo /\ Junk \in {env.start, env.end})
  <2>1. Check("BadTimestamp", FullPromo /\ Junk \in {env.start, env.end}).fails
            = (FullPromo /\ Junk \in {env.start, env.end})
    BY Zenon DEF Check
  <2> QED
    BY <1>2, <1>5, <2>1
<1>10. ~(SomePromo /\ ~FullPromo)
  <2>1. Check("Incomplete", SomePromo /\ ~FullPromo).fails = (SomePromo /\ ~FullPromo)
    BY Zenon DEF Check
  <2> QED
    BY <1>2, <1>5, <2>1
<1>11. ASSUME FullPromo
       PROVE  [discount |-> env.discount, start |-> env.start, end |-> env.end]
                    \in [discount : 1 .. Whole - 1, start : Nat, end : Nat]
  <2>1. /\ env.discount \notin {None, NotUnicode}
        /\ env.start \notin {None, NotUnicode} /\ env.end \notin {None, NotUnicode}
    BY <1>11 DEF FullPromo, IsSet, Read
  <2>2. /\ env.discount \in Amounts \cup {None, Junk, NotUnicode}
        /\ env.start \in Amounts \cup {None, Junk, NotUnicode}
        /\ env.end \in Amounts \cup {None, Junk, NotUnicode}
    BY DEF EnvironmentSet, Numbers
  <2>3. env.discount \in Nat
    BY <1>6, <1>11, <2>1, <2>2 DEF Amounts
  <2>4. env.start \in Nat /\ env.end \in Nat
    BY <1>9, <1>11, <2>1, <2>2 DEF Amounts
  <2>5. env.discount \in 1 .. Whole - 1
    BY <1>7, <1>8, <1>11, <2>3, UnitsAssumption
  <2> QED
    BY <2>4, <2>5
<1> QED
  BY <1>10, <1>11

LEMMA SelectPromoStep == IInv /\ SelectPromo => IInv'
<1> SUFFICES ASSUME IInv, SelectPromo PROVE IInv'
  OBVIOUS
<1>1. Pass("promo", "cap", PromoChecks) /\ registry' = registry
  BY DEF SelectPromo
<1>2. refusal' = FirstOf(PromoChecks)
  BY <1>1, PassedOrRefused
<1>3. refusal' = "none" /\ FullPromo =>
        [discount |-> env.discount, start |-> env.start, end |-> env.end]
            \in [discount : 1 .. Whole - 1, start : Nat, end : Nat]
  BY <1>2, PromoRules DEF IInv, TypeOK
<1>4. promo' \in {None} \cup [discount : 1 .. Whole - 1, start : Nat, end : Nat]
  BY <1>3 DEF SelectPromo, IInv, TypeOK
<1>5. ConfigTyped'
  BY <1>4 DEF SelectPromo, IInv, TypeOK, ConfigTyped
<1> QED
  BY <1>1, <1>5, LaterDoor

\* A rate that passes its checks has all that it is set from.
LEMMA PricingRules ==
    ASSUME env \in EnvironmentSet, NEW rate, rate = Read(env.pricing),
           FirstOf(PricingChecks(rate)) = "none"
    PROVE  /\ Chosen(rate) \in [rate : {"static", "cost-plus", "token"}, margin : Nat,
                                cost : (Amounts \ {0}) \cup {None}]
           /\ rate # Junk
           /\ rate \in {"cost-plus", "token"} => ~IsSet(env.accepts) /\ ~IsSet(env.price)
           /\ rate # "cost-plus" => ~IsSet(env.upstreamCost) /\ ~IsSet(env.margin)
<1> DEFINE checks == PricingChecks(rate)
<1>1. DOMAIN checks = 1 .. 8
  BY DEF PricingChecks
<1>2. /\ checks[1] = Check("UnknownRate", rate = Junk)
      /\ checks[2] = Check("MultiChain",
                           rate \in {"cost-plus", "token"} /\ IsSet(env.accepts))
      /\ checks[3] = Check("InertPrice",
                           rate \in {"cost-plus", "token"} /\ IsSet(env.price))
      /\ checks[4] = Check("OrphanedParams",
                ~(rate = "cost-plus") /\ (IsSet(env.upstreamCost) \/ IsSet(env.margin)))
      /\ checks[5] = Check("ZeroCost", rate = "cost-plus" /\ env.upstreamCost = 0)
      /\ checks[6] = Check("BadCost", rate = "cost-plus" /\ env.upstreamCost = Junk)
      /\ checks[7] = Check("MissingParam", rate = "cost-plus" /\ ~IsSet(env.margin))
      /\ checks[8] = Check("BadMargin", rate = "cost-plus" /\ env.margin = Junk)
  BY DEF PricingChecks
<1>3. \A i \in 1 .. 8 : checks[i].name # "none"
  BY CheckFields DEF PricingChecks
<1> HIDE DEF checks
<1>4. \A i \in 1 .. 8 : ~checks[i].fails
  <2>1. FirstOf(checks) = "none"
    BY DEF checks
  <2> QED
    BY <1>1, <1>3, <2>1, NoneFails
<1>5. /\ ~checks[1].fails /\ ~checks[2].fails /\ ~checks[3].fails /\ ~checks[4].fails
      /\ ~checks[5].fails /\ ~checks[6].fails /\ ~checks[7].fails /\ ~checks[8].fails
  BY <1>4
<1>6. ~(rate = Junk)
  <2>1. Check("UnknownRate", rate = Junk).fails = (rate = Junk)
    BY Zenon DEF Check
  <2> QED
    BY <1>2, <1>5, <2>1
<1>7. ~(rate = "cost-plus" /\ env.upstreamCost = 0)
  <2>1. Check("ZeroCost", rate = "cost-plus" /\ env.upstreamCost = 0).fails
            = (rate = "cost-plus" /\ env.upstreamCost = 0)
    BY Zenon DEF Check
  <2> QED
    BY <1>2, <1>5, <2>1
<1>8. ~(rate = "cost-plus" /\ env.upstreamCost = Junk)
  <2>1. Check("BadCost", rate = "cost-plus" /\ env.upstreamCost = Junk).fails
            = (rate = "cost-plus" /\ env.upstreamCost = Junk)
    BY Zenon DEF Check
  <2> QED
    BY <1>2, <1>5, <2>1
<1>9. ~(rate = "cost-plus" /\ ~IsSet(env.margin))
  <2>1. Check("MissingParam", rate = "cost-plus" /\ ~IsSet(env.margin)).fails
            = (rate = "cost-plus" /\ ~IsSet(env.margin))
    BY Zenon DEF Check
  <2> QED
    BY <1>2, <1>5, <2>1
<1>10. ~(rate = "cost-plus" /\ env.margin = Junk)
  <2>1. Check("BadMargin", rate = "cost-plus" /\ env.margin = Junk).fails
            = (rate = "cost-plus" /\ env.margin = Junk)
    BY Zenon DEF Check
  <2> QED
    BY <1>2, <1>5, <2>1
<1>11. Read(env.upstreamCost) \in Amounts \cup {None, Junk}
  BY DefaultsAssumption DEF EnvironmentSet, Numbers, Read
<1>12. env.margin \in Amounts \cup {None, Junk, NotUnicode}
  BY DEF EnvironmentSet, Numbers
<1>13. Chosen(rate) \in [rate : {"static", "cost-plus", "token"}, margin : Nat,
                         cost : (Amounts \ {0}) \cup {None}]
  <2>1. CASE rate = "cost-plus"
    <3>1. env.margin \in Nat
      BY <1>9, <1>10, <1>12, <2>1 DEF Amounts, IsSet, Read
    <3>2. Read(env.upstreamCost) \in (Amounts \ {0}) \cup {None}
      BY <1>7, <1>8, <1>11, <2>1, DefaultsAssumption, TextAssumption DEF Amounts, Read
    <3> QED
      BY <2>1, <3>1, <3>2 DEF Chosen
  <2>2. CASE rate # "cost-plus"
    BY <2>2 DEF Chosen, Static
  <2> QED
    BY <2>1, <2>2
<1>14. ~(rate \in {"cost-plus", "token"} /\ IsSet(env.accepts))
  <2>1. Check("MultiChain", rate \in {"cost-plus", "token"} /\ IsSet(env.accepts)).fails
            = (rate \in {"cost-plus", "token"} /\ IsSet(env.accepts))
    BY Zenon DEF Check
  <2> QED
    BY <1>2, <1>5, <2>1
<1>15. ~(rate \in {"cost-plus", "token"} /\ IsSet(env.price))
  <2>1. Check("InertPrice", rate \in {"cost-plus", "token"} /\ IsSet(env.price)).fails
            = (rate \in {"cost-plus", "token"} /\ IsSet(env.price))
    BY Zenon DEF Check
  <2> QED
    BY <1>2, <1>5, <2>1
<1>16. ~(~(rate = "cost-plus") /\ (IsSet(env.upstreamCost) \/ IsSet(env.margin)))
  <2>1. Check("OrphanedParams",
              ~(rate = "cost-plus") /\ (IsSet(env.upstreamCost) \/ IsSet(env.margin))).fails
            = (~(rate = "cost-plus") /\ (IsSet(env.upstreamCost) \/ IsSet(env.margin)))
    BY Zenon DEF Check
  <2> QED
    BY <1>2, <1>5, <2>1
<1> QED
  BY <1>6, <1>13, <1>14, <1>15, <1>16

LEMMA SelectPricingStep == IInv /\ SelectPricing => IInv'
<1> SUFFICES ASSUME IInv, SelectPricing PROVE IInv'
  OBVIOUS
<1>1. Pass("pricing", "promo", PricingChecks(Read(env.pricing))) /\ registry' = registry
  BY DEF SelectPricing
<1>2. refusal' = FirstOf(PricingChecks(Read(env.pricing)))
  <2> HIDE DEF PricingChecks
  <2> QED
    BY <1>1, PassedOrRefused
<1>3. refusal' = "none" =>
        Chosen(Read(env.pricing))
            \in [rate : {"static", "cost-plus", "token"}, margin : Nat,
                 cost : (Amounts \ {0}) \cup {None}]
  BY <1>2, PricingRules DEF IInv, TypeOK
<1>4. ConfigTyped'
  BY <1>3 DEF SelectPricing, IInv, TypeOK, ConfigTyped
<1> QED
  BY <1>1, <1>4, LaterDoor

\* What the last door has made sure of.
LEMMA CoverageRules ==
    ASSUME NEW bs, FirstOf(CoverageChecks(bs)) = "none"
    PROVE  \A i \in DOMAIN bs :
            /\ bs[i].cost # None <=> choice.rate = "cost-plus"
            /\ bs[i].rates # NoRates <=> choice.rate = "token"
<1> DEFINE checks == CoverageChecks(bs)
<1>1. DOMAIN checks = 1 .. 4
  BY DEF CoverageChecks
<1>2. /\ checks[1] = Check("MissingBackendCost",
                           choice.rate = "cost-plus" /\ Costed(bs) # DOMAIN bs)
      /\ checks[2] = Check("InertBackendCost",
                           choice.rate # "cost-plus" /\ Costed(bs) # {})
      /\ checks[3] = Check("UnratedBackends",
                           choice.rate = "token" /\ RatedIn(bs) # DOMAIN bs)
      /\ checks[4] = Check("InertRates", choice.rate # "token" /\ RatedIn(bs) # {})
  BY DEF CoverageChecks
<1>3. \A i \in 1 .. 4 : checks[i].name # "none"
  BY CheckFields DEF CoverageChecks
<1> HIDE DEF checks
<1>4. \A i \in 1 .. 4 : ~checks[i].fails
  <2>1. FirstOf(checks) = "none"
    BY DEF checks
  <2> QED
    BY <1>1, <1>3, <2>1, NoneFails
<1>5. ~checks[1].fails /\ ~checks[2].fails /\ ~checks[3].fails /\ ~checks[4].fails
  BY <1>4
<1>6. ~(choice.rate = "cost-plus" /\ Costed(bs) # DOMAIN bs)
  <2>1. Check("MissingBackendCost", choice.rate = "cost-plus" /\ Costed(bs) # DOMAIN bs).fails
            = (choice.rate = "cost-plus" /\ Costed(bs) # DOMAIN bs)
    BY Zenon DEF Check
  <2> QED
    BY <1>2, <1>5, <2>1
<1>7. ~(choice.rate # "cost-plus" /\ Costed(bs) # {})
  <2>1. Check("InertBackendCost", choice.rate # "cost-plus" /\ Costed(bs) # {}).fails
            = (choice.rate # "cost-plus" /\ Costed(bs) # {})
    BY Zenon DEF Check
  <2> QED
    BY <1>2, <1>5, <2>1
<1>8. ~(choice.rate = "token" /\ RatedIn(bs) # DOMAIN bs)
  <2>1. Check("UnratedBackends", choice.rate = "token" /\ RatedIn(bs) # DOMAIN bs).fails
            = (choice.rate = "token" /\ RatedIn(bs) # DOMAIN bs)
    BY Zenon DEF Check
  <2> QED
    BY <1>2, <1>5, <2>1
<1>9. ~(choice.rate # "token" /\ RatedIn(bs) # {})
  <2>1. Check("InertRates", choice.rate # "token" /\ RatedIn(bs) # {}).fails
            = (choice.rate # "token" /\ RatedIn(bs) # {})
    BY Zenon DEF Check
  <2> QED
    BY <1>2, <1>5, <2>1
<1>10. ASSUME NEW i \in DOMAIN bs
       PROVE  bs[i].cost # None <=> choice.rate = "cost-plus"
  BY <1>6, <1>7 DEF Costed
<1>11. ASSUME NEW i \in DOMAIN bs
       PROVE  bs[i].rates # NoRates <=> choice.rate = "token"
  BY <1>8, <1>9 DEF RatedIn
<1> QED
  BY <1>10, <1>11

LEMMA SealRegistryStep == IInv /\ SealRegistry => IInv'
<1> SUFFICES ASSUME IInv, SealRegistry PROVE IInv'
  OBVIOUS
<1>1. /\ door = "coverage" /\ env' = env /\ now' = now /\ served' = None
      /\ refusal' = FirstOf(CoverageChecks(Sealed))
      /\ refusal' = "none" => door' = "open"
      /\ refusal' # "none" => door' = "refused"
  <2> HIDE DEF CoverageChecks, Sealed
  <2>1. Pass("coverage", "open", CoverageChecks(Sealed))
    BY DEF SealRegistry
  <2> QED
    BY <2>1, PassedOrRefused
<1>2. /\ registry' = IF refusal' = "none" THEN Sealed ELSE registry
      /\ UNCHANGED <<options, choice, promo, cap>>
  BY DEF SealRegistry
<1>3. RatesServed(registry) /\ Ordered(registry)
  BY <1>1 DEF IInv, RegistrySound, Built
<1>4. Sealed \in Seq(BackendSet) /\ RatesServed(Sealed) /\ Ordered(Sealed)
  BY <1>3, SealedIsSound DEF IInv, TypeOK
<1> HIDE DEF Sealed
<1>5. ConfigTyped'
  BY <1>2, <1>4 DEF IInv, TypeOK, ConfigTyped
<1>6. RatesServed(registry') /\ Ordered(registry')
  BY <1>2, <1>3, <1>4
<1>7. RegistrySound'
  BY <1>6 DEF RegistrySound, RatesServed, Ordered
<1>8. door' \in Doors /\ (refusal' = "none" <=> door' # "refused")
  BY <1>1 DEF Doors
<1>9. CoverageAgrees'
  <2>1. SUFFICES ASSUME door' = "open" PROVE CoverageAgrees'
    BY DEF CoverageAgrees
  <2>2. refusal' = "none" /\ registry' = Sealed /\ choice' = choice
    BY <1>1, <1>2, <2>1
  <2>3. \A i \in DOMAIN Sealed :
          /\ Sealed[i].cost # None <=> choice.rate = "cost-plus"
          /\ Sealed[i].rates # NoRates <=> choice.rate = "token"
    <3> HIDE DEF CoverageChecks
    <3> QED
      BY <1>1, <2>2, CoverageRules
  <2> QED
    BY <1>4, <2>2, <2>3 DEF CoverageAgrees, RatesServed
<1> QED
  BY <1>1, <1>5, <1>7, <1>8, <1>9, DoorStep
-----------------------------------------------------------------------------
(***************************************************************************)
(* Requests and the clock.                                                 *)
(***************************************************************************)

\* An answer of an open gateway that gives nothing away.
LEMMA AnswerStep ==
    ASSUME IInv, door = "open", NEW form \in Forms, NEW offers \in Seq(Amounts),
           NEW outcome \in {"AmbiguousKey", "Unroutable", "OutputCapRefused",
                            "UnpricedModel", "Priced"},
           NEW at \in Seq(0 .. MaxTime), now' \in 0 .. MaxTime,
           Answer(form, outcome, at, offers),
           outcome = "Priced" =>
                \A o \in DOMAIN options :
                    offers[o] = 0 => choice.rate = "static" /\ options[o] = 0
    PROVE  IInv'
<1>1. /\ served' = [form |-> form, at |-> at, outcome |-> outcome, offers |-> offers]
      /\ UNCHANGED <<env, door, refusal, registry, options, choice, promo, cap>>
  BY DEF Answer, built
<1>2. served' \in Answers
  BY <1>1 DEF IInv, TypeOK, Answers
<1>3. TypeOK'
  BY <1>1, <1>2 DEF IInv, TypeOK
<1>4. RegistrySound' /\ CoverageAgrees'
  BY <1>1 DEF IInv, RegistrySound, Built, RatesServed, Ordered, CoverageAgrees
<1>5. ServedOpen'
  BY <1>1 DEF ServedOpen
<1>6. PayableIsNeverFree'
  BY <1>1 DEF PayableIsNeverFree, WasPriced
<1> QED
  BY <1>3, <1>4, <1>5, <1>6 DEF IInv

LEMMA AskPricedStep ==
    ASSUME IInv, NEW form \in Forms, AskPriced(form)
    PROVE  IInv'
<1>1. door = "open" /\ Route(registry, form.model) # 0
  BY DEF AskPriced, Routed
<1>2. form \in FormSet /\ form.model \in Models \cup {None}
  BY ShopFormsAssumption DEF ShopFormsAssumption, FormSet
<1>3. BackendOf(form) \in BackendSet
  <2>1. registry \in Seq(BackendSet) /\ Ordered(registry)
    BY <1>1 DEF IInv, TypeOK, RegistrySound, Built
  <2>2. Route(registry, form.model) \in DOMAIN registry
    BY <1>1, <1>2, <2>1, RouteServes
  <2> QED
    BY <2>1, <2>2 DEF BackendOf
<1>4. /\ options \in Seq(Amounts)
      /\ choice \in [rate : {"static", "cost-plus", "token"}, margin : Nat,
                     cost : (Amounts \ {0}) \cup {None}]
      /\ promo \in {None} \cup [discount : 1 .. Whole - 1, start : Nat, end : Nat]
  BY DEF IInv, TypeOK
<1>5. PICK later \in now .. MaxTime :
          \E at \in Readings(later) :
              now' = later /\ Answer(form, "Priced", at, Priced(form, BackendOf(form), at))
  BY DEF AskPriced
<1>6. PICK at \in Readings(later) :
          now' = later /\ Answer(form, "Priced", at, Priced(form, BackendOf(form), at))
  BY <1>5
<1>7. now' \in 0 .. MaxTime /\ at \in Seq(0 .. MaxTime)
  <2>1. now \in 0 .. MaxTime /\ MaxTime \in Nat
    BY DefaultsAssumption DEF IInv, TypeOK
  <2>2. later \in 0 .. MaxTime /\ now .. later \subseteq 0 .. MaxTime
    BY <1>5, <2>1
  <2>3. at \in [DOMAIN options -> now .. later]
    BY <1>6 DEF Readings
  <2>4. at \in [1 .. Len(options) -> 0 .. MaxTime]
    BY <1>4, <2>2, <2>3
  <2>5. Len(options) \in Nat
    BY <1>4
  <2>6. /\ at = [o \in 1 .. Len(options) |-> at[o]]
        /\ \A o \in 1 .. Len(options) : at[o] \in 0 .. MaxTime
    BY ONLY <2>4
  <2>7. at \in Seq(0 .. MaxTime)
    BY ONLY <2>5, <2>6
  <2> QED
    BY <1>6, <2>2, <2>7
<1> DEFINE b == BackendOf(form)
           offers == Priced(form, b, at)
<1>8. \A o \in DOMAIN options :
        /\ Quote(form, b, options[o], at[o]) \in Amounts
        /\ Quote(form, b, options[o], at[o]) = 0 => choice.rate = "static" /\ options[o] = 0
  <2> HIDE DEF b
  <2>1. b \in BackendSet
    BY <1>3 DEF b
  <2>2. \A o \in DOMAIN options : options[o] \in Amounts
    BY <1>4
  <2> QED
    BY <1>2, <1>4, <2>1, <2>2, QuoteIsPaid
<1>9. offers = [o \in 1 .. Len(options) |-> Quote(form, b, options[o], at[o])]
  BY <1>4 DEF Priced
<1>10. offers \in Seq(Amounts)
  <2> HIDE DEF offers, b
  <2> QED
    BY <1>4, <1>8, <1>9
<1>11. \A o \in DOMAIN options :
        offers[o] = 0 => choice.rate = "static" /\ options[o] = 0
  <2> HIDE DEF offers, b
  <2> QED
    BY <1>4, <1>8, <1>9
<1>12. Answer(form, "Priced", at, offers)
  BY <1>6
<1> HIDE DEF offers
<1> QED
  BY <1>1, <1>7, <1>10, <1>11, <1>12, AnswerStep

LEMMA AskStep ==
    ASSUME IInv, NEW form \in Forms,
           \/ AskAmbiguous(form) \/ AskUnroutable(form) \/ AskUnbounded(form)
           \/ AskUnrated(form) \/ AskPriced(form)
    PROVE  IInv'
<1>1. <<>> \in Seq(Amounts) /\ <<>> \in Seq(0 .. MaxTime) /\ now \in 0 .. MaxTime
  BY DEF IInv, TypeOK
<1>2. CASE AskAmbiguous(form)
  BY <1>1, <1>2, AnswerStep DEF AskAmbiguous, Refuse
<1>3. CASE AskUnroutable(form)
  BY <1>1, <1>3, AnswerStep DEF AskUnroutable, Refuse
<1>4. CASE AskUnbounded(form)
  BY <1>1, <1>4, AnswerStep DEF AskUnbounded, Routed, Refuse
<1>5. CASE AskUnrated(form)
  BY <1>1, <1>5, AnswerStep DEF AskUnrated, Routed, Refuse
<1>6. CASE AskPriced(form)
  BY <1>6, AskPricedStep
<1> QED
  BY <1>2, <1>3, <1>4, <1>5, <1>6

LEMMA TickStep == IInv /\ Tick => IInv'
<1> SUFFICES ASSUME IInv, Tick PROVE IInv'
  OBVIOUS
<1>1. /\ now < MaxTime /\ now' = now + 1
      /\ UNCHANGED <<env, door, refusal, registry, options, choice, promo, cap, served>>
  BY DEF Tick, built
<1>2. TypeOK'
  BY <1>1, DefaultsAssumption DEF IInv, TypeOK
<1>3. RegistrySound' /\ CoverageAgrees'
  BY <1>1 DEF IInv, RegistrySound, Built, RatesServed, Ordered, CoverageAgrees
<1>4. ServedOpen' /\ PayableIsNeverFree'
  BY <1>1 DEF IInv, ServedOpen, PayableIsNeverFree, WasPriced
<1> QED
  BY <1>2, <1>3, <1>4 DEF IInv

LEMMA StutterStep == IInv /\ UNCHANGED vars => IInv'
<1> SUFFICES ASSUME IInv, UNCHANGED vars PROVE IInv'
  OBVIOUS
<1>1. UNCHANGED <<env, door, refusal, registry, options, choice, promo, cap, now, served>>
  BY DEF vars, built
<1>2. TypeOK'
  BY <1>1 DEF IInv, TypeOK
<1>3. RegistrySound' /\ CoverageAgrees'
  BY <1>1 DEF IInv, RegistrySound, Built, RatesServed, Ordered, CoverageAgrees
<1>4. ServedOpen' /\ PayableIsNeverFree'
  BY <1>1 DEF IInv, ServedOpen, PayableIsNeverFree, WasPriced
<1> QED
  BY <1>2, <1>3, <1>4 DEF IInv

\* IInv is inductive.
LEMMA Invariance == Spec => []IInv
<1>1. IInv /\ [Next]_vars => IInv'
  <2> SUFFICES ASSUME IInv, [Next]_vars PROVE IInv'
    OBVIOUS
  <2>1. CASE LoadBackends
    BY <2>1, LoadBackendsStep
  <2>2. CASE SingleBackend
    BY <2>2, SingleBackendStep
  <2>3. CASE ManyOptions
    BY <2>3, ManyOptionsStep
  <2>4. CASE SingleOption
    BY <2>4, SingleOptionStep
  <2>5. CASE SelectPricing
    BY <2>5, SelectPricingStep
  <2>6. CASE SelectPromo
    BY <2>6, SelectPromoStep
  <2>7. CASE SelectCap
    BY <2>7, SelectCapStep
  <2>8. CASE SealRegistry
    BY <2>8, SealRegistryStep
  <2>9. CASE \E form \in Forms :
                \/ AskAmbiguous(form) \/ AskUnroutable(form) \/ AskUnbounded(form)
                \/ AskUnrated(form) \/ AskPriced(form)
    BY <2>9, AskStep
  <2>10. CASE Tick
    BY <2>10, TickStep
  <2>11. CASE UNCHANGED vars
    BY <2>11, StutterStep
  <2> QED
    BY <2>1, <2>2, <2>3, <2>4, <2>5, <2>6, <2>7, <2>8, <2>9, <2>10, <2>11 DEF Next
<1> QED
  BY <1>1, InitEstablishes, PTL DEF Spec
-----------------------------------------------------------------------------
(***************************************************************************)
(* The theorems.                                                           *)
(***************************************************************************)

\* Every variable keeps its type: what the doors let in is what the request path
\* computes with, and every offer is an amount.
THEOREM ShopTypeCorrect == Spec => []TypeOK
BY Invariance, PTL DEF IInv

\* A registry that got past its door gives every model one backend.
THEOREM RoutingIsUnambiguous == Spec => []RouteIsUnambiguous
<1>1. IInv => RouteIsUnambiguous
  <2> SUFFICES ASSUME IInv, Built, NEW m \in Models,
                      NEW i \in Foremost(registry, m), NEW j \in Foremost(registry, m)
               PROVE  i = j
    BY DEF RouteIsUnambiguous
  <2>1. Ordered(registry)
    BY DEF IInv, RegistrySound
  <2> QED
    BY <2>1, OrderedRoutesOneWay
<1> QED
  BY <1>1, Invariance, PTL

\* The backends file is a set and not a list: its entries in any other order pass
\* the same rules, and send every request to the same backend.
THEOREM FileIsASet == Spec => []OrderIsImmaterial
<1>1. IInv => OrderIsImmaterial
  <2> SUFFICES ASSUME IInv, Built,
                      NEW p \in [DOMAIN registry -> DOMAIN registry],
                      \A i, j \in DOMAIN registry : p[i] = p[j] => i = j
               PROVE  LET moved == [i \in DOMAIN registry |-> registry[p[i]]]
                      IN  /\ RegistryDefect(moved) = "none"
                          /\ \A m \in Models \cup {None} :
                                LET i == Route(registry, m)
                                    j == Route(moved, m)
                                IN  IF i = 0 THEN j = 0 ELSE j # 0 /\ moved[j] = registry[i]
    BY DEF OrderIsImmaterial
  <2>1. registry \in Seq(BackendSet) /\ Ordered(registry)
    BY DEF IInv, TypeOK, RegistrySound
  <2>2. PICK m2 : m2 = Moved(registry, p)
    OBVIOUS
  <2>3. /\ m2 \in Seq(BackendSet) /\ Ordered(m2)
        /\ \A m \in Models \cup {None} :
                IF Route(registry, m) = 0 THEN Route(m2, m) = 0
                ELSE Route(m2, m) # 0 /\ m2[Route(m2, m)] = registry[Route(registry, m)]
    BY <2>1, <2>2, MovedRoutesAlike
  <2>4. RegistryDefect(m2) = "none"
    BY <2>3, OrderedIsSound
  <2> QED
    BY <2>2, <2>3, <2>4 DEF Moved
<1> QED
  BY <1>1, Invariance, PTL

\* An open gateway's backends declare what the selected rate reads, and nothing
\* it does not.
THEOREM CoverageIsExact == Spec => []CoverageAgrees
BY Invariance, PTL DEF IInv

\* No rate, markup or promotion turns a payable request into a free one.
THEOREM NothingPayableIsFree == Spec => []PayableIsNeverFree
BY Invariance, PTL DEF IInv
-----------------------------------------------------------------------------
(***************************************************************************)
(* What a quote is worth.  The arithmetic first: what each determiner      *)
(* computes, as exact fractions, where nothing overflows.                  *)
(***************************************************************************)

LEMMA QuotientFloors ==
    ASSUME NEW a \in Nat, NEW b \in Nat \ {0}
    PROVE  a \div b \in Nat /\ Floors(a \div b, a, b)
BY DEF Floors

LEMMA CeilDivCeils ==
    ASSUME NEW a \in Nat, NEW b \in Nat \ {0}
    PROVE  CeilDiv(a, b) \in Nat /\ Ceils(CeilDiv(a, b), a, b)
<1> DEFINE n == (a + b - 1) \div b
<1>1. n \in Nat /\ n * b <= a + b - 1 /\ a + b - 1 < (n + 1) * b
  BY a + b - 1 \in Nat, QuotientFloors DEF Floors
<1>2. CeilDiv(a, b) = n
  BY DEF CeilDiv
<1> HIDE DEF n
<1>3. (n + 1) * b = n * b + b /\ (n - 1) * b = n * b - b /\ n * b \in Nat
  BY <1>1
<1> QED
  BY <1>1, <1>2, <1>3 DEF Ceils

\* A factor of at least one takes nothing away.
LEMMA TimesAtLeastOne ==
    ASSUME NEW n \in Nat, NEW w \in Nat \ {0}
    PROVE  n * w \in Nat /\ n <= n * w
OBVIOUS

\* The markup is exact as long as nothing overflows, and never eats into the cost.
LEMMA CostPlusIsExact ==
    ASSUME NEW cost \in Amounts \ {0}, NEW margin \in Nat
    PROVE  /\ cost * (Whole + margin) <= MaxAmount =>
                  Floors(CostPlus(cost, margin), cost * (Whole + margin), Whole)
           /\ CostPlus(cost, margin) >= cost
<1> DEFINE m == cost * margin
           s == Saturate(m)
           d == s \div Whole
<1>1. cost \in Nat /\ cost <= MaxAmount /\ m \in Nat /\ Whole \in Nat \ {0} /\ MaxAmount \in Nat
  BY UnitsAssumption DEF Amounts
<1>2. s \in Nat
  BY <1>1, SaturateBounds DEF Amounts
<1>3. d \in Nat /\ d * Whole <= s /\ s < (d + 1) * Whole
  BY <1>1, <1>2, QuotientFloors DEF Floors
<1>4. CostPlus(cost, margin) = Saturate(cost + d)
  BY DEF CostPlus
<1>5. cost * (Whole + margin) = cost * Whole + m
  BY <1>1
<1>6. m > MaxAmount \/ s = m
  BY DEF Saturate
<1> HIDE DEF m, s, d
<1>7. Saturate(cost + d) >= cost
  BY <1>1, <1>3 DEF Saturate
<1>8. ASSUME cost * Whole + m <= MaxAmount
      PROVE  Floors(cost + d, cost * Whole + m, Whole) /\ Saturate(cost + d) = cost + d
  <2>1. cost * Whole \in Nat /\ s = m
    BY <1>1, <1>6, <1>8
  <2>2. (cost + d) * Whole = cost * Whole + d * Whole
    BY <1>1, <1>3
  <2>3. (cost + d + 1) * Whole = cost * Whole + (d + 1) * Whole
    BY <1>1, <1>3
  <2>4. Floors(cost + d, cost * Whole + m, Whole)
    BY <1>1, <1>3, <2>1, <2>2, <2>3 DEF Floors
  <2>5. cost + d <= (cost + d) * Whole /\ (cost + d) * Whole \in Nat
    BY <1>1, <1>3, TimesAtLeastOne
  <2>6. cost + d <= MaxAmount
    BY <1>1, <1>3, <1>8, <2>1, <2>2, <2>5
  <2> QED
    BY <1>1, <1>3, <2>4, <2>6 DEF Saturate
<1> QED
  BY <1>4, <1>5, <1>7, <1>8

\* A token price is what the tokens come to, rounded up, or out of reach.
LEMMA TokenPriceIsExact ==
    ASSUME NEW bytes \in Nat \ {0}, NEW max_tokens \in Nat \ {0}, NEW rate \in TokenRates
    PROVE  /\ EstimatedInputTokens(bytes) \in 0 .. bytes
           /\ Ceils(EstimatedInputTokens(bytes), bytes, BytesPerToken)
           /\ IF TokenCost(EstimatedInputTokens(bytes), max_tokens, rate) <= MaxAmount
              THEN Ceils(TokenPrice(bytes, max_tokens, rate),
                         TokenCost(EstimatedInputTokens(bytes), max_tokens, rate), PerRate)
              ELSE TokenPrice(bytes, max_tokens, rate) = MaxAmount
<1> DEFINE input == EstimatedInputTokens(bytes)
           units == TokenCost(input, max_tokens, rate)
<1>1. input \in Nat /\ Ceils(input, bytes, BytesPerToken)
  BY CeilDivCeils, UnitsAssumption DEF EstimatedInputTokens
<1>2. 0 < input /\ input <= bytes
  <2> HIDE DEF input
  <2>1. bytes <= input * BytesPerToken /\ (input - 1) * BytesPerToken < bytes
    BY <1>1 DEF Ceils
  <2>2. input # 0
    BY <2>1, UnitsAssumption
  <2>3. input - 1 <= (input - 1) * BytesPerToken
    BY <1>1, <2>2, TimesAtLeastOne, UnitsAssumption, input - 1 \in Nat
  <2>4. (input - 1) * BytesPerToken \in Int
    BY <1>1, UnitsAssumption
  <2> QED
    BY <1>1, <2>1, <2>2, <2>3, <2>4
<1>3. units \in Nat /\ units > 0
  <2> HIDE DEF input
  <2>1. rate.input \in Nat /\ rate.output \in Nat /\ (rate.input > 0 \/ rate.output > 0)
    BY DEF TokenRates
  <2>2. \A n \in Nat \ {0}, k \in Nat : n * k \in Nat /\ k <= n * k
    OBVIOUS
  <2>3. /\ input * rate.input \in Nat /\ rate.input <= input * rate.input
        /\ max_tokens * rate.output \in Nat /\ rate.output <= max_tokens * rate.output
    BY <1>1, <1>2, <2>1, <2>2
  <2>4. units = input * rate.input + max_tokens * rate.output
    BY DEF TokenCost
  <2>5. \A x, y, p, q \in Nat :
          p <= x /\ q <= y /\ (p > 0 \/ q > 0) => x + y \in Nat /\ x + y > 0
    OBVIOUS
  <2> HIDE DEF units
  <2> QED
    BY <2>1, <2>3, <2>4, <2>5
<1> HIDE DEF units, input
<1>4. CeilDiv(units, PerRate) \in Nat /\ Ceils(CeilDiv(units, PerRate), units, PerRate)
  BY <1>3, CeilDivCeils, UnitsAssumption
<1>5. CeilDiv(units, PerRate) # 0
  BY <1>3, <1>4, UnitsAssumption DEF Ceils
<1>6. TokenPrice(bytes, max_tokens, rate) =
         IF units > MaxAmount THEN MaxAmount ELSE CeilDiv(units, PerRate)
  BY <1>5 DEF TokenPrice, units, input
<1>7. MaxAmount \in Nat
  BY UnitsAssumption
<1> QED
  BY <1>1, <1>2, <1>3, <1>4, <1>6, <1>7 DEF units, input
-----------------------------------------------------------------------------
(***************************************************************************)
(* The last quote, and what the gateway that gave it still is.             *)
(***************************************************************************)

\* What the gateway quotes at t for an armed amount.
QuoteAt(t, form, b, amount) ==
    IF Promoted(t) THEN Discounted(BaseQuote(form, b, amount), promo.discount)
    ELSE BaseQuote(form, b, amount)

\* A request that was quoted passed the checks that lead there and got, for each
\* option, the quote of that moment; it would today too, but for the clock.
Quoted ==
    WasPriced =>
        LET form == served.form
            b    == BackendOf(form)
        IN  /\ form \in Forms
            /\ Routed(form) /\ Bounded(form, b)
            /\ RatesRequired => ModelRate(form, b)
            /\ served.offers = [o \in DOMAIN options |->
                                    QuoteAt(served.at[o], form, b, options[o])]

LEMMA AskPricedQuotes ==
    ASSUME NEW form \in Forms, AskPriced(form)
    PROVE  Quoted'
<1> DEFINE b == BackendOf(form)
<1>1. PICK at : /\ served' = [form |-> form, at |-> at, outcome |-> "Priced",
                              offers |-> Priced(form, b, at)]
                /\ UNCHANGED <<env, door, refusal, registry, options, choice, promo, cap>>
  BY DEF AskPriced, Answer, built
<1>2. Priced(form, b, at) = [o \in DOMAIN options |-> QuoteAt(at[o], form, b, options[o])]
  BY DEF Priced, Quote, QuoteAt, Promoted, InWindow
<1>3. served'.form = form /\ served'.at = at /\ served'.offers = Priced(form, b, at)
  BY <1>1
<1>4. b' = b
  BY <1>1 DEF BackendOf
<1>5. Routed(form)' /\ Bounded(form, b)' /\ (RatesRequired => ModelRate(form, b))'
  BY <1>1, <1>4 DEF AskPriced, Routed, Bounded, RatesRequired, ModelRate
<1>6. ASSUME NEW amount, NEW o
      PROVE  QuoteAt(served.at[o], form, b, amount)' = QuoteAt(at[o], form, b, amount)
  <2>1. BaseQuote(form, b, amount)' = BaseQuote(form, b, amount)
    BY <1>1, <1>4 DEF BaseQuote, ModelRate
  <2>2. Promoted(served.at[o])' <=> Promoted(at[o])
    BY <1>1, <1>3 DEF Promoted
  <2>3. UNCHANGED promo
    BY <1>1
  <2> HIDE DEF b
  <2> QED
    BY <2>1, <2>2, <2>3 DEF QuoteAt
<1>7. served'.offers = [o \in DOMAIN options |-> QuoteAt(served.at[o], form, b, options[o])]'
  <2>1. UNCHANGED options
    BY <1>1
  <2> HIDE DEF b
  <2> QED
    BY <1>2, <1>3, <1>6, <2>1
<1> HIDE DEF b
<1> QED
  BY <1>3, <1>5, <1>7 DEF Quoted, b

\* A quote stands as long as the gateway it was given by does.
LEMMA QuoteStands ==
    ASSUME Quoted, UNCHANGED <<served, door, registry, options, choice, promo, cap>>
    PROVE  Quoted'
<1> DEFINE b == BackendOf(served.form)
<1>1. b' = b
  BY DEF BackendOf
<1>2. ASSUME NEW amount, NEW o
      PROVE  QuoteAt(served.at[o], served.form, b, amount)'
                = QuoteAt(served.at[o], served.form, b, amount)
  <2>1. BaseQuote(served.form, b, amount)' = BaseQuote(served.form, b, amount)
    BY <1>1 DEF BaseQuote, ModelRate
  <2>2. Promoted(served.at[o])' <=> Promoted(served.at[o])
    BY DEF Promoted
  <2> HIDE DEF b
  <2> QED
    BY <2>1, <2>2 DEF QuoteAt
<1>3. (Routed(served.form) /\ Bounded(served.form, b)
         /\ (RatesRequired => ModelRate(served.form, b)))'
      <=> Routed(served.form) /\ Bounded(served.form, b)
            /\ (RatesRequired => ModelRate(served.form, b))
  BY <1>1 DEF Routed, Bounded, RatesRequired, ModelRate
<1> HIDE DEF b
<1> QED
  BY <1>2, <1>3 DEF Quoted, WasPriced, b

LEMMA QuotedStep == IInv /\ Quoted /\ [Next]_vars => Quoted'
<1> SUFFICES ASSUME IInv, Quoted, [Next]_vars PROVE Quoted'
  OBVIOUS
<1>1. ASSUME LoadBackends \/ SingleBackend \/ ManyOptions \/ SingleOption \/ SelectPricing
                \/ SelectPromo \/ SelectCap \/ SealRegistry
      PROVE  Quoted'
  <2>1. UNCHANGED served /\ door # "open"
    BY <1>1 DEF LoadBackends, SingleBackend, ManyOptions, SingleOption, SelectPricing,
                SelectPromo, SelectCap, SealRegistry, Pass
  <2>2. served' = None
    BY <2>1 DEF IInv, ServedOpen
  <2> QED
    BY <2>2 DEF Quoted, WasPriced
<1>2. ASSUME NEW form \in Forms,
             \/ AskAmbiguous(form) \/ AskUnroutable(form) \/ AskUnbounded(form)
             \/ AskUnrated(form)
      PROVE  Quoted'
  <2>1. served'.outcome # "Priced"
    BY <1>2 DEF AskAmbiguous, AskUnroutable, AskUnbounded, AskUnrated,
                Refuse, Answer
  <2> QED
    BY <2>1 DEF Quoted, WasPriced
<1>3. ASSUME NEW form \in Forms, AskPriced(form) PROVE Quoted'
  BY <1>3, AskPricedQuotes
<1>4. CASE Tick \/ UNCHANGED vars
  <2>1. UNCHANGED <<served, door, registry, options, choice, promo, cap>>
    BY <1>4 DEF Tick, vars, built
  <2> QED
    BY <2>1, QuoteStands
<1> QED
  BY <1>1, <1>2, <1>3, <1>4 DEF Next

LEMMA QuotedInvariance == Spec => [](IInv /\ Quoted)
<1>1. Init => Quoted
  BY DEF Init, Quoted, WasPriced
<1> QED
  BY <1>1, QuotedStep, Invariance, PTL DEF Spec

\* A quoted request's backend declares all that the rate reads, and the base price
\* is exact for it wherever it can be.
LEMMA BaseIsExact ==
    ASSUME IInv, Quoted, WasPriced
    PROVE  LET form == served.form
               b    == BackendOf(form)
           IN  /\ HasInputs(form, b)
               /\ \A o \in DOMAIN options :
                    LET base == BaseQuote(form, b, options[o])
                    IN  /\ base \in Amounts
                        /\ IF FitsBase(form, b) THEN ExactBase(base, form, b, options[o])
                           ELSE /\ choice.rate = "cost-plus" => base >= b.cost
                                /\ choice.rate = "token" => base = MaxAmount
<1> DEFINE form == served.form
           b    == BackendOf(form)
<1>1. /\ form \in Forms /\ Routed(form) /\ Bounded(form, b)
      /\ RatesRequired => ModelRate(form, b)
  BY DEF Quoted
<1>2. form \in FormSet /\ (form.max_tokens # None => form.bytes > 0)
  BY <1>1, ShopFormsAssumption DEF ShopFormsAssumption
<1>3. /\ form.model \in Models \cup {None} /\ form.bytes \in Nat
  BY <1>2 DEF FormSet
<1>4. /\ registry \in Seq(BackendSet) /\ options \in Seq(Amounts)
      /\ choice \in [rate : {"static", "cost-plus", "token"}, margin : Nat,
                     cost : (Amounts \ {0}) \cup {None}]
      /\ cap \in Nat \ {0} /\ Ordered(registry) /\ CoverageAgrees
  BY <1>1 DEF Routed, IInv, TypeOK, RegistrySound, Built
<1>5. form.max_tokens \in Nat \ {0} /\ form.bytes \in Nat \ {0}
  <2>1. form.max_tokens \in 1 .. cap
    BY <1>1 DEF Bounded
  <2>2. form.max_tokens \in Nat \ {0}
    BY <1>4, <2>1
  <2>3. form.max_tokens # None
    BY <2>2, TextAssumption
  <2> QED
    BY <1>2, <1>3, <2>2, <2>3
<1>6. Route(registry, form.model) \in DOMAIN registry
  BY <1>1, <1>3, <1>4, RouteServes DEF Routed
<1>7. b \in BackendSet /\ (b.cost # None <=> choice.rate = "cost-plus")
  BY <1>1, <1>4, <1>6 DEF BackendOf, CoverageAgrees, Routed
<1> HIDE DEF b, form
<1>8. b.cost \in (Amounts \ {0}) \cup {None} /\ b.rates \in [Models -> TokenRates \cup {None}]
  BY <1>7 DEF BackendSet
<1>9. HasInputs(form, b)
  BY <1>1, <1>5, <1>7 DEF HasInputs, RatesRequired
<1>10. ASSUME NEW o \in DOMAIN options
       PROVE  LET base == BaseQuote(form, b, options[o])
              IN  /\ base \in Amounts
                  /\ IF FitsBase(form, b) THEN ExactBase(base, form, b, options[o])
                     ELSE /\ choice.rate = "cost-plus" => base >= b.cost
                          /\ choice.rate = "token" => base = MaxAmount
  <2>1. CASE choice.rate = "static"
    BY <1>4, <2>1 DEF BaseQuote, FitsBase, ExactBase
  <2>2. CASE choice.rate = "cost-plus"
    <3>1. b.cost \in Amounts \ {0} /\ b.cost # None /\ choice.margin \in Nat
      BY <1>4, <1>7, <1>8, <2>2
    <3>2. BaseQuote(form, b, options[o]) = CostPlus(b.cost, choice.margin)
      BY <2>2, <3>1 DEF BaseQuote
    <3>3. /\ FitsBase(form, b) <=> b.cost * (Whole + choice.margin) <= MaxAmount
          /\ \A q : ExactBase(q, form, b, options[o]) <=>
                       Floors(q, b.cost * (Whole + choice.margin), Whole)
      BY <2>2 DEF FitsBase, ExactBase
    <3>4. CostPlus(b.cost, choice.margin) \in Amounts
      BY <3>1, CostPlusIsPaid DEF Amounts
    <3>5. /\ b.cost * (Whole + choice.margin) <= MaxAmount =>
                Floors(CostPlus(b.cost, choice.margin), b.cost * (Whole + choice.margin), Whole)
          /\ CostPlus(b.cost, choice.margin) >= b.cost
      BY <3>1, CostPlusIsExact
    <3> QED
      BY <2>2, <3>2, <3>3, <3>4, <3>5
  <2>3. CASE choice.rate = "token"
    <3>1. ModelRate(form, b) /\ form.max_tokens \in Nat
      BY <1>9, <2>3 DEF HasInputs
    <3>2. b.rates[form.model] \in TokenRates
      BY <1>3, <1>8, <3>1 DEF ModelRate
    <3> DEFINE rate  == b.rates[form.model]
               input == EstimatedInputTokens(form.bytes)
               units == TokenCost(input, form.max_tokens, rate)
               price == TokenPrice(form.bytes, form.max_tokens, rate)
    <3>3. BaseQuote(form, b, options[o]) = price
      BY <2>3, <3>1 DEF BaseQuote
    <3>4. /\ FitsBase(form, b) <=> units <= MaxAmount
          /\ \A q : ExactBase(q, form, b, options[o]) <=>
                \E n \in 0 .. form.bytes :
                    /\ Ceils(n, form.bytes, BytesPerToken)
                    /\ Ceils(q, TokenCost(n, form.max_tokens, rate), PerRate)
      BY <2>3 DEF FitsBase, ExactBase
    <3>5. /\ input \in 0 .. form.bytes
          /\ Ceils(input, form.bytes, BytesPerToken)
          /\ IF units <= MaxAmount THEN Ceils(price, units, PerRate) ELSE price = MaxAmount
      BY <1>5, <3>2, TokenPriceIsExact
    <3>6. price \in Amounts
      BY <1>3, <3>1, <3>2, TokenPriceIsPaid
    <3>7. units <= MaxAmount => ExactBase(price, form, b, options[o])
      <4> HIDE DEF input, rate, price
      <4> QED
        BY <3>4, <3>5 DEF units
    <3> HIDE DEF units, price
    <3> QED
      BY <2>3, <3>3, <3>4, <3>5, <3>6, <3>7
  <2> QED
    BY <1>4, <2>1, <2>2, <2>3
<1> QED
  BY <1>9, <1>10 DEF form, b

\* Under a derived rate, an amount nobody can pay is an amount that is due.
LEMMA OnlyWhatOverflowsIsUnpayable ==
    ASSUME IInv, Quoted
    PROVE  OnlyOverflowIsUnpayable
<1> SUFFICES ASSUME WasPriced, choice.rate # "static", NEW o \in DOMAIN options,
                    served.offers[o] = MaxAmount
             PROVE  LET b == BackendOf(served.form)
                    IN  /\ HasInputs(served.form, b)
                        /\ \/ ~FitsBase(served.form, b)
                           \/ ExactBase(MaxAmount, served.form, b, options[o])
  BY DEF OnlyOverflowIsUnpayable
<1> DEFINE b    == BackendOf(served.form)
           base == BaseQuote(served.form, b, options[o])
<1>1. /\ HasInputs(served.form, b) /\ base \in Amounts
      /\ FitsBase(served.form, b) => ExactBase(base, served.form, b, options[o])
  BY BaseIsExact
<1>2. served.offers[o] = QuoteAt(served.at[o], served.form, b, options[o])
  BY DEF Quoted
<1>3. base = MaxAmount
  <2>1. CASE Promoted(served.at[o])
    <3>1. promo.discount \in 1 .. Whole - 1
      BY <2>1 DEF IInv, TypeOK, Promoted
    <3>2. served.offers[o] = Discounted(base, promo.discount)
      BY <1>2, <2>1 DEF QuoteAt
    <3> HIDE DEF base
    <3>3. Discounted(base, promo.discount) \in 0 .. base
      BY <1>1, <3>1, PromotionOnlyDiscounts
    <3> QED
      BY <1>1, <3>2, <3>3, UnitsAssumption DEF Amounts
  <2>2. CASE ~Promoted(served.at[o])
    BY <1>2, <2>2 DEF QuoteAt
  <2> QED
    BY <2>1, <2>2
<1> QED
  BY <1>1, <1>3

\* Every quote is the exact amount that the configured figures and the promotion in
\* force at that moment come to, rounded once, or it is out of anybody's reach; and it
\* is that only when the amount overflows.
THEOREM QuotedToTheUnit == Spec => []PricesAreExact
<1>1. ASSUME IInv, Quoted PROVE QuotesAreExact
  <2> SUFFICES ASSUME WasPriced
               PROVE  LET b == BackendOf(served.form)
                      IN  /\ HasInputs(served.form, b)
                          /\ \A o \in {o \in DOMAIN options : ~Promoted(served.at[o])} :
                              IF FitsBase(served.form, b)
                              THEN ExactBase(served.offers[o], served.form, b, options[o])
                              ELSE /\ choice.rate = "cost-plus" => served.offers[o] >= b.cost
                                   /\ choice.rate = "token" => served.offers[o] = MaxAmount
    BY DEF QuotesAreExact
  <2> DEFINE b == BackendOf(served.form)
  <2>1. \A o \in {o \in DOMAIN options : ~Promoted(served.at[o])} :
            served.offers[o] = BaseQuote(served.form, b, options[o])
    BY <1>1 DEF Quoted, QuoteAt
  <2> QED
    BY <1>1, <2>1, BaseIsExact
<1>2. ASSUME IInv, Quoted PROVE PromotionIsExact
  <2> SUFFICES ASSUME WasPriced, NEW o \in DOMAIN options, Promoted(served.at[o]),
                      BaseQuote(served.form, BackendOf(served.form), options[o]) > 0,
                      BaseQuote(served.form, BackendOf(served.form), options[o])
                        * (Whole - promo.discount) <= MaxAmount
               PROVE  LET kept == BaseQuote(served.form, BackendOf(served.form), options[o])
                                    * (Whole - promo.discount)
                      IN  \/ Floors(served.offers[o], kept, Whole)
                          \/ served.offers[o] = 1 /\ kept < Whole
    BY DEF PromotionIsExact
  <2> DEFINE base == BaseQuote(served.form, BackendOf(served.form), options[o])
             kept == base * (Whole - promo.discount)
             n    == kept \div Whole
  <2>1. served.offers[o] = Discounted(base, promo.discount)
    BY <1>2 DEF Quoted, QuoteAt
  <2>2. base \in Nat
    BY <1>2, BaseIsExact DEF Amounts
  <2>3. promo.discount \in 1 .. Whole - 1 /\ Whole \in Nat \ {0}
    BY <1>2, UnitsAssumption DEF IInv, TypeOK, Promoted
  <2> HIDE DEF base
  <2>4. kept \in Nat
    BY <2>2, <2>3
  <2>5. Saturate(kept) = kept
    <3>1. kept <= MaxAmount
      BY DEF base
    <3> HIDE DEF kept
    <3> QED
      BY <3>1, <2>4, UnitsAssumption DEF Saturate
  <2>6. Discounted(base, promo.discount) = IF n = 0 THEN 1 ELSE n
    BY <2>5 DEF Discounted, base
  <2> HIDE DEF kept
  <2>7. n \in Nat /\ n * Whole <= kept /\ kept < (n + 1) * Whole
    BY <2>3, <2>4, QuotientFloors DEF Floors
  <2>8. n = 0 => kept < Whole
    BY <2>3, <2>7
  <2> HIDE DEF n
  <2>9. Floors(served.offers[o], kept, Whole) \/ (served.offers[o] = 1 /\ kept < Whole)
    BY <2>1, <2>6, <2>7, <2>8 DEF Floors
  <2> QED
    BY <2>9 DEF kept, base
<1> QED
  BY <1>1, <1>2, OnlyWhatOverflowsIsUnpayable, QuotedInvariance, PTL DEF PricesAreExact

\* The same body is quoted the same amount, but for the bounds of a promotion.
THEOREM QuotesRepeat == Spec => SameBodySamePrice
<1> DEFINE Same ==
        WasPriced /\ served'.form = served.form =>
            /\ served'.outcome = "Priced"
            /\ \A o \in DOMAIN options :
                 IF Promoted(served.at[o]) <=> Promoted(served'.at[o])
                 THEN served'.offers[o] = served.offers[o]
                 ELSE IF Promoted(served'.at[o])
                 THEN served'.offers[o] <= served.offers[o]
                 ELSE served.offers[o] <= served'.offers[o]
<1>1. ASSUME IInv, Quoted, NEW form \in Forms,
             \/ AskAmbiguous(form) \/ AskUnroutable(form) \/ AskUnbounded(form)
             \/ AskUnrated(form)
      PROVE  Same
  <2>1. served'.form = form
    BY <1>1 DEF AskAmbiguous, AskUnroutable, AskUnbounded, AskUnrated, Refuse, Answer
  <2>2. ~(WasPriced /\ served.form = form)
    BY <1>1 DEF Quoted, Routed, AskAmbiguous, AskUnroutable, AskUnbounded, AskUnrated
  <2> QED
    BY <2>1, <2>2
<1>2. ASSUME IInv, Quoted, NEW form \in Forms, AskPriced(form) PROVE Same
  <2> SUFFICES ASSUME WasPriced, served'.form = served.form PROVE Same
    OBVIOUS
  <2> DEFINE b == BackendOf(form)
  <2>1. PICK at : /\ served' = [form |-> form, at |-> at, outcome |-> "Priced",
                                offers |-> Priced(form, b, at)]
                  /\ form = served.form
    BY <1>2 DEF AskPriced, Answer
  <2>2. \A o \in DOMAIN options : served'.offers[o] = QuoteAt(served'.at[o], form, b, options[o])
    BY <2>1 DEF Priced, Quote, QuoteAt, Promoted, InWindow
  <2>3. \A o \in DOMAIN options : served.offers[o] = QuoteAt(served.at[o], form, b, options[o])
    BY <1>2, <2>1 DEF Quoted
  <2>4. \A o \in DOMAIN options : BaseQuote(form, b, options[o]) \in Amounts
    BY <1>2, <2>1, BaseIsExact
  <2>5. served'.outcome = "Priced"
    BY <2>1
  <2>6. promo # None => promo.discount \in 1 .. Whole - 1
    BY <1>2 DEF IInv, TypeOK
  <2>7. ASSUME NEW o \in DOMAIN options
        PROVE  IF Promoted(served.at[o]) <=> Promoted(served'.at[o])
               THEN served'.offers[o] = served.offers[o]
               ELSE IF Promoted(served'.at[o])
               THEN served'.offers[o] <= served.offers[o]
               ELSE served.offers[o] <= served'.offers[o]
    <3> DEFINE base == BaseQuote(form, b, options[o])
    <3>1. \A t : Promoted(t) => QuoteAt(t, form, b, options[o]) = Discounted(base, promo.discount)
      BY DEF QuoteAt
    <3>2. \A t : ~Promoted(t) => QuoteAt(t, form, b, options[o]) = base
      BY DEF QuoteAt
    <3>3. base \in Nat
      BY <2>4 DEF Amounts
    <3>4. promo # None => Discounted(base, promo.discount) <= base
      <4>1. base \in Amounts
        BY <2>4
      <4> HIDE DEF base
      <4> QED
        BY <2>6, <3>3, <4>1, PromotionOnlyDiscounts
    <3>5. (Promoted(served.at[o]) \/ Promoted(served'.at[o])) => promo # None
      BY DEF Promoted
    <3> HIDE DEF base, b
    <3> QED
      BY <2>2, <2>3, <3>1, <3>2, <3>4, <3>5
  <2> QED
    BY <2>5, <2>7
<1>3. ASSUME IInv, Quoted, [Next]_vars PROVE [Same]_served
  <2> HIDE DEF Same
  <2>1. \/ UNCHANGED served
        \/ \E form \in Forms :
              \/ AskAmbiguous(form) \/ AskUnroutable(form) \/ AskUnbounded(form)
              \/ AskUnrated(form) \/ AskPriced(form)
    BY <1>3 DEF Next, LoadBackends, SingleBackend, ManyOptions, SingleOption, SelectPricing,
                SelectPromo, SelectCap, SealRegistry, Pass, Tick, vars
  <2> QED
    BY <1>1, <1>2, <1>3, <2>1
<1> QED
  BY <1>3, QuotedInvariance, PTL DEF Spec, SameBodySamePrice
-----------------------------------------------------------------------------
(***************************************************************************)
(* What the operator set is in effect: what each door passed on stands for *)
(* what it read, and a door that was passed found nothing set in vain.     *)
(***************************************************************************)

\* From their door on, the backends are those of the file or the one the other
\* variables declare, and none of those variables is set beside a file.
BackendsTold ==
    Built =>
        IF FromFile
        THEN /\ ~IsSet(env.upstreamUrl) /\ ~IsSet(env.upstreamCost)
             /\ env.modelRates = None
             /\ env.backendsFile \in Seq(Entries)
             /\ registry = BuildAll(env.backendsFile)
        ELSE /\ DOMAIN registry = {1}
             /\ registry[1].rates = RatesOf(env.modelRates)
             /\ IsSet(env.modelRates) => registry[1].rates # NoRates

\* From theirs on, the amounts are those of one list or of one variable.
OptionsTold ==
    door \in {"pricing", "promo", "cap", "coverage", "open"} =>
        /\ IsSet(env.accepts) =>
            options = env.accepts /\ ~env.singleChain /\ ~IsSet(env.price)
        /\ IsSet(env.price) => options = <<env.price>>

\* From its door on, the rate is the one named, and reads whatever else is set.
RateTold ==
    door \in {"promo", "cap", "coverage", "open"} =>
        /\ RateInEffect
        /\ IsSet(env.accepts) \/ IsSet(env.price) => choice.rate = "static"
        /\ IsSet(env.upstreamCost) => choice.rate = "cost-plus"
        /\ MarginInEffect
        /\ choice.cost = Read(env.upstreamCost)

\* There is no promotion before its door, and the one that was set after it.
PromotionTold ==
    /\ door \in {"backends", "options", "pricing", "promo"} => promo = None
    /\ door \in {"cap", "coverage", "open"} => PromotionInEffect

\* From its door on, the cap is the one set.
CapTold == door \in {"coverage", "open"} /\ IsSet(env.cap) => cap = env.cap

\* Once the gateway is open its one backend costs what was set.
CostTold ==
    door = "open" /\ ~FromFile /\ IsSet(env.upstreamCost) =>
        registry[1].cost = env.upstreamCost

EInv ==
    /\ BackendsTold /\ OptionsTold /\ RateTold /\ PromotionTold /\ CapTold /\ CostTold

LEMMA InitTold == Init => EInv
<1> SUFFICES ASSUME Init PROVE EInv
  OBVIOUS
<1>1. door = "backends" /\ promo = None
  BY DEF Init
<1>2. BackendsTold /\ OptionsTold /\ RateTold
  BY <1>1 DEF BackendsTold, Built, OptionsTold, RateTold
<1>3. PromotionTold /\ CapTold /\ CostTold
  BY <1>1 DEF PromotionTold, CapTold, CostTold
<1> QED
  BY <1>2, <1>3 DEF EInv

\* What a door leaves of the others' invariants: those that concern what it keeps.
LEMMA ToldAtRefusal ==
    ASSUME EInv, env' = env, door' = "refused"
    PROVE  EInv'
<1>1. BackendsTold' /\ OptionsTold' /\ RateTold'
  BY DEF BackendsTold, Built, OptionsTold, RateTold
<1>2. PromotionTold' /\ CapTold' /\ CostTold'
  BY DEF PromotionTold, CapTold, CostTold
<1> QED
  BY <1>1, <1>2 DEF EInv

\* The terms the invariants read, where the step keeps what they are made of.
LEMMA ToldKept ==
    ASSUME env' = env
    PROVE  /\ BackendsTold /\ Built /\ registry' = registry => BackendsTold'
           /\ /\ OptionsTold /\ door \in {"pricing", "promo", "cap", "coverage", "open"}
              /\ options' = options
              => OptionsTold'
           /\ /\ RateTold /\ door \in {"promo", "cap", "coverage", "open"}
              /\ choice' = choice
              => RateTold'
           /\ /\ PromotionTold /\ door \in {"cap", "coverage", "open"}
              /\ door' \in {"cap", "coverage", "open"} /\ promo' = promo
              => PromotionTold'
           /\ CapTold /\ door \in {"coverage", "open"} /\ cap' = cap => CapTold'
<1>1. BackendsTold /\ Built /\ registry' = registry => BackendsTold'
  BY DEF BackendsTold, FromFile, IsSet, Read
<1>2. /\ OptionsTold /\ door \in {"pricing", "promo", "cap", "coverage", "open"}
      /\ options' = options
      => OptionsTold'
  BY DEF OptionsTold, IsSet, Read
<1>3. /\ RateTold /\ door \in {"promo", "cap", "coverage", "open"}
      /\ choice' = choice
      => RateTold'
  BY DEF RateTold, RateInEffect, MarginInEffect, IsSet, Read
<1>4. /\ PromotionTold /\ door \in {"cap", "coverage", "open"}
      /\ door' \in {"cap", "coverage", "open"} /\ promo' = promo
      => PromotionTold'
  BY DEF PromotionTold, PromotionInEffect, IsSet, Read
<1>5. CapTold /\ door \in {"coverage", "open"} /\ cap' = cap => CapTold'
  BY DEF CapTold, IsSet, Read
<1> QED
  BY <1>1, <1>2, <1>3, <1>4, <1>5

LEMMA LoadBackendsTold == IInv /\ EInv /\ LoadBackends => EInv'
<1> SUFFICES ASSUME IInv, EInv, LoadBackends PROVE EInv'
  OBVIOUS
<1>1. /\ door = "backends" /\ env' = env
      /\ refusal' = FirstOf(FileChecks)
      /\ refusal' = "none" => door' = "options"
      /\ refusal' # "none" => door' = "refused"
  <2> HIDE DEF FileChecks
  <2> QED
    BY PassedOrRefused DEF LoadBackends
<1>2. CASE refusal' # "none"
  BY <1>1, <1>2, ToldAtRefusal
<1>3. CASE refusal' = "none"
  <2>1. /\ FromFile /\ registry' = BuildAll(env.backendsFile) /\ promo' = promo
        /\ door' = "options"
    BY <1>1, <1>3 DEF LoadBackends
  <2>2. /\ env.backendsFile \in Seq(Entries)
        /\ ~IsSet(env.upstreamUrl) /\ ~IsSet(env.upstreamCost) /\ env.modelRates = None
    BY <1>1, <1>3, <2>1, FileRules DEF IInv, TypeOK
  <2>3. BackendsTold'
    BY <1>1, <2>1, <2>2 DEF BackendsTold, FromFile, IsSet, Read
  <2>4. OptionsTold' /\ RateTold' /\ CapTold' /\ CostTold'
    BY <2>1 DEF OptionsTold, RateTold, CapTold, CostTold
  <2>5. PromotionTold'
    BY <1>1, <2>1 DEF EInv, PromotionTold
  <2> QED
    BY <2>3, <2>4, <2>5 DEF EInv
<1> QED
  BY <1>2, <1>3

LEMMA SingleBackendTold == IInv /\ EInv /\ SingleBackend => EInv'
<1> SUFFICES ASSUME IInv, EInv, SingleBackend PROVE EInv'
  OBVIOUS
<1>1. /\ door = "backends" /\ env' = env
      /\ refusal' = FirstOf(SingleChecks)
      /\ refusal' = "none" => door' = "options"
      /\ refusal' # "none" => door' = "refused"
  <2> HIDE DEF SingleChecks
  <2> QED
    BY PassedOrRefused DEF SingleBackend
<1>2. CASE refusal' # "none"
  BY <1>1, <1>2, ToldAtRefusal
<1>3. CASE refusal' = "none"
  <2>1. /\ ~FromFile /\ registry' = << Single(DefaultId, RatesOf(env.modelRates)) >>
        /\ promo' = promo /\ door' = "options"
    BY <1>1, <1>3 DEF SingleBackend
  <2>2. IsSet(env.modelRates) => RatesOf(env.modelRates) # NoRates
    BY <1>1, <1>3, SoleRules DEF IInv, TypeOK
  <2>3. DOMAIN registry' = {1} /\ registry'[1].rates = RatesOf(env.modelRates)
    BY <2>1 DEF Single
  <2>4. RatesOf(env'.modelRates) = RatesOf(env.modelRates)
    BY <1>1
  <2>5. BackendsTold'
    BY <1>1, <2>1, <2>2, <2>3, <2>4 DEF BackendsTold, FromFile, IsSet, Read
  <2>6. OptionsTold' /\ RateTold' /\ CapTold' /\ CostTold'
    BY <2>1 DEF OptionsTold, RateTold, CapTold, CostTold
  <2>7. PromotionTold'
    BY <1>1, <2>1 DEF EInv, PromotionTold
  <2> QED
    BY <2>5, <2>6, <2>7 DEF EInv
<1> QED
  BY <1>2, <1>3

LEMMA ManyOptionsTold == IInv /\ EInv /\ ManyOptions => EInv'
<1> SUFFICES ASSUME IInv, EInv, ManyOptions PROVE EInv'
  OBVIOUS
<1>1. /\ door = "options" /\ env' = env
      /\ refusal' = FirstOf(AcceptsChecks)
      /\ refusal' = "none" => door' = "pricing"
      /\ refusal' # "none" => door' = "refused"
  <2> HIDE DEF AcceptsChecks
  <2> QED
    BY PassedOrRefused DEF ManyOptions
<1>2. CASE refusal' # "none"
  BY <1>1, <1>2, ToldAtRefusal
<1>3. CASE refusal' = "none"
  <2>1. /\ IsSet(env.accepts) /\ options' = env.accepts
        /\ registry' = registry /\ promo' = promo /\ door' = "pricing"
    BY <1>1, <1>3 DEF ManyOptions
  <2>2. ~env.singleChain /\ ~IsSet(env.price)
    BY <1>1, <1>3, <2>1, AcceptsRules DEF IInv, TypeOK
  <2>3. BackendsTold'
    BY <1>1, <2>1, ToldKept DEF EInv, Built
  <2>4. OptionsTold'
    BY <1>1, <2>1, <2>2 DEF OptionsTold, IsSet, Read
  <2>5. RateTold' /\ CapTold' /\ CostTold'
    BY <2>1 DEF RateTold, CapTold, CostTold
  <2>6. PromotionTold'
    BY <1>1, <2>1 DEF EInv, PromotionTold
  <2> QED
    BY <2>3, <2>4, <2>5, <2>6 DEF EInv
<1> QED
  BY <1>2, <1>3

LEMMA SingleOptionTold == IInv /\ EInv /\ SingleOption => EInv'
<1> SUFFICES ASSUME IInv, EInv, SingleOption PROVE EInv'
  OBVIOUS
<1>1. /\ door = "options" /\ env' = env
      /\ refusal' = "none" => door' = "pricing"
      /\ refusal' # "none" => door' = "refused"
  <2> HIDE DEF AmountChecks
  <2> QED
    BY PassedOrRefused DEF SingleOption
<1>2. CASE refusal' # "none"
  BY <1>1, <1>2, ToldAtRefusal
<1>3. CASE refusal' = "none"
  <2>1. /\ ~IsSet(env.accepts)
        /\ options' = << IF IsSet(env.price) THEN env.price ELSE DefaultPrice >>
        /\ registry' = registry /\ promo' = promo /\ door' = "pricing"
    BY <1>1, <1>3 DEF SingleOption
  <2>2. BackendsTold'
    BY <1>1, <2>1, ToldKept DEF EInv, Built
  <2>3. OptionsTold'
    BY <1>1, <2>1 DEF OptionsTold, IsSet, Read
  <2>4. RateTold' /\ CapTold' /\ CostTold'
    BY <2>1 DEF RateTold, CapTold, CostTold
  <2>5. PromotionTold'
    BY <1>1, <2>1 DEF EInv, PromotionTold
  <2> QED
    BY <2>2, <2>3, <2>4, <2>5 DEF EInv
<1> QED
  BY <1>2, <1>3

\* The rate chosen is the one named, with the margin and the cost that go with it.
LEMMA ChosenIsNamed ==
    ASSUME env \in EnvironmentSet, NEW rate, rate = Read(env.pricing), rate # Junk,
           rate # "cost-plus" => ~IsSet(env.upstreamCost) /\ ~IsSet(env.margin)
    PROVE  /\ IF IsSet(env.pricing) THEN Chosen(rate).rate = env.pricing
              ELSE Chosen(rate).rate = "static"
           /\ rate \notin {"cost-plus", "token"} => Chosen(rate).rate = "static"
           /\ IsSet(env.upstreamCost) => Chosen(rate).rate = "cost-plus"
           /\ IsSet(env.margin) =>
                Chosen(rate).rate = "cost-plus" /\ Chosen(rate).margin = env.margin
           /\ Chosen(rate).cost = Read(env.upstreamCost)
<1>1. env.pricing \in {None, Junk, NotUnicode, "static", "cost-plus", "token"}
  BY DEF EnvironmentSet
<1>2. rate \in {None, "static", "cost-plus", "token"}
  BY <1>1 DEF Read
<1>3. IsSet(env.pricing) => env.pricing = rate /\ rate # None
  BY DEF IsSet, Read
<1>4. ~IsSet(env.pricing) => rate = None
  BY DEF IsSet
<1>5. None # "cost-plus" /\ None # "token"
  BY DefaultsAssumption
<1>6. CASE rate = "cost-plus"
  <2>1. Chosen(rate) = [rate |-> rate, margin |-> env.margin, cost |-> Read(env.upstreamCost)]
    BY <1>6 DEF Chosen
  <2> QED
    BY <1>3, <1>4, <1>5, <1>6, <2>1
<1>7. CASE rate # "cost-plus"
  <2>1. Read(env.upstreamCost) = None
    BY <1>7 DEF IsSet
  <2>2. Chosen(rate).cost = None
        /\ Chosen(rate).rate = IF rate = "token" THEN "token" ELSE "static"
    BY <1>7 DEF Chosen, Static
  <2> QED
    BY <1>2, <1>3, <1>4, <1>5, <1>7, <2>1, <2>2
<1> QED
  BY <1>6, <1>7

LEMMA SelectPricingTold == IInv /\ EInv /\ SelectPricing => EInv'
<1> SUFFICES ASSUME IInv, EInv, SelectPricing PROVE EInv'
  OBVIOUS
<1> DEFINE rate == Read(env.pricing)
<1>1. /\ door = "pricing" /\ env' = env
      /\ refusal' = FirstOf(PricingChecks(rate))
      /\ refusal' = "none" => door' = "promo"
      /\ refusal' # "none" => door' = "refused"
  <2>1. Pass("pricing", "promo", PricingChecks(rate))
    BY DEF SelectPricing
  <2> HIDE DEF PricingChecks
  <2> QED
    BY <2>1, PassedOrRefused
<1>2. CASE refusal' # "none"
  BY <1>1, <1>2, ToldAtRefusal
<1>3. CASE refusal' = "none"
  <2>1. /\ choice' = Chosen(rate)
        /\ registry' = registry /\ options' = options /\ promo' = promo /\ door' = "promo"
    BY <1>1, <1>3 DEF SelectPricing
  <2>2. env \in EnvironmentSet
    BY DEF IInv, TypeOK
  <2>3. /\ rate # Junk
        /\ rate \in {"cost-plus", "token"} => ~IsSet(env.accepts) /\ ~IsSet(env.price)
        /\ rate # "cost-plus" => ~IsSet(env.upstreamCost) /\ ~IsSet(env.margin)
    BY <1>1, <1>3, <2>2, PricingRules
  <2>4. /\ IF IsSet(env.pricing) THEN Chosen(rate).rate = env.pricing
           ELSE Chosen(rate).rate = "static"
        /\ rate \notin {"cost-plus", "token"} => Chosen(rate).rate = "static"
        /\ IsSet(env.upstreamCost) => Chosen(rate).rate = "cost-plus"
        /\ IsSet(env.margin) =>
             Chosen(rate).rate = "cost-plus" /\ Chosen(rate).margin = env.margin
        /\ Chosen(rate).cost = Read(env.upstreamCost)
    BY <2>2, <2>3, ChosenIsNamed
  <2> HIDE DEF rate
  <2>5. RateTold'
    BY <1>1, <2>1, <2>3, <2>4
       DEF RateTold, RateInEffect, MarginInEffect, IsSet, Read
  <2>6. BackendsTold' /\ OptionsTold'
    BY <1>1, <2>1, ToldKept DEF EInv, Built
  <2>7. CapTold' /\ CostTold'
    BY <2>1 DEF CapTold, CostTold
  <2>8. PromotionTold'
    BY <1>1, <2>1 DEF EInv, PromotionTold
  <2> QED
    BY <2>5, <2>6, <2>7, <2>8 DEF EInv
<1> QED
  BY <1>2, <1>3

LEMMA SelectPromoTold == IInv /\ EInv /\ SelectPromo => EInv'
<1> SUFFICES ASSUME IInv, EInv, SelectPromo PROVE EInv'
  OBVIOUS
<1>1. /\ door = "promo" /\ env' = env
      /\ refusal' = FirstOf(PromoChecks)
      /\ refusal' = "none" => door' = "cap"
      /\ refusal' # "none" => door' = "refused"
  <2> HIDE DEF PromoChecks
  <2> QED
    BY PassedOrRefused DEF SelectPromo
<1>2. CASE refusal' # "none"
  BY <1>1, <1>2, ToldAtRefusal
<1>3. CASE refusal' = "none"
  <2>1. /\ promo' = IF FullPromo
                    THEN [discount |-> env.discount, start |-> env.start, end |-> env.end]
                    ELSE promo
        /\ registry' = registry /\ options' = options /\ choice' = choice /\ door' = "cap"
    BY <1>1, <1>3 DEF SelectPromo
  <2>2. SomePromo => FullPromo
    BY <1>1, <1>3, PromoRules DEF IInv, TypeOK
  <2>3. promo = None
    BY <1>1 DEF EInv, PromotionTold
  <2>4. PromotionTold'
    <3>1. CASE FullPromo
      BY <1>1, <2>1, <3>1 DEF PromotionTold, PromotionInEffect
    <3>2. CASE ~FullPromo
      <4>1. ~IsSet(env.discount) /\ ~IsSet(env.start) /\ ~IsSet(env.end)
        BY <2>2, <3>2 DEF SomePromo
      <4> QED
        BY <1>1, <2>1, <2>3, <3>2, <4>1 DEF PromotionTold, PromotionInEffect, IsSet, Read
    <3> QED
      BY <3>1, <3>2
  <2>5. BackendsTold' /\ OptionsTold' /\ RateTold'
    BY <1>1, <2>1, ToldKept DEF EInv, Built
  <2>6. CapTold' /\ CostTold'
    BY <2>1 DEF CapTold, CostTold
  <2> QED
    BY <2>4, <2>5, <2>6 DEF EInv
<1> QED
  BY <1>2, <1>3

LEMMA SelectCapTold == IInv /\ EInv /\ SelectCap => EInv'
<1> SUFFICES ASSUME IInv, EInv, SelectCap PROVE EInv'
  OBVIOUS
<1>1. /\ door = "cap" /\ env' = env
      /\ refusal' = "none" => door' = "coverage"
      /\ refusal' # "none" => door' = "refused"
  <2> HIDE DEF CapChecks
  <2> QED
    BY PassedOrRefused DEF SelectCap
<1>2. CASE refusal' # "none"
  BY <1>1, <1>2, ToldAtRefusal
<1>3. CASE refusal' = "none"
  <2>1. /\ cap' = IF IsSet(env.cap) THEN env.cap ELSE cap
        /\ registry' = registry /\ options' = options /\ choice' = choice
        /\ promo' = promo /\ door' = "coverage"
    BY <1>1, <1>3 DEF SelectCap
  <2>2. BackendsTold' /\ OptionsTold' /\ RateTold' /\ PromotionTold'
    BY <1>1, <2>1, ToldKept DEF EInv, Built
  <2>3. CapTold'
    BY <1>1, <2>1 DEF CapTold, IsSet, Read
  <2>4. CostTold'
    BY <2>1 DEF CostTold
  <2> QED
    BY <2>2, <2>3, <2>4 DEF EInv
<1> QED
  BY <1>2, <1>3

\* Sealing gives a sole backend its cost, and leaves a file's as they are.
LEMMA SealRegistryTold == IInv /\ EInv /\ SealRegistry => EInv'
<1> SUFFICES ASSUME IInv, EInv, SealRegistry PROVE EInv'
  OBVIOUS
<1>1. /\ door = "coverage" /\ env' = env
      /\ refusal' = "none" => door' = "open"
      /\ refusal' # "none" => door' = "refused"
  <2> HIDE DEF CoverageChecks, Sealed
  <2>1. Pass("coverage", "open", CoverageChecks(Sealed))
    BY DEF SealRegistry
  <2> QED
    BY <2>1, PassedOrRefused
<1>2. CASE refusal' # "none"
  BY <1>1, <1>2, ToldAtRefusal
<1>3. CASE refusal' = "none"
  <2>1. /\ registry' = Sealed /\ options' = options /\ choice' = choice
        /\ promo' = promo /\ cap' = cap /\ door' = "open"
    BY <1>1, <1>3 DEF SealRegistry
  <2>2. OptionsTold' /\ RateTold' /\ PromotionTold' /\ CapTold'
    BY <1>1, <2>1, ToldKept DEF EInv
  <2>3. choice.cost = Read(env.upstreamCost) /\ BackendsTold /\ Built
    BY <1>1 DEF EInv, RateTold, Built
  <2>4. CASE FromFile
    <3>1. choice.cost = None
      BY <2>3, <2>4 DEF BackendsTold, IsSet
    <3>2. registry' = registry
      BY <2>1, <3>1 DEF Sealed
    <3>3. BackendsTold'
      BY <1>1, <2>3, <3>2, ToldKept
    <3>4. CostTold'
      BY <1>1, <2>4 DEF CostTold, FromFile, IsSet, Read
    <3> QED
      BY <2>2, <3>3, <3>4 DEF EInv
  <2>5. CASE ~FromFile
    <3>1. /\ DOMAIN registry = {1}
          /\ registry[1].rates = RatesOf(env.modelRates)
          /\ IsSet(env.modelRates) => registry[1].rates # NoRates
      BY <2>3, <2>5 DEF BackendsTold
    <3>2. registry[1] \in BackendSet
      <4>1. 1 \in DOMAIN registry /\ registry \in Seq(BackendSet)
        BY <3>1 DEF IInv, TypeOK
      <4> QED
        BY <4>1
    <3>3. /\ DOMAIN Sealed = {1}
          /\ Sealed[1].rates = registry[1].rates
          /\ choice.cost # None => Sealed[1].cost = choice.cost
      <4>1. CASE choice.cost = None
        BY <3>1, <4>1 DEF Sealed
      <4>2. CASE choice.cost # None
        <5>1. DOMAIN Sealed = {1} /\ Sealed[1] = [registry[1] EXCEPT !.cost = choice.cost]
          BY <3>1, <4>2 DEF Sealed
        <5> QED
          BY <3>2, <5>1 DEF BackendSet
      <4> QED
        BY <4>1, <4>2
    <3> HIDE DEF Sealed
    <3>4. RatesOf(env'.modelRates) = RatesOf(env.modelRates)
      BY <1>1
    <3>5. BackendsTold'
      BY <1>1, <2>1, <2>5, <3>1, <3>3, <3>4 DEF BackendsTold, FromFile, IsSet, Read
    <3>6. CostTold'
      BY <1>1, <2>1, <2>3, <3>3 DEF CostTold, FromFile, IsSet, Read
    <3> QED
      BY <2>2, <3>5, <3>6 DEF EInv
  <2> QED
    BY <2>4, <2>5
<1> QED
  BY <1>2, <1>3

\* An open gateway's settings stand.
LEMMA OpenTold ==
    ASSUME EInv, UNCHANGED <<env, door, built>>
    PROVE  EInv'
<1>1. UNCHANGED <<env, door, registry, options, choice, promo, cap>>
  BY DEF built
<1>2. BackendsTold' /\ OptionsTold'
  BY <1>1 DEF EInv, BackendsTold, Built, OptionsTold, FromFile, IsSet, Read
<1>3. RateTold' /\ CapTold' /\ CostTold'
  BY <1>1 DEF EInv, RateTold, RateInEffect, MarginInEffect, CapTold, CostTold, FromFile,
              IsSet, Read
<1>4. PromotionTold'
  BY <1>1 DEF EInv, PromotionTold, PromotionInEffect, IsSet, Read
<1> QED
  BY <1>2, <1>3, <1>4 DEF EInv

LEMMA ToldInvariance == Spec => [](IInv /\ EInv)
<1>1. IInv /\ EInv /\ [Next]_vars => EInv'
  <2> SUFFICES ASSUME IInv, EInv, [Next]_vars PROVE EInv'
    OBVIOUS
  <2>1. CASE LoadBackends
    BY <2>1, LoadBackendsTold
  <2>2. CASE SingleBackend
    BY <2>2, SingleBackendTold
  <2>3. CASE ManyOptions
    BY <2>3, ManyOptionsTold
  <2>4. CASE SingleOption
    BY <2>4, SingleOptionTold
  <2>5. CASE SelectPricing
    BY <2>5, SelectPricingTold
  <2>6. CASE SelectPromo
    BY <2>6, SelectPromoTold
  <2>7. CASE SelectCap
    BY <2>7, SelectCapTold
  <2>8. CASE SealRegistry
    BY <2>8, SealRegistryTold
  <2>9. CASE \E form \in Forms :
                \/ AskAmbiguous(form) \/ AskUnroutable(form) \/ AskUnbounded(form)
                \/ AskUnrated(form) \/ AskPriced(form)
    <3>1. UNCHANGED <<env, door, built>>
      BY <2>9 DEF AskAmbiguous, AskUnroutable, AskUnbounded, AskUnrated, AskPriced,
                  Refuse, Answer
    <3> QED
      BY <3>1, OpenTold
  <2>10. CASE Tick
    BY <2>10, OpenTold DEF Tick
  <2>11. CASE UNCHANGED vars
    BY <2>11, OpenTold DEF vars
  <2> QED
    BY <2>1, <2>2, <2>3, <2>4, <2>5, <2>6, <2>7, <2>8, <2>9, <2>10, <2>11 DEF Next
<1> QED
  BY <1>1, InitTold, Invariance, PTL DEF Spec

\* A gateway that opens runs on everything the operator set: no variable the
\* process could read is superseded, orphaned or inert.
THEOREM EverythingSetIsInEffect == Spec => []NothingIsInert
<1>1. IInv /\ EInv => NothingIsInert
  <2> SUFFICES ASSUME IInv, EInv, door = "open"
               PROVE  /\ RateInEffect /\ CostInEffect /\ MarginInEffect /\ AmountsInEffect
                      /\ BackendsInEffect /\ PromotionInEffect
                      /\ IsSet(env.cap) => cap = env.cap
    BY DEF NothingIsInert
  <2>1. /\ RateInEffect /\ MarginInEffect
        /\ IsSet(env.accepts) \/ IsSet(env.price) => choice.rate = "static"
        /\ IsSet(env.upstreamCost) => choice.rate = "cost-plus"
    BY DEF EInv, RateTold
  <2>2. /\ FromFile => /\ ~IsSet(env.upstreamUrl) /\ ~IsSet(env.upstreamCost)
                       /\ env.modelRates = None /\ env.backendsFile \in Seq(Entries)
                       /\ registry = BuildAll(env.backendsFile)
        /\ ~FromFile => /\ DOMAIN registry = {1}
                        /\ registry[1].rates = RatesOf(env.modelRates)
                        /\ IsSet(env.modelRates) => registry[1].rates # NoRates
    BY DEF EInv, BackendsTold, Built
  <2>3. \A i \in DOMAIN registry : registry[i].rates # NoRates <=> choice.rate = "token"
    BY DEF IInv, CoverageAgrees
  <2>4. CostInEffect
    BY <2>1, <2>2 DEF CostInEffect, EInv, CostTold
  <2>5. AmountsInEffect
    BY <2>1 DEF AmountsInEffect, EInv, OptionsTold
  <2>6. BackendsInEffect
    <3>1. ASSUME FromFile
          PROVE  /\ ~IsSet(env.upstreamUrl)
                 /\ Len(registry) = Len(env.backendsFile)
                 /\ \A i \in DOMAIN registry :
                        /\ registry[i].cost = env.backendsFile[i].cost
                        /\ registry[i].rates = RatesOf(env.backendsFile[i].rates)
      <4>1. /\ DOMAIN env.backendsFile = 1 .. Len(env.backendsFile)
            /\ Len(env.backendsFile) \in Nat
        BY <2>2, <3>1
      <4>2. /\ DOMAIN registry = DOMAIN env.backendsFile
            /\ \A i \in DOMAIN registry : registry[i] = Build(env.backendsFile[i])
        BY <2>2, <3>1 DEF BuildAll
      <4>3. Len(registry) = Len(env.backendsFile)
        BY <4>1, <4>2
      <4>4. \A e : Build(e).cost = e.cost /\ Build(e).rates = RatesOf(e.rates)
        BY DEF Build
      <4> QED
        BY <2>2, <3>1, <4>2, <4>3, <4>4
    <3>2. ASSUME IsSet(env.modelRates)
          PROVE  choice.rate = "token" /\ registry[1].rates = RatesOf(env.modelRates)
      <4>1. ~FromFile
        BY <2>2, <3>2, DefaultsAssumption DEF IsSet, Read
      <4> QED
        BY <2>2, <2>3, <3>2, <4>1
    <3> QED
      BY <3>1, <3>2 DEF BackendsInEffect
  <2>7. PromotionInEffect /\ (IsSet(env.cap) => cap = env.cap)
    BY DEF EInv, PromotionTold, CapTold
  <2> QED
    BY <2>1, <2>4, <2>5, <2>6, <2>7
<1> QED
  BY <1>1, ToldInvariance, PTL
-----------------------------------------------------------------------------
(***************************************************************************)
(* What Gateway makes of the same request.                                 *)
(***************************************************************************)

\* The handler as Gateway has it, over the options by their index; no payment is sent.
Handler(opts, required) ==
    INSTANCE Gateway WITH
        Requests <- {}, Payments <- {}, Options <- opts, Quotes <- [opts -> Nat],
        Accepted <- <<>>, Forms <- {}, Window <- [o \in opts |-> 1], Reserve <- 0,
        FacilitatorTimeout <- 1, HeadTimeout <- 1, ModelRatesRequired <- required,
        Malformed <- Junk, None <- None,
        pc <- None, payment <- None, trace <- None, answer <- None, response <- None,
        event <- None, age <- None, wait <- None, prices <- None, forwarded <- None,
        flying <- None, ledger <- None

HasBackend(form) == Route(registry, form.model) # 0

\* What a Form of Gateway says of a request that no token lets through.
HandlerForm(form, bearer) ==
    [ ambiguous |-> form.ambiguous, routed |-> HasBackend(form), bearer |-> bearer,
      bounded |-> HasBackend(form) /\ Bounded(form, BackendOf(form)),
      rated |-> HasBackend(form) /\ ModelRate(form, BackendOf(form)),
      payment |-> None, agrees |-> FALSE ]

\* An answer is the one that the configuration still gives to its request.
Stands(form, outcome) ==
    /\ form.ambiguous => outcome = "AmbiguousKey"
    /\ ~form.ambiguous /\ ~HasBackend(form) => outcome = "Unroutable"
    /\ ~form.ambiguous /\ HasBackend(form) =>
            IF ~Bounded(form, BackendOf(form)) THEN outcome = "OutputCapRefused"
            ELSE IF RatesRequired /\ ~ModelRate(form, BackendOf(form))
            THEN outcome = "UnpricedModel"
            ELSE outcome = "Priced"

AnswerStands ==
    served # None =>
        /\ served.form \in Forms
        /\ Stands(served.form, served.outcome)
        /\ served.outcome = "Priced" => DOMAIN served.offers = DOMAIN options

SameScreen(opts, required, list, bearer) ==
    Handler(opts, required)!Screen(
        HandlerForm(served.form, bearer), Handler(opts, required)!Priced(list)) =
            IF served.outcome = "Priced" THEN "PaymentRequired" ELSE served.outcome

HandlerScreensAlike ==
    served # None =>
        \A opts, required, list : \A bearer \in {"none", "refused"} :
            opts = DOMAIN options /\ required = RatesRequired /\ list = served.offers =>
                /\ required \in BOOLEAN
                /\ HandlerForm(served.form, bearer) \in Handler(opts, required)!FormSet
                /\ served.outcome = "Priced" => list \in [opts -> Nat]
                /\ SameScreen(opts, required, list, bearer)

LEMMA StandsWhileItRuns ==
    ASSUME UNCHANGED <<registry, options, choice, promo, cap>>, NEW form, NEW outcome,
           Stands(form, outcome)
    PROVE  Stands(form, outcome)'
<1>1. HasBackend(form)' = HasBackend(form) /\ BackendOf(form)' = BackendOf(form)
  BY DEF HasBackend, BackendOf
<1>2. Bounded(form, BackendOf(form))' = Bounded(form, BackendOf(form))
  BY <1>1 DEF Bounded
<1>3. ModelRate(form, BackendOf(form))' = ModelRate(form, BackendOf(form))
  BY <1>1 DEF ModelRate
<1>4. RatesRequired' = RatesRequired
  BY DEF RatesRequired
<1> QED
  BY <1>1, <1>2, <1>3, <1>4 DEF Stands

LEMMA AskedStands ==
    ASSUME NEW form \in Forms,
           \/ AskAmbiguous(form) \/ AskUnroutable(form) \/ AskUnbounded(form)
           \/ AskUnrated(form) \/ AskPriced(form)
    PROVE  AnswerStands'
<1>1. ASSUME NEW outcome, NEW at, NEW offers, Answer(form, outcome, at, offers),
             Stands(form, outcome), outcome = "Priced" => DOMAIN offers = DOMAIN options
      PROVE  AnswerStands'
  <2>1. /\ served' = [form |-> form, at |-> at, outcome |-> outcome, offers |-> offers]
        /\ UNCHANGED <<registry, options, choice, promo, cap>>
    BY <1>1 DEF Answer, built
  <2>2. served'.form = form /\ served'.outcome = outcome /\ served'.offers = offers
    BY <2>1
  <2>3. Stands(form, outcome)'
    BY <1>1, <2>1, StandsWhileItRuns
  <2>4. Stands(served.form, served.outcome)'
    BY <2>2, <2>3 DEF Stands, HasBackend, BackendOf, Bounded, ModelRate, RatesRequired
  <2> QED
    BY <1>1, <2>1, <2>2, <2>4 DEF AnswerStands
<1>2. CASE AskAmbiguous(form)
  BY <1>1, <1>2 DEF AskAmbiguous, Stands, Refuse
<1>3. CASE AskUnroutable(form)
  BY <1>1, <1>3 DEF AskUnroutable, Stands, HasBackend, Refuse
<1>4. CASE AskUnbounded(form)
  BY <1>1, <1>4 DEF AskUnbounded, Routed, Stands, HasBackend, Refuse
<1>5. CASE AskUnrated(form)
  BY <1>1, <1>5 DEF AskUnrated, Routed, Stands, HasBackend, Refuse
<1>6. CASE AskPriced(form)
  <2>1. Stands(form, "Priced")
    BY <1>6 DEF AskPriced, Routed, Stands, HasBackend
  <2>2. \A at : DOMAIN Priced(form, BackendOf(form), at) = DOMAIN options
    BY DEF Priced
  <2>3. PICK at : Answer(form, "Priced", at, Priced(form, BackendOf(form), at))
    BY <1>6 DEF AskPriced
  <2> QED
    BY <1>1, <2>1, <2>2, <2>3
<1> QED
  BY <1>2, <1>3, <1>4, <1>5, <1>6

LEMMA AnswerStandsStep == IInv /\ AnswerStands /\ [Next]_vars => AnswerStands'
<1> SUFFICES ASSUME IInv, AnswerStands, [Next]_vars PROVE AnswerStands'
  OBVIOUS
<1>1. ASSUME LoadBackends \/ SingleBackend \/ ManyOptions \/ SingleOption \/ SelectPricing
                \/ SelectPromo \/ SelectCap \/ SealRegistry
      PROVE  AnswerStands'
  <2>1. UNCHANGED served /\ door # "open"
    BY <1>1 DEF LoadBackends, SingleBackend, ManyOptions, SingleOption, SelectPricing,
                SelectPromo, SelectCap, SealRegistry, Pass
  <2>2. served' = None
    BY <2>1 DEF IInv, ServedOpen
  <2> QED
    BY <2>2 DEF AnswerStands
<1>2. ASSUME NEW form \in Forms,
             \/ AskAmbiguous(form) \/ AskUnroutable(form) \/ AskUnbounded(form)
             \/ AskUnrated(form) \/ AskPriced(form)
      PROVE  AnswerStands'
  BY <1>2, AskedStands
<1>3. CASE Tick \/ UNCHANGED vars
  <2>1. UNCHANGED <<served, registry, options, choice, promo, cap>>
    BY <1>3 DEF Tick, vars, built
  <2>2. CASE served = None
    BY <2>1, <2>2 DEF AnswerStands
  <2>3. CASE served # None
    <3>1. Stands(served.form, served.outcome)' = Stands(served.form, served.outcome)
      BY <2>1 DEF Stands, HasBackend, BackendOf, Bounded, ModelRate, RatesRequired
    <3> QED
      BY <2>1, <2>3, <3>1 DEF AnswerStands
  <2> QED
    BY <2>2, <2>3
<1> QED
  BY <1>1, <1>2, <1>3 DEF Next

\* The handler of Gateway, by what a Form says.
LEMMA ScreenByForm ==
    ASSUME NEW opts, NEW required \in BOOLEAN, NEW offered, NEW ambiguous \in BOOLEAN,
           NEW routed \in BOOLEAN, NEW bearer \in {"none", "refused"},
           NEW bounded \in BOOLEAN, NEW rated \in BOOLEAN, NEW form,
           form.ambiguous = ambiguous, form.routed = routed, form.bearer = bearer,
           form.bounded = bounded, form.rated = rated, form.payment = None
    PROVE  Handler(opts, required)!Screen(form, offered) =
               IF ambiguous THEN "AmbiguousKey" ELSE IF ~routed THEN "Unroutable"
               ELSE IF ~bounded THEN "OutputCapRefused"
               ELSE IF required /\ ~rated THEN "UnpricedModel" ELSE "PaymentRequired"
BY DEF Handler!Screen

\* Gateway's assumptions on its switch and its price lists hold of every gateway that
\* opened, and its handler stops a request nobody has paid for where this one does
\* (Screen; completion in gateway.rs), with the same offers.
THEOREM FormsSayWhatIsConfigured == Spec => []HandlerScreensAlike
<1>1. ASSUME IInv, AnswerStands PROVE HandlerScreensAlike
  <2> SUFFICES ASSUME served # None, NEW opts, NEW required, NEW list,
                      NEW bearer \in {"none", "refused"},
                      opts = DOMAIN options, required = RatesRequired, list = served.offers
               PROVE  /\ required \in BOOLEAN
                      /\ HandlerForm(served.form, bearer) \in Handler(opts, required)!FormSet
                      /\ served.outcome = "Priced" => list \in [opts -> Nat]
                      /\ SameScreen(opts, required, list, bearer)
    BY DEF HandlerScreensAlike
  <2> DEFINE form == served.form
             b == BackendOf(form)
             routed == HasBackend(form)
             bounded == HasBackend(form) /\ Bounded(form, b)
             rated == HasBackend(form) /\ ModelRate(form, b)
  <2>1. required \in BOOLEAN
    BY DEF RatesRequired
  <2>2. form \in Forms /\ form.ambiguous \in BOOLEAN
    BY <1>1, ShopFormsAssumption DEF AnswerStands, FormSet
  <2>3. routed \in BOOLEAN /\ bounded \in BOOLEAN /\ rated \in BOOLEAN
    BY DEF HasBackend, Bounded, ModelRate
  <2>4. HandlerForm(form, bearer) \in Handler(opts, required)!FormSet
    BY <2>2, <2>3, Zenon DEF HandlerForm, Handler!FormSet
  <2>5. served.outcome = "Priced" => list \in [opts -> Nat]
    <3>1. served.offers \in Seq(Amounts)
      BY <1>1 DEF IInv, TypeOK, Answers
    <3>2. served.outcome = "Priced" => DOMAIN served.offers = opts
      BY <1>1 DEF AnswerStands
    <3>3. Amounts \subseteq Nat
      BY UnitsAssumption DEF Amounts
    <3>4. list \in Seq(Amounts)
      BY <3>1
    <3>5. list \in [DOMAIN list -> Amounts]
      BY ONLY <3>4
    <3>6. list \in [DOMAIN list -> Nat]
      BY ONLY <3>3, <3>5
    <3> QED
      BY <3>2, <3>6
  <2>6. SameScreen(opts, required, list, bearer)
    <3>1. /\ HandlerForm(form, bearer).ambiguous = form.ambiguous
          /\ HandlerForm(form, bearer).routed = routed
          /\ HandlerForm(form, bearer).bearer = bearer
          /\ HandlerForm(form, bearer).bounded = bounded
          /\ HandlerForm(form, bearer).rated = rated
          /\ HandlerForm(form, bearer).payment = None
      BY DEF HandlerForm
    <3>2. Stands(form, served.outcome)
      BY <1>1 DEF AnswerStands
    <3>3. served.outcome =
              IF form.ambiguous THEN "AmbiguousKey" ELSE IF ~routed THEN "Unroutable"
              ELSE IF ~bounded THEN "OutputCapRefused"
              ELSE IF required /\ ~rated THEN "UnpricedModel" ELSE "Priced"
      BY <2>2, <3>2 DEF Stands
    <3> DEFINE offered == Handler(opts, required)!Priced(list)
    <3>4. Handler(opts, required)!Screen(HandlerForm(form, bearer), offered) =
              IF form.ambiguous THEN "AmbiguousKey" ELSE IF ~routed THEN "Unroutable"
              ELSE IF ~bounded THEN "OutputCapRefused"
              ELSE IF required /\ ~rated THEN "UnpricedModel" ELSE "PaymentRequired"
      <4> HIDE DEF routed, bounded, rated, offered, form
      <4> QED
        BY <2>1, <2>2, <2>3, <3>1, ScreenByForm
    <3> HIDE DEF routed, bounded, rated
    <3> QED
      BY <3>3, <3>4 DEF SameScreen
  <2> QED
    BY <2>1, <2>4, <2>5, <2>6
<1>2. Init => AnswerStands
  BY DEF Init, AnswerStands
<1> QED
  BY <1>1, <1>2, AnswerStandsStep, Invariance, PTL DEF Spec
=============================================================================
