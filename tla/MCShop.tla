------------------------------- MODULE MCShop -------------------------------
(***************************************************************************)
(* Small instances of Shop: gateways that open, and what one or two        *)
(* changes to the environment or to the backends file make of them.        *)
(***************************************************************************)
EXTENDS Shop

CONSTANTS m1, m2, b1, b2, b3

MCModels == {m1, m2}
MCIds == {b1, b2, b3}

Rated(input, output) == << [model |-> m1, input |-> input, output |-> output] >>
Rated2(input, output) ==
    << [model |-> m1, input |-> input, output |-> output],
       [model |-> m2, input |-> output, output |-> input] >>

Entry(id, models, precedence, cost, rates) ==
    [id |-> id, kind |-> "openai-compat", http |-> TRUE, models |-> models,
     precedence |-> precedence, cost |-> cost, rates |-> rates, key |-> "token"]

\* Backends files: one entry, two that split or share the models, three.
Files ==
    LET one   == Entry(b1, {m1}, None, 20, None)
        local == [Entry(b2, {m2}, None, 3, None) EXCEPT !.kind = "ollama", !.key = "none"]
        rated == Entry(b1, {m1, m2}, 1, None, Rated(3, 7))
        extra == Entry(b3, {m1}, None, None, Rated(30, 0))
    IN  { <<>>, <<one>>, <<one, local>>, <<rated>>, <<rated, extra>>,
          << [one EXCEPT !.cost = None], [local EXCEPT !.cost = None] >>,
          << [one EXCEPT !.precedence = 2, !.models = {m1, m2}], local,
             Entry(b3, {m1}, 1, 9, None) >>,
          \* ranks: equal, both absent, an id used again further on
          << [one EXCEPT !.precedence = 1], Entry(b2, {m1, m2}, 1, 4, None) >>,
          << one, Entry(b2, {m1}, None, 4, None) >>,
          << one, local, Entry(b1, {m1}, 5, 4, None) >>,
          << one, [local EXCEPT !.models = {}] >> }

\* One entry with one field spoilt.
SpoiltEntries ==
    LET e == Entry(b1, {m1}, None, 20, None)
        r == Entry(b1, {m1}, None, None, Rated(3, 7))
    IN  { [e EXCEPT !.id = Blank], [e EXCEPT !.http = FALSE],
          [e EXCEPT !.models = {m1, Blank}], [e EXCEPT !.cost = 0],
          [e EXCEPT !.cost = Junk], [e EXCEPT !.kind = "anthropic-compat"],
          [e EXCEPT !.kind = "ollama"], [e EXCEPT !.key = "unreadable"],
          [e EXCEPT !.key = "binary"], [e EXCEPT !.key = "blank"],
          [e EXCEPT !.key = "unsafe"], [r EXCEPT !.rates = Junk],
          [r EXCEPT !.rates = <<>>], [r EXCEPT !.rates = Rated(0, 0)],
          [r EXCEPT !.rates = Rated(Junk, 7)], [r EXCEPT !.rates = Rated2(3, 7)],
          [r EXCEPT !.rates = Rated(3, 7) \o Rated(3, 8)],
          [r EXCEPT !.rates = << [model |-> Blank, input |-> 1, output |-> 1] >>] }

Unconfigured ==
    [backendsFile |-> None, upstreamUrl |-> None, modelRates |-> None,
     upstreamCost |-> None, accepts |-> None, singleChain |-> FALSE, price |-> None,
     pricing |-> None, margin |-> None, discount |-> None, start |-> None,
     end |-> None, cap |-> None]

OnPromotion(e) == [e EXCEPT !.discount = 3, !.start = 1, !.end = 2]

\* Environments that open: each rate on each source of backends.
SoundEnvironments ==
    { [Unconfigured EXCEPT !.upstreamUrl = "http", !.price = 5],
      [Unconfigured EXCEPT !.accepts = <<8, 0>>],
      [Unconfigured EXCEPT !.pricing = "cost-plus", !.margin = 3, !.upstreamCost = 7],
      [Unconfigured EXCEPT !.pricing = "token", !.modelRates = Rated(3, 7)],
      [Unconfigured EXCEPT !.pricing = "token", !.modelRates = Rated(90, 4), !.cap = 3],
      [Unconfigured EXCEPT !.pricing = "cost-plus", !.margin = 1,
                           !.backendsFile = << Entry(b1, {m1}, None, 20, None) >>],
      [Unconfigured EXCEPT !.pricing = "token",
                           !.backendsFile = << Entry(b1, {m1}, None, None, Rated(3, 7)) >>],
      [Unconfigured EXCEPT !.pricing = "static",
                           !.backendsFile = << Entry(b1, {m1}, None, None, None) >>] }

Bases == SoundEnvironments \cup {OnPromotion(e) : e \in SoundEnvironments}

\* One variable set, unset or spoilt.
Change(variable, values) == {[variable |-> variable, value |-> v] : v \in values}

Changes ==
    UNION { Change("upstreamUrl", {None, "http", "other"}),
            Change("modelRates", {None, Blank, Junk, NotUnicode, Rated(0, 1), Rated2(0, 0)}),
            Change("upstreamCost", {None, Junk, 0, 9}),
            Change("accepts", {None, Blank, Junk, <<8, 0>>}),
            Change("singleChain", {TRUE}),
            Change("price", {None, Junk, 4}),
            Change("pricing", {None, Junk, "static", "cost-plus", "token"}),
            Change("margin", {None, Junk, 0, 50}),
            Change("discount", {None, Junk, 0, 1, 4}),
            Change("start", {None, Junk, 0, 2}),
            Change("end", {None, Junk, 0, 1}),
            Change("cap", {None, Junk, 0, 2}) }

FileChanges ==
    Change("backendsFile", {Blank, Unreadable, Junk} \cup Files \cup {<<e>> : e \in SpoiltEntries})

Changed(e, c) == [e EXCEPT ![c.variable] = c.value]

\* Two variables changed, or one variable and the backends file.
MCEnvironments ==
    {Changed(Changed(e, c), d) : e \in SoundEnvironments, c \in Changes,
                                 d \in Changes \cup FileChanges}

\* Environments with a variable that std::env::var cannot read.
UnreadEnvironments ==
    {Changed(e, c) : e \in SoundEnvironments, c \in Change("pricing", {NotUnicode})}

Form(model, bytes, max_tokens) ==
    [ambiguous |-> FALSE, model |-> model, bytes |-> bytes, max_tokens |-> max_tokens,
     whole |-> TRUE, lifts |-> FALSE]

MCForms ==
    { Form(m1, 9, 4), Form(m1, 40, 2), Form(m2, 1, 1), Form(None, 5, 4),
      Form(m1, 9, None), Form(m1, 9, Junk), Form(m1, 9, 0), Form(m1, 9, 5),
      [Form(m1, 9, 4) EXCEPT !.lifts = TRUE], [Form(m1, 9, 4) EXCEPT !.whole = FALSE],
      [Form(m1, 9, 4) EXCEPT !.ambiguous = TRUE] }

\* Two requests are enough to see that the gateway opened.
DoorForms == {Form(m1, 9, 4), Form(None, 9, 4)}

\* Environments that open, under discounts shallow and deep.
PricedEnvironments ==
    Bases \cup {Changed(e, c) : e \in Bases, c \in Changes \cup FileChanges}

AllEnvironments == MCEnvironments \cup PricedEnvironments
=============================================================================
