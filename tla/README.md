# A TLA+ model of obolus

Obolus is an HTTP gateway that sells chat completions per request over the x402
payment protocol. A client asks for a completion, is told the price in a `402`,
signs an authorization, and asks again with the authorization in a header. The
gateway has a third party, the *facilitator*, verify the payment; forwards the
request to the *origin* (the inference backend); and, when the origin's response
head says the work has begun well, has the facilitator *settle* the payment
before it lets the answer through. Holders of an access token are served without
paying.

The difficult part is not any one function. It is that payment, work and record
are kept in step by a handler that is suspended at four awaits and can be dropped
at each of them, while other requests may present the same payment, the
facilitator may act long after its answer was given up on, and the clock that runs
is the payer's. The core of the model is about that. The second component with real
concurrency is the telemetry line sink, where handlers race a writer thread.

The rest of the program is sequential, and hard in another way: it decides, once, on
combinations nobody lists. How a price comes about, from the environment through the
doors of start-up to the quote; which networks may be advertised, and what an operator
is told who may not; what an option offers and which payments match it; which keys
honour which tokens while keys are rotated; what is read out of a body that another
program will read again. For these the models have the configuration, the input and the
moment as their nondeterminism, and where the code advises someone (an operator by a
refusal, a payer by a hint) a step that takes the advice.

Paths below are relative to the repository; `gateway.rs` and so on are in
`obolus/src/`.

## Inventory

| Component | Source | State | Operations | Modelled in |
|---|---|---|---|---|
| Toll booth | `gateway.rs` | per request: where the handler is, its `Trace`; the price list in force | `completion` → `serve` → `paid_completion` | `Gateway`, `TollBooth` |
| Facilitator client | `facilitator.rs` | none of its own; two calls with a timeout each | `verify`, `settle` | `Facilitator`, `Gateway` |
| Upstream client | `upstream.rs` | none; one call with a deadline for the head | `forward` | `Gateway` (as seen by the handler) |
| Trace and event | `telemetry.rs` | `Trace`, filled as the handler goes | `Recorder::complete`, `Recorder::drop`, `Trace::finish` | `Gateway` |
| Line sink | `telemetry.rs` | bounded queue, drop counter, `orphaned`, the writer's locals | `record`, `drain` | `LineSink`, `Books` |
| Pricing | `pricing.rs` | none (a promotion has a window) | `quote` of `StaticPrice`, `CostPlus`, `TokenPrice`, `Promotional` | `Pricing`, `Shop` |
| Backends | `backends.rs` | the registry, fixed at boot | `load_backends`, `check_registry`, `with_sole_cost`, `with_sole_rates`, `route` | `Backends`, `Shop` |
| Request shape | `request.rs` | the scan's flags, for one pass | `RequestShape::parse`, and `output_cap_refusal` over it | `RequestShape` |
| Tokens | `access.rs`, `main.rs` | the key set, fixed at boot; a rotation spans several | `with_keys`, `ordered_by`, `verify` | `Tokens` |
| Arming | `arming.rs`, `main.rs` | none; the operator's two lists across restarts | `parse_arming`, `check_arming`, `diagnose` | `Arming` |
| Configuration, boot | `config.rs`, `main.rs` | what the doors passed so far have built | `select_*`, `require_*`, `main` | `Shop`, `Arming`, `Offers`, `Tokens` (a door each) |
| x402 types | `x402.rs`, `x402/v2.rs` | none | `is_accepted_by`, `decode_payment`, `transfer_disagreement` | `Offers` |
| Development seller | `devseller/` | what it was started with | its start-up guards, `DevFacilitator::verify`, `settle` | `DevSeller` |
| EIP-3009 | `eip3009/` | none | hashing, signature recovery | `DevSeller`, with hashing and the curve taken as perfect |

**How they interact.** One handler task per request; handlers share nothing they
write except the telemetry sink. The price determiner and the registry are read
only. `verify`, `forward` and `settle` are awaited one after the other, each with a
timer, so a request has at most one call in flight; but calls of *different*
requests interleave freely, and a settle call whose timer has run out is still in
flight at the facilitator. When a client hangs up, hyper drops the handler's
future; the drop of its `Recorder` derives the event and offers it to the sink.
The sink's `record` never waits: it offers to a bounded channel and counts what
the channel refuses. One thread drains the channel.

**What makes each part correct.**

* *Toll booth*: a payment buys one answer; nobody is served paid work without a
  transfer of their own; nobody is charged for work no origin committed to, or at
  a price they did not sign; settlement starts while the payment's window lasts;
  every request is recorded, once, and what the record says of cost and revenue
  stays true; a refusal blames the party at fault.
* *Facilitator client*: only an answer that evaluated the payment counts as a
  verdict; anything else is neither an acceptance nor the payer's fault.
* *Line sink*: no event is reordered or evicted; every lost event is counted once
  and told of; the writer ends only when nothing is left.
* *Pricing*: a quote is what the operator's figures come to; it never wraps, nothing
  payable becomes free, and a client who resends a body is quoted the same unless a
  promotion's bound passed.
* *Backends*: an accepted registry sends each model one way, in whatever order its
  entries are written.
* *Configuration, boot*: a gateway that opens runs on everything its operator set, and
  its switches agree with what its backends declare.
* *Request shape*: the gateway never reads a request more loosely than the origin does,
  and one malformed field never hides another.
* *Tokens*: what is honoured is what the banner announces; a rotation refuses no live
  token and leaves no dead key; a refusal says nothing about which keys there are.
* *Arming*: what is advertised is a testnet or was armed by name; a refusal is right about
  what it blames, and an operator who does what it says ends with a gateway that runs.
* *x402 types*: each option that was let in can be paid by a client that takes it as
  given; what goes on to the facilitator is what was offered; a hint is true.
* *Development seller*: what it accepts would fail on the chain only for what it cannot
  see there, and an honest payment is accepted; it serves a real origin without looking at
  payments only where that was acknowledged, and advertises testnets alone.

The hazards of each, line by line, are listed in `PROJECT.json` with the properties
that cover them, or the reason why none does.

## Modules

* **`Facilitator`** — pure operators. An answer is a class of HTTP status and what
  its body says; `VerifyVerdict` and `SettleVerdict` are the two functions that read
  it. They are kept out of `Gateway` because they are the trust boundary.
* **`Gateway`** — the toll booth. Between two awaits the handler is one step:
  `Arrive` is everything up to the first await (the checks in the order the code
  makes them, `Screen`); `VerifyAnswered`/`VerifyTimesOut` run from `verify` to the
  call of `forward`; `HeadArrives`, `UpstreamFails`, `HeadTimesOut`, `WindowElapses`
  from `forward` to the call of `settle`; `SettleAnswered`/`SettleTimesOut` to the
  end; `TokenHeadArrives` is the token path; `Disconnect` drops the handler at any
  await. `Finish` is the end of every one of them: the event is derived from the
  trace (`Trace::finish`) and the client is answered. The environment is a set of
  settle calls whose fate is open (`flying`), each of which may `Land` or `Fall` at
  any time, before or after the gateway has its answer; `Reprice`, a promotion that
  starts or ends; and `Tick`.
* **`TollBooth`** — the abstract booth: ask for a transfer at most once and before
  any reply; serve paid work only on a transfer of one's own; refuse only when no
  transfer happened or still can; give up at any time, saying neither. `Gateway`
  implements it under `Booth` (`asked` are the requests whose trace says
  `settle_attempted`, `owed` is `flying`, `charged` is `ledger`, `reply` reads the
  event). It is what fails if `settlement_pending`, a broadcast that is not
  confirmed, is taken for a refusal.
* **`LineSink`** — `record` is two steps, because `try_send` and `fetch_add` are two
  atomic operations with nothing around them; `drain` is four (`Receive`, `Swap`,
  `Report`, `Write`/`Loop`). Writes may fail and the writer thread may die. The
  history variables `accepted`, `refused`, `reported` and `missed` are the ledger the
  code does not keep; no action's guard reads them.
* **`Pricing`** — the determiners as operators over `0 .. MaxAmount`, with the saturating
  and the checked arithmetic at their places.
* **`Backends`** — what an entry of the backends file must satisfy (`EntryDefect`, the
  chain of `build_backend`), the rules that only several entries can break
  (`RegistryDefect`), and `Route`.
* **`Shop`** — composes the two into the process: one action for each door of `main`
  that decides what is sold and at what price (`LoadBackends`/`SingleBackend`,
  `ManyOptions`/`SingleOption`, `SelectPricing`, `SelectPromo`, `SelectCap`,
  `SealRegistry`), in `main`'s order, each either building its part or stopping the
  process on its first failing check; then requests, one action for each way that the
  request path to the quote ends (`Ask...`); and `Tick`, the clock, between any two.
* **`Arming`** — the guard and the operator around it. `Start` is one start of the process
  (`parse_arming`, then `check_arming`, with `diagnose` over what is refused); `EditOptions`
  and `EditValue` are an operator who changes either list; `Arm`, `Repair` and `Tidy` do
  what the refusal at hand prescribes. An id is a name and a spelling, because the code
  compares bytes and diagnoses spellings.
* **`Offers`** — `Boot` is the configuration's way to the gateway (`parse_accepts`,
  `validated_option`, `Gateway::new`); then `Ask`, `Pay`, `Decide` between a client and the
  gateway, with `Reprice` between any two. `Judge` is `paid_completion` before `verify`:
  the envelope, `accepted_for`, the transfer method and flow, `extensions`, and the hint
  of a refusal. The client is honest, or sends any edit of an offer.
* **`Tokens`** — `Restart` is main's part (`SettingError`, `KeySetError` in its order, the
  key set it leaves); `Present` a token to what runs. `ArmNew`, `SwitchIssuer`, `DropOld`
  are the rotation the documentation prescribes, with an issuer that goes on issuing
  (`Issue`) and tokens that expire (`Tick`).
* **`RequestShape`** — `RequestShape::parse` key by key: one action for each arm of the
  visitor, each of which may fail half-way and leaves behind what it had noted;
  `Conclude` is the rest of `parse` with its second looks, `Admit` the refusals. Beside it,
  what two readers upstream make of the same bytes (`ReadBy`).
* **`DevSeller`** — `Start` behind its guards, `Request` with any payment one part away from
  an honest one, `Verify`, `Forward`, `Settle` with each outcome it can be told to
  produce. For comparison, the token contract's own rule (`PaysThePrice`), for any
  contract there may be at the asset (`Contracts`): its name and version, its spent nonces
  and the payer's balance are not the seller's to know.
* **`Books`** — composes `Gateway` and `LineSink`: a handler that has ended hands its event
  to the sink (`Record`) in a step of its own, so other handlers, the chain and the writer
  come between; the gateway, and its sink with it, goes when no handler holds it (`Close`).
* **`MCGateway`**, **`MCBooks`**, **`MCShop`**, **`MCArming`**, **`MCOffers`**, **`MCTokens`**,
  **`MCRequestShape`**, **`MCDevSeller`** — small instances for TLC.
* **`GatewayProofs`**, **`LineSinkProofs`**, **`ShopProofs`**, **`ArmingProofs`**,
  **`OffersProofs`**, **`TokensProofs`**, **`RequestShapeProofs`**, **`DevSellerProofs`** —
  the theorems.

`Gateway` and `Shop` meet in the 402: `Shop` says what amounts stand in its offers,
`Gateway` what becomes of a payment for one of them. `Gateway` keeps of the pricing only
that the list may change between two requests (`Reprice`); that for one body it changes
at a promotion's bounds and nowhere else is `SameBodySamePrice` of `Shop`. The facts a
`Form` of `Gateway` states come from the others: `payment` and `agrees` from `Judge` of
`Offers`, `bearer` from `Verify` of `Tokens`, `ambiguous` and `bounded` from `Admit` of
`RequestShape`, `routed`, `bounded` and `rated` from the checks of `Shop`. That each of them
and `Gateway` decide alike on what they share is proved (see *Between the modules*, under
*Proofs*). The development seller is the same gateway with another facilitator;
`DevSeller` keeps of it only the order verify, forward, settle and the replies.

### What is abstracted, and from what

* In `Gateway`, a request is a `Form`: the answers to the questions `serve` and `paid_completion`
  ask of it. How those answers come about (the scan of the body, the registry, the
  JWT) is the subject of the modules named above.
* An offer is an option and an amount. `is_accepted_by` compares more fields
  (asset, payee, window), all of which are fixed for an option; a payment signed for
  another asset is one that matches no offer, and `form.agrees` stands for the
  checks on `extra` and `extensions` that come right after it. `Offers` has all of them.
* A declared cost is `declared` or `zero`; a revenue is known or not, and its amount.
* Two things about the outside are assumed. An authorization's nonce can be used
  once (EIP-3009), so two settle calls for one payment cannot both land. And a
  facilitator's *authoritative* answer (2xx or 4xx) to `settle` is truthful: a success
  means that this call landed, a refusal that it did not and will not
  (`Truthful`). Answers with any other status, or without a verdict, may say
  anything.
* In `Backends` and `Shop`, text is kept as far as the code tells it apart: absent
  (`None`), empty or spaces (`Blank`), a value that does not parse (`Junk`), one that
  `std::env::var` cannot decode (`NotUnicode`), or the value it denotes. A number too wide
  for its type is `Junk`. A backends file that is valid JSON but has an unknown or a
  missing field is `Junk` too.
* A payment option is its amount: the other fields of `OBOLUS_ACCEPTS` and of the
  single-chain variables do not reach the price, except that the two forms exclude each
  other (`singleChain`). Its door's other refusals are in `Offers`, arming in `Arming`, the
  access configuration in `Tokens`; the listing and the telemetry door are left out. Each
  of them can only stop the process, so what is said of a gateway that opens stays true.
* `10000` basis points are `Whole`, a million tokens `PerRate`, and `u128::MAX`
  `MaxAmount`: constants, so that one small instance meets every rounding and overflow.
* In `Arming`, a spelling is exact, in another ASCII case, with a space, or with a lookalike
  letter: the classes `diagnose` tells apart. The order of the ids in a message is left out.
* In `Offers`, an extra is a function on the keys the code names and one it does not
  (`note`), with values that are text, blank text, or no text; nested objects compare as
  one value. How a header is encoded is one of four outcomes, in the order decoding stops.
* In `Tokens`, a key file is a key in one of its encodings; what `jsonwebtoken` checks of a
  token, and in which order, is external (`DecodeWith`), from its use in `access.rs`. Any
  claim may be absent, null or of another type; an `nbf` that is no number is passed over,
  for `access.rs` neither requires it nor parses it. What a file holds does not change: a
  file that is rewritten between two starts is a configuration of its own.
* In `RequestShape`, a key is the field it folds to and whether it is that field exactly. A
  value is what its readers tell apart: a number, null, of the wrong type, `Broken` (a skip
  gets over it, a decode does not), or `Cut` (the JSON ends there for every reader). The
  two upstream readers are the two ways the code's comments name: exact keys, and keys
  folded as Go's `encoding/json` does; what they do with the bytes is external.
* In `DevSeller`, a signature names what it is over; over anything else it recovers to a
  stranger. Amounts and times are wider on the wire than the integers they are read into.
  Of the two conventions for `v`, 0 and 1 are accepted here and are no signature to the
  contract. A payer is a key: contract wallets (EIP-1271) are left out.
* The route lists, `/health`, the streamed body after its head, and everything about
  wording, headers and JSON are not modelled (see *Not modelled*).

### Clocks

The handler has three timers: the facilitator's timeout on each of its calls, the
upstream's deadline for the head, and the payment's window less `SETTLE_RESERVE_SECS`,
counted from arrival over verify and the head together. `age` and `wait` count in
abstract units while the handler waits. `Tick` is disabled while a timer is due: the
runtime polls a task whose timer has fired before the clock moves by another unit. A
task that is starved for longer is outside the model (`tokio::time::timeout` polls the
call before its own deadline, so a starved task may take a head that came too late).
The order of the two timers that can fire in the same instant is the code's: the head
deadline is inside the window's, so it wins (`WindowElapses`).

## Runs

| Run | Question | Result |
|---|---|---|
| `gateway` | Are charges in time, agreed to and earned, the books true, every request recorded, and the abstract booth implemented, in every interleaving of two requests? | passes, 190,318 states |
| `line_sink` | Are drops counted once and told of, the order kept, nothing left behind, with failing writes and a dying writer? | passes, 64,913 states |
| `books` | What can be told of the money from the lines alone, with events dropped, writes that fail and a writer that dies? | passes, 534,538 states |
| `shop` | Does a gateway that opens run on all that was set, route each model one way, declare exactly what its rate reads, and quote exact and stable prices? | passes, 130,329 states |
| `arming` | Is what runs armed by name, is a refusal right, and does following refusals end in a gateway that runs? | passes, 121,918 states |
| `offers` | Is what is paid what was offered, and can what is offered be paid, across a change of price? | passes, 281,140 states |
| `tokens` | Is what is honoured what is announced, and does a rotation neither lose a live token nor keep a dead key? | passes, 91,755 states |
| `request_shape` | Does what was paid for bound what any reader upstream finds in the same bytes? | passes, 2,020,352 states |
| `devseller` | Does what the offline judge accepts fail on the chain only for what it cannot see, and does every configured failure end in an answer? | passes, 180,638 states |
| `failed_settlement` | Does a failed settlement charge nothing? | **no** |
| `line_sink_order` | Does the count of the dropped precede the next event? | **no** |
| `shop_unread` | Is every value of `OBOLUS_PRICING` either in effect or refused? | **no** |

Properties that answer one question are conjuncts of one named formula, so that a run
names each question once: `ChargesAreRightful` is `ChargesOnlyCommittedWork` and
`ChargesWhatWasAccepted`; `ServedIsPaidFor` is `PaidAnswersArePaidFor` and
`OnePaymentOneAnswer`; `BooksAreTrue` is `RevenueIsHonest` and `CostCoversTheWork`;
`StreamIsHonest` is `TotalsAreLowerBounds` and `BooksClose`; `PricesAreExact` is
`QuotesAreExact`, `PromotionIsExact` and `OnlyOverflowIsUnpayable`; and so in the later
modules, at the end of each.

Of the properties, `BooksAreTrue` and `ImplementsTollBooth` carry the most: they
relate what was recorded and replied to transfers that may still happen later.
`RevenueIsHonest` is stated over `flying` as well as `ledger` for that reason: a
recorded `0` must stay true when the last call has landed. `BooksClose` is about both
modules at once: it bounds what an operator must look up on chain by the null revenues and
the dropped events that the stream itself tells of, which neither an honest event nor a
faithful sink gives alone. In `Shop` it is
`NothingIsInert`: it compares the environment with what an open gateway holds, so a
variable that some door forgot to refuse, in some combination with the others, shows up
without anyone having listed the combination. `QuotesAreExact` compares with the exact
product, not with the determiners' own formulas. In `Arming`, `GuidanceIsTrue` follows
the advice: a remedy is an action, and what it leads to is what the advice is judged by
(`OneRestart`, `RepairsHold`, `OperatorConverges`). In `Offers` and `DevSeller`, half of
the question is the other way round, that the honest get through (`EveryOfferIsPayable`,
`HintsAreTrue`, `HonestIsAccepted`), which a gateway that refuses everything would fail.
In `Tokens`, `AnswerIgnoresTheHint` compares the reply to a token with the replies it
would get under every other kid and with the keys the other way round. In `RequestShape`,
`PaidWorkIsBounded` compares with readers that are not the gateway's own.

The three violations are disagreements between what the repository says and what its
code does, each quoted in `PROJECT.json`:

1. `docs/architecture.md` says a failed settlement "serves nothing and charges
   nothing". It serves nothing. It may charge: the gateway stops waiting, answers
   `502`, and the transfer lands. (`docs/telemetry.md` has it right.)
2. `telemetry.rs` says the count of dropped events comes before the next event. The
   drop is counted in a separate step, so the next event can be written first. The
   count itself is not lost: that is `EveryDropIsAccountedFor`.
3. `README.md` says any value of `OBOLUS_PRICING` but the three is "a startup error, never
   a silent fallback". `main` reads the variable with `std::env::var(..).ok()`, so a value
   that is not Unicode is no value, and the gateway opens at the static rate.
   (`OBOLUS_ALLOW_MAINNET` and `OBOLUS_MODEL_RATES` are read with care for this.)
   `NothingIsInert` speaks of the variables the process could read.

Four more were met while modelling and have no run of their own. `arming.rs` says a
refusal's list is "the exact value that would start this configuration". For a network
called `1`, or with a comma in its name, which the configuration lets through, that value
is refused as well, for `parse_arming` reads the one as the retired boolean form and splits
the other. Such a network can not be advertised at all, so nothing unsafe follows; the model
of the arming guard has no ids with commas, and advertises none called `1`.
`telemetry.rs` says of `SettleRejected` that nothing was charged; a payment already settled
for another request, or for an earlier attempt that ended in a `502`, was
(`facilitator.rs` notes the gap). And `pricing.rs` says a cost and margin that overflow quote "near the maximum, which no client
can pay"; the product saturates *before* it is divided by 10000, so the markup is a
ten-thousandth of the maximum. The promise that matters there, never below cost, is
checked (`QuotesAreExact`). Last, `README.md` says of a token that its `nbf` is honoured; one that
is no number is not looked at, and the token is. `HonouredAsAnnounced` says so of numbers
only, and the run has tokens with an `nbf` of both kinds.

### Bounds, and why they are enough

* *Gateway, two requests*: the properties relate at most two requests (two that present one
  payment) and handlers share nothing but the payments, the price list and the
  facilitator. The run checks liveness too, so it uses no symmetry.
* *Gateway, two options, two payments*, *two price lists* of which one makes a payment's
  amount wrong: enough for a payment to match the wrong option's window, the wrong amount,
  or nothing.
* *Gateway, times*: windows 2 and 4 with `Reserve` 1, so budgets of 1 and 3; `HeadTimeout` 2
  lies between, so that on one option the budget cuts the wait for the head and on the
  other the head's own deadline does. `FacilitatorTimeout` 2 is the whole of the shorter
  window: a verify that is slow but answers can use up its budget, and more.
* *Gateway, forms*: one for each way to be refused, each with a good payment where it can
  have one, so that a check left out would lead to a charge.
* *Line sink*: four events over a queue of two. It fills, two are refused, and offering and
  counting are two steps, so both refusals can be uncounted while the writer swaps, or one
  be counted before and one after; draining lets it fill again. The state space is finite
  without further bounds, since each event is offered once. Deadlock is not checked for the
  sink: it stops once it is closed and drained.
* *Books*: two requests over a queue of one, so that one event is dropped while another is
  queued or in hand; two options and a payment for each, so that both may be charged,
  different amounts; one answer of the facilitator for each verdict (`Heard`), since what
  the others read as is settled in `gateway`. Deadlock is not checked, as in the sink.
* *Shop, environments*: eight that open, covering each rate on each source of backends
  (file, environment) and of amounts. Each is subject to every two changes out of 47
  settings of the variables and 32 backends files, because the refusals are about pairs; and
  to at most one change under a promotion.
* *Shop, registries*: up to three backends over two models, with ranks equal, both absent,
  one absent, and apart. A tie, a sibling of a catch-all, and an id used again further on
  are each a matter of two entries; a third tells a neighbour from any earlier entry.
* *Shop, numbers*: `MaxAmount` 200, `Whole` 4, `PerRate` 10, `BytesPerToken` 4. The amounts
  used make each determiner divide with and without a remainder, and overflow: a cost of 20
  at a margin of 50, forty bytes at a rate of 90. A discount of 3 in 4 floors small quotes
  to nothing.
* *Shop, clock*: instants 0, 1, 2 with the window `[1, 2)`, so that a request falls before,
  inside and after it, and a window may end between two doors. A quote reads the clock for
  each option, and it may move on between two of them as far as the last instant
  (`Readings`); two options are enough to have one on either side of a bound. Deadlock is not checked in
  `shop` or `arming`, `devseller`, `tokens`, `offers`, `request_shape`: a refused process has
  exited, a reply ends an exchange, and the clock is bounded by `MaxTime`.
* *Arming*: a testnet, a mainnet, a short name and the placeholder, each in the spellings
  that are diagnosed differently; every list of two options and every value of two entries:
  the diagnoses and the blame are about each id and about pairs of lists. Two unprompted
  edits, so that a value is written for one advertisement and met by another; the remedies
  are not bounded.
* *Offers*: one network of each namespace, two assets, receivers and prices, every entry one
  change from a good one, two at a time (a duplicate, or a neighbour to be matched by
  mistake); thirteen extras. An honest client pays any of them and comes back after a
  refusal as often as it takes; edited payments are sent once, as the gateway keeps nothing
  of a payment it refuses, against the seven entries whose offers differ to an edit
  (`Tampered`). One change of price lies between any two steps; a second one would undo it.
  The window is 11 with a reserve of 10, the least that `Gateway::new` lets through.
* *Tokens*: two keys, one of them in two encodings, so that one key can be armed twice; two
  kids and none, so that a kid may fit the right key, the wrong one, or no key. Outside a
  rotation, every token one claim from a good one. `Life` 2 with `Leeway` 1 in five instants
  lets a token of the old key be issued before, live through, and die before the drop;
  two issued tokens are one of each key.
* *Request shape*: bodies of three fields out of 26. A property of a key relates it to one
  before it (a duplicate) and one after it (a value that breaks); the third is the model or
  the limit that is to be found in spite of both. `Cap` 2 has a limit below, at and above.
* *Development seller*: integers of two bits, with an amount on the wire that would be cut
  to the right one; two requests, so that what the first leaves behind meets the second;
  every setting with every other that a guard reads together with it.

### Fairness

`Gateway` assumes only that the clock runs and that the runtime serves a timer that is
due: `WF(Tick)` and `WF(Expire(r))`. Nothing is assumed of the facilitator, the origin
or the client, which may all stay silent for ever; this is what makes
`EveryRequestIsRecorded` a statement about the code's timers. `LineSink` assumes that a
started writer thread, and a `record` between its two atomic steps, go on. Nobody need
ever offer an event or close the sink. `Books` assumes both, and that a handler which has
ended goes on to drop its recorder. `Arming` and `Offers` assume a party that keeps at
it, an operator who restarts and follows a refusal and a client that wants its answer,
because their liveness is about what such a party meets; edits and price changes are not
fair and may never come. `Tokens` assumes that time passes, that a restart ends, and that
an operator who began a rotation goes on; nobody need present or be issued a token.
`DevSeller` assumes that the handler runs and time passes. `Shop` and `RequestShape` are
about safety alone and assume nothing.

## Proofs

TLAPS proves the following for every value of the constants: every set of requests,
payments, options, price lists and forms, every timeout, every queue and set of events,
every environment, backends file and word width, every advertisement, extra, body and
payment.

*Gateway* (`GatewayProofs`). `TypeCorrect`, `SettlementIsInTime`, `AnswersAreBounded`,
`OnlyCommittedWorkIsCharged` and `TheAcceptedOfferIsCharged`, which together are
`ChargesAreEarnedAndAgreed`. None of these is inductive by
itself. `SettlesInsideWindow` speaks of settling only; that the settle call begins
inside the budget follows from the bound on the head's wait (`Clocks`), whose budget is
that of the *matched* option, so it needs that the trace's offer does not change and is
the accepted one (`Matched`). `ChargesOnlyCommittedWork` speaks of calls that outlive
their request, so it needs that a request with a call out has marked its trace and that
no later step touches that trace (`Honest`, `Tracked`). The invariant is

    IInv == TypeOK /\ \A r : (Matched(r) /\ Clocks(r) /\ Tracked(r)) /\ Honest

and the proof has one lemma per action, each of which says what the action does to its
own request; `LocalStep` then lifts that to the whole invariant, because a step of one
request leaves the others alone. The assumptions used are those the module states about
its constants: windows longer than the reserve (which `Gateway::new` enforces), and
`None` and `Malformed` being none of the values they stand beside.

*Gateway, what it leaves* (`GatewayProofs`, its second half). `PaidAndServedAgree`, `BooksStayTrue`,
`RefusalsAreFair`, `OneRecordOneSettlement`, and `GatewayIsABooth`: the gateway implements
`TollBooth`. These speak of a request that has ended and of transfers that may still land,
so `IInv`, which is about a handler at work, does not give them. On top of it stands

    Money == (\A r : Recorded(r)) /\ OwnCalls /\ SpentOnce

`Recorded(r)` says that the event and the response are those of one outcome, and that the
outcome is one the request is `Entitled` to: "Settled" if its own transfer is in the
ledger, "SettleRejected" only if it has no call out or landed, and, for every outcome that
is not about a settlement, that none was asked for. It is stated over `flying` as well as
`ledger`, so a late transfer disturbs none of it. `OwnCalls` says that a call is the one its
request made, `SpentOnce` that an authorization moves funds once. The proof first shows
that every action of a handler is one of two steps, whatever it decides (`HandleShape`):
it `Suspends`, asking for its one transfer when that is what it waits for, or it
`Finishes`, asking for nothing, with an outcome it is entitled to. The invariant, the action
property and the refinement are then shown for the two steps and for the facilitator's,
not for each action. In the refinement, the suspension that settles is the booth's `Ask`
and any other a stutter (`SuspendsIsAskOrNothing`), an end is the reply its outcome stands
for (`FinishesIsReply`), and what lands or falls is `Charge` or `Waive` (`WorldIsBooth`).
One assumption is added to the module for it: that `None` is no answer, event or response.

*Line sink* (`LineSinkProofs`). `TypeCorrect`; `DropsAreAccountedFor`, by the invariant
`Accounting`, which adds that an event is refused only by its own `record`
(`RefusedByItself`, so refusing it again cannot be counted twice) and that the writer
holds no count outside the two steps that have one (`CountInHand`); and
`DrainLeavesNothing`, which further needs that after `recv_timeout` has reported the end
of the channel no handler is left that could count (`EndOfChannel`). And `StreamOrder`: as
long as no write fails, the events in the stream, the one in the writer's hand and those in
the queue are, in this order, those the queue took. It is inductive together with
`EmptyHanded`, that a writer which waits holds no event. The events of the stream are a
recursive function on the number of lines (`EventsUpTo`); that such a function exists, and
what one more line adds to it (`EventsOfAppend`), is proved by taking the least number of
lines for which it fails.

For the composition there is also `NoneAstray`: an event that was recorded and not refused is
in the queue, in the writer's hand or in the stream, and what is there was; a count that was
lost with its line means that a write has failed. `SinkInv` is all of these together.

*Books* (`GatewayProofs`, its last parts). `EachPartIsItself`: every step of the composition is
one of `Gateway` or a stutter, and one of `LineSink` or a stutter, so that the invariants of
both carry over; those of the sink are taken from `LineSinkProofs` by instantiating it with
the requests as its events, and what it assumes is discharged from `SinkAssumption`
(`SinkAssumed`). `BooksAreHonest`, that is `StreamIsHonest`, is by

    BInv == Inv /\ SinkInv /\ Joined

`Joined` is what holds between the parts: only a request that ended is recorded, and once the
sink is closed every request that arrived has been; without it a handler could end after the
writer has returned and be in neither line nor count. A line is then of an ended request
(`ListedIsRecorded`), whose known revenue is zero or that of a transfer no other request
made (`LedgerAgrees`, from `RevenueIsHonest` and `OwnCalls`). The totals are sums over finite
sets, defined by a recursive function that takes one member after the other (`SumUpTo`): that
it exists, that it does not matter which member goes first (`AnyFirst`), and that a sum is at
most another if its amounts, but for zeros, are each set against one of the other's
(`SumsCompare`) are proved by induction on the number of members. At rest, ended requests
are the listed and the refused, and a transfer that no line tells is one of a line with null
revenue or of a refused event, one for each, which bounds how many there are.
`SinkAssumption` says of the constants that the requests are finitely many, that the queue
holds at least one, and that no request is `None` or a marker of the channel.

*Shop* (`ShopProofs`). `ShopTypeCorrect`, `RoutingIsUnambiguous`, `CoverageIsExact`,
`FileIsASet`, `NothingPayableIsFree`; and `PromotionOnlyDiscounts`, a fact of the arithmetic
alone: a discounted quote is never above its base, nor zero where the base is not. The
invariant is

    IInv == TypeOK /\ RegistrySound /\ CoverageAgrees /\ ServedOpen /\ PayableIsNeverFree

`RegistrySound` is what the backends door leaves behind and the later doors keep: the
registry is `Ordered` (no two backends with one id, nor both able to serve a model at one
rank) and a backend rates only models it serves. `ServedOpen` says that what was served was served by
a gateway that is open, so that the parts it was priced from no longer change. Each door
has two lemmas: what passing it means (`FileRules`, `PricingRules`, `CoverageRules` and so
on: with no defect named, none of its checks failed, by `NoneFails`), and that it keeps
the invariant. That a request is routed to a backend that serves it needs one that no other
outranks; `SomeRankIsForemost` finds it by taking, were there none, a least bound on the
positions of a counterexample and dropping its last. For `FileIsASet`, the rules of
`check_registry` come to `Ordered` and `Ordered` to them (`OrderedIsSound`); a permutation
of a finite list keeps it and loses no entry (`NothingIsLost`, the pigeonhole principle), and
the position that is foremost in the one list holds the entry that is in the other
(`MovedRoutesAlike`). The theorems assume what `Backends`,
`Pricing` and `Shop` state of their constants: that the markers for absent, blank and
unparsed text differ from the values beside them (rates and the names of rates among them),
that the units are positive, that
the environments and forms are of their types, and that a body in which a limit was read
is not empty.

Then the prices themselves: `QuotedToTheUnit` and `QuotesRepeat`. The invariant is `Quoted`:
a request that was quoted passed the checks that lead there and got, for each option, the
quote of the moment at which that option was read. It is not enough that the request was priced so when it was, because
the properties recompute from the parts as they are now; `IInv` has that these no longer
change. `BaseIsExact` compares the quote outside a
promotion with exact arithmetic, on what `QuotientFloors`, `CeilDivCeils` and
`CostPlusIsExact` say of the code's divisions; that no input of it was missing is
`CoverageAgrees` again.

Last, `EverythingSetIsInEffect`: `NothingIsInert` for every environment. Its invariant `EInv`
says for each door what the doors passed so far make true of the environment: a file stands
alone and is the registry (`BackendsTold`), the amounts have one source (`OptionsTold`), the
rate is the one named and reads every parameter that is set (`RateTold`), there is no
promotion before its door and the whole of it after (`PromotionTold`), the cap and the sealed
cost are the ones set (`CapTold`, `CostTold`). No door alone gives the theorem: that a cost
beside a backends file can not be lost at the sealing needs what the first door refused, and
that rates in the environment are read needs that a sound value rates something
(`SomethingIsRated`) and the coverage of the last door.

*Arming* (`ArmingProofs`). `GuidanceHolds`: the whole of `GuidanceIsTrue`, the remedies
included; with `RunningIsArmedByName`, `PostureIsTold`, `BlameIsEarned` and `RepairsAreWhole`
as parts that need less. The invariant is

    IInv == /\ TypeOK /\ OutcomeIsCurrent
            /\ ArmedByName /\ PostureIsTrue /\ NothingUnread
            /\ ArmedAsTold /\ RepairsHold

`OutcomeIsCurrent` says that the outcome at hand is the one a start with the present lists
would have; blame and posture follow from it, by what the chain of checks comes to: that a
start which is accepted names exactly what is not provably a testnet (`AcceptedIsExact`),
although no single check says so. `ArmedAsTold` keeps for a remedy that was followed that the
value lists the unproven networks, each once and nothing else, which `check_arming` then
accepts (`ExactIsAccepted`); that the list which `SetTo` writes is one (`ListingNamesOnce`)
uses of the fold only that it is a sequence of those elements. `GuidanceHolds` assumes that
no network is called `1`: `parse_arming` takes that value for the retired boolean form, and
the prescription to set it does not start (see *Runs*, the disagreements without one). The
other four theorems do not need the assumption.

*Offers* (`OffersProofs`). `PaymentsAreOffers` and `OffersCanBePaid`, the two directions.
The invariant keeps what the doors leave of a configuration: options that carry no
transfer method or flow but their own, no two alike (`Sound`, `Distinct`; neither is
disturbed by a price, `PricedIsSound`); what the edits leave of a payment (`IsPayment`);
and what a reply says of the payment it is for (`PaidAsOffered`, `HintInv`). That a client
which fills in its own fields, or spells out what the option resolves to, still matches is
`HonestExtrasAgree`; that the repriced option matches exactly when the repriced payment
would is `AmountApart`.

*Tokens* (`TokensProofs`). `VerifyAnswers` is about `verify` alone: trying the keys one after
the other, the hinted one first, and reporting the first failure that has a cause comes to an
answer in which neither the order nor the hint occurs. `TrueVerdicts` and `WholeStart` rest on
it and on an invariant for the present only: what runs, and what it replied, are what the
present environment and that function give. `CleanRotation` is about time. Its invariant has
one part per step of the rotation: which of the two keys is armed (`EnvInStep`,
`PathInStep`), and when the tokens that are alive were issued, and by which key
(`TokensInStep`): while the issuer has not switched none is of the new key, and once the old
one may be dropped every token of it is past its expiry and the leeway.

*Request shape* (`RequestShapeProofs`). `PaidWorkBounded`, for bodies of any length. The
invariant says of the pass that what it holds for a field is the last exact occurrence of
it so far and that no variant it passed is forgotten (`Found`), while it goes on and when
it ends; and of the shape that a paid request let through was read to its end. Then the
last occurrence is what both readers upstream find, the folding one because no variant is
there to be preferred. `ReadAsWritten` is about what the gateway makes of the model. The
invariant (`MInv`) says what the pass has of it while it goes on (`ModelSoFar`), that what it
leaves at its end is what a look at the key alone would find (`ModelAlone`), wherever the pass broke off, and that a limit that was
passed is not forgotten (`LimitIsKept`), so that no malformed field hides another.

*Development seller* (`DevSellerProofs`). `OfflineDiffersAsSaid`. The invariant adds that a
seller that starts as a verifier has options with a domain, a receiver and an amount in
range (`SoundOptions`, from the guards), and that the verdict stands while its payment is
at hand (`VerdictStands`). The rest compares the judge with every contract: a payment it
accepts was signed by its payer under the advertised domain (`AcceptedIsSigned`), so one
with the same name and version recovers that payer and any other a stranger
(`AcceptedOnChain`); and one that would be paid out passes each of the judge's checks
(`PayableIsAccepted`), unless it expires beyond a `u64`. It assumes of the constants that the
markers for values that do not parse are no addresses, numbers or authorizations. `StartIsSafe` is about its start-up guards:
a seller that serves a real origin without checking payments was acknowledged to do so by the
exact value, and what is advertised is a testnet, payable to an address that is one and is not
the placeholder.

*Between the modules* (`FormsSayWhatIsJudged`, `FormsSayWhatIsConfigured`,
`FormsSayWhatIsRead`, `FormsSayWhatIsVerified`). `Gateway` takes the answers of four other
modules as facts of a request, its `Form`; its order of checks must be theirs, and what it
assumes of its constants must be true of what they configure. Each of the four modules
therefore instantiates `Gateway`, with parameters for what it does not itself know, and shows
of its own reachable states that the checks (`Screen`) applied to the form come to its own
answer.
`FormsSayWhatIsJudged` (`OffersProofs`) discharges the assumptions on offers, price lists and
payments. A payment of `Gateway` is signed for one offer, where the code compares fields:
a payment names one of the networks on offer or none (`SignedFor`, `Names`), so it matches
at most one option (`MatchIsNamed`, `MatchIsAlone`), and what the handler would charge is
that option at its amount (`SameOffer`).
`FormsSayWhatIsConfigured` (`ShopProofs`) is about what was served: that the configuration
still gives it (`AnswerStands`), because what a gateway that is open runs on does not change,
and that the checks of `Gateway` on that backend, bound and rate come to it.
`FormsSayWhatIsRead` (`RequestShapeProofs`) is about the refusals of a body, whatever else
is true of the request, by `ReplyStands`.
`FormsSayWhatIsVerified` (`TokensProofs`) follows from `CleanRotation` and `VerifyAnswers`: who
is served unpaid holds a token of an armed key and the announced issuer, and no holder of a
live token of the issuer is asked to pay at any step of a rotation.
No run checks these four: they quantify over every price list, offer and payment that
`Gateway` could be given, which TLC cannot enumerate.

*Only model-checked*: the liveness properties (`EveryRequestIsRecorded`,
`EveryDropIsReported`, `EveryRequestIsTold`, `OperatorConverges`, `EveryRequestIsAnswered`,
`PayersGetThrough` and `RotationCompletes`), which are out
of the prover's reach, as is that the fairness of `Books` is that of its parts. Where a definition
is recursive, the facts proved of it are those an induction on numbers gives, with the property
as a set or by a least counterexample; nothing is claimed of what it computes beyond.

## Not modelled

* *Bytes*: base64, JSON and header syntax, Unicode, hashing and the curve. They are steps
  that may refuse, at the place where the code decodes; what they compute is tested in
  the crates themselves, and nothing about them depends on order or combination.
* *The stream after the head*: the gateway copies it and keeps nothing of it, so there is
  no state to model; that a payer may have paid for a stream that breaks is by design.
* *`/health`, `/healthz`, the route lists, the listening socket, the telemetry door*: each is a
  single answer or a single check that reads nothing another part writes.
* *hyper's connection pool and its retries*, a runtime that is starved of time, a process
  that exits with events queued: outside the program; see the hazards without a property.
* *Wording*: messages are modelled by what they say of whom (`Arming`, `Offers`), not how.

## What is left

* *Between the modules*: the four modules agree with `Gateway` each by itself. One composed
  state machine, in which a body is read, a token verified, a price drawn and a payment judged
  for the same request, is not stated; they share no state but the configuration, which is
  fixed once the gateway is open.
* *Liveness* is model-checked on small instances and not proved.
