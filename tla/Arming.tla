------------------------------- MODULE Arming -------------------------------
(***************************************************************************)
(* The arming guard (obolus/src/arming.rs, its call in main.rs): a gateway *)
(* starts only if every network it advertises is on the pinned list of     *)
(* testnets or named by OBOLUS_ALLOW_MAINNET, and that variable names      *)
(* nothing else.  Around it, the operator: edits what the gateway is given,*)
(* starts it, and does what a refusal says.                                *)
(*                                                                         *)
(* An id is what it names and how that is spelt; two ids are equal, as the *)
(* byte-exact comparison has it, when both agree.  No id holds a comma, and*)
(* the order of the ids in a message is left out, so that a value of the   *)
(* variable is the sequence of its comma-separated entries.                *)
(***************************************************************************)
EXTENDS Naturals, Sequences, FiniteSets

CONSTANTS
    Testnets,     \* TESTNET_NETWORKS
    Placeholder,  \* PLACEHOLDER_NETWORK
    ShortNames,   \* x402 v1's names, without a colon
    Blank,        \* nothing but whitespace, or nothing
    One,          \* the retired boolean form, a short name when it is a network
    Networks,     \* the ids the payment options may carry
    Entries,      \* the ids the arming value may hold
    MaxOptions,   \* bound: payment options
    MaxEntries,   \* bound: entries the operator writes unprompted
    MaxEdits,     \* bound: edits the operator makes unprompted
    Unset,
    NotUnicode    \* a value no std::env::var can read

\* As listed; ASCII whitespace around it or another case; a non-ASCII space
\* around it; a non-ASCII letter in it that looks like an ASCII one.
Spellings == {"exact", "ascii", "space", "lookalike"}

Ids == Networks \cup Entries

Exact(name) == [name |-> name, spelling |-> "exact"]

\* What a remedy may have the operator write: an id, or one spelt as it was meant.
Corrected == {Exact(id.name) : id \in Networks}
Writable == Ids \cup Corrected

ASSUME IdsAssumption ==
    /\ \A id \in Ids : id = [name |-> id.name, spelling |-> id.spelling]
    /\ \A id \in Ids : id.spelling \in Spellings
    /\ \A id \in Entries : id.name = Blank => id.spelling # "lookalike"
    /\ \A id \in Networks : id.name # Blank  \* validated_option
ASSUME NamesAssumption ==
    /\ Testnets # {} /\ One \in ShortNames
    /\ Testnets \cap (ShortNames \cup {Placeholder, Blank}) = {}
    /\ ShortNames \cap {Placeholder, Blank} = {} /\ Placeholder # Blank
ASSUME BoundsAssumption ==
    /\ MaxOptions \in Nat \ {0} /\ MaxEntries \in Nat /\ MaxEdits \in Nat
ASSUME UnsetAssumption == {Unset, NotUnicode} \cap Seq(Writable) = {} /\ Unset # NotUnicode

VARIABLES
    options,   \* the networks of the assembled payment options, in order
    value,     \* OBOLUS_ALLOW_MAINNET
    outcome,   \* what the last start came to
    running,   \* what the running process was started with, if one runs
    followed,  \* how the environment follows from the last refusal
    edits      \* how often the operator has edited unprompted

vars == <<options, value, outcome, running, followed, edits>>
-----------------------------------------------------------------------------
(***************************************************************************)
(* What an id is.                                                          *)
(***************************************************************************)

Listed == {Exact(name) : name \in Testnets}

Unconfigured == Exact(Placeholder)

IsProvablyTestnet(id) == id \in Listed \cup {Unconfigured}

Trimmed(id) == id.spelling # "lookalike"  \* trim and ASCII case bring it back

NearMiss(id) == id.name \in Testnets /\ Trimmed(id)

IsPlaceholderVariant(id) == id.name = Placeholder /\ Trimmed(id)

IsNonAscii(id) == id.spelling \in {"space", "lookalike"}

IsEmptyValue(id) == id.name = Blank

\* No colon in it, and neither empty nor a variant of the placeholder.
IsNotCaip2(id) ==
    /\ id.name \in ShortNames \cup {Placeholder}
    /\ ~IsPlaceholderVariant(id)

Kinds == {"empty", "placeholder", "near miss", "non-ascii", "short name"}

Fires(kind, id) ==
    CASE kind = "empty"       -> IsEmptyValue(id)
      [] kind = "placeholder" -> IsPlaceholderVariant(id)
      [] kind = "near miss"   -> NearMiss(id)
      [] kind = "non-ascii"   -> IsNonAscii(id)
      [] kind = "short name"  -> IsNotCaip2(id)

\* Mutant: a near miss hides what else is wrong, a non-ASCII letter a short name.
DiagnoseFirst(ids) ==
    [kind \in Kinds |->
        {id \in ids : /\ Fires(kind, id)
                      /\ kind = "non-ascii" => ~Fires("near miss", id)
                      /\ kind = "short name" => ~Fires("non-ascii", id)}]

\* One clause per kind, each naming every id it is true of.
Diagnose(ids) == [kind \in Kinds |-> {id \in ids : Fires(kind, id)}]

Undiagnosed(ids) == {id \in ids : \A kind \in Kinds : Diagnose({id})[kind] = {}}
-----------------------------------------------------------------------------
(***************************************************************************)
(* Reading the value, and the guard.                                       *)
(***************************************************************************)

Elements(s) == {s[i] : i \in DOMAIN s}

Repeated(v, i) == \E j \in DOMAIN v : j < i /\ v[j] = v[i]

Defective(v) == {i \in DOMAIN v : IsEmptyValue(v[i]) \/ Repeated(v, i)}

First(positions) == CHOOSE i \in positions : \A j \in positions : i <= j

\* parse_arming: what is wrong with the value's shape.
ValueError(v) ==
    IF Len(v) = 1 /\ IsEmptyValue(v[1]) THEN "SetButEmpty"
    ELSE IF Len(v) = 1 /\ v[1].name = One /\ Trimmed(v[1]) THEN "RetiredBooleanForm"
    ELSE IF Defective(v) = {} THEN "none"
    ELSE IF IsEmptyValue(v[First(Defective(v))]) THEN "EmptyEntry" ELSE "Duplicate"

\* Mutant: read as every other variable is, where an error is no value.
RawErrorOfVar(v) == IF v \in {Unset, NotUnicode} THEN "none" ELSE ValueError(v)

\* var_os, not var: what is set is a list of ids or a refusal, never silence.
RawError(v) ==
    IF v = NotUnicode THEN "NotUnicode" ELSE IF v = Unset THEN "none" ELSE ValueError(v)

Armed(v) == IF v \in {Unset, NotUnicode} THEN {} ELSE Elements(v)

Unproven(opts) == {id \in Elements(opts) : ~IsProvablyTestnet(id)}

Refusal(kind, named, diagnosis) ==
    [kind |-> kind, named |-> named, diagnosis |-> diagnosis]

Accepted == Refusal("accepted", {}, Diagnose({}))
NotStarted == Refusal("not started", {}, Diagnose({}))

\* Mutant: once the value names something, the advertisement is not looked at.
CheckArmingOnce(opts, armed) ==
    IF armed \ Unproven(opts) # {}
    THEN Refusal("ArmingMismatch", armed \ Unproven(opts), Diagnose({}))
    ELSE IF armed = {} /\ Unproven(opts) # {}
    THEN Refusal("NotProvablyTestnet", Unproven(opts), Diagnose(Unproven(opts)))
    ELSE Accepted

\* Mutant: the refusal lists the armed ids among the offenders.
CheckArmingBlamingAll(opts, armed) ==
    IF armed \ Unproven(opts) # {}
    THEN Refusal("ArmingMismatch", armed \ Unproven(opts), Diagnose({}))
    ELSE IF Unproven(opts) \ armed # {}
    THEN Refusal("NotProvablyTestnet", Unproven(opts), Diagnose(Unproven(opts)))
    ELSE Accepted

\* The value first, then the advertisement; the armed ids are no offenders.
CheckArming(opts, armed) ==
    LET mismatched == armed \ Unproven(opts)
        unnamed    == Unproven(opts) \ armed
    IN  IF mismatched # {}
        THEN Refusal("ArmingMismatch", mismatched, Diagnose({}))
        ELSE IF unnamed # {}
        THEN Refusal("NotProvablyTestnet", unnamed, Diagnose(unnamed))
        ELSE Accepted

\* Gateway::new, as far as it looks at the networks.
DuplicateOption(opts) == \E i \in DOMAIN opts : Repeated(opts, i)

Boot(opts, v) ==
    LET guard == CheckArming(opts, Armed(v))
    IN  IF RawError(v) # "none" THEN Refusal(RawError(v), {}, Diagnose({}))
        ELSE IF guard # Accepted THEN guard
        ELSE IF DuplicateOption(opts) THEN Refusal("DuplicateOption", {}, Diagnose({}))
        ELSE Accepted

\* Mutant: the all-clear is keyed on nothing being unproven alone.
PostureOfUnproven(opts) ==
    LET unproven == Unproven(opts)
    IN  [ mainnet      |-> unproven,
          unexplained  |-> Undiagnosed(unproven),
          testnet      |-> unproven = {},
          unconfigured |-> Unconfigured \in Elements(opts) ]

\* The lines main prints: MAINNET ARMED with the ids it names and those of them
\* it cannot explain, testnet-by-construction, UNCONFIGURED NETWORK.
Posture(opts) ==
    LET unproven     == Unproven(opts)
        placeholders == {i \in DOMAIN opts : opts[i] = Unconfigured}
    IN  [ mainnet      |-> unproven,
          unexplained  |-> Undiagnosed(unproven),
          testnet      |-> unproven = {} /\ placeholders = {},
          unconfigured |-> placeholders # {} ]
-----------------------------------------------------------------------------
(***************************************************************************)
(* The operator and the process.                                           *)
(***************************************************************************)

Nobody == [networks |-> {}, set |-> FALSE, armed |-> {}, posture |-> Posture(<<>>)]

\* A start replaces the process that ran.  A refusal prints nothing else.
Start ==
    /\ outcome = NotStarted
    /\ outcome' = Boot(options, value)
    /\ running' = IF outcome' = Accepted
                  THEN [ networks |-> Elements(options), set |-> value # Unset,
                         armed |-> Armed(value), posture |-> Posture(options) ]
                  ELSE Nobody
    /\ UNCHANGED <<options, value, followed, edits>>

Edited ==
    /\ edits < MaxEdits
    /\ edits' = edits + 1
    /\ followed' = "no"
    /\ outcome' = NotStarted
    /\ UNCHANGED running

\* The options change under an arming value written for others.
EditOptions ==
    /\ \E n \in 1..MaxOptions : options' \in [1..n -> Networks]
    /\ UNCHANGED value
    /\ Edited

EditValue ==
    /\ \/ value' \in {Unset, NotUnicode}
       \/ \E n \in 1..MaxEntries : value' \in [1..n -> Entries]
    /\ UNCHANGED options
    /\ Edited

Prescribed ==
    /\ outcome' = NotStarted
    /\ UNCHANGED <<running, edits>>

\* The ids of a set, each once, in some order.
Listings(ids) ==
    {s \in [1..Cardinality(ids) -> ids] : Elements(s) = ids}

\* Mutant: the remedy for nothing to arm is a list of nothing.
SetToListing(ids) == value' \in Listings(ids)

SetTo(ids) == IF ids = {} THEN value' = Unset ELSE value' \in Listings(ids)

\* Mutant: the remedy is always to set the value to the ids above.
ArmReplacing ==
    /\ outcome.kind \in {"NotProvablyTestnet", "ArmingMismatch"}
    /\ SetTo(IF outcome.kind = "NotProvablyTestnet" THEN outcome.named ELSE Unproven(options))
    /\ followed' = "armed"
    /\ UNCHANGED options
    /\ Prescribed

\* arming_remedy, arming_prescription: the ids are added to what the value names
\* already, or the value is set to what the refusal says it would have to be.
Arm ==
    /\ \/ /\ outcome.kind = "NotProvablyTestnet"
          /\ SetTo(Armed(value) \cup outcome.named)
       \/ /\ outcome.kind = "ArmingMismatch"
          /\ SetTo(Unproven(options))
    /\ followed' = "armed"
    /\ UNCHANGED options
    /\ Prescribed

\* What the clauses that name an id tell the operator to put in its place.
Remedies(id) ==
    LET says(kind) == id \in outcome.diagnosis[kind]
    IN  IF says("placeholder") THEN {Unconfigured} \cup Listed
        ELSE IF says("empty") \/ says("short name") THEN Listed
        ELSE IF says("near miss") \/ says("non-ascii") THEN {Exact(id.name)}
        ELSE {id}

Repair ==
    /\ outcome.kind = "NotProvablyTestnet"
    /\ \E kind \in Kinds : outcome.diagnosis[kind] # {}
    /\ options' \in [DOMAIN options -> UNION {Remedies(options[i]) : i \in DOMAIN options}]
    /\ \A i \in DOMAIN options : options'[i] \in Remedies(options[i])
    /\ followed' = "repaired"
    /\ UNCHANGED value
    /\ Prescribed

\* What ArmingValueError and DuplicateOption say.
Tidy ==
    /\ \/ /\ outcome.kind \in {"NotUnicode", "SetButEmpty", "RetiredBooleanForm"}
          /\ value' = Unset
          /\ UNCHANGED options
       \/ /\ outcome.kind \in {"EmptyEntry", "Duplicate"}
          /\ SetTo({id \in Elements(value) : ~IsEmptyValue(id)})
          /\ UNCHANGED options
       \/ /\ outcome.kind = "DuplicateOption"
          /\ options' \in Listings(Elements(options))
          /\ UNCHANGED value
    /\ followed' = "tidied"
    /\ Prescribed

Init ==
    /\ options \in [{1} -> Networks]
    /\ value = Unset
    /\ outcome = NotStarted
    /\ running = Nobody
    /\ followed = "no"
    /\ edits = 0

Follow == Arm \/ Repair \/ Tidy

Next == Start \/ EditOptions \/ EditValue \/ Follow

\* An operator with a refusal does what it says and tries again.
Spec == Init /\ [][Next]_vars /\ WF_vars(Start) /\ WF_vars(Follow)
-----------------------------------------------------------------------------
(***************************************************************************)
(* Correctness.                                                            *)
(***************************************************************************)

\* Every variable keeps to its type.
TypeOK ==
    /\ options \in Seq(Networks \cup Listed \cup {Unconfigured} \cup Corrected)
    /\ Len(options) \in 1..MaxOptions
    /\ value \in {Unset, NotUnicode} \cup Seq(Writable) /\ value # <<>>
    /\ outcome.kind \in {"not started", "accepted", "ArmingMismatch", "NotProvablyTestnet",
                         "NotUnicode", "SetButEmpty", "RetiredBooleanForm", "EmptyEntry",
                         "Duplicate", "DuplicateOption"}
    /\ running.posture.testnet \in BOOLEAN
    /\ followed \in {"no", "armed", "repaired", "tidied"}
    /\ edits \in 0..MaxEdits

\* What the last start said was said of what the gateway is given now.
OutcomeIsCurrent == outcome \in {NotStarted, Boot(options, value)}

\* The operator who armed what a refusal said wrote down what is not proven.
ArmedAsTold ==
    followed = "armed" =>
        IF Unproven(options) = {} THEN value = Unset ELSE value \in Listings(Unproven(options))

\* Whatever was edited since, a running gateway advertises no network but
\* provable testnets and those its own environment named, and the environment
\* named nothing besides.
ArmedByName ==
    /\ \A id \in running.networks : IsProvablyTestnet(id) \/ id \in running.armed
    /\ \A id \in running.armed : id \in running.networks /\ ~IsProvablyTestnet(id)

\* Where nothing is armed nothing was set: no value was left unread.
NothingUnread == running.set => running.armed # {}

\* One restart, not two: an operator who armed what the refusal said to arm does
\* not meet the guard or the reader of the value again.
OneRestart ==
    followed = "armed" => outcome.kind \in {"not started", "accepted", "DuplicateOption"}

\* The refusal blames each id for what is true of it: never one that is armed and
\* needs to be, never one that is proven, and all there are.
BlameIsFair ==
    /\ outcome.kind = "NotProvablyTestnet" =>
            /\ outcome.named \cup Armed(value) = Unproven(options)
            /\ outcome.named \cap Armed(value) = {}
    /\ outcome.kind = "ArmingMismatch" =>
            \A id \in outcome.named : id \in Armed(value) /\ id \notin Unproven(options)

\* The clauses name everything that is wrong with an id at once: when the operator
\* has done what they say, no id is left that they could say something about,
\* besides those that are armed regardless.
RepairsHold ==
    LET unnamed == Unproven(options) \ Armed(value)
    IN  followed = "repaired" => Undiagnosed(unnamed) = unnamed

\* The startup lines are true of what runs: the all-clear only over listed testnets,
\* the banner on every other gateway that is not on the placeholder alone, and no
\* id disclaimed that Obolus can explain.
PostureIsTrue ==
    running # Nobody =>
        /\ running.posture.testnet =>
                \A id \in running.networks : id.spelling = "exact" /\ id.name \in Testnets
        /\ running.posture.mainnet = running.armed
        /\ Unconfigured \in running.networks => running.posture.unconfigured
        /\ running.posture.unexplained =
                {id \in running.armed : \A kind \in Kinds : ~Fires(kind, id)}

\* What Obolus says is true: of a refusal whom it blames and what it prescribes, of
\* a start what runs.
GuidanceIsTrue ==
    TypeOK /\ BlameIsFair /\ OneRestart /\ RepairsHold /\ PostureIsTrue /\ NothingUnread

\* The refusals lead somewhere: an operator who only ever does what they say ends
\* with a gateway that runs.
OperatorConverges == <>[](outcome = Accepted)
=============================================================================
