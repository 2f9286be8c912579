---------------------------- MODULE RequestShape ----------------------------
(***************************************************************************)
(* What the gateway reads out of a completion request (request.rs), and    *)
(* what it refuses because of it (output_cap_refusal in gateway.rs), beside*)
(* what the readers upstream make of the same bytes: one that matches keys *)
(* exactly, one that folds their case as Go's encoding/json does.          *)
(*                                                                         *)
(* A key is the field it folds to and whether it is that field exactly.  A *)
(* value is what the reads tell apart: broken is one a skip gets over and a*)
(* decode does not, cut is where the JSON ends for every reader.           *)
(***************************************************************************)
EXTENDS Naturals, Sequences, FiniteSets

CONSTANTS
    Models,
    Cap,          \* OBOLUS_MAX_OUTPUT_TOKENS
    Fields,       \* the fields a body may have
    MaxFields,    \* bound: fields in a body
    Null, Wrong, Broken, Cut,
    Undecodable,  \* a key that cannot be decoded
    None

Names == {"model", "max_tokens", "max_completion_tokens", "n", "best_of", "other"}

KeySet == [name : Names, exact : BOOLEAN] \cup {Undecodable}
ValueSet == Models \cup Nat \cup {Null, Wrong, Broken, Cut}
FieldSet == [key : KeySet, value : ValueSet]

ASSUME CapAssumption == Cap \in Nat \ {0}
ASSUME FieldsAssumption == Fields \subseteq FieldSet /\ MaxFields \in Nat
ASSUME NullsAssumption ==
    /\ Null \notin {Wrong, Broken, Cut, None} /\ Wrong \notin {Broken, Cut, None}
    /\ Broken \notin {Cut, None} /\ Cut # None
    /\ {Null, Wrong, Broken, Cut, None} \cap (Models \cup Nat) = {}
    /\ Models \cap Nat = {}
    /\ Undecodable \notin [name : Names, exact : BOOLEAN]

VARIABLES
    kind,    \* of the backend the request is routed to
    access,  \* "paid", or "token" for a bearer of a token
    body,
    at,      \* the field the pass comes to next
    scan,    \* what it has found so far
    status,  \* of the pass
    shape,   \* what the request is taken for
    reply

vars == <<kind, access, body, at, scan, status, shape, reply>>

Is(key, name) == key # Undecodable /\ key.name = name

IsExactly(key, name) == Is(key, name) /\ key.exact

\* A key that folds to model or max_tokens without being it.
IsVariant(key) == key # Undecodable /\ key.name \in {"model", "max_tokens"} /\ ~key.exact

Absent == [state |-> "absent", limit |-> 0]
Invalid == [state |-> "invalid", limit |-> 0]
Limit(n) == [state |-> "limit", limit |-> n]

\* Scan::default, and the two flags of the visitor.
NothingFound ==
    [ model |-> None, modelSeen |-> FALSE, poisoned |-> FALSE, maxTokens |-> Absent,
      limitVariant |-> FALSE, variant |-> FALSE, maxCompletionTokens |-> FALSE,
      n |-> Absent, nVariant |-> FALSE, bestOf |-> FALSE, inJudgedValue |-> FALSE ]

NoShape == [model |-> None, readInFull |-> FALSE]
-----------------------------------------------------------------------------
(***************************************************************************)
(* The pass over the top-level value.                                      *)
(***************************************************************************)

Reading == status = "reading" /\ body.form = "object"

Fail(found) ==
    /\ status' = "failed"
    /\ scan' = found
    /\ UNCHANGED <<kind, access, body, at, shape, reply>>

Advance(found) ==
    /\ at' = at + 1
    /\ scan' = found
    /\ UNCHANGED <<kind, access, body, status, shape, reply>>

Field == body.fields[at]

\* The next key; one that does not decode ends the pass.
Comes(key) == Reading /\ at <= Len(body.fields) /\ key = Field.key

StopAtKey == Comes(Undecodable) /\ Fail(scan)

\* IgnoredAny.
Skip(found) == IF Field.value = Cut THEN Fail(found) ELSE Advance(found)

\* Mutant: whatever decodes is a limit.
JudgedAsLimit(v) == Limit(v)

\* Judged: anything that decodes is judged, and a limit is a number.
JudgedAs(v) == IF v \in Nat THEN Limit(v) ELSE Invalid

ReadModel ==
    /\ \E key \in KeySet : Comes(key) /\ IsExactly(key, "model")
    /\ LET v == Field.value
           found == [scan EXCEPT !.modelSeen = TRUE]
       IN  IF scan.modelSeen THEN Skip([scan EXCEPT !.poisoned = TRUE])
           ELSE IF v \in {Broken, Cut} THEN Fail(found)
           ELSE IF v \in Models THEN Advance([found EXCEPT !.model = v])
           ELSE Advance([found EXCEPT !.poisoned = (v # Null)])

\* Mutant: the value is recorded once it has been read.
ReadMaxTokensLate ==
    /\ \E key \in KeySet : Comes(key) /\ IsExactly(key, "max_tokens")
    /\ IF Field.value \in {Broken, Cut} THEN Fail([scan EXCEPT !.inJudgedValue = TRUE])
       ELSE Advance([scan EXCEPT !.maxTokens = JudgedAs(Field.value)])

\* Recorded as invalid before the value is read.
ReadMaxTokens ==
    /\ \E key \in KeySet : Comes(key) /\ IsExactly(key, "max_tokens")
    /\ IF Field.value \in {Broken, Cut}
       THEN Fail([scan EXCEPT !.maxTokens = Invalid, !.inJudgedValue = TRUE])
       ELSE Advance([scan EXCEPT !.maxTokens = JudgedAs(Field.value)])

ReadN ==
    /\ \E key \in KeySet : Comes(key) /\ IsExactly(key, "n")
    /\ IF Field.value \in {Broken, Cut}
       THEN Fail([scan EXCEPT !.n = Invalid, !.inJudgedValue = TRUE])
       ELSE Advance([scan EXCEPT !.n = JudgedAs(Field.value)])

SkipVariant ==
    /\ \E key \in KeySet : Comes(key) /\ IsVariant(key)
    /\ Skip([scan EXCEPT !.variant = TRUE,
                         !.limitVariant = @ \/ Is(Field.key, "max_tokens")])

\* The fields whose presence is all that counts.
Note ==
    \/ /\ \E key \in KeySet : Comes(key) /\ Is(key, "n") /\ ~key.exact
       /\ Skip([scan EXCEPT !.nVariant = TRUE])
    \/ /\ \E key \in KeySet : Comes(key) /\ Is(key, "best_of")
       /\ Skip([scan EXCEPT !.bestOf = TRUE])
    \/ /\ \E key \in KeySet : Comes(key) /\ Is(key, "max_completion_tokens")
       /\ Skip([scan EXCEPT !.maxCompletionTokens = TRUE])

SkipOther ==
    /\ \E key \in KeySet : Comes(key) /\ Is(key, "other")
    /\ Skip(scan)

Ends(found) ==
    IF body.trailing THEN Fail(found)
    ELSE /\ status' = "ended"
         /\ scan' = found
         /\ UNCHANGED <<kind, access, body, at, shape, reply>>

EndOfObject ==
    /\ Reading /\ at > Len(body.fields)
    /\ Ends(IF scan.poisoned THEN [scan EXCEPT !.model = None] ELSE scan)

\* An array is read by position, its one element as model.
ReadArray ==
    /\ status = "reading" /\ body.form = "array"
    /\ LET n == Len(body.fields)
           v == body.fields[1].value
       IN  IF n = 0 THEN Ends(scan)
           ELSE IF v \notin Models \cup {Null} THEN Fail(scan)
           ELSE IF n > 1 THEN Fail([scan EXCEPT !.model = IF v = Null THEN None ELSE v])
           ELSE Ends([scan EXCEPT !.model = IF v = Null THEN None ELSE v])

ReadScalar ==
    /\ status = "reading" /\ body.form = "scalar"
    /\ Fail(scan)
-----------------------------------------------------------------------------
(***************************************************************************)
(* The shape, and the refusals.                                            *)
(***************************************************************************)

Elements(s) == {s[i] : i \in DOMAIN s}

\* model_only: a derived struct with the one field.
ModelAlone(b) ==
    LET named == {i \in DOMAIN b.fields :
                    b.form = "array" \/ IsExactly(b.fields[i].key, "model")}
        whole == /\ b.form \in {"object", "array"} /\ ~b.trailing
                 /\ \A f \in Elements(b.fields) :
                        f.value # Cut /\ (b.form = "object" => f.key # Undecodable)
    IN  IF whole /\ Cardinality(named) = 1
        THEN LET v == b.fields[CHOOSE i \in named : TRUE].value
             IN  IF v \in Models THEN v ELSE None
        ELSE None

\* first_case_variant: the keys before one that does not decode, values skipped.
HasVariant(b) ==
    \E i \in DOMAIN b.fields :
        /\ b.form = "object" /\ IsVariant(b.fields[i].key)
        /\ \A j \in 1..(i - 1) : b.fields[j].key # Undecodable /\ b.fields[j].value # Cut

\* Mutant: a pass that failed reads as no model and no variant it has not seen.
ShapeOfPass ==
    [ model        |-> IF status = "ended" THEN scan.model ELSE None,
      variant      |-> scan.variant,
      maxTokens    |-> IF scan.limitVariant THEN Invalid ELSE scan.maxTokens,
      nNotOne      |-> scan.nVariant \/ scan.n \notin {Absent, Limit(1)},
      maxCompletionTokens |-> scan.maxCompletionTokens,
      bestOf       |-> scan.bestOf,
      readInFull   |-> status = "ended" ]

\* Mutant: the keys after a value that could not be judged are not looked at again.
ShapeWithoutSecondLook ==
    [ model        |-> IF status = "ended" THEN scan.model
                       ELSE IF scan.inJudgedValue THEN ModelAlone(body) ELSE None,
      variant      |-> scan.variant,
      maxTokens    |-> IF scan.limitVariant THEN Invalid ELSE scan.maxTokens,
      nNotOne      |-> scan.nVariant \/ scan.n \notin {Absent, Limit(1)},
      maxCompletionTokens |-> scan.maxCompletionTokens,
      bestOf       |-> scan.bestOf,
      readInFull   |-> status = "ended" ]

\* The end of RequestShape::parse: what broke inside a judged value is read again.
Shape ==
    LET again == status = "failed" /\ scan.inJudgedValue
    IN  [ model        |-> IF status = "ended" THEN scan.model
                           ELSE IF again THEN ModelAlone(body) ELSE None,
          variant      |-> scan.variant \/ (again /\ HasVariant(body)),
          maxTokens    |-> IF scan.limitVariant THEN Invalid ELSE scan.maxTokens,
          nNotOne      |-> scan.nVariant \/ scan.n \notin {Absent, Limit(1)},
          maxCompletionTokens |-> scan.maxCompletionTokens,
          bestOf       |-> scan.bestOf,
          readInFull   |-> status = "ended" ]

Conclude ==
    /\ status \in {"ended", "failed"} /\ shape = NoShape
    /\ shape' = Shape
    /\ status' = "concluded"
    /\ UNCHANGED <<kind, access, body, at, scan, reply>>

\* Mutant: a body that was not read to its end is judged by what was read.
OutputCapRefusalOfTheRead ==
    \/ /\ kind = "openai-compat"
       /\ shape.maxCompletionTokens \/ shape.nNotOne \/ shape.bestOf
    \/ shape.maxTokens.state # "limit"
    \/ shape.maxTokens.limit \notin 1..Cap

\* output_cap_refusal.
OutputCapRefusal ==
    \/ ~shape.readInFull
    \/ /\ kind = "openai-compat"
       /\ shape.maxCompletionTokens \/ shape.nNotOne \/ shape.bestOf
    \/ shape.maxTokens.state # "limit"
    \/ shape.maxTokens.limit \notin 1..Cap

\* A variant is refused before routing, on either way through the gate; the cap
\* is for those who pay.
Admit ==
    /\ status = "concluded" /\ reply = "none"
    /\ reply' = IF shape.variant THEN "case variant"
                ELSE IF access = "paid" /\ OutputCapRefusal THEN "output cap"
                ELSE "admitted"
    /\ UNCHANGED <<kind, access, body, at, scan, status, shape>>

Init ==
    /\ kind \in {"ollama", "openai-compat"}
    /\ access \in {"paid", "token"}
    /\ \E n \in 0..MaxFields :
            body \in [form : {"object", "array", "scalar"}, fields : [1..n -> Fields],
                      trailing : BOOLEAN]
    /\ at = 1
    /\ scan = NothingFound
    /\ status = "reading"
    /\ shape = NoShape
    /\ reply = "none"

Next ==
    \/ StopAtKey \/ ReadModel \/ ReadMaxTokens \/ ReadN \/ SkipVariant \/ Note \/ SkipOther
    \/ EndOfObject \/ ReadArray \/ ReadScalar
    \/ Conclude \/ Admit

Spec == Init /\ [][Next]_vars
-----------------------------------------------------------------------------
(***************************************************************************)
(* The readers upstream.  Neither minds bytes after the value, a broken    *)
(* string, or a field it has no use for; a later duplicate wins.           *)
(***************************************************************************)

Readers == {"exact", "folding"}

\* What it reads for a field; to the one that folds, null is not there.
ReadBy(reader, name) ==
    LET found == {i \in DOMAIN body.fields :
                    /\ Is(body.fields[i].key, name)
                    /\ body.fields[i].key.exact \/ reader = "folding"
                    /\ reader = "folding" => body.fields[i].value # Null}
    IN  IF found = {} THEN Null
        ELSE body.fields[CHOOSE i \in found : \A j \in found : j <= i].value

Rejected == body.form # "object" \/ \E f \in Elements(body.fields) : f.value = Cut

\* No limit, or 0, is no limit; an OpenAI-compatible server may take another field
\* for it.
LimitsOf(reader) ==
    {ReadBy(reader, "max_tokens")}
        \cup (IF kind = "openai-compat" THEN {ReadBy(reader, "max_completion_tokens")} \ {Null}
              ELSE {})

CompletionsOf(reader) ==
    IF kind = "ollama" THEN {1}
    ELSE {IF ReadBy(reader, f) = Null THEN 1 ELSE ReadBy(reader, f) : f \in {"n", "best_of"}}
-----------------------------------------------------------------------------
(***************************************************************************)
(* Correctness.                                                            *)
(***************************************************************************)

\* Every variable keeps to its type.
TypeOK ==
    /\ kind \in {"ollama", "openai-compat"} /\ access \in {"paid", "token"}
    /\ Elements(body.fields) \subseteq Fields
    /\ at \in 1..(Len(body.fields) + 1)
    /\ scan.model \in Models \cup {None}
    /\ {scan.maxTokens, scan.n} \subseteq [state : {"absent", "invalid", "limit"}, limit : Nat]
    /\ status \in {"reading", "ended", "failed", "concluded"}
    /\ shape.model \in Models \cup {None} /\ shape.readInFull \in BOOLEAN
    /\ reply \in {"none", "case variant", "output cap", "admitted"}

\* What was paid for is what can be asked for: whichever way the backend reads the
\* bytes of a paid request that is let through, it finds the one limit the gateway
\* read and priced, within the cap, and one completion.
PaidWorkIsBounded ==
    reply = "admitted" /\ access = "paid" =>
        \A reader \in Readers :
            \/ Rejected
            \/ /\ LimitsOf(reader) = {shape.maxTokens.limit}
               /\ shape.maxTokens.limit \in 1..Cap
               /\ CompletionsOf(reader) = {1}

\* A request that is routed by its model is for that model to every reader upstream.
RoutedAsRead ==
    reply = "admitted" /\ shape.model # None =>
        \A reader \in Readers : Rejected \/ ReadBy(reader, "model") = shape.model

\* No other field, however malformed and wherever it stands, changes what model
\* reads as: it is what a read of model alone makes of the body.
ModelIsItsOwn == status = "concluded" => shape.model = ModelAlone(body)

\* Once the pass has come to a max_tokens key, in any spelling, nothing later in the
\* body makes the limit read as absent.
SeenIsNotAbsent ==
    LET reached == IF status = "failed" THEN at ELSE at - 1
    IN  /\ body.form = "object" =>
            \A i \in DOMAIN body.fields :
                i <= reached /\ Is(body.fields[i].key, "max_tokens") =>
                    scan.limitVariant \/ scan.maxTokens # Absent
        /\ status = "concluded" =>
                (shape.maxTokens = Absent <=> scan.maxTokens = Absent /\ ~scan.limitVariant)

\* What the gateway read is what the body says, whatever else the body says.
ReadForWhatItSays == TypeOK /\ RoutedAsRead /\ ModelIsItsOwn /\ SeenIsNotAbsent
=============================================================================
