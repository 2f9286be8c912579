------------------------- MODULE RequestShapeProofs -------------------------
(***************************************************************************)
(* Paid work is bounded for bodies of any length, with any models, values  *)
(* and cap, and what is read of them is what they say: the inductive       *)
(* invariants say what the pass has made of the fields before the one it   *)
(* comes to next, and lemmas say what the readers upstream, and a look at  *)
(* the model alone, make of the same fields.                               *)
(***************************************************************************)
EXTENDS RequestShape, FiniteSetTheorems, TLAPS

Readings == [state : {"absent", "invalid", "limit"}, limit : Nat]

Scans ==
    [ model : Models \cup {None}, modelSeen : BOOLEAN, poisoned : BOOLEAN, maxTokens : Readings,
      limitVariant : BOOLEAN, variant : BOOLEAN, maxCompletionTokens : BOOLEAN,
      n : Readings, nVariant : BOOLEAN, bestOf : BOOLEAN, inJudgedValue : BOOLEAN ]

Bodies ==
    [form : {"object", "array", "scalar"}, fields : Seq(FieldSet), trailing : BOOLEAN]

Typed ==
    /\ kind \in {"ollama", "openai-compat"} /\ access \in {"paid", "token"}
    /\ body \in Bodies
    /\ at \in Nat \ {0} /\ at <= Len(body.fields) + 1
    /\ scan \in Scans
    /\ status \in {"reading", "ended", "failed", "concluded"}

KeyOf(i) == body.fields[i].key

\* Of the fields passed, the last that is name exactly is what was judged.
Last(name, reading) ==
    \/ /\ reading = Absent
       /\ \A i \in 1..(at - 1) : ~IsExactly(KeyOf(i), name)
    \/ \E i \in 1..(at - 1) :
            /\ IsExactly(KeyOf(i), name)
            /\ reading = JudgedAs(body.fields[i].value)
            /\ \A j \in (i + 1)..(at - 1) : ~IsExactly(KeyOf(j), name)

\* No field passed is forgotten.
Noted ==
    \A i \in 1..(at - 1) :
        /\ IsVariant(KeyOf(i)) => scan.variant
        /\ Is(KeyOf(i), "n") /\ ~KeyOf(i).exact => scan.nVariant
        /\ Is(KeyOf(i), "best_of") => scan.bestOf
        /\ Is(KeyOf(i), "max_completion_tokens") => scan.maxCompletionTokens

Found == Noted /\ Last("max_tokens", scan.maxTokens) /\ Last("n", scan.n)

\* While the pass goes on, and after it has come to the end of an object.
PassIsFaithful ==
    body.form = "object" =>
        /\ status = "reading" => Found
        /\ status = "ended" \/ (status = "concluded" /\ shape.readInFull) =>
                Found /\ at = Len(body.fields) + 1

ShapeIsFaithful ==
    /\ status = "concluded" =>
        /\ scan.variant => shape.variant
        /\ shape.maxTokens = IF scan.limitVariant THEN Invalid ELSE scan.maxTokens
        /\ shape.nNotOne = (scan.nVariant \/ scan.n \notin {Absent, Limit(1)})
        /\ shape.maxCompletionTokens = scan.maxCompletionTokens
        /\ shape.bestOf = scan.bestOf
    /\ reply = "admitted" =>
        /\ status = "concluded" /\ ~shape.variant
        /\ access = "paid" => ~OutputCapRefusal

IInv == Typed /\ PassIsFaithful /\ ShapeIsFaithful
-----------------------------------------------------------------------------
(***************************************************************************)
(* The readers upstream.                                                   *)
(***************************************************************************)

\* A field no key of the body is, in any spelling, reads as not there.
LEMMA NothingIsRead ==
    ASSUME NEW reader, NEW name,
           \A i \in DOMAIN body.fields : ~Is(KeyOf(i), name)
    PROVE  ReadBy(reader, name) = Null
BY DEF ReadBy, KeyOf

\* The last key that is the field, spelt exactly as none other is, is what both
\* readers read, unless it holds null.
LEMMA LastIsRead ==
    ASSUME NEW reader, NEW name, body.fields \in Seq(FieldSet),
           NEW i \in DOMAIN body.fields,
           IsExactly(KeyOf(i), name), body.fields[i].value # Null,
           \A j \in DOMAIN body.fields : Is(KeyOf(j), name) => KeyOf(j).exact /\ j <= i
    PROVE  ReadBy(reader, name) = body.fields[i].value
<1> DEFINE found == {j \in DOMAIN body.fields :
                        /\ Is(body.fields[j].key, name)
                        /\ body.fields[j].key.exact \/ reader = "folding"
                        /\ reader = "folding" => body.fields[j].value # Null}
<1>1. i \in found
    BY DEF IsExactly, KeyOf
<1>2. \A j \in found : j <= i
    BY DEF KeyOf
<1>3. found \subseteq Nat
    OBVIOUS
<1>4. \A k \in found : (\A j \in found : j <= k) => k = i
  <2> HIDE DEF found
  <2>1. SUFFICES ASSUME NEW k \in found, \A j \in found : j <= k PROVE k = i
      OBVIOUS
  <2>2. k \in Nat /\ i \in Nat /\ i <= k /\ k <= i
      BY <1>1, <1>2, <1>3, <2>1
  <2> QED BY <2>2
<1>5. (CHOOSE k \in found : \A j \in found : j <= k) = i
  <2> HIDE DEF found
  <2> QED BY <1>1, <1>2, <1>4, Zenon
<1> QED BY <1>1, <1>5 DEF ReadBy
-----------------------------------------------------------------------------
(***************************************************************************)
(* The pass.                                                               *)
(***************************************************************************)

\* Moving on from a field with what it is to be remembered by.
LEMMA Passed ==
    ASSUME IInv, status = "reading", body.form = "object", at <= Len(body.fields),
           NEW found \in Scans, Advance(found),
           scan.variant => found.variant, scan.nVariant => found.nVariant,
           scan.bestOf => found.bestOf,
           scan.maxCompletionTokens => found.maxCompletionTokens,
           IsVariant(KeyOf(at)) => found.variant,
           Is(KeyOf(at), "n") /\ ~KeyOf(at).exact => found.nVariant,
           Is(KeyOf(at), "best_of") => found.bestOf,
           Is(KeyOf(at), "max_completion_tokens") => found.maxCompletionTokens,
           found.maxTokens = IF IsExactly(KeyOf(at), "max_tokens")
                             THEN JudgedAs(body.fields[at].value) ELSE scan.maxTokens,
           found.n = IF IsExactly(KeyOf(at), "n")
                     THEN JudgedAs(body.fields[at].value) ELSE scan.n
    PROVE  IInv'
<1>1. /\ at' = at + 1 /\ scan' = found
      /\ UNCHANGED <<kind, access, body, status, shape, reply>>
    BY DEF Advance
<1>2. Typed /\ Found /\ at \in Nat \ {0}
    BY DEF IInv, PassIsFaithful, Typed
<1>3. \A i : KeyOf(i)' = KeyOf(i)
    BY <1>1 DEF KeyOf
<1>4. \A i \in 1..(at' - 1) : i = at \/ i \in 1..(at - 1)
    BY <1>1, <1>2
<1>5. Noted'
    BY <1>1, <1>2, <1>3, <1>4 DEF Found, Noted
<1>6. ASSUME NEW name, NEW reading, NEW after, Last(name, reading),
             after = IF IsExactly(KeyOf(at), name)
                     THEN JudgedAs(body.fields[at].value) ELSE reading
      PROVE  \/ /\ after = Absent
                /\ \A i \in 1..(at' - 1) : ~IsExactly(KeyOf(i), name)
             \/ \E i \in 1..(at' - 1) :
                    /\ IsExactly(KeyOf(i), name)
                    /\ after = JudgedAs(body.fields[i].value)
                    /\ \A j \in (i + 1)..(at' - 1) : ~IsExactly(KeyOf(j), name)
  <2>1. CASE IsExactly(KeyOf(at), name)
    <3>1. at \in 1..(at' - 1) /\ \A j \in (at + 1)..(at' - 1) : FALSE
        BY <1>1, <1>2
    <3> QED BY <3>1, <2>1, <1>6
  <2>2. CASE ~IsExactly(KeyOf(at), name) /\ reading = Absent
                /\ \A i \in 1..(at - 1) : ~IsExactly(KeyOf(i), name)
      BY <1>4, <1>6, <2>2
  <2>3. CASE ~IsExactly(KeyOf(at), name) /\
             \E i \in 1..(at - 1) :
                    /\ IsExactly(KeyOf(i), name)
                    /\ reading = JudgedAs(body.fields[i].value)
                    /\ \A j \in (i + 1)..(at - 1) : ~IsExactly(KeyOf(j), name)
    <3>1. PICK i \in 1..(at - 1) :
                    /\ IsExactly(KeyOf(i), name)
                    /\ reading = JudgedAs(body.fields[i].value)
                    /\ \A j \in (i + 1)..(at - 1) : ~IsExactly(KeyOf(j), name)
        BY <2>3
    <3>2. i \in 1..(at' - 1)
        BY <1>1, <1>2
    <3>3. \A j \in (i + 1)..(at' - 1) : j = at \/ j \in (i + 1)..(at - 1)
        BY <1>1, <1>2
    <3>4. \A j \in (i + 1)..(at' - 1) : ~IsExactly(KeyOf(j), name)
        BY <2>3, <3>1, <3>3
    <3>5. after = JudgedAs(body.fields[i].value)
        BY <1>6, <2>3, <3>1
    <3> QED BY <3>1, <3>2, <3>4, <3>5
  <2>4. \/ /\ reading = Absent
           /\ \A i \in 1..(at - 1) : ~IsExactly(KeyOf(i), name)
        \/ \E i \in 1..(at - 1) :
                /\ IsExactly(KeyOf(i), name)
                /\ reading = JudgedAs(body.fields[i].value)
                /\ \A j \in (i + 1)..(at - 1) : ~IsExactly(KeyOf(j), name)
      BY <1>6 DEF Last
  <2> QED BY <2>1, <2>2, <2>3, <2>4
<1>7. Last("max_tokens", scan.maxTokens)' /\ Last("n", scan.n)'
  <2>1. Last("max_tokens", scan.maxTokens)'
      BY <1>1, <1>2, <1>3, <1>6 DEF Found, Last, IsExactly, Is
  <2>2. Last("n", scan.n)'
      BY <1>1, <1>2, <1>3, <1>6 DEF Found, Last, IsExactly, Is
  <2> QED BY <2>1, <2>2
<1>8. Typed'
    BY <1>1, <1>2 DEF Typed
<1>9. ShapeIsFaithful'
    BY <1>1 DEF IInv, ShapeIsFaithful, OutputCapRefusal
<1> QED BY <1>1, <1>5, <1>7, <1>8, <1>9 DEF IInv, PassIsFaithful, Found

\* What was found of the fields passed is found as long as none is passed.
LEMMA FoundStays ==
    ASSUME Found, UNCHANGED <<body, at>>,
           scan'.variant = scan.variant, scan'.nVariant = scan.nVariant,
           scan'.bestOf = scan.bestOf,
           scan'.maxCompletionTokens = scan.maxCompletionTokens,
           scan'.maxTokens = scan.maxTokens, scan'.n = scan.n
    PROVE  Found'
<1>1. \A i : KeyOf(i)' = KeyOf(i)
    BY DEF KeyOf
<1>2. Noted'
    BY <1>1 DEF Found, Noted
<1>3. Last("max_tokens", scan.maxTokens)'
    BY <1>1 DEF Found, Last
<1>4. Last("n", scan.n)'
    BY <1>1 DEF Found, Last
<1> QED BY <1>2, <1>3, <1>4 DEF Found

\* Stopping keeps the invariant, whatever was found.
LEMMA Stopped ==
    ASSUME IInv, status = "reading", NEW found \in Scans, Fail(found)
    PROVE  IInv'
BY DEF IInv, Typed, PassIsFaithful, ShapeIsFaithful, Fail, OutputCapRefusal

\* The field the pass comes to.
LEMMA FieldHere ==
    ASSUME IInv, NEW key, Comes(key)
    PROVE  /\ status = "reading" /\ body.form = "object" /\ at <= Len(body.fields)
           /\ Field \in FieldSet /\ key = KeyOf(at) /\ key \in KeySet
           /\ Field = body.fields[at]
           /\ scan \in Scans
<1>1. body.fields \in Seq(FieldSet) /\ at \in Nat \ {0} /\ scan \in Scans
    BY DEF IInv, Typed, Bodies
<1>2. /\ status = "reading" /\ body.form = "object" /\ at <= Len(body.fields)
      /\ key = body.fields[at].key /\ Field = body.fields[at]
    BY DEF Comes, Reading, Field
<1>3. body.fields[at] \in FieldSet
    BY <1>1, <1>2
<1>4. key \in KeySet
    BY <1>2, <1>3 DEF FieldSet
<1> QED BY <1>1, <1>2, <1>3, <1>4 DEF KeyOf

LEMMA JudgedType ==
    ASSUME NEW v
    PROVE  JudgedAs(v) \in Readings
BY DEF JudgedAs, Readings, Limit, Invalid

\* A skipped field is stopped at or passed.
LEMMA Skipped ==
    ASSUME IInv, NEW key, Comes(key), NEW found \in Scans, Skip(found),
           scan.variant => found.variant, scan.nVariant => found.nVariant,
           scan.bestOf => found.bestOf,
           scan.maxCompletionTokens => found.maxCompletionTokens,
           IsVariant(key) => found.variant,
           Is(key, "n") /\ ~key.exact => found.nVariant,
           Is(key, "best_of") => found.bestOf,
           Is(key, "max_completion_tokens") => found.maxCompletionTokens,
           ~IsExactly(key, "max_tokens") /\ ~IsExactly(key, "n"),
           found.maxTokens = scan.maxTokens, found.n = scan.n
    PROVE  IInv'
<1>1. Fail(found) \/ Advance(found)
    BY DEF Skip
<1> QED BY <1>1, FieldHere, Stopped, Passed

\* What is remembered of fields that are not model is as it was.
Keeps(found) ==
    /\ found.variant = scan.variant /\ found.nVariant = scan.nVariant
    /\ found.bestOf = scan.bestOf
    /\ found.maxCompletionTokens = scan.maxCompletionTokens
    /\ found.maxTokens = scan.maxTokens /\ found.n = scan.n

LEMMA InitHolds == Init => IInv
<1> SUFFICES ASSUME Init PROVE IInv
    OBVIOUS
<1>1. PICK n \in 0..MaxFields :
            body \in [form : {"object", "array", "scalar"}, fields : [1..n -> Fields],
                      trailing : BOOLEAN]
    BY DEF Init
<1>2. n \in Nat /\ Fields \subseteq FieldSet
    BY FieldsAssumption
<1>3. body.fields \in [1..n -> FieldSet]
    BY <1>1, <1>2
<1>4. body.fields \in Seq(FieldSet) /\ Len(body.fields) \in Nat
    BY <1>2, <1>3
<1>5. body \in Bodies
    BY <1>1, <1>4 DEF Bodies
<1>6. scan \in Scans
    BY DEF Init, Scans, NothingFound, Readings, Absent
<1>7. Typed
    BY <1>4, <1>5, <1>6 DEF Typed, Init
<1>8. PassIsFaithful /\ ShapeIsFaithful
    BY <1>4 DEF Init, PassIsFaithful, ShapeIsFaithful, Found, Noted, Last, NothingFound
<1> QED BY <1>7, <1>8 DEF IInv

LEMMA StepHolds == IInv /\ [Next]_vars => IInv'
<1> SUFFICES ASSUME IInv, [Next]_vars PROVE IInv'
    OBVIOUS
<1> USE DEF Is, IsExactly, IsVariant
<1>1. CASE StopAtKey
    BY <1>1, Stopped, FieldHere DEF StopAtKey
<1>2. CASE ReadModel
  <2>1. PICK key \in KeySet : Comes(key) /\ IsExactly(key, "model")
      BY <1>2 DEF ReadModel
  <2>2. /\ status = "reading" /\ key = KeyOf(at) /\ scan \in Scans
        /\ body.form = "object" /\ at <= Len(body.fields)
      BY <2>1, FieldHere
  <2> DEFINE found == [scan EXCEPT !.modelSeen = TRUE]
  <2>3. CASE Skip([scan EXCEPT !.poisoned = TRUE])
    <3>1. [scan EXCEPT !.poisoned = TRUE] \in Scans
        BY <2>2 DEF Scans
    <3> QED BY <2>1, <2>2, <2>3, <3>1, Skipped DEF Scans
  <2>4. CASE Fail(found)
      BY <2>2, <2>4, Stopped DEF Scans
  <2>5. CASE Field.value \in Models /\ Advance([found EXCEPT !.model = Field.value])
    <3> DEFINE after == [found EXCEPT !.model = Field.value]
    <3>1. after \in Scans /\ Keeps(after)
        BY <2>2, <2>5 DEF Scans, Keeps
    <3> HIDE DEF after
    <3> QED BY <2>1, <2>2, <2>5, <3>1, Passed DEF Keeps, after
  <2>6. CASE Advance([found EXCEPT !.poisoned = (Field.value # Null)])
    <3> DEFINE after == [found EXCEPT !.poisoned = (Field.value # Null)]
    <3>1. after \in Scans /\ Keeps(after)
        BY <2>2 DEF Scans, Keeps
    <3> HIDE DEF after
    <3> QED BY <2>1, <2>2, <2>6, <3>1, Passed DEF Keeps, after
  <2> QED BY <1>2, <2>3, <2>4, <2>5, <2>6 DEF ReadModel
<1>3. CASE ReadMaxTokens
  <2>1. PICK key \in KeySet : Comes(key) /\ IsExactly(key, "max_tokens")
      BY <1>3 DEF ReadMaxTokens
  <2>2. /\ status = "reading" /\ key = KeyOf(at) /\ scan \in Scans
        /\ body.form = "object" /\ at <= Len(body.fields) /\ Field = body.fields[at]
      BY <2>1, FieldHere
  <2>3. CASE Fail([scan EXCEPT !.maxTokens = Invalid, !.inJudgedValue = TRUE])
      BY <2>2, <2>3, Stopped DEF Scans, Invalid, Readings
  <2>4. CASE Advance([scan EXCEPT !.maxTokens = JudgedAs(Field.value)])
    <3>1. [scan EXCEPT !.maxTokens = JudgedAs(Field.value)] \in Scans
        BY <2>2, JudgedType DEF Scans
    <3> QED BY <2>1, <2>2, <2>4, <3>1, Passed DEF Scans
  <2> QED BY <1>3, <2>3, <2>4 DEF ReadMaxTokens
<1>4. CASE ReadN
  <2>1. PICK key \in KeySet : Comes(key) /\ IsExactly(key, "n")
      BY <1>4 DEF ReadN
  <2>2. /\ status = "reading" /\ key = KeyOf(at) /\ scan \in Scans
        /\ body.form = "object" /\ at <= Len(body.fields) /\ Field = body.fields[at]
      BY <2>1, FieldHere
  <2>3. CASE Fail([scan EXCEPT !.n = Invalid, !.inJudgedValue = TRUE])
      BY <2>2, <2>3, Stopped DEF Scans, Invalid, Readings
  <2>4. CASE Advance([scan EXCEPT !.n = JudgedAs(Field.value)])
    <3>1. [scan EXCEPT !.n = JudgedAs(Field.value)] \in Scans
        BY <2>2, JudgedType DEF Scans
    <3> QED BY <2>1, <2>2, <2>4, <3>1, Passed DEF Scans
  <2> QED BY <1>4, <2>3, <2>4 DEF ReadN
<1>5. CASE SkipVariant
  <2>1. PICK key \in KeySet : Comes(key) /\ IsVariant(key)
      BY <1>5 DEF SkipVariant
  <2> DEFINE found == [scan EXCEPT !.variant = TRUE,
                              !.limitVariant = @ \/ Is(Field.key, "max_tokens")]
  <2>2. scan \in Scans /\ Skip(found)
      BY <1>5, <2>1, FieldHere DEF SkipVariant
  <2>3. /\ found \in Scans /\ found.variant
        /\ found.nVariant = scan.nVariant /\ found.bestOf = scan.bestOf
        /\ found.maxCompletionTokens = scan.maxCompletionTokens
        /\ found.maxTokens = scan.maxTokens /\ found.n = scan.n
      BY <2>2 DEF Scans
  <2> HIDE DEF found
  <2> QED BY <2>1, <2>2, <2>3, Skipped
<1>6. CASE Note
  <2>1. ASSUME NEW key \in KeySet, Comes(key), Is(key, "n"), ~key.exact,
               Skip([scan EXCEPT !.nVariant = TRUE])
        PROVE  IInv'
    <3>1. scan \in Scans /\ [scan EXCEPT !.nVariant = TRUE] \in Scans
        BY <2>1, FieldHere DEF Scans
    <3> QED BY <2>1, <3>1, Skipped DEF Scans
  <2>2. ASSUME NEW key \in KeySet, Comes(key), Is(key, "best_of"),
               Skip([scan EXCEPT !.bestOf = TRUE])
        PROVE  IInv'
    <3>1. scan \in Scans /\ [scan EXCEPT !.bestOf = TRUE] \in Scans
        BY <2>2, FieldHere DEF Scans
    <3> QED BY <2>2, <3>1, Skipped DEF Scans
  <2>3. ASSUME NEW key \in KeySet, Comes(key), Is(key, "max_completion_tokens"),
               Skip([scan EXCEPT !.maxCompletionTokens = TRUE])
        PROVE  IInv'
    <3>1. scan \in Scans /\ [scan EXCEPT !.maxCompletionTokens = TRUE] \in Scans
        BY <2>3, FieldHere DEF Scans
    <3> QED BY <2>3, <3>1, Skipped DEF Scans
  <2> QED BY <1>6, <2>1, <2>2, <2>3 DEF Note
<1>7. CASE SkipOther
  <2>1. PICK key \in KeySet : Comes(key) /\ Is(key, "other")
      BY <1>7 DEF SkipOther
  <2>2. scan \in Scans /\ Skip(scan)
      BY <1>7, <2>1, FieldHere DEF SkipOther
  <2> QED BY <2>1, <2>2, Skipped
<1>8. CASE EndOfObject
  <2> DEFINE found == IF scan.poisoned THEN [scan EXCEPT !.model = None] ELSE scan
  <2>1. status = "reading" /\ body.form = "object" /\ at > Len(body.fields) /\ Ends(found)
      BY <1>8 DEF EndOfObject, Reading
  <2>2. scan \in Scans /\ found \in Scans /\ at = Len(body.fields) + 1
      BY <2>1 DEF IInv, Typed, Scans, Bodies
  <2>3. CASE Fail(found)
      BY <2>1, <2>2, <2>3, Stopped
  <2>4. CASE status' = "ended" /\ scan' = found
                /\ UNCHANGED <<kind, access, body, at, shape, reply>>
    <3>1. /\ found.maxTokens = scan.maxTokens /\ found.n = scan.n
          /\ found.variant = scan.variant /\ found.nVariant = scan.nVariant
          /\ found.bestOf = scan.bestOf
          /\ found.maxCompletionTokens = scan.maxCompletionTokens
        BY <2>2 DEF Scans
    <3> HIDE DEF found
    <3>2. Found
        BY <2>1 DEF IInv, PassIsFaithful
    <3>3. Found'
        BY <2>4, <3>1, <3>2, FoundStays
    <3>4. Typed'
        BY <2>2, <2>4 DEF IInv, Typed
    <3>5. ShapeIsFaithful'
        BY <2>1, <2>4 DEF IInv, ShapeIsFaithful
    <3> QED BY <2>2, <2>4, <3>3, <3>4, <3>5 DEF IInv, PassIsFaithful
  <2> QED BY <2>1, <2>3, <2>4 DEF Ends
<1>9. CASE ReadArray
  <2> DEFINE v == body.fields[1].value
             found == [scan EXCEPT !.model = IF v = Null THEN None ELSE v]
  <2>1. /\ status = "reading" /\ body.form = "array" /\ scan \in Scans
        /\ \/ Fail(scan) \/ Ends(scan)
           \/ v \in Models \cup {Null} /\ (Fail(found) \/ Ends(found))
      BY <1>9 DEF ReadArray, IInv, Typed
  <2>2. v \in Models \cup {Null} => found \in Scans
      BY <2>1 DEF Scans
  <2>3. ASSUME NEW after \in Scans, Ends(after)
        PROVE  IInv'
    <3>1. CASE Fail(after)
        BY <2>1, <2>3, <3>1, Stopped
    <3>2. CASE status' = "ended" /\ scan' = after
                  /\ UNCHANGED <<kind, access, body, at, shape, reply>>
        BY <2>1, <2>3, <3>2 DEF IInv, Typed, PassIsFaithful, ShapeIsFaithful
    <3> QED BY <2>3, <3>1, <3>2 DEF Ends
  <2> HIDE DEF v, found
  <2> QED BY <2>1, <2>2, <2>3, Stopped
<1>10. CASE ReadScalar
    BY <1>10, Stopped DEF ReadScalar, IInv, Typed
<1>11. CASE Conclude
  <2>1. /\ status \in {"ended", "failed"} /\ shape' = Shape /\ status' = "concluded"
        /\ UNCHANGED <<kind, access, body, at, scan, reply>>
      BY <1>11 DEF Conclude
  <2>2. /\ shape'.readInFull = (status = "ended")
        /\ scan.variant => shape'.variant
        /\ shape'.maxTokens = IF scan.limitVariant THEN Invalid ELSE scan.maxTokens
        /\ shape'.nNotOne = (scan.nVariant \/ scan.n \notin {Absent, Limit(1)})
        /\ shape'.maxCompletionTokens = scan.maxCompletionTokens
        /\ shape'.bestOf = scan.bestOf
      BY <2>1 DEF Shape
  <2>3. Typed'
      BY <2>1 DEF IInv, Typed
  <2>4. Found => Found'
      BY <2>1, FoundStays
  <2>5. PassIsFaithful'
      BY <2>1, <2>2, <2>4 DEF IInv, PassIsFaithful
  <2>6. ShapeIsFaithful'
      BY <2>1, <2>2 DEF IInv, ShapeIsFaithful
  <2> QED BY <2>3, <2>5, <2>6 DEF IInv
<1>12. CASE Admit
  <2>1. /\ status = "concluded" /\ UNCHANGED <<kind, access, body, at, scan, status, shape>>
        /\ reply' = "admitted" =>
                ~shape.variant /\ ~(access = "paid" /\ OutputCapRefusal)
      BY <1>12 DEF Admit
  <2>2. Typed' /\ PassIsFaithful'
    <3>1. Found => Found'
        BY <2>1, FoundStays
    <3> QED BY <2>1, <3>1 DEF IInv, Typed, PassIsFaithful
  <2>3. ShapeIsFaithful'
      BY <2>1 DEF IInv, ShapeIsFaithful, OutputCapRefusal
  <2> QED BY <2>2, <2>3 DEF IInv
<1>13. CASE UNCHANGED vars
  <2>1. Found => Found'
      BY <1>13, FoundStays DEF vars
  <2>2. Typed' /\ PassIsFaithful'
      BY <1>13, <2>1 DEF vars, IInv, Typed, PassIsFaithful
  <2>3. ShapeIsFaithful'
      BY <1>13 DEF vars, IInv, ShapeIsFaithful, OutputCapRefusal
  <2> QED BY <2>2, <2>3 DEF IInv
<1> QED BY <1>1, <1>2, <1>3, <1>4, <1>5, <1>6, <1>7, <1>8, <1>9, <1>10, <1>11, <1>12, <1>13
        DEF Next
-----------------------------------------------------------------------------
(***************************************************************************)
(* What is let through.                                                    *)
(***************************************************************************)

\* Of a body read to its end, what Last says of the fields passed is said of all.
LEMMA LastOfAll ==
    ASSUME NEW name, NEW reading, Typed, at = Len(body.fields) + 1, Last(name, reading)
    PROVE  \/ /\ reading = Absent
              /\ \A i \in DOMAIN body.fields : ~IsExactly(KeyOf(i), name)
           \/ \E i \in DOMAIN body.fields :
                /\ IsExactly(KeyOf(i), name)
                /\ reading = JudgedAs(body.fields[i].value)
                /\ \A j \in DOMAIN body.fields : IsExactly(KeyOf(j), name) => j <= i
<1>1. DOMAIN body.fields = 1..(at - 1) /\ Len(body.fields) \in Nat
    BY DEF Typed, Bodies
<1>2. ASSUME NEW i \in 1..(at - 1), NEW j \in 1..(at - 1), j > i
      PROVE  j \in (i + 1)..(at - 1)
    BY <1>1, <1>2
<1>3. CASE reading = Absent /\ \A i \in 1..(at - 1) : ~IsExactly(KeyOf(i), name)
    BY <1>1, <1>3
<1>4. CASE \E i \in 1..(at - 1) :
                /\ IsExactly(KeyOf(i), name)
                /\ reading = JudgedAs(body.fields[i].value)
                /\ \A j \in (i + 1)..(at - 1) : ~IsExactly(KeyOf(j), name)
  <2>1. PICK i \in 1..(at - 1) :
                /\ IsExactly(KeyOf(i), name)
                /\ reading = JudgedAs(body.fields[i].value)
                /\ \A j \in (i + 1)..(at - 1) : ~IsExactly(KeyOf(j), name)
      BY <1>4
  <2>2. \A j \in 1..(at - 1) : IsExactly(KeyOf(j), name) => j <= i
      BY <1>1, <1>2, <2>1
  <2> QED BY <1>1, <2>1, <2>2
<1> QED BY <1>3, <1>4 DEF Last

\* What is judged to be a limit is that number to every reader.
LEMMA LimitIsRead ==
    ASSUME NEW reader, NEW name, NEW reading, Typed, at = Len(body.fields) + 1,
           Last(name, reading), reading.state = "limit",
           \A j \in DOMAIN body.fields : Is(KeyOf(j), name) => KeyOf(j).exact
    PROVE  ReadBy(reader, name) = reading.limit /\ reading.limit \in Nat
<1>1. PICK i \in DOMAIN body.fields :
                /\ IsExactly(KeyOf(i), name)
                /\ reading = JudgedAs(body.fields[i].value)
                /\ \A j \in DOMAIN body.fields : IsExactly(KeyOf(j), name) => j <= i
    BY LastOfAll DEF Absent
<1>2. body.fields[i].value \in Nat /\ reading.limit = body.fields[i].value
    BY <1>1 DEF JudgedAs, Limit, Invalid
<1>3. body.fields[i].value # Null
    BY <1>2, NullsAssumption
<1>4. body.fields \in Seq(FieldSet)
    BY DEF Typed, Bodies
<1> QED BY <1>1, <1>2, <1>3, <1>4, LastIsRead DEF IsExactly

LEMMA BoundedWork == IInv => PaidWorkIsBounded
<1> SUFFICES ASSUME IInv, reply = "admitted", access = "paid", NEW reader \in Readers, ~Rejected
             PROVE  /\ LimitsOf(reader) = {shape.maxTokens.limit}
                    /\ shape.maxTokens.limit \in 1..Cap
                    /\ CompletionsOf(reader) = {1}
    BY DEF PaidWorkIsBounded
<1>1. /\ Typed /\ body.form = "object" /\ status = "concluded"
      /\ ~shape.variant /\ ~OutputCapRefusal
    BY DEF IInv, Rejected, ShapeIsFaithful
<1>2. /\ ~scan.variant /\ shape.readInFull
      /\ shape.maxTokens = IF scan.limitVariant THEN Invalid ELSE scan.maxTokens
      /\ shape.maxTokens.state = "limit" /\ shape.maxTokens.limit \in 1..Cap
    BY <1>1 DEF IInv, ShapeIsFaithful, OutputCapRefusal
<1>3. shape.maxTokens = scan.maxTokens
    BY <1>2 DEF Invalid
<1>4. Found /\ at = Len(body.fields) + 1
    BY <1>1, <1>2 DEF IInv, PassIsFaithful
<1>5. DOMAIN body.fields = 1..(at - 1) /\ body.fields \in Seq(FieldSet)
    BY <1>1, <1>4 DEF Typed, Bodies
<1>6. \A i \in DOMAIN body.fields : Is(KeyOf(i), "max_tokens") => KeyOf(i).exact
    BY <1>2, <1>4, <1>5 DEF Found, Noted, IsVariant, Is
<1>7. ReadBy(reader, "max_tokens") = shape.maxTokens.limit
    BY <1>1, <1>2, <1>3, <1>4, <1>6, LimitIsRead DEF Found
<1>8. CASE kind = "ollama"
    BY <1>2, <1>7, <1>8 DEF LimitsOf, CompletionsOf
<1>9. CASE kind = "openai-compat"
  <2>1. /\ ~scan.maxCompletionTokens /\ ~scan.bestOf /\ ~scan.nVariant
        /\ scan.n \in {Absent, Limit(1)}
      BY <1>1, <1>9 DEF IInv, ShapeIsFaithful, OutputCapRefusal
  <2>2. \A i \in DOMAIN body.fields :
            /\ ~Is(KeyOf(i), "max_completion_tokens") /\ ~Is(KeyOf(i), "best_of")
            /\ Is(KeyOf(i), "n") => KeyOf(i).exact
      BY <1>4, <1>5, <2>1 DEF Found, Noted
  <2>3. /\ ReadBy(reader, "max_completion_tokens") = Null
        /\ ReadBy(reader, "best_of") = Null
      BY <2>2, NothingIsRead
  <2>4. ReadBy(reader, "n") \in {Null, 1}
    <3>1. CASE scan.n = Limit(1)
        BY <1>1, <1>4, <2>2, <3>1, LimitIsRead DEF Found, Limit
    <3>2. CASE scan.n = Absent
      <4>1. \A i \in DOMAIN body.fields : ~IsExactly(KeyOf(i), "n")
        <5>1. \A v : JudgedAs(v) # Absent
            BY DEF JudgedAs, Limit, Invalid, Absent
        <5> QED BY <1>1, <1>4, <3>2, <5>1, LastOfAll DEF Found
      <4> QED BY <2>2, <4>1, NothingIsRead DEF IsExactly
    <3> QED BY <2>1, <3>1, <3>2
  <2>5. LimitsOf(reader) = {shape.maxTokens.limit}
      BY <1>7, <1>9, <2>3 DEF LimitsOf
  <2>6. \A f \in {"n", "best_of"} : (IF ReadBy(reader, f) = Null THEN 1 ELSE ReadBy(reader, f)) = 1
      BY <2>3, <2>4
  <2>7. CompletionsOf(reader) = {1}
      BY <1>9, <2>6 DEF CompletionsOf
  <2> QED BY <1>2, <2>5, <2>7
<1> QED BY <1>1, <1>8, <1>9 DEF Typed

\* Whatever the body of a paid request is made of, and however long it is, the backend
\* it is let through to can read no other limit in it than the one that was priced, and
\* no second completion (RequestShape::parse, output_cap_refusal).
THEOREM PaidWorkBounded == Spec => []PaidWorkIsBounded
BY InitHolds, StepHolds, BoundedWork, PTL DEF Spec
-----------------------------------------------------------------------------
(***************************************************************************)
(* What a read of model alone makes of a body.                             *)
(***************************************************************************)

Named(b) == {i \in DOMAIN b.fields : b.form = "array" \/ IsExactly(b.fields[i].key, "model")}

Whole(b) ==
    /\ b.form \in {"object", "array"} /\ ~b.trailing
    /\ \A i \in DOMAIN b.fields :
            b.fields[i].value # Cut /\ (b.form = "object" => b.fields[i].key # Undecodable)

ModelOf(v) == IF v \in Models THEN v ELSE None

LEMMA NamedFinite ==
    ASSUME NEW b \in Bodies
    PROVE  /\ IsFiniteSet(Named(b))
           /\ Cardinality(Named(b)) = 1 <=> \E i : Named(b) = {i}
<1>1. Len(b.fields) \in Nat /\ Named(b) \subseteq 1..Len(b.fields)
    BY DEF Bodies, Named
<1>2. IsFiniteSet(1..Len(b.fields))
    BY <1>1, FS_Interval
<1>3. IsFiniteSet(Named(b))
    BY <1>1, <1>2, FS_Subset
<1> QED BY <1>3, FS_Singleton

\* One field is named, and the body is whole: its value is what counts.
LEMMA AloneIsNamed ==
    ASSUME NEW b \in Bodies, Whole(b), NEW i, Named(b) = {i}
    PROVE  ModelAlone(b) = ModelOf(b.fields[i].value)
<1>1. Cardinality(Named(b)) = 1
    BY NamedFinite
<1>2. \A f \in Elements(b.fields) : f.value # Cut /\ (b.form = "object" => f.key # Undecodable)
    BY DEF Whole, Elements
<1>3. (CHOOSE j \in Named(b) : TRUE) = i
    OBVIOUS
<1> QED BY <1>1, <1>2, <1>3 DEF ModelAlone, Whole, Named, ModelOf

\* Otherwise it reads as none.
LEMMA AloneIsNone ==
    ASSUME NEW b \in Bodies,
           ~Whole(b) \/ \A i : Named(b) = {i} => b.fields[i].value \notin Models
    PROVE  ModelAlone(b) = None
<1>1. CASE ~Whole(b)
  <2>1. ~ /\ b.form \in {"object", "array"} /\ ~b.trailing
          /\ \A f \in Elements(b.fields) :
                f.value # Cut /\ (b.form = "object" => f.key # Undecodable)
      BY <1>1 DEF Whole, Elements
  <2> QED BY <2>1 DEF ModelAlone
<1>2. CASE \A i : Named(b) # {i}
  <2>1. Cardinality(Named(b)) # 1
      BY <1>2, NamedFinite
  <2> QED BY <2>1 DEF ModelAlone, Named
<1>3. ASSUME NEW i, Named(b) = {i}, b.fields[i].value \notin Models
      PROVE  ModelAlone(b) = None
  <2>1. (CHOOSE j \in Named(b) : TRUE) = i
      BY <1>3
  <2> QED BY <1>3, <2>1 DEF ModelAlone, Named
<1> QED BY <1>1, <1>2, <1>3

LEMMA AloneType ==
    ASSUME NEW b \in Bodies
    PROVE  ModelAlone(b) \in Models \cup {None}
<1>1. CASE ~Whole(b) \/ \A i : Named(b) = {i} => b.fields[i].value \notin Models
    BY <1>1, AloneIsNone
<1>2. ASSUME Whole(b), NEW i, Named(b) = {i}, b.fields[i].value \in Models
      PROVE  ModelAlone(b) \in Models
    BY <1>2, AloneIsNamed DEF ModelOf
<1> QED BY <1>1, <1>2
-----------------------------------------------------------------------------
(***************************************************************************)
(* What the pass makes of model, and of a max_tokens it does not get over. *)
(***************************************************************************)

IsModel(i) == IsExactly(KeyOf(i), "model")

\* Nothing passed has broken the body.
WholeSoFar ==
    \A i \in 1..(at - 1) : KeyOf(i) # Undecodable /\ body.fields[i].value # Cut

\* None of the fields passed is model, or one is, or several are.
ModelSoFar ==
    \/ /\ ~scan.modelSeen /\ ~scan.poisoned /\ scan.model = None
       /\ \A i \in 1..(at - 1) : ~IsModel(i)
    \/ /\ scan.modelSeen
       /\ \E i \in 1..(at - 1) :
            /\ IsModel(i)
            /\ \A j \in 1..(at - 1) : IsModel(j) => j = i
            /\ scan.model = ModelOf(body.fields[i].value)
            /\ scan.poisoned => scan.model = None
    \/ /\ scan.modelSeen /\ scan.poisoned
       /\ \E i, j \in 1..(at - 1) : i # j /\ IsModel(i) /\ IsModel(j)

\* What the pass made of model, and what its end leaves to be read again.
ModelIsKept ==
    /\ status = "reading" =>
            IF body.form = "object" THEN WholeSoFar /\ ModelSoFar ELSE scan.model = None
    /\ status = "ended" => scan.model = ModelAlone(body)
    /\ status = "failed" /\ ~scan.inJudgedValue => ModelAlone(body) = None

\* A max_tokens key is remembered when it is passed, and when it is stopped at.
LimitIsKept ==
    body.form = "object" =>
        \A i \in DOMAIN body.fields :
            /\ Is(KeyOf(i), "max_tokens")
            /\ i <= IF status = "failed" THEN at ELSE at - 1
            => scan.limitVariant \/ scan.maxTokens # Absent

\* A request is for a model by a key in no other spelling.
VariantsAreSeen ==
    status = "concluded" /\ body.form = "object" /\ shape.model # None /\ ~shape.variant =>
        \A i \in DOMAIN body.fields : ~IsVariant(KeyOf(i))

ReplyTyped ==
    /\ Elements(body.fields) \subseteq Fields
    /\ shape.model \in Models \cup {None} /\ shape.readInFull \in BOOLEAN
    /\ reply \in {"none", "case variant", "output cap", "admitted"}

MInv == ReplyTyped /\ ModelIsKept /\ ModelIsItsOwn /\ LimitIsKept /\ VariantsAreSeen

\* The limit is remembered of the fields passed, and of the one at hand.
KeepsLimit(found) ==
    /\ scan.limitVariant => found.limitVariant
    /\ scan.maxTokens # Absent => found.maxTokens # Absent
    /\ at \in DOMAIN body.fields /\ Is(KeyOf(at), "max_tokens") =>
            found.limitVariant \/ found.maxTokens # Absent

LEMMA KeyStays == UNCHANGED body => \A i : KeyOf(i)' = KeyOf(i)
BY DEF KeyOf

LEMMA LimitStays ==
    ASSUME Typed, LimitIsKept, status = "reading", NEW found, KeepsLimit(found),
           scan' = found, UNCHANGED body,
           \/ status' = "failed" /\ at' = at
           \/ status' = status /\ at' = at + 1
    PROVE  LimitIsKept'
<1> SUFFICES ASSUME body.form = "object", NEW i \in DOMAIN body.fields,
                    Is(KeyOf(i), "max_tokens"),
                    i <= IF status' = "failed" THEN at' ELSE at' - 1
             PROVE  found.limitVariant \/ found.maxTokens # Absent
    BY KeyStays DEF LimitIsKept, Is
<1>1. at \in Nat /\ i \in Nat /\ i <= at
    BY DEF Typed, Bodies
<1>2. CASE i = at
    BY <1>2 DEF KeepsLimit
<1>3. CASE i # at
  <2>1. i <= at - 1
      BY <1>1, <1>3
  <2>2. scan.limitVariant \/ scan.maxTokens # Absent
      BY <2>1 DEF LimitIsKept
  <2> QED BY <2>2 DEF KeepsLimit
<1> QED BY <1>2, <1>3

LEMMA StopKeepsModel ==
    ASSUME IInv, MInv, status = "reading", NEW found, Fail(found), KeepsLimit(found),
           ~found.inJudgedValue => ModelAlone(body) = None
    PROVE  MInv'
<1>1. /\ status' = "failed" /\ scan' = found
      /\ UNCHANGED <<kind, access, body, at, shape, reply>>
    BY DEF Fail
<1>2. LimitIsKept'
    BY <1>1, LimitStays DEF IInv, MInv
<1>3. ModelIsKept'
    BY <1>1 DEF ModelIsKept
<1>4. ModelIsItsOwn' /\ VariantsAreSeen'
    BY <1>1 DEF ModelIsItsOwn, VariantsAreSeen
<1>5. ReplyTyped'
    BY <1>1 DEF MInv, ReplyTyped, Elements
<1> QED BY <1>2, <1>3, <1>4, <1>5 DEF MInv

LEMMA PassKeepsModel ==
    ASSUME IInv, MInv, NEW key, Comes(key), key # Undecodable, Field.value # Cut,
           NEW found, Advance(found), KeepsLimit(found), ModelSoFar'
    PROVE  MInv'
<1>1. /\ at' = at + 1 /\ scan' = found /\ status = "reading" /\ body.form = "object"
      /\ UNCHANGED <<kind, access, body, status, shape, reply>>
    BY DEF Advance, Comes, Reading
<1>2. LimitIsKept'
    BY <1>1, LimitStays DEF IInv, MInv
<1>3. WholeSoFar'
  <2>1. WholeSoFar /\ at \in Nat \ {0} /\ key = KeyOf(at) /\ Field = body.fields[at]
      BY <1>1, FieldHere DEF IInv, MInv, ModelIsKept, Typed
  <2>2. \A i \in 1..(at' - 1) : i = at \/ i \in 1..(at - 1)
      BY <1>1, <2>1
  <2> QED BY <1>1, <2>1, <2>2, KeyStays DEF WholeSoFar
<1>4. ModelIsKept'
    BY <1>1, <1>3 DEF ModelIsKept
<1>5. ModelIsItsOwn' /\ VariantsAreSeen'
    BY <1>1 DEF ModelIsItsOwn, VariantsAreSeen
<1>6. ReplyTyped'
    BY <1>1 DEF MInv, ReplyTyped, Elements
<1> QED BY <1>2, <1>4, <1>5, <1>6 DEF MInv

\* Of a body whose next field is not model nothing more is known of model.
LEMMA OtherKeepsModel ==
    ASSUME IInv, MInv, NEW key, Comes(key), ~IsExactly(key, "model"),
           NEW found, Advance(found),
           found.modelSeen = scan.modelSeen, found.poisoned = scan.poisoned,
           found.model = scan.model
    PROVE  ModelSoFar'
<1>1. /\ at' = at + 1 /\ scan' = found /\ UNCHANGED body
      /\ status = "reading" /\ body.form = "object"
    BY DEF Advance, Comes, Reading
<1>2. ModelSoFar /\ at \in Nat \ {0} /\ key = KeyOf(at)
    BY <1>1, FieldHere DEF IInv, MInv, ModelIsKept, Typed
<1>3. \A i : IsModel(i)' <=> IsModel(i)
    BY <1>1, KeyStays DEF IsModel, IsExactly, Is
<1>4. ~IsModel(at)
    BY <1>2 DEF IsModel
<1>5. \A i : i \in 1..(at' - 1) <=> i = at \/ i \in 1..(at - 1)
    BY <1>1, <1>2
<1>6. \A i \in 1..(at' - 1) : IsModel(i)' => i \in 1..(at - 1) /\ IsModel(i)
    BY <1>3, <1>4, <1>5
<1>7. CASE /\ ~scan.modelSeen /\ ~scan.poisoned /\ scan.model = None
           /\ \A i \in 1..(at - 1) : ~IsModel(i)
    BY <1>1, <1>6, <1>7 DEF ModelSoFar
<1>8. CASE /\ scan.modelSeen
           /\ \E i \in 1..(at - 1) :
                /\ IsModel(i)
                /\ \A j \in 1..(at - 1) : IsModel(j) => j = i
                /\ scan.model = ModelOf(body.fields[i].value)
                /\ scan.poisoned => scan.model = None
  <2>1. PICK i \in 1..(at - 1) :
                /\ IsModel(i)
                /\ \A j \in 1..(at - 1) : IsModel(j) => j = i
                /\ scan.model = ModelOf(body.fields[i].value)
                /\ scan.poisoned => scan.model = None
      BY <1>8
  <2>2. i \in 1..(at' - 1) /\ IsModel(i)'
      BY <1>3, <1>5, <2>1
  <2>3. \A j \in 1..(at' - 1) : IsModel(j)' => j = i
      BY <1>6, <2>1
  <2>4. scan'.model = ModelOf(body'.fields[i].value)
      BY <1>1, <2>1
  <2> QED BY <1>1, <1>8, <2>1, <2>2, <2>3, <2>4 DEF ModelSoFar
<1>9. CASE /\ scan.modelSeen /\ scan.poisoned
           /\ \E i, j \in 1..(at - 1) : i # j /\ IsModel(i) /\ IsModel(j)
  <2>1. PICK i \in 1..(at - 1), j \in 1..(at - 1) : i # j /\ IsModel(i) /\ IsModel(j)
      BY <1>9
  <2>2. i \in 1..(at' - 1) /\ j \in 1..(at' - 1) /\ IsModel(i)' /\ IsModel(j)'
      BY <1>3, <1>5, <2>1
  <2> QED BY <1>1, <1>9, <2>1, <2>2 DEF ModelSoFar
<1> QED BY <1>2, <1>7, <1>8, <1>9 DEF ModelSoFar

\* Where the JSON ends, or a key does not decode, the body reads as none.
LEMMA CutIsNone ==
    ASSUME IInv, NEW key, Comes(key), Field.value = Cut \/ key = Undecodable
    PROVE  ModelAlone(body) = None
<1>1. body \in Bodies /\ at \in Nat \ {0}
    BY DEF IInv, Typed
<1>2. at <= Len(body.fields) /\ Field = body.fields[at] /\ key = KeyOf(at) /\ body.form = "object"
    BY FieldHere
<1>3. at \in DOMAIN body.fields
    BY <1>1, <1>2 DEF Bodies
<1>4. ~Whole(body)
    BY <1>2, <1>3 DEF Whole, KeyOf
<1> QED BY <1>1, <1>4, AloneIsNone

\* So a skip that stops loses nothing.
LEMMA SkipKeepsModel ==
    ASSUME IInv, MInv, NEW key, Comes(key), key # Undecodable, ~IsExactly(key, "model"),
           NEW found, Skip(found), KeepsLimit(found),
           found.modelSeen = scan.modelSeen, found.poisoned = scan.poisoned,
           found.model = scan.model
    PROVE  MInv'
<1>1. CASE Field.value = Cut
  <2>1. Fail(found)
      BY <1>1 DEF Skip
  <2>2. ModelAlone(body) = None
      BY <1>1, CutIsNone
  <2> QED BY <2>1, <2>2, StopKeepsModel, FieldHere
<1>2. CASE Field.value # Cut
  <2>1. Advance(found)
      BY <1>2 DEF Skip
  <2> QED BY <1>2, <2>1, OtherKeepsModel, PassKeepsModel
<1> QED BY <1>1, <1>2

\* A first model is what it says; a second spoils it.
LEMMA ModelKeepsModel ==
    ASSUME IInv, MInv, ReadModel
    PROVE  MInv'
<1>1. PICK key \in KeySet : Comes(key) /\ IsExactly(key, "model")
    BY DEF ReadModel
<1>2. /\ status = "reading" /\ body.form = "object" /\ key = KeyOf(at) /\ scan \in Scans
      /\ Field = body.fields[at] /\ at <= Len(body.fields) /\ key # Undecodable
    BY <1>1, FieldHere DEF IsExactly, Is
<1>3. body \in Bodies /\ at \in Nat \ {0} /\ at \in DOMAIN body.fields
    BY <1>2 DEF IInv, Typed, Bodies
<1>4. ~Is(key, "max_tokens")
    BY <1>1 DEF IsExactly, Is
<1>5. ModelSoFar /\ IsModel(at)
    BY <1>1, <1>2 DEF MInv, ModelIsKept, IsModel
<1> DEFINE v     == Field.value
           seen  == [scan EXCEPT !.modelSeen = TRUE]
           twice == [scan EXCEPT !.poisoned = TRUE]
           one   == [seen EXCEPT !.model = v]
           none  == [seen EXCEPT !.poisoned = (v # Null)]
<1>6. /\ seen \in Scans /\ seen.modelSeen /\ seen.poisoned = scan.poisoned
      /\ seen.model = scan.model /\ seen.limitVariant = scan.limitVariant
      /\ seen.maxTokens = scan.maxTokens
    BY <1>2 DEF Scans
<1>7. /\ twice.poisoned /\ twice.modelSeen = scan.modelSeen
      /\ twice.limitVariant = scan.limitVariant /\ twice.maxTokens = scan.maxTokens
    BY <1>2 DEF Scans
<1> HIDE DEF seen
<1>8. /\ one.modelSeen /\ one.poisoned = scan.poisoned /\ one.model = v
      /\ one.limitVariant = scan.limitVariant /\ one.maxTokens = scan.maxTokens
    BY <1>6 DEF Scans
<1>9. /\ none.modelSeen /\ none.model = scan.model
      /\ none.limitVariant = scan.limitVariant /\ none.maxTokens = scan.maxTokens
    BY <1>6 DEF Scans
<1> HIDE DEF twice, one, none
<1>10. KeepsLimit(seen) /\ KeepsLimit(twice) /\ KeepsLimit(one) /\ KeepsLimit(none)
    BY <1>2, <1>4, <1>6, <1>7, <1>8, <1>9 DEF KeepsLimit
<1>11. ASSUME NEW found, Advance(found)
       PROVE  /\ scan' = found /\ UNCHANGED body /\ at' = at + 1
              /\ at \in 1..(at' - 1)
              /\ \A i \in 1..(at - 1) : i \in 1..(at' - 1) /\ i # at
              /\ \A i \in 1..(at' - 1) : i = at \/ i \in 1..(at - 1)
              /\ \A i : IsModel(i)' <=> IsModel(i)
  <2>1. scan' = found /\ UNCHANGED body /\ at' = at + 1
      BY <1>11 DEF Advance
  <2>2. \A i : IsModel(i)' <=> IsModel(i)
      BY <2>1, KeyStays DEF IsModel, IsExactly, Is
  <2> QED BY <1>3, <2>1, <2>2
<1>12. CASE scan.modelSeen
  <2>1. Skip(twice)
      BY <1>12 DEF ReadModel, twice
  <2>2. CASE v = Cut
    <3>1. Fail(twice) /\ ModelAlone(body) = None
        BY <1>1, <2>1, <2>2, CutIsNone DEF Skip
    <3> QED BY <1>2, <1>10, <3>1, StopKeepsModel
  <2>3. CASE v # Cut
    <3>1. Advance(twice)
        BY <2>1, <2>3 DEF Skip
    <3>2. PICK i \in 1..(at - 1) : IsModel(i)
        BY <1>5, <1>12 DEF ModelSoFar
    <3>3. ModelSoFar'
        BY <1>5, <1>7, <1>11, <1>12, <3>1, <3>2 DEF ModelSoFar
    <3> QED BY <1>1, <1>2, <1>10, <2>3, <3>1, <3>3, PassKeepsModel
  <2> QED BY <2>2, <2>3
<1>13. CASE ~scan.modelSeen
  <2>0. /\ ~scan.poisoned /\ scan.model = None
        /\ \A i \in 1..(at - 1) : ~IsModel(i)
      BY <1>5, <1>13 DEF ModelSoFar
  <2>1. CASE v \in {Broken, Cut} /\ Fail(seen)
    <3>1. v \notin Models
        BY <2>1, NullsAssumption
    <3>2. at \in Named(body)
        BY <1>1, <1>2, <1>3 DEF Named, KeyOf
    <3>3. ModelAlone(body) = None
        BY <1>2, <1>3, <3>1, <3>2, AloneIsNone
    <3> QED BY <1>2, <1>10, <2>1, <3>3, StopKeepsModel
  <2>2. ASSUME NEW found, Advance(found), v \notin {Broken, Cut}, KeepsLimit(found),
               found.modelSeen, found.model = ModelOf(v), found.poisoned => found.model = None
        PROVE  MInv'
    <3>1. \A j \in 1..(at' - 1) : IsModel(j)' => j = at
        BY <1>11, <2>0, <2>2
    <3>2. found.model = ModelOf(body'.fields[at].value)
        BY <1>2, <1>11, <2>2
    <3>3. ModelSoFar'
        BY <1>5, <1>11, <2>2, <3>1, <3>2 DEF ModelSoFar
    <3> QED BY <1>1, <1>2, <2>2, <3>3, PassKeepsModel
  <2>3. CASE v \in Models \ {Broken, Cut} /\ Advance(one)
      BY <1>8, <1>10, <2>0, <2>2, <2>3 DEF ModelOf
  <2>4. CASE v \notin Models \cup {Broken, Cut} /\ Advance(none)
      BY <1>6, <1>9, <1>10, <2>0, <2>2, <2>4 DEF ModelOf
  <2>5. \/ v \in {Broken, Cut} /\ Fail(seen)
        \/ v \in Models \ {Broken, Cut} /\ Advance(one)
        \/ v \notin Models \cup {Broken, Cut} /\ Advance(none)
      BY <1>13 DEF ReadModel, seen, one, none
  <2> QED BY <2>1, <2>3, <2>4, <2>5
<1> QED BY <1>12, <1>13

\* Of a key that is not model, the fields that tell of model are as they were.
KeepsModel(found) ==
    found.modelSeen = scan.modelSeen /\ found.poisoned = scan.poisoned
        /\ found.model = scan.model

LEMMA MInit == Init => MInv
<1> SUFFICES ASSUME Init PROVE MInv
    OBVIOUS
<1>1. PICK n \in 0..MaxFields :
            body \in [form : {"object", "array", "scalar"}, fields : [1..n -> Fields],
                      trailing : BOOLEAN]
    BY DEF Init
<1>2. Elements(body.fields) \subseteq Fields
    BY <1>1 DEF Elements
<1>3. /\ at = 1 /\ status = "reading" /\ reply = "none" /\ shape = NoShape /\ scan = NothingFound
    BY DEF Init
<1>4. scan.model = None /\ ~scan.modelSeen /\ ~scan.poisoned
    BY <1>3 DEF NothingFound
<1>5. ReplyTyped
    BY <1>2, <1>3 DEF ReplyTyped, NoShape
<1>6. WholeSoFar /\ ModelSoFar
    BY <1>3, <1>4 DEF WholeSoFar, ModelSoFar
<1>7. LimitIsKept
  <2>1. n \in Nat /\ DOMAIN body.fields = 1..n
      BY <1>1
  <2> QED BY <1>3, <2>1 DEF LimitIsKept
<1> QED BY <1>3, <1>4, <1>5, <1>6, <1>7
        DEF MInv, ModelIsKept, ModelIsItsOwn, VariantsAreSeen

\* A judged field other than model.
LEMMA JudgedKeepsModel ==
    ASSUME IInv, MInv, NEW key, Comes(key), key # Undecodable, ~IsExactly(key, "model"),
           NEW found,
           \/ Fail(found) /\ found.inJudgedValue
           \/ Advance(found) /\ Field.value # Cut /\ KeepsModel(found),
           KeepsLimit(found)
    PROVE  MInv'
<1>1. CASE Fail(found) /\ found.inJudgedValue
    BY <1>1, FieldHere, StopKeepsModel
<1>2. CASE Advance(found) /\ Field.value # Cut /\ KeepsModel(found)
    BY <1>2, OtherKeepsModel, PassKeepsModel DEF KeepsModel
<1> QED BY <1>1, <1>2

\* The pass ends, and nothing is passed or forgotten.
LEMMA EndKeepsModel ==
    ASSUME IInv, MInv, status = "reading", NEW found, Ends(found), ~body.trailing,
           found.model = ModelAlone(body), found.limitVariant = scan.limitVariant,
           found.maxTokens = scan.maxTokens
    PROVE  MInv'
<1>1. /\ status' = "ended" /\ scan' = found
      /\ UNCHANGED <<kind, access, body, at, shape, reply>>
    BY DEF Ends
<1>2. LimitIsKept'
    BY <1>1, KeyStays DEF MInv, LimitIsKept, Is
<1>3. ModelIsKept' /\ ModelIsItsOwn' /\ VariantsAreSeen'
    BY <1>1 DEF ModelIsKept, ModelIsItsOwn, VariantsAreSeen
<1>4. ReplyTyped'
    BY <1>1 DEF MInv, ReplyTyped, Elements
<1> QED BY <1>2, <1>3, <1>4 DEF MInv

\* At the end of an object what was kept of model is what a read of it alone makes.
LEMMA EndOfObjectKeepsModel == IInv /\ MInv /\ EndOfObject => MInv'
<1> SUFFICES ASSUME IInv, MInv, EndOfObject PROVE MInv'
    OBVIOUS
<1> DEFINE found == IF scan.poisoned THEN [scan EXCEPT !.model = None] ELSE scan
<1>1. /\ status = "reading" /\ body.form = "object" /\ at > Len(body.fields) /\ Ends(found)
    BY DEF EndOfObject, Reading
<1>2. /\ scan \in Scans /\ body \in Bodies /\ body.fields \in Seq(FieldSet)
      /\ DOMAIN body.fields = 1..(at - 1) /\ at \in Nat
    BY <1>1 DEF IInv, Typed, Bodies
<1>3. /\ found.model = IF scan.poisoned THEN None ELSE scan.model
      /\ found.limitVariant = scan.limitVariant /\ found.maxTokens = scan.maxTokens
    BY <1>2 DEF Scans
<1> HIDE DEF found
<1>4. WholeSoFar /\ ModelSoFar
    BY <1>1 DEF MInv, ModelIsKept
<1>5. CASE body.trailing
  <2>1. Fail(found)
      BY <1>1, <1>5 DEF Ends
  <2>2. ModelAlone(body) = None
      BY <1>2, <1>5, AloneIsNone DEF Whole
  <2>3. KeepsLimit(found)
      BY <1>2, <1>3 DEF KeepsLimit
  <2> QED BY <1>1, <2>1, <2>2, <2>3, StopKeepsModel
<1>6. CASE ~body.trailing
  <2>1. Whole(body)
      BY <1>1, <1>2, <1>4, <1>6 DEF Whole, WholeSoFar, KeyOf
  <2>2. \A i : i \in Named(body) <=> i \in 1..(at - 1) /\ IsModel(i)
      BY <1>1, <1>2 DEF Named, IsModel, KeyOf
  <2>3. found.model = ModelAlone(body)
    <3>1. CASE /\ ~scan.poisoned /\ scan.model = None
               /\ \A i \in 1..(at - 1) : ~IsModel(i)
        BY <1>2, <1>3, <2>2, <3>1, AloneIsNone
    <3>2. CASE \E i \in 1..(at - 1) :
                /\ IsModel(i)
                /\ \A j \in 1..(at - 1) : IsModel(j) => j = i
                /\ scan.model = ModelOf(body.fields[i].value)
                /\ scan.poisoned => scan.model = None
      <4>1. PICK i \in 1..(at - 1) :
                /\ IsModel(i)
                /\ \A j \in 1..(at - 1) : IsModel(j) => j = i
                /\ scan.model = ModelOf(body.fields[i].value)
                /\ scan.poisoned => scan.model = None
          BY <3>2
      <4>2. Named(body) = {i}
          BY <2>2, <4>1
      <4> QED BY <1>2, <1>3, <2>1, <4>1, <4>2, AloneIsNamed
    <3>3. CASE scan.poisoned /\ \E i, j \in 1..(at - 1) : i # j /\ IsModel(i) /\ IsModel(j)
        BY <1>2, <1>3, <2>2, <3>3, AloneIsNone
    <3> QED BY <1>4, <3>1, <3>2, <3>3 DEF ModelSoFar
  <2> QED BY <1>1, <1>3, <1>6, <2>3, EndKeepsModel
<1> QED BY <1>5, <1>6

LEMMA ReadArrayKeepsModel == IInv /\ MInv /\ ReadArray => MInv'
<1> SUFFICES ASSUME IInv, MInv, ReadArray PROVE MInv'
    OBVIOUS
<1> DEFINE n == Len(body.fields)
           v == body.fields[1].value
           found == [scan EXCEPT !.model = IF v = Null THEN None ELSE v]
<1>1. /\ status = "reading" /\ body.form = "array" /\ scan \in Scans /\ body \in Bodies
      /\ n \in Nat /\ DOMAIN body.fields = 1..n
    BY DEF ReadArray, IInv, Typed, Bodies
<1>2. /\ found.model = IF v = Null THEN None ELSE v
      /\ found.limitVariant = scan.limitVariant /\ found.maxTokens = scan.maxTokens
    BY <1>1 DEF Scans
<1>3. scan.model = None
    BY <1>1 DEF MInv, ModelIsKept
<1>4. \/ n = 0 /\ Ends(scan)
      \/ n # 0 /\ v \notin Models \cup {Null} /\ Fail(scan)
      \/ n > 1 /\ v \in Models \cup {Null} /\ Fail(found)
      \/ n = 1 /\ v \in Models \cup {Null} /\ Ends(found)
  <2>1. \/ n = 0 /\ Ends(scan)
        \/ n # 0 /\ v \notin Models \cup {Null} /\ Fail(scan)
        \/ n > 1 /\ v \in Models \cup {Null} /\ Fail(found)
        \/ n # 0 /\ ~(n > 1) /\ v \in Models \cup {Null} /\ Ends(found)
      BY Zenon DEF ReadArray
  <2>2. \A m \in Nat : m # 0 /\ ~(m > 1) => m = 1
      OBVIOUS
  <2>3. n # 0 /\ ~(n > 1) => n = 1
      BY <1>1, <2>2, Zenon
  <2> QED BY <2>1, <2>3, Zenon
<1>5. Named(body) = 1..n
    BY <1>1 DEF Named
<1>6. v = Null \/ v \in Models => found.model = ModelOf(v)
    BY <1>2, NullsAssumption DEF ModelOf
<1> HIDE DEF v, found
<1>7. ASSUME NEW after, Fail(after), ModelAlone(body) = None
      PROVE  MInv'
  <2>1. /\ status' = "failed" /\ UNCHANGED <<body, at, shape, reply>>
      BY <1>7 DEF Fail
  <2>2. ReplyTyped' /\ ModelIsKept' /\ ModelIsItsOwn' /\ LimitIsKept' /\ VariantsAreSeen'
      BY <1>1, <1>7, <2>1
         DEF MInv, ReplyTyped, Elements, ModelIsKept, ModelIsItsOwn, LimitIsKept, VariantsAreSeen
  <2> QED BY <2>2 DEF MInv
<1>8. ASSUME NEW after, Ends(after), after.limitVariant = scan.limitVariant,
             after.maxTokens = scan.maxTokens,
             ~body.trailing => after.model = ModelAlone(body)
      PROVE  MInv'
  <2>1. CASE body.trailing
    <3>1. Fail(after) /\ ModelAlone(body) = None
        BY <1>1, <1>8, <2>1, AloneIsNone DEF Ends, Whole
    <3> QED BY <1>7, <3>1
  <2>2. CASE ~body.trailing
      BY <1>1, <1>8, <2>2, EndKeepsModel
  <2> QED BY <2>1, <2>2
<1>9. CASE n = 0 /\ Ends(scan)
  <2>1. ModelAlone(body) = None
      BY <1>1, <1>5, <1>9, AloneIsNone
  <2> QED BY <1>3, <1>8, <1>9, <2>1
<1>10. CASE n # 0 /\ v \notin Models \cup {Null} /\ Fail(scan)
  <2>0. 1 \in Named(body)
      BY <1>1, <1>5, <1>10
  <2>1. \A i : Named(body) = {i} => i = 1
      BY <2>0
  <2>2. ModelAlone(body) = None
      BY <1>1, <1>10, <2>1, AloneIsNone DEF v
  <2> QED BY <1>7, <1>10, <2>2
<1>11. CASE n > 1 /\ Fail(found)
  <2>1. 1 \in Named(body) /\ 2 \in Named(body)
      BY <1>1, <1>5, <1>11
  <2>2. ModelAlone(body) = None
      BY <1>1, <2>1, AloneIsNone
  <2> QED BY <1>7, <1>11, <2>2
<1>12. CASE n = 1 /\ v \in Models \cup {Null} /\ Ends(found)
  <2>1. ~body.trailing => Whole(body)
    <3>1. v # Cut
        BY <1>12, NullsAssumption
    <3>2. \A i \in DOMAIN body.fields : i = 1
        BY <1>1, <1>12
    <3> QED BY <1>1, <3>1, <3>2 DEF Whole, v
  <2>2. Named(body) = {1}
      BY <1>1, <1>5, <1>12
  <2>3. ~body.trailing => found.model = ModelAlone(body)
      BY <1>1, <1>6, <1>12, <2>1, <2>2, AloneIsNamed DEF v
  <2> QED BY <1>2, <1>8, <1>12, <2>3
<1> QED BY <1>4, <1>9, <1>10, <1>11, <1>12

LEMMA ReadScalarKeepsModel == IInv /\ MInv /\ ReadScalar => MInv'
<1> SUFFICES ASSUME IInv, MInv, ReadScalar PROVE MInv'
    OBVIOUS
<1>1. body \in Bodies /\ body.form = "scalar" /\ status = "reading" /\ Fail(scan)
    BY DEF ReadScalar, IInv, Typed
<1>2. ModelAlone(body) = None
    BY <1>1, AloneIsNone DEF Whole
<1>3. /\ status' = "failed" /\ UNCHANGED <<body, at, shape, reply>>
    BY <1>1 DEF Fail
<1>4. ReplyTyped' /\ ModelIsKept' /\ ModelIsItsOwn' /\ LimitIsKept' /\ VariantsAreSeen'
    BY <1>1, <1>2, <1>3
       DEF MInv, ReplyTyped, Elements, ModelIsKept, ModelIsItsOwn, LimitIsKept, VariantsAreSeen
<1> QED BY <1>4 DEF MInv

\* What is concluded is what was read, or read again.
LEMMA ConcludeKeepsModel == IInv /\ MInv /\ Conclude => MInv'
<1> SUFFICES ASSUME IInv, MInv, Conclude PROVE MInv'
    OBVIOUS
<1>1. /\ status \in {"ended", "failed"} /\ shape' = Shape /\ status' = "concluded"
      /\ UNCHANGED <<kind, access, body, at, scan, reply>>
    BY DEF Conclude
<1>2. body \in Bodies /\ scan \in Scans
    BY DEF IInv, Typed
<1>3. /\ shape'.model = IF status = "ended" THEN scan.model
                        ELSE IF scan.inJudgedValue THEN ModelAlone(body) ELSE None
      /\ shape'.readInFull \in BOOLEAN
      /\ shape'.variant <=> scan.variant
                            \/ (status = "failed" /\ scan.inJudgedValue /\ HasVariant(body))
    BY <1>1 DEF Shape
<1>4. shape'.model = ModelAlone(body)
    BY <1>1, <1>3 DEF MInv, ModelIsKept
<1>5. ModelIsItsOwn' /\ ModelIsKept'
    BY <1>1, <1>4 DEF ModelIsItsOwn, ModelIsKept
<1>6. LimitIsKept'
  <2> SUFFICES ASSUME body.form = "object", NEW i \in DOMAIN body.fields,
                      Is(KeyOf(i), "max_tokens"), i <= at - 1
               PROVE  scan.limitVariant \/ scan.maxTokens # Absent
      BY <1>1, KeyStays DEF LimitIsKept, Is
  <2>1. i \in Nat /\ at \in Nat
      BY <1>2 DEF Bodies, IInv, Typed
  <2>2. i <= at
      BY <2>1
  <2> QED BY <2>2 DEF MInv, LimitIsKept
<1>7. ReplyTyped'
    BY <1>1, <1>2, <1>3, <1>4, AloneType DEF MInv, ReplyTyped, Elements
<1>8. VariantsAreSeen'
  <2> SUFFICES ASSUME body.form = "object", ModelAlone(body) # None, ~shape'.variant,
                      NEW i \in DOMAIN body.fields, IsVariant(KeyOf(i))
               PROVE  FALSE
      BY <1>1, <1>4, KeyStays DEF VariantsAreSeen, IsVariant
  <2>1. CASE status = "ended"
    <3>1. Found /\ at = Len(body.fields) + 1
        BY <2>1 DEF IInv, PassIsFaithful
    <3>2. i \in 1..(at - 1)
        BY <1>2, <3>1 DEF Bodies
    <3>3. scan.variant
        BY <3>1, <3>2 DEF Found, Noted
    <3> QED BY <1>3, <3>3
  <2>2. CASE status = "failed"
    <3>1. Whole(body)
        BY <1>2, AloneIsNone
    <3>2. DOMAIN body.fields = 1..Len(body.fields) /\ Len(body.fields) \in Nat
        BY <1>2 DEF Bodies
    <3>3. \A j \in 1..(i - 1) : j \in DOMAIN body.fields
        BY <3>2
    <3>4. HasVariant(body)
        BY <3>1, <3>3 DEF HasVariant, Whole, KeyOf
    <3>5. scan.inJudgedValue
        BY <2>2 DEF MInv, ModelIsKept
    <3> QED BY <1>3, <2>2, <3>4, <3>5
  <2> QED BY <1>1, <2>1, <2>2
<1> QED BY <1>5, <1>6, <1>7, <1>8 DEF MInv

LEMMA MStep == IInv /\ MInv /\ [Next]_vars => MInv'
<1> SUFFICES ASSUME IInv, MInv, [Next]_vars PROVE MInv'
    OBVIOUS
<1>1. CASE StopAtKey
  <2>1. Comes(Undecodable) /\ Fail(scan)
      BY <1>1 DEF StopAtKey
  <2>2. status = "reading" /\ KeyOf(at) = Undecodable
      BY <2>1, FieldHere
  <2>3. ModelAlone(body) = None /\ KeepsLimit(scan)
      BY <2>1, <2>2, CutIsNone DEF KeepsLimit, Is
  <2> QED BY <2>1, <2>2, <2>3, StopKeepsModel
<1>2. CASE ReadMaxTokens
  <2>1. PICK key \in KeySet : Comes(key) /\ IsExactly(key, "max_tokens")
      BY <1>2 DEF ReadMaxTokens
  <2>2. scan \in Scans
      BY <2>1, FieldHere
  <2>3. key # Undecodable /\ ~IsExactly(key, "model")
      BY <2>1 DEF IsExactly, Is
  <2> DEFINE stopped == [scan EXCEPT !.maxTokens = Invalid, !.inJudgedValue = TRUE]
             judged  == [scan EXCEPT !.maxTokens = JudgedAs(Field.value)]
  <2>4. /\ stopped.inJudgedValue /\ stopped.maxTokens = Invalid
        /\ judged.maxTokens = JudgedAs(Field.value) /\ KeepsModel(judged)
      BY <2>2 DEF Scans, KeepsModel
  <2>5. \/ Fail(stopped) \/ (Advance(judged) /\ Field.value # Cut)
      BY <1>2 DEF ReadMaxTokens
  <2> HIDE DEF stopped, judged
  <2>6. Invalid # Absent /\ JudgedAs(Field.value) # Absent
      BY DEF Invalid, Absent, JudgedAs, Limit
  <2>7. stopped.maxTokens # Absent /\ judged.maxTokens # Absent
      BY <2>4, <2>6
  <2>8. scan.limitVariant => stopped.limitVariant /\ judged.limitVariant
      BY <2>2 DEF Scans, stopped, judged
  <2>9. KeepsLimit(stopped) /\ KeepsLimit(judged)
      BY <2>7, <2>8 DEF KeepsLimit
  <2> QED BY <2>1, <2>3, <2>4, <2>5, <2>9, JudgedKeepsModel
<1>3. CASE ReadN
  <2>1. PICK key \in KeySet : Comes(key) /\ IsExactly(key, "n")
      BY <1>3 DEF ReadN
  <2>2. scan \in Scans /\ key = KeyOf(at)
      BY <2>1, FieldHere
  <2>3. key # Undecodable /\ ~IsExactly(key, "model") /\ ~Is(key, "max_tokens")
      BY <2>1 DEF IsExactly, Is
  <2> DEFINE stopped == [scan EXCEPT !.n = Invalid, !.inJudgedValue = TRUE]
             judged  == [scan EXCEPT !.n = JudgedAs(Field.value)]
  <2>4. /\ stopped.inJudgedValue /\ KeepsModel(judged)
        /\ stopped.maxTokens = scan.maxTokens /\ judged.maxTokens = scan.maxTokens
        /\ stopped.limitVariant = scan.limitVariant
        /\ judged.limitVariant = scan.limitVariant
      BY <2>2 DEF Scans, KeepsModel
  <2>5. \/ Fail(stopped) \/ (Advance(judged) /\ Field.value # Cut)
      BY <1>3 DEF ReadN
  <2> HIDE DEF stopped, judged
  <2>6. KeepsLimit(stopped) /\ KeepsLimit(judged)
      BY <2>2, <2>3, <2>4 DEF KeepsLimit
  <2> QED BY <2>1, <2>3, <2>4, <2>5, <2>6, JudgedKeepsModel
<1>4. CASE SkipVariant
  <2>1. PICK key \in KeySet : Comes(key) /\ IsVariant(key)
      BY <1>4 DEF SkipVariant
  <2> DEFINE found == [scan EXCEPT !.variant = TRUE,
                              !.limitVariant = @ \/ Is(Field.key, "max_tokens")]
  <2>2. scan \in Scans /\ Skip(found) /\ key = KeyOf(at) /\ Field.key = KeyOf(at)
      BY <1>4, <2>1, FieldHere DEF SkipVariant, KeyOf
  <2>3. /\ KeepsModel(found) /\ found.maxTokens = scan.maxTokens
        /\ found.limitVariant <=> (scan.limitVariant \/ Is(KeyOf(at), "max_tokens"))
      BY <2>2 DEF Scans, KeepsModel
  <2> HIDE DEF found
  <2>4. KeepsLimit(found)
      BY <2>3 DEF KeepsLimit
  <2>5. key # Undecodable /\ ~IsExactly(key, "model")
      BY <2>1 DEF IsVariant, IsExactly, Is
  <2> QED BY <2>1, <2>2, <2>3, <2>4, <2>5, SkipKeepsModel DEF KeepsModel
<1>5. CASE Note \/ SkipOther
  <2>1. PICK key \in KeySet, found \in Scans :
            /\ Comes(key) /\ Skip(found) /\ KeepsModel(found)
            /\ Is(key, "n") \/ Is(key, "best_of") \/ Is(key, "max_completion_tokens")
                    \/ Is(key, "other")
            /\ ~IsExactly(key, "model") /\ ~Is(key, "max_tokens")
            /\ found.maxTokens = scan.maxTokens /\ found.limitVariant = scan.limitVariant
    <3>1. scan \in Scans
        BY DEF IInv, Typed
    <3>2. \A key \in KeySet :
            Is(key, "n") \/ Is(key, "best_of") \/ Is(key, "max_completion_tokens")
                    \/ Is(key, "other")
            => ~IsExactly(key, "model") /\ ~Is(key, "max_tokens")
        BY DEF IsExactly, Is
    <3>3. \A found \in {[scan EXCEPT !.nVariant = TRUE], [scan EXCEPT !.bestOf = TRUE],
                        [scan EXCEPT !.maxCompletionTokens = TRUE], scan} :
            /\ found \in Scans /\ KeepsModel(found)
            /\ found.maxTokens = scan.maxTokens /\ found.limitVariant = scan.limitVariant
        BY <3>1 DEF Scans, KeepsModel
    <3>4. PICK key \in KeySet :
            /\ Comes(key)
            /\ Is(key, "n") \/ Is(key, "best_of") \/ Is(key, "max_completion_tokens")
                    \/ Is(key, "other")
            /\ \E found \in {[scan EXCEPT !.nVariant = TRUE], [scan EXCEPT !.bestOf = TRUE],
                        [scan EXCEPT !.maxCompletionTokens = TRUE], scan} : Skip(found)
        BY <1>5 DEF Note, SkipOther
    <3> QED BY <3>2, <3>3, <3>4
  <2>2. key # Undecodable /\ key = KeyOf(at)
      BY <2>1, FieldHere DEF Is
  <2>3. KeepsLimit(found)
      BY <2>1, <2>2 DEF KeepsLimit
  <2> QED BY <2>1, <2>2, <2>3, SkipKeepsModel DEF KeepsModel
<1>6. CASE Admit \/ UNCHANGED vars
  <2>1. /\ UNCHANGED <<body, at, scan, status, shape>>
        /\ reply' \in {reply, "case variant", "output cap", "admitted"}
      BY <1>6 DEF Admit, vars
  <2>2. ReplyTyped' /\ ModelIsKept' /\ ModelIsItsOwn'
    <3>1. WholeSoFar' <=> WholeSoFar
        BY <2>1, KeyStays DEF WholeSoFar
    <3>2. \A i : IsModel(i)' <=> IsModel(i)
        BY <2>1, KeyStays DEF IsModel, IsExactly, Is
    <3>3. ModelSoFar' <=> ModelSoFar
        BY ONLY <2>1, <3>2 DEF ModelSoFar
    <3> QED BY <2>1, <3>1, <3>3 DEF MInv, ReplyTyped, Elements, ModelIsKept, ModelIsItsOwn
  <2>3. LimitIsKept' /\ VariantsAreSeen'
      BY <2>1, KeyStays DEF MInv, LimitIsKept, VariantsAreSeen, Is, IsVariant
  <2> QED BY <2>2, <2>3 DEF MInv
<1> QED BY <1>1, <1>2, <1>3, <1>4, <1>5, <1>6, ModelKeepsModel, EndOfObjectKeepsModel,
           ReadArrayKeepsModel, ReadScalarKeepsModel, ConcludeKeepsModel DEF Next

\* What is routed by its model has that model under one key, and no other spelling
\* of it.
LEMMA RoutedFollows == IInv /\ MInv => RoutedAsRead
<1> SUFFICES ASSUME IInv, MInv, reply = "admitted", shape.model # None,
                    NEW reader \in Readers, ~Rejected
             PROVE  ReadBy(reader, "model") = shape.model
    BY DEF RoutedAsRead
<1>1. /\ status = "concluded" /\ ~shape.variant /\ body.form = "object"
      /\ body \in Bodies /\ body.fields \in Seq(FieldSet)
    BY DEF IInv, Typed, Bodies, ShapeIsFaithful, Rejected
<1>2. shape.model = ModelAlone(body)
    BY <1>1 DEF MInv, ModelIsItsOwn
<1>3. Whole(body) /\ \E i : Named(body) = {i} /\ body.fields[i].value \in Models
    BY <1>1, <1>2, AloneIsNone
<1>4. PICK i : Named(body) = {i} /\ body.fields[i].value \in Models
    BY <1>3
<1>5. shape.model = body.fields[i].value
    BY <1>1, <1>2, <1>3, <1>4, AloneIsNamed DEF ModelOf
<1>6. i \in DOMAIN body.fields /\ IsExactly(KeyOf(i), "model")
  <2>1. i \in Named(body)
      BY <1>4
  <2> QED BY <1>1, <2>1 DEF Named, KeyOf
<1>7. \A j \in DOMAIN body.fields : IsExactly(KeyOf(j), "model") => j = i
    BY <1>4 DEF Named, KeyOf
<1>8. \A j \in DOMAIN body.fields : ~IsVariant(KeyOf(j))
    BY <1>1 DEF MInv, VariantsAreSeen
<1>9. \A j \in DOMAIN body.fields : Is(KeyOf(j), "model") => KeyOf(j).exact /\ j = i
    BY <1>7, <1>8 DEF IsVariant, IsExactly, Is
<1>10. \A j \in DOMAIN body.fields : Is(KeyOf(j), "model") => KeyOf(j).exact /\ j <= i
    BY <1>1, <1>6, <1>9
<1>11. body.fields[i].value # Null
    BY <1>4, NullsAssumption
<1> QED BY <1>1, <1>5, <1>6, <1>10, <1>11, LastIsRead

LEMMA SeenFollows == IInv /\ MInv => SeenIsNotAbsent
<1> SUFFICES ASSUME IInv, MInv PROVE SeenIsNotAbsent
    OBVIOUS
<1>1. Invalid # Absent
    BY DEF Invalid, Absent
<1>2. status = "concluded" =>
        (shape.maxTokens = Absent <=> scan.maxTokens = Absent /\ ~scan.limitVariant)
    BY <1>1 DEF IInv, ShapeIsFaithful
<1> QED BY <1>2 DEF MInv, LimitIsKept, SeenIsNotAbsent, KeyOf

\* Whatever else a body holds, in whatever order and however it breaks: the model it
\* is routed by is the one it names, to every reader upstream, and a limit that was
\* come to is not read as no limit (RequestShape::parse, model_only and
\* first_case_variant in request.rs), for bodies of any length.
THEOREM ReadAsWritten == Spec => []ReadForWhatItSays
<1>1. IInv /\ MInv => TypeOK
  <2> SUFFICES ASSUME IInv, MInv PROVE TypeOK
      OBVIOUS
  <2>1. /\ scan.model \in Models \cup {None} /\ {scan.maxTokens, scan.n} \subseteq Readings
        /\ at \in Nat \ {0} /\ at <= Len(body.fields) + 1 /\ Len(body.fields) \in Nat
      BY DEF IInv, Typed, Scans, Bodies
  <2>2. at \in 1..(Len(body.fields) + 1)
      BY <2>1
  <2> QED BY <2>1, <2>2 DEF IInv, Typed, MInv, ReplyTyped, TypeOK, Readings
<1>2. IInv /\ MInv => ReadForWhatItSays
    BY <1>1, RoutedFollows, SeenFollows DEF MInv, ReadForWhatItSays
<1> QED BY <1>2, InitHolds, StepHolds, MInit, MStep, PTL DEF Spec
-----------------------------------------------------------------------------
(***************************************************************************)
(* What the handler makes of the shape.  Gateway takes two answers of this *)
(* module as facts of a request: that a key is ambiguous, and that the     *)
(* output is bounded.                                                      *)
(***************************************************************************)

Handler(held, opts, accepted, required) ==
    INSTANCE Gateway WITH
        Requests <- {}, Payments <- held, Options <- opts, Quotes <- [opts -> Nat],
        Accepted <- accepted, Forms <- {}, Window <- [o \in opts |-> 1], Reserve <- 0,
        FacilitatorTimeout <- 1, HeadTimeout <- 1, ModelRatesRequired <- required,
        Malformed <- Wrong, None <- None,
        pc <- None, payment <- None, trace <- None, answer <- None, response <- None,
        event <- None, age <- None, wait <- None, prices <- None, forwarded <- None,
        flying <- None, ledger <- None

\* A Form of Gateway that says of the request what was read of it, whatever else it says.
SaysWhatIsRead(form) ==
    /\ form.ambiguous = shape.variant
    /\ form.bounded = ~OutputCapRefusal
    /\ form.bearer = "honoured" <=> access = "token"

\* Of the outcomes of Gateway's checks, those that this module's replies stand for.
Told(screen) ==
    CASE screen = "AmbiguousKey"     -> "case variant"
      [] screen = "OutputCapRefused" -> "output cap"
      [] OTHER                       -> "admitted"

\* A request with a backend gets from Gateway's checks the refusal it gets here, or
\* none, and one that has no backend is still refused for a variant before that.
GatewayAdmitsAlike ==
    reply # "none" =>
        \A held, opts, accepted, required, offered :
            \A form \in Handler(held, opts, accepted, required)!FormSet :
                LET screen == Handler(held, opts, accepted, required)!Screen(form, offered)
                IN  SaysWhatIsRead(form) =>
                        /\ form.routed => reply = Told(screen)
                        /\ screen = "AmbiguousKey" <=> reply = "case variant"

\* A reply is the one that the shape, as it is now, gives.
ReplyStands ==
    reply # "none" =>
        /\ status = "concluded"
        /\ reply = IF shape.variant THEN "case variant"
                   ELSE IF access = "paid" /\ OutputCapRefusal THEN "output cap"
                   ELSE "admitted"

LEMMA ReplyStandsStep == ReplyStands /\ [Next]_vars => ReplyStands'
<1> SUFFICES ASSUME ReplyStands, [Next]_vars PROVE ReplyStands'
    OBVIOUS
<1>1. ASSUME status \in {"reading", "ended", "failed"}, reply' = reply
      PROVE  ReplyStands'
    BY <1>1 DEF ReplyStands
<1>2. CASE StopAtKey
    BY <1>1, <1>2 DEF StopAtKey, Comes, Reading, Fail
<1>3. CASE ReadModel
    BY <1>1, <1>3 DEF ReadModel, Comes, Reading, Fail, Advance, Skip
<1>4. CASE ReadMaxTokens
    BY <1>1, <1>4 DEF ReadMaxTokens, Comes, Reading, Fail, Advance
<1>5. CASE ReadN
    BY <1>1, <1>5 DEF ReadN, Comes, Reading, Fail, Advance
<1>6. CASE SkipVariant
    BY <1>1, <1>6 DEF SkipVariant, Comes, Reading, Fail, Advance, Skip
<1>7. CASE Note
    BY <1>1, <1>7 DEF Note, Comes, Reading, Fail, Advance, Skip
<1>8. CASE SkipOther
    BY <1>1, <1>8 DEF SkipOther, Comes, Reading, Fail, Advance, Skip
<1>9. CASE EndOfObject
    BY <1>1, <1>9 DEF EndOfObject, Reading, Ends, Fail
<1>10. CASE ReadArray
    BY <1>1, <1>10 DEF ReadArray, Ends, Fail
<1>11. CASE ReadScalar
    BY <1>1, <1>11 DEF ReadScalar, Fail
<1>12. CASE Conclude
    BY <1>1, <1>12 DEF Conclude
<1>13. CASE Admit
    BY <1>13 DEF Admit, ReplyStands, OutputCapRefusal
<1>14. CASE UNCHANGED vars
    BY <1>14 DEF vars, ReplyStands, OutputCapRefusal
<1> QED BY <1>2, <1>3, <1>4, <1>5, <1>6, <1>7, <1>8, <1>9, <1>10, <1>11, <1>12, <1>13, <1>14
        DEF Next

LEMMA AdmitsAlike == IInv /\ ReplyStands => GatewayAdmitsAlike
<1> SUFFICES ASSUME IInv, ReplyStands, reply # "none",
                    NEW held, NEW opts, NEW accepted, NEW required, NEW offered,
                    NEW form \in Handler(held, opts, accepted, required)!FormSet,
                    SaysWhatIsRead(form)
             PROVE  LET screen == Handler(held, opts, accepted, required)!Screen(form, offered)
                    IN  /\ form.routed => reply = Told(screen)
                        /\ screen = "AmbiguousKey" <=> reply = "case variant"
    BY DEF GatewayAdmitsAlike
<1> DEFINE screen == Handler(held, opts, accepted, required)!Screen(form, offered)
<1>1. /\ screen = "AmbiguousKey" <=> form.ambiguous
      /\ ~form.ambiguous /\ form.routed =>
            (screen = "OutputCapRefused" <=> form.bearer # "honoured" /\ ~form.bounded)
    BY DEF Handler!Screen
<1>2. access = "paid" <=> access # "token"
    BY DEF IInv, Typed
<1> HIDE DEF screen
<1>3. CASE shape.variant
  <2>1. reply = "case variant"
      BY <1>3 DEF ReplyStands
  <2>2. form.ambiguous
      BY <1>3 DEF SaysWhatIsRead
  <2>3. screen = "AmbiguousKey"
      BY <1>1, <2>2
  <2>4. Told(screen) = "case variant"
      BY <2>3 DEF Told
  <2> QED BY <2>1, <2>3, <2>4 DEF screen
<1>4. CASE ~shape.variant
  <2>1. screen # "AmbiguousKey" /\ reply # "case variant"
      BY <1>1, <1>4 DEF ReplyStands, SaysWhatIsRead
  <2>2. ASSUME form.routed
        PROVE  reply = Told(screen)
      BY <1>1, <1>2, <1>4, <2>1, <2>2 DEF ReplyStands, SaysWhatIsRead, Told
  <2> QED BY <2>1, <2>2 DEF screen
<1> QED BY <1>3, <1>4 DEF screen

\* A Form of Gateway that says of a request what RequestShape::parse read of it is
\* refused by serve's checks exactly when the request is, and for the same reason
\* (gateway.rs: the case variant before routing, the cap for those who pay), for
\* bodies of any length and whatever else the form says.
THEOREM FormsSayWhatIsRead == Spec => []GatewayAdmitsAlike
<1>1. Init => ReplyStands
    BY DEF Init, ReplyStands
<1> QED BY <1>1, InitHolds, StepHolds, ReplyStandsStep, AdmitsAlike, PTL DEF Spec
=============================================================================
