---------------------------- MODULE ArmingProofs ----------------------------
(***************************************************************************)
(* The guard holds for advertisements and arming values of any length and  *)
(* any ids, and so does its advice.  The invariant ties the outcome at     *)
(* hand to the two lists as they are, and what a remedy that was followed  *)
(* has written to the networks it was for.                                 *)
(***************************************************************************)
EXTENDS Arming, FunctionTheorems, FiniteSetTheorems, TLAPS

IInv ==
    /\ TypeOK /\ OutcomeIsCurrent
    /\ ArmedByName /\ PostureIsTrue /\ NothingUnread
    /\ ArmedAsTold /\ RepairsHold
-----------------------------------------------------------------------------
(***************************************************************************)
(* Lists of ids.                                                           *)
(***************************************************************************)

LEMMA SeqOfFunction ==
    ASSUME NEW S, NEW n \in Nat, NEW f \in [1..n -> S]
    PROVE  f \in Seq(S) /\ Len(f) = n
    OBVIOUS

\* What a list names is no more than its length.
LEMMA ElementsFinite ==
    ASSUME NEW S, NEW s \in Seq(S)
    PROVE  /\ Elements(s) \subseteq S
           /\ IsFiniteSet(Elements(s))
           /\ Cardinality(Elements(s)) \in Nat
           /\ Cardinality(Elements(s)) <= Len(s)
           /\ Len(s) > 0 => Cardinality(Elements(s)) > 0
<1>1. Len(s) \in Nat /\ DOMAIN s = 1..Len(s) /\ s \in [1..Len(s) -> S]
    OBVIOUS
<1>2. Elements(s) \subseteq S
    BY <1>1 DEF Elements
<1>3. s \in Surjection(1..Len(s), Elements(s))
    BY <1>1, Fun_IsSurj DEF Elements
<1>4. IsFiniteSet(1..Len(s)) /\ Cardinality(1..Len(s)) = Len(s)
    BY <1>1, FS_Interval
<1>5. IsFiniteSet(Elements(s)) /\ Cardinality(Elements(s)) <= Len(s)
    BY <1>3, <1>4, FS_Surjection
<1>6. Cardinality(Elements(s)) \in Nat
    BY <1>5, FS_CardinalityType
<1>7. ASSUME Len(s) > 0 PROVE Cardinality(Elements(s)) > 0
  <2>1. s[1] \in Elements(s)
      BY <1>1, <1>7 DEF Elements
  <2>2. Cardinality(Elements(s)) # 0
      BY <2>1, <1>5, FS_EmptySet
  <2> QED BY <2>2, <1>6
<1> QED BY <1>2, <1>5, <1>6, <1>7

\* A listing names every id once.
LEMMA ListingNamesOnce ==
    ASSUME NEW ids, IsFiniteSet(ids), NEW s \in Listings(ids)
    PROVE  /\ s \in Seq(ids) /\ Len(s) = Cardinality(ids) /\ Len(s) \in Nat
           /\ Elements(s) = ids
           /\ ids # {} => Len(s) > 0
           /\ \A i, j \in 1..Len(s) : s[i] = s[j] => i = j
<1> DEFINE n == Cardinality(ids)
<1>1. n \in Nat
    BY FS_CardinalityType
<1>2. s \in [1..n -> ids] /\ Elements(s) = ids
    BY DEF Listings
<1>3. s \in Seq(ids) /\ Len(s) = n
  <2> HIDE DEF n
  <2> QED BY <1>1, <1>2, SeqOfFunction
<1>4. s \in Surjection(1..n, ids)
  <2>1. \A t \in ids : \E i \in 1..n : s[i] = t
    <3>1. DOMAIN s = 1..n
        BY <1>2
    <3> QED BY <1>2, <3>1 DEF Elements
  <2> QED BY <1>2, <2>1, Fun_IsSurj
<1>5. IsFiniteSet(1..n) /\ Cardinality(1..n) = n
    BY <1>1, FS_Interval
<1>6. s \in Injection(1..n, ids)
    BY <1>4, <1>5, FS_SurjSameCardinalityImpliesInj
<1>7. \A i, j \in 1..n : s[i] = s[j] => i = j
    BY <1>6, Fun_InjectionProperties DEF IsInjective
<1>8. ids # {} => n > 0
    BY <1>1, FS_EmptySet
<1> QED BY <1>1, <1>2, <1>3, <1>7, <1>8
-----------------------------------------------------------------------------
(***************************************************************************)
(* What a start answers.                                                   *)
(***************************************************************************)

LEMMA BootKinds ==
    ASSUME NEW opts, NEW v
    PROVE  Boot(opts, v).kind \in {"accepted", "ArmingMismatch", "NotProvablyTestnet",
                "NotUnicode", "SetButEmpty", "RetiredBooleanForm", "EmptyEntry",
                "Duplicate", "DuplicateOption"}
<1>1. \A kind, named, diagnosis : Refusal(kind, named, diagnosis).kind = kind
    BY DEF Refusal
<1>2. RawError(v) \in {"none", "NotUnicode", "SetButEmpty", "RetiredBooleanForm",
                       "EmptyEntry", "Duplicate"}
    BY DEF RawError, ValueError
<1>3. CheckArming(opts, Armed(v)).kind \in {"accepted", "ArmingMismatch", "NotProvablyTestnet"}
    BY <1>1 DEF CheckArming, Accepted
<1> QED BY <1>1, <1>2, <1>3 DEF Boot, Accepted

\* What an accepted start says of the two lists: the value names what is not
\* provably a testnet, and nothing else.
LEMMA AcceptedIsExact ==
    ASSUME NEW opts, NEW v, Boot(opts, v) = Accepted
    PROVE  Armed(v) = Unproven(opts)
<1>1. CheckArming(opts, Armed(v)) = Accepted
  <2>1. RawError(v) # "accepted"
      BY DEF RawError, ValueError
  <2>2. RawError(v) = "none"
      BY <2>1 DEF Boot, Accepted, Refusal
  <2> QED BY <2>2 DEF Boot
<1>2. \A named, diagnosis : /\ Refusal("ArmingMismatch", named, diagnosis) # Accepted
                            /\ Refusal("NotProvablyTestnet", named, diagnosis) # Accepted
    BY DEF Accepted, Refusal
<1> QED BY <1>1, <1>2 DEF CheckArming

\* A value that is not there, or cannot be read, is not read for its shape.
LEMMA UnreadIsRefused ==
    ASSUME NEW opts, NEW v,
           Boot(opts, v).kind \in {"EmptyEntry", "Duplicate"}
    PROVE  v \notin {Unset, NotUnicode}
<1>1. \A kind, named, diagnosis : Refusal(kind, named, diagnosis).kind = kind
    BY DEF Refusal
<1>2. CheckArming(opts, Armed(v)).kind \in {"accepted", "ArmingMismatch", "NotProvablyTestnet"}
    BY <1>1 DEF CheckArming, Accepted
<1>3. RawError(v) \in {"EmptyEntry", "Duplicate"}
    BY <1>1, <1>2 DEF Boot, Accepted
<1> QED BY <1>3, UnsetAssumption DEF RawError

\* What a refusal names.
LEMMA RefusalIsFair ==
    ASSUME NEW opts, NEW v
    PROVE  /\ Boot(opts, v).kind = "NotProvablyTestnet" =>
                /\ Boot(opts, v).named \cup Armed(v) = Unproven(opts)
                /\ Boot(opts, v).named \cap Armed(v) = {}
           /\ Boot(opts, v).kind = "ArmingMismatch" =>
                \A id \in Boot(opts, v).named : id \in Armed(v) /\ id \notin Unproven(opts)
<1>1. \A kind, named, diagnosis : /\ Refusal(kind, named, diagnosis).kind = kind
                                  /\ Refusal(kind, named, diagnosis).named = named
    BY DEF Refusal
<1>2. RawError(v) \notin {"NotProvablyTestnet", "ArmingMismatch"}
    BY DEF RawError, ValueError
<1>3. Accepted.kind = "accepted"
    BY <1>1 DEF Accepted
<1>4. \/ Boot(opts, v).kind \notin {"NotProvablyTestnet", "ArmingMismatch"}
      \/ Boot(opts, v) = CheckArming(opts, Armed(v))
    BY <1>1, <1>2, <1>3 DEF Boot
<1> DEFINE mismatched == Armed(v) \ Unproven(opts)
           unnamed    == Unproven(opts) \ Armed(v)
<1>5. \/ /\ mismatched # {}
         /\ CheckArming(opts, Armed(v)) = Refusal("ArmingMismatch", mismatched, Diagnose({}))
      \/ /\ mismatched = {} /\ unnamed # {}
         /\ CheckArming(opts, Armed(v))
                = Refusal("NotProvablyTestnet", unnamed, Diagnose(unnamed))
      \/ CheckArming(opts, Armed(v)) = Accepted
    BY DEF CheckArming
<1> QED BY <1>1, <1>3, <1>4, <1>5

\* What the clauses of a refusal name.
LEMMA DiagnosisOfRefusal ==
    ASSUME NEW opts, NEW v, Boot(opts, v).kind = "NotProvablyTestnet"
    PROVE  Boot(opts, v).diagnosis = Diagnose(Unproven(opts) \ Armed(v))
<1>1. \A kind, named, diagnosis : /\ Refusal(kind, named, diagnosis).kind = kind
                                  /\ Refusal(kind, named, diagnosis).diagnosis = diagnosis
    BY DEF Refusal
<1>2. RawError(v) # "NotProvablyTestnet"
    BY DEF RawError, ValueError
<1>3. Boot(opts, v) = CheckArming(opts, Armed(v))
    BY <1>1, <1>2 DEF Boot, Accepted
<1> QED BY <1>1, <1>3 DEF CheckArming, Accepted

\* The lines a start prints are true of the options it was given.
LEMMA PostureOfOptions ==
    ASSUME NEW opts
    PROVE  /\ Posture(opts).testnet =>
                \A id \in Elements(opts) : id.spelling = "exact" /\ id.name \in Testnets
           /\ Posture(opts).mainnet = Unproven(opts)
           /\ Unconfigured \in Elements(opts) => Posture(opts).unconfigured
           /\ Posture(opts).unexplained =
                {id \in Unproven(opts) : \A kind \in Kinds : ~Fires(kind, id)}
<1>1. Posture(opts).testnet =>
        \A id \in Elements(opts) : id.spelling = "exact" /\ id.name \in Testnets
  <2> SUFFICES ASSUME Posture(opts).testnet, NEW id \in Elements(opts)
               PROVE  id.spelling = "exact" /\ id.name \in Testnets
      OBVIOUS
  <2>1. Unproven(opts) = {} /\ {i \in DOMAIN opts : opts[i] = Unconfigured} = {}
      BY DEF Posture
  <2>2. IsProvablyTestnet(id) /\ id # Unconfigured
      BY <2>1 DEF Unproven, Elements
  <2> QED BY <2>2 DEF IsProvablyTestnet, Listed, Exact
<1>2. Posture(opts).mainnet = Unproven(opts)
    BY DEF Posture
<1>3. Unconfigured \in Elements(opts) => Posture(opts).unconfigured
    BY DEF Posture, Elements
<1>4. \A id : \A kind \in Kinds : Diagnose({id})[kind] = {} <=> ~Fires(kind, id)
    BY DEF Diagnose
<1>5. Posture(opts).unexplained = Undiagnosed(Unproven(opts))
    BY DEF Posture
<1> QED BY <1>1, <1>2, <1>3, <1>4, <1>5 DEF Undiagnosed

-----------------------------------------------------------------------------
(***************************************************************************)
(* What the remedies write.                                                *)
(***************************************************************************)

LEMMA UnprovenIsWritable ==
    ASSUME TypeOK
    PROVE  /\ Unproven(options) \subseteq Networks \cup Corrected
           /\ IsFiniteSet(Unproven(options))
<1>1. options \in Seq(Networks \cup Listed \cup {Unconfigured} \cup Corrected)
    BY DEF TypeOK
<1>2. /\ Elements(options) \subseteq Networks \cup Listed \cup {Unconfigured} \cup Corrected
      /\ IsFiniteSet(Elements(options))
    BY <1>1, ElementsFinite
<1>3. Unproven(options) \subseteq Elements(options)
    BY DEF Unproven
<1>4. IsFiniteSet(Unproven(options))
    BY <1>2, <1>3, FS_Subset
<1> QED BY <1>2, <1>4 DEF Unproven, IsProvablyTestnet

\* A value that was set to the ids of a set names them and nothing else.
LEMMA SetToTypes ==
    ASSUME NEW ids, ids \subseteq Writable, IsFiniteSet(ids), SetTo(ids)
    PROVE  value' \in {Unset, NotUnicode} \cup Seq(Writable) /\ value' # <<>>
<1>1. CASE ids = {}
  <2>1. value' = Unset
      BY <1>1 DEF SetTo
  <2>2. <<>> \in Seq(Writable)
      OBVIOUS
  <2> QED BY <2>1, <2>2, UnsetAssumption
<1>2. CASE ids # {}
  <2>1. value' \in Listings(ids)
      BY <1>2 DEF SetTo
  <2>2. value' \in Seq(ids) /\ Len(value') > 0
      BY <1>2, <2>1, ListingNamesOnce
  <2>3. value' \in [1..Len(value') -> Writable] /\ Len(value') \in Nat
      BY <2>2
  <2>4. value' \in Seq(Writable)
      BY <2>3, SeqOfFunction
  <2> QED BY <2>2, <2>4
<1> QED BY <1>1, <1>2

\* To name what the guard asks for, beside what is named already, is to name all
\* that is not proven: the two prescriptions come to the same.
LEMMA ArmSetsToUnproven ==
    ASSUME OutcomeIsCurrent, Arm
    PROVE  SetTo(Unproven(options))
<1>1. NotStarted.kind = "not started"
    BY DEF NotStarted, Refusal
<1>2. outcome.kind \in {"NotProvablyTestnet", "ArmingMismatch"}
    BY DEF Arm
<1>3. outcome = Boot(options, value)
    BY <1>1, <1>2 DEF OutcomeIsCurrent
<1>4. outcome.kind = "NotProvablyTestnet" => Armed(value) \cup outcome.named = Unproven(options)
    BY <1>3, RefusalIsFair
<1> QED BY <1>4 DEF Arm

\* No id on which a repair was worked is left with something to be said of it.
LEMMA RepairIsWhole ==
    ASSUME OutcomeIsCurrent, Repair,
           NEW i \in DOMAIN options,
           options'[i] \notin Armed(value),
           ~IsProvablyTestnet(options'[i]),
           NEW kind \in Kinds
    PROVE  ~Fires(kind, options'[i])
<1> DEFINE id      == options[i]
           unnamed == Unproven(options) \ Armed(value)
<1>1. outcome = Boot(options, value) /\ outcome.kind = "NotProvablyTestnet"
  <2>1. NotStarted.kind # "NotProvablyTestnet"
      BY DEF NotStarted, Refusal
  <2> QED BY <2>1 DEF OutcomeIsCurrent, Repair
<1>2. outcome.diagnosis = Diagnose(unnamed)
    BY <1>1, DiagnosisOfRefusal
<1>3. \A k \in Kinds : id \in outcome.diagnosis[k] <=> id \in unnamed /\ Fires(k, id)
    BY <1>2 DEF Diagnose
<1>4. options'[i] \in Remedies(id)
    BY DEF Repair
<1>5. id \in unnamed <=> id \notin Armed(value) /\ ~IsProvablyTestnet(id)
    BY DEF Unproven, Elements
<1>6. options'[i] \notin Listed /\ options'[i] # Unconfigured
    BY DEF IsProvablyTestnet
<1>7. /\ ~(id \in unnamed /\ Fires("placeholder", id))
      /\ ~(id \in unnamed /\ Fires("empty", id))
      /\ ~(id \in unnamed /\ Fires("short name", id))
    BY <1>3, <1>4, <1>6 DEF Remedies, Kinds
<1>8. CASE id \in unnamed /\ (Fires("near miss", id) \/ Fires("non-ascii", id))
  <2>1. options'[i] = Exact(id.name)
      BY <1>3, <1>4, <1>6, <1>7, <1>8 DEF Remedies, Kinds
  <2>2. /\ id.name # Blank /\ ~IsPlaceholderVariant(id) /\ ~IsNotCaip2(id)
      BY <1>7, <1>8 DEF Fires, IsEmptyValue
  <2>3. id.name \notin ShortNames \cup {Placeholder, Blank}
      BY <2>2 DEF IsNotCaip2
  <2>4. Exact(id.name).name = id.name /\ Exact(id.name).spelling = "exact"
      BY DEF Exact
  <2>5. id.name \notin Testnets
      BY <2>1, <1>6 DEF Listed
  <2> QED BY <2>1, <2>3, <2>4, <2>5
          DEF Kinds, Fires, IsEmptyValue, IsPlaceholderVariant, NearMiss, IsNonAscii, IsNotCaip2
<1>9. CASE id \in unnamed /\ ~Fires("near miss", id) /\ ~Fires("non-ascii", id)
  <2>1. options'[i] = id
      BY <1>3, <1>4, <1>7, <1>9 DEF Remedies, Kinds
  <2> QED BY <2>1, <1>7, <1>9 DEF Kinds
<1>10. CASE id \notin unnamed
  <2>1. options'[i] = id
      BY <1>3, <1>4, <1>10 DEF Remedies, Kinds
  <2> QED BY <2>1, <1>5, <1>10
<1> QED BY <1>8, <1>9, <1>10

-----------------------------------------------------------------------------
(***************************************************************************)
(* The invariant.                                                          *)
(***************************************************************************)

Advertisable == Networks \cup Listed \cup {Unconfigured} \cup Corrected

Messages ==
    {"not started", "accepted", "ArmingMismatch", "NotProvablyTestnet", "NotUnicode",
     "SetButEmpty", "RetiredBooleanForm", "EmptyEntry", "Duplicate", "DuplicateOption"}

LEMMA BlameFollows == OutcomeIsCurrent => BlameIsFair
<1>1. NotStarted.kind = "not started"
    BY DEF NotStarted, Refusal
<1> QED BY <1>1, RefusalIsFair DEF OutcomeIsCurrent, BlameIsFair

LEMMA InitHolds == Init => IInv
<1> SUFFICES ASSUME Init PROVE IInv
    OBVIOUS
<1>1. running = Nobody /\ outcome = NotStarted /\ followed = "no" /\ edits = 0 /\ value = Unset
    BY DEF Init
<1>2. NotStarted.kind = "not started"
    BY DEF NotStarted, Refusal
<1>3. ArmedByName /\ PostureIsTrue /\ NothingUnread
    BY <1>1 DEF ArmedByName, PostureIsTrue, NothingUnread, Nobody
<1>4. OutcomeIsCurrent /\ ArmedAsTold /\ RepairsHold
    BY <1>1, <1>2 DEF OutcomeIsCurrent, ArmedAsTold, RepairsHold
<1>5. TypeOK
  <2>1. options \in [1..1 -> Advertisable]
      BY DEF Init, Advertisable
  <2>2. options \in Seq(Advertisable) /\ Len(options) = 1
      BY <2>1, SeqOfFunction
  <2>3. value # <<>>
    <3>1. <<>> \in Seq(Writable)
        OBVIOUS
    <3> QED BY <1>1, <3>1, UnsetAssumption
  <2>4. Nobody.posture.testnet \in BOOLEAN
      BY DEF Nobody, Posture
  <2>5. Len(options) \in 1..MaxOptions /\ edits \in 0..MaxEdits
      BY <1>1, <2>2, BoundsAssumption
  <2> QED BY <1>1, <1>2, <2>2, <2>3, <2>4, <2>5 DEF TypeOK, Advertisable
<1> QED BY <1>3, <1>4, <1>5 DEF IInv

\* An edit, or the step of an operator who follows a refusal, asks for another start
\* and leaves the process that runs alone.
LEMMA StartsAnew ==
    ASSUME IInv, outcome' = NotStarted, UNCHANGED running
    PROVE  /\ ArmedByName' /\ PostureIsTrue' /\ NothingUnread' /\ OutcomeIsCurrent'
           /\ outcome'.kind \in Messages /\ running'.posture.testnet \in BOOLEAN
<1>1. NotStarted.kind \in Messages
    BY DEF NotStarted, Refusal, Messages
<1> QED BY <1>1 DEF IInv, TypeOK, ArmedByName, PostureIsTrue, NothingUnread, OutcomeIsCurrent

LEMMA StartKeeps == IInv /\ Start => IInv'
<1> SUFFICES ASSUME IInv, Start PROVE IInv'
    OBVIOUS
<1>1. outcome' = Boot(options, value) /\ UNCHANGED <<options, value, followed, edits>>
    BY DEF Start
<1>2. OutcomeIsCurrent' /\ ArmedAsTold' /\ RepairsHold'
    BY <1>1 DEF IInv, OutcomeIsCurrent, ArmedAsTold, RepairsHold
<1>3. outcome'.kind \in Messages
    BY <1>1, BootKinds DEF Messages
<1>4. ASSUME running'.posture.testnet \in BOOLEAN PROVE TypeOK'
    BY <1>1, <1>3, <1>4 DEF IInv, TypeOK, Messages
<1>5. CASE outcome' = Accepted
  <2>1. running' = [ networks |-> Elements(options), set |-> value # Unset,
                     armed |-> Armed(value), posture |-> Posture(options) ]
      BY <1>5 DEF Start
  <2>2. Armed(value) = Unproven(options)
      BY <1>1, <1>5, AcceptedIsExact
  <2>3. ArmedByName'
      BY <2>1, <2>2 DEF ArmedByName, Unproven
  <2>4. PostureIsTrue'
      BY <2>1, <2>2, PostureOfOptions DEF PostureIsTrue
  <2>5. NothingUnread'
    <3>1. SUFFICES ASSUME value # Unset PROVE Armed(value) # {}
        BY <2>1 DEF NothingUnread
    <3>2. value # NotUnicode
      <4>1. Boot(options, NotUnicode) = Refusal("NotUnicode", {}, Diagnose({}))
          BY DEF Boot, RawError
      <4>2. Refusal("NotUnicode", {}, Diagnose({})) # Accepted
          BY DEF Refusal, Accepted
      <4> QED BY <1>1, <1>5, <4>1, <4>2
    <3>3. value \in Seq(Writable) /\ value # <<>> /\ Armed(value) = Elements(value)
        BY <3>1, <3>2 DEF IInv, TypeOK, Armed
    <3>4. Len(value) \in Nat /\ Len(value) # 0
        BY <3>3
    <3>5. value[1] \in Elements(value)
        BY <3>3, <3>4 DEF Elements
    <3> QED BY <3>3, <3>5
  <2>6. running'.posture.testnet \in BOOLEAN
      BY <2>1 DEF Posture
  <2> QED BY <1>2, <1>4, <2>3, <2>4, <2>5, <2>6 DEF IInv
<1>6. CASE outcome' # Accepted
  <2>1. running' = Nobody
      BY <1>6 DEF Start
  <2>2. ArmedByName' /\ PostureIsTrue' /\ NothingUnread'
      BY <2>1 DEF ArmedByName, PostureIsTrue, NothingUnread, Nobody
  <2>3. running'.posture.testnet \in BOOLEAN
      BY <2>1 DEF Nobody, Posture
  <2> QED BY <1>2, <1>4, <2>2, <2>3 DEF IInv
<1> QED BY <1>5, <1>6

LEMMA EditKeeps == IInv /\ (EditOptions \/ EditValue) => IInv'
<1> SUFFICES ASSUME IInv, EditOptions \/ EditValue PROVE IInv'
    OBVIOUS
<1>1. /\ outcome' = NotStarted /\ UNCHANGED running /\ followed' = "no"
      /\ edits < MaxEdits /\ edits' = edits + 1
    BY DEF EditOptions, EditValue, Edited
<1>2. ArmedAsTold' /\ RepairsHold'
    BY <1>1 DEF ArmedAsTold, RepairsHold
<1>3. edits' \in 0..MaxEdits
  <2>1. edits \in 0..MaxEdits
      BY DEF IInv, TypeOK
  <2> QED BY <1>1, <2>1, BoundsAssumption
<1>4. options' \in Seq(Advertisable) /\ Len(options') \in 1..MaxOptions
  <2>1. CASE EditOptions
    <3>1. PICK n \in 1..MaxOptions : options' \in [1..n -> Networks]
        BY <2>1 DEF EditOptions
    <3>2. n \in Nat /\ options' \in [1..n -> Advertisable]
        BY <3>1, BoundsAssumption DEF Advertisable
    <3> QED BY <3>1, <3>2, SeqOfFunction
  <2>2. CASE EditValue
      BY <2>2 DEF EditValue, IInv, TypeOK, Advertisable
  <2> QED BY <2>1, <2>2
<1>5. value' \in {Unset, NotUnicode} \cup Seq(Writable) /\ value' # <<>>
  <2>1. CASE EditOptions
      BY <2>1 DEF EditOptions, IInv, TypeOK
  <2>2. CASE value' \in {Unset, NotUnicode}
    <3>1. <<>> \in Seq(Writable)
        OBVIOUS
    <3> QED BY <2>2, <3>1, UnsetAssumption
  <2>3. CASE \E n \in 1..MaxEntries : value' \in [1..n -> Entries]
    <3>1. PICK n \in 1..MaxEntries : value' \in [1..n -> Entries]
        BY <2>3
    <3>2. n \in Nat /\ n > 0 /\ value' \in [1..n -> Writable]
        BY <3>1, BoundsAssumption DEF Writable, Ids
    <3>3. value' \in Seq(Writable) /\ Len(value') = n
        BY <3>2, SeqOfFunction
    <3> QED BY <3>2, <3>3
  <2> QED BY <2>1, <2>2, <2>3 DEF EditValue
<1> QED BY <1>1, <1>2, <1>3, <1>4, <1>5, StartsAnew DEF IInv, TypeOK, Advertisable, Messages

LEMMA ArmKeeps == IInv /\ Arm => IInv'
<1> SUFFICES ASSUME IInv, Arm PROVE IInv'
    OBVIOUS
<1>1. /\ outcome' = NotStarted /\ followed' = "armed" /\ UNCHANGED <<running, edits, options>>
    BY DEF Arm, Prescribed
<1>2. SetTo(Unproven(options))
    BY ArmSetsToUnproven DEF IInv
<1>3. ArmedAsTold' /\ RepairsHold'
    BY <1>1, <1>2 DEF ArmedAsTold, RepairsHold, SetTo
<1>4. Unproven(options) \subseteq Writable /\ IsFiniteSet(Unproven(options))
    BY UnprovenIsWritable DEF IInv, Writable, Ids
<1>5. value' \in {Unset, NotUnicode} \cup Seq(Writable) /\ value' # <<>>
    BY <1>2, <1>4, SetToTypes
<1> QED BY <1>1, <1>3, <1>5, StartsAnew DEF IInv, TypeOK, Messages

LEMMA RepairKeeps == IInv /\ Repair => IInv'
<1> SUFFICES ASSUME IInv, Repair PROVE IInv'
    OBVIOUS
<1>1. /\ outcome' = NotStarted /\ followed' = "repaired" /\ UNCHANGED <<running, edits, value>>
    BY DEF Repair, Prescribed
<1>2. options \in Seq(Advertisable) /\ Len(options) \in 1..MaxOptions
    BY DEF IInv, TypeOK, Advertisable
<1>3. Len(options) \in Nat /\ DOMAIN options = 1..Len(options)
    BY <1>2
<1>4. ASSUME NEW i \in DOMAIN options PROVE options'[i] \in Advertisable
  <2>1. options[i] \in Advertisable /\ options'[i] \in Remedies(options[i])
      BY <1>2, <1>4 DEF Repair
  <2>2. options'[i] \in {Unconfigured} \cup Listed \cup {Exact(options[i].name), options[i]}
      BY <2>1 DEF Remedies
  <2>3. \A name : Exact(Exact(name).name) = Exact(name)
      BY DEF Exact
  <2>4. Exact(options[i].name) \in Advertisable
      BY <2>1, <2>3 DEF Advertisable, Listed, Unconfigured, Corrected
  <2> QED BY <2>1, <2>2, <2>4 DEF Advertisable
<1>5. options' \in [1..Len(options) -> Advertisable]
    BY <1>3, <1>4 DEF Repair
<1>6. options' \in Seq(Advertisable) /\ Len(options') = Len(options)
    BY <1>3, <1>5, SeqOfFunction
<1>7. RepairsHold'
  <2> DEFINE unnamed == Unproven(options') \ Armed(value)
  <2>1. ASSUME NEW id \in unnamed, NEW kind \in Kinds PROVE ~Fires(kind, id)
    <3>1. PICK i \in DOMAIN options : id = options'[i]
        BY <1>3, <1>5 DEF Unproven, Elements
    <3> QED BY <2>1, <3>1, RepairIsWhole DEF Unproven, IInv
  <2>2. \A id \in unnamed : \A kind \in Kinds : Diagnose({id})[kind] = {}
      BY <2>1 DEF Diagnose
  <2>3. Undiagnosed(unnamed) = unnamed
      BY <2>2 DEF Undiagnosed
  <2> QED BY <1>1, <2>3 DEF RepairsHold
<1>8. ArmedAsTold'
    BY <1>1 DEF ArmedAsTold
<1> QED BY <1>1, <1>2, <1>6, <1>7, <1>8, StartsAnew DEF IInv, TypeOK, Advertisable, Messages

LEMMA TidyKeeps == IInv /\ Tidy => IInv'
<1> SUFFICES ASSUME IInv, Tidy PROVE IInv'
    OBVIOUS
<1>1. /\ outcome' = NotStarted /\ followed' = "tidied" /\ UNCHANGED <<running, edits>>
    BY DEF Tidy, Prescribed
<1>2. ArmedAsTold' /\ RepairsHold'
    BY <1>1 DEF ArmedAsTold, RepairsHold
<1>3. /\ options \in Seq(Advertisable) /\ Len(options) \in 1..MaxOptions /\ MaxOptions \in Nat
      /\ value \in {Unset, NotUnicode} \cup Seq(Writable) /\ value # <<>>
    BY BoundsAssumption DEF IInv, TypeOK, Advertisable
<1>4. <<>> \in Seq(Writable)
    OBVIOUS
<1>5. options' \in Seq(Advertisable) /\ Len(options') \in 1..MaxOptions
  <2>1. CASE UNCHANGED options
      BY <1>3, <2>1
  <2>2. CASE options' \in Listings(Elements(options))
    <3>1. /\ Elements(options) \subseteq Advertisable /\ IsFiniteSet(Elements(options))
          /\ Cardinality(Elements(options)) \in Nat
          /\ Cardinality(Elements(options)) <= Len(options)
          /\ Cardinality(Elements(options)) > 0
        BY <1>3, ElementsFinite
    <3>2. /\ options' \in Seq(Elements(options)) /\ Len(options') \in Nat
          /\ Len(options') = Cardinality(Elements(options))
        BY <2>2, <3>1, ListingNamesOnce
    <3>3. options' \in [1..Len(options') -> Advertisable]
        BY <3>1, <3>2
    <3> QED BY <1>3, <3>1, <3>2, <3>3, SeqOfFunction
  <2> QED BY <2>1, <2>2 DEF Tidy
<1>6. value' \in {Unset, NotUnicode} \cup Seq(Writable) /\ value' # <<>>
  <2>1. CASE UNCHANGED value
      BY <1>3, <2>1
  <2>2. CASE value' = Unset
      BY <1>4, <2>2, UnsetAssumption
  <2>3. CASE /\ outcome.kind \in {"EmptyEntry", "Duplicate"}
             /\ SetTo({id \in Elements(value) : ~IsEmptyValue(id)})
    <3>1. NotStarted.kind = "not started"
        BY DEF NotStarted, Refusal
    <3>2. outcome = Boot(options, value)
        BY <2>3, <3>1 DEF IInv, OutcomeIsCurrent
    <3>3. value \in Seq(Writable)
        BY <1>3, <2>3, <3>2, UnreadIsRefused
    <3>4. Elements(value) \subseteq Writable /\ IsFiniteSet(Elements(value))
        BY <3>3, ElementsFinite
    <3>5. IsFiniteSet({id \in Elements(value) : ~IsEmptyValue(id)})
        BY <3>4, FS_Subset
    <3> QED BY <2>3, <3>4, <3>5, SetToTypes
  <2> QED BY <2>1, <2>2, <2>3 DEF Tidy
<1> QED BY <1>1, <1>2, <1>5, <1>6, StartsAnew DEF IInv, TypeOK, Advertisable, Messages

LEMMA StepHolds == IInv /\ [Next]_vars => IInv'
<1> SUFFICES ASSUME IInv, [Next]_vars PROVE IInv'
    OBVIOUS
<1>1. CASE UNCHANGED vars
  <2>1. TypeOK' /\ OutcomeIsCurrent'
      BY <1>1 DEF vars, IInv, TypeOK, OutcomeIsCurrent
  <2>2. ArmedByName' /\ PostureIsTrue'
      BY <1>1 DEF vars, IInv, ArmedByName, PostureIsTrue
  <2>3. NothingUnread' /\ ArmedAsTold' /\ RepairsHold'
      BY <1>1 DEF vars, IInv, NothingUnread, ArmedAsTold, RepairsHold
  <2> QED BY <2>1, <2>2, <2>3 DEF IInv
<1> QED BY <1>1, StartKeeps, EditKeeps, ArmKeeps, RepairKeeps, TidyKeeps DEF Next, Follow

\* Whatever was edited since, what runs advertises nothing but proven testnets and
\* the networks its own environment named, which named nothing besides
\* (check_arming before Gateway::new in main.rs).
THEOREM RunningIsArmedByName == Spec => []ArmedByName
<1>1. IInv => ArmedByName
    BY DEF IInv
<1> QED BY <1>1, InitHolds, StepHolds, PTL DEF Spec

\* The startup lines are true of what runs: no all-clear over anything but listed
\* testnets (the banner in main.rs).
THEOREM PostureIsTold == Spec => []PostureIsTrue
<1>1. IInv => PostureIsTrue
    BY DEF IInv
<1> QED BY <1>1, InitHolds, StepHolds, PTL DEF Spec

\* A refusal never names an id that is rightly armed or proven, nor leaves one out
\* (ArmingError in arming.rs).
THEOREM BlameIsEarned == Spec => []BlameIsFair
<1>1. IInv => BlameIsFair
    BY BlameFollows DEF IInv
<1> QED BY <1>1, InitHolds, StepHolds, PTL DEF Spec

\* A value that lists ids which are neither blank nor the retired boolean form is
\* read without complaint.
LEMMA ListingIsRead ==
    ASSUME NEW ids, IsFiniteSet(ids), ids # {}, ids \subseteq Writable,
           \A id \in ids : id.name \notin {Blank, One},
           NEW v \in Listings(ids)
    PROVE  RawError(v) = "none" /\ Armed(v) = ids
<1>1. /\ v \in Seq(ids) /\ Len(v) \in Nat /\ Len(v) > 0 /\ Elements(v) = ids
      /\ \A i, j \in 1..Len(v) : v[i] = v[j] => i = j
    BY ListingNamesOnce
<1>2. v \in [1..Len(v) -> ids] /\ DOMAIN v = 1..Len(v)
    BY <1>1
<1>3. v \in Seq(Writable)
  <2>1. v \in [1..Len(v) -> Writable]
      BY <1>2
  <2> QED BY <1>1, <2>1, SeqOfFunction
<1>4. v \notin {Unset, NotUnicode}
    BY <1>3, UnsetAssumption
<1>5. \A i \in DOMAIN v : ~IsEmptyValue(v[i]) /\ v[i].name # One
    BY <1>2 DEF IsEmptyValue
<1>6. \A i \in DOMAIN v : ~Repeated(v, i)
  <2> SUFFICES ASSUME NEW i \in DOMAIN v, NEW j \in DOMAIN v, j < i, v[j] = v[i]
               PROVE  FALSE
      BY DEF Repeated
  <2>1. i \in 1..Len(v) /\ j \in 1..Len(v) /\ i = j
      BY <1>1, <1>2
  <2> QED BY <1>1, <2>1
<1>7. Defective(v) = {}
    BY <1>5, <1>6 DEF Defective
<1>8. 1 \in DOMAIN v
    BY <1>1, <1>2
<1>9. ValueError(v) = "none"
    BY <1>5, <1>7, <1>8 DEF ValueError
<1> QED BY <1>1, <1>4, <1>9 DEF RawError, Armed

\* What a start says to a value that names what is not proven and nothing else.
LEMMA ExactIsAccepted ==
    ASSUME NEW opts, NEW v, RawError(v) = "none", Armed(v) = Unproven(opts)
    PROVE  Boot(opts, v).kind \in {"accepted", "DuplicateOption"}
<1>1. \A kind, named, diagnosis : Refusal(kind, named, diagnosis).kind = kind
    BY DEF Refusal
<1>2. CheckArming(opts, Armed(v)) = Accepted
    BY DEF CheckArming
<1> QED BY <1>1, <1>2 DEF Boot, Accepted

\* The list syntax carries no network that is named as the retired boolean form is:
\* such a network can be advertised and never be armed (validated_option does not
\* ask what parse_arming will say).  Without one, to arm what a refusal said is the
\* end of it.
LEMMA OneRestartFollows ==
    ASSUME \A id \in Networks : id.name # One, IInv
    PROVE  OneRestart
<1> SUFFICES ASSUME followed = "armed", outcome # NotStarted
             PROVE  outcome.kind \in {"accepted", "DuplicateOption"}
  <2>1. NotStarted.kind = "not started"
      BY DEF NotStarted, Refusal
  <2> QED BY <2>1 DEF OneRestart
<1>1. outcome = Boot(options, value)
    BY DEF IInv, OutcomeIsCurrent
<1>2. CASE Unproven(options) = {}
  <2>1. value = Unset
      BY <1>2 DEF IInv, ArmedAsTold
  <2>2. RawError(value) = "none" /\ Armed(value) = Unproven(options)
      BY <1>2, <2>1, UnsetAssumption DEF RawError, Armed
  <2> QED BY <1>1, <2>2, ExactIsAccepted
<1>3. CASE Unproven(options) # {}
  <2>1. value \in Listings(Unproven(options))
      BY <1>3 DEF IInv, ArmedAsTold
  <2>2. Unproven(options) \subseteq Networks \cup Corrected /\ IsFiniteSet(Unproven(options))
      BY UnprovenIsWritable DEF IInv
  <2>3. \A id \in Networks : id.name \notin {Blank, One}
      BY IdsAssumption
  <2>4. \A id \in Corrected : id.name \notin {Blank, One}
      BY <2>3 DEF Corrected, Exact
  <2>5. Unproven(options) \subseteq Writable
      BY <2>2 DEF Writable, Ids
  <2>6. RawError(value) = "none" /\ Armed(value) = Unproven(options)
      BY <1>3, <2>1, <2>2, <2>3, <2>4, <2>5, ListingIsRead
  <2> QED BY <1>1, <2>6, ExactIsAccepted
<1> QED BY <1>2, <1>3

\* One round of arming suffices, and the clauses of a refusal say all there is to
\* say of an id: what Obolus tells the operator, before and after the gateway runs,
\* is true (ArmingError, arming_remedy and undiagnosed in arming.rs), for options
\* and values of any length, as long as no option's network is named "1".
THEOREM GuidanceHolds ==
    ASSUME \A id \in Networks : id.name # One
    PROVE  Spec => []GuidanceIsTrue
<1>1. IInv => GuidanceIsTrue
    BY BlameFollows, OneRestartFollows DEF IInv, GuidanceIsTrue
<1> QED BY <1>1, InitHolds, StepHolds, PTL DEF Spec

\* Whatever any network is named, a refused repair says nothing new: nothing is left
\* that the diagnosis could speak of.
THEOREM RepairsAreWhole == Spec => []RepairsHold
<1>1. IInv => RepairsHold
    BY DEF IInv
<1> QED BY <1>1, InitHolds, StepHolds, PTL DEF Spec
=============================================================================
