---------------------------- MODULE TokensProofs ----------------------------
(***************************************************************************)
(* For every set of keys, kids, tokens and environments: a token's answer  *)
(* depends on its signature and its claims alone and is what the banner    *)
(* announces; what starts is the whole of what was configured; a rotation  *)
(* loses no token of the issuer and leaves no dropped key behind.          *)
(***************************************************************************)
EXTENDS Tokens, SequenceTheorems, WellFoundedInduction, TLAPS

\* The values of the variables that no environment, key or token can be.
LEMMA NullsDiffer ==
    /\ None \notin {Unset, Blank, Junk, NotUnicode, Null, Absent, NotAKey}
    /\ Unset \notin {Blank, Junk, NotUnicode} /\ NotUnicode \notin {Blank, Junk}
    /\ Null # Junk /\ Blank # Junk /\ Absent # NotAKey
<1> DEFINE nulls == <<Unset, Blank, Junk, NotUnicode, None, Null, Absent, NotAKey>>
<1>1. \A i, j \in 1..8 : i # j => nulls[i] # nulls[j]
  BY NullsAssumption DEF NullsAssumption
<1>2. /\ nulls[1] = Unset /\ nulls[2] = Blank /\ nulls[3] = Junk /\ nulls[4] = NotUnicode
      /\ nulls[5] = None /\ nulls[6] = Null /\ nulls[7] = Absent /\ nulls[8] = NotAKey
  OBVIOUS
<1> HIDE DEF nulls
<1>3. None \notin {Unset, Blank, Junk, NotUnicode, Null, Absent, NotAKey}
  BY <1>1, <1>2
<1>4. Unset \notin {Blank, Junk, NotUnicode} /\ NotUnicode \notin {Blank, Junk}
  BY <1>1, <1>2
<1>5. Null # Junk /\ Blank # Junk /\ Absent # NotAKey
  BY <1>1, <1>2
<1> QED
  BY <1>3, <1>4, <1>5

\* A function over 1..n is a sequence of n.
LEMMA SeqOfFunction ==
    ASSUME NEW S, NEW n \in Nat, NEW f \in [1..n -> S]
    PROVE  f \in Seq(S) /\ Len(f) = n
<1>1. f \in Seq(S)
  BY SeqDef
<1>2. Len(f) \in Nat /\ 1..Len(f) = 1..n
  BY <1>1
<1> QED
  BY <1>1, <1>2

LEMMA NullsAreNoValues ==
    \A null \in {Unset, Blank, Junk, NotUnicode, None, Null} :
        null \notin Kids \cup Files \cup Issuers \cup Audiences \cup Seq(Entries)
<1> DEFINE nulls == <<Unset, Blank, Junk, NotUnicode, None, Null, Absent, NotAKey>>
<1>1. \A i \in 1..6 :
          nulls[i] \notin Kids \cup Files \cup Issuers \cup Audiences \cup Seq(Entries)
  BY NullsAssumption DEF NullsAssumption
<1>2. /\ nulls[1] = Unset /\ nulls[2] = Blank /\ nulls[3] = Junk /\ nulls[4] = NotUnicode
      /\ nulls[5] = None /\ nulls[6] = Null
  OBVIOUS
<1> HIDE DEF nulls
<1> QED
  BY <1>1, <1>2

LEMMA Times ==
    /\ Life \in Nat /\ Leeway \in Nat /\ Skew \in Nat /\ MaxTime \in Nat
    /\ Skew <= Leeway
BY TimeAssumption DEF TimeAssumption
-----------------------------------------------------------------------------
(***************************************************************************)
(* The verifier: trying every key, the hinted one first, and reporting the *)
(* first failure with a cause, comes to an answer without keys in it.      *)
(***************************************************************************)

\* Every armed key is tried, and no other.
LEMMA EveryKeyIsTried ==
    ASSUME NEW p, p.keys \in KeySets, NEW kid
    PROVE  /\ DOMAIN OrderedBy(p, kid) = 1..Len(p.keys)
           /\ \A i \in 1..Len(p.keys) : OrderedBy(p, kid)[i].key \in Armed(p)
           /\ \A key \in Armed(p) : \E i \in 1..Len(p.keys) : OrderedBy(p, kid)[i].key = key
<1> DEFINE N == Len(p.keys)
<1>1. DOMAIN p.keys = 1..N /\ N \in Nat
  BY DEF KeySets
<1>2. CASE NamedBy(p, kid) = {}
  BY <1>1, <1>2 DEF OrderedBy, Armed
<1>3. CASE NamedBy(p, kid) # {}
  <2> DEFINE m == CHOOSE i \in NamedBy(p, kid) : TRUE
             ordered == [n \in 1..N |-> IF n = 1 THEN p.keys[m]
                                        ELSE IF n <= m THEN p.keys[n - 1] ELSE p.keys[n]]
  <2>1. m \in 1..N
    <3>1. m \in NamedBy(p, kid)
      BY <1>3
    <3> QED
      BY <1>1, <3>1 DEF NamedBy
  <2>2. OrderedBy(p, kid) = ordered
    BY <1>1, <1>3 DEF OrderedBy
  <2> HIDE DEF m, N
  <2>3. ASSUME NEW i \in 1..N PROVE ordered[i].key \in Armed(p)
    <3>1. i = 1 \/ i - 1 \in 1..N
      BY <1>1
    <3> QED
      BY <1>1, <2>1, <3>1 DEF Armed
  <2>4. ASSUME NEW j \in 1..N PROVE \E i \in 1..N : ordered[i].key = p.keys[j].key
    <3>1. CASE j = m
      <4>1. 1 \in 1..N /\ ordered[1] = p.keys[m]
        BY <1>1, <2>1
      <4> QED
        BY <3>1, <4>1
    <3>2. CASE j < m
      <4>1. j + 1 \in 1..N /\ j + 1 # 1 /\ j + 1 <= m /\ (j + 1) - 1 = j
        BY <1>1, <2>1, <3>2
      <4>2. ordered[j + 1] = p.keys[j]
        BY <4>1
      <4> QED
        BY <4>1, <4>2
    <3>3. CASE j > m
      <4>1. j # 1 /\ ~(j <= m)
        BY <1>1, <2>1, <3>3
      <4>2. ordered[j] = p.keys[j]
        BY <4>1
      <4> QED
        BY <4>2
    <3> QED
      BY <1>1, <2>1, <3>1, <3>2, <3>3
  <2>5. DOMAIN ordered = 1..N
    OBVIOUS
  <2>6. \A key \in Armed(p) : \E j \in 1..N : key = p.keys[j].key
    BY <1>1 DEF Armed
  <2> HIDE DEF ordered
  <2>7. \A key \in Armed(p) : \E i \in 1..N : ordered[i].key = key
    BY <2>4, <2>6
  <2> QED
    BY <2>2, <2>3, <2>5, <2>7 DEF N
<1> QED
  BY <1>2, <1>3

LEMMA LeastOf ==
    ASSUME NEW S, S \subseteq Nat, S # {}
    PROVE  \E x \in S : \A y \in S : x <= y
<1>1. PICK x \in S : \A y \in S : <<y, x>> \notin OpToRel(<, Nat)
  BY NatLessThanWellFounded, WFMin
<1>2. ASSUME NEW y \in S PROVE x <= y
  <2>1. <<y, x>> \notin {ss \in Nat \X Nat : ss[1] < ss[2]}
    BY <1>1 DEF OpToRel
  <2> QED
    BY <2>1
<1> QED
  BY <1>2

\* Where the keys disagree only in whether the signature is theirs, the reported
\* failure is the other one.
LEMMA ReportedIs ==
    ASSUME NEW errors, NEW N \in Nat \ {0}, DOMAIN errors = 1..N, NEW cause,
           \A i \in 1..N : errors[i] \in {cause, "InvalidSignature"},
           \E i \in 1..N : errors[i] = cause
    PROVE  Reported(errors) = cause
<1> DEFINE causes == {i \in DOMAIN errors : errors[i] # "InvalidSignature"}
           least == CHOOSE i \in causes : \A j \in causes : i <= j
<1>1. CASE causes = {}
  BY <1>1 DEF Reported
<1>2. CASE causes # {}
  <2>1. \E i \in causes : \A j \in causes : i <= j
    <3>1. causes \subseteq Nat
      OBVIOUS
    <3> HIDE DEF causes
    <3> QED
      BY <1>2, <3>1, LeastOf
  <2>2. least \in causes
    BY <2>1
  <2>3. Reported(errors) = errors[least]
    BY <1>2 DEF Reported
  <2> QED
    BY <2>2, <2>3
<1> QED
  BY <1>1, <1>2

\* What the verifier promises: the first thing that is wrong with the token, looked
\* at in this order, whichever keys it was tried against.
Answer(p, t) ==
    IF t.form # "jwt" THEN Verdict(FALSE, "InvalidToken")
    ELSE IF t.alg # "EdDSA" THEN Verdict(FALSE, "InvalidAlgorithm")
    ELSE IF t.signer \notin Armed(p) THEN Verdict(FALSE, "InvalidSignature")
    ELSE IF ClaimsError(t, p) = "none" THEN Verdict(TRUE, "none")
    ELSE Verdict(FALSE, Describe(ClaimsError(t, p), p))

\* verify() of any token against any set of keys comes to that answer.
THEOREM VerifyAnswers ==
    ASSUME NEW p, p.keys \in KeySets, NEW t
    PROVE  Verify(p, t) = Answer(p, t)
<1> DEFINE N == Len(p.keys)
           ordered == OrderedBy(p, KidHint(t))
           errors == [i \in DOMAIN ordered |-> DecodeWith(ordered[i].key, t, p)]
<1>1. N \in Nat \ {0}
  BY EmptySeq DEF KeySets
<1>2. /\ DOMAIN ordered = 1..N
      /\ \A i \in 1..N : ordered[i].key \in Armed(p)
      /\ \A key \in Armed(p) : \E i \in 1..N : ordered[i].key = key
  BY EveryKeyIsTried
<1>3. Verify(p, t) = IF \E i \in DOMAIN errors : errors[i] = "none" THEN Verdict(TRUE, "none")
                     ELSE Verdict(FALSE, Describe(Reported(errors), p))
  BY DEF Verify
<1>4. DOMAIN errors = 1..N /\ \A i \in 1..N : errors[i] = DecodeWith(ordered[i].key, t, p)
  BY <1>2
<1> HIDE DEF ordered, errors, N
<1>5. ASSUME NEW cause \in {"InvalidToken", "InvalidAlgorithm", "InvalidSignature"},
             \A i \in 1..N : errors[i] = cause
      PROVE  Verify(p, t) = Verdict(FALSE, cause)
  <2>1. ~ \E i \in DOMAIN errors : errors[i] = "none"
    BY <1>4, <1>5
  <2>2. \E i \in 1..N : errors[i] = cause
    BY <1>1, <1>5
  <2>3. Reported(errors) = cause
    BY <1>1, <1>4, <1>5, <2>2, ReportedIs
  <2>4. Describe(cause, p) = cause
    BY DEF Describe
  <2> QED
    BY <1>3, <2>1, <2>3, <2>4
<1>6. CASE t.form # "jwt"
  <2>1. \A i \in 1..N : errors[i] = "InvalidToken"
    BY <1>4, <1>6 DEF DecodeWith
  <2> QED
    BY <1>5, <1>6, <2>1 DEF Answer
<1>7. CASE t.form = "jwt" /\ t.alg # "EdDSA"
  <2>1. \A i \in 1..N : errors[i] = "InvalidAlgorithm"
    BY <1>4, <1>7 DEF DecodeWith
  <2> QED
    BY <1>5, <1>7, <2>1 DEF Answer
<1>8. CASE t.form = "jwt" /\ t.alg = "EdDSA" /\ t.signer \notin Armed(p)
  <2>1. \A i \in 1..N : errors[i] = "InvalidSignature"
    BY <1>2, <1>4, <1>8 DEF DecodeWith
  <2> QED
    BY <1>5, <1>8, <2>1 DEF Answer
<1>9. CASE t.form = "jwt" /\ t.alg = "EdDSA" /\ t.signer \in Armed(p)
  <2> DEFINE cause == ClaimsError(t, p)
  <2>1. \A i \in 1..N : errors[i] = IF t.signer # ordered[i].key THEN "InvalidSignature" ELSE cause
    BY <1>4, <1>9 DEF DecodeWith
  <2>2. PICK i \in 1..N : ordered[i].key = t.signer
    BY <1>2, <1>9
  <2> HIDE DEF cause
  <2>3. errors[i] = cause /\ \A j \in 1..N : errors[j] \in {cause, "InvalidSignature"}
    BY <2>1, <2>2
  <2>4. CASE cause = "none"
    <3>1. Verify(p, t) = Verdict(TRUE, "none")
      BY <1>3, <1>4, <2>3, <2>4
    <3> QED
      BY <1>9, <2>4, <3>1 DEF Answer, cause
  <2>5. CASE cause # "none"
    <3>1. ~ \E j \in DOMAIN errors : errors[j] = "none"
      BY <1>4, <2>3, <2>5
    <3>2. Reported(errors) = cause
      BY <1>1, <1>4, <2>3, ReportedIs
    <3>3. Verify(p, t) = Verdict(FALSE, Describe(cause, p))
      BY <1>3, <3>1, <3>2
    <3> QED
      BY <1>9, <2>5, <3>3 DEF Answer, cause
  <2> QED
    BY <2>4, <2>5
<1> QED
  BY <1>6, <1>7, <1>8, <1>9
-----------------------------------------------------------------------------
(***************************************************************************)
(* From the environment to a path.                                         *)
(***************************************************************************)

\* A start that is not refused found nothing wrong with any variable.
LEMMA NothingWrong ==
    ASSUME NEW e, StartError(e) = "none"
    PROVE  /\ KeySourceError(e) = "none" /\ SettingError(e) = "none"
           /\ KeySource(e) # None => KeySetError(KeySource(e)) = "none"
BY DEF StartError

\* The keys of such a start come from one variable, and each from a file.
LEMMA KeysAreRead ==
    ASSUME NEW e \in EnvironmentValues, StartError(e) = "none", KeySource(e) # None
    PROVE  /\ KeySource(e) \in Seq(Entries) /\ KeySource(e) # <<>>
           /\ IsSet(e.keys) => KeySource(e) = e.keys /\ ~IsSet(e.pubkey)
           /\ ~IsSet(e.keys) => IsSet(e.pubkey) /\ KeySource(e) = <<Entry(None, e.pubkey)>>
           /\ \A i \in 1..Len(KeySource(e)) : KeySource(e)[i].file \in Files
<1> DEFINE entries == KeySource(e)
<1>1. /\ KeySourceError(e) = "none"
      /\ KeySetError(entries) = "none"
  BY NothingWrong
<1>2. e.keys \in {Unset, NotUnicode, Blank, Junk} \cup Seq(Entries)
      /\ e.pubkey \in {Unset, NotUnicode, Blank} \cup Files
  BY DEF EnvironmentValues
<1>3. /\ e.keys # Blank /\ e.keys # Junk /\ e.keys # <<>> /\ e.pubkey # Blank
      /\ ~(IsSet(e.keys) /\ IsSet(e.pubkey))
      /\ IsSet(e.keys) => \A i \in DOMAIN e.keys : e.keys[i].file # Blank
  BY <1>1, NullsDiffer DEF KeySourceError, IsSet
<1>4. CASE IsSet(e.keys)
  <2>1. entries = e.keys /\ e.keys \in Seq(Entries) /\ e.keys # <<>>
    <3>1. entries = e.keys
      BY <1>4 DEF KeySource
    <3>2. e.keys # Unset /\ e.keys # NotUnicode
      BY <1>4 DEF IsSet
    <3>3. e.keys \in Seq(Entries)
      BY <1>2, <1>3, <3>2
    <3> QED
      BY <1>3, <3>1, <3>3
  <2>2. \A i \in 1..Len(e.keys) : e.keys[i] \in Entries /\ e.keys[i].file # Blank
    BY <1>3, <1>4, <2>1
  <2>3. \A i \in 1..Len(e.keys) : e.keys[i].file \in Files
    BY <2>2 DEF Entries
  <2> QED
    BY <1>3, <1>4, <2>1, <2>3
<1>5. CASE ~IsSet(e.keys)
  <2>1. IsSet(e.pubkey) /\ entries = <<Entry(None, e.pubkey)>>
    BY <1>5 DEF KeySource
  <2>2. e.pubkey \in Files
    BY <1>2, <1>3, <2>1 DEF IsSet
  <2>3. Entry(None, e.pubkey) \in Entries /\ Entry(None, e.pubkey).file = e.pubkey
    BY <2>2 DEF Entry, Entries
  <2> QED
    BY <1>5, <2>1, <2>2, <2>3
<1> QED
  BY <1>4, <1>5

\* What with_keys lets through.
LEMMA KeysAreGood ==
    ASSUME NEW entries \in Seq(Entries), KeySetError(entries) = "none",
           \A i \in 1..Len(entries) : entries[i].file \in Files
    PROVE  /\ Len(entries) <= MaxKeys
           /\ \A i \in 1..Len(entries) :
                  /\ entries[i].kid \in Kids \cup {None}
                  /\ Disk[entries[i].file].key \in KeyPairs
           /\ ~KidRepeated(entries)
<1>1. DOMAIN entries = 1..Len(entries) /\ Len(entries) \in Nat
  OBVIOUS
<1>2. /\ ~(Len(entries) > MaxKeys) /\ ~KidRepeated(entries)
      /\ \A i \in DOMAIN entries :
             /\ Disk[entries[i].file] # Absent /\ Disk[entries[i].file] # NotAKey
             /\ entries[i].kid # Blank
  BY DEF KeySetError
<1>3. ASSUME NEW i \in 1..Len(entries)
      PROVE  /\ entries[i].kid \in Kids \cup {None}
             /\ Disk[entries[i].file].key \in KeyPairs
  <2>1. entries[i] \in Entries
    OBVIOUS
  <2>2. entries[i].kid \in Kids \cup {None}
    BY <1>1, <1>2, <2>1 DEF Entries
  <2>3. Disk[entries[i].file] \in [key : KeyPairs, encoding : Encodings]
    BY <1>1, <1>2, DiskAssumption DEF DiskAssumption
  <2> QED
    BY <2>2, <2>3
<1> QED
  BY <1>1, <1>2, <1>3, RotationAssumption DEF RotationAssumption

\* A gateway that starts has a path if and only if its environment names a key, and
\* its path is of the right shape.
LEMMA PathIsWhole ==
    ASSUME NEW e \in EnvironmentValues, StartError(e) = "none"
    PROVE  /\ KeySource(e) = None =>
                  /\ PathOf(e) = NoPath
                  /\ ~IsSet(e.keys) /\ ~IsSet(e.pubkey) /\ ~IsSet(e.issuer) /\ ~IsSet(e.audience)
           /\ KeySource(e) # None =>
                  /\ PathOf(e).keys \in KeySets /\ PathOf(e) # NoPath
                  /\ DOMAIN PathOf(e) = {"keys", "issuer", "audience"}
                  /\ DOMAIN PathOf(e).keys = DOMAIN KeySource(e)
                  /\ Len(PathOf(e).keys) <= MaxKeys
                  /\ \A i \in DOMAIN KeySource(e) : PathOf(e).keys[i] =
                         [kid |-> KeySource(e)[i].kid, key |-> Disk[KeySource(e)[i].file].key]
                  /\ PathOf(e).issuer = e.issuer /\ e.issuer \in Issuers
                  /\ PathOf(e).audience = IF IsSet(e.audience) THEN e.audience ELSE None
                  /\ IsSet(e.audience) => e.audience \in Audiences
<1>1. KeySourceError(e) = "none" /\ SettingError(e) = "none"
  BY NothingWrong
<1>2. CASE KeySource(e) = None
  <2>1. PathOf(e) = NoPath
    BY <1>2 DEF PathOf
  <2>2. ~IsSet(e.issuer) /\ ~IsSet(e.audience)
    BY <1>1, <1>2 DEF SettingError
  <2>3. ~IsSet(e.keys)
    <3>1. SUFFICES ASSUME IsSet(e.keys) PROVE FALSE
      OBVIOUS
    <3>2. e.keys = None
      BY <1>2, <3>1 DEF KeySource
    <3>3. e.keys \in {Unset, NotUnicode, Blank, Junk} \cup Seq(Entries)
      BY DEF EnvironmentValues
    <3> QED
      BY <3>2, <3>3, NullsDiffer, NullsAreNoValues
  <2>4. ~IsSet(e.pubkey)
    <3>1. SUFFICES ASSUME IsSet(e.pubkey) PROVE FALSE
      OBVIOUS
    <3>2. <<Entry(None, e.pubkey)>> = None
      BY <1>2, <2>3, <3>1 DEF KeySource
    <3>3. e.pubkey \in Files
      BY <1>1, <2>3, <3>1, NullsDiffer DEF EnvironmentValues, KeySourceError, IsSet
    <3>4. <<Entry(None, e.pubkey)>> \in Seq(Entries)
      BY <3>3 DEF Entries, Entry
    <3> QED
      BY <3>2, <3>4, NullsAreNoValues
  <2> QED
    BY <1>2, <2>1, <2>2, <2>3, <2>4
<1>3. CASE KeySource(e) # None
  <2> DEFINE entries == KeySource(e)
             keys == [i \in DOMAIN entries |->
                         [kid |-> entries[i].kid, key |-> Disk[entries[i].file].key]]
  <2>1. /\ entries \in Seq(Entries) /\ entries # <<>>
        /\ \A i \in 1..Len(entries) : entries[i].file \in Files
    BY <1>3, KeysAreRead
  <2>2. KeySetError(entries) = "none"
    BY <1>3, NothingWrong
  <2>3. /\ PathOf(e).keys = keys /\ PathOf(e).issuer = e.issuer
        /\ PathOf(e).audience = IF IsSet(e.audience) THEN e.audience ELSE None
        /\ DOMAIN PathOf(e) = {"keys", "issuer", "audience"}
    BY <1>3 DEF PathOf
  <2> HIDE DEF entries
  <2>4. /\ Len(entries) <= MaxKeys
        /\ \A i \in 1..Len(entries) :
               entries[i].kid \in Kids \cup {None} /\ Disk[entries[i].file].key \in KeyPairs
    BY <2>1, <2>2, KeysAreGood
  <2>5. DOMAIN entries = 1..Len(entries) /\ Len(entries) \in Nat \ {0}
    BY <2>1, EmptySeq
  <2>6. keys \in KeySets /\ Len(keys) = Len(entries)
    <3>1. keys \in [1..Len(entries) -> [kid : Kids \cup {None}, key : KeyPairs]]
      BY <2>4, <2>5
    <3>2. keys \in Seq([kid : Kids \cup {None}, key : KeyPairs]) /\ Len(keys) = Len(entries)
      BY <2>5, <3>1, SeqOfFunction
    <3>3. keys # <<>>
      <4> HIDE DEF keys
      <4> QED
        BY <2>5, <3>2
    <3> QED
      BY <3>2, <3>3 DEF KeySets
  <2>7. DOMAIN keys = DOMAIN entries
    OBVIOUS
  <2>8. PathOf(e) # NoPath
    <3>1. NoPath.keys = <<>>
      BY DEF NoPath
    <3> QED
      BY <2>3, <2>6, <3>1 DEF KeySets
  <2>9. IsSet(e.audience) => e.audience \in Audiences
    BY <1>1, <1>3, NullsDiffer DEF SettingError, EnvironmentValues, IsSet
  <2>10. e.issuer \in Issuers
    BY <1>1, <1>3, NullsDiffer DEF SettingError, EnvironmentValues, IsSet
  <2> HIDE DEF keys
  <2>11. \A i \in DOMAIN entries : keys[i] =
             [kid |-> entries[i].kid, key |-> Disk[entries[i].file].key]
    BY DEF keys
  <2> QED
    BY <1>3, <2>3, <2>4, <2>6, <2>7, <2>8, <2>9, <2>10, <2>11 DEF entries
<1> QED
  BY <1>2, <1>3
-----------------------------------------------------------------------------
(***************************************************************************)
(* The environments of a rotation, and the paths they start.               *)
(***************************************************************************)

LEMMA OurIssuerIsOne == OurIssuer \in Issuers
BY RotationAssumption DEF RotationAssumption, OurIssuer

\* A list of entries arms the keys its files hold, for our issuer and no audience.
LEMMA ArmedBy ==
    ASSUME NEW e, e.keys \in Seq(Entries), e.issuer = OurIssuer, e.audience = Unset
    PROVE  /\ KeySource(e) = e.keys
           /\ PathOf(e).issuer = OurIssuer /\ PathOf(e).audience = None
           /\ Armed(PathOf(e)) = {Disk[e.keys[i].file].key : i \in DOMAIN e.keys}
<1>1. IsSet(e.keys) /\ e.keys # None /\ ~IsSet(e.audience)
  BY NullsAreNoValues DEF IsSet
<1>2. KeySource(e) = e.keys
  BY <1>1 DEF KeySource
<1>3. PathOf(e) =
          [ keys     |-> [i \in DOMAIN e.keys |->
                            [kid |-> e.keys[i].kid, key |-> Disk[e.keys[i].file].key]],
            issuer   |-> e.issuer,
            audience |-> None ]
  BY <1>1, <1>2 DEF PathOf
<1>4. /\ PathOf(e).keys = [i \in DOMAIN e.keys |->
                            [kid |-> e.keys[i].kid, key |-> Disk[e.keys[i].file].key]]
      /\ PathOf(e).issuer = e.issuer /\ PathOf(e).audience = None
  BY ONLY <1>3
<1>5. /\ DOMAIN PathOf(e).keys = DOMAIN e.keys
      /\ \A i \in DOMAIN e.keys : PathOf(e).keys[i].key = Disk[e.keys[i].file].key
  <2>1. \A i \in DOMAIN e.keys :
            PathOf(e).keys[i] = [kid |-> e.keys[i].kid, key |-> Disk[e.keys[i].file].key]
      BY ONLY <1>4, Zenon
  <2>2. ASSUME NEW i \in DOMAIN e.keys
        PROVE  PathOf(e).keys[i].key = Disk[e.keys[i].file].key
    <3> DEFINE kid == e.keys[i].kid
               key == Disk[e.keys[i].file].key
    <3>1. PathOf(e).keys[i] = [kid |-> kid, key |-> key]
        BY ONLY <2>1, <2>2, Zenon DEF kid, key
    <3> HIDE DEF kid, key
    <3>2. PathOf(e).keys[i].key = key
        BY ONLY <3>1
    <3> QED BY ONLY <3>2, Zenon DEF key
  <2>3. DOMAIN PathOf(e).keys = DOMAIN e.keys
      BY ONLY <1>4, Zenon
  <2> QED BY ONLY <2>2, <2>3
<1>6. Armed(PathOf(e)) = {Disk[e.keys[i].file].key : i \in DOMAIN e.keys}
  BY ONLY <1>5 DEF Armed
<1> QED
  BY ONLY <1>2, <1>4, <1>6, e.issuer = OurIssuer

\* The entries of a rotation.
OneFile(file) == [kid : Kids \cup {None}, file : {file}]

LEMMA EntriesOfRotation ==
    ASSUME NEW file \in {OldFile, NewFile}
    PROVE  /\ OneFile(file) \subseteq Entries
           /\ \A a \in OneFile(file) : a.file = file
           /\ \A kid \in Kids \cup {None} : Entry(kid, file) \in OneFile(file)
           /\ \A a \in OneFile(file) : a = Entry(a.kid, file)
BY RotationAssumption DEF RotationAssumption, OneFile, Entries, Entry

LEMMA Before ==
    ASSUME NEW e \in BeforeRotation
    PROVE  /\ e \in EnvironmentValues
           /\ PathOf(e).issuer = OurIssuer /\ PathOf(e).audience = None
           /\ Old \in Armed(PathOf(e))
           /\ \E a \in OneFile(OldFile) : KeySource(e) = <<a>>
           /\ e.issuer = OurIssuer /\ e.audience = Unset
           /\ e = [keys |-> e.keys, pubkey |-> e.pubkey, issuer |-> OurIssuer, audience |-> Unset]
<1> USE RotationAssumption DEF RotationAssumption
<1>1. /\ e.issuer = OurIssuer /\ e.audience = Unset
      /\ e = [keys |-> e.keys, pubkey |-> e.pubkey, issuer |-> OurIssuer, audience |-> Unset]
  BY DEF BeforeRotation
<1>2. ~IsSet(e.audience)
  BY <1>1 DEF IsSet
<1>3. CASE e.pubkey = Unset /\ \E kid \in Kids \cup {None} : e.keys = <<Entry(kid, OldFile)>>
  <2>1. PICK a \in OneFile(OldFile) : e.keys = <<a>>
    BY <1>3, EntriesOfRotation
  <2>2. e.keys \in Seq(Entries) /\ DOMAIN e.keys = 1..1 /\ e.keys[1] = a /\ a.file = OldFile
    BY <2>1, EntriesOfRotation
  <2>3. e \in EnvironmentValues
    BY <1>1, <1>3, <2>2, OurIssuerIsOne DEF EnvironmentValues
  <2>4. Old \in Armed(PathOf(e))
    BY <1>1, <2>2, ArmedBy
  <2> QED
    BY <1>1, <2>1, <2>2, <2>3, <2>4, ArmedBy
<1>4. CASE e.keys = Unset /\ e.pubkey = OldFile
  <2>1. ~IsSet(e.keys) /\ IsSet(e.pubkey)
    BY <1>4, NullsAreNoValues DEF IsSet
  <2>2. KeySource(e) = <<Entry(None, OldFile)>>
    BY <1>4, <2>1 DEF KeySource
  <2>3. Entry(None, OldFile) \in OneFile(OldFile) /\ Entry(None, OldFile) \in Entries
    BY EntriesOfRotation
  <2>4. KeySource(e) # None
    <3>1. KeySource(e) \in Seq(Entries)
      BY <2>2, <2>3
    <3> QED
      BY <3>1, NullsAreNoValues
  <2>5. /\ PathOf(e).keys = [i \in 1..1 |-> [kid |-> None, key |-> Disk[OldFile].key]]
        /\ PathOf(e).issuer = e.issuer /\ PathOf(e).audience = None
    <3>1. /\ PathOf(e).keys = [i \in DOMAIN KeySource(e) |->
                 [kid |-> KeySource(e)[i].kid, key |-> Disk[KeySource(e)[i].file].key]]
          /\ PathOf(e).issuer = e.issuer /\ PathOf(e).audience = None
      BY <1>2, <2>4 DEF PathOf
    <3>2. DOMAIN KeySource(e) = 1..1 /\ KeySource(e)[1] = Entry(None, OldFile)
      BY <2>2
    <3> QED
      BY <3>1, <3>2 DEF Entry
  <2>6. Old \in Armed(PathOf(e))
    BY <2>5 DEF Armed
  <2>7. e \in EnvironmentValues
    BY <1>1, <1>4, OurIssuerIsOne DEF EnvironmentValues
  <2> QED
    BY <1>1, <2>2, <2>3, <2>5, <2>6, <2>7
<1> QED
  BY <1>3, <1>4 DEF BeforeRotation

LEMMA During ==
    ASSUME NEW e \in RotatingEnvironments
    PROVE  /\ e \in EnvironmentValues
           /\ PathOf(e).issuer = OurIssuer /\ PathOf(e).audience = None
           /\ {Old, New} \subseteq Armed(PathOf(e))
           /\ \E a \in OneFile(OldFile), b \in OneFile(NewFile) :
                  e.keys = <<a, b>> \/ e.keys = <<b, a>>
           /\ e = [keys |-> e.keys, pubkey |-> Unset, issuer |-> OurIssuer, audience |-> Unset]
<1> USE RotationAssumption DEF RotationAssumption
<1>1. PICK a \in OneFile(OldFile), b \in OneFile(NewFile) : e.keys = <<a, b>> \/ e.keys = <<b, a>>
  BY DEF RotatingEnvironments, OneFile
<1>2. /\ e.issuer = OurIssuer /\ e.audience = Unset
      /\ e = [keys |-> e.keys, pubkey |-> Unset, issuer |-> OurIssuer, audience |-> Unset]
  BY DEF RotatingEnvironments
<1>3. a \in Entries /\ b \in Entries /\ a.file = OldFile /\ b.file = NewFile
  BY EntriesOfRotation
<1>4. e.keys \in Seq(Entries) /\ DOMAIN e.keys = 1..2
  <2>1. <<a, b>> \in Seq(Entries) /\ DOMAIN <<a, b>> = 1..2
    BY <1>3
  <2>2. <<b, a>> \in Seq(Entries) /\ DOMAIN <<b, a>> = 1..2
    BY <1>3
  <2> QED
    BY <1>1, <2>1, <2>2
<1>5. e \in EnvironmentValues
  BY <1>2, <1>4, OurIssuerIsOne DEF EnvironmentValues
<1>6. {Old, New} \subseteq {Disk[e.keys[i].file].key : i \in DOMAIN e.keys}
  <2>1. CASE e.keys = <<a, b>>
    <3>1. e.keys[1].file = OldFile /\ e.keys[2].file = NewFile
      BY <1>3, <2>1
    <3> QED
      BY <1>4, <3>1
  <2>2. CASE e.keys = <<b, a>>
    <3>1. e.keys[2].file = OldFile /\ e.keys[1].file = NewFile
      BY <1>3, <2>2
    <3> QED
      BY <1>4, <3>1
  <2> QED
    BY <1>1, <2>1, <2>2
<1> QED
  BY <1>1, <1>2, <1>4, <1>5, <1>6, ArmedBy

LEMMA After ==
    ASSUME NEW e \in AfterRotation
    PROVE  /\ e \in EnvironmentValues
           /\ PathOf(e).issuer = OurIssuer /\ PathOf(e).audience = None
           /\ Armed(PathOf(e)) = {New} /\ KeySource(e) # None
<1> USE RotationAssumption DEF RotationAssumption
<1>1. PICK a \in OneFile(NewFile) : e.keys = <<a>>
  BY EntriesOfRotation DEF AfterRotation
<1>2. e.issuer = OurIssuer /\ e.audience = Unset
  BY DEF AfterRotation
<1>3. a \in Entries /\ a.file = NewFile
  BY EntriesOfRotation
<1>4. e.keys \in Seq(Entries) /\ DOMAIN e.keys = 1..1 /\ e.keys[1].file = NewFile
  BY <1>1, <1>3
<1>5. e \in EnvironmentValues
  BY <1>2, <1>4, OurIssuerIsOne DEF EnvironmentValues, AfterRotation
<1>6. {Disk[e.keys[i].file].key : i \in DOMAIN e.keys} = {New}
  BY <1>4
<1> QED
  BY <1>2, <1>4, <1>5, <1>6, ArmedBy, NullsAreNoValues

\* Arming the new key makes the environment of a rotation of that before it, and
\* dropping the old key the one after it.
LEMMA ArmNewRotates ==
    ASSUME NEW e \in BeforeRotation, NEW kid \in Kids \cup {None},
           NEW ks \in {<<Entry(kid, NewFile)>> \o KeySource(e),
                       Append(KeySource(e), Entry(kid, NewFile))}
    PROVE  [e EXCEPT !.keys = ks, !.pubkey = Unset] \in RotatingEnvironments
<1>1. PICK a \in OneFile(OldFile) : KeySource(e) = <<a>>
  BY Before
<1>2. Entry(kid, NewFile) \in OneFile(NewFile)
  BY EntriesOfRotation
<1>3. ks = <<Entry(kid, NewFile), a>> \/ ks = <<a, Entry(kid, NewFile)>>
  BY <1>1
<1>4. PICK k, q : e = [keys |-> k, pubkey |-> q, issuer |-> OurIssuer, audience |-> Unset]
  BY Before
<1>5. [e EXCEPT !.keys = ks, !.pubkey = Unset] =
          [keys |-> ks, pubkey |-> Unset, issuer |-> OurIssuer, audience |-> Unset]
  <2> DEFINE e1 == [e EXCEPT !.keys = ks]
  <2>1. [e EXCEPT !.keys = ks, !.pubkey = Unset] = [e1 EXCEPT !.pubkey = Unset]
    BY ONLY <1>4
  <2>2. e1 = [keys |-> ks, pubkey |-> q, issuer |-> OurIssuer, audience |-> Unset]
    BY ONLY <1>4
  <2> HIDE DEF e1
  <2>3. [e1 EXCEPT !.pubkey = Unset] =
            [keys |-> ks, pubkey |-> Unset, issuer |-> OurIssuer, audience |-> Unset]
    BY ONLY <2>2
  <2> QED
    BY ONLY <2>1, <2>3
<1>6. ks \in {<<a1, b1>> : a1 \in OneFile(OldFile), b1 \in OneFile(NewFile)}
                \cup {<<a1, b1>> : a1 \in OneFile(NewFile), b1 \in OneFile(OldFile)}
  BY <1>2, <1>3
<1>7. RotatingEnvironments =
          [ keys : {<<a1, b1>> : a1 \in OneFile(OldFile), b1 \in OneFile(NewFile)}
                       \cup {<<a1, b1>> : a1 \in OneFile(NewFile), b1 \in OneFile(OldFile)},
            pubkey : {Unset}, issuer : {OurIssuer}, audience : {Unset} ]
  BY DEF RotatingEnvironments, OneFile
<1>8. [keys |-> ks, pubkey |-> Unset, issuer |-> OurIssuer, audience |-> Unset]
          \in RotatingEnvironments
  BY <1>6, <1>7
<1> QED
  BY ONLY <1>5, <1>8

LEMMA DropOldRotates ==
    ASSUME NEW e \in RotatingEnvironments, NEW i \in DOMAIN e.keys, e.keys[i].file # OldFile
    PROVE  [e EXCEPT !.keys = <<@[i]>>] \in AfterRotation
<1>1. PICK a \in OneFile(OldFile), b \in OneFile(NewFile) : e.keys = <<a, b>> \/ e.keys = <<b, a>>
  BY During
<1>2. a.file = OldFile /\ b.file = NewFile /\ b = Entry(b.kid, NewFile)
  BY EntriesOfRotation
<1>3. e.keys[i] = b
  BY <1>1, <1>2
<1>4. e = [keys |-> e.keys, pubkey |-> Unset, issuer |-> OurIssuer, audience |-> Unset]
  BY During
<1>5. [e EXCEPT !.keys = <<@[i]>>] =
          [keys |-> <<b>>, pubkey |-> Unset, issuer |-> OurIssuer, audience |-> Unset]
  BY <1>3, <1>4
<1>6. <<b>> \in {<<Entry(kid, NewFile)>> : kid \in Kids \cup {None}}
  BY <1>2 DEF OneFile
<1> QED
  BY <1>5, <1>6 DEF AfterRotation
-----------------------------------------------------------------------------
(***************************************************************************)
(* The invariants, one part at a time.                                     *)
(***************************************************************************)

\* A path that starts, or none, keeps its type.
LEMMA TypeOKInductive == TypeOK /\ StartedAsConfigured /\ [Next]_vars => TypeOK'
<1> SUFFICES ASSUME TypeOK, StartedAsConfigured, [Next]_vars PROVE TypeOK'
  OBVIOUS
<1> DEFINE PathOK(p) ==
        /\ \A i \in DOMAIN p.keys : p.keys[i] \in [kid : Kids \cup {None}, key : KeyPairs]
        /\ Len(p.keys) <= MaxKeys
        /\ p.issuer \in Issuers \cup {None} /\ p.audience \in Audiences \cup {None}
<1>a. PathOK(path)
  BY DEF TypeOK
<1>b. PathOK(NoPath)
  BY RotationAssumption DEF NoPath, RotationAssumption
<1>1. CASE Restart
  <2>1. path' = NoPath \/ (StartError(env) = "none" /\ path' = PathOf(env))
    BY <1>1 DEF Restart
  <2>2. PathOK(path')
    <3>1. CASE path' = NoPath
      BY <1>b, <3>1
    <3>2. CASE StartError(env) = "none" /\ path' = PathOf(env)
      <4>1. env \in EnvironmentValues
        BY DEF StartedAsConfigured
      <4>2. KeySource(env) = None => path' = NoPath
        BY <3>2, <4>1, PathIsWhole
      <4>3. CASE KeySource(env) # None
        <5>1. /\ path'.keys \in KeySets /\ Len(path'.keys) <= MaxKeys
              /\ path'.issuer \in Issuers /\ path'.audience \in Audiences \cup {None}
          BY <3>2, <4>1, <4>3, PathIsWhole
        <5>2. \A i \in DOMAIN path'.keys :
                  path'.keys[i] \in [kid : Kids \cup {None}, key : KeyPairs]
          <6> DEFINE keys == path'.keys
                     KeyRecords == [kid : Kids \cup {None}, key : KeyPairs]
          <6>1. keys \in Seq(KeyRecords)
            BY <5>1 DEF KeySets
          <6> HIDE DEF keys, KeyRecords
          <6>2. \A i \in DOMAIN keys : keys[i] \in KeyRecords
            BY <6>1
          <6> QED
            BY <6>2 DEF keys, KeyRecords
        <5> QED
          BY <5>1, <5>2
      <4> QED
        BY <1>b, <4>2, <4>3
    <3> QED
      BY <2>1, <3>1, <3>2
  <2>3. StartError(env) \in {"none"} \cup Refusals
    <3>1. KeySourceError(env) \in {"none"} \cup Refusals
      BY DEF KeySourceError, Refusals
    <3>2. SettingError(env) \in {"none"} \cup Refusals
      BY DEF SettingError, Refusals
    <3>3. KeySetError(KeySource(env)) \in {"none"} \cup Refusals
      BY DEF KeySetError, Refusals
    <3> QED
      BY <3>1, <3>2, <3>3 DEF StartError
  <2>4. outcome' \in {"not started", "started"} \cup Refusals
    BY <1>1, <2>3 DEF Restart
  <2> HIDE DEF PathOK
  <2>5. now' \in 0..MaxTime /\ signing' \in [key : {Old, New}, kid : Kids \cup {None}]
        /\ stage' \in {"none", "old", "both", "switched", "new"}
    BY <1>1 DEF Restart, TypeOK
  <2> QED
    BY <2>2, <2>4, <2>5 DEF TypeOK, PathOK
<1>2. CASE Issue
  BY <1>2 DEF Issue, TypeOK
<1>3. CASE Tick
  <2>1. now' \in 0..MaxTime
    <3>1. now \in 0..MaxTime /\ now < MaxTime /\ now' = now + 1
      BY <1>3 DEF Tick, TypeOK
    <3> QED
      BY <3>1, Times
  <2> QED
    BY <1>3, <2>1 DEF Tick, TypeOK
<1>4. ASSUME NEW t \in Presented, Present(t) PROVE TypeOK'
  BY <1>4 DEF Present, TypeOK
<1>5. CASE ArmNew
  <2>1. UNCHANGED <<path, now, signing>> /\ outcome' = "not started" /\ stage' = "both"
    BY <1>5 DEF ArmNew, Rewrite
  <2> QED
    BY <2>1 DEF TypeOK
<1>6. CASE SwitchIssuer
  BY <1>6 DEF SwitchIssuer, TypeOK
<1>7. CASE DropOld
  <2>1. UNCHANGED <<path, now, signing>> /\ outcome' = "not started" /\ stage' = "new"
    BY <1>7 DEF DropOld, Rewrite
  <2> QED
    BY <2>1 DEF TypeOK
<1>8. CASE UNCHANGED vars
  BY <1>8 DEF vars, TypeOK
<1> QED
  BY <1>1, <1>2, <1>3, <1>4, <1>5, <1>6, <1>7, <1>8 DEF Next

\* The two steps of a rotation that write an environment write one of its own.
LEMMA RotationWrites ==
    ASSUME RotationInStep
    PROVE  /\ ArmNew => env' \in RotatingEnvironments
           /\ DropOld => env' \in AfterRotation
<1>1. ASSUME ArmNew PROVE env' \in RotatingEnvironments
  <2>1. env \in BeforeRotation
    BY <1>1 DEF ArmNew, RotationInStep, EnvInStep
  <2>2. PICK kid \in Kids \cup {None} :
            \E ks \in {<<Entry(kid, NewFile)>> \o KeySource(env),
                       Append(KeySource(env), Entry(kid, NewFile))} :
                env' = [env EXCEPT !.keys = ks, !.pubkey = Unset]
    BY <1>1 DEF ArmNew, Rewrite
  <2> QED
    BY <2>1, <2>2, ArmNewRotates
<1>2. ASSUME DropOld PROVE env' \in AfterRotation
  <2>1. env \in RotatingEnvironments
    BY <1>2 DEF DropOld, RotationInStep, EnvInStep
  <2>2. PICK i \in DOMAIN env.keys :
                 env.keys[i].file # OldFile /\ env' = [env EXCEPT !.keys = <<@[i]>>]
    BY <1>2 DEF DropOld, Rewrite
  <2> QED
    BY <2>1, <2>2, DropOldRotates
<1> QED
  BY <1>1, <1>2

LEMMA StartedInductive ==
    RotationInStep /\ StartedAsConfigured /\ [Next]_vars => StartedAsConfigured'
<1> SUFFICES ASSUME RotationInStep, StartedAsConfigured, [Next]_vars
             PROVE  StartedAsConfigured'
  OBVIOUS
<1>1. CASE Restart
  <2>1. env' = env /\ env \in EnvironmentValues
    BY <1>1 DEF Restart, StartedAsConfigured
  <2>2. CASE StartError(env) = "none"
    <3>1. path' = PathOf(env) /\ outcome' = "started"
      BY <1>1, <2>2 DEF Restart
    <3>2. path' # NoPath => IsPath(path')
      BY <2>1, <2>2, <3>1, PathIsWhole DEF IsPath
    <3> QED
      BY <2>1, <2>2, <3>1, <3>2 DEF StartedAsConfigured
  <2>3. CASE StartError(env) # "none"
    <3>1. path' = NoPath /\ outcome' = StartError(env)
      BY <1>1, <2>3 DEF Restart
    <3>2. StartError(env) # "started"
      BY DEF StartError, KeySourceError, SettingError, KeySetError
    <3> QED
      BY <2>1, <3>1, <3>2 DEF StartedAsConfigured
  <2> QED
    BY <2>2, <2>3
<1>2. ASSUME UNCHANGED <<env, outcome, path>> PROVE StartedAsConfigured'
  BY <1>2 DEF StartedAsConfigured
<1>3. ASSUME env' \in EnvironmentValues, outcome' = "not started", UNCHANGED path
      PROVE  StartedAsConfigured'
  BY <1>3 DEF StartedAsConfigured
<1>4. CASE ArmNew
  <2>1. outcome' = "not started" /\ UNCHANGED path
    BY <1>4 DEF ArmNew, Rewrite
  <2> QED
    BY <1>3, <1>4, <2>1, RotationWrites, During
<1>5. CASE DropOld
  <2>1. outcome' = "not started" /\ UNCHANGED path
    BY <1>5 DEF DropOld, Rewrite
  <2> QED
    BY <1>3, <1>5, <2>1, RotationWrites, After
<1>6. ASSUME NEW t \in Presented, Present(t) PROVE UNCHANGED <<env, outcome, path>>
  BY <1>6 DEF Present
<1>7. Issue \/ Tick \/ SwitchIssuer \/ UNCHANGED vars => UNCHANGED <<env, outcome, path>>
  BY DEF Issue, Tick, SwitchIssuer, vars
<1> QED
  BY <1>1, <1>2, <1>4, <1>5, <1>6, <1>7 DEF Next

\* A reply stays with the path that gave it until time passes or the process restarts.
LEMMA ReplyInductive ==
    StartedAsConfigured /\ ReplyIsCurrent /\ [Next]_vars => ReplyIsCurrent'
<1> SUFFICES ASSUME StartedAsConfigured, ReplyIsCurrent, [Next]_vars PROVE ReplyIsCurrent'
  OBVIOUS
<1>1. ASSUME NEW t \in Presented, Present(t) PROVE ReplyIsCurrent'
  <2>1. reply' = [token |-> t, path |-> path, verdict |-> Verify(path, t), at |-> now]
        /\ now' = now /\ issued' = issued /\ path # NoPath
    BY <1>1 DEF Present
  <2>2. reply'.token = t /\ reply'.path = path /\ reply'.at = now
        /\ reply'.verdict = Verify(path, t)
    BY <2>1
  <2>3. IsPath(path)
    BY <2>1 DEF StartedAsConfigured
  <2>4. Verify(reply.path, reply.token)' = Verify(path, t)
    <3>1. reply'.path = path /\ reply'.token = t /\ now' = now
      BY <2>1, <2>2
    <3> QED
      BY ONLY <3>1 DEF Verify, DecodeWith, ClaimsError
  <2>5. t \in Tokens \cup issued
    BY DEF Presented
  <2> QED
    BY <2>1, <2>2, <2>3, <2>4, <2>5 DEF ReplyIsCurrent
<1>2. ASSUME UNCHANGED <<reply, now>>, issued \subseteq issued' PROVE ReplyIsCurrent'
  <2>1. Verify(reply.path, reply.token)' = Verify(reply.path, reply.token)
    BY <1>2 DEF Verify, DecodeWith, ClaimsError
  <2> QED
    BY <1>2, <2>1 DEF ReplyIsCurrent
<1>3. ASSUME reply' = NoReply PROVE ReplyIsCurrent'
  BY <1>3 DEF ReplyIsCurrent, NoReply, NoPath, Verdict
<1>4. Restart \/ Tick => reply' = NoReply
  BY DEF Restart, Tick
<1>5. Issue \/ ArmNew \/ SwitchIssuer \/ DropOld \/ UNCHANGED vars =>
          UNCHANGED <<reply, now>> /\ issued \subseteq issued'
  BY DEF Issue, ArmNew, SwitchIssuer, DropOld, Rewrite, vars
<1> QED
  BY <1>1, <1>2, <1>3, <1>4, <1>5 DEF Next

\* The environments follow the stages of the rotation.
LEMMA EnvInStepInductive == RotationInStep /\ [Next]_vars => EnvInStep'
<1> SUFFICES ASSUME RotationInStep, [Next]_vars PROVE EnvInStep'
  OBVIOUS
<1>0. EnvInStep
  BY DEF RotationInStep
<1>1. CASE Restart
  BY <1>0, <1>1 DEF Restart, EnvInStep
<1>2. Issue \/ Tick \/ UNCHANGED vars => UNCHANGED <<env, stage, outcome>>
  BY DEF Issue, Tick, vars
<1>3. ASSUME NEW t \in Presented, Present(t) PROVE UNCHANGED <<env, stage, outcome>>
  BY <1>3 DEF Present
<1>4. UNCHANGED <<env, stage, outcome>> => EnvInStep'
  BY <1>0 DEF EnvInStep
<1>5. CASE ArmNew
  <2>1. stage' = "both" /\ env' \in RotatingEnvironments
    BY <1>5, RotationWrites DEF ArmNew
  <2> QED
    BY <2>1 DEF EnvInStep
<1>6. CASE SwitchIssuer
  BY <1>0, <1>6 DEF SwitchIssuer, EnvInStep
<1>7. CASE DropOld
  <2>1. stage' = "new" /\ env' \in AfterRotation
    BY <1>7, RotationWrites DEF DropOld
  <2> QED
    BY <2>1 DEF EnvInStep
<1> QED
  BY <1>1, <1>2, <1>3, <1>4, <1>5, <1>6, <1>7 DEF Next

\* At every stage the running gateway is armed with every key that signs.
LEMMA PathInStepInductive ==
    TypeOK /\ StartedAsConfigured /\ RotationInStep /\ [Next]_vars => PathInStep'
<1> SUFFICES ASSUME TypeOK, StartedAsConfigured, RotationInStep, [Next]_vars
             PROVE  PathInStep'
  OBVIOUS
<1>0. EnvInStep /\ PathInStep
  BY DEF RotationInStep
<1>a. ASSUME outcome = "started", stage \in {"both", "switched"}
      PROVE  /\ path.issuer = OurIssuer /\ path.audience = None
             /\ {Old, New} \subseteq Armed(path)
  <2>1. path = PathOf(env) /\ env \in RotatingEnvironments
    BY <1>0, <1>a DEF StartedAsConfigured, EnvInStep
  <2> QED
    BY <2>1, During
<1>1. CASE Restart
  <2>1. stage' = stage /\ stage # "switched"
    BY <1>0, <1>1 DEF Restart, EnvInStep
  <2>2. path' = NoPath \/ path' = PathOf(env)
    BY <1>1 DEF Restart
  <2>3. CASE path' = NoPath
    BY <2>3 DEF PathInStep
  <2>4. CASE path' = PathOf(env)
    <3>1. CASE stage = "old"
      BY <1>0, <2>1, <2>4, <3>1, Before DEF EnvInStep, PathInStep, Armed
    <3>2. CASE stage = "both"
      BY <1>0, <2>1, <2>4, <3>2, During DEF EnvInStep, PathInStep, Armed
    <3>3. CASE stage = "new"
      <4>1. env \in AfterRotation
        BY <1>0, <3>3 DEF EnvInStep
      <4>2. Armed(path)' = {New}
        BY <2>4, <4>1, After DEF Armed
      <4> QED
        BY <2>1, <2>4, <3>3, <4>1, <4>2, After DEF PathInStep
    <3>4. CASE stage = "none"
      BY <2>1, <3>4 DEF PathInStep
    <3> QED
      BY <2>1, <3>1, <3>2, <3>3, <3>4 DEF TypeOK
  <2> QED
    BY <2>2, <2>3, <2>4
<1>2. Issue \/ Tick \/ UNCHANGED vars => UNCHANGED <<path, stage>>
  BY DEF Issue, Tick, vars
<1>3. ASSUME NEW t \in Presented, Present(t) PROVE UNCHANGED <<path, stage>>
  BY <1>3 DEF Present
<1>4. UNCHANGED <<path, stage>> => PathInStep'
  BY <1>0 DEF PathInStep
<1>5. CASE ArmNew
  <2>1. stage = "old" /\ stage' = "both" /\ path' = path
    BY <1>5 DEF ArmNew, Rewrite
  <2> QED
    BY <1>0, <2>1 DEF PathInStep
<1>6. CASE SwitchIssuer
  <2>1. outcome = "started" /\ stage = "both" /\ stage' = "switched" /\ path' = path
    BY <1>6 DEF SwitchIssuer
  <2> QED
    BY <1>a, <2>1 DEF PathInStep
<1>7. CASE DropOld
  <2>1. stage = "switched" /\ stage' = "new" /\ path' = path
    BY <1>7 DEF DropOld, Rewrite
  <2> QED
    BY <1>0, <2>1 DEF PathInStep
<1> QED
  BY <1>1, <1>2, <1>3, <1>4, <1>5, <1>6, <1>7 DEF Next

\* The issuer's tokens are its own, and those of a dropped key have expired.
LEMMA TokensInStepInductive ==
    TypeOK /\ RotationInStep /\ [Next]_vars => TokensInStep'
<1> SUFFICES ASSUME TypeOK, RotationInStep, [Next]_vars PROVE TokensInStep'
  OBVIOUS
<1> USE RotationAssumption, Times DEF RotationAssumption
<1>0. TokensInStep /\ now \in Nat
  <2>1. now \in 0..MaxTime
    BY DEF TypeOK
  <2> QED
    BY <2>1 DEF RotationInStep
<1>1. CASE Issue
  <2>1. /\ issued' = issued \cup {Issued(signing)}
        /\ UNCHANGED <<now, signing, stage>> /\ stage # "none"
    BY <1>1 DEF Issue
  <2>2. signing.key \in {Old, New}
    BY DEF TypeOK
  <2>3. now + Skew <= now + Leeway /\ now + Life \in Nat /\ now + Skew \in Nat
    BY <1>0
  <2>4. Issued(signing).signer = signing.key
    BY DEF Issued, Token
  <2>5. ASSUME NEW t, t = Issued(signing) PROVE OurToken(t)'
    <3>1. /\ t.signer = signing.key /\ t.exp = now + Life /\ t.nbf = now + Skew
          /\ t = Token("jwt", "EdDSA", t.signer, t.kid, OurIssuer, None, t.exp, t.nbf)
      BY <2>5 DEF Issued, Token
    <3> QED
      BY <2>1, <2>2, <2>3, <3>1 DEF OurToken
  <2>6. \A t \in issued : OurToken(t)'
    BY <1>0, <2>1 DEF OurToken, TokensInStep
  <2>7. \A t \in issued' : OurToken(t)'
    BY <2>1, <2>5, <2>6
  <2>8. stage' \in {"old", "both"} =>
            signing'.key = Old /\ \A t \in issued' : t.signer = Old
    BY <1>0, <2>1, <2>4 DEF TokensInStep
  <2>9. stage' = "new" => \A t \in issued' : t.signer = Old => ~Live(t)'
    BY <1>0, <2>1, <2>4 DEF TokensInStep, Live
  <2> QED
    BY <1>0, <2>1, <2>7, <2>8, <2>9 DEF TokensInStep
<1>2. CASE Tick
  <2>1. now' = now + 1 /\ UNCHANGED <<issued, signing, stage>>
    BY <1>2 DEF Tick
  <2>2. ASSUME NEW t \in issued PROVE OurToken(t)' /\ (~Live(t) => ~Live(t)')
    <3>1. OurToken(t)
      BY <1>0 DEF TokensInStep
    <3> QED
      BY <1>0, <2>1, <3>1 DEF OurToken, Live
  <2> QED
    BY <1>0, <2>1, <2>2 DEF TokensInStep
<1>3. Restart \/ UNCHANGED vars => UNCHANGED <<now, issued, signing, stage>>
  BY DEF Restart, vars
<1>4. ASSUME NEW t \in Presented, Present(t) PROVE UNCHANGED <<now, issued, signing, stage>>
  BY <1>4 DEF Present
<1>5. UNCHANGED <<now, issued, signing, stage>> => TokensInStep'
  BY <1>0 DEF TokensInStep, OurToken, Live
<1>6. ASSUME UNCHANGED <<now, issued>> PROVE \A t \in issued' : OurToken(t)'
  BY <1>0, <1>6 DEF TokensInStep, OurToken
<1>7. CASE ArmNew
  <2>1. UNCHANGED <<now, issued, signing>> /\ stage = "old" /\ stage' = "both"
    BY <1>7 DEF ArmNew, Rewrite
  <2> QED
    BY <1>0, <1>6, <2>1 DEF TokensInStep
<1>8. CASE SwitchIssuer
  <2>1. UNCHANGED <<now, issued>> /\ stage' = "switched" /\ signing'.key = New
    BY <1>8 DEF SwitchIssuer
  <2> QED
    BY <1>6, <2>1 DEF TokensInStep
<1>9. CASE DropOld
  <2>1. /\ UNCHANGED <<now, issued, signing>> /\ stage = "switched" /\ stage' = "new"
        /\ \A t \in issued : t.signer = Old => ~Live(t)
    BY <1>9 DEF DropOld, Rewrite
  <2>2. \A t \in issued' : t.signer = Old => ~Live(t)'
    BY <2>1 DEF Live
  <2> QED
    BY <1>0, <1>6, <2>1, <2>2 DEF TokensInStep
<1> QED
  BY <1>1, <1>2, <1>3, <1>4, <1>5, <1>7, <1>8, <1>9 DEF Next

Inv == TypeOK /\ StartedAsConfigured /\ RotationInStep /\ ReplyIsCurrent

LEMMA InvInductive == Inv /\ [Next]_vars => Inv'
BY TypeOKInductive, StartedInductive, EnvInStepInductive, PathInStepInductive,
   TokensInStepInductive, ReplyInductive DEF Inv, RotationInStep

LEMMA InvHolds == Spec => []Inv
<1>1. ASSUME Init PROVE Inv
  <2> USE RotationAssumption, Times DEF RotationAssumption
  <2>1. /\ outcome = "not started" /\ path = NoPath /\ now = 0 /\ issued = {}
        /\ reply = NoReply /\ signing \in [key : {Old}, kid : Kids \cup {None}]
        /\ \/ stage = "none" /\ env \in Environments
           \/ stage = "old" /\ env \in BeforeRotation
    <3>1. outcome = "not started" /\ path = NoPath /\ now = 0 /\ issued = {} /\ reply = NoReply
      BY <1>1 DEF Init
    <3>2. \/ /\ stage = "none" /\ env \in Environments
             /\ signing = [key |-> Old, kid |-> None]
          \/ /\ stage = "old" /\ env \in BeforeRotation
             /\ \E kid \in Kids \cup {None} : signing = [key |-> Old, kid |-> kid]
      BY <1>1 DEF Init
    <3>3. signing \in [key : {Old}, kid : Kids \cup {None}]
      BY <3>2
    <3> QED
      BY <3>1, <3>2, <3>3
  <2>2. TypeOK
    <3>1. NoPath.keys = <<>> /\ NoPath.issuer = None /\ NoPath.audience = None
      BY DEF NoPath
    <3>2. /\ \A i \in DOMAIN path.keys :
                 path.keys[i] \in [kid : Kids \cup {None}, key : KeyPairs]
          /\ Len(path.keys) <= MaxKeys
          /\ path.issuer \in Issuers \cup {None} /\ path.audience \in Audiences \cup {None}
      <4>1. path.keys = <<>> /\ path.issuer = None /\ path.audience = None
        BY <2>1, <3>1
      <4>2. DOMAIN <<>> = {} /\ Len(<<>>) = 0 /\ 0 <= MaxKeys
        OBVIOUS
      <4> QED
        BY <4>1, <4>2
    <3>3. now \in 0..MaxTime /\ signing \in [key : {Old, New}, kid : Kids \cup {None}]
      <4>1. now = 0 /\ MaxTime \in Nat
        BY <2>1
      <4>2. now \in 0..MaxTime
        BY <4>1
      <4>3. PICK kid \in Kids \cup {None} : signing = [key |-> Old, kid |-> kid]
        BY <2>1
      <4>4. signing \in [key : {Old, New}, kid : Kids \cup {None}]
        BY ONLY <4>3
      <4> QED
        BY <4>2, <4>4
    <3> QED
      BY <2>1, <3>2, <3>3 DEF TypeOK
  <2>3. StartedAsConfigured
    BY <2>1, EnvironmentsAssumption, Before DEF StartedAsConfigured, EnvironmentsAssumption
  <2>4. EnvInStep /\ PathInStep /\ TokensInStep
    BY <2>1 DEF EnvInStep, PathInStep, TokensInStep
  <2>5. ReplyIsCurrent
    BY <2>1 DEF ReplyIsCurrent
  <2> QED
    BY <2>2, <2>3, <2>4, <2>5 DEF Inv, RotationInStep
<1> QED
  BY <1>1, InvInductive, PTL DEF Spec
-----------------------------------------------------------------------------
(***************************************************************************)
(* What follows.                                                           *)
(***************************************************************************)

\* A token of our issuer, unexpired and signed by an armed key, is honoured.
LEMMA OursIsHonoured ==
    ASSUME NEW p, p.keys \in KeySets, p.issuer = OurIssuer, p.audience = None,
           NEW t, OurToken(t), Live(t), t.signer \in Armed(p), now \in Nat
    PROVE  Verify(p, t).honoured
<1>1. t.form = "jwt" /\ t.alg = "EdDSA" /\ t.iss = OurIssuer /\ t.aud = None
      /\ t.exp \in Nat /\ t.nbf \in Nat /\ t.nbf <= now + Leeway
  BY DEF OurToken, Token
<1>2. OurIssuer # None /\ OurIssuer # Null /\ OurIssuer # Junk /\ None # Junk
  BY OurIssuerIsOne, NullsAreNoValues, NullsDiffer
<1>3. ~(t.exp + Leeway < now) /\ ~(t.nbf > now + Leeway)
  BY <1>1, Times DEF Live
<1>4. ClaimsError(t, p) = "none"
  BY <1>1, <1>2, <1>3 DEF ClaimsError, RequiredAudience, HasAudience
<1>5. Answer(p, t) = Verdict(TRUE, "none")
  BY <1>1, <1>4 DEF Answer
<1> QED
  BY <1>5, VerifyAnswers DEF Verdict

\* No key is missed during a rotation and none is left behind after it, whatever the
\* kids of keys and tokens.
THEOREM CleanRotation == Spec => []RotationIsClean
<1>1. ASSUME Inv PROVE RotationIsClean
  <2>0. TypeOK /\ StartedAsConfigured /\ EnvInStep /\ PathInStep /\ TokensInStep
    BY <1>1 DEF Inv, RotationInStep
  <2>n. now \in Nat /\ Old # New
    <3>1. now \in 0..MaxTime
      BY <2>0 DEF TypeOK
    <3> QED
      BY <3>1, Times, RotationAssumption DEF RotationAssumption
  <2>1. ASSUME path # NoPath, NEW t \in issued, Live(t) PROVE Verify(path, t).honoured
    <3>1. stage \in {"old", "both", "switched", "new"}
      BY <2>0 DEF TokensInStep, TypeOK
    <3>2. OurToken(t) /\ t.signer \in {Old, New}
      BY <2>0 DEF TokensInStep, OurToken
    <3>3. t.signer \in Armed(path)
      BY <2>0, <2>1, <3>1, <3>2 DEF TokensInStep, PathInStep
    <3>4. path.issuer = OurIssuer /\ path.audience = None
      BY <2>0, <2>1, <3>1 DEF PathInStep
    <3>5. path.keys \in KeySets
      BY <2>0, <2>1 DEF StartedAsConfigured, IsPath
    <3> QED
      BY <2>1, <2>n, <3>2, <3>3, <3>4, <3>5, OursIsHonoured
  <2>2. ASSUME stage = "new", outcome = "started", NEW t, t.signer = Old
        PROVE  ~Verify(path, t).honoured
    <3>1. env \in AfterRotation /\ StartError(env) = "none" /\ path = PathOf(env)
      BY <2>0, <2>2 DEF EnvInStep, StartedAsConfigured
    <3>2. Armed(path) = {New} /\ path.keys \in KeySets
      BY <3>1, After, PathIsWhole
    <3>3. Verify(path, t) = Answer(path, t)
      BY <3>2, VerifyAnswers
    <3>4. t.signer \notin Armed(path)
      BY <2>2, <2>n, <3>2
    <3> QED
      BY <3>3, <3>4 DEF Answer, Verdict
  <2> QED
    BY <2>1, <2>2 DEF RotationIsClean, RotationLosesNobody, DroppedKeyIsDead
<1> QED
  BY <1>1, InvHolds, PTL

\* What the answers say of a token.
LEMMA TokensOfReplies ==
    ASSUME Inv, NEW t \in Tokens \cup issued
    PROVE  /\ {"form", "alg", "signer", "iss", "aud", "exp", "nbf"} \subseteq DOMAIN t
           /\ t.aud \in {None, Null, Junk} \cup SUBSET Audiences
<1>1. CASE t \in Tokens
  BY <1>1, TokensAssumption DEF TokensAssumption
<1>2. CASE t \in issued
  <2>1. OurToken(t)
    BY <1>2 DEF Inv, TokensInStep, RotationInStep
  <2> QED
    BY <2>1 DEF OurToken, Token
<1> QED
  BY <1>1, <1>2

\* A token that is honoured satisfies everything the banner announces.
LEMMA HonouredMeans ==
    ASSUME NEW p, p.keys \in KeySets, NEW t, Answer(p, t).honoured, now \in Nat,
           t.aud \in {None, Null, Junk} \cup SUBSET Audiences
    PROVE  /\ t.signer \in Armed(p) /\ t.form = "jwt" /\ t.alg = "EdDSA"
           /\ t.iss = p.issuer
           /\ t.exp + Leeway >= now /\ (t.nbf \in Nat => t.nbf <= now + Leeway)
           /\ IF p.audience = None THEN t.aud \in {None, Null}
              ELSE HasAudience(t) /\ p.audience \in t.aud
<1>1. /\ t.form = "jwt" /\ t.alg = "EdDSA" /\ t.signer \in Armed(p)
      /\ ClaimsError(t, p) = "none"
  BY DEF Answer, Verdict
<1>2. /\ t.exp \in Nat /\ t.aud # Junk
      /\ RequiredAudience(t, p)
      /\ ~(t.exp + Leeway < now)
      /\ ~(t.nbf \in Nat /\ t.nbf > now + Leeway)
      /\ t.iss = p.issuer
      /\ ~(HasAudience(t) /\ p.audience \notin t.aud)
  BY <1>1 DEF ClaimsError
<1>3. t.exp + Leeway >= now /\ (t.nbf \in Nat => t.nbf <= now + Leeway)
  BY <1>2, Times
<1>4. CASE p.audience = None
  <2>1. None \notin Audiences
    BY NullsAreNoValues
  <2>2. ~HasAudience(t)
    BY <1>2, <1>4, <2>1 DEF HasAudience
  <2> QED
    BY <1>1, <1>2, <1>3, <1>4, <2>2 DEF HasAudience
<1>5. CASE p.audience # None
  BY <1>1, <1>2, <1>3, <1>5 DEF RequiredAudience
<1> QED
  BY <1>4, <1>5

\* The answer is a function of the set of keys, and not of the kid of the token.
LEMMA AnswerIsOfTheSet ==
    ASSUME NEW p, NEW q, Armed(p) = Armed(q), p.issuer = q.issuer, p.audience = q.audience,
           NEW t, NEW u, t.form = u.form, t.alg = u.alg, t.signer = u.signer, t.iss = u.iss,
           t.aud = u.aud, t.exp = u.exp, t.nbf = u.nbf
    PROVE  Answer(p, t) = Answer(q, u)
<1>1. HasAudience(t) <=> HasAudience(u)
  BY DEF HasAudience
<1>2. ClaimsError(t, p) = ClaimsError(u, q)
  BY <1>1 DEF ClaimsError, RequiredAudience
<1>3. Describe(ClaimsError(t, p), p) = Describe(ClaimsError(u, q), q)
  BY <1>2 DEF Describe
<1> QED
  BY <1>2, <1>3 DEF Answer

\* Every token is told the truth: what is honoured is what the banner announces, and
\* neither its kid nor the order of the keys has a say in the answer.
THEOREM TrueVerdicts == Spec => []VerdictsAreTrue
<1>1. ASSUME Inv, reply # NoReply
      PROVE  /\ IsPath(reply.path) /\ now \in Nat
             /\ reply.at = now /\ reply.verdict = Answer(reply.path, reply.token)
             /\ {"form", "alg", "signer", "iss", "aud", "exp", "nbf"} \subseteq DOMAIN reply.token
             /\ reply.token.aud \in {None, Null, Junk} \cup SUBSET Audiences
  <2>1. /\ reply.token \in Tokens \cup issued /\ IsPath(reply.path)
        /\ reply.at = now /\ reply.verdict = Verify(reply.path, reply.token)
    BY <1>1 DEF Inv, ReplyIsCurrent
  <2>2. now \in Nat
    <3>1. now \in 0..MaxTime
      BY <1>1 DEF Inv, TypeOK
    <3> QED
      BY <3>1, Times
  <2> QED
    BY <1>1, <2>1, <2>2, TokensOfReplies, VerifyAnswers DEF IsPath
<1>2. ASSUME Inv PROVE HonouredAsAnnounced
  <2> SUFFICES ASSUME reply.verdict.honoured PROVE HonouredAsAnnounced
    BY DEF HonouredAsAnnounced
  <2>1. reply # NoReply
    BY DEF NoReply, Verdict
  <2> DEFINE t == reply.token
             p == reply.path
  <2>2. /\ t.signer \in Armed(p) /\ t.form = "jwt" /\ t.alg = "EdDSA"
        /\ t.iss = p.issuer
        /\ t.exp + Leeway >= now /\ (t.nbf \in Nat => t.nbf <= now + Leeway)
        /\ IF p.audience = None THEN t.aud \in {None, Null}
           ELSE HasAudience(t) /\ p.audience \in t.aud
    BY <1>1, <1>2, <2>1, HonouredMeans DEF IsPath
  <2>3. Banner(p).issuer = p.issuer /\ Banner(p).audience = p.audience
    BY DEF Banner
  <2>4. reply.at = now
    BY <1>1, <1>2, <2>1
  <2>5. \E i \in DOMAIN p.keys : p.keys[i].key = t.signer
    BY <2>2 DEF Armed
  <2> QED
    BY <2>2, <2>3, <2>4, <2>5 DEF HonouredAsAnnounced
<1>3. ASSUME Inv PROVE AnswerIgnoresTheHint
  <2> SUFFICES ASSUME reply # NoReply PROVE AnswerIgnoresTheHint
    BY DEF AnswerIgnoresTheHint
  <2> DEFINE t == reply.token
             p == reply.path
             N == Len(p.keys)
             reversed == [i \in DOMAIN p.keys |-> p.keys[N + 1 - i]]
             backwards == [p EXCEPT !.keys = [i \in DOMAIN @ |-> @[Len(@) + 1 - i]]]
  <2>1. /\ IsPath(p) /\ reply.verdict = Answer(p, t) /\ p.keys \in KeySets
        /\ {"form", "alg", "signer", "iss", "aud", "exp", "nbf"} \subseteq DOMAIN t
    BY <1>1, <1>3 DEF IsPath
  <2>2. ASSUME NEW kid PROVE Verify(p, [t EXCEPT !.kid = kid]) = reply.verdict
    <3> DEFINE u == [t EXCEPT !.kid = kid]
    <3>1. /\ u.form = t.form /\ u.alg = t.alg /\ u.signer = t.signer /\ u.iss = t.iss
          /\ u.aud = t.aud /\ u.exp = t.exp /\ u.nbf = t.nbf
      BY <2>1
    <3> HIDE DEF t, p, u
    <3>2. Verify(p, u) = Answer(p, u)
      BY <2>1, VerifyAnswers
    <3>3. Answer(p, u) = Answer(p, t)
      BY <3>1, AnswerIsOfTheSet
    <3> QED
      BY <2>1, <3>2, <3>3 DEF u
  <2>3. Verify(backwards, t) = reply.verdict
    <3>1. backwards.keys = reversed /\ backwards.issuer = p.issuer
          /\ backwards.audience = p.audience
      BY <2>1 DEF IsPath
    <3> HIDE DEF t, p, backwards
    <3>2. DOMAIN p.keys = 1..N /\ N \in Nat /\ p.keys # <<>>
          /\ p.keys \in [1..N -> [kid : Kids \cup {None}, key : KeyPairs]]
      BY <2>1, LenProperties DEF KeySets
    <3>3. reversed \in Seq([kid : Kids \cup {None}, key : KeyPairs]) /\ Len(reversed) = N
          /\ DOMAIN reversed = 1..N /\ \A i \in 1..N : reversed[i] = p.keys[N + 1 - i]
      <4>1. reversed \in [1..N -> [kid : Kids \cup {None}, key : KeyPairs]]
        BY <3>2
      <4>2. \A i \in 1..N : reversed[i] = p.keys[N + 1 - i]
        BY <3>2
      <4> HIDE DEF reversed, N
      <4> QED
        BY <3>2, <4>1, <4>2, SeqOfFunction
    <3> HIDE DEF reversed
    <3>4. reversed \in KeySets
      BY <2>1, <3>2, <3>3, EmptySeq DEF KeySets
    <3>5. Armed(backwards) = Armed(p)
      <4> HIDE DEF N
      <4>1. \A i \in 1..N : N + 1 - i \in 1..N /\ N + 1 - (N + 1 - i) = i
        BY <3>2
      <4>2. \A i \in 1..N : reversed[i].key = p.keys[N + 1 - i].key
                             /\ p.keys[i].key = reversed[N + 1 - i].key
        BY <3>3, <4>1
      <4>3. Armed(p) = {p.keys[i].key : i \in 1..N}
            /\ Armed(backwards) = {reversed[i].key : i \in 1..N}
        BY <3>1, <3>2, <3>3 DEF Armed
      <4> QED
        BY <4>1, <4>2, <4>3
    <3>6. Verify(backwards, t) = Answer(backwards, t)
      BY <3>1, <3>4, VerifyAnswers
    <3>7. Answer(backwards, t) = Answer(p, t)
      BY <3>1, <3>5, AnswerIsOfTheSet
    <3> QED
      BY <2>1, <3>6, <3>7
  <2>4. ASSUME reply.verdict.reason = "InvalidSignature"
        PROVE  /\ ~ \E i \in DOMAIN p.keys : p.keys[i].key = t.signer
               /\ t.form = "jwt" /\ t.alg = "EdDSA"
    <3>1. ClaimsError(t, p) # "InvalidSignature"
      BY DEF ClaimsError
    <3>2. Describe(ClaimsError(t, p), p) # "InvalidSignature"
      BY <3>1 DEF Describe
    <3>3. t.form = "jwt" /\ t.alg = "EdDSA" /\ t.signer \notin Armed(p)
      BY <2>1, <2>4, <3>2 DEF Answer, Verdict
    <3> QED
      BY <3>3 DEF Armed
  <2> HIDE DEF reversed, N
  <2> QED
    BY <2>2, <2>3, <2>4 DEF AnswerIgnoresTheHint
<1> QED
  BY <1>2, <1>3, InvHolds, PTL DEF VerdictsAreTrue

\* A gateway that started has every key, the issuer and the audience its environment
\* names, and no path if and only if it names none.
THEOREM WholeStart == Spec => []StartIsWhole
<1>1. ASSUME Inv PROVE NoSettingIsInert
  <2> SUFFICES ASSUME outcome = "started" PROVE NoSettingIsInert
    BY DEF NoSettingIsInert
  <2>1. env \in EnvironmentValues /\ StartError(env) = "none" /\ path = PathOf(env)
    BY <1>1 DEF Inv, StartedAsConfigured
  <2>2. CASE KeySource(env) = None
    <3>1. /\ path = NoPath
          /\ ~IsSet(env.keys) /\ ~IsSet(env.pubkey) /\ ~IsSet(env.issuer) /\ ~IsSet(env.audience)
      BY <2>1, <2>2, PathIsWhole
    <3> QED
      BY <3>1 DEF NoSettingIsInert
  <2>3. CASE KeySource(env) # None
    <3> DEFINE entries == KeySource(env)
               keys == {path.keys[i].key : i \in DOMAIN path.keys}
    <3>1. /\ path # NoPath /\ DOMAIN path.keys = DOMAIN entries
          /\ \A i \in DOMAIN entries : path.keys[i] =
                 [kid |-> entries[i].kid, key |-> Disk[entries[i].file].key]
          /\ path.issuer = env.issuer /\ env.issuer \in Issuers
          /\ path.audience = IF IsSet(env.audience) THEN env.audience ELSE None
      BY <2>1, <2>3, PathIsWhole
    <3>2. /\ IsSet(env.keys) => entries = env.keys /\ ~IsSet(env.pubkey)
          /\ ~IsSet(env.keys) => IsSet(env.pubkey) /\ entries = <<Entry(None, env.pubkey)>>
          /\ entries \in Seq(Entries) /\ \A i \in 1..Len(entries) : entries[i].file \in Files
      BY <2>1, <2>3, KeysAreRead
    <3>3. ~KidRepeated(entries)
      BY <2>1, <2>3, <3>2, KeysAreGood, NothingWrong
    <3>4. IsSet(env.issuer)
      BY <3>1, NullsAreNoValues DEF IsSet
    <3> HIDE DEF entries
    <3>a. \A i \in DOMAIN entries : /\ path.keys[i].key = Disk[entries[i].file].key
                                     /\ path.keys[i].kid = entries[i].kid
      <4> SUFFICES ASSUME NEW i \in DOMAIN entries
                   PROVE  /\ path.keys[i].key = Disk[entries[i].file].key
                          /\ path.keys[i].kid = entries[i].kid
        OBVIOUS
      <4>1. path.keys[i] = [kid |-> entries[i].kid, key |-> Disk[entries[i].file].key]
        BY <3>1
      <4> QED
        BY ONLY <4>1
    <3>5. keys = {Disk[entries[i].file].key : i \in DOMAIN entries}
      BY <3>1, <3>a
    <3>6. ~IsSet(env.keys) => keys = {Disk[env.pubkey].key}
      <4>1. SUFFICES ASSUME ~IsSet(env.keys) PROVE keys = {Disk[env.pubkey].key}
        OBVIOUS
      <4>2. DOMAIN entries = 1..1 /\ entries[1].file = env.pubkey
        BY <3>2, <4>1 DEF Entry
      <4> QED
        BY <3>5, <4>2
    <3>7. ASSUME NEW i \in DOMAIN path.keys, NEW j \in DOMAIN path.keys,
                 path.keys[i].kid = path.keys[j].kid, path.keys[i].kid # None
          PROVE  i = j
      <4>1. i \in DOMAIN entries /\ j \in DOMAIN entries
            /\ entries[i].kid = entries[j].kid /\ entries[i].kid # None
        BY <3>1, <3>7, <3>a
      <4>2. i \in Int /\ j \in Int
        BY <3>2, <4>1
      <4>3. ~(i < j) /\ ~(j < i)
        BY <3>3, <4>1 DEF KidRepeated
      <4> QED
        BY <4>2, <4>3
    <3>8. IF IsSet(env.keys)
          THEN /\ ~IsSet(env.pubkey)
               /\ keys = {Disk[env.keys[i].file].key : i \in DOMAIN env.keys}
          ELSE keys = {Disk[env.pubkey].key}
      BY <3>2, <3>5, <3>6
    <3>9. path = NoPath <=>
              \A v \in {env.keys, env.pubkey, env.issuer, env.audience} : ~IsSet(v)
      BY <3>1, <3>4
    <3> QED
      BY <3>1, <3>7, <3>8, <3>9 DEF NoSettingIsInert
  <2> QED
    BY <2>2, <2>3
<1> QED
  BY <1>1, InvHolds, PTL DEF StartIsWhole, Inv
-----------------------------------------------------------------------------
(***************************************************************************)
(* What the handler makes of the answer.  Gateway takes of a token that it *)
(* comes with none, or with one that is refused or honoured.               *)
(***************************************************************************)

Handler(held, opts, accepted, required) ==
    INSTANCE Gateway WITH
        Requests <- {}, Payments <- held, Options <- opts, Quotes <- [opts -> Nat],
        Accepted <- accepted, Forms <- {}, Window <- [o \in opts |-> 1], Reserve <- 0,
        FacilitatorTimeout <- 1, HeadTimeout <- 1, ModelRatesRequired <- required,
        Malformed <- Junk, None <- None,
        pc <- None, payment <- None, trace <- None, answer <- None, response <- None,
        event <- None, age <- None, wait <- None, prices <- None, forwarded <- None,
        flying <- None, ledger <- None

\* The bearer of a Form: serve asks verify only if there is a path and a token.
BearerOf(p, t) ==
    IF p = NoPath THEN "none" ELSE IF Verify(p, t).honoured THEN "honoured" ELSE "refused"

\* A request with a backend that comes with token t, whatever else it says.
ComesWith(form, t) ==
    form.routed /\ ~form.ambiguous /\ form.bearer = BearerOf(path, t)

\* Gateway serves a request unpaid only on a token of an armed key and of the issuer
\* announced; it does so throughout a rotation for whoever holds one of the issuer's
\* tokens that is alive, and after it for nobody on a token of the dropped key.
GatewayServesBearers ==
    \A held, opts, accepted, required, offered :
        \A form \in Handler(held, opts, accepted, required)!FormSet, t \in Tokens \cup issued :
            LET screen == Handler(held, opts, accepted, required)!Screen(form, offered)
                access == Handler(held, opts, accepted, required)!AccessPath(form)
            IN  ComesWith(form, t) =>
                    /\ access \in {"Token", "Payment"} /\ (screen = "serving" <=> access = "Token")
                    /\ screen = "serving" =>
                            /\ path # NoPath
                            /\ t.signer \in Armed(path) /\ t.iss = path.issuer
                    /\ path # NoPath /\ t \in issued /\ Live(t) => screen = "serving"
                    /\ stage = "new" /\ outcome = "started" /\ t.signer = Old =>
                            screen # "serving"

LEMMA HonouredIsServed ==
    ASSUME NEW held, NEW opts, NEW accepted, NEW required, NEW offered, NEW t,
           NEW form \in Handler(held, opts, accepted, required)!FormSet, ComesWith(form, t)
    PROVE  LET screen == Handler(held, opts, accepted, required)!Screen(form, offered)
               access == Handler(held, opts, accepted, required)!AccessPath(form)
           IN  /\ access = IF form.bearer = "honoured" THEN "Token" ELSE "Payment"
               /\ screen = "serving" <=> path # NoPath /\ Verify(path, t).honoured
               /\ screen = "serving" <=> form.bearer = "honoured"
<1>1. form.bearer = "honoured" <=> path # NoPath /\ Verify(path, t).honoured
    BY DEF ComesWith, BearerOf
<1>2. form.routed /\ ~form.ambiguous
    BY DEF ComesWith
<1>3. Handler(held, opts, accepted, required)!AccessPath(form) =
        IF form.bearer = "honoured" THEN "Token" ELSE "Payment"
    BY <1>2 DEF Handler!AccessPath
<1>4. Handler(held, opts, accepted, required)!Screen(form, offered) = "serving" <=>
        form.bearer = "honoured"
    BY <1>2 DEF Handler!Screen
<1> QED BY <1>1, <1>3, <1>4

LEMMA HonouredIsArmed ==
    ASSUME Inv, path # NoPath, NEW t, Verify(path, t).honoured
    PROVE  t.signer \in Armed(path) /\ t.iss = path.issuer
<1>1. path.keys \in KeySets
    BY DEF Inv, StartedAsConfigured, IsPath
<1>2. Answer(path, t).honoured
    BY <1>1, VerifyAnswers
<1>3. t.signer \in Armed(path) /\ ClaimsError(t, path) = "none"
    BY <1>2 DEF Answer, Verdict
<1> QED BY <1>3 DEF ClaimsError

\* Nobody with a live token of the issuer is asked to pay during a rotation, and
\* nobody is served unpaid on a token that no armed key signed (serve in gateway.rs,
\* with TokenPath::verify), whatever the request, its price and the other tokens.
THEOREM FormsSayWhatIsVerified == Spec => []GatewayServesBearers
<1>1. ASSUME Inv, RotationIsClean PROVE GatewayServesBearers
  <2> SUFFICES ASSUME NEW held, NEW opts, NEW accepted, NEW required, NEW offered,
                      NEW form \in Handler(held, opts, accepted, required)!FormSet,
                      NEW t \in Tokens \cup issued, ComesWith(form, t)
               PROVE  LET screen == Handler(held, opts, accepted, required)!Screen(form, offered)
                          access == Handler(held, opts, accepted, required)!AccessPath(form)
                      IN  /\ access \in {"Token", "Payment"}
                          /\ screen = "serving" <=> access = "Token"
                          /\ screen = "serving" =>
                                /\ path # NoPath
                                /\ t.signer \in Armed(path) /\ t.iss = path.issuer
                          /\ path # NoPath /\ t \in issued /\ Live(t) => screen = "serving"
                          /\ stage = "new" /\ outcome = "started" /\ t.signer = Old =>
                                screen # "serving"
      BY DEF GatewayServesBearers
  <2> DEFINE screen == Handler(held, opts, accepted, required)!Screen(form, offered)
             access == Handler(held, opts, accepted, required)!AccessPath(form)
  <2>1. /\ access = IF form.bearer = "honoured" THEN "Token" ELSE "Payment"
        /\ screen = "serving" <=> path # NoPath /\ Verify(path, t).honoured
        /\ screen = "serving" <=> form.bearer = "honoured"
      BY HonouredIsServed
  <2> HIDE DEF screen, access
  <2>2. screen = "serving" => t.signer \in Armed(path) /\ t.iss = path.issuer
      BY <1>1, <2>1, HonouredIsArmed
  <2>3. path # NoPath /\ t \in issued /\ Live(t) => screen = "serving"
      BY <1>1, <2>1 DEF RotationIsClean, RotationLosesNobody
  <2>4. stage = "new" /\ outcome = "started" /\ t.signer = Old => screen # "serving"
      BY <1>1, <2>1 DEF RotationIsClean, DroppedKeyIsDead
  <2> QED BY <2>1, <2>2, <2>3, <2>4 DEF screen, access
<1> QED BY <1>1, InvHolds, CleanRotation, PTL
=============================================================================
