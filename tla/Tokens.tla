------------------------------- MODULE Tokens -------------------------------
(***************************************************************************)
(* The bearer-token path (obolus/src/access.rs and its part of main.rs):   *)
(* the verifying keys a gateway is configured with and refuses to start    *)
(* on, the tokens it honours, and the rotation the set of keys is for: an  *)
(* operator arms a new key beside the old one, switches the issuer over,   *)
(* waits for the old tokens to expire and drops the old key.               *)
(*                                                                         *)
(* What jsonwebtoken checks, and in which order, is external.  A file holds*)
(* a key in one of its encodings; whitespace in it is left out, as the     *)
(* comparison of key material does.                                        *)
(***************************************************************************)
EXTENDS Naturals, Sequences, FiniteSets

CONSTANTS
    KeyPairs, Encodings,  \* signing keys, and the ways to write down a public key
    Kids, Files,
    Issuers, Audiences,
    Environments,         \* the environments an operator who is not rotating writes
    Disk,                 \* what the files hold
    Tokens,               \* the tokens anyone may present
    Old, New,             \* the keys of the rotation, and the files they are in
    OldFile, NewFile,
    MaxKeys,              \* MAX_KEYS
    Life, Leeway, Skew,   \* of an issued token; of the validation; of the issuer's clock
    MaxTime, MaxIssued,   \* bounds: time, and the tokens issued
    Absent, NotAKey,      \* no such file, and one that holds something else
    Unset, Blank, Junk, NotUnicode, None, Null

ASSUME RotationAssumption ==
    /\ {Old, New} \subseteq KeyPairs /\ Old # New
    /\ {OldFile, NewFile} \subseteq Files /\ OldFile # NewFile
    /\ Disk[OldFile].key = Old /\ Disk[NewFile].key = New
    /\ MaxKeys \in Nat /\ MaxKeys >= 2
    /\ Issuers # {}
ASSUME TimeAssumption ==
    {Life, Leeway, Skew, MaxTime, MaxIssued} \subseteq Nat /\ Skew <= Leeway
ASSUME DiskAssumption ==
    DOMAIN Disk = Files /\ \A f \in Files :
        Disk[f] \in [key : KeyPairs, encoding : Encodings] \cup {Absent, NotAKey}

Entries == [kid : Kids \cup {None, Blank}, file : Files \cup {Blank}]

ASSUME NullsAssumption ==
    LET nulls == <<Unset, Blank, Junk, NotUnicode, None, Null, Absent, NotAKey>>
    IN  /\ \A i, j \in 1..8 : i # j => nulls[i] # nulls[j]
        /\ \A i \in 1..6 :
                nulls[i] \notin Kids \cup Files \cup Issuers \cup Audiences \cup Seq(Entries)
EnvironmentValues ==
    [ keys     : {Unset, NotUnicode, Blank, Junk} \cup Seq(Entries),
      pubkey   : {Unset, NotUnicode, Blank} \cup Files,
      issuer   : {Unset, NotUnicode, Blank} \cup Issuers,
      audience : {Unset, NotUnicode, Blank} \cup Audiences ]

ASSUME EnvironmentsAssumption == Environments \subseteq EnvironmentValues
\* What a token says of who it is for, from whom and when, is anybody's choice.
ASSUME TokensAssumption ==
    \A t \in Tokens :
        /\ DOMAIN t = {"form", "alg", "signer", "kid", "iss", "aud", "exp", "nbf"}
        /\ t.aud \in {None, Null, Junk} \cup SUBSET Audiences

VARIABLES
    env,      \* OBOLUS_TOKEN_KEYS, _PUBKEY_FILE, _ISSUER, _AUDIENCE
    outcome,  \* what the last start came to
    path,     \* the token path of the running gateway, if it has one
    now,
    signing,  \* the key the issuer signs with, and the kid it names
    issued,   \* the tokens it has issued
    stage,    \* how far the rotation is, "none" for an operator who does not rotate
    reply     \* the gateway's answer to the last token

vars == <<env, outcome, path, now, signing, issued, stage, reply>>

NoPath == [keys |-> <<>>, issuer |-> None, audience |-> None]
-----------------------------------------------------------------------------
(***************************************************************************)
(* From the environment to a verifier.                                     *)
(***************************************************************************)

\* std::env::var is an error for both.
IsSet(v) == v \notin {Unset, NotUnicode}

Entry(kid, file) == [kid |-> kid, file |-> file]

\* The variable that names the keys, and parse_token_keys.
KeySourceError(e) ==
    IF IsSet(e.keys) /\ e.keys = Blank THEN "keys empty"
    ELSE IF IsSet(e.keys) /\ IsSet(e.pubkey) THEN "both set"
    ELSE IF e.keys = Junk THEN "keys not an array of entries"
    ELSE IF e.keys = <<>> THEN "keys name none"
    ELSE IF IsSet(e.keys) /\ \E i \in DOMAIN e.keys : e.keys[i].file = Blank
    THEN "entry without a file"
    ELSE IF e.pubkey = Blank THEN "key file empty"
    ELSE "none"

KeySource(e) ==
    IF IsSet(e.keys) THEN e.keys
    ELSE IF IsSet(e.pubkey) THEN <<Entry(None, e.pubkey)>>
    ELSE None

\* Mutant: an issuer or an audience without a key goes unnoticed.
SettingErrorUnlessOrphaned(e) ==
    IF KeySource(e) = None THEN "none"
    ELSE IF ~IsSet(e.issuer) THEN "issuer not set"
    ELSE IF e.issuer = Blank THEN "issuer empty"
    ELSE IF e.audience = Blank THEN "audience empty"
    ELSE "none"

SettingError(e) ==
    IF KeySource(e) = None
    THEN IF IsSet(e.issuer) \/ IsSet(e.audience) THEN "orphaned" ELSE "none"
    ELSE IF ~IsSet(e.issuer) THEN "issuer not set"
    ELSE IF e.issuer = Blank THEN "issuer empty"
    ELSE IF e.audience = Blank THEN "audience empty"
    ELSE "none"

KidRepeated(entries) ==
    \E i, j \in DOMAIN entries :
        i < j /\ entries[i].kid = entries[j].kid /\ entries[i].kid # None

MaterialRepeated(entries) ==
    \E i, j \in DOMAIN entries : i < j /\ Disk[entries[i].file] = Disk[entries[j].file]

\* Mutant: the number of keys is not bounded.
KeySetErrorUnbounded(entries) ==
    IF \E i \in DOMAIN entries : Disk[entries[i].file] = Absent THEN "unreadable"
    ELSE IF \E i \in DOMAIN entries : entries[i].kid = Blank THEN "empty kid"
    ELSE IF KidRepeated(entries) THEN "kid repeated"
    ELSE IF MaterialRepeated(entries) THEN "key repeated"
    ELSE IF \E i \in DOMAIN entries : Disk[entries[i].file] = NotAKey THEN "not a key"
    ELSE "none"

\* Mutant: two keys without a kid share it.
KeySetErrorUnnamed(entries) ==
    IF \E i \in DOMAIN entries : Disk[entries[i].file] = Absent THEN "unreadable"
    ELSE IF Len(entries) > MaxKeys THEN "too many keys"
    ELSE IF \E i, j \in DOMAIN entries : i < j /\ entries[i].kid = entries[j].kid THEN "kid repeated"
    ELSE "none"

\* with_keys, over the contents of the files that were all read before it.
KeySetError(entries) ==
    IF \E i \in DOMAIN entries : Disk[entries[i].file] = Absent THEN "unreadable"
    ELSE IF Len(entries) > MaxKeys THEN "too many keys"
    ELSE IF \E i \in DOMAIN entries : entries[i].kid = Blank THEN "empty kid"
    ELSE IF KidRepeated(entries) THEN "kid repeated"
    ELSE IF MaterialRepeated(entries) THEN "key repeated"
    ELSE IF \E i \in DOMAIN entries : Disk[entries[i].file] = NotAKey THEN "not a key"
    ELSE "none"

StartError(e) ==
    IF KeySourceError(e) # "none" THEN KeySourceError(e)
    ELSE IF SettingError(e) # "none" THEN SettingError(e)
    ELSE IF KeySource(e) # None THEN KeySetError(KeySource(e))
    ELSE "none"

PathOf(e) ==
    LET entries == KeySource(e)
    IN  IF entries = None THEN NoPath
        ELSE [ keys     |-> [i \in DOMAIN entries |->
                               [kid |-> entries[i].kid, key |-> Disk[entries[i].file].key]],
               issuer   |-> e.issuer,
               audience |-> IF IsSet(e.audience) THEN e.audience ELSE None ]
-----------------------------------------------------------------------------
(***************************************************************************)
(* One token.                                                              *)
(***************************************************************************)

Token(form, alg, signer, kid, iss, aud, exp, nbf) ==
    [ form |-> form, alg |-> alg, signer |-> signer, kid |-> kid, iss |-> iss, aud |-> aud,
      exp |-> exp, nbf |-> nbf ]

\* aud is absent, null, of a type it cannot have, or the audiences it names.
HasAudience(t) == t.aud \notin {None, Null, Junk}

\* Mutant: an expected audience is checked only on tokens that carry one.
RequiredAudienceIfCarried(t, p) == TRUE

RequiredAudience(t, p) == p.audience # None => HasAudience(t)

\* The verifier's Validation, and the types of Claims.  nbf is neither required nor one of
\* Claims: one that is no number is not looked at.
ClaimsError(t, p) ==
    IF t.exp \notin Nat \/ t.iss \in {None, Null, Junk} \/ t.aud = Junk THEN "Json"
    ELSE IF ~RequiredAudience(t, p) THEN "MissingRequiredClaim"
    ELSE IF t.exp + Leeway < now THEN "ExpiredSignature"
    ELSE IF t.nbf \in Nat /\ t.nbf > now + Leeway THEN "ImmatureSignature"
    ELSE IF t.iss # p.issuer THEN "InvalidIssuer"
    ELSE IF HasAudience(t) /\ p.audience \notin t.aud THEN "InvalidAudience"
    ELSE "none"

\* Mutant: the signature is not checked.
DecodeUnsigned(key, t, p) ==
    IF t.form # "jwt" THEN "InvalidToken"
    ELSE IF t.alg # "EdDSA" THEN "InvalidAlgorithm"
    ELSE ClaimsError(t, p)

\* jsonwebtoken::decode with one key.
DecodeWith(key, t, p) ==
    IF t.form # "jwt" THEN "InvalidToken"
    ELSE IF t.alg # "EdDSA" THEN "InvalidAlgorithm"
    ELSE IF t.signer # key THEN "InvalidSignature"
    ELSE ClaimsError(t, p)

KidHint(t) == IF t.form = "jwt" THEN t.kid ELSE None

NamedBy(p, kid) == {i \in DOMAIN p.keys : kid # None /\ p.keys[i].kid = kid}

\* Mutant: a kid that names a key leaves the others out.
OrderedByAlone(p, kid) ==
    IF NamedBy(p, kid) = {} THEN p.keys
    ELSE <<p.keys[CHOOSE i \in NamedBy(p, kid) : TRUE]>>

\* The key the kid names comes first (with_keys refuses a kid that two keys share);
\* every key is tried.
OrderedBy(p, kid) ==
    IF NamedBy(p, kid) = {} THEN p.keys
    ELSE LET named == CHOOSE i \in NamedBy(p, kid) : TRUE
         IN  [n \in DOMAIN p.keys |->
                 IF n = 1 THEN p.keys[named]
                 ELSE IF n <= named THEN p.keys[n - 1] ELSE p.keys[n]]

Verdict(honoured, reason) == [honoured |-> honoured, reason |-> reason]

\* InvalidAudience has two wordings.
Describe(error, p) ==
    IF error # "InvalidAudience" THEN error
    ELSE IF p.audience = None THEN "no audience expected" ELSE "not our audience"

\* Mutant: the first failure is the one that is reported.
ReportedFirst(errors) == errors[1]

\* The first error that names a cause, or the first of all.
Reported(errors) ==
    LET causes == {i \in DOMAIN errors : errors[i] # "InvalidSignature"}
    IN  IF causes = {} THEN errors[1]
        ELSE errors[CHOOSE i \in causes : \A j \in causes : i <= j]

Verify(p, t) ==
    LET ordered == OrderedBy(p, KidHint(t))
        errors  == [i \in DOMAIN ordered |-> DecodeWith(ordered[i].key, t, p)]
    IN  IF \E i \in DOMAIN errors : errors[i] = "none" THEN Verdict(TRUE, "none")
        ELSE Verdict(FALSE, Describe(Reported(errors), p))

\* What the startup line says of a path.
Banner(p) ==
    [ issuer |-> p.issuer, audience |-> p.audience, total |-> Len(p.keys),
      named |-> {p.keys[i].kid : i \in DOMAIN p.keys} \ {None} ]
-----------------------------------------------------------------------------
(***************************************************************************)
(* The process, the issuer, the operator.                                  *)
(***************************************************************************)

NoReply == [token |-> None, path |-> NoPath, verdict |-> Verdict(FALSE, "none"), at |-> 0]

\* A start replaces the process that ran.
Restart ==
    /\ outcome = "not started"
    /\ outcome' = IF StartError(env) = "none" THEN "started" ELSE StartError(env)
    /\ path' = IF StartError(env) = "none" THEN PathOf(env) ELSE NoPath
    /\ reply' = NoReply
    /\ UNCHANGED <<env, now, signing, issued, stage>>

Present(t) ==
    /\ path # NoPath
    /\ reply' = [token |-> t, path |-> path, verdict |-> Verify(path, t), at |-> now]
    /\ UNCHANGED <<env, outcome, path, now, signing, issued, stage>>

OurIssuer == CHOOSE i \in Issuers : TRUE

Issued(s) ==
    Token("jwt", "EdDSA", s.key, s.kid, OurIssuer, None, now + Life, now + Skew)

Issue ==
    /\ stage # "none"
    /\ Cardinality(issued) < MaxIssued /\ now + Life < MaxTime
    /\ issued' = issued \cup {Issued(signing)}
    /\ issued' # issued
    /\ UNCHANGED <<env, outcome, path, now, signing, stage, reply>>

Tick ==
    /\ now < MaxTime
    /\ now' = now + 1
    /\ reply' = NoReply
    /\ UNCHANGED <<env, outcome, path, signing, issued, stage>>

Rewrite(e) ==
    /\ env' = e
    /\ outcome' = "not started"
    /\ UNCHANGED <<path, now, issued, reply>>

\* The new key goes beside the old, with whatever kid the operator gives it.
ArmNew ==
    /\ outcome = "started" /\ stage = "old"
    /\ \E kid \in {k \in Kids \cup {None} : k = None \/ k # KeySource(env)[1].kid} :
            LET entry == Entry(kid, NewFile)
            IN  \E ks \in {<<entry>> \o KeySource(env), Append(KeySource(env), entry)} :
                    Rewrite([env EXCEPT !.keys = ks, !.pubkey = Unset])
    /\ stage' = "both"
    /\ UNCHANGED signing

\* The issuer names a kid of its own choice, or none.
SwitchIssuer ==
    /\ outcome = "started" /\ stage = "both"
    /\ \E kid \in Kids \cup {None} : signing' = [key |-> New, kid |-> kid]
    /\ stage' = "switched"
    /\ UNCHANGED <<env, outcome, path, now, issued, reply>>

Live(t) == now <= t.exp

DropOld ==
    /\ outcome = "started" /\ stage = "switched"
    /\ \A t \in issued : t.signer = Old => ~Live(t)
    /\ \E i \in DOMAIN env.keys :
            env.keys[i].file # OldFile /\ Rewrite([env EXCEPT !.keys = <<@[i]>>])
    /\ stage' = "new"
    /\ UNCHANGED signing

\* A gateway with one key, from either variable.
BeforeRotation ==
    LET with(keys, pubkeys) ==
            [keys : keys, pubkey : pubkeys, issuer : {OurIssuer}, audience : {Unset}]
    IN  with({<<Entry(kid, OldFile)>> : kid \in Kids \cup {None}}, {Unset})
            \cup with({Unset}, {OldFile})

Init ==
    /\ \/ env \in Environments /\ stage = "none" /\ signing = [key |-> Old, kid |-> None]
       \/ /\ env \in BeforeRotation
          /\ stage = "old"
          /\ \E kid \in Kids \cup {None} : signing = [key |-> Old, kid |-> kid]
    /\ outcome = "not started"
    /\ path = NoPath
    /\ now = 0
    /\ issued = {}
    /\ reply = NoReply

\* Bound: during a rotation the issuer's own tokens come; what strangers' tokens
\* would be told is asked where nothing else moves.
Presented == IF stage = "none" THEN Tokens ELSE issued

Next ==
    \/ Restart \/ Issue \/ Tick
    \/ \E t \in Presented : Present(t)
    \/ ArmNew \/ SwitchIssuer \/ DropOld

\* Time passes, a restart that was begun ends, and an operator who began to rotate
\* goes on with it.
Spec ==
    /\ Init /\ [][Next]_vars
    /\ WF_vars(Tick) /\ WF_vars(Restart)
    /\ WF_vars(ArmNew) /\ WF_vars(SwitchIssuer) /\ WF_vars(DropOld)
-----------------------------------------------------------------------------
(***************************************************************************)
(* Correctness.                                                            *)
(***************************************************************************)

Refusals ==
    {"keys empty", "both set", "keys not an array of entries", "keys name none",
     "entry without a file", "key file empty", "orphaned", "issuer not set", "issuer empty",
     "audience empty", "unreadable", "too many keys", "empty kid", "kid repeated",
     "key repeated", "not a key"}

\* Every variable keeps to its type; a path holds at most MAX_KEYS keys.
TypeOK ==
    /\ \A i \in DOMAIN path.keys :
            path.keys[i] \in [kid : Kids \cup {None}, key : KeyPairs]
    /\ Len(path.keys) <= MaxKeys
    /\ path.issuer \in Issuers \cup {None} /\ path.audience \in Audiences \cup {None}
    /\ now \in 0..MaxTime
    /\ signing \in [key : {Old, New}, kid : Kids \cup {None}]
    /\ stage \in {"none", "old", "both", "switched", "new"}
    /\ outcome \in {"not started", "started"} \cup Refusals

\* At every moment of a rotation, whatever kids the keys and the tokens carry, a
\* running gateway honours every token of its issuer that has not expired.
RotationLosesNobody ==
    path # NoPath =>
        \A t \in issued : Live(t) => Verify(path, t).honoured

\* Once the old key is dropped, nothing it ever signed, or signs yet, is honoured.
DroppedKeyIsDead ==
    stage = "new" /\ outcome = "started" =>
        \A t \in Tokens \cup issued : t.signer = Old => ~Verify(path, t).honoured

\* What is honoured satisfies what the banner announces: signed by a key the
\* configuration named, from the issuer, in its time, for the audience or, where
\* none is announced, for nobody in particular.  Its time begins at nbf only if that is a
\* number: a token whose nbf is of another type is honoured at once, unlike one whose exp,
\* iss or aud is.
HonouredAsAnnounced ==
    reply.verdict.honoured =>
        LET t == reply.token
            says == Banner(reply.path)
        IN  /\ \E i \in DOMAIN reply.path.keys : reply.path.keys[i].key = t.signer
            /\ t.form = "jwt" /\ t.alg = "EdDSA"
            /\ t.iss = says.issuer
            /\ t.exp + Leeway >= reply.at /\ (t.nbf \in Nat => t.nbf <= reply.at + Leeway)
            /\ IF says.audience = None THEN t.aud \in {None, Null}
               ELSE HasAudience(t) /\ says.audience \in t.aud

\* The answer to a token depends on its signature and its claims alone: neither the
\* kid it names nor the order the keys are armed in changes it or its reason, and a
\* token of an armed key is told what is wrong with it.
AnswerIgnoresTheHint ==
    reply # NoReply =>
        LET t == reply.token
            p == reply.path
            held == \E i \in DOMAIN p.keys : p.keys[i].key = t.signer
            backwards == [p EXCEPT !.keys = [i \in DOMAIN @ |-> @[Len(@) + 1 - i]]]
        IN  /\ \A kid \in Kids \cup {None} :
                    Verify(p, [t EXCEPT !.kid = kid]) = reply.verdict
            /\ Verify(backwards, t) = reply.verdict
            /\ reply.verdict.reason = "InvalidSignature" =>
                    ~held /\ t.form = "jwt" /\ t.alg = "EdDSA"

\* No setting is inert: a gateway whose environment asks for a token path, in any
\* variable it can read, has one, with every key, the issuer and the audience that
\* were written down; one whose environment does not has none.
NoSettingIsInert ==
    outcome = "started" =>
        LET names == {env.keys, env.pubkey, env.issuer, env.audience}
            keys  == {path.keys[i].key : i \in DOMAIN path.keys}
        IN  /\ path = NoPath <=> \A v \in names : ~IsSet(v)
            /\ path # NoPath =>
                /\ IF IsSet(env.keys)
                   THEN /\ ~IsSet(env.pubkey)
                        /\ keys = {Disk[env.keys[i].file].key : i \in DOMAIN env.keys}
                   ELSE keys = {Disk[env.pubkey].key}
                /\ path.issuer = env.issuer
                /\ IsSet(env.audience) => path.audience = env.audience
                /\ \A i, j \in DOMAIN path.keys :
                        path.keys[i].kid = path.keys[j].kid /\ path.keys[i].kid # None => i = j

\* What a token is told follows from the token and from what was announced.
VerdictsAreTrue == HonouredAsAnnounced /\ AnswerIgnoresTheHint

\* What starts is the whole of what was configured.
StartIsWhole == TypeOK /\ NoSettingIsInert

\* No key is missed during a rotation and none left behind after it.
RotationIsClean == RotationLosesNobody /\ DroppedKeyIsDead

-----------------------------------------------------------------------------
(***************************************************************************)
(* What those three rest on.                                               *)
(***************************************************************************)

KeySets == Seq([kid : Kids \cup {None}, key : KeyPairs]) \ {<<>>}

IsPath(p) == DOMAIN p = {"keys", "issuer", "audience"} /\ p.keys \in KeySets

\* A gateway that started runs what its environment says, and a path has a key.
StartedAsConfigured ==
    /\ env \in EnvironmentValues
    /\ outcome = "started" => StartError(env) = "none" /\ path = PathOf(env)
    /\ path # NoPath => IsPath(path)

Armed(p) == {p.keys[i].key : i \in DOMAIN p.keys}

RotatingEnvironments ==
    LET one(file) == [kid : Kids \cup {None}, file : {file}]
    IN  [ keys : {<<a, b>> : a \in one(OldFile), b \in one(NewFile)}
                    \cup {<<a, b>> : a \in one(NewFile), b \in one(OldFile)},
          pubkey : {Unset}, issuer : {OurIssuer}, audience : {Unset} ]

AfterRotation ==
    [ keys : {<<Entry(kid, NewFile)>> : kid \in Kids \cup {None}},
      pubkey : {Unset}, issuer : {OurIssuer}, audience : {Unset} ]

\* The operator's environment is that of the stage.
EnvInStep ==
    /\ stage = "old" => env \in BeforeRotation
    /\ stage \in {"both", "switched"} => env \in RotatingEnvironments
    /\ stage = "new" => env \in AfterRotation
    /\ stage = "switched" => outcome = "started"

\* The running gateway, which may still be that of the stage before, is armed with
\* every key whose tokens it may be shown.
PathInStep ==
    stage # "none" /\ path # NoPath =>
        /\ path.issuer = OurIssuer /\ path.audience = None
        /\ stage \in {"old", "both"} => Old \in Armed(path)
        /\ stage \in {"switched", "new"} => New \in Armed(path)
        /\ stage = "switched" => Old \in Armed(path)

OurToken(t) ==
    /\ t = Token("jwt", "EdDSA", t.signer, t.kid, OurIssuer, None, t.exp, t.nbf)
    /\ t.signer \in {Old, New} /\ t.exp \in Nat /\ t.nbf \in Nat
    /\ t.nbf <= now + Leeway

\* The issuer signs with the key of the stage, and no token of a dropped key is left.
TokensInStep ==
    /\ stage = "none" => issued = {}
    /\ stage \in {"old", "both"} =>
            signing.key = Old /\ \A t \in issued : t.signer = Old
    /\ stage \in {"switched", "new"} => signing.key = New
    /\ stage = "new" => \A t \in issued : t.signer = Old => ~Live(t)
    /\ \A t \in issued : OurToken(t)

RotationInStep == EnvInStep /\ PathInStep /\ TokensInStep

\* A reply belongs to the path that gave it, at the time it was given.
ReplyIsCurrent ==
    reply # NoReply =>
        /\ reply.token \in Tokens \cup issued
        /\ IsPath(reply.path)
        /\ reply.at = now /\ reply.verdict = Verify(reply.path, reply.token)

-----------------------------------------------------------------------------
\* A rotation that was begun ends with the new key alone.
RotationCompletes ==
    stage = "both" ~> path # NoPath /\ \A i \in DOMAIN path.keys : path.keys[i].key = New
=============================================================================
