------------------------------ MODULE MCTokens ------------------------------
(***************************************************************************)
(* Instances of Tokens: two keys, one of them in two encodings, in files   *)
(* of their own; the tokens one claim away from a good one; environments   *)
(* with every variable absent, unreadable, blank, wrong or right.          *)
(***************************************************************************)
EXTENDS Tokens

CONSTANTS K1, K2, OldAgain, Missing, Garbage, Idp, OtherIdp, Us, Them

MCKids == {K1, K2}
MCFiles == {OldFile, NewFile, OldAgain, Missing, Garbage}
MCIssuers == {Idp}
MCAudiences == {Us, Them}

Holding(key, encoding) == [key |-> key, encoding |-> encoding]

MCDisk ==
    [f \in MCFiles |->
        IF f = OldFile THEN Holding(Old, 1)
        ELSE IF f = OldAgain THEN Holding(Old, 2)
        ELSE IF f = NewFile THEN Holding(New, 1)
        ELSE IF f = Missing THEN Absent ELSE NotAKey]

MCEntries == [kid : {K1, K2, None}, file : {OldFile, NewFile, OldAgain}]

Settings(keys, pubkeys, issuers, audiences) ==
    [keys : keys, pubkey : pubkeys, issuer : issuers, audience : audiences]

\* Every combination of states of the variables, and every small set of keys.
MCEnvironments ==
    Settings({Unset, NotUnicode, Blank, Junk, <<>>, <<Entry(None, OldFile)>>},
             {Unset, NotUnicode, Blank, NewFile}, {Unset, NotUnicode, Blank, Idp},
             {Unset, NotUnicode, Blank, Us})
    \cup Settings({<<a>> : a \in MCEntries} \cup {<<a, b>> : a \in MCEntries, b \in MCEntries},
                  {Unset}, {Idp}, {Unset, Us})
    \cup Settings({<<Entry(None, OldFile), e>> : e \in {Entry(None, Missing), Entry(None, Garbage),
                                                       Entry(Blank, NewFile), Entry(K1, Blank)}}
                    \cup {<<Entry(None, OldFile), Entry(K1, NewFile), Entry(K2, OldAgain)>>},
                  {Unset}, {Idp}, {Unset})

Good(key) == Token("jwt", "EdDSA", key, None, Idp, None, 2, None)

MCTokens ==
    UNION {{ [Good(k) EXCEPT !.kid = kid, !.aud = aud] :
                kid \in Kids \cup {None},
                aud \in {None, Null, Junk, {}, {Us}, {Them}, {Us, Them}} } : k \in KeyPairs}
    \cup {[Good(Old) EXCEPT !.form = "not three parts", !.kid = K1],
          [Good(Old) EXCEPT !.alg = "HS256"],
          [Good(Old) EXCEPT !.signer = None], [Good(Old) EXCEPT !.signer = None, !.kid = K1],
          [Good(Old) EXCEPT !.iss = OtherIdp], [Good(Old) EXCEPT !.iss = None],
          [Good(Old) EXCEPT !.iss = Junk], [Good(Old) EXCEPT !.iss = Null],
          [Good(Old) EXCEPT !.exp = Junk], [Good(Old) EXCEPT !.exp = Null],
          [Good(Old) EXCEPT !.exp = 0], [Good(Old) EXCEPT !.exp = 0, !.kid = K2],
          [Good(New) EXCEPT !.exp = 0], [Good(Old) EXCEPT !.nbf = 2],
          [Good(Old) EXCEPT !.nbf = Junk], [Good(Old) EXCEPT !.nbf = Null],
          [Good(Old) EXCEPT !.nbf = Junk, !.exp = 0],
          \* outlive the rotation
          [Good(Old) EXCEPT !.exp = 9], [Good(Old) EXCEPT !.exp = 9, !.kid = K1]}
=============================================================================
