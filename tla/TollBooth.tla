----------------------------- MODULE TollBooth -----------------------------
(***************************************************************************)
(* What the gateway promises its payers, without the protocol that keeps   *)
(* the promise: a request asks for at most one transfer, for what its      *)
(* payer accepted; it is answered with paid work only on a transfer of its *)
(* own; it is refused only if no transfer of it happened or still can; and *)
(* when it gives up it says neither.                                       *)
(***************************************************************************)
CONSTANTS
    Requests,  \* the requests that reach the booth
    Payments,  \* the authorizations they present
    Accepted,  \* the offer each payment was signed for
    None       \* no reply yet

VARIABLES
    asked,    \* the requests that have asked for their transfer
    owed,     \* the transfers that may still happen
    charged,  \* the transfers that happened
    reply     \* how each request was answered

vars == <<asked, owed, charged, reply>>

Transfer(r, p) == [request |-> r, payment |-> p, offer |-> Accepted[p]]

Of(r, transfers) == {t \in transfers : t.request = r}

Reply(r, kind) ==
    /\ reply[r] = None
    /\ reply' = [reply EXCEPT ![r] = kind]
    /\ UNCHANGED <<asked, owed, charged>>

\* The one time r asks for money.
Ask(r, p) ==
    /\ r \notin asked
    /\ reply[r] = None
    /\ asked' = asked \cup {r}
    /\ owed' = owed \cup {Transfer(r, p)}
    /\ UNCHANGED <<charged, reply>>

Charge(t) ==
    /\ t \in owed
    /\ \A u \in charged : u.payment # t.payment
    /\ owed' = owed \ {t}
    /\ charged' = charged \cup {t}
    /\ UNCHANGED <<asked, reply>>

Waive(t) ==
    /\ t \in owed
    /\ owed' = owed \ {t}
    /\ UNCHANGED <<asked, charged, reply>>

ServePaid(r) == Of(r, charged) # {} /\ Reply(r, "paid")

ServeFree(r) == r \notin asked /\ Reply(r, "free")

Refuse(r) == Of(r, owed \cup charged) = {} /\ Reply(r, "refused")

GiveUp(r) == Reply(r, "gaveUp")

Init ==
    /\ asked = {}
    /\ owed = {}
    /\ charged = {}
    /\ reply = [r \in Requests |-> None]

Next ==
    \/ \E r \in Requests :
        \/ \E p \in Payments : Ask(r, p)
        \/ ServePaid(r)
        \/ ServeFree(r)
        \/ Refuse(r)
        \/ GiveUp(r)
    \/ \E t \in owed : Charge(t) \/ Waive(t)

Spec == Init /\ [][Next]_vars
=============================================================================
