--------------------------- MODULE GatewayProofs ---------------------------
(***************************************************************************)
(* For every set of requests, payments, options, prices and timeouts: the  *)
(* toll booth keeps its types, settles inside the payment's window, never  *)
(* waits longer than its timers, and asks for money only for work the      *)
(* origin committed to, at the offer the payer accepted; what it serves is *)
(* paid for, what it records is true and stays true, its refusals blame    *)
(* whom they may, and it implements the abstract booth.                    *)
(*                                                                         *)
(* The last parts are about the booth and its line sink together: what the *)
(* lines add up to is never more than was moved, and short of it by no     *)
(* more than they say.                                                     *)
(***************************************************************************)
EXTENDS Books, FiniteSetTheorems, NaturalsInduction, TLAPS

SinkProofs == INSTANCE LineSinkProofs WITH Events <- Requests
-----------------------------------------------------------------------------

\* A paying request that waits has matched the offer its payment was signed for.
Matched(r) ==
    pc[r] \in {"verifying", "forwarding", "settling"} =>
        /\ payment[r] \in Payments
        /\ trace[r].paid = Accepted[payment[r]]

\* What each await's clocks can show.  The settle call starts inside the budget.
Clocks(r) ==
    /\ pc[r] \in {"idle", "done"} => age[r] = 0 /\ wait[r] = 0
    /\ pc[r] = "verifying" => age[r] = wait[r] /\ wait[r] <= FacilitatorTimeout
    /\ pc[r] = "serving" => age[r] = wait[r] /\ wait[r] <= HeadTimeout
    /\ pc[r] = "forwarding" => age[r] <= Budget(trace[r])
    /\ pc[r] = "settling" =>
           /\ wait[r] <= FacilitatorTimeout
           /\ age[r] - wait[r] <= Budget(trace[r])

\* What the trace of a request that waits says is so.
Tracked(r) ==
    /\ pc[r] \in {"idle", "verifying", "forwarding", "serving"} =>
           ~trace[r].settle_attempted
    /\ pc[r] \in {"forwarding", "settling", "serving"} => r \in forwarded

\* Every settle call is for the offer its payment was signed for, and was made
\* by a request whose origin had committed.
Honest ==
    \A c \in flying \cup ledger :
        /\ trace[c.request].settle_attempted
        /\ trace[c.request].upstream_status = "success"
        /\ c.request \in forwarded
        /\ c.offer = Accepted[c.payment]

IInv ==
    /\ TypeOK
    /\ \A r \in Requests : Matched(r) /\ Clocks(r) /\ Tracked(r)
    /\ Honest
-----------------------------------------------------------------------------
(***************************************************************************)
(* The checks before the first await.                                      *)
(***************************************************************************)

\* A request that gets to verify carries a payment that matched one offer.
LEMMA ScreenRange ==
    ASSUME NEW form \in FormSet, NEW offered
    PROVE  Screen(form, offered) \in
              {"serving", "verifying", "AmbiguousKey", "Unroutable", "OutputCapRefused",
               "UnpricedModel", "PaymentRequired", "PaymentMalformed", "OptionUnmatched"}
BY DEF Screen

LEMMA ScreenMatches ==
    ASSUME NEW form \in FormSet, NEW offered, Screen(form, offered) = "verifying"
    PROVE  /\ form.payment \in Payments
           /\ (CHOOSE o \in AcceptedFor(offered, form.payment) : TRUE) = Accepted[form.payment]
           /\ ScreenedTrace(form, offered).paid = Accepted[form.payment]
<1>1. /\ form.payment \notin {None, Malformed}
      /\ AcceptedFor(offered, form.payment) # {}
  BY DEF Screen
<1>2. form.payment \in Payments
  BY <1>1 DEF FormSet
<1>3. (CHOOSE o \in AcceptedFor(offered, form.payment) : TRUE) = Accepted[form.payment]
  BY <1>1 DEF AcceptedFor
<1> QED
  BY <1>2, <1>3 DEF ScreenedTrace

LEMMA ScreenedTraceType ==
    ASSUME NEW form \in FormSet, NEW offered
    PROVE  /\ ScreenedTrace(form, offered) \in Traces
           /\ ~ScreenedTrace(form, offered).settle_attempted
<1>1. Screen(form, offered) = "verifying" =>
         (CHOOSE o \in AcceptedFor(offered, form.payment) : TRUE) \in Offers
  BY ScreenMatches, AcceptedAssumption
<1>2. AccessPath(form) \in {"none", "Token", "Payment"}
  BY DEF AccessPath
<1>3. (Screen(form, offered) = "serving") \in BOOLEAN
  OBVIOUS
<1>4. \A access \in {"none", "Token", "Payment"}, paid \in Offers \cup {None},
         invoked \in BOOLEAN :
            [access |-> access, paid |-> paid, upstream_invoked |-> invoked,
             upstream_status |-> "none", settle_attempted |-> FALSE] \in Traces
  BY DEF Traces
<1>5. (IF Screen(form, offered) = "verifying"
       THEN CHOOSE o \in AcceptedFor(offered, form.payment) : TRUE
       ELSE None) \in Offers \cup {None}
  BY <1>1
<1>6. ScreenedTrace(form, offered) \in Traces
  BY <1>2, <1>3, <1>4, <1>5, Zenon DEF ScreenedTrace
<1> QED
  BY <1>6 DEF ScreenedTrace
-----------------------------------------------------------------------------
(***************************************************************************)
(* The two ways a stretch of the handler ends.                             *)
(***************************************************************************)

\* How r is left by a step of its own: everything typed, everyone else alone.
Left(r) ==
    /\ pc' \in [Requests -> Awaits \cup {"idle", "done"}]
    /\ trace' \in [Requests -> Traces]
    /\ response' \in [Requests -> Responses \cup {None}]
    /\ event' \in [Requests -> Events \cup {None}]
    /\ age' \in [Requests -> Nat]
    /\ wait' \in [Requests -> Nat]
    /\ \A s \in Requests \ {r} :
           /\ pc'[s] = pc[s]
           /\ trace'[s] = trace[s]
           /\ age'[s] = age[s]
           /\ wait'[s] = wait[s]

LEMMA SuspendLeaves ==
    ASSUME TypeOK, NEW r \in Requests, NEW await \in Awaits, NEW t \in Traces,
           Suspend(r, await, t)
    PROVE  /\ Left(r)
           /\ pc'[r] = await /\ trace'[r] = t
           /\ wait'[r] = 0 /\ age'[r] = age[r]
BY DEF TypeOK, Suspend, Left

\* Revenue and cost are what an event may hold, if what was paid is known.
LEMMA EventType ==
    ASSUME NEW t \in Traces, NEW outcome \in Outcomes,
           outcome = "Settled" => t.paid \in Offers
    PROVE  Event(t, outcome) \in Events /\ Response(outcome) \in Responses \cup {None}
<1>1. Cost(t) \in {"declared", "zero"}
  BY DEF Cost
<1>2. Revenue(t, outcome) \in [known : BOOLEAN, amount : Nat]
  <2>1. \A amount \in Nat : Known(amount) \in [known : BOOLEAN, amount : Nat]
    BY DEF Known
  <2>2. Unknown \in [known : BOOLEAN, amount : Nat]
    BY DEF Unknown
  <2>3. outcome = "Settled" => t.paid.amount \in Nat
    BY DEF Offers
  <2> QED
    BY <2>1, <2>2, <2>3 DEF Revenue
<1>3. Event(t, outcome) \in Events
  BY <1>1, <1>2 DEF Event, Events
<1>4. /\ Status(outcome) \in {"200", "upstream", "400", "400 or 404", "402", "502", "504"}
      /\ Receipt(outcome) \in {"success", "failure", "none"}
  BY DEF Status, Receipt
<1>5. Response(outcome) \in Responses \cup {None}
  BY <1>4 DEF Response, Responses
<1> QED
  BY <1>3, <1>5

LEMMA FinishLeaves ==
    ASSUME TypeOK, NEW r \in Requests, NEW t \in Traces, NEW outcome \in Outcomes,
           outcome = "Settled" => t.paid \in Offers,
           Finish(r, t, outcome)
    PROVE  /\ Left(r)
           /\ pc'[r] = "done" /\ trace'[r] = t
           /\ wait'[r] = 0 /\ age'[r] = 0
<1>1. Event(t, outcome) \in Events /\ Response(outcome) \in Responses \cup {None}
  BY EventType
<1> QED
  BY <1>1 DEF TypeOK, Finish, Left
-----------------------------------------------------------------------------
(***************************************************************************)
(* A step of one request.                                                  *)
(***************************************************************************)

\* A request's own step keeps the invariant if it keeps its own part of it, and
\* adds to the calls at most an honest one of its own.
LEMMA LocalStep ==
    ASSUME IInv, NEW r \in Requests, Left(r),
           payment' \in [Requests -> Payments \cup {Malformed, None}],
           answer' \in [Requests -> Answers \cup {None}],
           \A s \in Requests \ {r} : payment'[s] = payment[s],
           forwarded \subseteq forwarded', forwarded' \subseteq Requests,
           UNCHANGED <<prices, ledger>>,
           flying' \subseteq Calls,
           \A c \in flying' \ flying :
               /\ c.request \in forwarded'
               /\ trace'[c.request].settle_attempted
               /\ trace'[c.request].upstream_status = "success"
               /\ c.offer = Accepted[c.payment],
           trace[r].settle_attempted => trace'[r] = trace[r],
           Matched(r)', Clocks(r)', Tracked(r)'
    PROVE  IInv'
<1>1. TypeOK'
  BY DEF IInv, TypeOK, Left
<1>2. ASSUME NEW s \in Requests PROVE (Matched(s) /\ Clocks(s) /\ Tracked(s))'
  <2>1. CASE s = r
    BY <2>1
  <2>2. CASE s # r
    <3>1. /\ pc'[s] = pc[s] /\ trace'[s] = trace[s] /\ payment'[s] = payment[s]
          /\ age'[s] = age[s] /\ wait'[s] = wait[s]
      BY <2>2 DEF Left
    <3>2. Matched(s) /\ Clocks(s) /\ Tracked(s)
      BY DEF IInv
    <3>3. Budget(trace'[s]) = Budget(trace[s])
      BY <3>1
    <3> QED
      BY <3>1, <3>2, <3>3 DEF Matched, Clocks, Tracked
  <2> QED
    BY <2>1, <2>2
<1>3. Honest'
  <2> SUFFICES ASSUME NEW c \in (flying \cup ledger)'
               PROVE  /\ trace'[c.request].settle_attempted
                      /\ trace'[c.request].upstream_status = "success"
                      /\ c.request \in forwarded'
                      /\ c.offer = Accepted[c.payment]
    BY DEF Honest
  <2>1. CASE c \in flying' \ flying
    BY <2>1
  <2>2. CASE c \in flying \cup ledger
    <3>1. c.request \in Requests
      BY <2>2 DEF IInv, TypeOK, Calls
    <3>2. /\ trace[c.request].settle_attempted
          /\ trace[c.request].upstream_status = "success"
          /\ c.request \in forwarded
          /\ c.offer = Accepted[c.payment]
      BY <2>2 DEF IInv, Honest
    <3>3. trace'[c.request] = trace[c.request]
      BY <3>1, <3>2 DEF Left
    <3> QED
      BY <3>2, <3>3
  <2> QED
    BY <2>1, <2>2
<1> QED
  BY <1>1, <1>2, <1>3 DEF IInv
-----------------------------------------------------------------------------
(***************************************************************************)
(* The steps, one by one.                                                  *)
(***************************************************************************)

\* A handler that ends keeps the invariant whatever its outcome: what it had
\* asked for stays asked for, and nothing new is.
LEMMA EndKeeps ==
    ASSUME IInv, NEW r \in Requests, pc[r] \in Awaits,
           NEW t \in Traces, NEW outcome \in Outcomes, Finish(r, t, outcome),
           t.paid = trace[r].paid, trace[r].settle_attempted => t = trace[r],
           outcome = "Settled" => pc[r] = "settling",
           answer' \in [Requests -> Answers \cup {None}],
           UNCHANGED <<payment, world>>
    PROVE  IInv'
<1>1. outcome = "Settled" => t.paid \in Offers
  BY AcceptedAssumption DEF IInv, Matched
<1>2. Left(r) /\ pc'[r] = "done" /\ trace'[r] = t /\ wait'[r] = 0 /\ age'[r] = 0
  BY <1>1, FinishLeaves DEF IInv
<1>3. Matched(r)' /\ Clocks(r)' /\ Tracked(r)'
  BY <1>2 DEF Matched, Clocks, Tracked
<1> QED
  BY <1>2, <1>3, LocalStep DEF IInv, TypeOK, world

LEMMA ArriveKeeps == ASSUME IInv, NEW r \in Requests, Arrive(r) PROVE IInv'
<1>1. PICK form \in Forms :
        LET offered == Priced(prices)
            goal    == Screen(form, offered)
            t       == ScreenedTrace(form, offered)
        IN  /\ payment' = [payment EXCEPT ![r] = form.payment]
            /\ forwarded' = IF goal = "serving" THEN forwarded \cup {r} ELSE forwarded
            /\ \/ goal \in Awaits /\ Suspend(r, goal, t)
               \/ goal \in Outcomes /\ Finish(r, t, goal)
  BY DEF Arrive
<1> DEFINE offered == Priced(prices)
           goal    == Screen(form, offered)
           t       == ScreenedTrace(form, offered)
<1>2. form \in FormSet
  BY FormsAssumption
<1>3. t \in Traces /\ ~t.settle_attempted
  BY <1>2, ScreenedTraceType
<1>4. goal \in {"serving", "verifying", "AmbiguousKey", "Unroutable", "OutputCapRefused",
                "UnpricedModel", "PaymentRequired", "PaymentMalformed", "OptionUnmatched"}
  BY <1>2, ScreenRange
<1>5. goal = "verifying" => form.payment \in Payments /\ t.paid = Accepted[form.payment]
  BY <1>2, ScreenMatches
<1>6. /\ payment' = [payment EXCEPT ![r] = form.payment]
      /\ forwarded' = IF goal = "serving" THEN forwarded \cup {r} ELSE forwarded
      /\ \/ goal \in Awaits /\ Suspend(r, goal, t)
         \/ goal \in Outcomes /\ Finish(r, t, goal)
  BY <1>1
<1> HIDE DEF goal, t, offered
<1>7. pc[r] = "idle" /\ age[r] = 0 /\ ~trace[r].settle_attempted
  BY DEF Arrive, IInv, Clocks, Tracked
<1>8. /\ payment \in [Requests -> Payments \cup {Malformed, None}]
      /\ payment' \in [Requests -> Payments \cup {Malformed, None}]
      /\ payment'[r] = form.payment
      /\ \A s \in Requests \ {r} : payment'[s] = payment[s]
  BY <1>2, <1>6 DEF IInv, TypeOK, FormSet
<1>9. /\ forwarded \subseteq forwarded' /\ forwarded' \subseteq Requests
      /\ goal = "serving" => r \in forwarded'
      /\ UNCHANGED <<answer, prices, flying, ledger>>
      /\ answer' \in [Requests -> Answers \cup {None}] /\ flying' \subseteq Calls
  BY <1>6 DEF Arrive, IInv, TypeOK
<1>10. CASE goal \in Awaits /\ Suspend(r, goal, t)
  <2>1. /\ Left(r) /\ pc'[r] = goal /\ trace'[r] = t
        /\ wait'[r] = 0 /\ age'[r] = 0
    BY <1>3, <1>7, <1>10, SuspendLeaves DEF IInv
  <2>2. goal \in {"serving", "verifying"}
    BY <1>4, <1>10 DEF Awaits
  <2>3. Matched(r)' /\ Tracked(r)'
    BY <1>3, <1>5, <1>8, <1>9, <2>1, <2>2 DEF Matched, Tracked
  <2>4. Clocks(r)'
    BY <2>1, <2>2, TimesAssumption DEF Clocks, TimesAssumption
  <2> QED
    BY <1>7, <1>8, <1>9, <2>1, <2>3, <2>4, LocalStep
<1>11. CASE goal \in Outcomes /\ Finish(r, t, goal)
  <2>1. goal # "Settled"
    BY <1>4
  <2>2. /\ Left(r) /\ pc'[r] = "done" /\ trace'[r] = t
        /\ wait'[r] = 0 /\ age'[r] = 0
    BY <1>3, <1>11, <2>1, FinishLeaves DEF IInv
  <2>3. Matched(r)' /\ Clocks(r)' /\ Tracked(r)'
    BY <2>2 DEF Matched, Clocks, Tracked
  <2> QED
    BY <1>7, <1>8, <1>9, <2>2, <2>3, LocalStep
<1> QED
  BY <1>6, <1>10, <1>11

LEMMA AfterVerifyKeeps ==
    ASSUME IInv, NEW r \in Requests, NEW a \in Answers, AfterVerify(r, a) PROVE IInv'
<1>1. /\ pc[r] = "verifying" /\ trace[r] \in Traces /\ ~trace[r].settle_attempted
      /\ payment[r] \in Payments /\ trace[r].paid = Accepted[payment[r]]
  BY DEF AfterVerify, IInv, TypeOK, Matched, Tracked
<1>2. answer' \in [Requests -> Answers \cup {None}]
  BY DEF AfterVerify, IInv, TypeOK
<1>3. CASE /\ age[r] < Budget(trace[r])
           /\ Suspend(r, "forwarding", [trace[r] EXCEPT !.upstream_invoked = TRUE])
           /\ forwarded' = forwarded \cup {r}
  <2> DEFINE t == [trace[r] EXCEPT !.upstream_invoked = TRUE]
  <2>1. t \in Traces /\ t.paid = trace[r].paid /\ ~t.settle_attempted
    BY <1>1 DEF Traces
  <2>2. Suspend(r, "forwarding", t)
    BY <1>3
  <2> HIDE DEF t
  <2>3. /\ Left(r) /\ pc'[r] = "forwarding" /\ trace'[r] = t
        /\ age'[r] = age[r]
    BY <2>1, <2>2, SuspendLeaves DEF IInv, Awaits
  <2>4. payment' = payment
    BY DEF AfterVerify
  <2>5. Matched(r)' /\ Tracked(r)'
    BY <1>1, <1>3, <2>1, <2>3, <2>4 DEF Matched, Tracked
  <2>6. Clocks(r)'
    <3>1. age[r] \in Nat
      BY DEF IInv, TypeOK
    <3>2. trace[r].paid.option \in Options
      BY <1>1, AcceptedAssumption DEF Offers
    <3>3. Budget(trace[r]) \in Int /\ Budget(t) = Budget(trace[r])
      BY <2>1, <3>2, TimesAssumption DEF Budget, TimesAssumption
    <3>4. Budget(trace'[r]) = Budget(trace[r])
      BY <2>3, <3>3
    <3> QED
      BY <1>3, <2>3, <3>1, <3>3, <3>4 DEF Clocks
  <2> QED
    BY <1>1, <1>2, <1>3, <2>3, <2>4, <2>5, <2>6, LocalStep DEF AfterVerify, IInv, TypeOK
<1>4. ASSUME NEW outcome \in Outcomes, outcome # "Settled",
             Finish(r, trace[r], outcome), UNCHANGED forwarded
      PROVE  IInv'
  BY <1>1, <1>2, <1>4, EndKeeps DEF AfterVerify, Awaits, world
<1> QED
  BY <1>3, <1>4 DEF AfterVerify, Outcomes

LEMMA HeadArrivesKeeps == ASSUME IInv, NEW r \in Requests, HeadArrives(r) PROVE IInv'
<1>1. /\ pc[r] = "forwarding" /\ trace[r] \in Traces /\ ~trace[r].settle_attempted
      /\ payment[r] \in Payments /\ trace[r].paid = Accepted[payment[r]]
      /\ r \in forwarded /\ age[r] <= Budget(trace[r])
  BY DEF HeadArrives, IInv, TypeOK, Matched, Tracked, Clocks
<1>2. UNCHANGED <<payment, answer, prices, forwarded, ledger>>
  BY DEF HeadArrives
<1>3. CASE /\ Suspend(r, "settling", [trace[r] EXCEPT !.upstream_status = "success",
                                                      !.settle_attempted = TRUE])
           /\ flying' = flying \cup {Call(r)}
  <2> DEFINE t == [trace[r] EXCEPT !.upstream_status = "success", !.settle_attempted = TRUE]
  <2>1. /\ t \in Traces /\ t.paid = trace[r].paid
        /\ t.settle_attempted /\ t.upstream_status = "success"
    BY <1>1 DEF Traces
  <2>2. Suspend(r, "settling", t)
    BY <1>3
  <2> HIDE DEF t
  <2>3. /\ Left(r) /\ pc'[r] = "settling" /\ trace'[r] = t
        /\ wait'[r] = 0 /\ age'[r] = age[r]
    BY <2>1, <2>2, SuspendLeaves DEF IInv, Awaits
  <2>4. Matched(r)' /\ Tracked(r)'
    BY <1>1, <1>2, <2>1, <2>3 DEF Matched, Tracked
  <2>5. Clocks(r)'
    <3>1. age[r] \in Nat
      BY DEF IInv, TypeOK
    <3>2. Budget(trace'[r]) = Budget(trace[r])
      BY <2>1, <2>3 DEF Budget
    <3> QED
      BY <1>1, <2>3, <3>1, <3>2, TimesAssumption DEF Clocks, TimesAssumption
  <2>6. /\ Call(r) \in Calls /\ Call(r).request = r
        /\ Call(r).offer = Accepted[Call(r).payment]
    BY <1>1, AcceptedAssumption DEF Call, Calls
  <2>7. flying' \subseteq Calls
    BY <1>3, <2>6 DEF IInv, TypeOK
  <2>8. \A c \in flying' \ flying :
           /\ c.request \in forwarded'
           /\ trace'[c.request].settle_attempted
           /\ trace'[c.request].upstream_status = "success"
           /\ c.offer = Accepted[c.payment]
    BY <1>1, <1>2, <1>3, <2>1, <2>3, <2>6
  <2> QED
    BY <1>1, <1>2, <2>3, <2>4, <2>5, <2>7, <2>8, LocalStep DEF IInv, TypeOK
<1>4. CASE /\ Finish(r, [trace[r] EXCEPT !.upstream_status = "error"], "UpstreamRefused")
           /\ UNCHANGED flying
  <2> DEFINE t == [trace[r] EXCEPT !.upstream_status = "error"]
  <2>1. t \in Traces /\ t.paid = trace[r].paid
    BY <1>1 DEF Traces
  <2>2. Finish(r, t, "UpstreamRefused")
    BY <1>4
  <2>3. answer' \in [Requests -> Answers \cup {None}]
    BY <1>2 DEF IInv, TypeOK
  <2> HIDE DEF t
  <2> QED
    BY <1>1, <1>2, <1>4, <2>1, <2>2, <2>3, EndKeeps DEF Awaits, Outcomes, world
<1> QED
  BY <1>3, <1>4 DEF HeadArrives

LEMMA TokenHeadArrivesKeeps == ASSUME IInv, NEW r \in Requests, TokenHeadArrives(r) PROVE IInv'
<1>1. /\ pc[r] = "serving" /\ trace[r] \in Traces /\ ~trace[r].settle_attempted
      /\ answer' \in [Requests -> Answers \cup {None}]
      /\ UNCHANGED <<payment, world>>
  BY DEF TokenHeadArrives, IInv, TypeOK, Tracked
<1>2. ASSUME NEW status \in {"success", "error"}, NEW outcome \in {"Served", "UpstreamRefused"},
             Finish(r, [trace[r] EXCEPT !.upstream_status = status], outcome)
      PROVE  IInv'
  <2> DEFINE t == [trace[r] EXCEPT !.upstream_status = status]
  <2>1. t \in Traces /\ t.paid = trace[r].paid
    BY <1>1 DEF Traces
  <2>2. Finish(r, t, outcome)
    BY <1>2
  <2> HIDE DEF t
  <2> QED
    BY <1>1, <2>1, <2>2, EndKeeps DEF Awaits, Outcomes
<1> QED
  BY <1>2 DEF TokenHeadArrives

LEMMA UpstreamFailsKeeps == ASSUME IInv, NEW r \in Requests, UpstreamFails(r) PROVE IInv'
BY EndKeeps DEF UpstreamFails, Awaits, Outcomes, IInv, TypeOK

LEMMA WindowElapsesKeeps == ASSUME IInv, NEW r \in Requests, WindowElapses(r) PROVE IInv'
BY EndKeeps DEF WindowElapses, Awaits, Outcomes, IInv, TypeOK

LEMMA AfterSettleKeeps ==
    ASSUME IInv, NEW r \in Requests, NEW a \in Answers, AfterSettle(r, a) PROVE IInv'
<1>1. /\ pc[r] = "settling" /\ trace[r] \in Traces
      /\ answer' \in [Requests -> Answers \cup {None}]
      /\ UNCHANGED <<payment, world>>
  BY DEF AfterSettle, IInv, TypeOK
<1>2. PICK outcome \in {"Settled", "SettleRejected", "SettleUnavailable"} :
        Finish(r, trace[r], outcome)
  BY DEF AfterSettle
<1> QED
  BY <1>1, <1>2, EndKeeps DEF Awaits, Outcomes

LEMMA DisconnectKeeps == ASSUME IInv, NEW r \in Requests, Disconnect(r) PROVE IInv'
BY EndKeeps DEF Disconnect, Outcomes, IInv, TypeOK

\* The environment moves calls between flying and ledger and adds none.
LEMMA WorldKeeps ==
    ASSUME IInv, UNCHANGED <<handler, clocks, forwarded>>, prices' \in Quotes,
           flying' \subseteq flying, ledger' \subseteq flying \cup ledger
    PROVE  IInv'
<1>1. TypeOK'
  BY DEF IInv, TypeOK, handler, clocks
<1>2. \A r \in Requests : (Matched(r) /\ Clocks(r) /\ Tracked(r))'
  BY DEF IInv, handler, clocks, Matched, Clocks, Tracked, Budget
<1>3. Honest'
  BY DEF IInv, handler, Honest
<1> QED
  BY <1>1, <1>2, <1>3 DEF IInv

\* The clock stops for every timer that is due, so no await outlives its own.
LEMMA TickKeeps == ASSUME IInv, Tick PROVE IInv'
<1>1. TypeOK'
  BY DEF IInv, TypeOK, Tick, handler, world
<1>2. ASSUME NEW r \in Requests PROVE (Matched(r) /\ Clocks(r) /\ Tracked(r))'
  <2>1. UNCHANGED <<pc, payment, trace, forwarded>> /\ ~Due(r)
    BY DEF Tick, handler, world
  <2>2. Matched(r) /\ Clocks(r) /\ Tracked(r)
    BY DEF IInv
  <2>3. Matched(r)' /\ Tracked(r)'
    BY <2>1, <2>2 DEF Matched, Tracked
  <2>4. age[r] \in Nat /\ wait[r] \in Nat
    BY DEF IInv, TypeOK
  <2>5. CASE pc[r] \in Awaits
    <3>1. age'[r] = age[r] + 1 /\ wait'[r] = wait[r] + 1
      BY <2>5 DEF Tick
    <3>2. pc[r] \in {"forwarding", "settling"} => Budget(trace[r]) \in Int
      BY <2>2, AcceptedAssumption, TimesAssumption DEF Matched, Budget, Offers, TimesAssumption
    <3>3. Budget(trace'[r]) = Budget(trace[r])
      BY <2>1
    <3> QED
      BY <2>1, <2>2, <2>3, <2>4, <2>5, <3>1, <3>2, <3>3, TimesAssumption
         DEF Clocks, Due, Awaits, TimesAssumption
  <2>6. CASE pc[r] \in {"idle", "done"}
    <3>1. age'[r] = age[r] /\ wait'[r] = wait[r]
      BY <2>6 DEF Tick, Awaits
    <3> QED
      BY <2>1, <2>2, <2>3, <2>6, <3>1 DEF Clocks
  <2> QED
    BY <2>5, <2>6 DEF IInv, TypeOK
<1>3. Honest'
  BY DEF IInv, Tick, handler, world, Honest
<1> QED
  BY <1>1, <1>2, <1>3 DEF IInv
-----------------------------------------------------------------------------
(***************************************************************************)
(* The invariant and what follows from it.                                 *)
(***************************************************************************)

LEMMA InitEstablishes == Init => IInv
<1> SUFFICES ASSUME Init PROVE IInv
  OBVIOUS
<1>1. EmptyTrace \in Traces
  BY DEF EmptyTrace, Traces
<1>2. TypeOK
  BY <1>1 DEF Init, TypeOK
<1>3. \A r \in Requests : Matched(r) /\ Clocks(r) /\ Tracked(r)
  BY DEF Init, Matched, Clocks, Tracked, EmptyTrace
<1>4. Honest
  BY DEF Init, Honest
<1> QED
  BY <1>2, <1>3, <1>4 DEF IInv

LEMMA NextKeeps == IInv /\ [Next]_vars => IInv'
<1> SUFFICES ASSUME IInv, [Next]_vars PROVE IInv'
  OBVIOUS
<1>0. Incomplete \in Answers
  BY DEF Answers
<1>1. ASSUME NEW r \in Requests, Expire(r) PROVE IInv'
  BY <1>0, <1>1, AfterVerifyKeeps, UpstreamFailsKeeps, WindowElapsesKeeps, AfterSettleKeeps
     DEF Expire, VerifyTimesOut, HeadTimesOut, SettleTimesOut
<1>2. ASSUME NEW r \in Requests, Handle(r) PROVE IInv'
  BY <1>1, <1>2, ArriveKeeps, AfterVerifyKeeps, HeadArrivesKeeps, TokenHeadArrivesKeeps,
     UpstreamFailsKeeps, AfterSettleKeeps, DisconnectKeeps
     DEF Handle, VerifyAnswered, SettleAnswered
<1>3. ASSUME NEW c \in flying, Land(c) \/ Fall(c) PROVE IInv'
  BY <1>3, WorldKeeps DEF Land, Fall, IInv, TypeOK
<1>4. CASE Reprice
  BY <1>4, WorldKeeps DEF Reprice
<1>5. CASE Tick
  BY <1>5, TickKeeps
<1>6. CASE UNCHANGED vars
  BY <1>6, WorldKeeps DEF vars, world, IInv, TypeOK
<1> QED
  BY <1>2, <1>3, <1>4, <1>5, <1>6 DEF Next

LEMMA Invariance == Spec => []IInv
BY InitEstablishes, NextKeeps, PTL DEF Spec

\* Every variable keeps to its type.
THEOREM TypeCorrect == Spec => []TypeOK
BY Invariance, PTL DEF IInv

\* Every settle call is made while at least the reserve of the matched option's
\* window is left, for every window, reserve and timeout.
THEOREM SettlementIsInTime == Spec => []SettlesInsideWindow
<1>1. ASSUME IInv PROVE SettlesInsideWindow
  <2> SUFFICES ASSUME NEW r \in Requests, pc[r] = "settling"
               PROVE  (age[r] - wait[r]) + Reserve <= Window[trace[r].paid.option]
    BY DEF SettlesInsideWindow
  <2>1. trace[r].paid.option \in Options
    BY <1>1, AcceptedAssumption DEF IInv, Matched, Offers
  <2>2. age[r] \in Nat /\ wait[r] \in Nat
    BY <1>1 DEF IInv, TypeOK
  <2> QED
    BY <1>1, <2>1, <2>2, TimesAssumption DEF IInv, Clocks, Budget, TimesAssumption
<1> QED
  BY <1>1, Invariance, PTL

\* No await of any request outlives what the timers add up to.
THEOREM AnswersAreBounded == Spec => []AnswerIsBounded
<1>1. ASSUME IInv PROVE AnswerIsBounded
  <2> SUFFICES ASSUME NEW r \in Requests
               PROVE  /\ pc[r] = "verifying"  => age[r] <= FacilitatorTimeout
                      /\ pc[r] = "forwarding" => age[r] <= Budget(trace[r])
                      /\ pc[r] = "settling"   => age[r] <= Budget(trace[r]) + FacilitatorTimeout
                      /\ pc[r] = "serving"    => age[r] <= HeadTimeout
    BY DEF AnswerIsBounded
  <2>1. pc[r] = "settling" => Budget(trace[r]) \in Int
    BY <1>1, AcceptedAssumption, TimesAssumption
       DEF IInv, Matched, Offers, Budget, TimesAssumption
  <2>2. age[r] \in Nat /\ wait[r] \in Nat
    BY <1>1 DEF IInv, TypeOK
  <2> QED
    BY <1>1, <2>1, <2>2, TimesAssumption DEF IInv, Clocks, TimesAssumption
<1> QED
  BY <1>1, Invariance, PTL

\* Funds move only for work the origin committed to.
THEOREM OnlyCommittedWorkIsCharged == Spec => []ChargesOnlyCommittedWork
<1>1. IInv => ChargesOnlyCommittedWork
  BY DEF IInv, Honest, ChargesOnlyCommittedWork
<1> QED
  BY <1>1, Invariance, PTL

\* The charge is the accepted offer, whatever lists come and go.
THEOREM TheAcceptedOfferIsCharged == Spec => []ChargesWhatWasAccepted
<1>1. IInv => ChargesWhatWasAccepted
  BY DEF IInv, Honest, ChargesWhatWasAccepted
<1> QED
  BY <1>1, Invariance, PTL

\* Every charge is both: earned by its request and agreed to by its payer.
THEOREM ChargesAreEarnedAndAgreed == Spec => []ChargesAreRightful
BY OnlyCommittedWorkIsCharged, TheAcceptedOfferIsCharged, PTL DEF ChargesAreRightful
-----------------------------------------------------------------------------
(***************************************************************************)
(* What a request leaves behind.  IInv says what a handler may do while it *)
(* runs; Money says what is left when it has ended.                        *)
(***************************************************************************)

\* What r may be recorded as, by what was asked of the facilitator and what came
\* of it.  Nothing here is undone by a transfer that happens, or fails, later.
Entitled(r, t, a, outcome) ==
    /\ outcome = "Settled" => \E c \in ledger : c.request = r
    /\ outcome = "SettleRejected" => \A c \in flying \cup ledger : c.request # r
    /\ outcome = "SettleUnavailable" => t.settle_attempted
    /\ outcome \notin {"Settled", "SettleRejected", "SettleUnavailable", "Abandoned"} =>
           ~t.settle_attempted
    /\ outcome = "Served" => t.access = "Token"
    /\ outcome \in {"PaymentRequired", "PaymentMalformed", "OptionUnmatched"} => t.paid = None
    /\ outcome \in {"VerifyRejected", "SettleRejected"} =>
           a # None /\ Authoritative(a) /\ a.body \in {"no", "pending"}

\* What is on record of r, and what the client got, say what became of it.
Recorded(r) ==
    /\ pc[r] = "idle" => r \notin forwarded
    /\ trace[r].upstream_invoked <=> r \in forwarded
    /\ pc[r] = "serving" => trace[r].access = "Token"
    /\ pc[r] = "settling" => trace[r].settle_attempted
    /\ pc[r] # "done" => event[r] = None /\ response[r] = None
    /\ pc[r] = "done" =>
           /\ event[r] # None /\ event[r].outcome \in Outcomes
           /\ event[r] = Event(trace[r], event[r].outcome)
           /\ response[r] = Response(event[r].outcome)
           /\ Entitled(r, trace[r], answer[r], event[r].outcome)

\* A request's call is the one it made: it has no other, of any payment or amount.
OwnCalls == \A c \in flying \cup ledger : c = Call(c.request)

\* An authorization moves funds once, as its nonce can be used once.
SpentOnce == \A c, d \in ledger : c.payment = d.payment => c = d

Money ==
    /\ \A r \in Requests : Recorded(r)
    /\ OwnCalls
    /\ SpentOnce

\* What a handler may do and what is left of it, together.
Inv == IInv /\ Money
-----------------------------------------------------------------------------
(***************************************************************************)
(* Every step of a handler is one of two, whatever action it is.           *)
(***************************************************************************)

OthersAlone(r) ==
    \A s \in Requests \ {r} :
        /\ payment'[s] = payment[s]
        /\ answer'[s] = answer[s]
        /\ s \in forwarded' <=> s \in forwarded

\* It suspends, and makes its one settle call when that is what it waits for.
Suspends(r, await, t) ==
    /\ Suspend(r, await, t)
    /\ pc[r] # "done" /\ await \in Awaits /\ t \in Traces
    /\ ~trace[r].settle_attempted
    /\ t.settle_attempted <=> await = "settling"
    /\ await = "serving" => t.access = "Token"
    /\ t.upstream_invoked <=> r \in forwarded'
    /\ await # "settling" => UNCHANGED flying
    /\ await = "settling" =>
           /\ payment'[r] \in Payments
           /\ t.paid = Accepted[payment'[r]]
           /\ flying' = flying \cup {[request |-> r, payment |-> payment'[r],
                                      offer |-> t.paid]}
    /\ UNCHANGED ledger
    /\ OthersAlone(r)

\* It ends, with an outcome it is entitled to, and asks for nothing.
Finishes(r, t, outcome) ==
    /\ Finish(r, t, outcome)
    /\ pc[r] # "done" /\ t \in Traces /\ outcome \in Outcomes
    /\ outcome = "Settled" => t.paid \in Offers
    /\ t.settle_attempted <=> trace[r].settle_attempted
    /\ t.settle_attempted => t = trace[r] /\ payment'[r] = payment[r]
    /\ t.upstream_invoked <=> r \in forwarded'
    /\ Entitled(r, t, answer'[r], outcome)
    /\ UNCHANGED <<flying, ledger>>
    /\ OthersAlone(r)

\* Where a request stands before a step of its own.
LEMMA Standing ==
    ASSUME Inv, NEW r \in Requests
    PROVE  /\ trace[r] \in Traces
           /\ pc[r] \in Awaits \cup {"idle", "done"}
           /\ Matched(r) /\ Tracked(r) /\ Recorded(r)
BY DEF Inv, IInv, Money, TypeOK

\* A request that never asked for money has no call anywhere.
LEMMA NothingAsked ==
    ASSUME Inv, NEW r \in Requests, ~trace[r].settle_attempted
    PROVE  \A c \in flying \cup ledger : c.request # r
BY DEF Inv, IInv, Honest

LEMMA ArriveShape ==
    ASSUME Inv, NEW r \in Requests, Arrive(r)
    PROVE  \/ \E await, t : Suspends(r, await, t)
           \/ \E t, outcome : Finishes(r, t, outcome)
<1>1. PICK form \in Forms :
        LET offered == Priced(prices)
            goal    == Screen(form, offered)
            t       == ScreenedTrace(form, offered)
        IN  /\ payment' = [payment EXCEPT ![r] = form.payment]
            /\ forwarded' = IF goal = "serving" THEN forwarded \cup {r} ELSE forwarded
            /\ \/ goal \in Awaits /\ Suspend(r, goal, t)
               \/ goal \in Outcomes /\ Finish(r, t, goal)
  BY DEF Arrive
<1> DEFINE offered == Priced(prices)
           goal    == Screen(form, offered)
           t       == ScreenedTrace(form, offered)
<1>2. form \in FormSet
  BY FormsAssumption
<1>3. t \in Traces /\ ~t.settle_attempted
  BY <1>2, ScreenedTraceType
<1>4. goal \in {"serving", "verifying", "AmbiguousKey", "Unroutable", "OutputCapRefused",
                "UnpricedModel", "PaymentRequired", "PaymentMalformed", "OptionUnmatched"}
  BY <1>2, ScreenRange
<1>5. goal = "serving" => t.access = "Token"
  BY DEF Screen, ScreenedTrace, AccessPath
<1>6. /\ t.upstream_invoked <=> goal = "serving"
      /\ goal # "verifying" => t.paid = None
  BY DEF ScreenedTrace
<1>7. /\ payment' = [payment EXCEPT ![r] = form.payment]
      /\ forwarded' = IF goal = "serving" THEN forwarded \cup {r} ELSE forwarded
      /\ \/ goal \in Awaits /\ Suspend(r, goal, t)
         \/ goal \in Outcomes /\ Finish(r, t, goal)
  BY <1>1
<1> HIDE DEF goal, t, offered
<1>8. /\ pc[r] = "idle" /\ ~trace[r].settle_attempted
      /\ UNCHANGED <<answer, flying, ledger>>
  BY Standing DEF Arrive, Tracked
<1>9. r \notin forwarded
  BY <1>8 DEF Inv, IInv, Money, Recorded
<1>10. OthersAlone(r)
  BY <1>7, <1>8 DEF OthersAlone, Inv, IInv, TypeOK
<1>11. CASE goal \in Awaits /\ Suspend(r, goal, t)
  <2>1. goal \in {"serving", "verifying"}
    BY <1>4, <1>11 DEF Awaits
  <2>2. t.upstream_invoked <=> r \in forwarded'
    BY <1>6, <1>7, <1>9
  <2>3. Suspends(r, goal, t)
    BY <1>3, <1>5, <1>8, <1>10, <1>11, <2>1, <2>2 DEF Suspends
  <2> QED
    BY <2>3
<1>12. CASE goal \in Outcomes /\ Finish(r, t, goal)
  <2>1. goal \notin {"serving", "verifying"}
    BY <1>12 DEF Outcomes
  <2>2. t.upstream_invoked <=> r \in forwarded'
    BY <1>6, <1>7, <1>9, <2>1
  <2>3. Entitled(r, t, answer'[r], goal)
    BY <1>3, <1>4, <1>6, <2>1 DEF Entitled
  <2>4. Finishes(r, t, goal)
    BY <1>3, <1>4, <1>8, <1>10, <1>12, <2>2, <2>3 DEF Finishes
  <2> QED
    BY <2>4
<1> QED
  BY <1>7, <1>11, <1>12

\* A handler that ends with its trace as it was, but for the upstream's status.
LEMMA FinishShape ==
    ASSUME Inv, NEW r \in Requests, pc[r] \in Awaits,
           NEW t \in Traces, NEW outcome \in Outcomes, Finish(r, t, outcome),
           t.paid = trace[r].paid, t.settle_attempted <=> trace[r].settle_attempted,
           t.settle_attempted => t = trace[r],
           t.upstream_invoked <=> trace[r].upstream_invoked,
           outcome = "Settled" => pc[r] = "settling",
           Entitled(r, t, answer'[r], outcome),
           \A s \in Requests \ {r} : answer'[s] = answer[s],
           UNCHANGED <<payment, world>>
    PROVE  Finishes(r, t, outcome)
<1>1. outcome = "Settled" => t.paid \in Offers
  BY Standing, AcceptedAssumption DEF Matched
<1>2. t.upstream_invoked <=> r \in forwarded'
  BY Standing DEF Recorded, world
<1>3. OthersAlone(r)
  BY DEF OthersAlone, world
<1> QED
  BY <1>1, <1>2, <1>3 DEF Finishes, Awaits, world

LEMMA AfterVerifyShape ==
    ASSUME Inv, NEW r \in Requests, NEW a \in Answers, AfterVerify(r, a)
    PROVE  \/ \E await, t : Suspends(r, await, t)
           \/ \E t, outcome : Finishes(r, t, outcome)
<1>1. /\ pc[r] = "verifying" /\ trace[r] \in Traces /\ ~trace[r].settle_attempted
      /\ UNCHANGED <<payment, prices, flying, ledger>>
      /\ answer'[r] = a
      /\ \A s \in Requests \ {r} : answer'[s] = answer[s]
  BY Standing DEF AfterVerify, Tracked, Inv, IInv, TypeOK
<1>2. CASE /\ Suspend(r, "forwarding", [trace[r] EXCEPT !.upstream_invoked = TRUE])
           /\ forwarded' = forwarded \cup {r}
  <2> DEFINE t == [trace[r] EXCEPT !.upstream_invoked = TRUE]
  <2>1. t \in Traces /\ ~t.settle_attempted /\ t.upstream_invoked
    BY <1>1 DEF Traces
  <2>2. Suspend(r, "forwarding", t)
    BY <1>2
  <2> HIDE DEF t
  <2>3. OthersAlone(r)
    BY <1>1, <1>2 DEF OthersAlone
  <2>4. Suspends(r, "forwarding", t)
    BY <1>1, <1>2, <2>1, <2>2, <2>3 DEF Suspends, Awaits
  <2> QED
    BY <2>4
<1>3. ASSUME NEW outcome \in {"PaymentWindowElapsed", "VerifyRejected", "VerifyUnavailable"},
             outcome = "VerifyRejected" => VerifyVerdict(a) = "Refused",
             Finish(r, trace[r], outcome), UNCHANGED forwarded
      PROVE  Finishes(r, trace[r], outcome)
  <2>1. outcome = "VerifyRejected" =>
           a # None /\ Authoritative(a) /\ a.body \in {"no", "pending"}
    BY <1>3, AbsenceAssumption DEF VerifyVerdict
  <2>2. Entitled(r, trace[r], answer'[r], outcome)
    BY <1>1, <2>1 DEF Entitled
  <2> QED
    BY <1>1, <1>3, <2>2, FinishShape DEF Outcomes, Awaits, world
<1> QED
  BY <1>2, <1>3 DEF AfterVerify

LEMMA HeadArrivesShape ==
    ASSUME Inv, NEW r \in Requests, HeadArrives(r)
    PROVE  \/ \E await, t : Suspends(r, await, t)
           \/ \E t, outcome : Finishes(r, t, outcome)
<1>1. /\ pc[r] = "forwarding" /\ trace[r] \in Traces /\ ~trace[r].settle_attempted
      /\ payment[r] \in Payments /\ trace[r].paid = Accepted[payment[r]]
      /\ trace[r].upstream_invoked <=> r \in forwarded
      /\ UNCHANGED <<payment, answer, prices, forwarded, ledger>>
      /\ OthersAlone(r)
  BY Standing DEF HeadArrives, Tracked, Matched, Recorded, OthersAlone
<1>2. CASE /\ Suspend(r, "settling", [trace[r] EXCEPT !.upstream_status = "success",
                                                      !.settle_attempted = TRUE])
           /\ flying' = flying \cup {Call(r)}
  <2> DEFINE t == [trace[r] EXCEPT !.upstream_status = "success", !.settle_attempted = TRUE]
  <2>1. /\ t \in Traces /\ t.paid = trace[r].paid /\ t.settle_attempted
        /\ t.upstream_invoked = trace[r].upstream_invoked
    BY <1>1 DEF Traces
  <2>2. Suspend(r, "settling", t)
    BY <1>2
  <2> HIDE DEF t
  <2>3. flying' = flying \cup {[request |-> r, payment |-> payment'[r], offer |-> t.paid]}
    BY <1>1, <1>2, <2>1 DEF Call
  <2>4. Suspends(r, "settling", t)
    BY <1>1, <2>1, <2>2, <2>3 DEF Suspends, Awaits
  <2> QED
    BY <2>4
<1>3. CASE /\ Finish(r, [trace[r] EXCEPT !.upstream_status = "error"], "UpstreamRefused")
           /\ UNCHANGED flying
  <2> DEFINE t == [trace[r] EXCEPT !.upstream_status = "error"]
  <2>1. /\ t \in Traces /\ t.paid = trace[r].paid /\ ~t.settle_attempted
        /\ t.upstream_invoked = trace[r].upstream_invoked
    BY <1>1 DEF Traces
  <2>2. Finish(r, t, "UpstreamRefused")
    BY <1>3
  <2> HIDE DEF t
  <2>3. Entitled(r, t, answer'[r], "UpstreamRefused")
    BY <2>1 DEF Entitled
  <2>4. Finishes(r, t, "UpstreamRefused")
    BY <1>1, <1>3, <2>1, <2>2, <2>3, FinishShape DEF Outcomes, Awaits, world
  <2> QED
    BY <2>4
<1> QED
  BY <1>2, <1>3 DEF HeadArrives

LEMMA TokenHeadArrivesShape ==
    ASSUME Inv, NEW r \in Requests, TokenHeadArrives(r)
    PROVE  \E t, outcome : Finishes(r, t, outcome)
<1>1. /\ pc[r] = "serving" /\ trace[r] \in Traces /\ ~trace[r].settle_attempted
      /\ trace[r].access = "Token"
      /\ UNCHANGED <<payment, answer, world>>
  BY Standing DEF TokenHeadArrives, Tracked, Recorded
<1>2. ASSUME NEW status \in {"success", "error"}, NEW outcome \in {"Served", "UpstreamRefused"},
             Finish(r, [trace[r] EXCEPT !.upstream_status = status], outcome)
      PROVE  \E t : Finishes(r, t, outcome)
  <2> DEFINE t == [trace[r] EXCEPT !.upstream_status = status]
  <2>1. /\ t \in Traces /\ t.paid = trace[r].paid /\ ~t.settle_attempted
        /\ t.upstream_invoked = trace[r].upstream_invoked
        /\ t.access = "Token"
    BY <1>1 DEF Traces
  <2>2. Finish(r, t, outcome)
    BY <1>2
  <2> HIDE DEF t
  <2>3. Entitled(r, t, answer'[r], outcome)
    BY <2>1 DEF Entitled
  <2>4. Finishes(r, t, outcome)
    BY <1>1, <2>1, <2>2, <2>3, FinishShape DEF Outcomes, Awaits
  <2> QED
    BY <2>4
<1> QED
  BY <1>2 DEF TokenHeadArrives

\* The ends before any settle call, for whatever reason.
LEMMA UnsettledShape ==
    ASSUME Inv, NEW r \in Requests, pc[r] \in Awaits, ~trace[r].settle_attempted,
           NEW outcome \in {"UpstreamUnavailable", "PaymentWindowElapsed"},
           Finish(r, trace[r], outcome), UNCHANGED <<payment, answer, world>>
    PROVE  Finishes(r, trace[r], outcome)
<1>1. Entitled(r, trace[r], answer'[r], outcome)
  BY DEF Entitled
<1> QED
  BY <1>1, Standing, FinishShape DEF Outcomes

LEMMA AfterSettleShape ==
    ASSUME Inv, NEW r \in Requests, NEW a \in Answers, AfterSettle(r, a), Truthful(r, a)
    PROVE  \E t, outcome : Finishes(r, t, outcome)
<1>1. /\ pc[r] = "settling" /\ trace[r] \in Traces /\ trace[r].settle_attempted
      /\ UNCHANGED <<payment, world>>
      /\ answer'[r] = a
      /\ \A s \in Requests \ {r} : answer'[s] = answer[s]
  BY Standing DEF AfterSettle, Recorded, Inv, IInv, TypeOK
<1>2. ASSUME NEW outcome \in {"Settled", "SettleRejected", "SettleUnavailable"},
             outcome = "Settled" => SettleVerdict(a) = "Ok",
             outcome = "SettleRejected" => SettleVerdict(a) = "Refused",
             Finish(r, trace[r], outcome)
      PROVE  Finishes(r, trace[r], outcome)
  <2>1. outcome = "Settled" => \E c \in ledger : c.request = r
    BY <1>2 DEF SettleVerdict, Truthful
  <2>2. outcome = "SettleRejected" =>
           /\ a # None /\ Authoritative(a) /\ a.body = "no"
           /\ \A c \in flying \cup ledger : c.request # r
    BY <1>2, AbsenceAssumption DEF SettleVerdict, Truthful
  <2>3. Entitled(r, trace[r], answer'[r], outcome)
    BY <1>1, <2>1, <2>2 DEF Entitled
  <2> QED
    BY <1>1, <1>2, <2>3, FinishShape DEF Outcomes, Awaits
<1> QED
  BY <1>2 DEF AfterSettle

LEMMA DisconnectShape ==
    ASSUME Inv, NEW r \in Requests, Disconnect(r)
    PROVE  \E t, outcome : Finishes(r, t, outcome)
<1>1. Entitled(r, trace[r], answer'[r], "Abandoned")
  BY DEF Entitled
<1>2. Finishes(r, trace[r], "Abandoned")
  BY <1>1, Standing, FinishShape DEF Disconnect, Outcomes
<1> QED
  BY <1>2

LEMMA HandleShape ==
    ASSUME Inv, NEW r \in Requests, Handle(r)
    PROVE  \/ \E await, t : Suspends(r, await, t)
           \/ \E t, outcome : Finishes(r, t, outcome)
<1>1. Incomplete \in Answers /\ Truthful(r, Incomplete)
  BY DEF Answers, Incomplete, Truthful, Authoritative
<1>2. ASSUME UpstreamFails(r) \/ WindowElapses(r) PROVE \E t, outcome : Finishes(r, t, outcome)
  BY <1>2, Standing, UnsettledShape DEF UpstreamFails, WindowElapses, Tracked, Awaits
<1> QED
  BY <1>1, <1>2, ArriveShape, AfterVerifyShape, HeadArrivesShape, TokenHeadArrivesShape,
     AfterSettleShape, DisconnectShape
     DEF Handle, Expire, VerifyAnswered, SettleAnswered, VerifyTimesOut, HeadTimesOut,
         SettleTimesOut
-----------------------------------------------------------------------------
(***************************************************************************)
(* The invariant is kept.                                                  *)
(***************************************************************************)

LEMMA OthersKeep ==
    ASSUME Inv, NEW r \in Requests, NEW s \in Requests, s # r,
           pc'[s] = pc[s], trace'[s] = trace[s], answer'[s] = answer[s],
           event'[s] = event[s], response'[s] = response[s],
           s \in forwarded' <=> s \in forwarded,
           UNCHANGED ledger, flying \subseteq flying',
           \A c \in flying' \ flying : c.request = r
    PROVE  Recorded(s)'
<1>1. Recorded(s)
  BY Standing
<1>2. pc[s] = "done" =>
         Entitled(s, trace[s], answer[s], event[s].outcome)'
  BY <1>1 DEF Recorded, Entitled
<1> QED
  BY <1>1, <1>2 DEF Recorded

LEMMA SuspendsKeeps ==
    ASSUME Inv, NEW r \in Requests, NEW await, NEW t, Suspends(r, await, t)
    PROVE  Money'
<1>1. /\ pc'[r] = await /\ trace'[r] = t /\ event'[r] = None /\ response'[r] = None
      /\ \A s \in Requests \ {r} :
            /\ pc'[s] = pc[s] /\ trace'[s] = trace[s] /\ payment'[s] = payment[s]
            /\ answer'[s] = answer[s] /\ event'[s] = event[s]
            /\ response'[s] = response[s]
            /\ s \in forwarded' <=> s \in forwarded
  BY Standing DEF Suspends, Suspend, OthersAlone, Recorded, Inv, IInv, TypeOK
<1>2. /\ UNCHANGED ledger /\ flying \subseteq flying'
      /\ \A c \in flying' \ flying : c.request = r /\ c = Call(r)'
  BY <1>1 DEF Suspends, Call
<1>3. ASSUME NEW s \in Requests PROVE Recorded(s)'
  <2>1. CASE s = r
    BY <1>1, <2>1 DEF Recorded, Suspends, Awaits
  <2>2. CASE s # r
    BY <1>1, <1>2, <2>2, OthersKeep
  <2> QED
    BY <2>1, <2>2
<1>4. OwnCalls'
  <2> SUFFICES ASSUME NEW c \in flying' \cup ledger' PROVE c = Call(c.request)'
    BY DEF OwnCalls
  <2>1. CASE c \in flying' \ flying
    BY <1>2, <2>1
  <2>2. CASE c \in flying \cup ledger
    <3>1. /\ c = Call(c.request) /\ c.request \in Requests
          /\ trace[c.request].settle_attempted
      BY <2>2 DEF Inv, IInv, Money, OwnCalls, Honest, TypeOK, Calls
    <3>2. c.request # r
      BY <3>1 DEF Suspends
    <3> QED
      BY <1>1, <3>1, <3>2 DEF Call
  <2> QED
    BY <1>2, <2>1, <2>2
<1>5. SpentOnce'
  BY <1>2 DEF Inv, Money, SpentOnce
<1> QED
  BY <1>3, <1>4, <1>5 DEF Money

LEMMA FinishesKeeps ==
    ASSUME Inv, NEW r \in Requests, NEW t, NEW outcome, Finishes(r, t, outcome)
    PROVE  Money'
<1>1. /\ pc'[r] = "done" /\ trace'[r] = t
      /\ event'[r] = Event(t, outcome) /\ response'[r] = Response(outcome)
      /\ \A s \in Requests \ {r} :
            /\ pc'[s] = pc[s] /\ trace'[s] = trace[s] /\ payment'[s] = payment[s]
            /\ answer'[s] = answer[s] /\ event'[s] = event[s]
            /\ response'[s] = response[s]
            /\ s \in forwarded' <=> s \in forwarded
  BY DEF Finishes, Finish, OthersAlone, Inv, IInv, TypeOK
<1>2. UNCHANGED <<flying, ledger>>
  BY DEF Finishes
<1>3. ASSUME NEW s \in Requests PROVE Recorded(s)'
  <2>1. CASE s = r
    <3>1. event'[r] # None /\ event'[r].outcome = outcome
      BY <1>1, EventType, AbsenceAssumption DEF Event, Finishes
    <3>2. Entitled(r, trace[r], answer[r], event[r].outcome)'
      BY <1>1, <1>2, <3>1 DEF Finishes, Entitled
    <3> QED
      BY <1>1, <2>1, <3>1, <3>2 DEF Recorded, Finishes
  <2>2. CASE s # r
    BY <1>1, <1>2, <2>2, OthersKeep
  <2> QED
    BY <2>1, <2>2
<1>4. OwnCalls'
  <2> SUFFICES ASSUME NEW c \in flying \cup ledger PROVE c = Call(c.request)'
    BY <1>2 DEF OwnCalls
  <2>1. /\ c = Call(c.request) /\ c.request \in Requests
        /\ trace[c.request].settle_attempted
    BY DEF Inv, IInv, Money, OwnCalls, Honest, TypeOK, Calls
  <2>2. trace'[c.request] = trace[c.request] /\ payment'[c.request] = payment[c.request]
    BY <1>1, <2>1 DEF Finishes
  <2> QED
    BY <2>1, <2>2 DEF Call
<1>5. SpentOnce'
  BY <1>2 DEF Inv, Money, SpentOnce
<1> QED
  BY <1>3, <1>4, <1>5 DEF Money

\* What the environment does to the calls takes nothing back from anybody.
LEMMA WorldMoneyKeeps ==
    ASSUME Inv, UNCHANGED <<handler, forwarded>>, SpentOnce',
           flying' \cup ledger' \subseteq flying \cup ledger, ledger \subseteq ledger'
    PROVE  Money'
<1>1. UNCHANGED <<pc, payment, trace, answer, response, event>>
  BY DEF handler
<1>2. ASSUME NEW s \in Requests PROVE Recorded(s)'
  <2>1. Recorded(s)
    BY Standing
  <2>2. pc[s] = "done" => Entitled(s, trace[s], answer[s], event[s].outcome)'
    BY <1>1, <2>1 DEF Recorded, Entitled
  <2> QED
    BY <1>1, <2>1, <2>2 DEF Recorded
<1>3. OwnCalls'
  BY <1>1 DEF Inv, Money, OwnCalls, Call
<1> QED
  BY <1>2, <1>3 DEF Money

LEMMA MoneyInit == Init => Money
BY DEF Init, Money, Recorded, OwnCalls, SpentOnce, EmptyTrace

LEMMA MoneyNext == Inv /\ [Next]_vars => Inv'
<1> SUFFICES ASSUME Inv, [Next]_vars PROVE Money'
  BY NextKeeps DEF Inv
<1>1. ASSUME NEW r \in Requests, Handle(r) PROVE Money'
  BY <1>1, HandleShape, SuspendsKeeps, FinishesKeeps
<1>2. ASSUME NEW c \in flying, Land(c) PROVE Money'
  <2>1. SpentOnce'
    BY <1>2 DEF Land, Inv, Money, SpentOnce
  <2> QED
    BY <1>2, <2>1, WorldMoneyKeeps DEF Land
<1>3. ASSUME NEW c \in flying, Fall(c) PROVE Money'
  BY <1>3, WorldMoneyKeeps DEF Fall, Inv, Money, SpentOnce
<1>4. CASE UNCHANGED <<handler, forwarded, flying, ledger>>
  BY <1>4, WorldMoneyKeeps DEF Inv, Money, SpentOnce
<1> QED
  BY <1>1, <1>2, <1>3, <1>4 DEF Next, Reprice, Tick, vars, world

LEMMA MoneyInvariance == Spec => []Inv
<1>1. Init => Inv
  BY InitEstablishes, MoneyInit DEF Inv
<1> QED
  BY <1>1, MoneyNext, PTL DEF Spec
-----------------------------------------------------------------------------
(***************************************************************************)
(* What the invariant says of the money.                                   *)
(***************************************************************************)

\* The record and the reply of a request that ended, written out.
LEMMA OnRecord ==
    ASSUME Inv, NEW r \in Requests, event[r] # None \/ response[r] # None
    PROVE  /\ event[r].outcome \in Outcomes
           /\ event[r].cost = Cost(trace[r])
           /\ event[r].revenue = Revenue(trace[r], event[r].outcome)
           /\ response[r] = Response(event[r].outcome)
           /\ Entitled(r, trace[r], answer[r], event[r].outcome)
<1>1. /\ event[r].outcome \in Outcomes
      /\ event[r] = Event(trace[r], event[r].outcome)
      /\ response[r] = Response(event[r].outcome)
      /\ Entitled(r, trace[r], answer[r], event[r].outcome)
  BY Standing DEF Recorded
<1>2. \A outcome : /\ Event(trace[r], outcome).cost = Cost(trace[r])
                   /\ Event(trace[r], outcome).revenue = Revenue(trace[r], outcome)
  BY DEF Event
<1> QED
  BY <1>1, <1>2

\* A request has one call, if it has any.
LEMMA OneCall ==
    ASSUME Inv, NEW c \in flying \cup ledger, NEW r \in Requests, c.request = r
    PROVE  c = [request |-> r, payment |-> payment[r], offer |-> trace[r].paid]
BY DEF Inv, Money, OwnCalls, Call

\* Paid work is served exactly to the requests whose own transfer was made, and
\* of all the requests that present a payment to one at most.
THEOREM PaidAndServedAgree == Spec => []ServedIsPaidFor
<1>1. ASSUME Inv PROVE PaidAnswersArePaidFor
  <2> SUFFICES ASSUME NEW r \in Requests, Ended(r),
                      trace[r].access = "Payment", response[r] # None
               PROVE  response[r].status = "200" <=>
                        event[r].outcome = "Settled" /\ \E c \in ledger : c.request = r
    BY DEF PaidAnswersArePaidFor
  <2> DEFINE o == event[r].outcome
  <2>1. response[r] = Response(o) /\ Entitled(r, trace[r], answer[r], o)
    BY <1>1, OnRecord DEF Ended
  <2>2. o # "Served" /\ (o = "Settled" => \E c \in ledger : c.request = r)
    BY <2>1 DEF Entitled
  <2>3. response[r].status = Status(o)
    BY <2>1 DEF Response
  <2>4. Status(o) = "200" <=> o \in {"Settled", "Served"}
    BY DEF Status
  <2> QED
    BY <2>2, <2>3, <2>4
<1>2. ASSUME Inv PROVE OnePaymentOneAnswer
  <2> SUFFICES ASSUME NEW r \in Requests, NEW s \in Requests,
                      Ended(r), event[r].outcome = "Settled",
                      Ended(s), event[s].outcome = "Settled",
                      payment[r] = payment[s]
               PROVE  r = s
    BY DEF OnePaymentOneAnswer
  <2>1. PICK c \in ledger : c.request = r
    BY <1>2, OnRecord DEF Ended, Entitled
  <2>2. PICK d \in ledger : d.request = s
    BY <1>2, OnRecord DEF Ended, Entitled
  <2>3. c.payment = payment[r] /\ d.payment = payment[s]
    BY <1>2, <2>1, <2>2, OneCall
  <2>4. c = d
    BY <1>2, <2>3 DEF Inv, Money, SpentOnce
  <2> QED
    BY <2>1, <2>2, <2>4
<1> QED
  BY <1>1, <1>2, MoneyInvariance, PTL DEF ServedIsPaidFor

\* What revenue is on record is so, and stays so.
LEMMA RevenueHonest == Inv => RevenueIsHonest
<1> SUFFICES ASSUME Inv PROVE RevenueIsHonest
  OBVIOUS
<1> SUFFICES ASSUME NEW r \in Requests, Ended(r)
             PROVE  LET mine  == {c \in flying \cup ledger : c.request = r}
                        known == event[r].revenue.known
                    IN  /\ known /\ event[r].outcome = "Settled" =>
                               /\ mine \subseteq ledger
                               /\ \E c \in mine : c.offer.amount = event[r].revenue.amount
                        /\ known /\ event[r].outcome # "Settled" =>
                               event[r].revenue.amount = 0 /\ mine = {}
                        /\ ~known => trace[r].settle_attempted
  BY DEF RevenueIsHonest
<1> DEFINE mine == {c \in flying \cup ledger : c.request = r}
           o    == event[r].outcome
           rev  == event[r].revenue
<1>1. rev = Revenue(trace[r], o) /\ Entitled(r, trace[r], answer[r], o)
  BY OnRecord DEF Ended
<1>2. ~trace[r].settle_attempted => mine = {}
  BY NothingAsked
<1>3. CASE o = "Settled"
  <2>1. rev = Known(trace[r].paid.amount)
    BY <1>1, <1>3 DEF Revenue
  <2>2. rev.known /\ rev.amount = trace[r].paid.amount
    BY <2>1 DEF Known
  <2>3. PICK c \in ledger : c.request = r
    BY <1>1, <1>3 DEF Entitled
  <2>4. \A d \in mine : d = c
    BY <2>3, OneCall
  <2>5. c.offer = trace[r].paid
    BY <2>3, OneCall
  <2> QED
    BY <1>3, <2>2, <2>3, <2>4, <2>5
<1>4. CASE o = "SettleUnavailable" \/ (o = "Abandoned" /\ trace[r].settle_attempted)
  <2>1. rev = Unknown
    BY <1>1, <1>4 DEF Revenue
  <2>2. ~rev.known
    BY <2>1 DEF Unknown
  <2>3. trace[r].settle_attempted
    BY <1>1, <1>4 DEF Entitled
  <2> QED
    BY <2>2, <2>3
<1>5. CASE /\ o \notin {"Settled", "SettleUnavailable"}
           /\ ~(o = "Abandoned" /\ trace[r].settle_attempted)
  <2>1. rev = Known(0)
    BY <1>1, <1>5 DEF Revenue
  <2>2. rev.known /\ rev.amount = 0
    BY <2>1 DEF Known
  <2>3. mine = {}
    BY <1>1, <1>2, <1>5 DEF Entitled
  <2> QED
    BY <1>5, <2>2, <2>3
<1> QED
  BY <1>3, <1>4, <1>5

\* The revenue and the cost on record are true from the moment they are written,
\* and no transfer that is still out can make them false.
THEOREM BooksStayTrue == Spec => []BooksAreTrue
<1>1. ASSUME Inv PROVE RevenueIsHonest
  BY <1>1, RevenueHonest
<1>2. ASSUME Inv PROVE CostCoversTheWork
  <2> SUFFICES ASSUME NEW r \in Requests, Ended(r)
               PROVE  event[r].cost = "declared" <=> r \in forwarded
    BY DEF CostCoversTheWork
  <2>1. event[r].cost = Cost(trace[r])
    BY <1>2, OnRecord DEF Ended
  <2>2. trace[r].upstream_invoked <=> r \in forwarded
    BY <1>2, Standing DEF Recorded
  <2> QED
    BY <2>1, <2>2 DEF Cost
<1> QED
  BY <1>1, <1>2, MoneyInvariance, PTL DEF BooksAreTrue

\* A 402 after a match comes from a facilitator that read the payment and said no;
\* a 504 says that nothing was charged, and nothing ever is.
THEOREM RefusalsAreFair == Spec => []BlameIsEarned
<1>1. ASSUME Inv PROVE BlameIsEarned
  <2> SUFFICES ASSUME NEW r \in Requests, response[r] # None
               PROVE  /\ response[r].status = "402" /\ trace[r].paid # None =>
                             answer[r] # None /\ Authoritative(answer[r])
                                             /\ answer[r].body \in {"no", "pending"}
                      /\ response[r].status = "504" =>
                             /\ ~trace[r].settle_attempted
                             /\ \A c \in flying \cup ledger : c.request # r
    BY DEF BlameIsEarned
  <2> DEFINE o == event[r].outcome
  <2>1. response[r] = Response(o) /\ Entitled(r, trace[r], answer[r], o)
    BY <1>1, OnRecord
  <2>2. response[r].status = Status(o)
    BY <2>1 DEF Response
  <2>3. /\ Status(o) = "402" => o \in {"PaymentRequired", "PaymentMalformed", "OptionUnmatched",
                                      "VerifyRejected", "SettleRejected"}
        /\ Status(o) = "504" => o = "PaymentWindowElapsed"
    BY DEF Status
  <2>4. o = "PaymentWindowElapsed" => ~trace[r].settle_attempted
    BY <2>1 DEF Entitled
  <2> QED
    BY <1>1, <2>1, <2>2, <2>3, <2>4, NothingAsked DEF Entitled
<1> QED
  BY <1>1, MoneyInvariance, PTL

\* No step revises an event, and none starts a second settle call of a request.
THEOREM OneRecordOneSettlement == Spec => RecordedOnceSettledOnce
<1> DEFINE Once(r) ==
        /\ event[r] # None => event'[r] = event[r]
        /\ trace[r].settle_attempted =>
              {c \in flying' : c.request = r} \subseteq {c \in flying : c.request = r}
<1>1. ASSUME Inv, NEW q \in Requests, Handle(q), NEW r \in Requests PROVE Once(r)
  <2>1. CASE \E await, t : Suspends(q, await, t)
    <3>1. PICK await, t : Suspends(q, await, t)
      BY <2>1
    <3>2. event'[r] = event[r] /\ ~trace[q].settle_attempted
      BY <3>1 DEF Suspends, Suspend
    <3>3. \A c \in flying' \ flying : c.request = q
      BY <3>1 DEF Suspends
    <3> QED
      BY <3>2, <3>3
  <2>2. CASE \E t, outcome : Finishes(q, t, outcome)
    <3>1. PICK t, outcome : Finishes(q, t, outcome)
      BY <2>2
    <3>2. pc[q] # "done" /\ UNCHANGED flying
      BY <3>1 DEF Finishes
    <3>3. event[q] = None
      BY <1>1, <3>2, Standing DEF Recorded
    <3>4. r # q => event'[r] = event[r]
      BY <1>1, <3>1 DEF Finishes, Finish, Inv, IInv, TypeOK
    <3> QED
      BY <3>2, <3>3, <3>4
  <2> QED
    BY <1>1, <2>1, <2>2, HandleShape
<1>2. ASSUME UNCHANGED event, flying' \subseteq flying, NEW r \in Requests PROVE Once(r)
  BY <1>2
<1>3. ASSUME Inv, [Next]_vars
      PROVE  [\A r \in Requests : Once(r)]_vars
  <2> HIDE DEF Once
  <2> QED
    BY <1>1, <1>2, <1>3 DEF Next, Land, Fall, Reprice, Tick, handler, world
<1> QED
  BY <1>3, MoneyInvariance, PTL DEF Spec, RecordedOnceSettledOnce
-----------------------------------------------------------------------------
(***************************************************************************)
(* The gateway implements the abstract booth.                              *)
(***************************************************************************)

\* The booth's view of a request that a step left alone.
LEMMA SameReply ==
    ASSUME NEW r, UNCHANGED event[r]
    PROVE  Reply(r)' = Reply(r)
BY DEF Reply, Ended

\* A handler that runs has not been answered yet, and one that ended has.
LEMMA NoReplyYet == ASSUME Inv, NEW r \in Requests, pc[r] # "done" PROVE Reply(r) = None
BY Standing DEF Recorded, Reply, Ended

LEMMA ReplyOnFinish ==
    ASSUME Inv, NEW r \in Requests, NEW t, NEW outcome, Finishes(r, t, outcome)
    PROVE  Reply(r)' = CASE outcome = "Settled"                            -> "paid"
                         [] outcome = "Served"                             -> "free"
                         [] outcome \in {"SettleUnavailable", "Abandoned"} -> "gaveUp"
                         [] OTHER                                          -> "refused"
<1>1. Event(t, outcome) \in Events
  BY EventType DEF Finishes
<1>2. event'[r] = Event(t, outcome)
  BY DEF Finishes, Finish, Inv, IInv, TypeOK
<1>3. event'[r] # None /\ event'[r].outcome = outcome
  BY <1>1, <1>2, AbsenceAssumption DEF Event
<1> QED
  BY <1>3 DEF Reply, Ended

\* An end is a reply of the abstract booth.
LEMMA FinishesIsReply ==
    ASSUME Inv, NEW r \in Requests, NEW t, NEW outcome, Finishes(r, t, outcome)
    PROVE  Booth!Next
<1> DEFINE kind == CASE outcome = "Settled"                            -> "paid"
                     [] outcome = "Served"                             -> "free"
                     [] outcome \in {"SettleUnavailable", "Abandoned"} -> "gaveUp"
                     [] OTHER                                          -> "refused"
<1>1. \A s \in Requests \ {r} : event'[s] = event[s] /\ trace'[s] = trace[s]
  BY DEF Finishes, Finish, Inv, IInv, TypeOK
<1>2. trace'[r].settle_attempted <=> trace[r].settle_attempted
  BY DEF Finishes, Finish, Inv, IInv, TypeOK
<1>3. Reply(r) = None /\ Reply(r)' = kind
  BY NoReplyYet, ReplyOnFinish DEF Finishes
<1>4. \A s \in Requests \ {r} : Reply(s)' = Reply(s)
  BY <1>1, SameReply
<1>5. [s \in Requests |-> Reply(s)]' = [[s \in Requests |-> Reply(s)] EXCEPT ![r] = kind]
  BY <1>3, <1>4
<1>6. {s \in Requests : trace[s].settle_attempted}' = {s \in Requests : trace[s].settle_attempted}
  BY <1>1, <1>2
<1>7. Booth!Reply(r, kind)
  BY <1>3, <1>5, <1>6 DEF Booth!Reply, Finishes
<1>8. outcome = "Settled" => \E c \in ledger : c.request = r
  BY DEF Finishes, Entitled
<1>9. outcome = "Served" => ~trace[r].settle_attempted
  BY DEF Finishes, Entitled
<1>10. outcome \notin {"Settled", "Served", "SettleUnavailable", "Abandoned"} =>
          \A c \in flying \cup ledger : c.request # r
  <2>1. outcome = "SettleRejected" => \A c \in flying \cup ledger : c.request # r
    BY DEF Finishes, Entitled
  <2>2. outcome \notin {"Settled", "SettleRejected", "SettleUnavailable", "Abandoned"} =>
           ~trace[r].settle_attempted
    BY DEF Finishes, Entitled
  <2> QED
    BY <2>1, <2>2, NothingAsked
<1> HIDE DEF kind
<1>11. CASE outcome = "Settled"
  <2>1. kind = "paid"
    BY <1>11 DEF kind
  <2> QED
    BY <1>7, <1>8, <1>11, <2>1 DEF Booth!Next, Booth!ServePaid, Booth!Of
<1>12. CASE outcome = "Served"
  <2>1. kind = "free"
    BY <1>12 DEF kind
  <2> QED
    BY <1>7, <1>9, <1>12, <2>1 DEF Booth!Next, Booth!ServeFree
<1>13. CASE outcome \in {"SettleUnavailable", "Abandoned"}
  <2>1. kind = "gaveUp"
    BY <1>13 DEF kind
  <2> QED
    BY <1>7, <2>1 DEF Booth!Next, Booth!GiveUp
<1>14. CASE outcome \notin {"Settled", "Served", "SettleUnavailable", "Abandoned"}
  <2>1. kind = "refused"
    BY <1>14 DEF kind
  <2> QED
    BY <1>7, <1>10, <1>14, <2>1 DEF Booth!Next, Booth!Refuse, Booth!Of
<1> QED
  BY <1>11, <1>12, <1>13, <1>14

\* A suspension is the booth asking for its transfer, or nothing at all to it.
LEMMA SuspendsIsAskOrNothing ==
    ASSUME Inv, NEW r \in Requests, NEW await, NEW t, Suspends(r, await, t)
    PROVE  Booth!Next \/ UNCHANGED Booth!vars
<1>1. UNCHANGED <<event, ledger>>
  BY DEF Suspends, Suspend
<1>2. /\ trace'[r] = t
      /\ \A s \in Requests \ {r} : trace'[s] = trace[s]
  BY DEF Suspends, Suspend, Inv, IInv, TypeOK
<1>3. \A s \in Requests : Reply(s)' = Reply(s)
  BY <1>1, SameReply
<1>4. [s \in Requests |-> Reply(s)]' = [s \in Requests |-> Reply(s)]
  BY <1>3
<1>5. CASE await = "settling"
  <2>1. {s \in Requests : trace[s].settle_attempted}' =
           {s \in Requests : trace[s].settle_attempted} \cup {r}
    BY <1>2, <1>5 DEF Suspends
  <2>2. r \notin {s \in Requests : trace[s].settle_attempted}
    BY DEF Suspends
  <2>3. Reply(r) = None
    BY NoReplyYet DEF Suspends
  <2>4. PICK p \in Payments : flying' = flying \cup {Booth!Transfer(r, p)}
    BY <1>5 DEF Suspends, Booth!Transfer
  <2>5. Booth!Ask(r, p)
    BY <1>1, <1>4, <2>1, <2>2, <2>3, <2>4 DEF Booth!Ask
  <2> QED
    BY <2>5 DEF Booth!Next
<1>6. CASE await # "settling"
  <2>1. {s \in Requests : trace[s].settle_attempted}' =
           {s \in Requests : trace[s].settle_attempted}
    BY <1>2, <1>6 DEF Suspends
  <2>2. UNCHANGED flying
    BY <1>6 DEF Suspends
  <2> QED
    BY <1>1, <1>4, <2>1, <2>2 DEF Booth!vars
<1> QED
  BY <1>5, <1>6

\* The environment charges or waives what is owed, and is silent otherwise.
LEMMA WorldIsBooth ==
    ASSUME UNCHANGED handler,
           \/ \E c \in flying : Land(c) \/ Fall(c)
           \/ UNCHANGED <<flying, ledger>>
    PROVE  Booth!Next \/ UNCHANGED Booth!vars
<1>1. UNCHANGED <<event, trace>>
  BY DEF handler
<1>2. [s \in Requests |-> Reply(s)]' = [s \in Requests |-> Reply(s)]
  BY <1>1 DEF Reply, Ended
<1>3. {s \in Requests : trace[s].settle_attempted}' = {s \in Requests : trace[s].settle_attempted}
  BY <1>1
<1>4. ASSUME NEW c \in flying, Land(c) PROVE Booth!Charge(c)
  BY <1>2, <1>3, <1>4 DEF Land, Booth!Charge
<1>5. ASSUME NEW c \in flying, Fall(c) PROVE Booth!Waive(c)
  BY <1>2, <1>3, <1>5 DEF Fall, Booth!Waive
<1>6. CASE UNCHANGED <<flying, ledger>>
  BY <1>2, <1>3, <1>6 DEF Booth!vars
<1> QED
  BY <1>4, <1>5, <1>6 DEF Booth!Next

\* Every promise of the abstract booth is one of the gateway's.
THEOREM GatewayIsABooth == Spec => ImplementsTollBooth
<1>1. Init => Booth!Init
  <2> SUFFICES ASSUME Init PROVE Booth!Init
    OBVIOUS
  <2>1. \A r \in Requests : Reply(r) = None
    BY DEF Init, Reply, Ended
  <2> QED
    BY <2>1 DEF Init, Booth!Init, EmptyTrace
<1>2. ASSUME Inv, [Next]_vars PROVE [Booth!Next]_(Booth!vars)
  <2>1. ASSUME NEW r \in Requests, Handle(r) PROVE Booth!Next \/ UNCHANGED Booth!vars
    BY <1>2, <2>1, HandleShape, FinishesIsReply, SuspendsIsAskOrNothing
  <2>2. ASSUME NEW c \in flying, Land(c) \/ Fall(c) PROVE Booth!Next \/ UNCHANGED Booth!vars
    BY <2>2, WorldIsBooth DEF Land, Fall
  <2>3. CASE Reprice \/ Tick \/ UNCHANGED vars
    BY <2>3, WorldIsBooth DEF Reprice, Tick, vars, world
  <2> QED
    BY <1>2, <2>1, <2>2, <2>3 DEF Next
<1> QED
  BY <1>1, <1>2, MoneyInvariance, PTL DEF Spec, ImplementsTollBooth, Booth!Spec
-----------------------------------------------------------------------------
(***************************************************************************)
(* Sums.  Induction is on the number of members, with a least              *)
(* counterexample for what the induction theorems cannot be given.         *)
(***************************************************************************)

LEMMA FromZeroOn ==
    ASSUME NEW S, 0 \in S, \A n \in Nat : n \in S => n + 1 \in S
    PROVE  Nat \subseteq S
<1> DEFINE rest == {n \in Nat : n \notin S}
<1>1. SUFFICES ASSUME rest # {} PROVE FALSE
  OBVIOUS
<1>2. PICK n \in rest : \A m \in rest : <<m, n>> \notin OpToRel(<, Nat)
  <2>1. rest \subseteq Nat
    OBVIOUS
  <2> HIDE DEF rest
  <2> QED
    BY <1>1, <2>1, NatLessThanWellFounded, WFMin
<1>3. n - 1 \in Nat /\ n = (n - 1) + 1
  OBVIOUS
<1>4. n - 1 \notin rest
  <2>1. \A m \in rest : <<m, n>> \notin {ss \in Nat \X Nat : ss[1] < ss[2]}
    BY <1>2 DEF OpToRel
  <2>2. <<n - 1, n>> \in {ss \in Nat \X Nat : ss[1] < ss[2]}
    BY <1>3
  <2> QED
    BY <2>1, <2>2
<1> QED
  BY <1>3, <1>4

\* A rule for one more member, by what the others sum to.
SumRule(f, sum) ==
    \A set \in DOMAIN sum :
        sum[set] = IF set = {} THEN 0
                   ELSE f[OneOf(set)] + sum[set \ {OneOf(set)}]

SmallSets(D, n) == {set \in SUBSET D : Cardinality(set) <= n}

LEMMA OneLess ==
    ASSUME NEW D, IsFiniteSet(D), NEW set \in SUBSET D, NEW x \in set
    PROVE  /\ IsFiniteSet(set) /\ IsFiniteSet(set \ {x}) /\ set \ {x} \in SUBSET D
           /\ Cardinality(set) \in Nat /\ Cardinality(set \ {x}) \in Nat
           /\ Cardinality(set \ {x}) = Cardinality(set) - 1
BY FS_Subset, FS_CardinalityType, FS_RemoveElement

LEMMA SumExists ==
    ASSUME NEW f, NEW D, IsFiniteSet(D)
    PROVE  \E sum : /\ sum = [set \in SUBSET D |-> sum[set]]
                    /\ SumRule(f, sum)
<1> DEFINE Fits(sum, n) == sum = [set \in SmallSets(D, n) |-> sum[set]] /\ SumRule(f, sum)
           S == {n \in Nat : \E sum : Fits(sum, n)}
<1>1. 0 \in S
  <2> DEFINE sum == [set \in SmallSets(D, 0) |-> 0]
  <2>1. \A set \in SmallSets(D, 0) : set = {}
    BY FS_Subset, FS_EmptySet, FS_CardinalityType DEF SmallSets
  <2>2. Fits(sum, 0)
    BY <2>1 DEF SumRule
  <2> QED
    BY <2>2
<1>2. ASSUME NEW n \in Nat, n \in S PROVE n + 1 \in S
  <2>1. PICK old : Fits(old, n)
    BY <1>2
  <2> DEFINE new == [set \in SmallSets(D, n + 1) |->
                        IF set = {} THEN 0
                        ELSE f[OneOf(set)] + old[set \ {OneOf(set)}]]
  <2>2. ASSUME NEW set \in SmallSets(D, n + 1), set # {}
        PROVE  new[set \ {OneOf(set)}] = old[set \ {OneOf(set)}]
    <3> DEFINE x == OneOf(set)
               less == set \ {x}
    <3>1. x \in set
      BY <2>2 DEF OneOf
    <3> HIDE DEF x
    <3>2. less \in SmallSets(D, n) /\ less \in SmallSets(D, n + 1)
      BY <3>1, OneLess DEF SmallSets
    <3> HIDE DEF less
    <3>3. old[less] = IF less = {} THEN 0
                      ELSE f[OneOf(less)] + old[less \ {OneOf(less)}]
      BY <2>1, <3>2 DEF SumRule
    <3>4. new[less] = old[less]
      BY <3>2, <3>3
    <3> HIDE DEF new
    <3> QED
      BY <3>4 DEF less, x
  <2>3. SumRule(f, new)
    BY <2>2 DEF SumRule
  <2>4. new = [set \in SmallSets(D, n + 1) |-> new[set]]
    OBVIOUS
  <2> HIDE DEF new
  <2> QED
    BY <2>3, <2>4
<1>3. Cardinality(D) \in S
  <2>1. Nat \subseteq S
    <3> HIDE DEF S
    <3> QED
      BY <1>1, <1>2, FromZeroOn
  <2> QED
    BY <2>1, FS_CardinalityType
<1>4. SmallSets(D, Cardinality(D)) = SUBSET D
  BY FS_Subset DEF SmallSets
<1> QED
  BY <1>3, <1>4

\* The sums are what their equation says, for every subset of a finite domain.
LEMMA SumUpToDef ==
    ASSUME NEW f, IsFiniteSet(DOMAIN f)
    PROVE  DOMAIN SumUpTo(f) = SUBSET DOMAIN f /\ SumRule(f, SumUpTo(f))
<1> DEFINE Fits(sum) == sum = [set \in SUBSET DOMAIN f |->
                                  IF set = {} THEN 0
                                  ELSE f[OneOf(set)] + sum[set \ {OneOf(set)}]]
<1>1. PICK sum : sum = [set \in SUBSET DOMAIN f |-> sum[set]] /\ SumRule(f, sum)
  BY SumExists
<1>2. Fits(sum)
  BY <1>1 DEF SumRule
<1>3. SumUpTo(f) = CHOOSE s : Fits(s)
  BY DEF SumUpTo
<1>4. Fits(SumUpTo(f))
  <2> HIDE DEF Fits
  <2> QED
    BY <1>2, <1>3
<1> QED
  BY <1>4 DEF SumRule

\* Induction on the members of a finite set, with the property as a set.
LEMMA BySize ==
    ASSUME NEW D, IsFiniteSet(D), NEW Good, {} \in Good,
           \A set \in SUBSET D :
               set # {} /\ (\A x \in set : set \ {x} \in Good) => set \in Good
    PROVE  SUBSET D \subseteq Good
<1> DEFINE S == {n \in Nat : \A set \in SUBSET D : Cardinality(set) = n => set \in Good}
<1>1. 0 \in S
  BY FS_Subset, FS_EmptySet
<1>2. ASSUME NEW n \in Nat, n \in S PROVE n + 1 \in S
  <2> SUFFICES ASSUME NEW set \in SUBSET D, Cardinality(set) = n + 1 PROVE set \in Good
    OBVIOUS
  <2>1. set # {}
    BY ONLY FS_EmptySet, Cardinality(set) = n + 1, n \in Nat
  <2>2. ASSUME NEW x \in set PROVE set \ {x} \in Good
    <3>1. Cardinality(set \ {x}) = n
      <4>1. Cardinality(set \ {x}) = Cardinality(set) - 1
        BY OneLess
      <4> QED
        BY ONLY <4>1, Cardinality(set) = n + 1, n \in Nat
    <3> QED
      BY <1>2, <3>1
  <2> QED
    BY <2>1, <2>2
<1>3. Nat \subseteq S
  <2> HIDE DEF S
  <2> QED
    BY <1>1, <1>2, FromZeroOn
<1> QED
  BY <1>3, FS_Subset, FS_CardinalityType

Amounts(f) == IsFiniteSet(DOMAIN f) /\ \A x \in DOMAIN f : f[x] \in Nat

LEMMA SumsAreNatural ==
    ASSUME NEW f, Amounts(f)
    PROVE  \A set \in SUBSET DOMAIN f : SumUpTo(f)[set] \in Nat
<1> DEFINE D == DOMAIN f
           F == SumUpTo(f)
           Good == {set \in SUBSET D : F[set] \in Nat}
<1>1. DOMAIN F = SUBSET D /\ SumRule(f, F) /\ IsFiniteSet(D)
  BY SumUpToDef DEF Amounts
<1>2. {} \in Good
  <2>1. F[{}] = 0
    BY <1>1 DEF SumRule
  <2> QED
    BY <2>1
<1>3. ASSUME NEW set \in SUBSET D, set # {}, \A x \in set : set \ {x} \in Good
      PROVE  set \in Good
  <2>1. OneOf(set) \in set
    BY <1>3 DEF OneOf
  <2>2. F[set] = f[OneOf(set)] + F[set \ {OneOf(set)}]
    BY <1>1, <1>3 DEF SumRule
  <2>3. f[OneOf(set)] \in Nat /\ F[set \ {OneOf(set)}] \in Nat
    BY <1>3, <2>1 DEF Amounts
  <2> QED
    BY <2>2, <2>3
<1>4. SUBSET D \subseteq Good
  <2> HIDE DEF Good, D
  <2> QED
    BY <1>1, <1>2, <1>3, BySize
<1> QED
  BY <1>4

\* It does not matter which member a sum takes first.
LEMMA AnyFirst ==
    ASSUME NEW f, Amounts(f), NEW set \in SUBSET DOMAIN f, NEW b \in set
    PROVE  SumUpTo(f)[set] = f[b] + SumUpTo(f)[set \ {b}]
<1> DEFINE D == DOMAIN f
           F == SumUpTo(f)
           Good == {s \in SUBSET D : \A c \in s : F[s] = f[c] + F[s \ {c}]}
<1>1. DOMAIN F = SUBSET D /\ SumRule(f, F) /\ IsFiniteSet(D)
  BY SumUpToDef DEF Amounts
<1>2. {} \in Good
  OBVIOUS
<1>3. ASSUME NEW s \in SUBSET D, s # {}, \A x \in s : s \ {x} \in Good
      PROVE  s \in Good
  <2> SUFFICES ASSUME NEW c \in s PROVE F[s] = f[c] + F[s \ {c}]
    OBVIOUS
  <2> DEFINE x == OneOf(s)
             both == (s \ {x}) \ {c}
  <2>1. x \in s
    BY <1>3 DEF OneOf
  <2>2. F[s] = f[x] + F[s \ {x}]
    BY <1>1, <1>3 DEF SumRule
  <2> HIDE DEF x
  <2>3. CASE c = x
    BY <2>2, <2>3
  <2>4. CASE c # x
    <3>1. F[s \ {x}] = f[c] + F[both]
      BY <1>3, <2>1, <2>4
    <3>2. F[s \ {c}] = f[x] + F[both]
      <4>1. F[s \ {c}] = f[x] + F[(s \ {c}) \ {x}]
        BY <1>3, <2>1, <2>4
      <4>2. (s \ {c}) \ {x} = both
        OBVIOUS
      <4> QED
        BY <4>1, <4>2
    <3>3. f[x] \in Nat /\ f[c] \in Nat /\ F[both] \in Nat
      BY <2>1, SumsAreNatural DEF Amounts
    <3> HIDE DEF both, F
    <3> QED
      BY <2>2, <3>1, <3>2, <3>3
  <2> QED
    BY <2>3, <2>4
<1>4. SUBSET D \subseteq Good
  <2> HIDE DEF Good, D
  <2> QED
    BY <1>1, <1>2, <1>3, BySize
<1> QED
  BY <1>4

\* A sum is at most another one if each of its amounts, but for zeros, is at most
\* an amount of the other that is set against no other of its own.
LEMMA SumsCompare ==
    ASSUME NEW f, Amounts(f), NEW g, Amounts(g), NEW h,
           \A a \in DOMAIN f : f[a] # 0 => h[a] \in DOMAIN g /\ f[a] <= g[h[a]],
           \A a, b \in DOMAIN f : f[a] # 0 /\ f[b] # 0 /\ h[a] = h[b] => a = b
    PROVE  SumOf(f) <= SumOf(g)
<1> DEFINE D == DOMAIN f
           E == DOMAIN g
           F == SumUpTo(f)
           G == SumUpTo(g)
           Covers(T, S) == \A a \in S : f[a] # 0 => h[a] \in T
           Good == {S \in SUBSET D : \A T \in SUBSET E : Covers(T, S) => F[S] <= G[T]}
<1>1. DOMAIN F = SUBSET D /\ SumRule(f, F) /\ IsFiniteSet(D)
  BY SumUpToDef DEF Amounts
<1>2. /\ \A S \in SUBSET D : F[S] \in Nat
      /\ \A T \in SUBSET E : G[T] \in Nat
  BY SumsAreNatural
<1>3. {} \in Good
  <2>1. F[{}] = 0
    BY <1>1 DEF SumRule
  <2> QED
    BY <1>2, <2>1
<1>4. ASSUME NEW S \in SUBSET D, S # {}, \A x \in S : S \ {x} \in Good
      PROVE  S \in Good
  <2> SUFFICES ASSUME NEW T \in SUBSET E, Covers(T, S) PROVE F[S] <= G[T]
    OBVIOUS
  <2>1. PICK a : a \in S
    BY <1>4
  <2>2. F[S] = f[a] + F[S \ {a}] /\ f[a] \in Nat /\ F[S \ {a}] \in Nat
    <3>1. F[S] = f[a] + F[S \ {a}]
      BY <2>1, AnyFirst
    <3>2. f[a] \in Nat
      BY <2>1 DEF Amounts
    <3>3. S \ {a} \in SUBSET D
      OBVIOUS
    <3> HIDE DEF F, D
    <3> QED
      BY <1>2, <3>1, <3>2, <3>3
  <2>3. CASE f[a] = 0
    <3>1. F[S \ {a}] <= G[T]
      BY <1>4, <2>1
    <3> HIDE DEF F, G
    <3> QED
      BY <2>2, <2>3, <3>1
  <2>4. CASE f[a] # 0
    <3> DEFINE b == h[a]
    <3>1. b \in T /\ b \in E /\ f[a] <= g[b] /\ g[b] \in Nat
      BY <2>1, <2>4 DEF Amounts
    <3>2. G[T] = g[b] + G[T \ {b}] /\ G[T \ {b}] \in Nat
      <4> HIDE DEF b
      <4> QED
        BY <1>2, <3>1, AnyFirst
    <3>3. Covers(T \ {b}, S \ {a})
      BY <2>1, <2>4
    <3>4. F[S \ {a}] <= G[T \ {b}]
      <4> HIDE DEF b, F, G, Covers
      <4> QED
        BY <1>4, <2>1, <3>3
    <3> HIDE DEF F, G, b
    <3> QED
      BY <2>2, <3>1, <3>2, <3>4
  <2> QED
    BY <2>3, <2>4
<1>5. SUBSET D \subseteq Good
  <2> HIDE DEF Good, D
  <2> QED
    BY <1>1, <1>3, <1>4, BySize
<1>6. D \in Good /\ Covers(E, D)
  BY <1>5
<1> QED
  BY <1>6 DEF SumOf
-----------------------------------------------------------------------------
(***************************************************************************)
(* A step of the composition is one of the booth and one of the sink, each *)
(* or a stutter.                                                           *)
(***************************************************************************)

\* Counting is the same in the sink's proofs, and they assume nothing that is not so.
LEMMA SinkAssumed ==
    /\ \A set : SinkProofs!Cardinality(set) = Cardinality(set)
    /\ SinkProofs!EventsAssumption /\ SinkProofs!CapacityAssumption
    /\ SinkProofs!FaultsAssumption /\ SinkProofs!NoneAssumption
<1>1. ASSUME NEW set PROVE SinkProofs!Cardinality(set) = Cardinality(set)
  BY DEF SinkProofs!Cardinality, Cardinality
<1>2. SinkProofs!IsFiniteSet(Requests) <=> IsFiniteSet(Requests)
  BY DEF SinkProofs!IsFiniteSet, IsFiniteSet
<1> QED
  BY <1>1, <1>2, SinkAssumption
     DEF SinkProofs!EventsAssumption, SinkProofs!CapacityAssumption,
         SinkProofs!FaultsAssumption, SinkProofs!NoneAssumption,
         SinkProofs!Timeout, SinkProofs!Disconnected

LEMMA SinkStep == Sink!Next => SinkProofs!Next
<1> USE DEF Sink!senders, SinkProofs!senders, Sink!channel, SinkProofs!channel,
            Sink!thread, SinkProofs!thread, Sink!output, SinkProofs!output,
            Sink!history, SinkProofs!history, Sink!Timeout, SinkProofs!Timeout,
            Sink!Disconnected, SinkProofs!Disconnected
<1>1. ASSUME NEW r \in Requests, Sink!Offer(r) PROVE SinkProofs!Offer(r)
  <2>1. Sink!Taken(r) = SinkProofs!Taken(r)
    BY DEF Sink!Cardinality, SinkProofs!Cardinality, Sink!Taken, SinkProofs!Taken
  <2> QED
    BY <1>1, <2>1 DEF Sink!Offer, SinkProofs!Offer
<1>2. ASSUME NEW r \in Requests, Sink!Count(r) PROVE SinkProofs!Count(r)
  BY <1>2 DEF Sink!Count, SinkProofs!Count
<1>3. Sink!Close => SinkProofs!Close
  BY DEF Sink!Close, SinkProofs!Close
<1>4. Sink!Receive => SinkProofs!Receive
  BY DEF Sink!Receive, SinkProofs!Receive
<1>5. Sink!Swap => SinkProofs!Swap
  BY DEF Sink!Swap, SinkProofs!Swap
<1>6. Sink!Report => SinkProofs!Report
  BY DEF Sink!Report, SinkProofs!Report, Sink!DroppedLine, SinkProofs!DroppedLine
<1>7. Sink!Write => SinkProofs!Write
  BY DEF Sink!Write, SinkProofs!Write, Sink!EventLine, SinkProofs!EventLine
<1>8. Sink!Loop => SinkProofs!Loop
  BY DEF Sink!Loop, SinkProofs!Loop
<1>9. Sink!Die => SinkProofs!Die
  BY DEF Sink!Die, SinkProofs!Die
<1> QED
  BY <1>1, <1>2, <1>3, <1>4, <1>5, <1>6, <1>7, <1>8, <1>9
     DEF Sink!Next, SinkProofs!Next, Sink!Drain, SinkProofs!Drain

LEMMA PartsStep ==
    ASSUME [BooksNext]_all
    PROVE  [Next]_vars /\ [Sink!Next]_Sink!vars
<1>1. /\ UNCHANGED booth => UNCHANGED vars
      /\ UNCHANGED sink => UNCHANGED Sink!vars
  BY DEF booth, sink, vars, Sink!vars, Sink!senders, Sink!channel, Sink!thread,
         Sink!output, Sink!history
<1>2. ASSUME NEW r \in Requests, HandleRequest(r) PROVE Next /\ UNCHANGED sink
  BY <1>2 DEF HandleRequest, Next
<1>3. ASSUME NEW r \in Requests, Record(r) \/ CountDrop(r) PROVE Sink!Next /\ UNCHANGED booth
  BY <1>3 DEF Record, CountDrop, Sink!Next
<1>4. CASE Outside
  BY <1>1, <1>4 DEF Outside, Next
<1>5. CASE Close \/ Drain \/ Die
  BY <1>1, <1>5 DEF Close, Drain, Die, Sink!Next
<1>6. CASE UNCHANGED all
  BY <1>1, <1>6 DEF all
<1> QED
  BY <1>1, <1>2, <1>3, <1>4, <1>5, <1>6 DEF BooksNext

\* The composition takes nothing away from either part: what it does is, to the booth,
\* something a booth does, and to the sink something a sink does.
THEOREM EachPartIsItself ==
    BooksSpec => /\ Init /\ [][Next]_vars
                 /\ Sink!Init /\ [][Sink!Next]_Sink!vars
BY PartsStep, PTL DEF BooksSpec, BooksInit
-----------------------------------------------------------------------------
(***************************************************************************)
(* What the parts keep between them.                                       *)
(***************************************************************************)

\* Only a request that ended is recorded, and when the gateway has gone every request
\* that arrived has been.
Joined ==
    /\ \A r \in Requests : stage[r] # "new" => pc[r] = "done"
    /\ ~open => \A r \in Requests : pc[r] = "idle" \/ stage[r] = "recorded"

BInv == Inv /\ SinkProofs!SinkInv /\ Joined

LEMMA JoinedKept ==
    ASSUME BInv, [BooksNext]_all
    PROVE  Joined'
<1>0. /\ stage \in [Requests -> {"new", "counting", "recorded"}]
      /\ pc \in [Requests -> Awaits \cup {"idle", "done"}]
  BY DEF BInv, SinkProofs!SinkInv, SinkProofs!TypeOK, Inv, IInv, TypeOK
<1>1. ASSUME NEW r \in Requests, HandleRequest(r) PROVE Joined'
  <2>1. pc[r] # "done" /\ \A s \in Requests \ {r} : pc'[s] = pc[s]
    <3>1. \/ \E await, t : Suspends(r, await, t)
          \/ \E t, outcome : Finishes(r, t, outcome)
      BY <1>1, HandleShape DEF HandleRequest, BInv
    <3> QED
      BY <1>0, <3>1 DEF Suspends, Suspend, Finishes, Finish
  <2>2. UNCHANGED <<stage, open>> /\ (pc[r] = "idle" => open)
    BY <1>1 DEF HandleRequest, sink
  <2>3. stage[r] = "new" /\ open
    BY <1>0, <2>1, <2>2 DEF BInv, Joined
  <2> QED
    BY <2>1, <2>2, <2>3 DEF BInv, Joined
<1>2. ASSUME NEW r \in Requests, Record(r) PROVE Joined'
  <2>1. pc[r] = "done" /\ open /\ UNCHANGED <<pc, open>>
    BY <1>2 DEF Record, Sink!Offer, booth, handler
  <2>2. \A s \in Requests \ {r} : stage'[s] = stage[s]
    BY <1>0, <1>2 DEF Record, Sink!Offer
  <2> QED
    BY <2>1, <2>2 DEF BInv, Joined
<1>3. ASSUME NEW r \in Requests, CountDrop(r) PROVE Joined'
  <2>1. UNCHANGED <<pc, open>>
    BY <1>3 DEF CountDrop, Sink!Count, booth, handler
  <2>2. /\ stage[r] # "new" /\ stage'[r] = "recorded"
        /\ \A s \in Requests \ {r} : stage'[s] = stage[s]
    BY <1>0, <1>3 DEF CountDrop, Sink!Count
  <2> QED
    BY <2>1, <2>2 DEF BInv, Joined
<1>4. CASE Close
  BY <1>4 DEF Close, Sink!Close, booth, handler, BInv, Joined
<1>5. CASE UNCHANGED <<pc, stage, open>>
  BY <1>5 DEF BInv, Joined
<1>6. Outside => UNCHANGED <<pc, stage, open>>
  BY DEF Outside, Land, Fall, Reprice, Tick, handler, sink
<1>7. Drain \/ Die \/ UNCHANGED all => UNCHANGED <<pc, stage, open>>
  BY DEF Drain, Die, all, booth, sink, handler, Sink!Drain, Sink!Receive, Sink!Swap,
         Sink!Report, Sink!Write, Sink!Loop, Sink!Die, Sink!senders
<1> QED
  BY <1>1, <1>2, <1>3, <1>4, <1>5, <1>6, <1>7 DEF BooksNext

LEMMA BooksInvariance == BooksSpec => []BInv
<1>1. BooksInit => BInv
  <2> SUFFICES ASSUME Init, Sink!Init PROVE BInv
    BY DEF BooksInit
  <2>1. Inv
    BY InitEstablishes, MoneyInit DEF Inv
  <2>2. SinkProofs!Init
    BY DEF Sink!Init, SinkProofs!Init
  <2>3. SinkProofs!SinkInv
    BY <2>2, SinkAssumed, SinkProofs!SinkInit
  <2>4. Joined
    BY DEF Init, Sink!Init, Joined
  <2> QED
    BY <2>1, <2>3, <2>4 DEF BInv
<1>2. BInv /\ [BooksNext]_all => BInv'
  <2> SUFFICES ASSUME BInv, [BooksNext]_all PROVE BInv'
    OBVIOUS
  <2>1. Inv'
    BY PartsStep, MoneyNext DEF BInv
  <2>2. [SinkProofs!Next]_SinkProofs!vars
    <3>1. UNCHANGED Sink!vars => UNCHANGED SinkProofs!vars
      BY DEF Sink!vars, SinkProofs!vars, Sink!senders, SinkProofs!senders, Sink!channel,
             SinkProofs!channel, Sink!thread, SinkProofs!thread, Sink!output,
             SinkProofs!output, Sink!history, SinkProofs!history
    <3> QED
      BY <3>1, PartsStep, SinkStep
  <2>3. SinkProofs!SinkInv'
    BY <2>2, SinkAssumed, SinkProofs!SinkNext DEF BInv
  <2> QED
    BY <2>1, <2>3, JoinedKept DEF BInv
<1> QED
  BY <1>1, <1>2, PTL DEF BooksSpec
-----------------------------------------------------------------------------
(***************************************************************************)
(* What the lines add up to.                                               *)
(***************************************************************************)

\* What the events of requests that ended say of the calls these made.
LEMMA LedgerAgrees ==
    ASSUME BInv
    PROVE  /\ RevenueIsHonest
           /\ \A r \in Requests : Ended(r) <=> pc[r] = "done"
           /\ \A r \in Requests : Ended(r) => event[r].revenue.amount \in Nat
           /\ \A c \in flying \cup ledger : c.request \in Requests /\ c.offer.amount \in Nat
           /\ \A c, d \in flying \cup ledger : c.request = d.request => c = d
<1>1. Inv
  BY DEF BInv
<1>2. RevenueIsHonest
  BY <1>1, RevenueHonest
<1>3. ASSUME NEW r \in Requests PROVE Ended(r) <=> pc[r] = "done"
  BY <1>1, Standing DEF Recorded, Ended
<1>4. ASSUME NEW r \in Requests, Ended(r) PROVE event[r].revenue.amount \in Nat
  <2>1. event[r] \in Events
    BY <1>1, <1>4 DEF Ended, Inv, IInv, TypeOK
  <2> QED
    BY <2>1 DEF Events
<1>5. ASSUME NEW c \in flying \cup ledger
      PROVE  c.request \in Requests /\ c.offer.amount \in Nat
  BY <1>1 DEF Inv, IInv, TypeOK, Calls, Offers
<1>6. ASSUME NEW c \in flying \cup ledger, NEW d \in flying \cup ledger, c.request = d.request
      PROVE  c = d
  BY <1>1, <1>5, <1>6 DEF Inv, Money, OwnCalls
<1> QED
  BY <1>2, <1>3, <1>4, <1>5, <1>6

\* A line is of a request that ended and was not refused.
LEMMA ListedIsRecorded ==
    ASSUME BInv
    PROVE  \A r \in Listed : r \in Requests /\ Ended(r) /\ stage[r] = "recorded" /\ r \notin refused
BY LedgerAgrees DEF Listed, BInv, Joined, SinkProofs!SinkInv, SinkProofs!NoneAstray,
                    SinkProofs!OnTheWay

LEMMA TotalsHold == BInv => TotalsAreLowerBounds
<1> SUFFICES ASSUME BInv PROVE TotalsAreLowerBounds
  OBVIOUS
<1> DEFINE Lines == Listed \ OpenLines
           f == [r \in Lines |-> event[r].revenue.amount]
           g == [c \in ledger |-> c.offer.amount]
           of == [c \in ledger |-> c.request]
           h == [r \in Lines |-> CHOOSE c \in ledger : c.request = r]
<1>1. IsFiniteSet(Requests)
  BY SinkAssumption
<1>2. Amounts(f)
  <2>1. Lines \subseteq Requests /\ \A r \in Lines : f[r] \in Nat
    BY ListedIsRecorded, LedgerAgrees
  <2>2. IsFiniteSet(Lines)
    <3> HIDE DEF Lines
    <3> QED
      BY <1>1, <2>1, FS_Subset
  <2> QED
    BY <2>1, <2>2 DEF Amounts
<1>3. Amounts(g)
  <2>1. of \in Injection(ledger, Requests)
    BY LedgerAgrees DEF Injection, IsInjective
  <2>2. IsFiniteSet(ledger)
    <3> HIDE DEF of
    <3> QED
      BY <1>1, <2>1, FS_Injection
  <2> QED
    BY <2>2, LedgerAgrees DEF Amounts
<1>4. ASSUME NEW r \in Lines, f[r] # 0
      PROVE  h[r] \in ledger /\ h[r].request = r /\ f[r] = g[h[r]]
  <2>1. r \in Requests /\ Ended(r) /\ event[r].revenue.known
    BY ListedIsRecorded DEF OpenLines
  <2>2. \E c \in ledger : c.request = r /\ c.offer.amount = event[r].revenue.amount
    BY <1>4, <2>1, LedgerAgrees DEF RevenueIsHonest
  <2>3. h[r] \in ledger /\ h[r].request = r
    BY <2>2
  <2>4. h[r].offer.amount = event[r].revenue.amount
    BY <2>2, <2>3, LedgerAgrees
  <2> QED
    BY <2>3, <2>4
<1>5. /\ DOMAIN f = Lines /\ DOMAIN g = ledger
      /\ \A r \in Lines : f[r] \in Nat
  BY <1>2 DEF Amounts
<1>6. SumOf(f) <= SumOf(g)
  <2> HIDE DEF f, g, h, Lines
  <2> QED
    BY <1>2, <1>3, <1>4, <1>5, SumsCompare
<1> QED
  BY <1>6 DEF TotalsAreLowerBounds

LEMMA BooksCloseHolds == BInv => BooksClose
<1> SUFFICES ASSUME BInv, AtRest, ~failed PROVE BooksClose
  BY DEF BooksClose
<1> DEFINE AllEnded == {r \in Requests : Ended(r)}
           Untold == {c \in flying \cup ledger : Ended(c.request) /\ ~Told(c)}
           of == [c \in Untold |-> c.request]
<1>1. /\ SinkProofs!TypeOK /\ SinkProofs!Accounting /\ SinkProofs!Ordering
      /\ SinkProofs!NoneAstray /\ Joined
  BY DEF BInv, SinkProofs!SinkInv
<1>2. /\ writer # "dead" /\ queue = <<>> /\ dropped = 0 /\ lost = 0
      /\ next \notin Requests
  BY <1>1, SinkAssumption
     DEF AtRest, SinkProofs!Accounting, SinkProofs!EndOfChannel, SinkProofs!CountInHand,
         SinkProofs!Ordering, SinkProofs!EmptyHanded
<1>3. \A r \in Requests : Ended(r) <=> stage[r] = "recorded"
  <2>1. ASSUME NEW r \in Requests, Ended(r) PROVE stage[r] = "recorded"
    BY <1>1, <2>1, LedgerAgrees
       DEF AtRest, Joined, SinkProofs!Accounting, SinkProofs!EndOfChannel
  <2> QED
    BY <1>1, <2>1, LedgerAgrees DEF Joined
<1>4. SinkProofs!Counting = {}
  BY <1>1, <1>3, LedgerAgrees DEF SinkProofs!Counting, Joined
<1>5. reported \in Nat /\ missed = 0
  BY <1>1 DEF SinkProofs!TypeOK, SinkProofs!NoneAstray
<1>6. Cardinality(refused) = reported
  <2>1. Cardinality({}) = 0
    BY FS_EmptySet
  <2> QED
    BY <1>1, <1>2, <1>4, <1>5, <2>1, SinkAssumed
       DEF SinkProofs!Accounting, SinkProofs!EveryDropIsAccountedFor
<1>7. AllEnded = Listed \cup refused /\ Listed \cap refused = {}
  <2>1. refused \subseteq AllEnded
    BY <1>1, <1>3, <1>4, LedgerAgrees
       DEF SinkProofs!TypeOK, SinkProofs!Accounting, SinkProofs!RefusedByItself, Joined
  <2>2. \A r \in Listed : r \in AllEnded /\ r \notin refused
    BY ListedIsRecorded
  <2>3. \A r \in AllEnded : r \in refused \/ r \in Listed
    BY <1>1, <1>2, <1>3 DEF SinkProofs!NoneAstray, SinkProofs!OnTheWay, Listed
  <2> QED
    BY <2>1, <2>2, <2>3
<1>8. /\ IsFiniteSet(Listed) /\ IsFiniteSet(refused) /\ IsFiniteSet(OpenLines)
      /\ Cardinality(Listed) \in Nat /\ Cardinality(OpenLines) \in Nat
  <2>1. Listed \subseteq Requests /\ OpenLines \subseteq Requests /\ refused \subseteq Requests
    BY <1>1 DEF Listed, OpenLines, SinkProofs!TypeOK
  <2> QED
    BY <2>1, SinkAssumption, FS_Subset, FS_CardinalityType
<1>9. Cardinality(AllEnded) = Cardinality(Listed) + reported
  <2>1. Cardinality(Listed \cup refused)
          = Cardinality(Listed) + Cardinality(refused) - Cardinality(Listed \cap refused)
    BY <1>8, FS_Union
  <2>2. Cardinality(Listed \cap refused) = 0
    BY <1>7, FS_EmptySet
  <2> HIDE DEF AllEnded
  <2> QED
    BY <1>5, <1>6, <1>7, <1>8, <2>1, <2>2
<1>10. Cardinality(Untold) <= Cardinality(OpenLines) + reported
  <2>1. ASSUME NEW c \in Untold PROVE c.request \in OpenLines \cup refused
    <3>1. c.request \in Requests /\ Ended(c.request) /\ ~Told(c)
      BY LedgerAgrees
    <3>2. CASE c.request \in Listed \ OpenLines
      <4>1. event[c.request].revenue.known
        BY <3>2 DEF OpenLines
      <4>2. \E d \in flying \cup ledger :
               d.request = c.request /\ d.offer.amount = event[c.request].revenue.amount
        BY <3>1, <4>1, LedgerAgrees DEF RevenueIsHonest
      <4>3. event[c.request].revenue.amount = c.offer.amount
        BY <4>2, LedgerAgrees
      <4> QED
        BY <3>1, <3>2, <4>3 DEF Told
    <3> QED
      BY <1>7, <3>1, <3>2
  <2>2. of \in Injection(Untold, OpenLines \cup refused)
    BY <2>1, LedgerAgrees DEF Injection, IsInjective
  <2>3. /\ IsFiniteSet(OpenLines \cup refused)
        /\ Cardinality(OpenLines \cup refused)
              = Cardinality(OpenLines) + Cardinality(refused)
                  - Cardinality(OpenLines \cap refused)
    BY <1>8, FS_Union
  <2>4. OpenLines \cap refused = {}
    BY <1>7 DEF OpenLines
  <2>5. Cardinality(OpenLines \cap refused) = 0
    BY <2>4, FS_EmptySet
  <2> HIDE DEF of, Untold
  <2>6. Cardinality(Untold) <= Cardinality(OpenLines \cup refused)
    BY <2>2, <2>3, FS_Injection
  <2> QED
    BY <1>5, <1>6, <1>8, <2>3, <2>5, <2>6
<1> QED
  BY <1>9, <1>10 DEF BooksClose

\* The stream never claims more than was moved, and when nothing is on its way to it
\* any more it is short by no more than it says itself: each line with null revenue
\* and each event counted as dropped accounts for one transfer at most.
THEOREM BooksAreHonest == BooksSpec => []StreamIsHonest
<1>1. BInv => StreamIsHonest
  BY TotalsHold, BooksCloseHolds DEF StreamIsHonest
<1> QED
  BY <1>1, BooksInvariance, PTL
=============================================================================
