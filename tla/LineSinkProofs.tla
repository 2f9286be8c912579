--------------------------- MODULE LineSinkProofs ---------------------------
(***************************************************************************)
(* For every set of events and every queue: the line sink keeps its types, *)
(* loses count of no drop, writes what it took in the order it took it,    *)
(* and leaves nothing behind when it returns.                              *)
(***************************************************************************)
EXTENDS LineSink, FiniteSetTheorems, SequenceTheorems, TLAPS

Assumptions == EventsAssumption /\ CapacityAssumption /\ FaultsAssumption /\ NoneAssumption

LEMMA AssumptionsHold == Assumptions
BY EventsAssumption, CapacityAssumption, FaultsAssumption, NoneAssumption DEF Assumptions
-----------------------------------------------------------------------------
\* The state machine keeps its types, and with them the bound of the queue.
LEMMA TypeOKInductive == TypeOK /\ [Next]_vars => TypeOK'
<1> SUFFICES ASSUME TypeOK, [Next]_vars PROVE TypeOK'
  OBVIOUS
<1> USE AssumptionsHold DEF Assumptions, NoneAssumption, CapacityAssumption
<1>1. ASSUME NEW e \in Events, Offer(e) PROVE TypeOK'
  <2>1. Cardinality(refused) \in Nat
    BY FS_Subset, FS_CardinalityType DEF TypeOK, EventsAssumption
  <2>2. Taken(e) \in [event : Events, after : Nat]
    BY <2>1 DEF Taken
  <2>3. queue \in Seq(Events) /\ accepted \in Seq([event : Events, after : Nat])
    BY DEF TypeOK
  <2>4. /\ Append(queue, e) \in Seq(Events)
        /\ Len(Append(queue, e)) = Len(queue) + 1
        /\ Len(queue) \in Nat
        /\ Append(accepted, Taken(e)) \in Seq([event : Events, after : Nat])
    BY <2>2, <2>3
  <2>5. queue' \in Seq(Events) /\ Len(queue') <= Capacity
    <3>1. Len(queue) <= Capacity
      BY DEF TypeOK
    <3>2. CASE queue' = queue
      BY <2>3, <3>1, <3>2
    <3>3. CASE queue' = Append(queue, e) /\ Len(queue) < Capacity
      BY <2>4, <3>3
    <3> QED
      BY <1>1, <3>2, <3>3 DEF Offer
  <2>6. accepted' \in Seq([event : Events, after : Nat])
    BY <1>1, <2>3, <2>4 DEF Offer
  <2>7. orphaned' \in BOOLEAN /\ open' \in BOOLEAN /\ failed' \in BOOLEAN
    BY <1>1 DEF Offer, TypeOK, thread
  <2> QED
    BY <1>1, <2>5, <2>6, <2>7 DEF Offer, TypeOK, thread, output
<1>2. ASSUME NEW e \in Events, Count(e) PROVE TypeOK'
  BY <1>2 DEF Count, TypeOK, thread, output, history
<1>3. CASE Close
  BY <1>3 DEF Close, TypeOK, channel, thread, output, history
<1>4. CASE Receive
  <2>1. queue # <<>> => /\ Head(queue) \in Events
                        /\ Tail(queue) \in Seq(Events)
                        /\ Len(Tail(queue)) <= Capacity
    BY DEF TypeOK
  <2>2. queue' \in Seq(Events) /\ Len(queue') <= Capacity
    BY <1>4, <2>1 DEF Receive, TypeOK
  <2>3. next' \in Events \cup {None, Timeout, Disconnected}
    BY <1>4, <2>1 DEF Receive
  <2> QED
    BY <1>4, <2>2, <2>3 DEF Receive, TypeOK, senders, output, history
<1>5. CASE Swap
  BY <1>5 DEF Swap, TypeOK, senders, output, history
<1>6. CASE Report
  <2>1. DroppedLine(lost) \in Lines
    BY DEF TypeOK, DroppedLine, Lines
  <2>2. stream \in Seq(Lines) /\ Append(stream, DroppedLine(lost)) \in Seq(Lines)
    BY <2>1 DEF TypeOK
  <2>3. stream' \in Seq(Lines)
    BY <1>6, <2>2 DEF Report
  <2>4. reported' \in Nat /\ missed' \in Nat /\ lost' \in Nat
    BY <1>6 DEF Report, TypeOK
  <2>5. failed' \in BOOLEAN
    BY <1>6 DEF Report, TypeOK
  <2> QED
    BY <1>6, <2>3, <2>4, <2>5 DEF Report, TypeOK, senders, channel, history
<1>7. CASE Write
  <2>1. next \in Events => EventLine(next) \in Lines
    BY DEF EventLine, Lines
  <2>2. /\ stream \in Seq(Lines)
        /\ next \in Events => Append(stream, EventLine(next)) \in Seq(Lines)
    BY <2>1 DEF TypeOK
  <2>3. stream' \in Seq(Lines)
    BY <1>7, <2>2 DEF Write
  <2>4. failed' \in BOOLEAN
    BY <1>7 DEF Write, TypeOK
  <2> QED
    BY <1>7, <2>3, <2>4 DEF Write, TypeOK, senders, channel, history
<1>8. CASE Loop
  BY <1>8 DEF Loop, TypeOK, senders, channel, output, history
<1>9. CASE Die
  <2>1. queue' \in Seq(Events) /\ Len(queue') <= Capacity
    BY <1>9 DEF Die
  <2> QED
    BY <1>9, <2>1 DEF Die, TypeOK, senders, output, history
<1>10. CASE UNCHANGED vars
  BY <1>10 DEF TypeOK, vars, senders, channel, thread, output, history
<1> QED
  BY <1>1, <1>2, <1>3, <1>4, <1>5, <1>6, <1>7, <1>8, <1>9, <1>10 DEF Next, Drain

LEMMA TypesInit == Init => TypeOK
<1> SUFFICES ASSUME Init PROVE TypeOK
  OBVIOUS
<1>1. queue \in Seq(Events) /\ Len(queue) = 0 /\ stream \in Seq(Lines)
  BY DEF Init
<1>2. accepted \in Seq([event : Events, after : Nat])
  BY DEF Init
<1>3. Len(queue) <= Capacity
  BY <1>1, AssumptionsHold DEF Assumptions, CapacityAssumption
<1> QED
  BY <1>1, <1>2, <1>3 DEF Init, TypeOK

\* Every variable keeps to its type, and the queue to its capacity.
THEOREM TypeCorrect == Spec => []TypeOK
BY TypesInit, TypeOKInductive, PTL DEF Spec
-----------------------------------------------------------------------------
(***************************************************************************)
(* The accounting of drops.                                                *)
(***************************************************************************)

\* There are finitely many refused events, and so finitely many still counting.
LEMMA Countable ==
    ASSUME TypeOK
    PROVE  /\ IsFiniteSet(refused) /\ Cardinality(refused) \in Nat
           /\ IsFiniteSet(Counting) /\ Cardinality(Counting) \in Nat
<1>1. refused \subseteq Events /\ Counting \subseteq Events
  BY DEF TypeOK, Counting
<1> QED
  BY <1>1, EventsAssumption, FS_Subset, FS_CardinalityType

\* Once the sink is gone the channel stays ended, and the writer takes the last
\* count on its way out.
LEMMA EndOfChannelInductive == TypeOK /\ EndOfChannel /\ [Next]_vars => EndOfChannel'
<1> SUFFICES ASSUME TypeOK, EndOfChannel, [Next]_vars PROVE EndOfChannel'
  OBVIOUS
<1> USE NoneAssumption DEF NoneAssumption, Timeout, Disconnected
<1>1. ASSUME NEW e \in Events, Offer(e) PROVE EndOfChannel'
  BY <1>1 DEF Offer, EndOfChannel, thread
<1>2. ASSUME NEW e \in Events, Count(e) PROVE EndOfChannel'
  <2>1. open
    BY <1>2 DEF Count, EndOfChannel, Counting
  <2> QED
    BY <1>2, <2>1 DEF Count, EndOfChannel, thread
<1>3. CASE Close
  <2>1. Counting' = {}
    BY <1>3 DEF Close, Counting
  <2> QED
    BY <1>3, <2>1 DEF Close, EndOfChannel, channel, thread
<1>4. ASSUME UNCHANGED senders PROVE Counting' = Counting /\ open' = open
  BY <1>4 DEF senders, Counting
<1>5. CASE Receive
  <2>1. queue # <<>> => Head(queue) \in Events
    BY DEF TypeOK
  <2> QED
    BY <1>4, <1>5, <2>1 DEF Receive, EndOfChannel
<1>6. CASE Swap
  BY <1>4, <1>6 DEF Swap, EndOfChannel
<1>7. CASE Report
  BY <1>4, <1>7 DEF Report, EndOfChannel, channel
<1>8. CASE Write
  BY <1>4, <1>8 DEF Write, EndOfChannel, channel
<1>9. CASE Loop
  BY <1>4, <1>9 DEF Loop, EndOfChannel, channel
<1>10. CASE Die
  BY <1>4, <1>10 DEF Die, EndOfChannel
<1>11. CASE UNCHANGED vars
  BY <1>4, <1>11 DEF EndOfChannel, vars, channel, thread
<1> QED
  BY <1>1, <1>2, <1>3, <1>5, <1>6, <1>7, <1>8, <1>9, <1>10, <1>11 DEF Next, Drain

\* No interleaving of try_send, fetch_add and swap loses or doubles a drop.
LEMMA AccountingInductive == TypeOK /\ Accounting /\ [Next]_vars => Accounting'
<1> SUFFICES ASSUME TypeOK, Accounting, [Next]_vars PROVE Accounting'
  OBVIOUS
<1> DEFINE Balance == EveryDropIsAccountedFor /\ RefusedByItself /\ CountInHand
<1>0. EndOfChannel'
  BY EndOfChannelInductive DEF Accounting
<1> SUFFICES Balance'
  BY <1>0 DEF Accounting
<1>n. /\ dropped \in Nat /\ lost \in Nat /\ reported \in Nat /\ missed \in Nat
      /\ Cardinality(refused) \in Nat /\ Cardinality(Counting) \in Nat
  BY Countable DEF TypeOK
<1>b. /\ Cardinality(refused) = Cardinality(Counting) + dropped + lost + reported + missed
      /\ RefusedByItself /\ CountInHand
  BY DEF Accounting, EveryDropIsAccountedFor
<1>1. ASSUME NEW e \in Events, Offer(e) PROVE Balance'
  <2>1. UNCHANGED <<dropped, writer, lost, reported, missed>>
    BY <1>1 DEF Offer, thread, output
  <2>2. CASE UNCHANGED refused /\ stage' = [stage EXCEPT ![e] = "recorded"]
    <3>1. Counting' = Counting
      BY <1>1, <2>2 DEF Offer, Counting, TypeOK
    <3>2. RefusedByItself'
      BY <1>b, <2>2 DEF RefusedByItself, TypeOK
    <3> QED
      BY <1>b, <2>1, <2>2, <3>1, <3>2 DEF EveryDropIsAccountedFor, CountInHand
  <2>3. CASE refused' = refused \cup {e} /\ stage' = [stage EXCEPT ![e] = "counting"]
    <3>1. e \notin refused /\ e \notin Counting
      BY <1>1, <1>b DEF Offer, RefusedByItself, Counting
    <3>2. Counting' = Counting \cup {e}
      BY <2>3 DEF Counting, TypeOK
    <3>3. /\ Cardinality(refused') = Cardinality(refused) + 1
          /\ Cardinality(Counting') = Cardinality(Counting) + 1
      BY <2>3, <3>1, <3>2, Countable, FS_AddElement
    <3>4. EveryDropIsAccountedFor'
      BY <1>n, <1>b, <2>1, <3>3 DEF EveryDropIsAccountedFor
    <3>5. RefusedByItself'
      BY <1>b, <2>3 DEF RefusedByItself, TypeOK
    <3> QED
      BY <1>b, <2>1, <3>4, <3>5 DEF CountInHand
  <2> QED
    BY <1>1, <2>2, <2>3 DEF Offer
<1>2. ASSUME NEW e \in Events, Count(e) PROVE Balance'
  <2>1. UNCHANGED <<refused, writer, lost, reported, missed>> /\ dropped' = dropped + 1
    BY <1>2 DEF Count, thread, output, history
  <2>2. e \in Counting /\ Counting' = Counting \ {e}
    BY <1>2 DEF Count, Counting, TypeOK
  <2>3. Cardinality(Counting') = Cardinality(Counting) - 1
    BY <2>2, Countable, FS_RemoveElement
  <2>4. EveryDropIsAccountedFor'
    BY <1>n, <1>b, <2>1, <2>3 DEF EveryDropIsAccountedFor
  <2>5. RefusedByItself'
    BY <1>2, <1>b, <2>1 DEF Count, RefusedByItself, TypeOK
  <2> QED
    BY <1>b, <2>1, <2>4, <2>5 DEF CountInHand
<1>3. ASSUME UNCHANGED <<stage, refused>>,
             dropped' + lost' + reported' + missed' = dropped + lost + reported + missed,
             CountInHand',
             dropped' \in Nat, lost' \in Nat, reported' \in Nat, missed' \in Nat
      PROVE  Balance'
  <2>1. Counting' = Counting /\ refused' = refused
    BY <1>3 DEF Counting
  <2>2. EveryDropIsAccountedFor'
    <3>1. /\ Cardinality(refused') = Cardinality(refused)
          /\ Cardinality(Counting') = Cardinality(Counting)
      BY <2>1
    <3>2. Cardinality(refused') =
              Cardinality(Counting') + dropped' + lost' + reported' + missed'
      <4>1. Cardinality(refused) = Cardinality(Counting) + (dropped + lost + reported + missed)
        BY <1>n, <1>b
      <4>2. dropped' \in Nat /\ lost' \in Nat /\ reported' \in Nat /\ missed' \in Nat
        BY <1>3
      <4>3. Cardinality(refused') =
                Cardinality(Counting') + (dropped' + lost' + reported' + missed')
        BY <1>3, <3>1, <4>1
      <4> QED
        BY <1>n, <3>1, <4>2, <4>3
    <3> QED
      BY <3>2 DEF EveryDropIsAccountedFor
  <2>3. RefusedByItself'
    BY <1>b, <1>3 DEF RefusedByItself
  <2> QED
    BY <1>3, <2>2, <2>3
<1>4. CASE Close
  BY <1>n, <1>b, <1>3, <1>4 DEF Close, CountInHand, channel, thread, output, history
<1>5. CASE Receive
  BY <1>n, <1>b, <1>3, <1>5 DEF Receive, CountInHand, senders, output, history
<1>6. CASE Swap
  BY <1>n, <1>b, <1>3, <1>6 DEF Swap, CountInHand, senders, output, history
<1>7. CASE Report
  <2>1. /\ UNCHANGED <<stage, refused, dropped>>
        /\ lost' = 0 /\ writer' = "handling"
    BY <1>7 DEF Report, senders, channel, history
  <2>2. /\ reported' + missed' = reported + missed + lost
        /\ reported' \in Nat /\ missed' \in Nat
    <3>1. CASE reported' = reported + lost /\ missed' = missed
      BY <1>n, <3>1
    <3>2. CASE missed' = missed + lost /\ reported' = reported
      BY <1>n, <3>2
    <3> QED
      BY <1>7, <3>1, <3>2 DEF Report
  <2>3. dropped' + lost' + reported' + missed' = dropped + lost + reported + missed
    <3>1. dropped + 0 + reported' + missed' = dropped + (reported' + missed')
      BY <1>n, <2>2
    <3>2. dropped + lost + reported + missed = dropped + (reported + missed + lost)
      BY <1>n
    <3>3. dropped' + lost' = dropped + 0
      BY <2>1
    <3> QED
      BY <2>2, <3>1, <3>2, <3>3
  <2>4. CountInHand'
    BY <2>1 DEF CountInHand
  <2> QED
    BY <1>n, <1>3, <2>1, <2>2, <2>3, <2>4
<1>8. CASE Write
  BY <1>n, <1>b, <1>3, <1>8 DEF Write, CountInHand, senders, channel, history
<1>9. CASE Loop
  BY <1>n, <1>b, <1>3, <1>9 DEF Loop, CountInHand, senders, channel, output, history
<1>10. CASE Die
  BY <1>n, <1>b, <1>3, <1>10 DEF Die, CountInHand, senders, output, history
<1>11. CASE UNCHANGED vars
  BY <1>n, <1>b, <1>3, <1>11 DEF CountInHand, vars, senders, channel, thread, output, history
<1> QED
  BY <1>1, <1>2, <1>4, <1>5, <1>6, <1>7, <1>8, <1>9, <1>10, <1>11 DEF Next, Drain

LEMMA AccountingInit == Init => Accounting
<1> SUFFICES ASSUME Init PROVE Accounting
  OBVIOUS
<1>1. Counting = {} /\ refused = {}
  BY DEF Init, Counting
<1>2. Cardinality(Counting) = 0 /\ Cardinality(refused) = 0
  BY <1>1, FS_EmptySet
<1>3. EveryDropIsAccountedFor
  BY <1>2 DEF Init, EveryDropIsAccountedFor
<1>4. RefusedByItself /\ CountInHand
  BY <1>1 DEF Init, RefusedByItself, CountInHand
<1>5. EndOfChannel
  BY <1>1, NoneAssumption DEF Init, EndOfChannel, NoneAssumption, Disconnected
<1> QED
  BY <1>3, <1>4, <1>5 DEF Accounting

\* The invariant of the two theorems below.
LEMMA AccountingInvariant == Spec => [](TypeOK /\ Accounting)
BY AccountingInit, TypeCorrect, AccountingInductive, PTL DEF Spec

\* Drops are neither lost nor counted twice, whatever the number of handlers.
THEOREM DropsAreAccountedFor == Spec => []EveryDropIsAccountedFor
BY AccountingInvariant, PTL DEF Accounting

\* drain returns with an empty queue and every drop offered to the stream.
THEOREM DrainLeavesNothing == Spec => []NothingIsLeftBehind
<1>1. ASSUME TypeOK, Accounting PROVE NothingIsLeftBehind
  <2> SUFFICES ASSUME writer = "returned"
               PROVE  queue = <<>> /\ Cardinality(refused) = reported + missed
    BY DEF NothingIsLeftBehind
  <2>1. queue = <<>> /\ Counting = {} /\ dropped = 0 /\ lost = 0
    BY <1>1 DEF Accounting, EndOfChannel, CountInHand
  <2>2. Cardinality(Counting) = 0
    BY <2>1, FS_EmptySet
  <2> QED
    BY <1>1, <2>1, <2>2 DEF Accounting, EveryDropIsAccountedFor, TypeOK
<1> QED
  BY <1>1, AccountingInvariant, PTL
-----------------------------------------------------------------------------
(***************************************************************************)
(* The order of the lines.  EventsUpTo is a recursive function; that it    *)
(* satisfies its equation is shown by taking, where it did not, the least  *)
(* number of lines for which it fails.                                     *)
(***************************************************************************)

LEMMA LeastOf ==
    ASSUME NEW S, S \subseteq Nat, S # {}
    PROVE  \E x \in S : \A y \in S : x <= y
<1>1. PICK x \in S : \A y \in S : <<y, x>> \notin OpToRel(<, Nat)
  BY NatLessThanWellFounded, WFMin
<1>2. ASSUME NEW y \in S PROVE x <= y
  <2>1. <<y, x>> \notin {ss \in Nat \X Nat : ss[1] < ss[2]}
    BY <1>1 DEF OpToRel
  <2> QED
    BY <2>1
<1> QED
  BY <1>2

\* Induction up to a bound, with the property as a set.
LEMMA UpToBound ==
    ASSUME NEW N \in Nat, NEW S, 0 \in S, \A n \in 1..N : n - 1 \in S => n \in S
    PROVE  0..N \subseteq S
<1> DEFINE rest == {n \in 0..N : n \notin S}
<1>1. SUFFICES ASSUME rest # {} PROVE FALSE
  OBVIOUS
<1>2. PICK n \in rest : \A m \in rest : n <= m
  <2>1. rest \subseteq Nat
    OBVIOUS
  <2> HIDE DEF rest
  <2> QED
    BY <1>1, <2>1, LeastOf
<1>3. n \in 1..N
  OBVIOUS
<1>4. n - 1 \in 0..N /\ n - 1 \notin rest
  BY <1>2, <1>3
<1> QED
  BY <1>2, <1>3, <1>4

\* A function that is given by its value at 0 and a step exists.
IsDefinedBy(v0, step, N, V) ==
    \E f \in [0..N -> V] : f[0] = v0 /\ \A n \in 1..N : f[n] = step[<<n, f[n - 1]>>]

LEMMA RecursionExists ==
    ASSUME NEW V, NEW v0 \in V, NEW N \in Nat, NEW step \in [(1..N) \X V -> V]
    PROVE  IsDefinedBy(v0, step, N, V)
<1> DEFINE Fits(f, m) == /\ f \in [0..m -> V] /\ f[0] = v0
                         /\ \A n \in 1..m : f[n] = step[<<n, f[n - 1]>>]
           S == {m \in 0..N : \E f : Fits(f, m)}
<1>1. 0 \in S
  <2>1. Fits([n \in 0..0 |-> v0], 0)
    OBVIOUS
  <2> HIDE DEF Fits
  <2> QED
    BY <2>1
<1>2. ASSUME NEW m \in 1..N, m - 1 \in S PROVE m \in S
  <2>1. PICK f : Fits(f, m - 1)
    BY <1>2
  <2> DEFINE h == [n \in 0..m |-> IF n = m THEN step[<<m, f[m - 1]>>] ELSE f[n]]
  <2>2. f[m - 1] \in V
    BY <2>1
  <2>3. step[<<m, f[m - 1]>>] \in V
    BY <2>2
  <2>4. h \in [0..m -> V]
    <3>1. \A n \in 0..m : n # m => n \in 0..m-1
      OBVIOUS
    <3> QED
      BY <2>1, <2>3, <3>1
  <2>5. h[0] = v0
    BY <2>1
  <2>6. ASSUME NEW n \in 1..m PROVE h[n] = step[<<n, h[n - 1]>>]
    <3>1. h[n - 1] = f[n - 1]
      BY <2>6
    <3>2. CASE n = m
      <4>1. h[m] = step[<<m, f[m - 1]>>]
        OBVIOUS
      <4> HIDE DEF h
      <4> QED
        BY <3>1, <3>2, <4>1
    <3>3. CASE n # m
      <4>1. n \in 1..m-1 /\ h[n] = f[n]
        BY <3>3
      <4>2. f[n] = step[<<n, f[n - 1]>>]
        BY <2>1, <4>1
      <4> HIDE DEF h
      <4> QED
        BY <3>1, <4>1, <4>2
    <3> QED
      BY <3>2, <3>3
  <2>7. Fits(h, m)
    BY <2>4, <2>5, <2>6
  <2> HIDE DEF h, Fits
  <2> QED
    BY <2>7
<1>3. N \in S
  <2> HIDE DEF S
  <2> QED
    BY <1>1, <1>2, UpToBound
<1> QED
  BY <1>3 DEF IsDefinedBy

\* The recursive function is one, and satisfies its equation.
LEMMA EventsUpToDef ==
    ASSUME NEW lines \in Seq(Lines)
    PROVE  /\ EventsUpTo(lines) \in [0..Len(lines) -> Seq(Events \cup {None})]
           /\ EventsUpTo(lines)[0] = <<>>
           /\ \A n \in 1..Len(lines) :
                  EventsUpTo(lines)[n] =
                      IF lines[n].kind = "request"
                      THEN Append(EventsUpTo(lines)[n - 1], lines[n].event)
                      ELSE EventsUpTo(lines)[n - 1]
<1> DEFINE N == Len(lines)
           V == Seq(Events \cup {None})
           step == [x \in (1..N) \X V |->
                       IF lines[x[1]].kind = "request"
                       THEN Append(x[2], lines[x[1]].event) ELSE x[2]]
           Sat(f) == f = [n \in 0..N |->
                            IF n = 0 THEN <<>>
                            ELSE IF lines[n].kind = "request"
                            THEN Append(f[n - 1], lines[n].event) ELSE f[n - 1]]
<1>1. N \in Nat /\ <<>> \in V
  OBVIOUS
<1>2. step \in [(1..N) \X V -> V]
  <2>1. ASSUME NEW n \in 1..N, NEW v \in V
        PROVE  (IF lines[n].kind = "request" THEN Append(v, lines[n].event) ELSE v) \in V
    <3>1. lines[n] \in Lines
      OBVIOUS
    <3>2. lines[n].event \in Events \cup {None}
      BY <3>1 DEF Lines
    <3> QED
      BY <3>2
  <2> QED
    BY <2>1
<1>3. PICK f \in [0..N -> V] :
              f[0] = <<>> /\ \A n \in 1..N : f[n] = step[<<n, f[n - 1]>>]
  <2> HIDE DEF step, V, N
  <2>1. IsDefinedBy(<<>>, step, N, V)
    BY <1>1, <1>2, RecursionExists
  <2> QED
    BY <2>1 DEF IsDefinedBy
<1>4. ASSUME NEW n \in 1..N
      PROVE  step[<<n, f[n - 1]>>] = IF lines[n].kind = "request"
                                     THEN Append(f[n - 1], lines[n].event) ELSE f[n - 1]
  <2>1. n - 1 \in 0..N
    BY <1>1
  <2>2. f[n - 1] \in V
    BY <1>3, <2>1
  <2> QED
    BY <2>2
<1>5. Sat(f)
  <2> DEFINE rhs == [n \in 0..N |-> IF n = 0 THEN <<>>
                                    ELSE IF lines[n].kind = "request"
                                    THEN Append(f[n - 1], lines[n].event) ELSE f[n - 1]]
  <2>1. ASSUME NEW n \in 0..N PROVE f[n] = rhs[n]
    <3> HIDE DEF step, N, V
    <3>1. n = 0 \/ n \in 1..N
      BY <1>1
    <3>2. n = 0 => rhs[n] = <<>> /\ f[n] = <<>>
      BY <1>3
    <3>3. n \in 1..N => f[n] = rhs[n]
      BY <1>1, <1>3, <1>4
    <3> QED
      BY <3>1, <3>2, <3>3
  <2>2. f = [n \in 0..N |-> f[n]]
    BY <1>3
  <2> QED
    BY <2>1, <2>2
<1>6. Sat(EventsUpTo(lines))
  <2>1. EventsUpTo(lines) = CHOOSE g : Sat(g)
    BY DEF EventsUpTo
  <2> HIDE DEF Sat
  <2> QED
    BY <1>5, <2>1
<1> DEFINE g == EventsUpTo(lines)
<1>7. /\ g[0] = <<>>
      /\ \A n \in 1..N : g[n] = IF lines[n].kind = "request"
                                THEN Append(g[n - 1], lines[n].event) ELSE g[n - 1]
      /\ g = [n \in 0..N |-> g[n]]
  <2> HIDE DEF g
  <2>1. g = [n \in 0..N |-> IF n = 0 THEN <<>>
                            ELSE IF lines[n].kind = "request"
                            THEN Append(g[n - 1], lines[n].event) ELSE g[n - 1]]
    BY <1>6 DEF g
  <2> HIDE DEF N
  <2>2. g[0] = <<>> /\ g = [n \in 0..N |-> g[n]]
    BY <1>1, <2>1
  <2>3. ASSUME NEW n \in 1..N
        PROVE  g[n] = IF lines[n].kind = "request"
                      THEN Append(g[n - 1], lines[n].event) ELSE g[n - 1]
    <3>1. n \in 0..N /\ n # 0
      BY <1>1
    <3> QED
      BY <2>1, <3>1
  <2> QED
    BY <2>2, <2>3
<1>8. 0..N \subseteq {n \in 0..N : g[n] \in V}
  <2> HIDE DEF g
  <2>1. ASSUME NEW n \in 1..N, g[n - 1] \in V PROVE g[n] \in V
    <3>1. lines[n] \in Lines
      OBVIOUS
    <3>2. lines[n].event \in Events \cup {None}
      BY <3>1 DEF Lines
    <3>3. g[n] = IF lines[n].kind = "request"
                 THEN Append(g[n - 1], lines[n].event) ELSE g[n - 1]
      BY <1>7
    <3> QED
      BY <2>1, <3>2, <3>3
  <2> DEFINE S == {n \in 0..N : g[n] \in V}
  <2>2. 0 \in S
    <3>1. 0 \in 0..N
      BY <1>1
    <3> QED
      BY <1>1, <1>7, <3>1
  <2>3. \A n \in 1..N : n - 1 \in S => n \in S
    BY <2>1
  <2> HIDE DEF S
  <2>4. 0..N \subseteq S
    BY <1>1, <2>2, <2>3, UpToBound
  <2> QED
    BY <2>4 DEF S
<1> QED
  BY <1>7, <1>8

\* One more line: an event's adds its event, a dropped line adds nothing.
LEMMA EventsOfAppend ==
    ASSUME NEW lines \in Seq(Lines), NEW line \in Lines
    PROVE  /\ EventsOf(lines) \in Seq(Events \cup {None})
           /\ EventsOf(Append(lines, line)) =
                  IF line.kind = "request" THEN Append(EventsOf(lines), line.event)
                  ELSE EventsOf(lines)
<1> DEFINE more == Append(lines, line)
           N == Len(lines)
           f == EventsUpTo(lines)
           g == EventsUpTo(more)
           S == {n \in 0..N : f[n] = g[n]}
<1>1. /\ more \in Seq(Lines) /\ Len(more) = N + 1 /\ N \in Nat
      /\ more[N + 1] = line
      /\ \A n \in 1..N : more[n] = lines[n]
  OBVIOUS
<1> HIDE DEF more, N
<1>2. 0 \in S
  BY <1>1, EventsUpToDef
<1>3. ASSUME NEW n \in 1..N, n - 1 \in S PROVE n \in S
  <2>1. f[n - 1] = g[n - 1] /\ n \in 1..Len(more)
    BY <1>1, <1>3
  <2>2. f[n] = IF lines[n].kind = "request" THEN Append(f[n - 1], lines[n].event)
               ELSE f[n - 1]
    BY EventsUpToDef DEF N
  <2>3. g[n] = IF more[n].kind = "request" THEN Append(g[n - 1], more[n].event)
               ELSE g[n - 1]
    BY <1>1, <2>1, EventsUpToDef
  <2>4. f[n] = g[n]
    BY <1>1, <2>1, <2>2, <2>3
  <2> QED
    BY <1>1, <2>4
<1>4. N \in S
  <2> HIDE DEF S
  <2>1. 0..N \subseteq S
    BY <1>1, <1>2, <1>3, UpToBound
  <2> QED
    BY <1>1, <2>1
<1>5. g[N + 1] = IF line.kind = "request" THEN Append(g[N], line.event) ELSE g[N]
  <2>1. N + 1 \in 1..Len(more) /\ (N + 1) - 1 = N
    BY <1>1
  <2>2. g[N + 1] = IF more[N + 1].kind = "request"
                   THEN Append(g[(N + 1) - 1], more[N + 1].event) ELSE g[(N + 1) - 1]
    BY <1>1, <2>1, EventsUpToDef
  <2> QED
    BY <1>1, <2>1, <2>2
<1>6. EventsOf(lines) = f[N] /\ EventsOf(more) = g[N + 1]
  BY <1>1 DEF EventsOf, N
<1>7. f[N] \in Seq(Events \cup {None})
  <2>1. f \in [0..N -> Seq(Events \cup {None})]
    BY EventsUpToDef DEF N
  <2>2. N \in 0..N
    BY <1>1
  <2> HIDE DEF f
  <2> QED
    BY <2>1, <2>2
<1> QED
  BY <1>4, <1>5, <1>6, <1>7 DEF more

LEMMA EventsOfNothing == EventsOf(<<>>) = <<>>
<1>1. <<>> \in Seq(Lines) /\ Len(<<>>) = 0
  OBVIOUS
<1> QED
  BY <1>1, EventsUpToDef DEF EventsOf

\* The facts of concatenation the steps need: an element handed from one sequence
\* to the next is neither lost nor moved past another.
LEMMA HandedOver ==
    ASSUME NEW S, NEW a \in Seq(S), NEW b \in Seq(S), NEW c \in Seq(S), NEW x \in S
    PROVE  /\ Append(a \o b \o c, x) = a \o b \o Append(c, x)
           /\ Append(a, x) \o <<>> \o c = a \o <<x>> \o c
           /\ a \o <<>> \o c = a \o c
           /\ c # <<>> => a \o <<>> \o c = a \o <<Head(c)>> \o Tail(c)
<1>1. /\ <<x>> \in Seq(S) /\ <<>> \in Seq(S)
      /\ a \o b \in Seq(S) /\ a \o b \o c \in Seq(S)
  BY ConcatProperties
<1>2. Append(a \o b \o c, x) = a \o b \o Append(c, x)
  <2>1. Append(a \o b \o c, x) = (a \o b \o c) \o <<x>>
    BY <1>1, AppendIsConcat
  <2>2. Append(c, x) = c \o <<x>>
    BY AppendIsConcat
  <2>3. ((a \o b) \o c) \o <<x>> = (a \o b) \o (c \o <<x>>)
    BY <1>1, ConcatAssociative
  <2> QED
    BY <2>1, <2>2, <2>3
<1>3. a \o <<>> = a
  BY ConcatEmptySeq
<1>4. Append(a, x) = a \o <<x>> /\ Append(a, x) \in Seq(S)
  BY AppendIsConcat, AppendProperties
<1>5. Append(a, x) \o <<>> = Append(a, x)
  BY <1>4, ConcatEmptySeq
<1>6. ASSUME c # <<>> PROVE a \o c = a \o <<Head(c)>> \o Tail(c)
  <2>1. Head(c) \in S /\ Tail(c) \in Seq(S) /\ <<Head(c)>> \in Seq(S)
    BY <1>6, HeadTailProperties
  <2>2. c = <<Head(c)>> \o Tail(c)
    BY <1>6
  <2>3. (a \o <<Head(c)>>) \o Tail(c) = a \o (<<Head(c)>> \o Tail(c))
    BY <2>1, ConcatAssociative
  <2> QED
    BY <2>2, <2>3
<1> QED
  BY <1>2, <1>3, <1>4, <1>5, <1>6

\* One more event taken.
LEMMA TakenAppend ==
    ASSUME TypeOK, NEW e \in Events, accepted' = Append(accepted, Taken(e))
    PROVE  TakenEvents' = Append(TakenEvents, e)
<1> DEFINE n == Len(accepted)
<1>1. accepted \in Seq([event : Events, after : Nat]) /\ n \in Nat
  BY DEF TypeOK
<1>2. Taken(e) \in [event : Events, after : Nat] /\ Taken(e).event = e
  <2>1. Cardinality(refused) \in Nat
    BY EventsAssumption, FS_Subset, FS_CardinalityType DEF TypeOK, EventsAssumption
  <2> QED
    BY <2>1 DEF Taken
<1>3. /\ accepted' \in Seq([event : Events, after : Nat])
      /\ Len(accepted') = n + 1
      /\ \A i \in 1..n : accepted'[i] = accepted[i]
      /\ accepted'[n + 1] = Taken(e)
  BY <1>1, <1>2, AppendProperties
<1>4. DOMAIN accepted = 1..n /\ DOMAIN accepted' = 1..n+1
  BY <1>1, <1>3
<1>5. TakenEvents \in Seq(Events) /\ TakenEvents' \in Seq(Events)
  <2>1. \A i \in 1..n : accepted[i] \in [event : Events, after : Nat]
    BY <1>1, ElementOfSeq
  <2>2. \A i \in 1..n+1 : accepted'[i] \in [event : Events, after : Nat]
    BY <1>3, ElementOfSeq
  <2>3. TakenEvents = [i \in 1..n |-> accepted[i].event]
    BY <1>4 DEF TakenEvents
  <2>4. TakenEvents' = [i \in 1..n+1 |-> accepted'[i].event]
    BY <1>4 DEF TakenEvents
  <2>5. n + 1 \in Nat
    BY <1>1
  <2> HIDE DEF n
  <2>6. TakenEvents \in [1..n -> Events] /\ TakenEvents' \in [1..n+1 -> Events]
    BY <2>1, <2>2, <2>3, <2>4
  <2> QED
    BY <1>1, <2>5, <2>6, SeqDef
<1>6. Len(TakenEvents) = n /\ Len(TakenEvents') = n + 1
  BY <1>1, <1>4 DEF TakenEvents
<1>7. ASSUME NEW i \in 1..n+1 PROVE TakenEvents'[i] = Append(TakenEvents, e)[i]
  <2>1. TakenEvents'[i] = accepted'[i].event
    BY <1>4 DEF TakenEvents
  <2>2. i \in 1..n => TakenEvents[i] = accepted[i].event
    BY <1>4 DEF TakenEvents
  <2> QED
    BY <1>1, <1>2, <1>3, <1>5, <1>6, <2>1, <2>2, AppendProperties
<1> QED
  BY <1>5, <1>6, <1>7, AppendProperties, SeqEqual

\* No step of a handler or of the writer moves an event past another.
LEMMA OrderingInductive == TypeOK /\ Ordering /\ [Next]_vars => Ordering'
<1> SUFFICES ASSUME TypeOK, Ordering, [Next]_vars PROVE Ordering'
  OBVIOUS
<1> USE NoneAssumption DEF NoneAssumption, Timeout, Disconnected
<1> DEFINE U == Events \cup {None}
<1>a. /\ queue \in Seq(U) /\ InHand \in Seq(U) /\ EventsOf(stream) \in Seq(U)
      /\ stream \in Seq(Lines) /\ Events \subseteq U
  <2>1. queue \in Seq(U)
    BY SeqMonotonic DEF TypeOK
  <2>2. InHand \in Seq(U)
    <3>1. next \in Events => <<next>> \in Seq(U)
      OBVIOUS
    <3> HIDE DEF U
    <3>2. <<>> \in Seq(U)
      BY EmptySeq
    <3> QED
      BY <3>1, <3>2 DEF InHand
  <2>3. DroppedLine(0) \in Lines
    BY DEF DroppedLine, Lines
  <2>4. EventsOf(stream) \in Seq(U)
    BY <2>3, EventsOfAppend DEF TypeOK
  <2> QED
    BY <2>1, <2>2, <2>4 DEF TypeOK
<1>b. ~failed /\ writer # "dead" => TakenEvents = EventsOf(stream) \o InHand \o queue
  BY DEF Ordering, StreamFollowsTheQueue
<1>c. EmptyHanded
  BY DEF Ordering
<1> HIDE DEF U
<1>d. ASSUME UNCHANGED <<stream, next, queue, accepted, failed>>,
             writer' = "dead" <=> writer = "dead"
      PROVE  StreamFollowsTheQueue'
  BY <1>b, <1>d DEF StreamFollowsTheQueue, TakenEvents, InHand
<1>1. ASSUME NEW e \in Events, Offer(e) PROVE Ordering'
  <2>1. UNCHANGED <<stream, next, failed, writer>>
    BY <1>1 DEF Offer, thread, output
  <2>2. CASE UNCHANGED <<queue, accepted>>
    BY <1>c, <1>d, <2>1, <2>2 DEF Ordering, EmptyHanded
  <2>3. CASE queue' = Append(queue, e) /\ accepted' = Append(accepted, Taken(e))
    <3>1. TakenEvents' = Append(TakenEvents, e)
      BY <2>3, TakenAppend
    <3>2. Append(EventsOf(stream) \o InHand \o queue, e) =
              EventsOf(stream) \o InHand \o Append(queue, e)
      <4>1. e \in U
        BY <1>a
      <4> QED
        BY ONLY <1>a, <4>1, HandedOver
    <3>3. InHand' = InHand /\ EventsOf(stream)' = EventsOf(stream)
      BY <2>1 DEF InHand
    <3>4. StreamFollowsTheQueue'
      BY <1>b, <2>1, <2>3, <3>1, <3>2, <3>3 DEF StreamFollowsTheQueue
    <3> QED
      BY <1>c, <2>1, <3>4 DEF Ordering, EmptyHanded
  <2> QED
    BY <1>1, <2>2, <2>3 DEF Offer
<1>2. ASSUME NEW e \in Events, Count(e) PROVE Ordering'
  BY <1>2, <1>c, <1>d DEF Count, Ordering, EmptyHanded, thread, output, history
<1>3. CASE Close
  BY <1>3, <1>c, <1>d DEF Close, Ordering, EmptyHanded, channel, thread, output, history
<1>4. CASE Receive
  <2>1. UNCHANGED <<stream, accepted, failed>> /\ writer = "receiving" /\ writer' = "swapping"
    BY <1>4 DEF Receive, output, history
  <2>2. InHand = <<>> /\ TakenEvents' = TakenEvents /\ EventsOf(stream)' = EventsOf(stream)
    BY <1>c, <2>1 DEF EmptyHanded, InHand, TakenEvents
  <2>3. EventsOf(stream) \o InHand' \o queue' = EventsOf(stream) \o InHand \o queue
    <3>1. CASE queue = <<>>
      <4>1. InHand' = <<>> /\ queue' = queue
        BY <1>4, <3>1 DEF Receive, InHand
      <4> QED
        BY <2>2, <4>1
    <3>2. CASE queue # <<>>
      <4>1. Head(queue) \in Events /\ next' = Head(queue) /\ queue' = Tail(queue)
        BY <1>4, <3>2 DEF Receive, TypeOK
      <4>2. InHand' = <<Head(queue)>>
        BY <4>1 DEF InHand
      <4>3. EventsOf(stream) \o <<>> \o queue =
                EventsOf(stream) \o <<Head(queue)>> \o Tail(queue)
        BY <1>a, <3>2, <4>1, HandedOver
      <4> QED
        BY <2>2, <4>1, <4>2, <4>3
    <3> QED
      BY <3>1, <3>2
  <2>4. StreamFollowsTheQueue'
    BY <1>b, <2>1, <2>2, <2>3 DEF StreamFollowsTheQueue
  <2> QED
    BY <2>1, <2>4 DEF Ordering, EmptyHanded
<1>5. CASE Swap
  BY <1>5, <1>d DEF Swap, Ordering, EmptyHanded, output, history
<1>6. CASE Report
  <2>1. UNCHANGED <<next, queue, accepted>> /\ writer = "reporting" /\ writer' = "handling"
    BY <1>6 DEF Report, channel, history
  <2>2. CASE failed'
    BY <2>1, <2>2 DEF Ordering, StreamFollowsTheQueue, EmptyHanded
  <2>3. CASE stream' = Append(stream, DroppedLine(lost)) /\ UNCHANGED failed
    <3>1. DroppedLine(lost) \in Lines /\ DroppedLine(lost).kind # "request"
      BY DEF TypeOK, DroppedLine, Lines
    <3>2. EventsOf(stream') = EventsOf(stream)
      BY <1>a, <2>3, <3>1, EventsOfAppend
    <3>3. InHand' = InHand /\ TakenEvents' = TakenEvents
      BY <2>1 DEF InHand, TakenEvents
    <3> QED
      BY <1>b, <2>1, <2>3, <3>2, <3>3 DEF Ordering, StreamFollowsTheQueue, EmptyHanded
  <2> QED
    BY <1>6, <2>2, <2>3 DEF Report
<1>7. CASE Write
  <2>1. /\ UNCHANGED <<queue, accepted>> /\ next \in Events /\ next' = None
        /\ writer = "handling" /\ writer' = "receiving"
    BY <1>7 DEF Write, channel, history
  <2>2. CASE failed'
    BY <2>1, <2>2 DEF Ordering, StreamFollowsTheQueue, EmptyHanded
  <2>3. CASE stream' = Append(stream, EventLine(next)) /\ UNCHANGED failed
    <3>1. EventLine(next) \in Lines /\ EventLine(next).kind = "request"
          /\ EventLine(next).event = next
      BY <2>1 DEF EventLine, Lines
    <3>2. EventsOf(stream') = Append(EventsOf(stream), next)
      BY <1>a, <2>3, <3>1, EventsOfAppend
    <3>3. InHand = <<next>> /\ InHand' = <<>> /\ TakenEvents' = TakenEvents
      BY <2>1 DEF InHand, TakenEvents
    <3>4. Append(EventsOf(stream), next) \o <<>> \o queue = EventsOf(stream) \o <<next>> \o queue
      <4>1. next \in U
        BY <1>a, <2>1
      <4>2. \A a, c \in Seq(U), x \in U : Append(a, x) \o <<>> \o c = a \o <<x>> \o c
        BY HandedOver
      <4> QED
        BY <1>a, <4>1, <4>2
    <3> QED
      BY <1>b, <2>1, <2>3, <3>2, <3>3, <3>4 DEF Ordering, StreamFollowsTheQueue, EmptyHanded
  <2> QED
    BY <1>7, <2>2, <2>3 DEF Write
<1>8. CASE Loop
  <2>1. UNCHANGED <<stream, queue, accepted, failed>> /\ writer = "handling"
        /\ writer' # "dead" /\ InHand' = InHand /\ next' = None
    BY <1>8 DEF Loop, channel, output, history, InHand
  <2> QED
    BY <1>b, <2>1 DEF Ordering, StreamFollowsTheQueue, EmptyHanded, TakenEvents
<1>9. CASE Die
  BY <1>9 DEF Die, Ordering, StreamFollowsTheQueue, EmptyHanded
<1>10. CASE UNCHANGED vars
  BY <1>10, <1>c, <1>d DEF Ordering, EmptyHanded, vars, channel, thread, output, history
<1> QED
  BY <1>1, <1>2, <1>3, <1>4, <1>5, <1>6, <1>7, <1>8, <1>9, <1>10 DEF Next, Drain

LEMMA OrderingInit == Init => Ordering
<1> SUFFICES ASSUME Init PROVE Ordering
  OBVIOUS
<1>1. EventsOf(stream) = <<>> /\ queue = <<>>
  BY EventsOfNothing DEF Init
<1>2. InHand = <<>>
  BY NoneAssumption DEF Init, InHand, NoneAssumption
<1>3. TakenEvents = <<>>
  BY DEF Init, TakenEvents
<1> QED
  BY <1>1, <1>2, <1>3 DEF Init, Ordering, StreamFollowsTheQueue, EmptyHanded

\* Unless a write fails or the thread dies, the stream, the writer's hand and the
\* queue together hold exactly what the queue took, in the order it was taken.
THEOREM StreamOrder == Spec => []StreamFollowsTheQueue
<1>1. Ordering => StreamFollowsTheQueue
  BY DEF Ordering
<1> QED
  BY <1>1, OrderingInit, TypeCorrect, OrderingInductive, PTL DEF Spec
-----------------------------------------------------------------------------
(***************************************************************************)
(* No event is lost sight of: what was recorded and not refused is in the  *)
(* queue, in the writer's hand or in the stream.                           *)
(***************************************************************************)

OnTheWay(e) ==
    \/ e = next
    \/ \E i \in DOMAIN queue : queue[i] = e
    \/ \E i \in DOMAIN stream : stream[i].event = e

NoneAstray ==
    /\ \A e \in Events : OnTheWay(e) => stage[e] = "recorded" /\ e \notin refused
    /\ ~failed /\ writer # "dead" =>
           \A e \in Events : stage[e] = "recorded" /\ e \notin refused => OnTheWay(e)
    /\ Counting \subseteq refused
    /\ missed > 0 => failed

LEMMA AppendPlaces ==
    ASSUME NEW S, NEW seq \in Seq(S), NEW x \in S
    PROVE  /\ \A i \in DOMAIN seq : i \in DOMAIN Append(seq, x) /\ Append(seq, x)[i] = seq[i]
           /\ \E i \in DOMAIN Append(seq, x) : Append(seq, x)[i] = x
           /\ \A i \in DOMAIN Append(seq, x) :
                  \/ Append(seq, x)[i] = x
                  \/ i \in DOMAIN seq /\ Append(seq, x)[i] = seq[i]
<1>1. /\ Len(seq) \in Nat /\ DOMAIN seq = 1..Len(seq)
      /\ DOMAIN Append(seq, x) = 1..Len(seq) + 1
      /\ \A i \in 1..Len(seq) : Append(seq, x)[i] = seq[i]
      /\ Append(seq, x)[Len(seq) + 1] = x
  OBVIOUS
<1>2. Len(seq) + 1 \in 1..Len(seq) + 1
  BY <1>1
<1> QED
  BY <1>1, <1>2

LEMMA AstrayInductive ==
    TypeOK /\ EmptyHanded /\ RefusedByItself /\ NoneAstray /\ [Next]_vars => NoneAstray'
<1> SUFFICES ASSUME TypeOK, EmptyHanded, RefusedByItself, NoneAstray, [Next]_vars
             PROVE  NoneAstray'
  OBVIOUS
<1> USE NoneAssumption DEF NoneAssumption
<1>a. ASSUME UNCHANGED <<stage, refused, missed>>, failed => failed',
             writer = "dead" => writer' = "dead",
             \A e \in Events : OnTheWay(e)' => OnTheWay(e),
             failed' \/ writer' = "dead" \/ \A e \in Events : OnTheWay(e) => OnTheWay(e)'
      PROVE  NoneAstray'
  BY <1>a DEF NoneAstray, Counting, TypeOK
<1>1. ASSUME NEW e \in Events, Offer(e) PROVE NoneAstray'
  <2>1. \A d \in Events \ {e} : stage'[d] = stage[d]
    BY <1>1 DEF Offer, TypeOK
  <2>2. ~OnTheWay(e) /\ e \notin refused /\ stage[e] = "new"
    BY <1>1 DEF Offer, NoneAstray, RefusedByItself
  <2>3. UNCHANGED <<next, stream, failed, missed, writer>>
    BY <1>1 DEF Offer, thread, output
  <2>4. CASE /\ writer # "dead" /\ queue' = Append(queue, e) /\ UNCHANGED refused
             /\ stage' = [stage EXCEPT ![e] = "recorded"]
    <3>1. stage'[e] = "recorded"
      BY <2>4 DEF TypeOK
    <3>2. \A d : (\E i \in DOMAIN queue' : queue'[i] = d) <=>
                 d = e \/ \E i \in DOMAIN queue : queue[i] = d
      <4>1. queue \in Seq(Events)
        BY DEF TypeOK
      <4> QED
        BY <1>1, <2>4, <4>1, AppendPlaces
    <3>3. \A d : OnTheWay(d)' <=> d = e \/ OnTheWay(d)
      BY <2>3, <3>2 DEF OnTheWay
    <3> QED
      BY <2>1, <2>2, <2>3, <2>4, <3>1, <3>3 DEF NoneAstray, Counting
  <2>5. CASE /\ writer # "dead" /\ refused' = refused \cup {e} /\ UNCHANGED queue
             /\ stage' = [stage EXCEPT ![e] = "counting"]
    <3>1. stage'[e] = "counting"
      BY <2>5 DEF TypeOK
    <3>2. \A d : OnTheWay(d)' <=> OnTheWay(d)
      BY <2>3, <2>5 DEF OnTheWay
    <3> QED
      BY <2>1, <2>2, <2>3, <2>5, <3>1, <3>2 DEF NoneAstray, Counting
  <2>6. CASE /\ writer = "dead" /\ UNCHANGED <<queue, refused>>
             /\ stage' = [stage EXCEPT ![e] = "recorded"]
    <3>1. stage'[e] = "recorded"
      BY <2>6 DEF TypeOK
    <3>2. \A d : OnTheWay(d)' <=> OnTheWay(d)
      BY <2>3, <2>6 DEF OnTheWay
    <3> QED
      BY <2>1, <2>2, <2>3, <2>6, <3>1, <3>2 DEF NoneAstray, Counting
  <2> QED
    BY <1>1, <2>4, <2>5, <2>6 DEF Offer
<1>2. ASSUME NEW e \in Events, Count(e) PROVE NoneAstray'
  <2>1. /\ \A d \in Events \ {e} : stage'[d] = stage[d]
        /\ stage[e] = "counting" /\ stage'[e] = "recorded" /\ e \in refused
    BY <1>2 DEF Count, TypeOK, NoneAstray, Counting
  <2>2. UNCHANGED <<next, queue, stream, failed, missed, writer, refused>>
    BY <1>2 DEF Count, thread, output, history
  <2>3. \A d : OnTheWay(d)' <=> OnTheWay(d)
    BY <2>2 DEF OnTheWay
  <2> QED
    BY <2>1, <2>2, <2>3 DEF NoneAstray, Counting
<1>3. CASE Close \/ Swap \/ UNCHANGED vars
  <2>1. UNCHANGED <<stage, queue, next, stream, failed, missed, refused>>
    BY <1>3 DEF Close, Swap, vars, senders, channel, thread, output, history
  <2>2. writer = "dead" => writer' = "dead"
    BY <1>3 DEF Close, Swap, vars, thread
  <2> QED
    BY <1>a, <2>1, <2>2 DEF OnTheWay
<1>4. CASE Receive
  <2>1. UNCHANGED <<stage, stream, failed, missed, refused>> /\ writer # "dead"
    BY <1>4 DEF Receive, senders, output, history
  <2>2. next = None
    BY <1>4 DEF Receive, EmptyHanded
  <2>3. CASE queue # <<>> /\ next' = Head(queue) /\ queue' = Tail(queue)
    <3>1. \A d : (\E i \in DOMAIN queue : queue[i] = d) <=>
                 d = Head(queue) \/ \E i \in DOMAIN Tail(queue) : Tail(queue)[i] = d
      <4>1. queue \in Seq(Events) /\ Len(queue) \in Nat /\ Len(queue) > 0
        BY <2>3 DEF TypeOK
      <4>2. /\ Head(queue) = queue[1] /\ 1 \in DOMAIN queue
            /\ Len(Tail(queue)) = Len(queue) - 1
            /\ \A i \in 1..Len(queue) - 1 : Tail(queue)[i] = queue[i + 1]
            /\ DOMAIN queue = 1..Len(queue) /\ DOMAIN Tail(queue) = 1..Len(queue) - 1
        BY <4>1
      <4>3. ASSUME NEW i \in DOMAIN queue, i # 1
            PROVE  i - 1 \in DOMAIN Tail(queue) /\ Tail(queue)[i - 1] = queue[i]
        BY <4>1, <4>2, <4>3
      <4>4. ASSUME NEW i \in DOMAIN Tail(queue)
            PROVE  i + 1 \in DOMAIN queue /\ Tail(queue)[i] = queue[i + 1]
        BY <4>1, <4>2
      <4>5. ASSUME NEW d, NEW i \in DOMAIN queue, queue[i] = d
            PROVE  d = Head(queue) \/ \E j \in DOMAIN Tail(queue) : Tail(queue)[j] = d
        <5>1. CASE i = 1
          BY <4>2, <4>5, <5>1
        <5>2. CASE i # 1
          BY <4>3, <4>5, <5>2
        <5> QED
          BY <5>1, <5>2
      <4>6. ASSUME NEW d, d = Head(queue) PROVE \E i \in DOMAIN queue : queue[i] = d
        BY <4>2, <4>6
      <4>7. ASSUME NEW d, NEW i \in DOMAIN Tail(queue), Tail(queue)[i] = d
            PROVE  \E j \in DOMAIN queue : queue[j] = d
        BY <4>4, <4>7
      <4> QED
        BY <4>5, <4>6, <4>7
    <3>2. \A e \in Events : OnTheWay(e)' <=> OnTheWay(e)
      BY <2>1, <2>2, <2>3, <3>1 DEF OnTheWay
    <3> QED
      BY <1>a, <2>1, <3>2
  <2>4. CASE next' \in {Timeout, Disconnected} /\ UNCHANGED queue
    <3>1. \A e \in Events : OnTheWay(e)' <=> OnTheWay(e)
      BY <2>1, <2>2, <2>4 DEF OnTheWay
    <3> QED
      BY <1>a, <2>1, <3>1
  <2> QED
    BY <1>4, <2>3, <2>4 DEF Receive
<1>5. CASE Report
  <2>1. UNCHANGED <<stage, queue, next, refused>> /\ writer # "dead"
    BY <1>5 DEF Report, senders, channel, history
  <2>2. CASE stream' = Append(stream, DroppedLine(lost)) /\ UNCHANGED <<missed, failed>>
    <3>1. \A e \in Events : (\E i \in DOMAIN stream' : stream'[i].event = e) <=>
                            \E i \in DOMAIN stream : stream[i].event = e
      <4>1. DroppedLine(lost).event = None
        BY DEF DroppedLine
      <4>2. stream \in Seq(Lines) /\ DroppedLine(lost) \in Lines
        BY DEF TypeOK, DroppedLine, Lines
      <4> QED
        BY <2>2, <4>1, <4>2, AppendPlaces
    <3>2. \A e \in Events : OnTheWay(e)' <=> OnTheWay(e)
      BY <2>1, <3>1 DEF OnTheWay
    <3> QED
      BY <1>a, <2>1, <2>2, <3>2
  <2>3. CASE failed' = TRUE /\ UNCHANGED stream
    BY <2>1, <2>3 DEF NoneAstray, OnTheWay, Counting
  <2> QED
    BY <1>5, <2>2, <2>3 DEF Report
<1>6. CASE Write
  <2>1. UNCHANGED <<stage, queue, refused, missed>> /\ writer # "dead" /\ next' = None
    BY <1>6 DEF Write, senders, channel, history
  <2>2. CASE stream' = Append(stream, EventLine(next)) /\ UNCHANGED failed
    <3>1. \A e : (\E i \in DOMAIN stream' : stream'[i].event = e) <=>
                 e = next \/ \E i \in DOMAIN stream : stream[i].event = e
      <4>1. EventLine(next).event = next
        BY DEF EventLine
      <4>2. stream \in Seq(Lines) /\ EventLine(next) \in Lines
        BY <1>6 DEF Write, TypeOK, EventLine, Lines
      <4> QED
        BY <2>2, <4>1, <4>2, AppendPlaces
    <3>2. \A e \in Events : OnTheWay(e)' <=> OnTheWay(e)
      BY <2>1, <3>1 DEF OnTheWay
    <3> QED
      BY <1>a, <2>1, <2>2, <3>2
  <2>3. CASE failed' = TRUE /\ UNCHANGED stream
    BY <2>1, <2>3 DEF NoneAstray, OnTheWay, Counting
  <2> QED
    BY <1>6, <2>2, <2>3 DEF Write
<1>7. CASE Loop
  <2>1. /\ UNCHANGED <<stage, queue, stream, failed, missed, refused>> /\ writer # "dead"
        /\ next \in {Timeout, Disconnected} /\ next' = None
    BY <1>7 DEF Loop, senders, channel, output, history
  <2> QED
    BY <1>a, <2>1 DEF OnTheWay
<1>8. CASE Die
  <2>1. /\ UNCHANGED <<stage, next, stream, failed, missed, refused>>
        /\ queue' = <<>> /\ writer' = "dead"
    BY <1>8 DEF Die, senders, output, history
  <2>2. DOMAIN queue' = {}
    BY <2>1
  <2>3. \A e : OnTheWay(e)' => OnTheWay(e)
    BY <2>1, <2>2 DEF OnTheWay
  <2> QED
    BY <1>a, <2>1, <2>3
<1> QED
  BY <1>1, <1>2, <1>3, <1>4, <1>5, <1>6, <1>7, <1>8 DEF Next, Drain

\* All that is kept, in a form that a system with a sink in it can use.
SinkInv == TypeOK /\ Accounting /\ Ordering /\ NoneAstray

LEMMA SinkInit == Init => SinkInv
<1>1. Init => NoneAstray
  <2> SUFFICES ASSUME Init PROVE NoneAstray
    OBVIOUS
  <2>1. Counting = {} /\ \A e \in Events : ~OnTheWay(e)
    BY NoneAssumption DEF Init, Counting, OnTheWay, NoneAssumption
  <2> QED
    BY <2>1 DEF Init, NoneAstray
<1> QED
  BY <1>1, TypesInit, AccountingInit, OrderingInit DEF SinkInv

LEMMA SinkNext == SinkInv /\ [Next]_vars => SinkInv'
BY TypeOKInductive, AccountingInductive, OrderingInductive, AstrayInductive
   DEF SinkInv, Accounting, Ordering
=============================================================================
