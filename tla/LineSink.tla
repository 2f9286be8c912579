------------------------------ MODULE LineSink ------------------------------
(***************************************************************************)
(* The telemetry line sink (LineSink and drain in obolus/src/telemetry.rs):*)
(* request handlers offer events to a bounded queue and never wait; one    *)
(* writer thread drains the queue into a stream of lines; what the queue   *)
(* refuses is counted, and the count is written as a line of its own.      *)
(*                                                                         *)
(* try_send, fetch_add and swap are each atomic and nothing makes two of   *)
(* them so, so each is a step of its own.  The words "write" and "panic"   *)
(* in Faults allow the stream to refuse a line and the writer thread to    *)
(* die in the attempt.                                                     *)
(***************************************************************************)
EXTENDS Naturals, Sequences, FiniteSets

CONSTANTS
    Events,    \* the events the handlers record, one each
    Capacity,  \* of the queue
    Faults,    \* what may go wrong with the stream
    None       \* nothing received

Timeout == "Timeout"
Disconnected == "Disconnected"

ASSUME EventsAssumption == IsFiniteSet(Events)
ASSUME CapacityAssumption == Capacity \in Nat \ {0}
ASSUME FaultsAssumption == Faults \subseteq {"write", "panic"}
ASSUME NoneAssumption ==
    /\ None \notin Events \cup {Timeout, Disconnected}
    /\ {Timeout, Disconnected} \cap Events = {}

VARIABLES
    stage,     \* how far each event's record() is
    queue,     \* the channel between record() and drain()
    open,      \* the sink still exists
    orphaned,  \* LineSink.orphaned: record() has found the writer gone
    dropped,   \* LineSink.dropped, the shared counter
    writer,    \* where the writer thread is
    next,      \* what recv_timeout returned
    lost,      \* the count the writer swapped out
    failed,    \* drain's failed: a write has failed and was warned about
    stream,    \* the lines written
    accepted,  \* history: the events the queue took, in order, each with the
               \* number of events refused before it
    refused,   \* history: the events it did not take
    reported,  \* history: the drops the stream tells of
    missed     \* history: the drops in lines that could not be written

senders == <<stage, orphaned, open>>
channel == <<queue, dropped>>
thread  == <<writer, next, lost, failed>>
output  == <<stream, reported, missed>>
history == <<accepted, refused>>
vars    == <<senders, channel, thread, output, history>>

EventLine(e) == [kind |-> "request", event |-> e, count |-> 0]
DroppedLine(n) == [kind |-> "dropped", event |-> None, count |-> n]

Lines == [kind : {"request", "dropped"}, event : Events \cup {None}, count : Nat]
-----------------------------------------------------------------------------
(***************************************************************************)
(* record(), on the request path.                                          *)
(***************************************************************************)

Taken(e) == [event |-> e, after |-> Cardinality(refused)]

\* Mutant: a full queue makes room by evicting its oldest event.
OfferEvicting(e) ==
    /\ stage[e] = "new"
    /\ open
    /\ writer # "dead"
    /\ queue' = IF Len(queue) < Capacity THEN Append(queue, e)
                ELSE Append(Tail(queue), e)
    /\ stage' = [stage EXCEPT ![e] = IF Len(queue) < Capacity THEN "recorded"
                                     ELSE "counting"]
    /\ accepted' = Append(accepted, Taken(e))
    /\ refused' = IF Len(queue) < Capacity THEN refused ELSE refused \cup {Head(queue)}
    /\ UNCHANGED <<orphaned, open, dropped, thread, output>>

\* Mutant: the channel is unbounded.
OfferUnbounded(e) ==
    /\ stage[e] = "new"
    /\ open
    /\ writer # "dead"
    /\ queue' = Append(queue, e)
    /\ accepted' = Append(accepted, Taken(e))
    /\ stage' = [stage EXCEPT ![e] = "recorded"]
    /\ UNCHANGED <<orphaned, open, dropped, thread, output, refused>>

\* try_send: taken, refused for want of room, or refused for want of a writer.
Offer(e) ==
    /\ stage[e] = "new"
    /\ open
    /\ \/ /\ writer # "dead"
          /\ Len(queue) < Capacity
          /\ queue' = Append(queue, e)
          /\ accepted' = Append(accepted, Taken(e))
          /\ stage' = [stage EXCEPT ![e] = "recorded"]
          /\ UNCHANGED <<refused, orphaned>>
       \/ /\ writer # "dead"
          /\ Len(queue) = Capacity
          /\ refused' = refused \cup {e}
          /\ stage' = [stage EXCEPT ![e] = "counting"]
          /\ UNCHANGED <<queue, accepted, orphaned>>
       \/ /\ writer = "dead"
          /\ orphaned' = TRUE
          /\ stage' = [stage EXCEPT ![e] = "recorded"]
          /\ UNCHANGED <<queue, accepted, refused>>
    /\ UNCHANGED <<open, dropped, thread, output>>

\* fetch_add, after a try_send that found the queue full.
Count(e) ==
    /\ stage[e] = "counting"
    /\ dropped' = dropped + 1
    /\ stage' = [stage EXCEPT ![e] = "recorded"]
    /\ UNCHANGED <<orphaned, open, queue, thread, output, history>>

\* The gateway, and its sink with it, is dropped: no record() is under way.
Close ==
    /\ open
    /\ \A e \in Events : stage[e] # "counting"
    /\ open' = FALSE
    /\ UNCHANGED <<stage, orphaned, channel, thread, output, history>>
-----------------------------------------------------------------------------
(***************************************************************************)
(* drain(), on the writer thread.                                          *)
(***************************************************************************)

\* recv_timeout: an event, an idle interval, or the end of the channel.
Receive ==
    /\ writer = "receiving"
    /\ writer' = "swapping"
    /\ \/ /\ queue # <<>>
          /\ next' = Head(queue)
          /\ queue' = Tail(queue)
       \/ /\ queue = <<>>
          /\ next' = IF open THEN Timeout ELSE Disconnected
          /\ UNCHANGED queue
    /\ UNCHANGED <<senders, dropped, lost, failed, output, history>>

\* Mutant: the count is read but not taken.
SwapWithoutReset ==
    /\ writer = "swapping"
    /\ lost' = dropped
    /\ writer' = IF dropped > 0 THEN "reporting" ELSE "handling"
    /\ UNCHANGED <<senders, channel, next, failed, output, history>>

\* Mutant: an idle wake goes straight back to the queue.
SwapForEventsOnly ==
    /\ writer = "swapping"
    /\ lost' = IF next = Timeout THEN 0 ELSE dropped
    /\ dropped' = IF next = Timeout THEN dropped ELSE 0
    /\ writer' = IF lost' > 0 THEN "reporting" ELSE "handling"
    /\ UNCHANGED <<senders, queue, next, failed, output, history>>

\* Mutant: the end of the channel ends the thread before it looks at the count.
SwapUnlessDisconnected ==
    /\ writer = "swapping"
    /\ lost' = IF next = Disconnected THEN 0 ELSE dropped
    /\ dropped' = IF next = Disconnected THEN dropped ELSE 0
    /\ writer' = IF lost' > 0 THEN "reporting" ELSE "handling"
    /\ UNCHANGED <<senders, queue, next, failed, output, history>>

\* swap(0), on every wake.
Swap ==
    /\ writer = "swapping"
    /\ lost' = dropped
    /\ dropped' = 0
    /\ writer' = IF dropped > 0 THEN "reporting" ELSE "handling"
    /\ UNCHANGED <<senders, queue, next, failed, output, history>>

\* The dropped line: written, or lost together with its count.
Report ==
    /\ writer = "reporting"
    /\ \/ /\ stream' = Append(stream, DroppedLine(lost))
          /\ reported' = reported + lost
          /\ UNCHANGED <<missed, failed>>
       \/ /\ "write" \in Faults
          /\ missed' = missed + lost
          /\ failed' = TRUE
          /\ UNCHANGED <<stream, reported>>
    /\ lost' = 0
    /\ writer' = "handling"
    /\ UNCHANGED <<senders, channel, next, history>>

\* The event's line.  A failed write is warned of once; drain goes on.
Write ==
    /\ writer = "handling"
    /\ next \in Events
    /\ \/ /\ stream' = Append(stream, EventLine(next))
          /\ UNCHANGED failed
       \/ /\ "write" \in Faults
          /\ failed' = TRUE
          /\ UNCHANGED stream
    /\ next' = None
    /\ writer' = "receiving"
    /\ UNCHANGED <<senders, channel, lost, reported, missed, history>>

\* Nothing to write: wait again, or return.
Loop ==
    /\ writer = "handling"
    /\ next \in {Timeout, Disconnected}
    /\ writer' = IF next = Timeout THEN "receiving" ELSE "returned"
    /\ next' = None
    /\ UNCHANGED <<senders, channel, lost, failed, output, history>>

\* The stream's writer panics: the thread unwinds and takes the queue with it.
Die ==
    /\ "panic" \in Faults
    /\ \/ writer = "reporting"
       \/ writer = "handling" /\ next \in Events
    /\ writer' = "dead"
    /\ queue' = <<>>
    /\ UNCHANGED <<senders, dropped, next, lost, failed, output, history>>
-----------------------------------------------------------------------------
Init ==
    /\ stage = [e \in Events |-> "new"]
    /\ queue = <<>>
    /\ open = TRUE
    /\ orphaned = FALSE
    /\ dropped = 0
    /\ writer = "receiving"
    /\ next = None
    /\ lost = 0
    /\ failed = FALSE
    /\ stream = <<>>
    /\ accepted = <<>>
    /\ refused = {}
    /\ reported = 0
    /\ missed = 0

Drain == Receive \/ Swap \/ Report \/ Write \/ Loop

Next ==
    \/ \E e \in Events : Offer(e) \/ Count(e)
    \/ Close
    \/ Drain
    \/ Die

\* A thread that is running keeps running; nobody need ever record or close.
Fairness == WF_vars(Drain) /\ \A e \in Events : WF_vars(Count(e))

Spec == Init /\ [][Next]_vars /\ Fairness
-----------------------------------------------------------------------------
(***************************************************************************)
(* Correctness.                                                            *)
(***************************************************************************)

\* Every variable keeps to its type.
TypeOK ==
    /\ stage \in [Events -> {"new", "counting", "recorded"}]
    /\ queue \in Seq(Events) /\ Len(queue) <= Capacity
    /\ open \in BOOLEAN /\ orphaned \in BOOLEAN /\ failed \in BOOLEAN
    /\ dropped \in Nat /\ lost \in Nat
    /\ writer \in {"receiving", "swapping", "reporting", "handling", "returned", "dead"}
    /\ next \in Events \cup {None, Timeout, Disconnected}
    /\ stream \in Seq(Lines)
    /\ accepted \in Seq([event : Events, after : Nat])
    /\ refused \subseteq Events
    /\ reported \in Nat /\ missed \in Nat

Counting == {e \in Events : stage[e] = "counting"}

\* Every refused event is in exactly one place: about to be counted, in the
\* shared counter, in the writer's hand, told of in the stream, or in a line the
\* stream refused.  Two drops are never counted as one, and none twice, however
\* fetch_add and swap interleave.
EveryDropIsAccountedFor ==
    Cardinality(refused) =
        Cardinality(Counting) + dropped + lost + reported + missed

\* What the accounting rests on: an event is refused only by its own record(),
\* the writer holds a count only between a swap and its line, and once the
\* channel has ended nobody offers or counts any more.
RefusedByItself == \A e \in refused : stage[e] # "new"

CountInHand == writer \in {"receiving", "swapping", "handling", "returned"} => lost = 0

EndOfChannel ==
    /\ ~open => Counting = {}
    /\ next = Disconnected => ~open /\ queue = <<>>
    /\ next = Disconnected /\ writer \in {"reporting", "handling"} => dropped = 0
    /\ writer = "returned" => ~open /\ queue = <<>> /\ dropped = 0

Accounting == EveryDropIsAccountedFor /\ RefusedByItself /\ CountInHand /\ EndOfChannel

\* The events of the first n lines, for each n: a recursive function, as the
\* provers know nothing of SelectSeq.
EventsUpTo(lines) ==
    LET first[n \in 0..Len(lines)] ==
            IF n = 0 THEN <<>>
            ELSE IF lines[n].kind = "request" THEN Append(first[n - 1], lines[n].event)
            ELSE first[n - 1]
    IN  first

EventsOf(lines) == EventsUpTo(lines)[Len(lines)]

TakenEvents == [i \in DOMAIN accepted |-> accepted[i].event]
InHand      == IF next \in Events THEN <<next>> ELSE <<>>

\* What the queue took comes out as it went in, one line each, in order and none
\* left out, with the dropped lines in between: no event overtakes another or is
\* evicted by it.  (A write that failed, or a dead thread, does lose events.)
StreamFollowsTheQueue ==
    ~failed /\ writer # "dead" =>
        TakenEvents = EventsOf(stream) \o InHand \o queue

\* What the order rests on: the writer waits for an event with an empty hand.
EmptyHanded == writer \in {"receiving", "returned"} => next = None

Ordering == StreamFollowsTheQueue /\ EmptyHanded

\* drain returns only when nothing is left for it: no event in the queue and no
\* drop that the stream was not offered, also after writes that failed.
NothingIsLeftBehind ==
    writer = "returned" =>
        /\ queue = <<>>
        /\ Cardinality(refused) = reported + missed

\* Loss is not silent: unless the stream itself fails, every drop is told of sooner
\* or later, whether or not another event ever follows and whoever else is refused.
EveryDropIsReported ==
    \A n \in 1..Cardinality(Events) :
        Cardinality(refused) >= n ~> reported >= n \/ failed \/ writer = "dead"

\* The drops the first lines of the stream tell of.
Told(lines) ==
    LET sum[n \in 0..Len(lines)] == IF n = 0 THEN 0 ELSE sum[n - 1] + lines[n].count
    IN  sum[Len(lines)]

\* telemetry.rs, LineSink: the count of the dropped is written before the next
\* event, so an event that was accepted after a drop comes after its count.
DropsPrecedeLaterEvents ==
    \A i \in DOMAIN accepted, j \in DOMAIN stream :
        stream[j].event = accepted[i].event =>
            Told(SubSeq(stream, 1, j)) >= accepted[i].after
=============================================================================
