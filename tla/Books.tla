-------------------------------- MODULE Books --------------------------------
(***************************************************************************)
(* The toll booth and its line sink together: what an operator can tell    *)
(* from the stream of lines about the money that moved.                    *)
(*                                                                         *)
(* A handler ends, its Recorder is dropped, and the drop hands the event   *)
(* to the sink (gateway.rs completion, telemetry.rs Recorder and record).  *)
(* Between the end of one handler and its record() others run, and the     *)
(* writer drains all the while.                                            *)
(***************************************************************************)
EXTENDS Gateway, FiniteSets

CONSTANTS
    Heard,     \* the facilitator's answers that occur: a bound on Answers
    Capacity,  \* of the sink's queue
    Faults     \* what may go wrong with the stream

ASSUME HeardAssumption == Incomplete \in Heard /\ Heard \subseteq Answers
ASSUME SinkAssumption ==
    /\ IsFiniteSet(Requests)
    /\ Capacity \in Nat \ {0}
    /\ Faults \subseteq {"write", "panic"}
    /\ Requests \cap {None, "Timeout", "Disconnected"} = {}
    /\ None \notin {"Timeout", "Disconnected"}

VARIABLES
    stage, queue, open, orphaned, dropped, writer, next, lost, failed, stream,
    accepted, refused, reported, missed

Sink == INSTANCE LineSink WITH Events <- Requests

booth == <<handler, clocks, world>>
sink  == <<stage, queue, open, orphaned, dropped, writer, next, lost, failed, stream,
           accepted, refused, reported, missed>>
all   == <<booth, sink>>
-----------------------------------------------------------------------------
\* A request is accepted as long as there is a gateway; one that was is handled.
HandleRequest(r) ==
    /\ pc[r] = "idle" => open
    /\ Handle(r)
    /\ answer'[r] \in Heard \cup {None}
    /\ UNCHANGED sink

Outside ==
    /\ \/ \E c \in flying : Land(c) \/ Fall(c)
       \/ Reprice
       \/ Tick
    /\ UNCHANGED sink

\* Mutant: a recorder whose handler was cancelled records nothing.
RecordUnlessCancelled(r) ==
    /\ pc[r] = "done"
    /\ event[r].outcome # "Abandoned"
    /\ Sink!Offer(r)
    /\ UNCHANGED booth

\* Recorder::drop: the event of a request that has ended goes to the sink.
Record(r) ==
    /\ pc[r] = "done"
    /\ Sink!Offer(r)
    /\ UNCHANGED booth

CountDrop(r) == Sink!Count(r) /\ UNCHANGED booth

\* The gateway goes, and its sink with it, when no handler holds it any more.
Close ==
    /\ \A r \in Requests : pc[r] = "idle" \/ stage[r] = "recorded"
    /\ Sink!Close
    /\ UNCHANGED booth

Drain == Sink!Drain /\ UNCHANGED booth

Die == Sink!Die /\ UNCHANGED booth

BooksInit == Init /\ Sink!Init

BooksNext ==
    \/ \E r \in Requests : HandleRequest(r) \/ Record(r) \/ CountDrop(r)
    \/ Outside
    \/ Close
    \/ Drain
    \/ Die

\* What Gateway and LineSink assume, and that a handler that ended drops its
\* recorder.  Clients, facilitator, origin and operator owe nothing.
BooksFairness ==
    /\ WF_all(Tick /\ UNCHANGED sink)
    /\ WF_all(Drain)
    /\ \A r \in Requests :
        /\ WF_all(Expire(r) /\ UNCHANGED sink)
        /\ WF_all(Record(r))
        /\ WF_all(CountDrop(r))

BooksSpec == BooksInit /\ [][BooksNext]_all /\ BooksFairness
-----------------------------------------------------------------------------
(***************************************************************************)
(* Correctness.  A line is read as its event: the stream is all there is.  *)
(***************************************************************************)

Listed == {r \in Requests : \E i \in DOMAIN stream : stream[i].event = r}

\* The lines whose revenue is null: a settlement nobody told the gateway about.
OpenLines == {r \in Listed : ~event[r].revenue.known}

\* A line says of c what c moved, or would.
Told(c) ==
    /\ c.request \in Listed \ OpenLines
    /\ event[c.request].revenue.amount = c.offer.amount

OneOf(set) == CHOOSE x \in set : TRUE

\* The sum of what f gives to the members of each subset of its domain, and of all.
\* A recursive function, as the provers know nothing of folds.
SumUpTo(f) ==
    LET sum[set \in SUBSET DOMAIN f] ==
            IF set = {} THEN 0
            ELSE f[OneOf(set)] + sum[set \ {OneOf(set)}]
    IN  sum

SumOf(f) == SumUpTo(f)[DOMAIN f]

\* docs/telemetry.md: totals summed over the stream are lower bounds.  At no moment,
\* whatever was dropped, is still queued or could not be written, does the stream
\* claim more revenue than the transfers that have happened.
TotalsAreLowerBounds ==
    SumOf([r \in Listed \ OpenLines |-> event[r].revenue.amount])
        <= SumOf([c \in ledger |-> c.offer.amount])

\* Nothing is on its way to the stream: the writer has gone for good, or it waits
\* for an event, and no event and no count is left that it could be given.
AtRest ==
    \/ writer = "returned"
    \/ /\ writer = "receiving" /\ queue = <<>> /\ dropped = 0
       /\ \A r \in Requests : Ended(r) => stage[r] = "recorded"

\* The books close.  At rest, if every write succeeded, each request that ended has
\* a line of its own or is one of those counted as dropped; and the transfers of these
\* requests that happened, or still may, are told by their lines but for as many as
\* there are lines with null revenue and dropped events: what an operator has to look up on chain is
\* bounded by what the stream itself admits to.
BooksClose ==
    AtRest /\ ~failed =>
        /\ Cardinality({r \in Requests : Ended(r)}) = Cardinality(Listed) + reported
        /\ Cardinality({c \in flying \cup ledger : Ended(c.request) /\ ~Told(c)})
               <= Cardinality(OpenLines) + reported

\* What an operator adds up from the lines alone is true: never too much at any
\* moment, and too little only by what the lines themselves admit to.
StreamIsHonest == TotalsAreLowerBounds /\ BooksClose

\* Every request that arrives is told of sooner or later, by a line or in a count of
\* the dropped, however its client, the facilitator and the origin behave, unless the
\* stream itself fails: the handler's timers, the drop of its recorder and the
\* writer's idle wake-ups, one after the other.
EveryRequestIsTold ==
    \A r \in Requests :
        pc[r] # "idle" ~>
            \/ r \in Listed
            \/ r \in refused /\ reported = Cardinality(refused)
            \/ failed
            \/ writer = "dead"
=============================================================================
