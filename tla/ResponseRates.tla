---------------------------- MODULE ResponseRates ----------------------------
(***************************************************************************)
(* Rates of the responses of a Kea daemon (server/apps/kea/rps.go): every  *)
(* pull takes the counter of sent packets, stores the difference to the    *)
(* previous sample as an interval and computes the rates over two windows  *)
(* of time.  A pull takes steps: the command is forwarded, Kea reads its   *)
(* counter, the answer arrives later and gets the time of its arrival, the *)
(* rates are computed later still.  Kea restarts with a counter of 0 and   *)
(* its counter rolls over; the server restarts without its previous        *)
(* sample; calls and writes fail.  One daemon is modelled: daemons share   *)
(* nothing but the table.                                                  *)
(***************************************************************************)
EXTENDS Integers, FiniteSets, FiniteSetsExt

CONSTANTS
    Interval1, Interval2, \* the two windows, in units of time
    MaxInt,               \* the largest value of Kea's counter
    MaxTime,              \* bound on time
    MaxSent,              \* bound on the packets Kea sends in a unit of time
    MaxRestarts           \* bound on restarts

RatesAssumption == {Interval1, Interval2, MaxInt, MaxTime, MaxSent, MaxRestarts} \subseteq Nat

NoSample == [at |-> -1, value |-> 0]
NoRate == [responses |-> 0, duration |-> 0]
NoPull == [pc |-> "none", value |-> 0, read |-> 0]

VARIABLES
    now,       \* server time
    counter,   \* Kea's pkt4-ack-sent or pkt6-reply-sent
    restarts,  \* restarts so far
    previous,  \* RpsWorker.PreviousRps of the daemon
    pull,      \* the pull in progress: its step, Kea's answer, and when Kea read it
    intervals, \* its rows of the table of intervals
    rates,     \* its two rates, as stored
    asOf,      \* history: when the rates were last computed
    sent,      \* history, per unit of time: the packets truly sent in it
    slowest    \* history: the longest time from a reading to the time its sample got

keaVars == <<counter, sent>>
workerVars == <<previous, pull, intervals, rates, asOf, slowest>>
vars == <<now, restarts, keaVars, workerVars>>

Pulling(pc) == pull.pc = pc

Init ==
    /\ now = 0 /\ asOf = 0 /\ restarts = 0 /\ slowest = 0
    /\ counter \in {0, MaxInt}  \* it has run for a while or not
    /\ sent = [t \in 0..MaxTime |-> 0]
    /\ previous = NoSample
    /\ pull = NoPull
    /\ intervals = {}
    /\ rates = <<NoRate, NoRate>>

\* Time passes.
Tick ==
    /\ now < MaxTime
    /\ now' = now + 1
    /\ UNCHANGED <<restarts, keaVars, workerVars>>

\* Kea answers a client; its signed counter rolls over.
Respond ==
    /\ sent[now] < MaxSent
    /\ sent' = [sent EXCEPT ![now] = @ + 1]
    /\ counter' = IF counter = MaxInt THEN -MaxInt - 1 ELSE counter + 1
    /\ UNCHANGED <<now, restarts, workerVars>>

\* Kea restarts, or a user resets its statistics.
KeaRestarts ==
    /\ restarts < MaxRestarts
    /\ restarts' = restarts + 1
    /\ counter' = 0
    /\ UNCHANGED <<now, sent, workerVars>>

\* The Stork server restarts: its map of samples is empty.
ServerRestarts ==
    /\ restarts < MaxRestarts
    /\ restarts' = restarts + 1
    /\ previous' = NoSample /\ pull' = NoPull
    /\ UNCHANGED <<now, keaVars, intervals, rates, asOf, slowest>>

-----------------------------------------------------------------------------
(* A pull                                                                  *)

\* Rows without those that started more than the longer window ago.
AgeOffRpsIntervals == {i \in intervals : i.start >= now - Interval2}

\* Rows are aged off, or that fails, and the command is forwarded.  Pulls begin
\* at least a unit of time after the sample before.
getStatsFromApp ==
    /\ Pulling("none") /\ previous.at < now
    /\ intervals' \in {intervals, AgeOffRpsIntervals}
    /\ pull' = [NoPull EXCEPT !.pc = "asked"]
    /\ UNCHANGED <<now, restarts, keaVars, previous, rates, asOf, slowest>>

\* Kea reads its counter and answers.
KeaAnswers ==
    /\ Pulling("asked")
    /\ pull' = [pc |-> "answered", value |-> counter, read |-> now]
    /\ UNCHANGED <<now, restarts, keaVars, previous, intervals, rates, asOf, slowest>>

\* The call fails, or the answer is lost, an error or without samples.
CallFails ==
    /\ Pulling("asked") \/ Pulling("answered")
    /\ pull' = NoPull
    /\ UNCHANGED <<now, restarts, keaVars, previous, intervals, rates, asOf, slowest>>

\* A negative value is taken for 0.
Sampled(value) == IF value < 0 THEN 0 ELSE value

\* The responses since the previous sample: after a restart or a rollover
\* the value itself.
Responses(value) == IF value >= previous.value THEN value - previous.value ELSE value

Interval(value) ==
    [start |-> previous.at, duration |-> now - previous.at, responses |-> Responses(value)]

\* The sample gets the time of its arrival.  It is kept even if the row of its
\* interval is not stored, which ends the pull; a first sample has no interval.
updateDaemonRpsIntervals ==
    \E value \in {Sampled(pull.value)}, stored \in BOOLEAN :
        /\ Pulling("answered")
        /\ previous' = [at |-> now, value |-> value]
        /\ IF previous.at < 0
           THEN stored /\ UNCHANGED intervals
           ELSE intervals' = intervals \cup (IF stored THEN {Interval(value)} ELSE {})
        /\ pull' = IF stored THEN [NoPull EXCEPT !.pc = "sampled"] ELSE NoPull
        /\ slowest' = IF now - pull.read > slowest THEN now - pull.read ELSE slowest
        /\ UNCHANGED <<now, restarts, keaVars, rates, asOf>>

\* A bug: all rows of the daemon count.
AllRows(rows, window) == rows

\* The rows that start within the window which ends now.
Within(rows, window) == {i \in rows : i.start >= now - window /\ i.start <= now}

\* The sum of a function over a set.
Sum(f, S) == MapThenSumSet(LAMBDA x : f[x], S)

Total(rows) ==
    LET d == Sum([i \in rows |-> i.duration], rows)
        r == Sum([i \in rows |-> i.responses], rows)
    IN IF r <= 0 \/ d <= 0 THEN NoRate ELSE [responses |-> r, duration |-> d]

\* The rates are computed of the rows in the windows that end now, and stored,
\* or a statement fails.
updateKeaDaemonRpsStats ==
    /\ Pulling("sampled")
    /\ pull' = NoPull
    /\ \/ /\ rates' = <<Total(Within(intervals, Interval1)), Total(Within(intervals, Interval2))>>
          /\ asOf' = now
       \/ UNCHANGED <<rates, asOf>>
    /\ UNCHANGED <<now, restarts, keaVars, previous, intervals, slowest>>

Pull ==
    \/ getStatsFromApp \/ KeaAnswers \/ CallFails
    \/ updateDaemonRpsIntervals \/ updateKeaDaemonRpsStats

Next == Tick \/ Respond \/ KeaRestarts \/ ServerRestarts \/ Pull

Spec == Init /\ [][Next]_vars

-----------------------------------------------------------------------------
TypeOK ==
    /\ now \in 0..MaxTime /\ asOf \in 0..now /\ slowest \in 0..now /\ restarts \in 0..MaxRestarts
    /\ counter \in -MaxInt - 1..MaxInt
    /\ previous.at \in -1..now /\ previous.value \in 0..MaxInt
    /\ pull \in [pc : {"none", "asked", "answered", "sampled"},
                value : -MaxInt - 1..MaxInt, read : 0..now]
    /\ \A i \in intervals : i.start >= 0 /\ i.duration >= 0 /\ i.responses >= 0

SentBetween(a, b) == Sum(sent, {t \in a..b : t >= 0})

(***************************************************************************)
(* RatesAreTrue: the rates never count a response twice, whatever          *)
(* restarts, rolls over, fails or is late, and none from further outside   *)
(* of their window than the slowest answer took.  The responses of a rate  *)
(* are at most those Kea has sent from that long before the window began   *)
(* until it ended, and the rows of intervals do not overlap.  The time an  *)
(* answer takes cannot be left out: what Kea sends after it has read its   *)
(* counter and before the answer gets its time is counted in the interval  *)
(* that starts with that time.                                             *)
(***************************************************************************)
RatesAreTrue ==
    /\ rates[1].responses <= SentBetween(asOf - Interval1 - slowest, asOf)
    /\ rates[2].responses <= SentBetween(asOf - Interval2 - slowest, asOf)
    /\ \A i, j \in intervals : i.start < j.start => i.start + i.duration <= j.start
=============================================================================
