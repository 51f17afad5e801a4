------------------------------ MODULE Reporter ------------------------------
(***************************************************************************)
(* src/atfield/reporter.py: kills and rules gone inert are reported to the  *)
(* webhooks that clients registered. The tick loop queues, one delivery     *)
(* thread posts; what a subscriber did not take is spooled on disk and sent *)
(* again with a growing pause. The spool outlives the process, the queue    *)
(* and the memory that there is a spool do not.                             *)
(***************************************************************************)
EXTENDS Integers, Sequences, SequencesExt, FiniteSetsExt

CONSTANTS
    Urls,              \* webhooks that may be registered
    NewestUrl,         \* the one of the newest manifest
    QueueMax,          \* _QUEUE_MAX
    SpoolMax,          \* _SPOOL_MAX
    RetryMin,          \* _RETRY_MIN_S
    RetryMax,          \* _RETRY_MAX_S
    MaxReports,        \* bound: events that are reported
    MaxOutages,        \* bound: subscribers that begin to fail or refuse
    MaxBreakdowns      \* bound: crashes, and disks that fail

ASSUME ReporterAssumption ==
    /\ IsFiniteSet(Urls) /\ NewestUrl \in Urls
    /\ QueueMax \in Nat /\ SpoolMax \in Nat \ {0}

VARIABLES
    queue,             \* _send_queue
    posting,           \* what the delivery thread took from it, as a sequence
    spool,             \* reporter_spool.jsonl
    known,             \* the state directory is in _spool_dirs
    pass,              \* the pass of _drain_spool() that is under way
    backoff,           \* _delivery_worker: backoff
    wait,              \* time left until next_retry
    subscriber,        \* what each webhook answers
    diskOk,            \* the spool can be read and written
    outages,           \* outages so far
    breakdowns,        \* crashes and disk failures so far
    sent,              \* history: every event reported, per webhook
    got,               \* history: what subscribers received
    twice,             \* history: what they received again
    unanswered,        \* history: what they received and never answered in time
    lost               \* history: what was given up: queue or spool full,
                       \* refused, unwritable, or queued at a crash

environment == <<subscriber, diskOk, outages, breakdowns>>
schedule == <<backoff, wait>>
receipts == <<got, twice, unanswered>>
reporterVars == <<queue, posting, spool, known, pass, schedule, environment, sent,
                  receipts, lost>>

Telemetry == 0

NoPass == [running |-> FALSE, read |-> FALSE, rest |-> <<>>, keep |-> <<>>,
           unreachable |-> {}, progressed |-> FALSE]

ReporterInit ==
    /\ queue = <<>> /\ posting = <<>> /\ spool = <<>>
    /\ known = FALSE
    /\ pass = NoPass
    /\ backoff = RetryMin /\ wait = RetryMin
    /\ subscriber = [u \in Urls |-> "takes"]
    /\ diskOk = TRUE
    /\ outages = 0 /\ breakdowns = 0
    /\ sent = {} /\ got = {} /\ twice = {} /\ unanswered = {} /\ lost = {}
-----------------------------------------------------------------------------
\* put_nowait(): a full queue drops the newest.
Queued(items) == SubSeq(items, 1, IF Len(items) <= QueueMax - Len(queue)
                                  THEN Len(items) ELSE QueueMax - Len(queue))

\* report_kill() and report_guard_health(): one item per webhook, to whichever
\* the cache of at most 30 s has found.
Report ==
    /\ \E id \in 1..MaxReports, webhooks \in SUBSET Urls \ {{}} :
         LET items == SetToSeq({[id |-> id, url |-> u] : u \in webhooks}) IN
           /\ {i.id : i \in sent} = 1..(id - 1)
           /\ queue' = queue \o Queued(items)
           /\ sent' = sent \cup ToSet(items)
           /\ lost' = lost \cup (ToSet(items) \ ToSet(Queued(items)))
    /\ UNCHANGED <<posting, spool, known, pass, schedule, environment, receipts>>

\* TelemetryPinger: a row a minute to the newest webhook.
Ping ==
    /\ queue' = queue \o Queued(<<[id |-> Telemetry, url |-> NewestUrl]>>)
    /\ UNCHANGED <<posting, spool, known, pass, schedule, environment, sent,
                   receipts, lost>>
-----------------------------------------------------------------------------
\* _post(): what the answer of the subscriber means. One that is late, or that
\* answers 5xx after it has stored the event, has received what is retried.
Accepted(item) == subscriber[item.url] = "takes"

WorthRetrying(item) == subscriber[item.url] \in {"late", "fails"}

Receives(item) == subscriber[item.url] \in {"takes", "late"}

Posted(item) ==
    LET receipt == IF Receives(item) /\ item.id # Telemetry THEN {item} ELSE {} IN
    /\ got' = got \cup receipt
    /\ twice' = twice \cup (got \cap receipt)
    /\ unanswered' = IF Accepted(item) THEN unanswered ELSE unanswered \cup receipt

SpoolSize == IF diskOk THEN Len(spool) ELSE 0

WorkerIdle == posting = <<>> /\ ~pass.running

FaultyNoticesLeftover_Never == FALSE

\* A spool left over from a previous run, seen when an event comes along.
NoticesLeftover == ~known /\ SpoolSize > 0

Take ==
    /\ WorkerIdle
    /\ queue # <<>>
    /\ posting' = <<Head(queue)>>
    /\ queue' = Tail(queue)
    /\ known' = (known \/ NoticesLeftover)
    /\ wait' = IF NoticesLeftover THEN 0 ELSE wait
    /\ UNCHANGED <<spool, pass, backoff, environment, sent, receipts, lost>>

NewestOf(items) == SubSeq(items, Len(items) - SpoolMax + 1, Len(items))

\* _spool_append(): over the cap the oldest go.
SpoolAppended(item) ==
    LET all == Append(spool, item) IN
    IF Len(all) > SpoolMax THEN NewestOf(all) ELSE all

\* What one pass of the worker starts with, if one is due.
PassBegins(lines) == [NoPass EXCEPT !.running = TRUE,
                                    !.read = diskOk /\ lines # <<>>,
                                    !.rest = IF diskOk THEN lines ELSE <<>>]

\* _deliver(), and on to the next pass over the spool if it is due.
Deliver ==
    /\ posting # <<>>
    /\ posting' = <<>>
    /\ LET item == posting[1]
           spools == WorthRetrying(item) /\ item.id # Telemetry IN
         /\ Posted(item)
         /\ spool' = IF spools /\ diskOk THEN SpoolAppended(item) ELSE spool
         /\ known' = (known \/ (spools /\ diskOk))
         /\ lost' = lost
              \cup (IF spools /\ diskOk /\ Len(spool) = SpoolMax THEN {Head(spool)} ELSE {})
              \cup (IF Accepted(item) \/ (spools /\ diskOk) THEN {} ELSE {item})
    /\ pass' = IF known' /\ wait = 0 THEN PassBegins(spool') ELSE pass
    /\ UNCHANGED <<queue, schedule, environment, sent>>

\* queue.get() times out when the next pass is due.
Timeout ==
    /\ WorkerIdle
    /\ queue = <<>>
    /\ known /\ wait = 0
    /\ pass' = PassBegins(spool)
    /\ UNCHANGED <<queue, posting, spool, known, schedule, environment, sent,
                   receipts, lost>>

\* One failure, and the rest of that webhook waits for the next pass.
Skipped(item) == item.url \in pass.unreachable

FaultyKept_OnlyFailed(item) == ~Skipped(item) /\ WorthRetrying(item)

Kept(item) == Skipped(item) \/ WorthRetrying(item)

\* _drain_spool(): one line.
Resend ==
    /\ pass.rest # <<>>
    /\ LET item == Head(pass.rest) IN
         /\ pass' = [pass EXCEPT
                       !.rest = Tail(@),
                       !.keep = IF Kept(item) THEN Append(@, item) ELSE @,
                       !.unreachable = IF Kept(item) THEN @ \cup {item.url} ELSE @,
                       !.progressed = @ \/ (~Skipped(item) /\ Accepted(item))]
         /\ IF Skipped(item) THEN UNCHANGED receipts ELSE Posted(item)
         /\ lost' = IF Skipped(item) \/ Accepted(item) \/ WorthRetrying(item)
                    THEN lost ELSE lost \cup {item}
    /\ UNCHANGED <<queue, posting, spool, known, schedule, environment, sent>>

Doubled == IF backoff * 2 > RetryMax THEN RetryMax ELSE backoff * 2

FaultyRewritten_NotAtAll == spool

\* _write_spool(): what still waits replaces the file.
Rewritten == IF diskOk /\ pass.read THEN pass.keep ELSE spool

\* The worker drops a spool it finds empty or cannot read, and sets the time
\* of the next pass.
PassEnds ==
    /\ pass.running /\ pass.rest = <<>>
    /\ spool' = Rewritten
    /\ known' = (diskOk /\ spool' # <<>>)
    /\ backoff' = IF (diskOk /\ pass.progressed) \/ ~known' THEN RetryMin ELSE Doubled
    /\ wait' = backoff'
    /\ pass' = NoPass
    /\ UNCHANGED <<queue, posting, environment, sent, receipts, lost>>

Worker == Take \/ Deliver \/ Timeout \/ Resend \/ PassEnds

RetryTimer ==
    /\ wait > 0
    /\ wait' = wait - 1
    /\ UNCHANGED <<queue, posting, spool, known, pass, backoff, environment,
                   sent, receipts, lost>>
-----------------------------------------------------------------------------
\* A subscriber is down, answers 5xx, 408 or 429, or is too slow to answer.
Outage ==
    /\ outages < MaxOutages
    /\ outages' = outages + 1
    /\ \E u \in Urls, answer \in {"fails", "late"} :
         subscriber' = [subscriber EXCEPT ![u] = answer]
    /\ UNCHANGED <<queue, posting, spool, known, pass, schedule, diskOk, breakdowns,
                   sent, receipts, lost>>

\* It is back, perhaps without the route: it then refuses for good.
Recovery ==
    /\ \E u \in Urls, answer \in {"takes", "refuses"} :
         /\ subscriber[u] \in {"fails", "late"}
         /\ subscriber' = [subscriber EXCEPT ![u] = answer]
    /\ UNCHANGED <<queue, posting, spool, known, pass, schedule, diskOk, outages,
                   breakdowns, sent, receipts, lost>>

DiskFails ==
    /\ diskOk /\ breakdowns < MaxBreakdowns
    /\ diskOk' = FALSE
    /\ breakdowns' = breakdowns + 1
    /\ UNCHANGED <<queue, posting, spool, known, pass, schedule, subscriber,
                   outages, sent, receipts, lost>>

DiskRecovers ==
    /\ ~diskOk
    /\ diskOk' = TRUE
    /\ UNCHANGED <<queue, posting, spool, known, pass, schedule, subscriber,
                   outages, breakdowns, sent, receipts, lost>>

\* The process ends at any point and a new one starts: the daemon thread, the
\* queue and the set of spool directories go with it.
NewProcess ==
    /\ breakdowns < MaxBreakdowns
    /\ breakdowns' = breakdowns + 1
    /\ queue' = <<>> /\ posting' = <<>> /\ pass' = NoPass /\ known' = FALSE
    /\ backoff' = RetryMin /\ wait' = RetryMin
    /\ lost' = lost \cup ((ToSet(queue) \cup ToSet(posting)) \cap sent)
    /\ UNCHANGED <<spool, subscriber, diskOk, outages, sent, receipts>>

Environment == Outage \/ Recovery \/ DiskFails \/ DiskRecovers \/ NewProcess

ReporterNext == Report \/ Ping \/ Worker \/ RetryTimer \/ Environment

ReporterSpec == ReporterInit /\ [][ReporterNext]_reporterVars

\* The thread runs, time passes, and telemetry is on, as by default.
ReporterFairSpec ==
    /\ ReporterSpec
    /\ WF_reporterVars(Worker)
    /\ WF_reporterVars(RetryTimer)
    /\ WF_reporterVars(Ping)
-----------------------------------------------------------------------------
\* "A kill that happened while the subscriber was restarting was simply lost":
\* now an event is under way or on disk until the subscriber has it, or until
\* one of the reasons the code accepts: a full queue or spool, a refusal, a
\* spool that cannot be written, a queue that went with the process.
NothingVanishes ==
    sent \subseteq got \cup lost \cup ToSet(queue) \cup ToSet(posting) \cup ToSet(spool)

\* A pass that fails for one webhook does not send the others again what they
\* have: what a subscriber received twice it had not answered in time, unless
\* there was a crash or a failing disk in the middle of a pass.
DeliveredOnce == breakdowns = 0 => twice \subseteq unanswered

\* "Resent by the delivery thread with backoff until a 2xx": once subscribers
\* answer and the disk works for good, the spool empties, also one that an
\* earlier process left or that was unreadable for a while.
SpoolDrains ==
    (<>[](diskOk /\ \A u \in Urls : subscriber[u] \in {"takes", "refuses"})) => <>[](spool = <<>>)
=============================================================================
