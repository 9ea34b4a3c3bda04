----------------------------- MODULE Collector -----------------------------
(***************************************************************************)
(* pkg/exporter/collector.go with the /metrics handler of                  *)
(* cmd/pihole-exporter: every GET /metrics runs Collect in a goroutine of  *)
(* its own, and scrapes overlap when two servers (or a person) ask at the  *)
(* same time.  They share one flag, lastScrapeOK, which backs the          *)
(* readiness probe.  CollectMetrics is one step here, its result anything; *)
(* AuthClient and Metrics say what it does.                                *)
(*                                                                         *)
(* A scrape is waiting, then collecting, collected when CollectMetrics has *)
(* returned, stored when the flag is written and the metrics are on their  *)
(* way, and answered when promhttp has answered.                           *)
(***************************************************************************)
EXTENDS Integers, Sequences, FiniteSets

CONSTANT Scrapes  \* the scrapes of one behaviour: its bound

VARIABLES
    pc,            \* where each scrape is
    ok,            \* whether its CollectMetrics succeeded
    lastScrapeOK,  \* Collector.lastScrapeOK
    sent,          \* what Collect has sent to the registry, by kind
    answer,        \* promhttp's answer: status and the kinds of series shown
    probed,        \* answer to the latest readiness probe
    began,         \* history: scrapes in the order they began
    returned,      \* history: scrapes in the order their CollectMetrics returned
    overlapped     \* history: scrapes that ran while another did

vars == <<pc, ok, lastScrapeOK, sent, answer, probed, began, returned, overlapped>>

Kinds == {"build_info", "success_0", "success_1", "duration", "metrics", "invalid"}
NoAnswer == [status |-> 0, shows |-> {}]
InFlight == {s \in Scrapes : pc[s] \in {"collecting", "collected", "stored"}}

\* Mutant: a new exporter counts as ready.
InitReady == TRUE

\* NewCollector leaves the flag at its zero value.
InitialFlag == FALSE

Init ==
    /\ pc = [s \in Scrapes |-> "waiting"]
    /\ ok = [s \in Scrapes |-> FALSE]
    /\ lastScrapeOK = InitialFlag
    /\ sent = [s \in Scrapes |-> {}]
    /\ answer = [s \in Scrapes |-> NoAnswer]
    /\ probed = 0
    /\ began = <<>>
    /\ returned = <<>>
    /\ overlapped = {}

\* Mutant: the build info goes out with the metrics, after CollectMetrics.
CollectLate(s) ==
    /\ pc[s] = "waiting"
    /\ pc' = [pc EXCEPT ![s] = "collecting"]
    /\ began' = Append(began, s)
    /\ overlapped' = IF InFlight = {} THEN overlapped ELSE overlapped \cup InFlight \cup {s}
    /\ UNCHANGED <<ok, lastScrapeOK, sent, answer, probed, returned>>

\* Collect sends the build info and calls CollectMetrics.
Collect(s) ==
    /\ pc[s] = "waiting"
    /\ pc' = [pc EXCEPT ![s] = "collecting"]
    /\ sent' = [sent EXCEPT ![s] = {"build_info"}]
    /\ began' = Append(began, s)
    /\ overlapped' = IF InFlight = {} THEN overlapped ELSE overlapped \cup InFlight \cup {s}
    /\ UNCHANGED <<ok, lastScrapeOK, answer, probed, returned>>

\* CollectMetrics returns the metrics or an error.
Returned(s) ==
    /\ pc[s] = "collecting"
    /\ pc' = [pc EXCEPT ![s] = "collected"]
    /\ \E b \in BOOLEAN : ok' = [ok EXCEPT ![s] = b]
    /\ returned' = Append(returned, s)
    /\ UNCHANGED <<lastScrapeOK, sent, answer, probed, began, overlapped>>

\* Mutant: only a success is stored.
StoreSuccess(s) ==
    /\ pc[s] = "collected"
    /\ pc' = [pc EXCEPT ![s] = "stored"]
    /\ lastScrapeOK' = (ok[s] \/ lastScrapeOK)
    /\ sent' = [sent EXCEPT ![s] = @ \cup IF ok[s] THEN {"success_1", "duration", "metrics"}
                                                    ELSE {"success_0", "duration", "invalid"}]
    /\ UNCHANGED <<ok, answer, probed, began, returned, overlapped>>

\* Mutant: the error is not passed on to the registry.
StoreQuietly(s) ==
    /\ pc[s] = "collected"
    /\ pc' = [pc EXCEPT ![s] = "stored"]
    /\ lastScrapeOK' = ok[s]
    /\ sent' = [sent EXCEPT ![s] = @ \cup {"success_1", "duration"} \cup IF ok[s] THEN {"metrics"} ELSE {}]
    /\ UNCHANGED <<ok, answer, probed, began, returned, overlapped>>

\* The flag is stored; the verdict and the metrics, or the error as an invalid
\* metric, go to the registry.  Every kind in the compiled table converts.
Store(s) ==
    /\ pc[s] = "collected"
    /\ pc' = [pc EXCEPT ![s] = "stored"]
    /\ lastScrapeOK' = ok[s]
    /\ sent' = [sent EXCEPT ![s] = @ \cup IF ok[s] THEN {"success_1", "duration", "metrics"}
                                                    ELSE {"success_0", "duration", "invalid"}]
    /\ UNCHANGED <<ok, answer, probed, began, returned, overlapped>>

\* promhttp with its default options answers an error of the registry with
\* status 500 and no series.
Answer(s) ==
    /\ pc[s] = "stored"
    /\ pc' = [pc EXCEPT ![s] = "answered"]
    /\ answer' = [answer EXCEPT ![s] = IF "invalid" \in sent[s]
                                         THEN [status |-> 500, shows |-> {}]
                                         ELSE [status |-> 200, shows |-> sent[s]]]
    /\ UNCHANGED <<ok, lastScrapeOK, sent, probed, began, returned, overlapped>>

\* GET /metrics?probe=true reports the flag and scrapes nothing.
Probe ==
    /\ probed' = IF lastScrapeOK THEN 200 ELSE 503
    /\ UNCHANGED <<pc, ok, lastScrapeOK, sent, answer, began, returned, overlapped>>

Next ==
    \/ \E s \in Scrapes : Collect(s) \/ Returned(s) \/ Store(s) \/ Answer(s)
    \/ Probe

Spec == Init /\ [][Next]_vars

-----------------------------------------------------------------------------
(* Properties                                                              *)

Types ==
    /\ pc \in [Scrapes -> {"waiting", "collecting", "collected", "stored", "answered"}]
    /\ ok \in [Scrapes -> BOOLEAN]
    /\ sent \in [Scrapes -> SUBSET Kinds]
    /\ answer \in [Scrapes -> [status : {0, 200, 500}, shows : SUBSET Kinds]]
    /\ lastScrapeOK \in BOOLEAN
    /\ probed \in {0, 200, 503}
    /\ overlapped \subseteq Scrapes
    /\ began \in Seq(Scrapes)

\* The types, and what ties the variables together: a scrape that has begun has
\* sent the build info and is in the history, and has a status once answered.
TypeOK ==
    /\ Types
    /\ \A s \in Scrapes : (pc[s] # "waiting") <=> ("build_info" \in sent[s])
    /\ \A s \in Scrapes : (pc[s] = "answered") <=> (answer[s].status # 0)
    /\ \A s \in Scrapes : (pc[s] # "waiting") <=> (\E i \in 1..Len(began) : began[i] = s)

Latest == began[Len(began)]

\* Readiness tells the outcome of the latest scrape, failures included, unless
\* another one ran at the same time (collector.go:89, 99).
ReadyAfterLoneScrape ==
    began # <<>> /\ pc[Latest] \in {"stored", "answered"} /\ Latest \notin overlapped
        => lastScrapeOK = ok[Latest]

\* The probe never calls an exporter ready that has not scraped Pi-hole
\* successfully: it answers "503 before the first scrape" (README.md:184).
ReadyNeedsSuccess ==
    probed = 200 => \E s \in Scrapes : ok[s] /\ pc[s] \in {"stored", "answered"}

\* A scrape's answer is consistent: status 200 comes with a verdict of 1 and with
\* Pi-hole's metrics; one that failed half-way is no 200 (collector.go:88-107).
AnswerIsWhole ==
    \A s \in Scrapes : answer[s].status = 200 =>
        ok[s] /\ {"success_1", "metrics"} \subseteq answer[s].shows

\* "Ready reports whether the most recent scrape reached Pi-hole"
\* (collector.go:123).  With every scrape answered, take one that both began
\* and returned last.  It does not hold: an older scrape may store its outcome
\* after it.
ReadyIsMostRecent ==
    began # <<>> /\ (\A s \in Scrapes : pc[s] = "answered") /\ returned[Len(returned)] = Latest
        => lastScrapeOK = ok[Latest]

\* pihole_exporter_scrape_success: "where `1` is success and `0` is failure"
\* (README.md:438).  It does not hold: a failed scrape is answered 500 without
\* any series, so the 0 is never seen.
FailureIsShown ==
    \A s \in Scrapes : pc[s] = "answered" /\ ~ok[s] => "success_0" \in answer[s].shows
=============================================================================
