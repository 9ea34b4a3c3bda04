--------------------------- MODULE CollectorProofs ---------------------------
(***************************************************************************)
(* What overlapping scrapes may do to the readiness flag and to their      *)
(* answers, for any number of scrapes.                                     *)
(***************************************************************************)
EXTENDS Collector, TLAPS

\* What keeps the flag right: nobody is in flight beside a latest scrape that
\* did not overlap, so nobody can store an older outcome after it.
LatestAlone ==
    began # <<>> /\ Latest \notin overlapped =>
        /\ pc[Latest] # "waiting"
        /\ InFlight \subseteq {Latest}
        /\ pc[Latest] \in {"stored", "answered"} => lastScrapeOK = ok[Latest]

\* What keeps an answer whole: what was sent follows the outcome, and the
\* answer shows what was sent.
SentFollowsOutcome ==
    \A s \in Scrapes :
        /\ pc[s] \in {"stored", "answered"} =>
              IF ok[s] THEN {"success_1", "metrics"} \subseteq sent[s] ELSE "invalid" \in sent[s]
        /\ answer[s].status = 200 => pc[s] = "answered" /\ ok[s] /\ answer[s].shows = sent[s]

\* What backs the flag and the probe: a success that was stored.
FlagNeedsSuccess ==
    lastScrapeOK \/ probed = 200 => \E s \in Scrapes : ok[s] /\ pc[s] \in {"stored", "answered"}

\* The type invariant of Collector (collector.go:75-107) for any set of
\* scrapes, with the history in step with where each scrape is.
THEOREM CollectorTypeCorrect == Spec => []TypeOK
<1>1. Init => TypeOK
  <2> SUFFICES ASSUME Init PROVE TypeOK
    OBVIOUS
  <2>1. NoAnswer \in [status : {0, 200, 500}, shows : SUBSET Kinds] /\ NoAnswer.status = 0
    BY DEF NoAnswer
  <2>2. Types
    <3>1. sent \in [Scrapes -> SUBSET Kinds] /\ answer \in [Scrapes -> [status : {0, 200, 500}, shows : SUBSET Kinds]]
      BY <2>1 DEF Init
    <3>2. began \in Seq(Scrapes)
      BY DEF Init
    <3>3. ok \in [Scrapes -> BOOLEAN] /\ lastScrapeOK \in BOOLEAN
      BY DEF Init, InitialFlag
    <3> QED
      BY <3>1, <3>2, <3>3 DEF Init, Types
  <2>3. Len(began) = 0
    BY DEF Init
  <2> QED
    BY <2>1, <2>2, <2>3 DEF Init, TypeOK
<1>2. TypeOK /\ [Next]_vars => TypeOK'
  <2> SUFFICES ASSUME TypeOK, [Next]_vars PROVE TypeOK'
    OBVIOUS
  <2>1. ASSUME NEW s \in Scrapes, Collect(s) PROVE TypeOK'
    <3>1. Types'
      BY <2>1 DEF TypeOK, Types, Collect, Kinds, InFlight
    <3>2. \A t \in Scrapes : (pc'[t] # "waiting") <=> ("build_info" \in sent'[t])
      BY <2>1 DEF TypeOK, Types, Collect
    <3>3. \A t \in Scrapes : (pc'[t] = "answered") <=> (answer'[t].status # 0)
      BY <2>1 DEF TypeOK, Types, Collect
    <3>4. \A t \in Scrapes : (pc'[t] # "waiting") <=> (\E i \in 1..Len(began') : began'[i] = t)
      BY <2>1 DEF TypeOK, Types, Collect
    <3> QED
      BY <3>1, <3>2, <3>3, <3>4 DEF TypeOK
  <2>2. ASSUME NEW s \in Scrapes, Returned(s) PROVE TypeOK'
    <3>1. Types'
      BY <2>2 DEF TypeOK, Types, Returned, Kinds
    <3>2. \A t \in Scrapes : (pc'[t] # "waiting") <=> ("build_info" \in sent'[t])
      BY <2>2 DEF TypeOK, Types, Returned
    <3>3. \A t \in Scrapes : (pc'[t] = "answered") <=> (answer'[t].status # 0)
      BY <2>2 DEF TypeOK, Types, Returned
    <3>4. \A t \in Scrapes : (pc'[t] # "waiting") <=> (\E i \in 1..Len(began') : began'[i] = t)
      BY <2>2 DEF TypeOK, Types, Returned
    <3> QED
      BY <3>1, <3>2, <3>3, <3>4 DEF TypeOK
  <2>3. ASSUME NEW s \in Scrapes, Store(s) PROVE TypeOK'
    <3>1. Types'
      BY <2>3 DEF TypeOK, Types, Store, Kinds
    <3>2. \A t \in Scrapes : (pc'[t] # "waiting") <=> ("build_info" \in sent'[t])
      BY <2>3 DEF TypeOK, Types, Store
    <3>3. \A t \in Scrapes : (pc'[t] = "answered") <=> (answer'[t].status # 0)
      BY <2>3 DEF TypeOK, Types, Store
    <3>4. \A t \in Scrapes : (pc'[t] # "waiting") <=> (\E i \in 1..Len(began') : began'[i] = t)
      BY <2>3 DEF TypeOK, Types, Store
    <3> QED
      BY <3>1, <3>2, <3>3, <3>4 DEF TypeOK
  <2>4. ASSUME NEW s \in Scrapes, Answer(s) PROVE TypeOK'
    <3>1. Types'
      BY <2>4 DEF TypeOK, Types, Answer, Kinds
    <3>2. \A t \in Scrapes : (pc'[t] # "waiting") <=> ("build_info" \in sent'[t])
      BY <2>4 DEF TypeOK, Types, Answer
    <3>3. \A t \in Scrapes : (pc'[t] = "answered") <=> (answer'[t].status # 0)
      BY <2>4 DEF TypeOK, Types, Answer
    <3>4. \A t \in Scrapes : (pc'[t] # "waiting") <=> (\E i \in 1..Len(began') : began'[i] = t)
      BY <2>4 DEF TypeOK, Types, Answer
    <3> QED
      BY <3>1, <3>2, <3>3, <3>4 DEF TypeOK
  <2>5. CASE Probe \/ UNCHANGED vars
    BY <2>5 DEF TypeOK, Types, Probe, vars
  <2> QED
    BY <2>1, <2>2, <2>3, <2>4, <2>5 DEF Next
<1> QED
  BY <1>1, <1>2, PTL DEF Spec

\* Every step keeps the latest scrape alone unless it overlapped.
LEMMA LatestAloneStep ==
    ASSUME TypeOK, LatestAlone, [Next]_vars
    PROVE  LatestAlone'
<1>1. began # <<>> => Latest \in Scrapes
  BY DEF TypeOK, Types, Latest
<1>2. ASSUME NEW s \in Scrapes, Collect(s) PROVE LatestAlone'
  <2>1. Latest' = s
    BY <1>2 DEF TypeOK, Types, Collect, Latest
  <2>2. pc' = [pc EXCEPT ![s] = "collecting"] /\ pc[s] = "waiting" /\ ok' = ok /\ pc'[s] = "collecting"
    BY <1>2 DEF TypeOK, Types, Collect
  <2>3. CASE InFlight = {}
    BY <2>1, <2>2, <2>3 DEF LatestAlone, InFlight, TypeOK, Types
  <2>4. CASE InFlight # {}
    BY <1>2, <2>1, <2>4 DEF LatestAlone, Collect
  <2> QED
    BY <2>3, <2>4
<1>3. ASSUME NEW s \in Scrapes, Returned(s) PROVE LatestAlone'
  <2>1. Latest' = Latest /\ began' = began
    BY <1>3 DEF Returned, Latest
  <2>2. InFlight' = InFlight /\ s \in InFlight
    BY <1>3 DEF Returned, InFlight, TypeOK, Types
  <2> QED
    BY <1>1, <1>3, <2>1, <2>2 DEF LatestAlone, Returned, TypeOK, Types
<1>4. ASSUME NEW s \in Scrapes, Store(s) PROVE LatestAlone'
  <2>1. Latest' = Latest /\ began' = began
    BY <1>4 DEF Store, Latest
  <2>2. InFlight' = InFlight /\ s \in InFlight
    BY <1>4 DEF Store, InFlight, TypeOK, Types
  <2> QED
    BY <1>1, <1>4, <2>1, <2>2 DEF LatestAlone, Store, TypeOK, Types
<1>5. ASSUME NEW s \in Scrapes, Answer(s) PROVE LatestAlone'
  <2>1. Latest' = Latest /\ began' = began
    BY <1>5 DEF Answer, Latest
  <2>2. InFlight' \subseteq InFlight /\ s \in InFlight
    BY <1>5 DEF Answer, InFlight, TypeOK, Types
  <2> QED
    BY <1>1, <1>5, <2>1, <2>2 DEF LatestAlone, Answer, TypeOK, Types
<1>6. CASE Probe \/ UNCHANGED vars
  BY <1>6 DEF LatestAlone, Probe, vars, Latest, InFlight
<1> QED
  BY <1>2, <1>3, <1>4, <1>5, <1>6 DEF Next

\* Every step keeps what is sent and answered in line with the outcome.
LEMMA SentStep ==
    ASSUME TypeOK, SentFollowsOutcome, [Next]_vars
    PROVE  SentFollowsOutcome'
<1>1. ASSUME NEW s \in Scrapes, Collect(s) PROVE SentFollowsOutcome'
  BY <1>1 DEF SentFollowsOutcome, Collect, TypeOK, Types
<1>2. ASSUME NEW s \in Scrapes, Returned(s) PROVE SentFollowsOutcome'
  BY <1>2 DEF SentFollowsOutcome, Returned, TypeOK, Types
<1>3. ASSUME NEW s \in Scrapes, Store(s) PROVE SentFollowsOutcome'
  BY <1>3 DEF SentFollowsOutcome, Store, TypeOK, Types
<1>4. ASSUME NEW s \in Scrapes, Answer(s) PROVE SentFollowsOutcome'
  BY <1>4 DEF SentFollowsOutcome, Answer, TypeOK, Types
<1>5. CASE Probe \/ UNCHANGED vars
  BY <1>5 DEF SentFollowsOutcome, Probe, vars
<1> QED
  BY <1>1, <1>2, <1>3, <1>4, <1>5 DEF Next

\* Every step keeps a success behind the flag and behind the probe's yes.
LEMMA FlagStep ==
    ASSUME TypeOK, FlagNeedsSuccess, [Next]_vars
    PROVE  FlagNeedsSuccess'
<1>1. ASSUME NEW s \in Scrapes, Collect(s) PROVE FlagNeedsSuccess'
  BY <1>1 DEF FlagNeedsSuccess, Collect, TypeOK, Types
<1>2. ASSUME NEW s \in Scrapes, Returned(s) PROVE FlagNeedsSuccess'
  BY <1>2 DEF FlagNeedsSuccess, Returned, TypeOK, Types
<1>3. ASSUME NEW s \in Scrapes, Store(s) PROVE FlagNeedsSuccess'
  BY <1>3 DEF FlagNeedsSuccess, Store, TypeOK, Types
<1>4. ASSUME NEW s \in Scrapes, Answer(s) PROVE FlagNeedsSuccess'
  BY <1>4 DEF FlagNeedsSuccess, Answer, TypeOK, Types
<1>5. CASE Probe \/ UNCHANGED vars
  BY <1>5 DEF FlagNeedsSuccess, Probe, vars
<1> QED
  BY <1>1, <1>2, <1>3, <1>4, <1>5 DEF Next

\* Readiness tells the outcome of the latest scrape unless another one ran at
\* the same time (collector.go:89, 99), whatever the number of scrapes.
THEOREM LoneScrapeDecides == Spec => []ReadyAfterLoneScrape
<1>1. Init => LatestAlone
  BY DEF Init, LatestAlone
<1>2. LatestAlone => ReadyAfterLoneScrape
  BY DEF LatestAlone, ReadyAfterLoneScrape
<1> QED
  BY <1>1, <1>2, CollectorTypeCorrect, LatestAloneStep, PTL DEF Spec

\* Status 200 comes with a verdict of 1 and Pi-hole's metrics
\* (collector.go:88-107), whatever the number of scrapes.
THEOREM AnswersAreWhole == Spec => []AnswerIsWhole
<1>1. Init => SentFollowsOutcome
  BY DEF Init, SentFollowsOutcome, NoAnswer
<1>2. TypeOK /\ SentFollowsOutcome => AnswerIsWhole
  BY DEF SentFollowsOutcome, AnswerIsWhole, TypeOK, Types
<1> QED
  BY <1>1, <1>2, CollectorTypeCorrect, SentStep, PTL DEF Spec

\* The probe says ready only once a scrape has succeeded (collector.go:123-128),
\* whatever the number of scrapes.
THEOREM ReadyIsEarned == Spec => []ReadyNeedsSuccess
<1>1. Init => FlagNeedsSuccess
  BY DEF Init, FlagNeedsSuccess, InitialFlag
<1>2. FlagNeedsSuccess => ReadyNeedsSuccess
  BY DEF FlagNeedsSuccess, ReadyNeedsSuccess
<1> QED
  BY <1>1, <1>2, CollectorTypeCorrect, FlagStep, PTL DEF Spec
=============================================================================
