# Verification of pihole-exporter

`pihole-exporter` scrapes the Pi-hole v6 API and publishes the result to Prometheus (pull) or
OpenTelemetry (push). Its difficult part is small and concurrent: one `AuthClient`, shared by every
goroutine that scrapes and by the shutdown path, keeps one Pi-hole API session. Pi-hole caps the
number of sessions ("seats") and frees a seat only on `DELETE /api/auth` or after the session's time
to live, so a session that is lost, taken twice or thrown away locks the administrator (or the
exporter) out. Around it stand a process with a shutdown order to keep, two exporters that publish the same
scrape through different code, configuration from two sources, a generator that compiles Pi-hole's
OpenAPI schemas into a table, and a mock the tests trust. This directory models each of these in
TLA+, checks them with TLC and proves the safety properties of all of them with TLAPS, for every value of
the constants (what is left to TLC is under "Only model-checked").

## The system

| Part | Source | State | Operations |
|---|---|---|---|
| AuthClient | `pkg/pihole/auth.go`, `client.go` | `session` (SID, expiry), mutex `mu` | `Session`, `AddAuthHeaders`, `GetJSONMap` with one retry on 401, `Invalidate`, `Logout` |
| CollectMetrics | `pkg/pihole/metrics.go` | none | GET five endpoints in order, extract every metric or fail |
| Prometheus collector | `pkg/exporter/collector.go` | `lastScrapeOK` | `Describe`, `Collect`, `Ready` |
| OpenTelemetry provider | `pkg/exporter/otel.go` | SDK instruments and periodic reader | a callback that calls `CollectMetrics` |
| Process | `cmd/pihole-exporter/main.go` | HTTP server, signal context | `parseConfig`, `buildServer`, `run`, shutdown, `/healthz`, `/metrics`, `-healthcheck` |
| Metric generator | `tools/pihole-metricgen` | schema files | walk an OpenAPI schema, name the metrics |
| Test double | `internal/piholetest/mock.go` | expectations, how often each was met | match requests, verify |
| Pi-hole | not in the repository | session table | `POST`/`DELETE /api/auth`, GET |

How they interact: every HTTP request to `/metrics` runs `Collector.Collect` in its own goroutine;
the OpenTelemetry reader runs the callback in another. Each makes a context with the scrape timeout
and calls `CollectMetrics`, which calls `GetJSONMap` once per endpoint, which calls
`AddAuthHeaders` and so `Session` under `mu`. A renewal holds `mu` across two HTTP exchanges (DELETE
of the old session, POST of the login). On SIGTERM `run` drains the HTTP server, shuts down the
provider if there is one, and calls `Logout` under a context of its own.

What is hard about it, and what makes each part correct:

- **AuthClient.** Callers interleave between any two exchanges; replies are lost; a request whose
  sender has given up may still be handled; Pi-hole evicts sessions early; the client judges expiry
  by a clock reading of its own; waiting for `mu` does not watch the context. Correct: at most one
  seat on lease, no seat forgotten without a failed exchange, no live session thrown away, a retry
  under another session, no use of an expired session, every call returns.
- **Lifecycle.** Main, the goroutine that awaits the signal, one goroutine per connection (or the
  OpenTelemetry reader) and `net/http` run side by side; a signal, a failing listener and SIGKILL
  may come at any point of a scrape. Correct: the session is released last, no scrape takes a seat
  behind it, the process ends.
- **CollectMetrics.** One field of the wrong kind fails five endpoints; a missing one does not.
  Correct: exactly the numbers Pi-hole sent, or a failure with a cause.
- **Collector.** Scrapes overlap and share one flag. Correct: readiness is about the latest scrape;
  a 200 shows a success with its metrics.
- **Exporters.** Correct: the registry accepts every result; both exporters show the same.
- **Configuration.** Flag, environment and default; durations that overflow; a health check that is
  another process. Correct: the exporter runs with what was asked for, the password leaves the
  environment, the health check tells the truth.
- **Generator.** Correct: the table holds every number of the schemas, once, in an order that does
  not depend on Go's maps, under distinct names; it ends.
- **Mock.** Requests come from any goroutine. Correct: a test passes exactly if its requests fit.

## Modules

| Module | What it is | Checked by | Proved in |
|---|---|---|---|
| `Pihole` | Pi-hole's session table and the clock. External: modelled from what `auth.go` does and says | `MCAuthClient` | `AuthClientProofs` |
| `AuthClient` | the AuthClient and its callers, one action per step; EXTENDS `Pihole` | `MCAuthClient` | `AuthClientProofs` |
| `SeatLease` | abstract specification: what the exporter promises about seats | `MCAuthClient` | `SeatLeaseProofs` |
| `Lifecycle` | the process around the AuthClient; EXTENDS `AuthClient` | `MCLifecycle` | `LifecycleProofs` |
| `Collector` | overlapping scrapes, readiness, promhttp's answer | `MCCollector` | `CollectorProofs` |
| `MetricSpecs` | the compiled table, 21 rows of data | `MCMetrics`, `MCMetricGen` | |
| `Metrics` | one `CollectMetrics` and both exporters | `MCMetrics` | `MetricsProofs` |
| `Config` | configuration, `buildServer`, health check | `MCConfig` | `ConfigProofs` |
| `MetricGen` | the generator; EXTENDS `MetricSpecs` to compare | `MCMetricGen` | `MetricGenProofs` |
| `PiholeMock` | the mock of the Pi-hole API | `MCPiholeMock` | `PiholeMockProofs` |

The `MC` modules hold the instances for TLC: symmetry, and the sets of inputs.

Operators commented "Mutant" are plausible mistakes in the code. No specification uses them; each
shows that one of the properties would notice.

### Pihole

`ttl[s]` is the instant session `s` expires, 0 when it was never granted or has been dropped; `Seats`
is the set of sessions alive now. SIDs are random strings in Pi-hole; here they are numbered in the
order of the grants, which says only that a granted SID is fresh. Assumed of Pi-hole:

- a session lives for a fixed, positive time from its login. Should an installation extend it on use,
  the exporter's view is still the earlier one, and skipping the DELETE of an "expired" session
  would leak a seat: the code makes the same assumption (auth.go:191-192);
- an authenticated GET is answered 401 only when the session is gone (client.go:18-21 thinks of a new session
  that is rejected too; the code then does the same, once);
- its clock runs at the rate of the exporter's.

### AuthClient

A caller is a goroutine. `pc` says where it is; `session`, `mu` are the fields of the struct; `sid`,
`reply`, `deadline`, `rejected`, `endpoint` are locals of its call stack. The comment at the head of
the module lists the values of `pc`. `Session.Valid` is true exactly when the SID is not empty
(auth.go:254), so `session.sid # NoSid` stands for both; the CSRF token follows the SID and is left
out.

| Code | Actions |
|---|---|
| `CollectMetrics` called under its deadline | `Collect` |
| `Session`, cached session usable, then `get` sends | `UseCached` |
| `Session` otherwise: `mu` locked, `logoutLocked` clears and decides on the DELETE | `Refresh` |
| `logoutLocked` returns to `Session`, the login is sent | `Deleted` |
| `authenticate` returns a session / an error, `mu` unlocked | `LoggedIn`, `LoginFailed` |
| `GetJSONMap`: 2xx with more endpoints / with none left | `NextEndpoint`, `Collected` |
| first 401 / second 401 or any other error | `Rejected`, `GetFailed` |
| `Invalidate`, then the retry | `Invalidate` |
| `Logout`, called by the shutdown closure | `BeginLogout`, `Logout`, `LoggedOut` |
| `Do` or decoding fails; context ends | `GiveUp` |

An exchange is three steps (sent, handled by Pi-hole, acted on by the caller), so that a reply can
be lost after Pi-hole has acted, and a request can be handled after its sender has gone: `strayLogins`
and `strayLogouts` hold such requests. A GET that strays has no effect and is not kept. `Send` fails
at once when the context is already done, as `Do` does. `GiveUp` also stands for a body that does not
decode and for a metric that does not extract, both of which fail the call.

`abandoned` is a history variable: the sessions the exporter let go because an exchange failed. No
action reads it.

`Tick` lets a second pass. Exchanges end by their deadline because contexts are punctual; waiting for
a locked `mu` may take any time; the steps between are instantaneous beside them. The mutex is not a
queue: any waiting caller may lock it next, which covers what `sync.Mutex` does.

### Lifecycle

`phase` is where the main goroutine is, `stopper` where the goroutine is that `run` starts to await
the signal, `conn` the state of each HTTP connection, `reader` the periodic reader's loop ("none"
when the exporter is Prometheus; each behaviour is of one kind). Everything a scrape or `Logout` does
is a step of `AuthClient`, taken by `Run(c)`; `Request`, `ReaderTick`, `FinalCollection`, `Joined`
and `Flushed` start one.

| Code | Actions |
|---|---|
| `signal.NotifyContext` | `Signal` |
| `server.ListenAndServe` binds or fails; returns; `close(served)` | `Listen`, `ServeReturns` |
| the goroutine's `select`: signal, or `served` | `Stop`, `NothingToStop` |
| `server.Shutdown` drained, or out of time; `close(stopped)` | `Drained` |
| `<-stopped`, then the deferred shutdown begins | `Joined` |
| `provider.Shutdown` stops the loop and collects; returns | `FinalCollection`, `Flushed` |
| `client.Logout` returns, the process is gone | `Exit` |
| a connection, its request for `/metrics`, its end | `Accept`, `Request`, `Close` |
| `ReadHeaderTimeout`, as long as the drain | `DrainOver`, in `Request` and `Drained` |
| SIGKILL, a crash | `Kill` |

Pi-hole goes on after the process (`Network`). `server.Shutdown` waits for every connection that is
not closed, as `net/http` does for active ones and for new ones that have not sent a request; the
idle ones it closes at once are closed here by `Close`. A connection that sends nothing ends with
`ReadHeaderTimeout` (main.go:151), which is as long as the drain; nobody connects during a drain, so when it
is over (`DrainOver`) no connection sends a first request any more, and only scrapes in flight are left. With
a push exporter there are connections too (`/healthz` and `/alive` are always served), which can hold up the
drain, but none of them scrapes. `Second` lets time pass only where the code waits.

### Collector

One scrape is waiting, collecting, collected, stored, answered; the flag is written between
`CollectMetrics` and the answer, so scrapes can overtake each other. `CollectMetrics` itself is one
step with either outcome. `Answer` is promhttp's default (`HandlerOpts{}`): an error of the registry
is a 500 without series. The error branch for a metric of an unknown kind (collector.go:104-111) is left
out: the compiled table has gauges only. `began`, `returned` and `overlapped` are history.

### Metrics

The state is one call of `CollectMetrics`: endpoints still to ask (`todo`), their `bodies`, rows of
the table still to extract from the last body, metrics so far, verdict; then what Prometheus
(`Gather`) and OpenTelemetry (`Observe`) make of it.

| Code | Actions |
|---|---|
| `GetJSONMap` of the next endpoint returns a body / an error | `Fetch`, `FetchFails` |
| `extractMetric` of the next row, its metrics appended or its error returned | `ExtractNext` |
| `sort.Slice`, return | `Finish` |
| `Collector.Collect` and the registry | `Gather` |
| the OpenTelemetry callback | `Observe` |

`Lookup`, `NumberValue`, `Extract` are the functions of `metrics.go`. JSON values are records that
tell their kind; numbers come from `Numbers`, and one kind stands for numbers beyond float64.
`Order` is Go's order of the strings of an instance, as a set of pairs, since TLA+ strings have none.
`sort.Slice` is not stable, so `Finish` takes any permutation that leaves nothing out of order.
Build info and duration, which every scrape shows, are left out of the series; so are help texts.

### Config

A behaviour starts with one combination of settings, each a flag, a variable, both or neither;
values are classes of text (an address with a numbered port, a plain integer, a duration, junk).
`ParseConfig`, `BuildServer`, `Listen`, `Stop` are the exporter; `HealthCheck` and
`ImageHealthCheck` are other processes that see the same environment, at any time. Durations are
integers from `-Limit` to below `Limit` (2^63 in the code) with `Second` ticks to the second; `Wrap`
is what Go's int64 does. `Interval` counts a tick for a millisecond of `OTEL_METRIC_EXPORT_INTERVAL`, so
that it wraps at another scale than nanoseconds do; `OTEL_METRIC_EXPORT_TIMEOUT` goes through the same
function and is left out.

### MetricGen

The recursion of `collectSchema` is a stack of schemas to visit, one action per case of the code;
`NextEndpoint` takes any endpoint left, as Go's map does. `Resolve` is `resolve`, `load` and
`jsonPointer` together: a reference names a file and a place. It keeps two habits of the code: a
reference without a file is looked up in the main file wherever it stands, and a reference to a
reference is followed once. Both sorts, of the keys of an object and of the table, are `Arranged`: an
element goes where the number of smaller ones says. The code compares joined texts and `PathBefore`
their parts, which agrees as long as the parts hold nothing smaller than `.` or `/`. `Sanitize`, too, works
part by part, by a table of the parts it changes (`Cleaned`): in the run capitals that become small and a
part of no letters that vanishes.

Pi-hole's own documents are not in the repository. The document that stands for them has the shape of the
answers the tests keep (`internal/piholetest/testdata/ftl-v6.7.1/stats`), written down from those files
member by member, arrays and `took` included; that the schemas sit in a second file, behind references and
`allOf`, is a choice made here. `TableIsCompiled` therefore compares the compiled table with something that
does not come from it: a row too many, too few, misnamed or out of place is seen. What Pi-hole documents
beyond those answers is not.

`doc` is the name of a document. A document also carries its schemas and what is said about them:

- `places`: under which label a schema may be visited. The label comes from the last part of the path
  (`LabelFor`), so a schema that is never the member `types` never stands under `type`. What a
  document must not do (`Disjoint`) is asked where its schemas stand and nowhere else; asked under every
  label it would refuse documents that are in order;
- `meaning`: the numbers in a schema under a label, each with the path that leads to it and its label.
  `MeaningAssumption` says that the meaning of a schema follows from that of its parts (`Says`), and
  `TableIsMeant` compares the table with the meaning;
- `visits`: how many visits a schema takes with all its parts. `Acyclic` says that it takes more than
  its parts do, which no schema on a cycle of references can; `GeneratorProceeds` is about documents that
  satisfy it.

None of this is computed in `MetricGen`: `MCMetricGen` defines the three, by recursion and without regard
to `Says`, and TLC evaluates the assumptions for each of its documents. All 198 are acyclic, and 122 are
`WellWritten`, the one for Pi-hole among them; the others have a reference that leads nowhere, to another
reference or without a file.

### PiholeMock

`plan` is the sequence of expectations, `used` how often each was met; `Respond` and `Verify` are the
functions of `mock.go`, each under its mutex and so one step. An expectation's header and body
conditions are the set of variants it accepts. The plan is complete before the first request, where
`Expect` may also be called in between (mock.go:75). `arrived` and `taken` are history.

## Properties

| Property | What it says |
|---|---|
| `TypeOK` (`AuthClient`) | types; a scrape stops at its last endpoint |
| `SeatsAccountedFor` | every seat in use is one the exporter will still release, or was lost to a failed exchange |
| `OneSeat` | apart from lost seats, concurrent callers never occupy two |
| `RetryUsesAnotherSession` | the retry after a 401 does not use the rejected session |
| `CachedSessionIsLive` | a session used from the cache has not expired at Pi-hole |
| `LiveSessionKept` | a usable session that Pi-hole still holds is discarded by `Logout` alone |
| `SuccessIsTimely` | a scrape succeeds only within its deadline |
| `ImplementsSeatLease` | refinement of `SeatLease` |
| `CallsRunOut` | every step of a call uses up one of those it has left (`StepsLeft`, at most 15 to an endpoint), and neither a 401 nor anybody else gives it more |
| `NobodyStuck` | whoever waits in a call waits for somebody who can go on: for `mu`, or for the end of an exchange |
| `EveryCallReturns` | liveness: no lost unlock, no endless retry, no starvation |
| `LifecycleTypeOK` | types; the release starts only when the stopper is done |
| `ReleasedAtExit` | after a drained shutdown, or with a push exporter, no seat is left but lost ones |
| `ShutdownNeverStuck` | from a signal or a failed listener on, something in the process can go on until it has exited: Main, the stopper, a call, an idle connection |
| `ProcessEnds` | liveness: after a signal or a failed listener the process ends |
| `TypeOK` (`Collector`) | types; what a scrape has sent goes with where it is |
| `ReadyAfterLoneScrape` | readiness is the latest scrape's outcome, unless another ran at the same time |
| `ReadyNeedsSuccess` | the probe is 200 only after a success |
| `AnswerIsWhole` | a 200 has the verdict 1 and the metrics |
| `TypeOK` (`Metrics`) | values are finite; a failed scrape has no metrics |
| `Complete` | a successful scrape returns exactly Pi-hole's numbers, each series once, in order |
| `ErrorHasCause` | a scrape fails if and only if an endpoint failed or a field was of the wrong kind |
| `GatherAccepts` | the registry accepts every successful scrape |
| `SameSeries` | Prometheus and OpenTelemetry show the same series and values |
| `TypeOK` (`Config`) | types; which parts exist in which phase |
| `PasswordRemoved` | a running exporter has no password in its environment |
| `RunsAsConfigured` | listen address, URL, password and exporter are the flag's, else the variable's, else the default; so are routes and transport, the transport of `otlp` by the OTLP variables; without either the timeout is the default |
| `DurationsHonoured` | every duration in use is positive, and the one asked for if it fits |
| `HealthCheckTells` | healthy if and only if the exporter serves on a port named by number; the image's own check too, if the exporter has no `-listen`, and never healthy when nothing serves |
| `TypeOK` (`MetricGen`) | everything found or pending belongs to an endpoint already taken |
| `TableIsMeant` | the table is what the schemas mean, in order, for any order of the paths |
| `TableIsCompiled` | from the shape of Pi-hole's answers in the tests it is `metrics_gen.go`, row by row |
| `NamesDistinct` | no two rows share a name |
| `GeneratorProceeds` | without cycles of references, every step ends the run, takes an endpoint for good or uses up a visit |
| `TypeOK` (`PiholeMock`) | the counters agree with the requests that came |
| `AfterHolds` | a request goes to an expectation only after all those of the one it is declared after |
| `PassMeansFits` | a test passes only if its requests can be assigned to the expectations |
| `FitsMeansPass` | and it fails only if they cannot, when no request matches two of them |
| `CallEndsByDeadline`, `SeatFreedAtShutdown`, `ReadyIsMostRecent`, `FailureIsShown` | what the documentation says; refuted (see Findings) |

`Complete` and `ErrorHasCause` read a body another way than the code (all its nodes by path), and
the meaning of a schema comes from its parts, references followed in the file they stand in, where the
generator keeps a stack and one current file, so that neither compares the code with itself. `PassMeansFits` and `FitsMeansPass` ask for any assignment, not the mock's.

## Runs

| Run | Question | Bounds |
|---|---|---|
| `safety` | the seven safety and action properties of AuthClient | 2 callers, 2 endpoints, 3 sessions, 2 seats, time 0..2, sessions live 2, skew 1, timeouts 1, 1 stray login |
| `liveness` | does every call run out of steps, can somebody always take one, does every call return, and does AuthClient implement SeatLease? | the same with 1 endpoint and 2 sessions, no symmetry |
| `deadline` | does a scrape end by its deadline? (no) | 2 callers, timeout 2 |
| `lifecycle` | is the session released last, does nothing wait in a circle, and does the process end? | Main, the reader, 1 connection (any number of times), 2 sessions, time 0..2, scrape timeout 2, shutdown timeout 1; both kinds of exporter |
| `lifecycle_freed` | is the seat freed at every shutdown, at least when nothing else goes wrong? (no) | the same with 2 endpoints, without fairness; `OrderlyLifecycle`: Pi-hole drops no session, accepting does not fail, no second passes while a call has something to go on with |
| `collector` | readiness and answers | 4 scrapes, with symmetry |
| `collector_recent` | is readiness about the most recent scrape? (no) | 2 scrapes |
| `collector_shown` | is a failure shown? (no) | 2 scrapes |
| `metrics` | extraction and both exporters | 4 rows of the table on 3 endpoints; bodies with every kind of value at the field, above and below it |
| `config` | configuration and health check | listen addresses x variables; credentials x exporters; durations below 128 ticks, 4 ticks to the second |
| `metricgen` | the table, from the shape of Pi-hole's answers and from small documents | 198 documents: that one, one broken, 196 with two varying members behind a reference |
| `mock` | does passing mean fitting? | plans of up to 3 of 5 kinds of expectation with every After, up to 4 requests of 4 kinds |

Why the bounds are enough.

- `safety`, `liveness`: two callers give every pair of racing operations (scrape against scrape,
  scrape against logout, renewal against late 401); a third adds no new kind of conflict because
  `mu` admits one at a time. With two endpoints a session can be lost in mid-scrape. Three sessions
  allow an old one under which a request is still out, the one that replaced it, and one more taken
  by the retry or lost to a stray login. In `liveness` a scrape has one endpoint; `CallsRunOutCorrect`
  has the bound for any number. Two seats make the cap bite. With a life of 2, a skew of 1
  and time up to 2, a session is reached in each of its phases: usable, within the skew, expired at
  Pi-hole but not for the client, expired for both.
- `lifecycle`: a scrape may last longer (2) than the drain (1), so that both ends of
  `server.Shutdown` are reached with a scrape in any state. More connections change which of them
  blocks the drain, not that one does; the theorems hold for any number. Lost and stray requests are
  left to `safety`: here `MaxStray` is 0.
- `collector`: with four scrapes, one can run alone before, between or after two that overlap.
- `metrics`: the four rows have every shape of the table (labelled or not, at the first level or
  below another object); `MetricsProofs` has the properties for any table of that shape.
- `config`: a `Limit` of 128 ticks wraps within a minute, so that a timeout of 40 s turns negative and
  one of 70 s wraps to a positive value; `ConfigProofs` has the properties for any `Limit`.
- `metricgen`: the varying members are every kind of schema the code tells apart, twice, so that two
  metrics can meet in one endpoint; each document also has paths the generator must skip, one of
  them with a reference that leads nowhere.
- `mock`: three expectations give a chain of two Afters or a pair of rivals and a bystander; four
  requests are one too many for most plans, and too few for the largest, which can then only fail.

`MaxSid`, `MaxNow`, `MaxStray`, `MaxRequests` and the sets of inputs bound a behaviour, not the
program: when the clock stops, or no session is left to grant, exchanges can still fail and end.
Deadlock is checked, except where the system stops by design: a process that has exited
(`lifecycle`, `lifecycle_freed`), a scrape that is published (`metrics`), a generator that has ended
(`metricgen`), a test that has been verified (`mock`).

## Fairness

`FairSpec` asks for strong fairness of each caller's own steps (`Step(c)`). Weak fairness would not
do: a caller waiting for `mu` is enabled only while `mu` is free. It is justified by `sync.Mutex`,
which hands the lock to the longest waiter once it has waited for more than a millisecond, and by the
contexts, which end every exchange (`GiveUp` is one of the steps). Nothing is assumed of Pi-hole: it
may never answer. Starting a scrape or a logout is not fair either.

`FairLifecycle` asks for weak fairness of Main's steps and of the stopper's (goroutines get to run;
a step of theirs stays enabled until taken), strong fairness of each goroutine's steps inside the
client, for the reason above, and weak fairness of `Close` during a drain: `server.Shutdown` closes idle
connections, and `ReadHeaderTimeout` those that send no request. `ProcessEnds` needs it: the drain's limit
alone does not end the drain here, since nothing makes the clock move. No fairness is asked of signals,
requests, the reader's interval, Pi-hole or the clock.

`Collector`, `Metrics`, `Config`, `MetricGen` and `PiholeMock` have safety properties only; that the
generator ends follows from the variant in `GeneratorProceeds`, as long as it runs.

## Findings

- **A scrape may outlast its timeout** (`deadline`). README.md:144 of the program calls
  `SCRAPE_TIMEOUT` the "Timeout for each Pi-hole scrape". The deadline bounds each exchange, but
  `sync.Mutex.Lock` (auth.go:120) does not watch it: a scrape that needs `mu` while another renews
  the session waits for that one's exchanges, and goes on after its own deadline. Once it has `mu`,
  its request fails at once, so it never reports a late success (`SuccessIsTimely`).
- The skew of 30 s covers a login of at most 30 s. `CachedSessionIsLive` needs
  `Timeout <= RefreshSkew`; the default timeout of 10 s satisfies it, a `SCRAPE_TIMEOUT` above 30 s
  does not. The consequence is mild (a 401 and the retry).
- **A seat may be left at shutdown** (`lifecycle_freed`). README.md:123 of the program says that it
  "Releases its Pi-hole session on `SIGTERM`/`SIGINT`, so the API seat is freed at shutdown rather
  than left to expire". A scrape may take 10 s, the drain is given 5 (main.go:28, 78-80): if it times
  out, `Logout` deletes the session under the running scrape, which finds none at its next endpoint and logs
  in again; the process exits with the seat taken. The trace has every exchange answered, no eviction and no
  delay but Pi-hole's (`Orderly`). `ReleasedAtExit` is what does hold.
- **Readiness may go back in time** (`collector_recent`). "Ready reports whether the most recent
  scrape reached Pi-hole" (collector.go:123). Of two overlapping scrapes the older one may store its
  outcome last (collector.go:89, 99), and the flag then holds it until the next scrape.
- **`scrape_success 0` is never scraped** (`collector_shown`). README.md:438 documents the value 0
  for a failed scrape. The collector sends it together with an invalid metric (collector.go:90-95),
  and promhttp's default answers such a result with 500 and no series. The package's test reads the
  0 from the registry and drops the error that comes with it (collector_test.go:246-248). OpenTelemetry does export the 0 (`SameSeries`).

Smaller observations, without a run of their own:

- The image's `HEALTHCHECK` runs `-healthcheck` alone (Dockerfile:20-21), where integration_test.go:69
  says it runs exactly `-healthcheck -listen <addr>`: an exporter started with `-listen` instead of
  `LISTEN_ADDR` may be found unhealthy. `HealthCheckTells` says what holds.
- The mock takes the first expectation that matches and never reconsiders, so that "Expectations match
  in any order" (mock.go:30) holds only when no request matches two of them (`FitsMeansPass`).
- The generator looks a local `#/...` reference up in the main document even when it stands in
  another one, and does not follow a reference to a reference; `TableIsMeant` is about documents
  without either.
- When accepting connections fails without a signal, `run` releases the session without a drain.

## Proofs

Assumed: the named assumptions on the constants, and for `CachedSessionCorrect` also
`Timeout <= RefreshSkew`. The number of callers, connections, scrapes, endpoints, sessions, requests,
rows, JSON values, documents and settings and all durations are arbitrary; `Callers` need not be finite.

| Assumption | What it says, and why the code justifies it |
|---|---|
| `PiholeAssumption`, `AuthClientAssumption`, `LifecycleAssumption` | numbers are naturals, lives and timeouts positive; the main goroutine and the reader are two of the callers, and an unlocked mutex is held by none of them |
| `PlansAssumption` | what a test can declare with `Expect`, `Times` and `After` |
| `OrderAssumption` (`Metrics`, `MetricGen`) | Go's comparison of strings is a strict total order |
| `DocumentsAssumption` | the shape of documents: what can be reached from a path is one of its schemas, and an object has finitely many members |
| `MeaningAssumption` | what a schema says follows from what its parts say |
| `NumbersAssumption` | 0 and 1, which booleans become, are numbers |
| `JsonAssumption` | a JSON value is a scalar of one kind or an object with finitely many JSON members |
| `AnswersAssumption` | an endpoint answers JSON |
| `SpecsAssumption` | the table has distinct names, none of them `scrape_success`, and paths of one or two parts. `MCMetrics` asks it of the whole compiled table (`TableAssumption`), and the run `metricgen` finds the table to be what the generator makes |
| `InputsAssumption`, `StringsAssumption` | the shape of what an operator can write, and the texts the code compares with (`StringsAssumption` of `MetricGen`: `took` and the labels) |
| `DurationAssumption` | `Limit`, `Second` and `Default` are positive |
| `NoneAssumption` | no value is `None` |

### AuthClient

`AuthClientProofs` proves `Spec => []IInv`. None of the properties is inductive alone. The argument:

- `Exclusion`: a caller in an exchange under `mu` holds `mu`, and the cache is empty meanwhile (each
  renewal clears it first). Hence at most one session is answered for (`HeldIsUnique`), which with
  `SeatsAccountedFor` gives `OneSeat`.
- `Granted`, `Fresh`: sessions are numbered, and one that is still in a login reply is known to no
  other caller. Hence a session stored in the cache is none that anybody was rejected for.
- `Rejections`: a rejected or deleted session is out of Pi-hole's table and stays so (`GoneForGood`);
  past `Invalidate` it is not in the cache. Hence the retry uses another session, and a session
  `Invalidate` discards is dead (`LiveSessionKept`).
- `Expiry`: the client's expiry is never earlier than Pi-hole's. Hence the DELETE that is skipped
  would have had nothing to free.
- `Punctual`, `Lag`: a login is accepted within one scrape timeout of its start, so the client's
  expiry is later than Pi-hole's by at most that. Hence the skew suffices.
- `Named`: requests carry sessions where they should.
- `Asked`: a caller has a request under way exactly while it is in an exchange.

Each conjunct has a lemma with one step per action (`TypeStep`, `ExclusionStep`, ...), which assumes
only the conjuncts it needs.

That every call returns is liveness, but what it rests on is safety and proved. `StepsLeft(c)` is a
variant: a number that every step of `c` lowers and no step of anybody else raises
(`CallsRunOutCorrect`); the retry is counted in it, which is where "once" matters. `CallsAreShort`
bounds it by 15 steps to an endpoint. `NobodyIsStuck` adds that the waits form no circle: a caller that
waits for `mu` waits for its holder, who by `Exclusion` is in an exchange, and an exchange ends. What is
left to TLC is that the scheduler lets them.

`SeatLeaseProofs` proves `Spec => ImplementsSeatLease` under the mapping `seats <- Seats`,
`issued <- 1..lastSid`, `lease <- Held`: `HandleLogin` is Take, `HandleStrayLogin` is Lose,
`HandleDelete`, `HandleStrayLogout`, `Evict` and `Tick` are Free, a `Refresh`, `Logout` or
`Invalidate` that drops a dead session is Forget, a failed DELETE or a lost login is Abandon, and
everything else is a stutter.

### Lifecycle

`ImplementsAuthClient`: every step of the process is a step of AuthClient or leaves it alone, so that
`Invariance` and all that follows from it hold inside the process; `OneSeatInProcess` is one such
consequence. `ReleasedAtExit` is not inductive: it says nothing before the exit. `ProcessInv` adds

- `Connections`: the listener is closed once the stopper has acted, so a drained server stays empty; with
  a push exporter no connection scrapes;
- `InCall`: a goroutine is in a call only while its handler, the reader's loop, the last collection
  or `Logout` runs;
- `Released`: from `Logout` on, after a drained shutdown, the cache stays empty, because nobody else
  is in a call (`OthersIdle`).

`ShutdownNeverStuckCorrect` is the same argument one level up: Main waits for `served` or `stopped`, the
stopper for a signal, `served`, the connections or its limit, a connection for its scrape, and a scrape for
`mu` or an exchange (`SomebodyCanStep` of AuthClient); no arrow leads back. `ProcessKeepsLease` composes
`ImplementsAuthClient` with the refinement of `SeatLease`.

At the exit the cache is empty and nobody holds a session, so `Held` is empty, and
`SeatsAccountedFor` of AuthClient leaves the lost seats only.

### Collector

The invariant ties the flag to the history: the flag is false until a scrape has succeeded
(`FlagNeedsSuccess`), what a scrape has sent follows its outcome (`SentFollowsOutcome`), and if the
latest scrape ran alone, every other has stored before it began (`LatestAlone`), which is why
nothing can overwrite its outcome.

### PiholeMock

`Counted` (the counters are the cardinalities of what was taken), `TakenInOrder` (what was taken
matches, and what its expectation must follow is complete, so it can take nothing more), `Ordered`
and `Remembered`. `PassingTestFits` gives the mock's own assignment as the witness.

`FittingTestPasses` is the converse, when no request matches two expectations. A second invariant
keeps why a request was refused: of the first one refused, everything before it was taken, and every
expectation it matches was used up or waits for one that is not complete (`FirstRefusal`). If the
requests can be assigned at all, the assignment agrees with the mock's up to there (`MockFollows`),
and then either reason contradicts it (`FittingIsTaken`).

### Metrics

The properties speak of a finished scrape; `Inv` says what holds in the middle of one:

- `Progress`: what has been asked and what is still to do add up to the table;
- `Collected`: as long as nothing failed, every body is an object, no row done was unreadable, and the
  metrics are exactly what the rows done are `Expected` to give, each series once;
- `Sorted`, `Failure`: the order after `Finish`; after a failure, a cause in the bodies;
- `Registry`, `Observed`: what each exporter shows is the metrics returned.

The heart is `ExtractCorrect`: `Extract` returns the metrics that `Expected` reads out of all the nodes
of the body, and fails exactly if the field is `Unreadable`. It rests on `LookupFinds`: what `Lookup`
reaches is the one node with the path. `Lookup` is a recursive function; with paths of one or two
parts it is unfolded (`LookupFirst`, `LookupSecond`) and needs no induction. `Joined` says why no
series comes twice when the metrics of another row are appended (names are distinct across rows, keys
within one), `Rearranged` why any sorting permutation of distinct series is strictly ordered.
`RegistryAccepts` and `ExportersAgree` are the same fact, used by the registry's check for duplicates
and by the last observation of a series being its only one.

### Config

`ConfigInv` says what `config` is once accepted (`Read(given)`, complete, its exporter known, the
password gone), what `BuildServer` has made of it, and where the server listens. The properties follow
from it by looking at `Read`; `DurationsAreHonoured` needs that `Wrap` is the identity on what fits
(`WrapFits`), for any `Limit`, and `HealthCheckIsRight` that the address a probe works out is the one
the server is bound to (`ProbeTells`).

### MetricGen

`TableIsMeant` speaks of the table at the end. The invariant says what holds on the way: whichever
endpoints have been taken, the rows found and the rows that the tasks on the stack will give
(`Gives`, from the meaning of their schemas) are together exactly those that these endpoints mean,
each of them once (`Accounts`). A step either replaces the first task by parts that give the same rows
(`Unfolds`: `allOf`, an object's members), by one row (`Lists`) or by none (`Skips`), or takes one more
endpoint (`Takes`). With no endpoint left and an empty stack, the rows found are all that is meant, and
`Finish` orders them: `ArrangedSorts` says that counting the smaller elements gives every place of the
table to one row, because a strict total order gives no two elements the same count and leaves no count
out (`BelowGrows`, `PlacesTaken`). That the order of the table is strict and total on rows, whose
endpoint, path and label determine them, is `RowsTransitive` and `RowsTotal`.

The equation holds for documents that are `WellWritten`, the condition in `TableIsMeant`. References must name their file and lead to a schema, and the parts of an `allOf` must not repeat
each other where they stand, or a row would come twice. `TypeOK`, and that a table is in order
(`InTableOrder`), hold for any documents. Cycles of references are not excluded from `TableIsMeant`: the
theorem then says what a table would hold, and not that there is one.

`TableIsDetermined` follows: a listing of a set in a strict total order has each element at the place the
number of smaller ones gives (`PlaceInListing`), so there is only one (`OneListing`), and two runs
on one document cannot disagree.

`GeneratorProceedsCorrect` is the reason why `collectSchema` ends: the visits left on the stack are a
finite set of pairs (task, number), and a step that replaces a task by its parts maps the new ones into the
old ones, each to a place of its own and none to the last visit of that task (`UsesUp`). With the endpoints
left this is a lexicographic variant. For an object's members the map goes through the sorted keys, of which
there is one for each member (`MembersPushed`, `VisitsRenamed`).

### Only model-checked

- Liveness (`EveryCallReturns`, `ProcessEnds`) and the refutations. The variants and the
  absence of circular waits that they rest on are proved; fairness is what the provers cannot use.
- `TableIsCompiled`, which is about one document and 21 rows, and `NamesDistinct`: nothing in the
  generator tells `a/b_c` from `a_b/c`, so that it is in the end true of documents.
- That documents have a meaning and, without cycles, a number of visits. Both are defined by recursion on
  schemas, and that the recursion satisfies `MeaningAssumption` (or `Acyclic`) for every document would
  need induction over them; TLC evaluates it for the documents of the run.

## Not modelled

- URL, header and JSON formatting; logging, usage and help texts.
- Transport-level retries of `net/http`, redirects, connection reuse: an exchange succeeds once or
  fails.
- Clock steps and different clock rates.
- `AuthClient.Session` and `GetJSONMap` called by another program with a context without deadline:
  the exporter always sets one. (With the library API, `EveryCallReturns` would depend on it.)
- The export itself (OTLP, stdout): it belongs to the OpenTelemetry SDK. A failed export does not
  touch the exporter's state.
- The generator's reading and downloading of files, its parsing of YAML and `render`; cycles of
  references, on which it recurses without end.
- The cache of Prometheus descriptors: a cached one equals a new one.
- Fixtures, scenarios and the stub of `piholetest`; dashboards and workflows: data, no behaviour.

## Plan

What could come next: several connections in the liveness run of `Lifecycle`; names as sequences of words,
so that a condition on the field names of a document can imply `NamesDistinct`; and, with a prover that can use
induction, that every document without cycles of references has exactly one meaning.
