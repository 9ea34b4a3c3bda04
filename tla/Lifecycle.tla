----------------------------- MODULE Lifecycle -----------------------------
(***************************************************************************)
(* cmd/pihole-exporter: the process around the AuthClient.  buildServer    *)
(* makes the client and what scrapes through it, run serves HTTP until it  *)
(* fails or a signal comes, and the deferred shutdown releases the Pi-hole *)
(* session.  Every step of a scrape or of Logout is a step of AuthClient.  *)
(*                                                                         *)
(* Callers are the goroutines that may use the client: Main (in Logout),   *)
(* one per HTTP connection, and the periodic Reader of an OpenTelemetry    *)
(* exporter (Push).  Connections come with every exporter, for /healthz    *)
(* and /alive, but only without Push is there a /metrics that scrapes; a   *)
(* behaviour is of one kind or the other from its start.  Main's phase:    *)
(*                                                                         *)
(*   starting    buildServer has returned, ListenAndServe not yet called   *)
(*   serving     in ListenAndServe                                         *)
(*   joining     served is closed, waiting for stopped                     *)
(*   cancelling  in provider.Shutdown, waiting for the Reader's loop       *)
(*   flushing    in provider.Shutdown, the Reader collects a last time     *)
(*   releasing   in client.Logout                                          *)
(*   exited      run has returned and the process is gone                  *)
(*   killed      SIGKILL or a crash: gone without any of it                *)
(*                                                                         *)
(* The stopper is the goroutine run starts: waiting for a signal, draining *)
(* in server.Shutdown, then drained or timedout; or unneeded, when         *)
(* ListenAndServe ended by itself.                                         *)
(***************************************************************************)
EXTENDS AuthClient

CONSTANTS
    Main,   \* the main goroutine
    Reader  \* the periodic reader of the OpenTelemetry SDK

ASSUME LifecycleAssumption ==
    /\ Main \in Callers
    /\ Reader \in Callers \ {Main}

VARIABLES
    phase,      \* where the main goroutine is
    stopper,    \* where the goroutine that awaits the signal is
    signalled,  \* run's ctx is done
    listening,  \* the server accepts connections
    conn,       \* each connection: closed, new (no request read yet) or active
    reader,     \* the Reader's loop: running or stopped, or none with Prometheus
    stopBy      \* deadline of the latest shutdown context

processVars == <<phase, stopper, signalled, listening, conn, reader, stopBy>>
allVars == <<vars, processVars>>

Ended == {"exited", "killed"}
Alive == phase \notin Ended
\* The metrics exporter is an OpenTelemetry one.
Push == reader # "none"
\* The goroutines net/http serves connections in, one each.
Handlers == Callers \ {Main, Reader}
Idle(c) == pc[c] \in AtRest
AllClosed == \A c \in Callers : conn[c] = "closed"

\* Mutant: the channel is left open.
ServedNever == FALSE

\* run has closed served.
Served == phase \notin {"starting", "serving"}

LifecycleInit ==
    /\ Init
    /\ phase = "starting"
    /\ stopper = "waiting"
    /\ signalled = FALSE
    /\ listening = FALSE
    /\ conn = [c \in Callers |-> "closed"]
    /\ reader \in {"none", "running"}
    /\ stopBy = 0

-----------------------------------------------------------------------------
(* Signals and the HTTP server                                             *)

\* SIGTERM or SIGINT.  Later ones change nothing: ctx is done already.
Signal ==
    /\ Alive /\ ~signalled
    /\ signalled' = TRUE
    /\ UNCHANGED <<vars, phase, stopper, listening, conn, reader, stopBy>>

\* ListenAndServe binds and serves, or fails; it fails at once when
\* server.Shutdown came first.  served is closed on return.
Listen ==
    /\ phase = "starting"
    /\ \/ stopper = "waiting" /\ phase' = "serving" /\ listening' = TRUE
       \/ phase' = "joining" /\ UNCHANGED listening
    /\ UNCHANGED <<vars, stopper, signalled, conn, reader, stopBy>>

\* ListenAndServe returns: the listener was closed, or accepting failed.
ServeReturns ==
    /\ phase = "serving"
    /\ phase' = "joining"
    /\ listening' = FALSE
    /\ UNCHANGED <<vars, stopper, signalled, conn, reader, stopBy>>

\* A client connects.
Accept(c) ==
    /\ Alive /\ listening
    /\ c \in Handlers /\ conn[c] = "closed" /\ Idle(c)
    /\ conn' = [conn EXCEPT ![c] = "new"]
    /\ UNCHANGED <<vars, phase, stopper, signalled, listening, reader, stopBy>>

\* A drain has lasted its time.  ReadHeaderTimeout is as long, and nobody has
\* connected since it began: no connection sends its first request any more.
DrainOver == stopper = "draining" /\ stopBy <= now

\* A connection's request for /metrics is read: its handler scrapes.  One for
\* /healthz or /alive is answered at once and leaves the connection as it was.
Request(c) ==
    /\ Alive /\ ~Push /\ conn[c] = "new" /\ ~DrainOver
    /\ Collect(c)
    /\ conn' = [conn EXCEPT ![c] = "active"]
    /\ UNCHANGED <<phase, stopper, signalled, listening, reader, stopBy>>

\* The connection ends: by its client, after its response, or because
\* ReadHeaderTimeout passed without a request.
Close(c) ==
    /\ Alive /\ conn[c] # "closed" /\ Idle(c)
    /\ conn' = [conn EXCEPT ![c] = "closed"]
    /\ UNCHANGED <<vars, phase, stopper, signalled, listening, reader, stopBy>>

\* The select of the stopper takes the signal and calls server.Shutdown,
\* which closes the listener.
Stop ==
    /\ Alive /\ stopper = "waiting" /\ signalled
    /\ stopper' = "draining"
    /\ listening' = FALSE
    /\ stopBy' = now + ShutdownTimeout
    /\ UNCHANGED <<vars, phase, signalled, conn, reader>>

\* The select takes served instead: there is no server to stop.
NothingToStop ==
    /\ Alive /\ stopper = "waiting" /\ Served
    /\ stopper' = "unneeded"
    /\ UNCHANGED <<vars, phase, signalled, listening, conn, reader, stopBy>>

\* server.Shutdown returns: no connection is left, or its context is done and
\* those without a request have been closed by ReadHeaderTimeout.
Drained ==
    /\ Alive /\ stopper = "draining"
    /\ \/ AllClosed /\ stopper' = "drained"
       \/ DrainOver /\ (\A c \in Callers : conn[c] # "new") /\ stopper' = "timedout"
    /\ UNCHANGED <<vars, phase, signalled, listening, conn, reader, stopBy>>

-----------------------------------------------------------------------------
(* The deferred shutdown                                                   *)

\* Mutant: run does not wait for the stopper.
JoinedEarly ==
    /\ phase = "joining"
    /\ stopBy' = now + ShutdownTimeout
    /\ IF Push THEN phase' = "cancelling" /\ UNCHANGED vars
               ELSE phase' = "releasing" /\ BeginLogout(Main)
    /\ UNCHANGED <<stopper, signalled, listening, conn, reader>>

\* Mutant: the session is released before the provider is shut down.
JoinedReleasing ==
    /\ phase = "joining"
    /\ stopper \notin {"waiting", "draining"}
    /\ stopBy' = now + ShutdownTimeout
    /\ phase' = "releasing" /\ BeginLogout(Main)
    /\ UNCHANGED <<stopper, signalled, listening, conn, reader>>

\* The stopper is done.  Shutdown stops the provider, if there is one, and
\* releases the session.
Joined ==
    /\ phase = "joining"
    /\ stopper \notin {"waiting", "draining"}
    /\ stopBy' = now + ShutdownTimeout
    /\ IF Push THEN phase' = "cancelling" /\ UNCHANGED vars
               ELSE phase' = "releasing" /\ BeginLogout(Main)
    /\ UNCHANGED <<stopper, signalled, listening, conn, reader>>

\* The interval has passed: the Reader's loop runs the callback.
ReaderTick ==
    /\ Alive /\ reader = "running" /\ phase # "cancelling"
    /\ Collect(Reader)
    /\ UNCHANGED processVars

\* provider.Shutdown has stopped the loop and collects a last time.
FinalCollection ==
    /\ phase = "cancelling"
    /\ Collect(Reader)
    /\ phase' = "flushing"
    /\ reader' = "stopped"
    /\ UNCHANGED <<stopper, signalled, listening, conn, stopBy>>

\* provider.Shutdown returns, whatever became of it, and Logout begins.
Flushed ==
    /\ phase = "flushing" /\ Idle(Reader)
    /\ BeginLogout(Main)
    /\ phase' = "releasing"
    /\ stopBy' = now + ShutdownTimeout
    /\ UNCHANGED <<stopper, signalled, listening, conn, reader>>

\* Logout has returned, and so do run and main.
Exit ==
    /\ phase = "releasing" /\ Idle(Main)
    /\ phase' = "exited"
    /\ UNCHANGED <<vars, stopper, signalled, listening, conn, reader, stopBy>>

Kill ==
    /\ Alive
    /\ phase' = "killed"
    /\ UNCHANGED <<vars, stopper, signalled, listening, conn, reader, stopBy>>

-----------------------------------------------------------------------------
\* The goroutines of the client run as long as the process does.
Run(c) == Alive /\ Step(c) /\ UNCHANGED processVars

\* What Pi-hole still does with requests it has received, dead process or not.
Network ==
    /\ \/ \E c \in Callers : Handle(c)
       \/ HandleStrayLogin
       \/ \E s \in Sids : HandleStrayLogout(s) \/ Evict(s)
    /\ UNCHANGED processVars

\* A second passes.  Main and the stopper do not linger, and what they wait
\* for ends with its context.
Second ==
    /\ Tick
    /\ phase \notin {"joining", "cancelling"} \/ (phase = "joining" /\ stopper = "draining")
    /\ phase = "serving" => listening
    /\ stopper = "waiting" => ~signalled /\ ~Served
    /\ stopper = "draining" => now < stopBy /\ ~AllClosed
    /\ phase = "flushing" => now < stopBy /\ ~Idle(Reader)
    /\ phase = "releasing" => ~Idle(Main)
    /\ UNCHANGED processVars

MainStep == Listen \/ (~listening /\ ServeReturns) \/ Joined \/ FinalCollection \/ Flushed \/ Exit
StopperStep == Stop \/ NothingToStop \/ Drained

LifecycleNext ==
    \/ Signal \/ Listen \/ ServeReturns \/ StopperStep
    \/ \E c \in Callers : Accept(c) \/ Request(c) \/ Close(c) \/ Run(c)
    \/ Joined \/ ReaderTick \/ FinalCollection \/ Flushed \/ Exit \/ Kill
    \/ Network \/ Second

LifecycleSpec == LifecycleInit /\ [][LifecycleNext]_allVars

\* Goroutines get to run, and during a drain net/http closes a connection that
\* has been answered, or that sends no request within ReadHeaderTimeout.
FairLifecycle ==
    /\ LifecycleSpec
    /\ WF_allVars(MainStep) /\ WF_allVars(StopperStep)
    /\ \A c \in Callers : SF_allVars(Run(c)) /\ WF_allVars(stopper = "draining" /\ Close(c))

-----------------------------------------------------------------------------
(* Properties                                                              *)

\* The variables stay in their types, and the shutdown in its order: the
\* session is released only after the stopper is done (main.go:91-93).
LifecycleTypeOK ==
    /\ phase \in {"starting", "serving", "joining", "cancelling", "flushing", "releasing"} \cup Ended
    /\ stopper \in {"waiting", "draining", "drained", "timedout", "unneeded"}
    /\ signalled \in BOOLEAN /\ listening \in BOOLEAN
    /\ conn \in [Callers -> {"closed", "new", "active"}]
    /\ reader \in {"none", "running", "stopped"}
    /\ stopBy \in Nat
    /\ phase \in {"cancelling", "flushing"} => Push
    /\ phase \in {"cancelling", "flushing", "releasing", "exited"} => stopper \notin {"waiting", "draining"}

\* After a drained shutdown no scrape can take a seat behind Logout's back:
\* what Pi-hole still holds when the process is gone was lost to a failed
\* exchange.  So run waits for stopped before the session is released, and the
\* provider's last collection comes before it (main.go:93, 130-139).
ReleasedAtExit ==
    phase = "exited" /\ (Push \/ stopper \notin {"timedout", "unneeded"}) => Seats \subseteq abandoned

\* Once a signal has come, or serving has failed, the process ends: nobody
\* waits for a channel that is never closed or a drain that never returns
\* (main.go:72-93).
ProcessEnds == (signalled \/ phase = "joining") ~> ~Alive

\* What the main goroutine waits for has come.
MainCan ==
    \/ phase = "starting"
    \/ phase = "serving" /\ ~listening
    \/ phase = "joining" /\ stopper \notin {"waiting", "draining"} /\ (Push \/ Idle(Main))
    \/ phase = "cancelling" /\ Idle(Reader)
    \/ phase = "flushing" /\ Idle(Reader) /\ Idle(Main)
    \/ phase = "releasing" /\ Idle(Main)

\* What the stopper waits for has come.
StopperCan ==
    \/ stopper = "waiting" /\ (signalled \/ Served)
    \/ stopper = "draining" /\ AllClosed
    \/ DrainOver /\ \A c \in Callers : conn[c] # "new"

\* Once it is to end, the process is never stuck, at whatever moment of a start,
\* a scrape, a renewal or a drain the signal came: Main, the stopper, a call or
\* an idle connection can go on, without any timer (main.go:72-93, 96-163).
ShutdownNeverStuck ==
    Alive /\ (signalled \/ phase \notin {"starting", "serving"}) =>
        MainCan \/ StopperCan \/ \E c \in Callers : (conn[c] # "closed" /\ Idle(c)) \/ CanStep(c)

\* "Releases its Pi-hole session on SIGTERM/SIGINT, so the API seat is freed
\* at shutdown rather than left to expire" (README.md:123): with every
\* exchange answered, no seat is left.  It does not hold: a scrape still in
\* flight when the drain is over finds its session deleted and logs in again.
SeatFreedAtShutdown ==
    phase = "exited" /\ stopper \in {"drained", "timedout"} /\ abandoned = {} => Seats = {}
=============================================================================
