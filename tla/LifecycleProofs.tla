-------------------------- MODULE LifecycleProofs --------------------------
(***************************************************************************)
(* Proofs about Lifecycle, for any number of connections and any of the    *)
(* durations.  Every step of the process is a step of AuthClient or leaves *)
(* it alone, so what AuthClientProofs shows of the client holds inside the *)
(* process.  On top of that the process's own invariant says which         *)
(* goroutines still use the client when Logout begins.                     *)
(***************************************************************************)
EXTENDS Lifecycle, SeatLeaseProofs

\* The listener is open only while serving and before the stopper has acted;
\* only handlers have a connection, it scrapes only without an OpenTelemetry
\* exporter, and a drained server has none left.
Connections ==
    /\ listening => phase \in {"serving", "killed"} /\ stopper = "waiting"
    /\ \A c \in Callers \ Handlers : conn[c] = "closed"
    /\ Push => \A c \in Callers : conn[c] # "active"
    /\ stopper = "drained" => AllClosed

\* A goroutine is in a call only while a handler, the Reader's loop or the
\* last collection, or Main's Logout runs.
InCall ==
    /\ \A c \in Callers \ {Main, Reader} : conn[c] # "active" => Idle(c)
    /\ phase \in {"releasing", "exited"} => reader # "running"
    /\ phase = "flushing" => reader = "stopped"
    /\ reader # "running" /\ phase \notin {"flushing", "killed"} => Idle(Reader)
    /\ pc[Main] \in AtRest \cup {"logout", "release"}
    /\ phase \notin {"releasing", "killed"} => Idle(Main)

\* Nobody else can use the client any more.
Clean == Push \/ stopper \notin {"timedout", "unneeded"}

\* Behind Logout no session is cached again.
Released ==
    phase \in {"releasing", "exited"} /\ Clean /\ pc[Main] # "logout" => session = EmptySession

ProcessInv == LifecycleTypeOK /\ Connections /\ InCall /\ Released

-----------------------------------------------------------------------------
(* Lemmas about the steps of AuthClient                                    *)

\* Only a goroutine in a call takes steps of its own, and it moves nobody else.
LEMMA StepLocal ==
    ASSUME TypeOK, NEW c \in Callers, Step(c)
    PROVE  /\ ~Idle(c)
           /\ \A d \in Callers \ {c} : pc'[d] = pc[d]
<1> USE DEF TypeOK, CallTypeOK
<1>1. ~Idle(c)
  BY DEF Step, UseCached, Refresh, Deleted, LoggedIn, LoginFailed, NextEndpoint, Collected, Rejected,
    GetFailed, Invalidate, Logout, LoggedOut, GiveUp, Idle, AtRest, Exchanging, Locked
<1>2. ASSUME NEW d \in Callers \ {c} PROVE pc'[d] = pc[d]
  <2>1. CASE UseCached(c) \/ Refresh(c) \/ Deleted(c) \/ LoggedIn(c)
    BY <2>1 DEF UseCached, Refresh, Deleted, LoggedIn, Send
  <2>2. CASE LoginFailed(c) \/ NextEndpoint(c) \/ Collected(c) \/ Rejected(c) \/ GetFailed(c) \/ Invalidate(c)
    BY <2>2 DEF LoginFailed, NextEndpoint, Collected, Rejected, GetFailed, Invalidate, Return, GoTo
  <2>3. CASE Logout(c) \/ LoggedOut(c) \/ GiveUp(c)
    BY <2>3 DEF Logout, LoggedOut, GiveUp, Send, Return, GoTo
  <2> QED  BY <2>1, <2>2, <2>3 DEF Step
<1> QED  BY <1>1, <1>2

\* What Main's goroutine does in Logout.
LEMMA LogoutStep ==
    ASSUME TypeOK, Step(Main), pc[Main] \in {"logout", "release"}
    PROVE  /\ session' \in {session, EmptySession}
           /\ pc[Main] = "logout" => session' = EmptySession
           /\ pc'[Main] \in AtRest \cup {"release"}
<1> USE LifecycleAssumption DEF TypeOK, CallTypeOK
<1>1. CASE Logout(Main)  BY <1>1 DEF Logout, Send, Return, GoTo, AtRest
<1>2. CASE LoggedOut(Main)  BY <1>2 DEF LoggedOut, Return, GoTo, AtRest
<1>3. CASE GiveUp(Main)  BY <1>3 DEF GiveUp, Reply, Exchanging, Locked
<1> QED
  BY <1>1, <1>2, <1>3 DEF Step, UseCached, Refresh, Deleted, LoggedIn, LoginFailed, NextEndpoint,
    Collected, Rejected, GetFailed, Invalidate

\* A scrape or a Logout begins.
LEMMA BeginLocal ==
    ASSUME TypeOK, NEW c \in Callers, Collect(c) \/ BeginLogout(c)
    PROVE  /\ session' = session
           /\ Collect(c) => pc' = [pc EXCEPT ![c] = "session"]
           /\ BeginLogout(c) => pc' = [pc EXCEPT ![c] = "logout"]
  BY DEF Collect, BeginLogout, GoTo

\* Pi-hole and the clock move no goroutine and leave the cache alone.
LEMMA NetworkLocal ==
    ASSUME Network \/ Second
    PROVE  UNCHANGED <<pc, session, processVars>>
  BY DEF Network, Second, Handle, HandleLogin, HandleDelete, HandleGet, Refuse, HandleStrayLogin,
    HandleStrayLogout, Evict, Tick, callVars

-----------------------------------------------------------------------------
(* The process implements AuthClient                                       *)

\* Whatever the process does is something AuthClient's callers may do.
LEMMA ClientStep == [LifecycleNext]_allVars => [Next]_vars
<1> USE LifecycleAssumption DEF Next, Begin
<1>1. ASSUME Signal \/ Listen \/ ServeReturns \/ StopperStep \/ Exit \/ Kill PROVE UNCHANGED vars
  BY <1>1 DEF Signal, Listen, ServeReturns, StopperStep, Stop, NothingToStop, Drained, Exit, Kill
<1>2. ASSUME NEW c \in Callers, Accept(c) \/ Close(c) PROVE UNCHANGED vars  BY <1>2 DEF Accept, Close
<1>3. ASSUME NEW c \in Callers, Request(c) PROVE Next  BY <1>3 DEF Request
<1>4. ASSUME NEW c \in Callers, Run(c) PROVE Next  BY <1>4 DEF Run
<1>5. ASSUME Joined PROVE [Next]_vars  BY <1>5 DEF Joined
<1>6. ASSUME ReaderTick \/ FinalCollection \/ Flushed PROVE Next
  BY <1>6 DEF ReaderTick, FinalCollection, Flushed
<1>7. ASSUME Network PROVE Next  BY <1>7 DEF Network, Environment
<1>8. ASSUME Second PROVE Next  BY <1>8 DEF Second, Environment
<1>9. ASSUME UNCHANGED allVars PROVE UNCHANGED vars  BY <1>9 DEF allVars
<1> QED  BY <1>1, <1>2, <1>3, <1>4, <1>5, <1>6, <1>7, <1>8, <1>9 DEF LifecycleNext

\* Inside the process the AuthClient behaves as AuthClient specifies, so all
\* that is proved of it holds here: one seat, no retry under a dead session,
\* success only in time (main.go:96-163 adds callers, never a way around).
THEOREM ImplementsAuthClient == LifecycleSpec => Spec
<1>1. LifecycleInit => Init  BY DEF LifecycleInit
<1> QED  BY <1>1, ClientStep, PTL DEF LifecycleSpec, Spec

-----------------------------------------------------------------------------
(* The invariant of the process                                            *)

\* Every step of the process keeps its types.
LEMMA LifecycleTypeStep ==
    ASSUME TypeOK, LifecycleTypeOK, [LifecycleNext]_allVars
    PROVE  LifecycleTypeOK'
<1> USE LifecycleAssumption, AuthClientAssumption DEF LifecycleTypeOK, Push, Ended, Alive, processVars
<1>1. CASE Signal  BY <1>1 DEF Signal
<1>2. CASE Listen  BY <1>2 DEF Listen
<1>3. CASE ServeReturns  BY <1>3 DEF ServeReturns
<1>4. CASE Stop
  <2>1. now + ShutdownTimeout \in Nat  BY DEF TypeOK, PiholeTypeOK
  <2>2. UNCHANGED <<phase, signalled, conn, reader>> /\ stopper = "waiting" /\ stopper' = "draining"
          /\ listening' = FALSE /\ stopBy' = now + ShutdownTimeout
    BY <1>4 DEF Stop
  <2> QED  BY <2>1, <2>2
<1>5. CASE NothingToStop  BY <1>5 DEF NothingToStop, Served
<1>6. CASE Drained  BY <1>6 DEF Drained
<1>7. ASSUME NEW c \in Callers, Accept(c) \/ Request(c) \/ Close(c) PROVE LifecycleTypeOK'
  BY <1>7 DEF Accept, Request, Close
<1>8. ASSUME NEW c \in Callers, Run(c) PROVE LifecycleTypeOK'  BY <1>8 DEF Run
<1>9. CASE Joined  BY <1>9 DEF Joined, TypeOK, PiholeTypeOK
<1>10. CASE ReaderTick  BY <1>10 DEF ReaderTick
<1>11. CASE FinalCollection  BY <1>11 DEF FinalCollection
<1>12. CASE Flushed  BY <1>12 DEF Flushed, TypeOK, PiholeTypeOK
<1>13. CASE Exit  BY <1>13 DEF Exit
<1>14. CASE Kill  BY <1>14 DEF Kill
<1>15. CASE Network \/ Second  BY <1>15, NetworkLocal
<1>16. CASE UNCHANGED allVars  BY <1>16 DEF allVars
<1> QED
  BY <1>1, <1>2, <1>3, <1>4, <1>5, <1>6, <1>7, <1>8, <1>9, <1>10, <1>11, <1>12, <1>13, <1>14, <1>15, <1>16
  DEF LifecycleNext, StopperStep

\* Every step keeps the invariant about connections.
LEMMA ConnectionsStep ==
    ASSUME LifecycleTypeOK, Connections, [LifecycleNext]_allVars
    PROVE  Connections'
<1> USE LifecycleAssumption DEF LifecycleTypeOK, Connections, Handlers, Push, AllClosed, Ended, Alive, processVars
<1>1. CASE Signal  BY <1>1 DEF Signal
<1>2. CASE Listen  BY <1>2 DEF Listen
<1>3. CASE ServeReturns  BY <1>3 DEF ServeReturns
<1>4. CASE Stop  BY <1>4 DEF Stop
<1>5. CASE NothingToStop  BY <1>5 DEF NothingToStop, Served
<1>6. CASE Drained  BY <1>6 DEF Drained
<1>7. ASSUME NEW c \in Callers, Accept(c) \/ Request(c) \/ Close(c) PROVE Connections'
  BY <1>7 DEF Accept, Request, Close
<1>8. ASSUME NEW c \in Callers, Run(c) PROVE Connections'  BY <1>8 DEF Run
<1>9. CASE Joined  BY <1>9 DEF Joined
<1>10. CASE ReaderTick  BY <1>10 DEF ReaderTick
<1>11. CASE FinalCollection  BY <1>11 DEF FinalCollection
<1>12. CASE Flushed  BY <1>12 DEF Flushed
<1>13. CASE Exit  BY <1>13 DEF Exit
<1>14. CASE Kill  BY <1>14 DEF Kill
<1>15. CASE Network \/ Second  BY <1>15, NetworkLocal
<1>16. CASE UNCHANGED allVars  BY <1>16 DEF allVars
<1> QED
  BY <1>1, <1>2, <1>3, <1>4, <1>5, <1>6, <1>7, <1>8, <1>9, <1>10, <1>11, <1>12, <1>13, <1>14, <1>15, <1>16
  DEF LifecycleNext, StopperStep

\* Every step keeps the invariant about calls in progress.
LEMMA InCallStep ==
    ASSUME TypeOK, LifecycleTypeOK, Connections, InCall, [LifecycleNext]_allVars
    PROVE  InCall'
<1> USE LifecycleAssumption DEF InCall, Idle, Push, Ended, Alive, processVars
<1>t. pc \in [Callers -> AtRest \cup Locking \cup Exchanging] /\ conn \in [Callers -> {"closed", "new", "active"}]
  BY DEF TypeOK, CallTypeOK, LifecycleTypeOK
<1>r. \A s \in AtRest : s \notin {"session", "logout", "release"}  BY DEF AtRest
<1>1. CASE Signal \/ Listen \/ ServeReturns \/ StopperStep
  BY <1>1 DEF Signal, Listen, ServeReturns, StopperStep, Stop, NothingToStop, Drained, vars, callVars, LifecycleTypeOK
<1>2. ASSUME NEW c \in Callers, Accept(c) \/ Close(c) PROVE InCall'
  BY <1>2, <1>t DEF Accept, Close, vars, callVars
<1>3. ASSUME NEW c \in Callers, Request(c) PROVE InCall'
  <2>1. c \in Callers \ {Main, Reader}  BY <1>3 DEF Request, Connections, Handlers
  <2>2. pc' = [pc EXCEPT ![c] = "session"]  BY <1>3, BeginLocal DEF Request
  <2> QED  BY <1>3, <2>1, <2>2, <1>t DEF Request
<1>4. ASSUME NEW c \in Callers, Run(c) PROVE InCall'
  <2>1. ~Idle(c) /\ \A d \in Callers \ {c} : pc'[d] = pc[d]  BY <1>4, StepLocal DEF Run
  <2>2. UNCHANGED processVars /\ Alive  BY <1>4 DEF Run
  <2>3. CASE c = Main
    <3>1. pc'[Main] \in AtRest \cup {"release"}  BY <1>4, <2>1, <2>3, LogoutStep DEF Run
    <3> QED  BY <2>1, <2>2, <2>3, <3>1
  <2>4. CASE c # Main  BY <2>1, <2>2, <2>4
  <2> QED  BY <2>3, <2>4
<1>5. CASE Joined
  <2>1. CASE Push  BY <1>5, <2>1 DEF Joined, vars, callVars
  <2>2. CASE ~Push
    <3>1. pc' = [pc EXCEPT ![Main] = "logout"]  BY <1>5, <2>2, BeginLocal DEF Joined
    <3> QED  BY <1>5, <2>2, <3>1, <1>t DEF Joined
  <2> QED  BY <2>1, <2>2
<1>6. CASE ReaderTick
  <2>1. pc' = [pc EXCEPT ![Reader] = "session"]  BY <1>6, BeginLocal DEF ReaderTick
  <2> QED  BY <1>6, <2>1, <1>t DEF ReaderTick
<1>7. CASE FinalCollection
  <2>1. pc' = [pc EXCEPT ![Reader] = "session"]  BY <1>7, BeginLocal DEF FinalCollection
  <2> QED  BY <1>7, <2>1, <1>t DEF FinalCollection, LifecycleTypeOK
<1>8. CASE Flushed
  <2>1. pc' = [pc EXCEPT ![Main] = "logout"]  BY <1>8, BeginLocal DEF Flushed
  <2> QED  BY <1>8, <2>1, <1>t DEF Flushed
<1>9. CASE Exit \/ Kill  BY <1>9 DEF Exit, Kill, vars, callVars
<1>10. CASE Network \/ Second  BY <1>10, NetworkLocal
<1>11. CASE UNCHANGED allVars  BY <1>11 DEF allVars, vars, callVars
<1> QED  BY <1>1, <1>2, <1>3, <1>4, <1>5, <1>6, <1>7, <1>8, <1>9, <1>10, <1>11 DEF LifecycleNext

\* While Logout runs after a drained shutdown, nobody else is in a call.
LEMMA OthersIdle ==
    ASSUME LifecycleTypeOK, Connections, InCall, Clean, phase \in {"releasing", "exited"}
    PROVE  \A c \in Callers \ {Main} : Idle(c)
<1>1. \A c \in Callers : conn[c] # "active"
  <2>1. CASE Push  BY <2>1 DEF Connections
  <2>2. CASE ~Push
    <3>1. stopper = "drained"  BY <2>2 DEF Clean, LifecycleTypeOK
    <3> QED  BY <3>1 DEF Connections, AllClosed
  <2> QED  BY <2>1, <2>2
<1>2. Idle(Reader)  BY DEF InCall
<1> QED  BY <1>1, <1>2 DEF InCall

\* Every step keeps the invariant about what shutdown released.
LEMMA ReleasedStep ==
    ASSUME TypeOK, LifecycleTypeOK, Connections, InCall, Released, [LifecycleNext]_allVars
    PROVE  Released'
<1> USE LifecycleAssumption DEF Released, Clean, Push, Ended, Alive, processVars
<1>r. \A s \in AtRest : s \notin {"session", "logout", "release"}  BY DEF AtRest
<1>t. pc \in [Callers -> AtRest \cup Locking \cup Exchanging]  BY DEF TypeOK, CallTypeOK
<1>1. CASE Signal \/ Listen \/ ServeReturns
  BY <1>1 DEF Signal, Listen, ServeReturns, vars, callVars
<1>2. CASE StopperStep
  BY <1>2 DEF StopperStep, Stop, NothingToStop, Drained, vars, callVars, LifecycleTypeOK
<1>3. ASSUME NEW c \in Callers, Accept(c) \/ Close(c) PROVE Released'
  BY <1>3 DEF Accept, Close, vars, callVars
<1>4. ASSUME NEW c \in Callers, Request(c) PROVE Released'
  <2>1. c # Main  BY <1>4 DEF Request, Connections, Handlers
  <2>2. session' = session /\ pc'[Main] = pc[Main]  BY <1>4, <1>t, <2>1, BeginLocal DEF Request
  <2> QED  BY <1>4, <2>2 DEF Request
<1>5. ASSUME NEW c \in Callers, Run(c) PROVE Released'
  <2>1. SUFFICES ASSUME phase \in {"releasing", "exited"}, Clean PROVE Released'  BY <1>5 DEF Run
  <2>2. c = Main  BY <1>5, <2>1, StepLocal, OthersIdle DEF Run
  <2>3. pc[Main] \in {"logout", "release"}  BY <1>5, <2>2, StepLocal DEF Run, InCall, Idle
  <2>4. session' \in {session, EmptySession} /\ (pc[Main] = "logout" => session' = EmptySession)
    BY <1>5, <2>2, <2>3, LogoutStep DEF Run
  <2> QED  BY <1>5, <2>4 DEF Run
<1>6. CASE Joined
  <2>1. phase' = "releasing" => pc' = [pc EXCEPT ![Main] = "logout"]  BY <1>6, BeginLocal DEF Joined
  <2>2. pc \in [Callers -> AtRest \cup Locking \cup Exchanging]  BY DEF TypeOK, CallTypeOK
  <2> QED  BY <1>6, <2>1, <2>2 DEF Joined
<1>7. CASE ReaderTick
  <2>1. session' = session /\ pc'[Main] = pc[Main]  BY <1>7, <1>t, BeginLocal DEF ReaderTick
  <2> QED  BY <1>7, <2>1 DEF ReaderTick
<1>8. CASE FinalCollection  BY <1>8 DEF FinalCollection
<1>9. CASE Flushed
  <2>1. pc'[Main] = "logout"  BY <1>9, <1>t, BeginLocal DEF Flushed
  <2> QED  BY <1>9, <2>1
<1>10. CASE Exit \/ Kill  BY <1>10 DEF Exit, Kill, vars, callVars
<1>11. CASE Network \/ Second  BY <1>11, NetworkLocal
<1>12. CASE UNCHANGED allVars  BY <1>12 DEF allVars, vars, callVars
<1> QED  BY <1>1, <1>2, <1>3, <1>4, <1>5, <1>6, <1>7, <1>8, <1>9, <1>10, <1>11, <1>12 DEF LifecycleNext

\* Both invariants hold in every reachable state.
LEMMA ProcessInvariance == LifecycleSpec => [](IInv /\ ProcessInv)
<1>1. LifecycleInit => ProcessInv
  <2> SUFFICES ASSUME LifecycleInit PROVE ProcessInv  OBVIOUS
  <2>1. LifecycleTypeOK  BY LifecycleAssumption DEF LifecycleInit, LifecycleTypeOK, Push
  <2>2. Connections  BY DEF LifecycleInit, Connections
  <2>3. InCall  BY LifecycleAssumption DEF LifecycleInit, Init, InCall, Idle, AtRest
  <2> QED  BY <2>1, <2>2, <2>3 DEF LifecycleInit, ProcessInv, Released
<1>2. IInv => TypeOK  BY DEF IInv
<1>3. IInv /\ ProcessInv /\ [LifecycleNext]_allVars => ProcessInv'
  BY <1>2, LifecycleTypeStep, ConnectionsStep, InCallStep, ReleasedStep DEF ProcessInv
<1>4. LifecycleSpec => []IInv  BY ImplementsAuthClient, Invariance, PTL
<1> QED  BY <1>1, <1>3, <1>4, PTL DEF LifecycleSpec

-----------------------------------------------------------------------------
(* Theorems                                                                *)

\* The shutdown keeps its order: the session is released only when the
\* stopper is done (main.go:91-93).
THEOREM LifecycleTypeCorrect == LifecycleSpec => []LifecycleTypeOK
<1>1. ProcessInv => LifecycleTypeOK  BY DEF ProcessInv
<1> QED  BY <1>1, ProcessInvariance, PTL

\* A drained shutdown leaves no seat behind but those lost to a failed
\* exchange, for any number of connections and any timing.
THEOREM ReleasedAtExitCorrect == LifecycleSpec => []ReleasedAtExit
<1>1. IInv /\ ProcessInv => ReleasedAtExit
  <2> SUFFICES ASSUME IInv, ProcessInv, phase = "exited", Clean PROVE Seats \subseteq abandoned
    BY DEF ReleasedAtExit, Clean
  <2>1. \A c \in Callers : Idle(c)  BY OthersIdle DEF ProcessInv, InCall
  <2>2. session = EmptySession  BY <2>1, LifecycleAssumption DEF ProcessInv, Released, Idle, AtRest
  <2>3. \A c \in Callers : pc[c] \notin Locked  BY <2>1 DEF Idle, AtRest, Locked
  <2>4. Held = {}  BY <2>2, <2>3 DEF Held, EmptySession
  <2> QED  BY <2>4 DEF IInv, SeatsAccountedFor
<1> QED  BY <1>1, ProcessInvariance, PTL

\* Inside the process, too, concurrent scrapes and the last collection of a
\* shutdown never occupy two seats.
THEOREM OneSeatInProcess == LifecycleSpec => []OneSeat
  BY ImplementsAuthClient, OneSeatCorrect, PTL

\* A signal or a failure of the server ends the process from wherever it is:
\* whoever does not go on waits for a goroutine that can, and the waits do not
\* close a circle (main.go:72-93, 96-163).  What AuthClient owes to it is that
\* nobody in a call is stuck.
THEOREM ShutdownNeverStuckCorrect == LifecycleSpec => []ShutdownNeverStuck
<1>1. IInv /\ ProcessInv => ShutdownNeverStuck
  <2> SUFFICES ASSUME IInv, ProcessInv, Alive, signalled \/ phase \notin {"starting", "serving"}
               PROVE  MainCan \/ StopperCan
                        \/ \E c \in Callers : (conn[c] # "closed" /\ Idle(c)) \/ CanStep(c)
    BY DEF ShutdownNeverStuck
  <2> USE LifecycleAssumption DEF ProcessInv, Alive, Ended
  <2>1. ASSUME NEW c \in Callers, ~Idle(c) PROVE \E d \in Callers : CanStep(d)
    BY <2>1, SomebodyCanStep DEF Idle
  <2>2. CASE phase = "starting"  BY <2>2 DEF MainCan
  <2>3. CASE phase = "serving"
    <3>1. CASE stopper = "waiting"  BY <2>3, <3>1 DEF StopperCan
    <3>2. CASE stopper # "waiting"  BY <2>3, <3>2 DEF Connections, MainCan
    <3> QED  BY <3>1, <3>2
  <2>4. CASE phase = "joining"
    <3>1. CASE stopper = "waiting"  BY <2>4, <3>1 DEF StopperCan, Served
    <3>2. CASE stopper = "draining"
      <4>1. CASE AllClosed  BY <3>2, <4>1 DEF StopperCan
      <4>2. CASE ~AllClosed
        <5>1. PICK c \in Callers : conn[c] # "closed"  BY <4>2 DEF AllClosed
        <5> QED  BY <5>1, <2>1
      <4> QED  BY <4>1, <4>2
    <3>3. CASE stopper \notin {"waiting", "draining"}  BY <2>4, <3>3 DEF InCall, MainCan
    <3> QED  BY <3>1, <3>2, <3>3
  <2>5. CASE phase \in {"cancelling", "flushing"}
    <3>1. Reader \in Callers /\ Idle(Main)  BY <2>5 DEF InCall
    <3>2. CASE Idle(Reader)  BY <2>5, <3>1, <3>2 DEF MainCan
    <3>3. CASE ~Idle(Reader)  BY <3>1, <3>3, <2>1
    <3> QED  BY <3>2, <3>3
  <2>6. CASE phase = "releasing"
    <3>1. CASE Idle(Main)  BY <2>6, <3>1 DEF MainCan
    <3>2. CASE ~Idle(Main)  BY <3>2, <2>1
    <3> QED  BY <3>1, <3>2
  <2> QED  BY <2>2, <2>3, <2>4, <2>5, <2>6 DEF LifecycleTypeOK
<1> QED  BY <1>1, ProcessInvariance, PTL

\* And the process as a whole, with all its goroutines, its shutdown and its
\* death by SIGKILL, keeps the promise of SeatLease.
THEOREM ProcessKeepsLease == LifecycleSpec => ImplementsSeatLease
  BY ImplementsAuthClient, Refinement, PTL
=============================================================================
