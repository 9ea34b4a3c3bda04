----------------------------- MODULE AuthClient -----------------------------
(***************************************************************************)
(* pkg/pihole: the AuthClient every goroutine of the exporter shares.  It  *)
(* caches one Pi-hole session behind a mutex, renews it before it expires, *)
(* and retries a request once when Pi-hole rejects the session.            *)
(*                                                                         *)
(* A caller is a goroutine.  It runs CollectMetrics (a sequence of         *)
(* authenticated GETs under one deadline) or Logout.  Its program counter: *)
(*                                                                         *)
(*   session     in AddAuthHeaders, about to lock mu for Session           *)
(*   delete      in Session, holding mu, DELETE of the old session sent    *)
(*   login       in Session, holding mu, POST /api/auth sent               *)
(*   get         mu released, GET sent under session sid                   *)
(*   invalidate  its GET drew a 401, about to lock mu for Invalidate       *)
(*   logout      in Logout, about to lock mu                               *)
(*   release     in Logout, holding mu, DELETE sent                        *)
(*   idle, succeeded, failed   not in a call, with the last call's outcome *)
(*                                                                         *)
(* An HTTP exchange is three separate steps: the request is sent, Pi-hole  *)
(* handles it, the caller acts on the reply.  Between any two of them      *)
(* other callers run, Pi-hole drops sessions, time passes, and the caller  *)
(* may give the exchange up (connection error, undecodable body, context   *)
(* deadline), in which case a request already sent may still be handled.   *)
(***************************************************************************)
EXTENDS Pihole

CONSTANTS
    Callers,          \* the goroutines sharing the client
    Nobody,           \* owner of mu while it is unlocked
    Endpoints,        \* endpoints one scrape requests (5 compiled in)
    RefreshSkew,      \* renew a session this long before it expires
    Timeout,          \* deadline of a scrape's context
    ShutdownTimeout,  \* deadline of Logout's context
    MaxStray          \* bound: given-up logins still on their way to Pi-hole

ASSUME AuthClientAssumption ==
    /\ Nobody \notin Callers
    /\ Endpoints \in Nat \ {0}
    /\ RefreshSkew \in Nat
    /\ Timeout \in Nat \ {0}
    /\ ShutdownTimeout \in Nat \ {0}
    /\ MaxStray \in Nat

VARIABLES
    session,       \* AuthClient.session
    mu,            \* AuthClient.mu: the caller that holds it, or Nobody
    pc,            \* where each caller is
    sid,           \* session the caller's current request is about
    reply,         \* what came of the caller's current request
    deadline,      \* deadline of the caller's context
    rejected,      \* session the first GET of this request was rejected for
    endpoint,      \* endpoint the scrape has reached
    strayLogins,   \* number of given-up logins Pi-hole may still handle
    strayLogouts,  \* sessions of given-up DELETEs Pi-hole may still handle
    abandoned      \* history: sessions let go because an exchange failed

callVars == <<pc, sid, reply, deadline, rejected, endpoint>>
strayVars == <<strayLogins, strayLogouts>>
vars == <<piholeVars, session, mu, callVars, strayVars, abandoned>>

NoSid == 0
EmptySession == [sid |-> NoSid, expiresAt |-> 0]

AtRest == {"idle", "succeeded", "failed"}
Locking == {"session", "invalidate", "logout"}  \* next step takes mu
Locked == {"delete", "login", "release"}        \* an exchange while holding mu
Exchanging == Locked \cup {"get"}

Init ==
    /\ PiholeInit
    /\ session = EmptySession
    /\ mu = Nobody
    /\ pc = [c \in Callers |-> "idle"]
    /\ sid = [c \in Callers |-> NoSid]
    /\ reply = [c \in Callers |-> "none"]
    /\ deadline = [c \in Callers |-> 0]
    /\ rejected = [c \in Callers |-> NoSid]
    /\ endpoint = [c \in Callers |-> 1]
    /\ strayLogins = 0
    /\ strayLogouts = {}
    /\ abandoned = {}

-----------------------------------------------------------------------------
(* Helpers                                                                 *)

\* Mutant: the refresh skew is forgotten.
UsableToTheEnd == session.sid # NoSid /\ now < session.expiresAt

\* The cached session may be used as it is.
Usable == session.sid # NoSid /\ now + RefreshSkew < session.expiresAt

\* Mutant: a session about to expire is taken for one Pi-hole has released.
MustDeleteEarly == session.sid # NoSid /\ now + RefreshSkew < session.expiresAt

\* The cached session still occupies a seat, as far as the client can tell.
MustDelete == session.sid # NoSid /\ now < session.expiresAt

\* Mutant: the request does not carry the caller's context.
SendAnyway(c, step, s) ==
    /\ pc' = [pc EXCEPT ![c] = step]
    /\ sid' = [sid EXCEPT ![c] = s]
    /\ reply' = [reply EXCEPT ![c] = "pending"]

\* httpClient.Do: a request is sent unless its context is already done.
Send(c, step, s) ==
    /\ pc' = [pc EXCEPT ![c] = step]
    /\ sid' = [sid EXCEPT ![c] = s]
    /\ reply' = [reply EXCEPT ![c] = IF now < deadline[c] THEN "pending" ELSE "failed"]

\* Caller c is no longer in an exchange.
GoTo(c, step, s) ==
    /\ pc' = [pc EXCEPT ![c] = step]
    /\ sid' = [sid EXCEPT ![c] = s]
    /\ reply' = [reply EXCEPT ![c] = "none"]

\* The call returns.
Return(c, outcome) ==
    /\ GoTo(c, outcome, NoSid)
    /\ deadline' = [deadline EXCEPT ![c] = 0]
    /\ rejected' = [rejected EXCEPT ![c] = NoSid]
    /\ endpoint' = [endpoint EXCEPT ![c] = 1]

\* The reply to c's request is in: a status, or "failed" for an error from Do.
Answered(c) == reply[c] \notin {"none", "pending"}

-----------------------------------------------------------------------------
(* CollectMetrics, GetJSONMap and Session                                  *)

\* CollectMetrics begins, under a context made by its caller.
Collect(c) ==
    /\ pc[c] \in AtRest
    /\ GoTo(c, "session", NoSid)
    /\ deadline' = [deadline EXCEPT ![c] = now + Timeout]
    /\ UNCHANGED <<piholeVars, session, mu, rejected, endpoint, strayVars, abandoned>>

\* Session returns the cached session and the GET goes out under it.
UseCached(c) ==
    /\ pc[c] = "session"
    /\ mu = Nobody
    /\ Usable
    /\ Send(c, "get", session.sid)
    /\ UNCHANGED <<piholeVars, session, mu, deadline, rejected, endpoint, strayVars, abandoned>>

\* Mutant: mu is not held across the exchanges that renew the session.
RefreshUnlocked(c) ==
    /\ pc[c] = "session"
    /\ mu = Nobody
    /\ ~Usable
    /\ session' = EmptySession
    /\ IF MustDelete THEN Send(c, "delete", session.sid) ELSE Send(c, "login", NoSid)
    /\ UNCHANGED <<piholeVars, mu, deadline, rejected, endpoint, strayVars, abandoned>>

\* Mutant: a login takes a new seat without releasing the old one.
RefreshWithoutDelete(c) ==
    /\ pc[c] = "session"
    /\ mu = Nobody
    /\ ~Usable
    /\ mu' = c
    /\ session' = EmptySession
    /\ Send(c, "login", NoSid)
    /\ UNCHANGED <<piholeVars, deadline, rejected, endpoint, strayVars, abandoned>>

\* Session locks mu and drops the old session (logoutLocked), asking Pi-hole
\* to delete it if it has not expired; otherwise it logs in at once.
Refresh(c) ==
    /\ pc[c] = "session"
    /\ mu = Nobody
    /\ ~Usable
    /\ mu' = c
    /\ session' = EmptySession
    /\ IF MustDelete THEN Send(c, "delete", session.sid) ELSE Send(c, "login", NoSid)
    /\ UNCHANGED <<piholeVars, deadline, rejected, endpoint, strayVars, abandoned>>

\* Whatever became of the DELETE, Session goes on to log in.
Deleted(c) ==
    /\ pc[c] = "delete"
    /\ Answered(c)
    /\ Send(c, "login", NoSid)
    /\ abandoned' = IF reply[c] = "ok" THEN abandoned ELSE abandoned \cup {sid[c]}
    /\ UNCHANGED <<piholeVars, session, mu, deadline, rejected, endpoint, strayVars>>

\* The login succeeded: cache the session, unlock, send the GET.
LoggedIn(c) ==
    /\ pc[c] = "login"
    /\ reply[c] = "ok"
    /\ session' = [sid |-> sid[c], expiresAt |-> now + Validity]
    /\ mu' = Nobody
    /\ Send(c, "get", sid[c])
    /\ UNCHANGED <<piholeVars, deadline, rejected, endpoint, strayVars, abandoned>>

\* Mutant: the error path forgets to unlock.
LoginFailedLocked(c) ==
    /\ pc[c] = "login"
    /\ Answered(c)
    /\ reply[c] # "ok"
    /\ Return(c, "failed")
    /\ UNCHANGED <<piholeVars, session, mu, strayVars, abandoned>>

\* The login failed: unlock and fail the scrape.
LoginFailed(c) ==
    /\ pc[c] = "login"
    /\ Answered(c)
    /\ reply[c] # "ok"
    /\ mu' = Nobody
    /\ Return(c, "failed")
    /\ UNCHANGED <<piholeVars, session, strayVars, abandoned>>

\* Mutant: the loop over the endpoints runs past its end.
NextEndpointUnbounded(c) ==
    /\ pc[c] = "get"
    /\ reply[c] = "ok"
    /\ GoTo(c, "session", NoSid)
    /\ endpoint' = [endpoint EXCEPT ![c] = @ + 1]
    /\ rejected' = [rejected EXCEPT ![c] = NoSid]
    /\ UNCHANGED <<piholeVars, session, mu, deadline, strayVars, abandoned>>

\* An endpoint answered and another remains: the next GetJSONMap begins.
NextEndpoint(c) ==
    /\ pc[c] = "get"
    /\ reply[c] = "ok"
    /\ endpoint[c] < Endpoints
    /\ GoTo(c, "session", NoSid)
    /\ endpoint' = [endpoint EXCEPT ![c] = @ + 1]
    /\ rejected' = [rejected EXCEPT ![c] = NoSid]
    /\ UNCHANGED <<piholeVars, session, mu, deadline, strayVars, abandoned>>

\* The last endpoint answered: the scrape succeeds.
Collected(c) ==
    /\ pc[c] = "get"
    /\ reply[c] = "ok"
    /\ endpoint[c] = Endpoints
    /\ Return(c, "succeeded")
    /\ UNCHANGED <<piholeVars, session, mu, strayVars, abandoned>>

\* Mutant: every 401 is tried again.
RejectedAgain(c) ==
    /\ pc[c] = "get"
    /\ reply[c] = "unauthorized"
    /\ GoTo(c, "invalidate", sid[c])
    /\ rejected' = [rejected EXCEPT ![c] = sid[c]]
    /\ UNCHANGED <<piholeVars, session, mu, deadline, endpoint, strayVars, abandoned>>

\* A first 401: forget the session and try once more.
Rejected(c) ==
    /\ pc[c] = "get"
    /\ reply[c] = "unauthorized"
    /\ rejected[c] = NoSid
    /\ GoTo(c, "invalidate", sid[c])
    /\ rejected' = [rejected EXCEPT ![c] = sid[c]]
    /\ UNCHANGED <<piholeVars, session, mu, deadline, endpoint, strayVars, abandoned>>

\* A second 401, any other status, or a failed exchange fails the scrape.
GetFailed(c) ==
    /\ pc[c] = "get"
    /\ \/ reply[c] \in {"refused", "failed"}
       \/ reply[c] = "unauthorized" /\ rejected[c] # NoSid
    /\ Return(c, "failed")
    /\ UNCHANGED <<piholeVars, session, mu, strayVars, abandoned>>

\* Mutant: whatever session is cached is dropped.
InvalidateAnySession(c) ==
    /\ pc[c] = "invalidate"
    /\ mu = Nobody
    /\ session' = EmptySession
    /\ GoTo(c, "session", NoSid)
    /\ UNCHANGED <<piholeVars, mu, deadline, rejected, endpoint, strayVars, abandoned>>

\* Mutant: the request is retried without dropping the rejected session.
InvalidateNothing(c) ==
    /\ pc[c] = "invalidate"
    /\ mu = Nobody
    /\ GoTo(c, "session", NoSid)
    /\ UNCHANGED <<piholeVars, session, mu, deadline, rejected, endpoint, strayVars, abandoned>>

\* Invalidate: drop the cached session only if it is the one rejected.
Invalidate(c) ==
    /\ pc[c] = "invalidate"
    /\ mu = Nobody
    /\ session' = IF session.sid = sid[c] THEN EmptySession ELSE session
    /\ GoTo(c, "session", NoSid)
    /\ UNCHANGED <<piholeVars, mu, deadline, rejected, endpoint, strayVars, abandoned>>

-----------------------------------------------------------------------------
(* Logout                                                                  *)

\* Logout begins.
BeginLogout(c) ==
    /\ pc[c] \in AtRest
    /\ GoTo(c, "logout", NoSid)
    /\ deadline' = [deadline EXCEPT ![c] = now + ShutdownTimeout]
    /\ UNCHANGED <<piholeVars, session, mu, rejected, endpoint, strayVars, abandoned>>

\* Logout locks mu, drops the session, and deletes it if there is a live one.
Logout(c) ==
    /\ pc[c] = "logout"
    /\ mu = Nobody
    /\ session' = EmptySession
    /\ \/ /\ MustDelete
          /\ mu' = c
          /\ Send(c, "release", session.sid)
          /\ UNCHANGED <<deadline, rejected, endpoint>>
       \/ /\ ~MustDelete
          /\ Return(c, "idle")
          /\ UNCHANGED mu
    /\ UNCHANGED <<piholeVars, strayVars, abandoned>>

\* The DELETE is over, one way or the other.
LoggedOut(c) ==
    /\ pc[c] = "release"
    /\ Answered(c)
    /\ mu' = Nobody
    /\ abandoned' = IF reply[c] = "ok" THEN abandoned ELSE abandoned \cup {sid[c]}
    /\ Return(c, "idle")
    /\ UNCHANGED <<piholeVars, session, strayVars>>

-----------------------------------------------------------------------------
(* Pi-hole and the network                                                 *)

\* Pi-hole's reply to c's request.
Reply(c, status) == reply' = [reply EXCEPT ![c] = status]

HandleLogin(c) ==
    /\ pc[c] = "login" /\ reply[c] = "pending"
    /\ Grant
    /\ sid' = [sid EXCEPT ![c] = lastSid + 1]
    /\ Reply(c, "ok")
    /\ UNCHANGED <<session, mu, pc, deadline, rejected, endpoint, strayVars, abandoned>>

HandleDelete(c) ==
    /\ pc[c] \in {"delete", "release"} /\ reply[c] = "pending"
    /\ Drop(sid[c])
    /\ Reply(c, IF sid[c] \in Seats THEN "ok" ELSE "refused")
    /\ UNCHANGED <<session, mu, pc, sid, deadline, rejected, endpoint, strayVars, abandoned>>

HandleGet(c) ==
    /\ pc[c] = "get" /\ reply[c] = "pending"
    /\ Reply(c, IF sid[c] \in Seats THEN "ok" ELSE "unauthorized")
    /\ UNCHANGED <<piholeVars, session, mu, pc, sid, deadline, rejected, endpoint, strayVars, abandoned>>

\* Pi-hole answers with an error: wrong password, no seat left, 5xx.
Refuse(c) ==
    /\ pc[c] \in Exchanging /\ reply[c] = "pending"
    /\ Reply(c, "refused")
    /\ UNCHANGED <<piholeVars, session, mu, pc, sid, deadline, rejected, endpoint, strayVars, abandoned>>

\* The exchange ends in an error on the client's side.  A request Pi-hole has
\* not handled yet is lost or still to be handled; a session it granted is
\* never learnt of.
GiveUp(c) ==
    /\ pc[c] \in Exchanging /\ reply[c] \notin {"none", "failed"}
    /\ Reply(c, "failed")
    /\ sid' = IF pc[c] = "login" THEN [sid EXCEPT ![c] = NoSid] ELSE sid
    /\ abandoned' = IF pc[c] = "login" /\ reply[c] = "ok" THEN abandoned \cup {sid[c]} ELSE abandoned
    /\ \/ UNCHANGED strayVars
       \/ /\ pc[c] = "login" /\ reply[c] = "pending" /\ strayLogins < MaxStray
          /\ strayLogins' = strayLogins + 1
          /\ UNCHANGED strayLogouts
       \/ /\ pc[c] \in {"delete", "release"} /\ reply[c] = "pending"
          /\ strayLogouts' = strayLogouts \cup {sid[c]}
          /\ UNCHANGED strayLogins
    /\ UNCHANGED <<piholeVars, session, mu, pc, deadline, rejected, endpoint>>

\* Pi-hole handles a request whose sender has given up on it.
HandleStrayLogin ==
    /\ strayLogins > 0
    /\ Grant
    /\ strayLogins' = strayLogins - 1
    /\ abandoned' = abandoned \cup {lastSid + 1}
    /\ UNCHANGED <<session, mu, callVars, strayLogouts>>

HandleStrayLogout(s) ==
    /\ s \in strayLogouts
    /\ Drop(s)
    /\ strayLogouts' = strayLogouts \ {s}
    /\ UNCHANGED <<session, mu, callVars, strayLogins, abandoned>>

\* Pi-hole drops a session early: a restart or an eviction.
Evict(s) ==
    /\ s \in Seats
    /\ Drop(s)
    /\ UNCHANGED <<session, mu, callVars, strayVars, abandoned>>

\* A second passes.  Exchanges take time, up to the punctual deadline of their
\* context, and so do waits for a locked mu; the callers' own steps do not.
Tick ==
    /\ \A c \in Callers : pc[c] \in Exchanging => now < deadline[c] /\ reply[c] # "failed"
    /\ \A c \in Callers : pc[c] \in Locking => mu # Nobody
    /\ Elapse
    /\ UNCHANGED <<session, mu, callVars, strayVars, abandoned>>

-----------------------------------------------------------------------------
\* A step the goroutine takes by itself.
Step(c) ==
    \/ UseCached(c) \/ Refresh(c) \/ Deleted(c) \/ LoggedIn(c) \/ LoginFailed(c)
    \/ NextEndpoint(c) \/ Collected(c) \/ Rejected(c) \/ GetFailed(c) \/ Invalidate(c)
    \/ Logout(c) \/ LoggedOut(c) \/ GiveUp(c)

Begin(c) == Collect(c) \/ BeginLogout(c)

Handle(c) == HandleLogin(c) \/ HandleDelete(c) \/ HandleGet(c) \/ Refuse(c)

Environment ==
    \/ HandleStrayLogin
    \/ \E s \in Sids : HandleStrayLogout(s) \/ Evict(s)
    \/ Tick

Next == (\E c \in Callers : Begin(c) \/ Step(c) \/ Handle(c)) \/ Environment

Spec == Init /\ [][Next]_vars

\* Every exchange ends, because its context has a deadline, and sync.Mutex
\* hands the lock to the longest waiter once it has waited a millisecond, so
\* a caller that can repeatedly take mu eventually does.
FairSpec == Spec /\ \A c \in Callers : SF_vars(Step(c))

-----------------------------------------------------------------------------
(* Properties                                                              *)

\* The sessions the exporter could still release: the one it has cached and
\* the one a caller is deleting or has just been granted, while it holds mu.
Held == ({session.sid} \cup {sid[c] : c \in {d \in Callers : pc[d] \in Locked}}) \ {NoSid}

CallTypeOK ==
    /\ pc \in [Callers -> AtRest \cup Locking \cup Exchanging]
    /\ sid \in [Callers -> Sids \cup {NoSid}]
    /\ reply \in [Callers -> {"none", "pending", "ok", "unauthorized", "refused", "failed"}]
    /\ deadline \in [Callers -> Nat]
    /\ rejected \in [Callers -> Sids \cup {NoSid}]
    /\ endpoint \in [Callers -> 1..Endpoints]

\* The variables stay in their types; in particular a scrape never requests
\* more endpoints than there are (CollectMetrics).
TypeOK ==
    /\ PiholeTypeOK
    /\ session \in [sid : Sids \cup {NoSid}, expiresAt : Nat]
    /\ mu \in Callers \cup {Nobody}
    /\ CallTypeOK
    /\ strayLogins \in 0..MaxStray
    /\ strayLogouts \subseteq Sids
    /\ abandoned \subseteq Sids

\* Every seat in use is one the exporter will still release, or one it let go
\* because an exchange with Pi-hole failed.  It is what Session and Logout
\* clear c.session for before they know whether the DELETE works, and why they
\* may skip the DELETE of an expired session (auth.go:127-138, 184-195).
SeatsAccountedFor == Seats \subseteq Held \cup abandoned

\* Concurrent scrapes share one session: apart from seats lost to failed
\* exchanges, the exporter never occupies two at once (auth.go:119-141).
OneSeat == \A s, t \in Seats \ abandoned : s = t

\* The one retry after a 401 never goes out under the session Pi-hole has just
\* rejected, whatever other callers did meanwhile (client.go:13-28).
RetryUsesAnotherSession ==
    \A c \in Callers : pc[c] = "get" /\ rejected[c] # NoSid => sid[c] # rejected[c]

\* A cached session the client considers usable has not run out at Pi-hole,
\* although the client stamps its expiry with its own clock when the login
\* reply arrives.  It takes a refresh skew no shorter than a login may last,
\* which is the scrape timeout (auth.go:20, 123, 263).
CachedSessionIsLive ==
    Usable /\ ttl[session.sid] # 0 => now < ttl[session.sid]

\* A cached session that is usable and that Pi-hole still holds is discarded
\* by Logout alone: never by the late 401 of a request that ran under an older
\* session, never by another caller's renewal (auth.go:160-170).
LiveSessionKept ==
    [][ Usable /\ session.sid \in Seats /\ session' # session
        => \E c \in Callers : pc[c] = "logout" /\ pc'[c] # "logout" ]_vars

\* A scrape that was held up past its deadline, waiting for mu or for Pi-hole,
\* does not report success (collector.go:82-83 bounds CollectMetrics).
SuccessIsTimely ==
    [][ \A c \in Callers : pc[c] # "succeeded" /\ pc'[c] = "succeeded" => now <= deadline[c] ]_vars

\* The most steps of its own that c's call still has before it: an exchange is
\* one step, or two if it is given up; an endpoint has two tries.
Exchange(c) == IF reply[c] = "failed" THEN 1 ELSE 2
TryLeft(c) ==
    CASE pc[c] = "session" -> 7
      [] pc[c] = "delete"  -> 4 + Exchange(c)
      [] pc[c] = "login"   -> 2 + Exchange(c)
      [] pc[c] = "get"     -> Exchange(c)
      [] OTHER             -> 0
StepsLeft(c) ==
    CASE pc[c] \in AtRest    -> 0
      [] pc[c] = "logout"     -> 3
      [] pc[c] = "release"    -> Exchange(c)
      [] pc[c] = "invalidate" -> 8 + 15 * (Endpoints - endpoint[c])
      [] OTHER -> TryLeft(c) + (IF rejected[c] = NoSid THEN 8 ELSE 0) + 15 * (Endpoints - endpoint[c])

\* A call ends after finitely many steps of its own: each uses up one of those
\* left, and nothing but a new call gives more, neither a 401, nor what other
\* callers or Pi-hole do.  So a scrape of n endpoints takes at most 15 n
\* (client.go:13-28, auth.go:119-141).
CallsRunOut ==
    [][ \A c \in Callers :
            /\ Step(c) => StepsLeft(c)' < StepsLeft(c)
            /\ StepsLeft(c)' > StepsLeft(c) => pc[c] \in AtRest ]_vars

\* What c's next step waits for is there: mu, or an end of its exchange, which
\* the context brings if Pi-hole does not.
CanStep(c) ==
    \/ pc[c] \in Locking /\ mu = Nobody
    \/ pc[c] \in Exchanging /\ reply[c] # "none"

\* Whoever waits in a call waits for somebody who can go on: mu is never left
\* locked, and nobody waits for mu while holding it (auth.go:119-196).
NobodyStuck ==
    (\E c \in Callers : pc[c] \notin AtRest) => \E c \in Callers : CanStep(c)

\* Every scrape and every Logout returns: no path leaves mu locked, the retry
\* does not loop, and a caller waiting for mu is not passed over for ever.
EveryCallReturns ==
    \A c \in Callers : pc[c] \notin AtRest ~> pc[c] \in AtRest

\* "Timeout for each Pi-hole scrape" (README.md:144): no scrape outlasts its
\* deadline.  It does not hold: sync.Mutex.Lock does not watch the context.
CallEndsByDeadline ==
    \A c \in Callers : pc[c] \notin AtRest => now <= deadline[c]

-----------------------------------------------------------------------------
(* What it implements                                                      *)

Lease == INSTANCE SeatLease WITH
    seats <- Seats, issued <- 1..lastSid, lease <- Held, abandoned <- abandoned

\* The mutex, the cache and the order of the exchanges keep the promise of
\* SeatLease: one seat on lease at a time, none taken before the last one is
\* released or given up for lost, none forgotten while Pi-hole still holds it.
ImplementsSeatLease == Lease!Spec
=============================================================================
