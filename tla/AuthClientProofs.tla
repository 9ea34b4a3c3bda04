-------------------------- MODULE AuthClientProofs --------------------------
(***************************************************************************)
(* Proofs about AuthClient, for any number of callers, endpoints and       *)
(* sessions and any of the durations.                                      *)
(*                                                                         *)
(* The inductive invariant IInv says what the safety properties rest on:   *)
(* who holds mu, which session a request is about, that a session Pi-hole  *)
(* has rejected stays rejected, that the client's idea of an expiry is     *)
(* never earlier than Pi-hole's, and where every seat in use is known.     *)
(***************************************************************************)
EXTENDS AuthClient, TLAPS

\* A caller in an exchange that needs mu holds it, and no session is cached
\* meanwhile.
Exclusion ==
    /\ \A c \in Callers : pc[c] \in Locked <=> mu = c
    /\ mu # Nobody => session = EmptySession

\* Every request but a login is about some session; a login is about the one
\* it was granted.
Named ==
    \A c \in Callers :
        /\ pc[c] \in {"get", "delete", "release", "invalidate"} => sid[c] # NoSid
        /\ pc[c] = "login" => (sid[c] # NoSid <=> reply[c] = "ok")

\* Sessions are granted in order, and nobody knows of one not yet granted.
Granted ==
    /\ session.sid <= lastSid
    /\ \A c \in Callers : sid[c] <= lastSid /\ rejected[c] <= lastSid
    /\ \A s \in Sids : lastSid < s => ttl[s] = 0

\* A session in a login reply is known to nobody but the caller it is for.
Fresh ==
    \A c \in Callers : pc[c] = "login" /\ reply[c] = "ok" =>
        \A d \in Callers : rejected[d] # sid[c] /\ (d # c => sid[d] # sid[c])

\* A session Pi-hole has deleted or rejected is gone for good; past Invalidate
\* the rejected one is not cached, and the second GET does not use it.
Rejections ==
    \A c \in Callers :
        /\ pc[c] = "get" /\ reply[c] = "unauthorized" => sid[c] \notin Seats
        /\ pc[c] \in {"delete", "release"} /\ reply[c] = "ok" => sid[c] \notin Seats
        /\ pc[c] = "invalidate" => sid[c] = rejected[c]
        /\ rejected[c] # NoSid =>
              /\ rejected[c] \notin Seats
              /\ pc[c] # "invalidate" => session.sid # rejected[c]
              /\ pc[c] = "get" => sid[c] # rejected[c]

\* The client expects a session to expire no earlier than Pi-hole does.
Expiry ==
    /\ session.sid # NoSid => ttl[session.sid] <= session.expiresAt
    /\ \A c \in Callers : pc[c] = "login" /\ reply[c] = "ok" => ttl[sid[c]] <= now + Validity

\* An exchange that still runs is within its deadline, and the deadline of a
\* scrape lies at most Timeout ahead.
Punctual ==
    \A c \in Callers :
        /\ pc[c] \in Exchanging /\ reply[c] # "failed" => now <= deadline[c]
        /\ pc[c] \in {"session", "delete", "login", "get", "invalidate"} => deadline[c] <= now + Timeout

\* The client expects a session to expire at most Timeout later than Pi-hole.
Lag ==
    /\ session.sid # NoSid =>
          ttl[session.sid] = 0 \/ session.expiresAt <= ttl[session.sid] + Timeout
    /\ \A c \in Callers : pc[c] = "login" /\ reply[c] = "ok" =>
          ttl[sid[c]] = 0 \/ deadline[c] + Validity <= ttl[sid[c]] + Timeout

\* Whoever is in an exchange has sent a request, and nobody else has.
Asked == \A c \in Callers : pc[c] \in Exchanging <=> reply[c] # "none"

IInv ==
    /\ TypeOK
    /\ Exclusion
    /\ Asked
    /\ Named
    /\ Granted
    /\ Fresh
    /\ Rejections
    /\ Expiry
    /\ Punctual
    /\ Lag
    /\ SeatsAccountedFor

-----------------------------------------------------------------------------
\* Abbreviations every step needs.
USE AuthClientAssumption, PiholeAssumption
    DEF vars, piholeVars, callVars, strayVars, NoSid, EmptySession,
        Send, GoTo, Return, Reply, Answered

\* A session that has left the table of seats never comes back: Pi-hole
\* numbers new ones past lastSid.
LEMMA GoneForGood ==
    ASSUME TypeOK, [Next]_vars
    PROVE  \A s \in Sids : s <= lastSid /\ s \notin Seats => s \notin Seats'
<1> USE DEF TypeOK, PiholeTypeOK, Seats, Sids, Grant, Drop
<1>1. CASE UNCHANGED piholeVars  BY <1>1
<1>2. CASE Grant  BY <1>2
<1>3. ASSUME NEW s \in Sids, Drop(s) PROVE \A t \in Sids : t \notin Seats => t \notin Seats'
  BY <1>3
<1>4. CASE Elapse  BY <1>4 DEF Elapse
<1>5. UNCHANGED piholeVars \/ Grant \/ (\E s \in Sids \cup {NoSid} : Drop(s)) \/ Elapse
  <2> HIDE DEF Grant, Drop, Elapse, Sids
  <2>1. ASSUME NEW c \in Callers, HandleDelete(c) PROVE \E s \in Sids \cup {NoSid} : Drop(s)
    BY <2>1 DEF HandleDelete, CallTypeOK
  <2> QED
    BY <2>1 DEF Next, Begin, Step, Handle, Environment, Collect, BeginLogout, UseCached, Refresh,
      Deleted, LoggedIn, LoginFailed, NextEndpoint, Collected, Rejected, GetFailed, Invalidate,
      Logout, LoggedOut, GiveUp, HandleLogin, HandleGet, Refuse, HandleStrayLogin,
      HandleStrayLogout, Evict, Tick
<1>6. CASE Drop(NoSid)  BY <1>6
<1> QED  BY <1>1, <1>2, <1>3, <1>4, <1>5, <1>6

\* Every step keeps the types.
LEMMA TypeStep ==
    ASSUME TypeOK, Named, [Next]_vars
    PROVE  TypeOK'
<1> USE DEF TypeOK, CallTypeOK, PiholeTypeOK, Named, Sids, Grant, Drop, Elapse, AtRest, Locking, Locked, Exchanging
<1>1. ASSUME NEW c \in Callers, Collect(c) PROVE TypeOK'
  <2>1. CallTypeOK'  BY SMTT(30), <1>1 DEF Collect
  <2> QED  BY <1>1, <2>1 DEF Collect
<1>2. ASSUME NEW c \in Callers, BeginLogout(c) PROVE TypeOK'
  <2>1. CallTypeOK'  BY SMTT(30), <1>2 DEF BeginLogout
  <2> QED  BY <1>2, <2>1 DEF BeginLogout
<1>3. ASSUME NEW c \in Callers, UseCached(c) PROVE TypeOK'  BY <1>3 DEF UseCached
<1>4. ASSUME NEW c \in Callers, Refresh(c) PROVE TypeOK'
  <2>1. CallTypeOK'
    <3>1. pc' \in {[pc EXCEPT ![c] = "delete"], [pc EXCEPT ![c] = "login"]}  BY <1>4 DEF Refresh
    <3>2. sid' \in {[sid EXCEPT ![c] = session.sid], [sid EXCEPT ![c] = NoSid]}  BY <1>4 DEF Refresh
    <3>3. reply' \in {[reply EXCEPT ![c] = "pending"], [reply EXCEPT ![c] = "failed"]}  BY <1>4 DEF Refresh
    <3>4. UNCHANGED <<deadline, rejected, endpoint>> /\ session.sid \in Sids \cup {NoSid}  BY <1>4 DEF Refresh
    <3> HIDE DEF Sids
    <3> QED  BY <3>1, <3>2, <3>3, <3>4
  <2> HIDE DEF CallTypeOK
  <2> QED  BY <1>4, <2>1 DEF Refresh
<1>5. ASSUME NEW c \in Callers, Deleted(c) PROVE TypeOK'  BY <1>5 DEF Deleted
<1>6. ASSUME NEW c \in Callers, LoggedIn(c) PROVE TypeOK'
  <2>1. CallTypeOK'  BY <1>6 DEF LoggedIn
  <2>2. session' \in [sid : Sids \cup {NoSid}, expiresAt : Nat]  BY <1>6 DEF LoggedIn
  <2> HIDE DEF CallTypeOK
  <2> QED  BY <1>6, <2>1, <2>2 DEF LoggedIn
<1>7. ASSUME NEW c \in Callers, LoginFailed(c) PROVE TypeOK'  BY <1>7 DEF LoginFailed
<1>8. ASSUME NEW c \in Callers, NextEndpoint(c) PROVE TypeOK'
  <2>1. endpoint[c] + 1 \in 1..Endpoints  BY <1>8 DEF NextEndpoint
  <2>2. CallTypeOK'  BY <1>8, <2>1 DEF NextEndpoint
  <2> QED  BY <1>8, <2>2 DEF NextEndpoint
<1>9. ASSUME NEW c \in Callers, Collected(c) PROVE TypeOK'
  <2>1. CallTypeOK'  BY <1>9 DEF Collected
  <2> QED  BY <1>9, <2>1 DEF Collected
<1>10. ASSUME NEW c \in Callers, Rejected(c) PROVE TypeOK'  BY <1>10 DEF Rejected
<1>11. ASSUME NEW c \in Callers, GetFailed(c) PROVE TypeOK'
  <2>1. CallTypeOK'  BY SMTT(30), <1>11 DEF GetFailed
  <2> QED  BY <1>11, <2>1 DEF GetFailed
<1>12. ASSUME NEW c \in Callers, Invalidate(c) PROVE TypeOK'  BY <1>12 DEF Invalidate
<1>13. ASSUME NEW c \in Callers, Logout(c) PROVE TypeOK'
  <2>1. session.sid \in Sids \cup {NoSid} /\ EmptySession \in [sid : Sids \cup {NoSid}, expiresAt : Nat]  OBVIOUS
  <2>2. session' = EmptySession /\ mu' \in {mu, c} /\ UNCHANGED <<piholeVars, strayVars, abandoned>>  BY <1>13 DEF Logout
  <2>3. CASE Send(c, "release", session.sid) /\ UNCHANGED <<deadline, rejected, endpoint>>
    <3>1. CallTypeOK'  BY <2>1, <2>3
    <3> QED  BY <2>1, <2>2, <3>1
  <2>4. CASE Return(c, "idle")
    <3>1. CallTypeOK'  BY <2>4
    <3> QED  BY <2>1, <2>2, <3>1
  <2> QED  BY <1>13, <2>3, <2>4 DEF Logout
<1>14. ASSUME NEW c \in Callers, LoggedOut(c) PROVE TypeOK'
  <2>1. CallTypeOK'  BY <1>14 DEF LoggedOut
  <2>2. sid[c] \in Sids  BY <1>14 DEF LoggedOut
  <2>3. UNCHANGED <<piholeVars, session, strayVars>> /\ mu' = Nobody /\ abandoned' \subseteq abandoned \cup {sid[c]}  BY <1>14 DEF LoggedOut
  <2> HIDE DEF CallTypeOK, Named
  <2> QED  BY <2>1, <2>2, <2>3
<1>15. ASSUME NEW c \in Callers, GiveUp(c) PROVE TypeOK'
  <2>1. CallTypeOK'
    <3>1. UNCHANGED <<pc, deadline, rejected, endpoint>>  BY <1>15 DEF GiveUp
    <3>2. sid' \in {sid, [sid EXCEPT ![c] = NoSid]}  BY <1>15 DEF GiveUp
    <3>3. reply' = [reply EXCEPT ![c] = "failed"]  BY <1>15 DEF GiveUp
    <3> QED  BY <3>1, <3>2, <3>3
  <2>a. pc[c] \in {"delete", "release"} \/ (pc[c] = "login" /\ reply[c] = "ok") => sid[c] \in Sids  OBVIOUS
  <2>b. abandoned \subseteq Sids /\ strayLogouts \subseteq Sids  OBVIOUS
  <2> HIDE DEF CallTypeOK, Named, Sids
  <2>2. abandoned' \subseteq Sids  BY <1>15, <2>a, <2>b DEF GiveUp
  <2>3. strayLogins' \in 0..MaxStray  BY <1>15 DEF GiveUp
  <2>4. strayLogouts' \subseteq Sids  BY <1>15, <2>a, <2>b DEF GiveUp
  <2>5. UNCHANGED <<piholeVars, session, mu>>  BY <1>15 DEF GiveUp
  <2> HIDE DEF CallTypeOK, Named
  <2> QED  BY <2>1, <2>2, <2>3, <2>4, <2>5
<1>16. ASSUME NEW c \in Callers, HandleLogin(c) PROVE TypeOK'
  <2>1. CallTypeOK'  BY <1>16 DEF HandleLogin
  <2>2. PiholeTypeOK'  BY <1>16 DEF HandleLogin
  <2> HIDE DEF CallTypeOK, PiholeTypeOK
  <2> QED  BY <1>16, <2>1, <2>2 DEF HandleLogin
<1>17. ASSUME NEW c \in Callers, HandleDelete(c) PROVE TypeOK'  BY <1>17 DEF HandleDelete
<1>18. ASSUME NEW c \in Callers, HandleGet(c) PROVE TypeOK'  BY <1>18 DEF HandleGet
<1>19. ASSUME NEW c \in Callers, Refuse(c) PROVE TypeOK'  BY <1>19 DEF Refuse
<1>20. CASE HandleStrayLogin  BY  <1>20 DEF HandleStrayLogin
<1>21. ASSUME NEW s \in Sids, HandleStrayLogout(s) PROVE TypeOK'  BY <1>21 DEF HandleStrayLogout
<1>22. ASSUME NEW s \in Sids, Evict(s) PROVE TypeOK'  BY <1>22 DEF Evict
<1>23. CASE Tick  BY  <1>23 DEF Tick
<1>24. CASE UNCHANGED vars  BY  <1>24
<1> QED
  BY <1>1, <1>2, <1>3, <1>4, <1>5, <1>6, <1>7, <1>8, <1>9, <1>10, <1>11, <1>12, <1>13, <1>14, <1>15, <1>16, <1>17, <1>18, <1>19, <1>20, <1>21, <1>22, <1>23, <1>24 DEF Next, Begin, Step, Handle, Environment

\* Every step keeps mu and the callers' positions in line: mu is taken with the
\* cache emptied and given back when the exchange is over.
LEMMA ExclusionStep ==
    ASSUME TypeOK, Exclusion, [Next]_vars
    PROVE  Exclusion'
<1> USE DEF TypeOK, CallTypeOK, Exclusion, AtRest, Locked
<1>1. ASSUME NEW c \in Callers, Collect(c) PROVE Exclusion'  BY <1>1 DEF Collect
<1>2. ASSUME NEW c \in Callers, BeginLogout(c) PROVE Exclusion'  BY <1>2 DEF BeginLogout
<1>3. ASSUME NEW c \in Callers, UseCached(c) PROVE Exclusion'  BY <1>3 DEF UseCached
<1>4. ASSUME NEW c \in Callers, Refresh(c) PROVE Exclusion'  BY <1>4 DEF Refresh
<1>5. ASSUME NEW c \in Callers, Deleted(c) PROVE Exclusion'  BY <1>5 DEF Deleted
<1>6. ASSUME NEW c \in Callers, LoggedIn(c) PROVE Exclusion'  BY <1>6 DEF LoggedIn
<1>7. ASSUME NEW c \in Callers, LoginFailed(c) PROVE Exclusion'  BY <1>7 DEF LoginFailed
<1>8. ASSUME NEW c \in Callers, NextEndpoint(c) PROVE Exclusion'  BY <1>8 DEF NextEndpoint
<1>9. ASSUME NEW c \in Callers, Collected(c) PROVE Exclusion'  BY <1>9 DEF Collected
<1>10. ASSUME NEW c \in Callers, Rejected(c) PROVE Exclusion'  BY <1>10 DEF Rejected
<1>11. ASSUME NEW c \in Callers, GetFailed(c) PROVE Exclusion'  BY <1>11 DEF GetFailed
<1>12. ASSUME NEW c \in Callers, Invalidate(c) PROVE Exclusion'  BY <1>12 DEF Invalidate
<1>13. ASSUME NEW c \in Callers, Logout(c) PROVE Exclusion'  BY <1>13 DEF Logout
<1>14. ASSUME NEW c \in Callers, LoggedOut(c) PROVE Exclusion'  BY <1>14 DEF LoggedOut
<1>15. ASSUME NEW c \in Callers, GiveUp(c) PROVE Exclusion'  BY <1>15 DEF GiveUp
<1>16. ASSUME NEW c \in Callers, HandleLogin(c) PROVE Exclusion'  BY <1>16 DEF HandleLogin
<1>17. ASSUME NEW c \in Callers, HandleDelete(c) PROVE Exclusion'  BY <1>17 DEF HandleDelete
<1>18. ASSUME NEW c \in Callers, HandleGet(c) PROVE Exclusion'  BY <1>18 DEF HandleGet
<1>19. ASSUME NEW c \in Callers, Refuse(c) PROVE Exclusion'  BY <1>19 DEF Refuse
<1>20. CASE HandleStrayLogin  BY  <1>20 DEF HandleStrayLogin
<1>21. ASSUME NEW s \in Sids, HandleStrayLogout(s) PROVE Exclusion'  BY <1>21 DEF HandleStrayLogout
<1>22. ASSUME NEW s \in Sids, Evict(s) PROVE Exclusion'  BY <1>22 DEF Evict
<1>23. CASE Tick  BY  <1>23 DEF Tick
<1>24. CASE UNCHANGED vars  BY  <1>24
<1> QED
  BY <1>1, <1>2, <1>3, <1>4, <1>5, <1>6, <1>7, <1>8, <1>9, <1>10, <1>11, <1>12, <1>13, <1>14, <1>15, <1>16, <1>17, <1>18, <1>19, <1>20, <1>21, <1>22, <1>23, <1>24 DEF Next, Begin, Step, Handle, Environment

\* Every step keeps requests and exchanges in line.
LEMMA AskedStep ==
    ASSUME TypeOK, Asked, [Next]_vars
    PROVE  Asked'
<1> USE DEF TypeOK, CallTypeOK, Asked, AtRest, Locked, Exchanging
<1>1. ASSUME NEW c \in Callers, Collect(c) PROVE Asked'  BY <1>1 DEF Collect
<1>2. ASSUME NEW c \in Callers, BeginLogout(c) PROVE Asked'  BY <1>2 DEF BeginLogout
<1>3. ASSUME NEW c \in Callers, UseCached(c) PROVE Asked'  BY <1>3 DEF UseCached
<1>4. ASSUME NEW c \in Callers, Refresh(c) PROVE Asked'  BY <1>4 DEF Refresh
<1>5. ASSUME NEW c \in Callers, Deleted(c) PROVE Asked'  BY <1>5 DEF Deleted
<1>6. ASSUME NEW c \in Callers, LoggedIn(c) PROVE Asked'  BY <1>6 DEF LoggedIn
<1>7. ASSUME NEW c \in Callers, LoginFailed(c) PROVE Asked'  BY <1>7 DEF LoginFailed
<1>8. ASSUME NEW c \in Callers, NextEndpoint(c) PROVE Asked'  BY <1>8 DEF NextEndpoint
<1>9. ASSUME NEW c \in Callers, Collected(c) PROVE Asked'  BY <1>9 DEF Collected
<1>10. ASSUME NEW c \in Callers, Rejected(c) PROVE Asked'  BY <1>10 DEF Rejected
<1>11. ASSUME NEW c \in Callers, GetFailed(c) PROVE Asked'  BY <1>11 DEF GetFailed
<1>12. ASSUME NEW c \in Callers, Invalidate(c) PROVE Asked'  BY <1>12 DEF Invalidate
<1>13. ASSUME NEW c \in Callers, Logout(c) PROVE Asked'  BY <1>13 DEF Logout
<1>14. ASSUME NEW c \in Callers, LoggedOut(c) PROVE Asked'  BY <1>14 DEF LoggedOut
<1>15. ASSUME NEW c \in Callers, GiveUp(c) PROVE Asked'  BY <1>15 DEF GiveUp
<1>16. ASSUME NEW c \in Callers, HandleLogin(c) PROVE Asked'  BY <1>16 DEF HandleLogin
<1>17. ASSUME NEW c \in Callers, HandleDelete(c) PROVE Asked'  BY <1>17 DEF HandleDelete
<1>18. ASSUME NEW c \in Callers, HandleGet(c) PROVE Asked'  BY <1>18 DEF HandleGet
<1>19. ASSUME NEW c \in Callers, Refuse(c) PROVE Asked'  BY <1>19 DEF Refuse
<1>20. CASE HandleStrayLogin  BY <1>20 DEF HandleStrayLogin
<1>21. ASSUME NEW s \in Sids, HandleStrayLogout(s) PROVE Asked'  BY <1>21 DEF HandleStrayLogout
<1>22. ASSUME NEW s \in Sids, Evict(s) PROVE Asked'  BY <1>22 DEF Evict
<1>23. CASE Tick  BY <1>23 DEF Tick
<1>24. CASE UNCHANGED vars  BY <1>24
<1> QED
  BY <1>1, <1>2, <1>3, <1>4, <1>5, <1>6, <1>7, <1>8, <1>9, <1>10, <1>11, <1>12, <1>13, <1>14, <1>15, <1>16, <1>17, <1>18, <1>19, <1>20, <1>21, <1>22, <1>23, <1>24 DEF Next, Begin, Step, Handle, Environment

\* Every step keeps each request about the session it is for.
LEMMA NamedStep ==
    ASSUME TypeOK, Named, [Next]_vars
    PROVE  Named'
<1> USE DEF TypeOK, CallTypeOK, Named, Usable, MustDelete
<1>1. ASSUME NEW c \in Callers, Collect(c) PROVE Named'  BY <1>1 DEF Collect
<1>2. ASSUME NEW c \in Callers, BeginLogout(c) PROVE Named'  BY <1>2 DEF BeginLogout
<1>3. ASSUME NEW c \in Callers, UseCached(c) PROVE Named'  BY <1>3 DEF UseCached
<1>4. ASSUME NEW c \in Callers, Refresh(c) PROVE Named'  BY <1>4 DEF Refresh
<1>5. ASSUME NEW c \in Callers, Deleted(c) PROVE Named'  BY <1>5 DEF Deleted
<1>6. ASSUME NEW c \in Callers, LoggedIn(c) PROVE Named'  BY <1>6 DEF LoggedIn
<1>7. ASSUME NEW c \in Callers, LoginFailed(c) PROVE Named'  BY <1>7 DEF LoginFailed
<1>8. ASSUME NEW c \in Callers, NextEndpoint(c) PROVE Named'  BY <1>8 DEF NextEndpoint
<1>9. ASSUME NEW c \in Callers, Collected(c) PROVE Named'  BY <1>9 DEF Collected
<1>10. ASSUME NEW c \in Callers, Rejected(c) PROVE Named'  BY <1>10 DEF Rejected
<1>11. ASSUME NEW c \in Callers, GetFailed(c) PROVE Named'  BY <1>11 DEF GetFailed
<1>12. ASSUME NEW c \in Callers, Invalidate(c) PROVE Named'  BY <1>12 DEF Invalidate
<1>13. ASSUME NEW c \in Callers, Logout(c) PROVE Named'  BY <1>13 DEF Logout
<1>14. ASSUME NEW c \in Callers, LoggedOut(c) PROVE Named'  BY <1>14 DEF LoggedOut
<1>15. ASSUME NEW c \in Callers, GiveUp(c) PROVE Named'  BY <1>15 DEF GiveUp
<1>16. ASSUME NEW c \in Callers, HandleLogin(c) PROVE Named'
  <2>1. sid' = [sid EXCEPT ![c] = lastSid + 1] /\ reply' = [reply EXCEPT ![c] = "ok"]  BY <1>16 DEF HandleLogin
  <2>2. pc' = pc /\ pc[c] = "login"  BY <1>16 DEF HandleLogin
  <2>3. lastSid + 1 # NoSid  BY DEF PiholeTypeOK
  <2> QED  BY <2>1, <2>2, <2>3
<1>17. ASSUME NEW c \in Callers, HandleDelete(c) PROVE Named'  BY <1>17 DEF HandleDelete
<1>18. ASSUME NEW c \in Callers, HandleGet(c) PROVE Named'  BY <1>18 DEF HandleGet
<1>19. ASSUME NEW c \in Callers, Refuse(c) PROVE Named'  BY <1>19 DEF Refuse
<1>20. CASE HandleStrayLogin  BY  <1>20 DEF HandleStrayLogin
<1>21. ASSUME NEW s \in Sids, HandleStrayLogout(s) PROVE Named'  BY <1>21 DEF HandleStrayLogout
<1>22. ASSUME NEW s \in Sids, Evict(s) PROVE Named'  BY <1>22 DEF Evict
<1>23. CASE Tick  BY  <1>23 DEF Tick
<1>24. CASE UNCHANGED vars  BY  <1>24
<1> QED
  BY <1>1, <1>2, <1>3, <1>4, <1>5, <1>6, <1>7, <1>8, <1>9, <1>10, <1>11, <1>12, <1>13, <1>14, <1>15, <1>16, <1>17, <1>18, <1>19, <1>20, <1>21, <1>22, <1>23, <1>24 DEF Next, Begin, Step, Handle, Environment

\* Every step keeps all known sessions among those granted.
LEMMA GrantedStep ==
    ASSUME TypeOK, Granted, [Next]_vars
    PROVE  Granted'
<1> USE DEF Granted, TypeOK, CallTypeOK, PiholeTypeOK, Sids, Grant, Drop, Elapse
<1>1. ASSUME NEW c \in Callers, Collect(c) PROVE Granted'  BY <1>1 DEF Collect
<1>2. ASSUME NEW c \in Callers, BeginLogout(c) PROVE Granted'  BY <1>2 DEF BeginLogout
<1>3. ASSUME NEW c \in Callers, UseCached(c) PROVE Granted'  BY <1>3 DEF UseCached
<1>4. ASSUME NEW c \in Callers, Refresh(c) PROVE Granted'
  <2>1. session'.sid = NoSid  BY <1>4 DEF Refresh
  <2>2. \A d \in Callers : sid'[d] \in {sid[d], session.sid, NoSid}  BY <1>4 DEF Refresh
  <2>3. UNCHANGED <<rejected, lastSid, ttl>>  BY <1>4 DEF Refresh
  <2>4. lastSid \in Nat  OBVIOUS
  <2> HIDE DEF TypeOK
  <2> QED  BY <2>1, <2>2, <2>3, <2>4
<1>5. ASSUME NEW c \in Callers, Deleted(c) PROVE Granted'  BY <1>5 DEF Deleted
<1>6. ASSUME NEW c \in Callers, LoggedIn(c) PROVE Granted'  BY <1>6 DEF LoggedIn
<1>7. ASSUME NEW c \in Callers, LoginFailed(c) PROVE Granted'  BY <1>7 DEF LoginFailed
<1>8. ASSUME NEW c \in Callers, NextEndpoint(c) PROVE Granted'  BY <1>8 DEF NextEndpoint
<1>9. ASSUME NEW c \in Callers, Collected(c) PROVE Granted'  BY <1>9 DEF Collected
<1>10. ASSUME NEW c \in Callers, Rejected(c) PROVE Granted'  BY <1>10 DEF Rejected
<1>11. ASSUME NEW c \in Callers, GetFailed(c) PROVE Granted'  BY <1>11 DEF GetFailed
<1>12. ASSUME NEW c \in Callers, Invalidate(c) PROVE Granted'  BY <1>12 DEF Invalidate
<1>13. ASSUME NEW c \in Callers, Logout(c) PROVE Granted'
  <2>1. session'.sid = NoSid  BY <1>13 DEF Logout
  <2>2. \A d \in Callers : sid'[d] \in {sid[d], session.sid, NoSid}  BY <1>13 DEF Logout
  <2>3. \A d \in Callers : rejected'[d] \in {rejected[d], NoSid}  BY <1>13 DEF Logout
  <2>4. UNCHANGED <<lastSid, ttl>> /\ lastSid \in Nat  BY <1>13 DEF Logout
  <2> HIDE DEF TypeOK
  <2> QED  BY <2>1, <2>2, <2>3, <2>4
<1>14. ASSUME NEW c \in Callers, LoggedOut(c) PROVE Granted'  BY <1>14 DEF LoggedOut
<1>15. ASSUME NEW c \in Callers, GiveUp(c) PROVE Granted'  BY <1>15 DEF GiveUp
<1>16. ASSUME NEW c \in Callers, HandleLogin(c) PROVE Granted'
  <2>1. UNCHANGED <<session, rejected>> /\ lastSid' = lastSid + 1  BY <1>16 DEF HandleLogin
  <2>2. \A d \in Callers : sid'[d] \in {sid[d], lastSid + 1}  BY <1>16 DEF HandleLogin
  <2>3. \A s \in Sids : s # lastSid + 1 => ttl'[s] = ttl[s]  BY <1>16 DEF HandleLogin
  <2>4. session.sid \in Int /\ \A d \in Callers : sid[d] \in Int /\ rejected[d] \in Int  OBVIOUS
  <2>5. lastSid \in Nat OBVIOUS
  <2> HIDE DEF TypeOK
  <2> QED  BY <2>1, <2>2, <2>3, <2>4, <2>5
<1>17. ASSUME NEW c \in Callers, HandleDelete(c) PROVE Granted'  BY <1>17 DEF HandleDelete
<1>18. ASSUME NEW c \in Callers, HandleGet(c) PROVE Granted'  BY <1>18 DEF HandleGet
<1>19. ASSUME NEW c \in Callers, Refuse(c) PROVE Granted'  BY <1>19 DEF Refuse
<1>20. CASE HandleStrayLogin
  <2>1. UNCHANGED <<session, rejected, sid>> /\ lastSid' = lastSid + 1  BY <1>20 DEF HandleStrayLogin
  <2>2. \A s \in Sids : s # lastSid + 1 => ttl'[s] = ttl[s]  BY <1>20 DEF HandleStrayLogin
  <2>3. session.sid \in Int /\ \A d \in Callers : sid[d] \in Int /\ rejected[d] \in Int  OBVIOUS
  <2>4. lastSid \in Nat  OBVIOUS
  <2> HIDE DEF TypeOK
  <2> QED  BY <2>1, <2>2, <2>3, <2>4
<1>21. ASSUME NEW s \in Sids, HandleStrayLogout(s) PROVE Granted'  BY <1>21 DEF HandleStrayLogout
<1>22. ASSUME NEW s \in Sids, Evict(s) PROVE Granted'  BY <1>22 DEF Evict
<1>23. CASE Tick  BY  <1>23 DEF Tick
<1>24. CASE UNCHANGED vars  BY  <1>24
<1> QED
  BY <1>1, <1>2, <1>3, <1>4, <1>5, <1>6, <1>7, <1>8, <1>9, <1>10, <1>11, <1>12, <1>13, <1>14, <1>15, <1>16, <1>17, <1>18, <1>19, <1>20, <1>21, <1>22, <1>23, <1>24 DEF Next, Begin, Step, Handle, Environment

\* Every step keeps a session just granted unknown to all other callers.
LEMMA FreshStep ==
    ASSUME TypeOK, Exclusion, Named, Granted, Fresh, [Next]_vars
    PROVE  Fresh'
<1> USE DEF Exclusion, Locked, Named, Granted, Fresh, TypeOK, CallTypeOK
<1>int. lastSid \in Nat /\ \A s \in Sids : s \in Nat  BY DEF PiholeTypeOK, Sids
<1>1. ASSUME NEW c \in Callers, Collect(c) PROVE Fresh'  BY <1>int, <1>1 DEF Collect
<1>2. ASSUME NEW c \in Callers, BeginLogout(c) PROVE Fresh'  BY <1>int, <1>2 DEF BeginLogout
<1>3. ASSUME NEW c \in Callers, UseCached(c) PROVE Fresh'  BY <1>int, <1>3 DEF UseCached
<1>4. ASSUME NEW c \in Callers, Refresh(c) PROVE Fresh'
  <2>1. CASE MustDelete  BY <1>4, <2>1 DEF Refresh
  <2>2. CASE ~MustDelete  BY <1>4, <2>2 DEF Refresh
  <2> QED  BY <2>1, <2>2
<1>5. ASSUME NEW c \in Callers, Deleted(c) PROVE Fresh'  BY <1>int, <1>5 DEF Deleted
<1>6. ASSUME NEW c \in Callers, LoggedIn(c) PROVE Fresh'  BY <1>int, <1>6 DEF LoggedIn
<1>7. ASSUME NEW c \in Callers, LoginFailed(c) PROVE Fresh'  BY <1>int, <1>7 DEF LoginFailed
<1>8. ASSUME NEW c \in Callers, NextEndpoint(c) PROVE Fresh'  BY <1>int, <1>8 DEF NextEndpoint
<1>9. ASSUME NEW c \in Callers, Collected(c) PROVE Fresh'  BY <1>int, <1>9 DEF Collected
<1>10. ASSUME NEW c \in Callers, Rejected(c) PROVE Fresh'  BY <1>int, <1>10 DEF Rejected
<1>11. ASSUME NEW c \in Callers, GetFailed(c) PROVE Fresh'  BY <1>int, <1>11 DEF GetFailed
<1>12. ASSUME NEW c \in Callers, Invalidate(c) PROVE Fresh'  BY <1>int, <1>12 DEF Invalidate
<1>13. ASSUME NEW c \in Callers, Logout(c) PROVE Fresh'
  <2>1. CASE MustDelete  BY <1>13, <2>1 DEF Logout
  <2>2. CASE ~MustDelete  BY <1>13, <2>2 DEF Logout
  <2> QED  BY <2>1, <2>2
<1>14. ASSUME NEW c \in Callers, LoggedOut(c) PROVE Fresh'  BY <1>int, <1>14 DEF LoggedOut
<1>15. ASSUME NEW c \in Callers, GiveUp(c) PROVE Fresh'  BY <1>int, <1>15 DEF GiveUp
<1>16. ASSUME NEW c \in Callers, HandleLogin(c) PROVE Fresh'  BY <1>int, <1>16 DEF HandleLogin
<1>17. ASSUME NEW c \in Callers, HandleDelete(c) PROVE Fresh'  BY <1>int, <1>17 DEF HandleDelete
<1>18. ASSUME NEW c \in Callers, HandleGet(c) PROVE Fresh'  BY <1>int, <1>18 DEF HandleGet
<1>19. ASSUME NEW c \in Callers, Refuse(c) PROVE Fresh'  BY <1>int, <1>19 DEF Refuse
<1>20. CASE HandleStrayLogin  BY <1>int,  <1>20 DEF HandleStrayLogin
<1>21. ASSUME NEW s \in Sids, HandleStrayLogout(s) PROVE Fresh'  BY <1>int, <1>21 DEF HandleStrayLogout
<1>22. ASSUME NEW s \in Sids, Evict(s) PROVE Fresh'  BY <1>int, <1>22 DEF Evict
<1>23. CASE Tick  BY <1>int,  <1>23 DEF Tick
<1>24. CASE UNCHANGED vars  BY <1>int,  <1>24
<1> QED
  BY <1>1, <1>2, <1>3, <1>4, <1>5, <1>6, <1>7, <1>8, <1>9, <1>10, <1>11, <1>12, <1>13, <1>14, <1>15, <1>16, <1>17, <1>18, <1>19, <1>20, <1>21, <1>22, <1>23, <1>24 DEF Next, Begin, Step, Handle, Environment

\* Every step keeps a rejected session out of the table of seats, out of the cache
\* once invalidated, and out of the retry.
LEMMA RejectionsStep ==
    ASSUME TypeOK, Exclusion, Named, Granted, Fresh, Rejections, [Next]_vars
    PROVE  Rejections'
<1> USE DEF Exclusion, Named, Granted, Fresh, Rejections, Locked, AtRest,
        TypeOK, CallTypeOK
<1>gone. \A s \in Sids : s <= lastSid /\ s \notin Seats => s \notin Seats'  BY GoneForGood
<1>int. lastSid \in Nat /\ \A s \in Sids : s \in Nat  BY DEF PiholeTypeOK, Sids
<1>1. ASSUME NEW c \in Callers, Collect(c) PROVE Rejections'  BY <1>gone, <1>int, <1>1 DEF Collect
<1>2. ASSUME NEW c \in Callers, BeginLogout(c) PROVE Rejections'  BY <1>gone, <1>int, <1>2 DEF BeginLogout
<1>3. ASSUME NEW c \in Callers, UseCached(c) PROVE Rejections'  BY <1>gone, <1>int, <1>3 DEF UseCached
<1>4. ASSUME NEW c \in Callers, Refresh(c) PROVE Rejections'
  <2>1. session'.sid = NoSid /\ Seats' = Seats /\ rejected' = rejected  BY <1>4 DEF Refresh, Seats
  <2>2. pc[c] = "session" /\ pc'[c] \in {"delete", "login"}  BY <1>4 DEF Refresh
  <2>3. reply'[c] # "ok"  BY <1>4 DEF Refresh
  <2>4. \A d \in Callers \ {c} : pc'[d] = pc[d] /\ sid'[d] = sid[d] /\ reply'[d] = reply[d]  BY <1>4 DEF Refresh
  <2> HIDE DEF TypeOK, Exclusion, Named, Granted, Fresh, Seats
  <2> QED  BY <2>1, <2>2, <2>3, <2>4
<1>5. ASSUME NEW c \in Callers, Deleted(c) PROVE Rejections'  BY <1>gone, <1>int, <1>5 DEF Deleted
<1>6. ASSUME NEW c \in Callers, LoggedIn(c) PROVE Rejections'  BY <1>gone, <1>int, <1>6 DEF LoggedIn
<1>7. ASSUME NEW c \in Callers, LoginFailed(c) PROVE Rejections'  BY <1>gone, <1>int, <1>7 DEF LoginFailed
<1>8. ASSUME NEW c \in Callers, NextEndpoint(c) PROVE Rejections'  BY <1>gone, <1>int, <1>8 DEF NextEndpoint
<1>9. ASSUME NEW c \in Callers, Collected(c) PROVE Rejections'  BY <1>gone, <1>int, <1>9 DEF Collected
<1>10. ASSUME NEW c \in Callers, Rejected(c) PROVE Rejections'  BY <1>gone, <1>int, <1>10 DEF Rejected
<1>11. ASSUME NEW c \in Callers, GetFailed(c) PROVE Rejections'  BY <1>gone, <1>int, <1>11 DEF GetFailed
<1>12. ASSUME NEW c \in Callers, Invalidate(c) PROVE Rejections'  BY <1>gone, <1>int, <1>12 DEF Invalidate
<1>13. ASSUME NEW c \in Callers, Logout(c) PROVE Rejections'
  <2>1. session'.sid = NoSid /\ Seats' = Seats  BY <1>13 DEF Logout, Seats
  <2>2. pc[c] = "logout" /\ pc'[c] \in {"release", "idle"}  BY <1>13 DEF Logout
  <2>3. reply'[c] # "ok" /\ rejected'[c] \in {rejected[c], NoSid}  BY <1>13 DEF Logout
  <2>4. \A d \in Callers \ {c} : pc'[d] = pc[d] /\ sid'[d] = sid[d] /\ reply'[d] = reply[d]
                                /\ rejected'[d] = rejected[d]  BY <1>13 DEF Logout
  <2> HIDE DEF TypeOK, Exclusion, Named, Granted, Fresh, Seats
  <2> QED  BY <2>1, <2>2, <2>3, <2>4
<1>14. ASSUME NEW c \in Callers, LoggedOut(c) PROVE Rejections'  BY <1>gone, <1>int, <1>14 DEF LoggedOut
<1>15. ASSUME NEW c \in Callers, GiveUp(c) PROVE Rejections'  BY <1>gone, <1>int, <1>15 DEF GiveUp
<1>16. ASSUME NEW c \in Callers, HandleLogin(c) PROVE Rejections'  BY <1>gone, <1>int, <1>16 DEF HandleLogin
<1>17. ASSUME NEW c \in Callers, HandleDelete(c) PROVE Rejections'
  <2>1. reply'[c] = "ok" => sid[c] \notin Seats'  BY <1>17 DEF HandleDelete, Drop, Seats, PiholeTypeOK
  <2> QED  BY <1>17, <1>gone, <1>int, <2>1 DEF HandleDelete
<1>18. ASSUME NEW c \in Callers, HandleGet(c) PROVE Rejections'  BY <1>gone, <1>int, <1>18 DEF HandleGet
<1>19. ASSUME NEW c \in Callers, Refuse(c) PROVE Rejections'  BY <1>gone, <1>int, <1>19 DEF Refuse
<1>20. CASE HandleStrayLogin  BY <1>gone, <1>int,  <1>20 DEF HandleStrayLogin
<1>21. ASSUME NEW s \in Sids, HandleStrayLogout(s) PROVE Rejections'  BY <1>gone, <1>int, <1>21 DEF HandleStrayLogout
<1>22. ASSUME NEW s \in Sids, Evict(s) PROVE Rejections'  BY <1>gone, <1>int, <1>22 DEF Evict
<1>23. CASE Tick  BY <1>gone, <1>int,  <1>23 DEF Tick
<1>24. CASE UNCHANGED vars  BY <1>gone, <1>int,  <1>24
<1> QED
  BY <1>1, <1>2, <1>3, <1>4, <1>5, <1>6, <1>7, <1>8, <1>9, <1>10, <1>11, <1>12, <1>13, <1>14, <1>15, <1>16, <1>17, <1>18, <1>19, <1>20, <1>21, <1>22, <1>23, <1>24 DEF Next, Begin, Step, Handle, Environment

\* Every step keeps the client's expiry no earlier than Pi-hole's.
LEMMA ExpiryStep ==
    ASSUME TypeOK, Exclusion, Granted, Named, Expiry, [Next]_vars
    PROVE  Expiry'
<1> USE DEF Exclusion, Granted, Named, Expiry, Locked, TypeOK, CallTypeOK, PiholeTypeOK, Sids,
        Grant, Drop, Elapse
<1>1. ASSUME NEW c \in Callers, Collect(c) PROVE Expiry'  BY <1>1 DEF Collect
<1>2. ASSUME NEW c \in Callers, BeginLogout(c) PROVE Expiry'  BY <1>2 DEF BeginLogout
<1>3. ASSUME NEW c \in Callers, UseCached(c) PROVE Expiry'  BY <1>3 DEF UseCached
<1>4. ASSUME NEW c \in Callers, Refresh(c) PROVE Expiry'
  <2>1. session'.sid = NoSid /\ UNCHANGED <<now, ttl>>  BY <1>4 DEF Refresh
  <2>2. reply'[c] # "ok"  BY <1>4 DEF Refresh
  <2>3. \A d \in Callers \ {c} : pc'[d] = pc[d] /\ sid'[d] = sid[d] /\ reply'[d] = reply[d]  BY <1>4 DEF Refresh
  <2> HIDE DEF TypeOK, Exclusion, Named, Granted
  <2> QED  BY <2>1, <2>2, <2>3
<1>5. ASSUME NEW c \in Callers, Deleted(c) PROVE Expiry'  BY <1>5 DEF Deleted
<1>6. ASSUME NEW c \in Callers, LoggedIn(c) PROVE Expiry'  BY <1>6 DEF LoggedIn
<1>7. ASSUME NEW c \in Callers, LoginFailed(c) PROVE Expiry'  BY <1>7 DEF LoginFailed
<1>8. ASSUME NEW c \in Callers, NextEndpoint(c) PROVE Expiry'  BY <1>8 DEF NextEndpoint
<1>9. ASSUME NEW c \in Callers, Collected(c) PROVE Expiry'  BY <1>9 DEF Collected
<1>10. ASSUME NEW c \in Callers, Rejected(c) PROVE Expiry'  BY <1>10 DEF Rejected
<1>11. ASSUME NEW c \in Callers, GetFailed(c) PROVE Expiry'  BY <1>11 DEF GetFailed
<1>12. ASSUME NEW c \in Callers, Invalidate(c) PROVE Expiry'  BY <1>12 DEF Invalidate
<1>13. ASSUME NEW c \in Callers, Logout(c) PROVE Expiry'
  <2>1. session'.sid = NoSid /\ UNCHANGED <<now, ttl>>  BY <1>13 DEF Logout
  <2>2. pc'[c] # "login"  BY <1>13 DEF Logout
  <2>3. \A d \in Callers \ {c} : pc'[d] = pc[d] /\ sid'[d] = sid[d] /\ reply'[d] = reply[d]  BY <1>13 DEF Logout
  <2> HIDE DEF TypeOK, Exclusion, Named, Granted
  <2> QED  BY <2>1, <2>2, <2>3
<1>14. ASSUME NEW c \in Callers, LoggedOut(c) PROVE Expiry'  BY <1>14 DEF LoggedOut
<1>15. ASSUME NEW c \in Callers, GiveUp(c) PROVE Expiry'  BY <1>15 DEF GiveUp
<1>16. ASSUME NEW c \in Callers, HandleLogin(c) PROVE Expiry'  BY SMTT(30), <1>16 DEF HandleLogin
<1>17. ASSUME NEW c \in Callers, HandleDelete(c) PROVE Expiry'  BY <1>17 DEF HandleDelete
<1>18. ASSUME NEW c \in Callers, HandleGet(c) PROVE Expiry'  BY <1>18 DEF HandleGet
<1>19. ASSUME NEW c \in Callers, Refuse(c) PROVE Expiry'  BY <1>19 DEF Refuse
<1>20. CASE HandleStrayLogin  BY SMTT(30),  <1>20 DEF HandleStrayLogin
<1>21. ASSUME NEW s \in Sids, HandleStrayLogout(s) PROVE Expiry'  BY <1>21 DEF HandleStrayLogout
<1>22. ASSUME NEW s \in Sids, Evict(s) PROVE Expiry'  BY <1>22 DEF Evict
<1>23. CASE Tick  BY  <1>23 DEF Tick
<1>24. CASE UNCHANGED vars  BY  <1>24
<1> QED
  BY <1>1, <1>2, <1>3, <1>4, <1>5, <1>6, <1>7, <1>8, <1>9, <1>10, <1>11, <1>12, <1>13, <1>14, <1>15, <1>16, <1>17, <1>18, <1>19, <1>20, <1>21, <1>22, <1>23, <1>24 DEF Next, Begin, Step, Handle, Environment

\* Every step keeps running exchanges within their deadlines.
LEMMA PunctualStep ==
    ASSUME TypeOK, Punctual, [Next]_vars
    PROVE  Punctual'
<1> USE DEF Punctual, Exchanging, Locked, TypeOK, CallTypeOK, PiholeTypeOK, Sids,
        Grant, Drop, Elapse
<1>1. ASSUME NEW c \in Callers, Collect(c) PROVE Punctual'  BY <1>1 DEF Collect
<1>2. ASSUME NEW c \in Callers, BeginLogout(c) PROVE Punctual'  BY <1>2 DEF BeginLogout
<1>3. ASSUME NEW c \in Callers, UseCached(c) PROVE Punctual'  BY <1>3 DEF UseCached
<1>4. ASSUME NEW c \in Callers, Refresh(c) PROVE Punctual'
  <2>1. CASE MustDelete  BY <1>4, <2>1 DEF Refresh
  <2>2. CASE ~MustDelete  BY <1>4, <2>2 DEF Refresh
  <2> QED  BY <2>1, <2>2
<1>5. ASSUME NEW c \in Callers, Deleted(c) PROVE Punctual'  BY <1>5 DEF Deleted
<1>6. ASSUME NEW c \in Callers, LoggedIn(c) PROVE Punctual'  BY <1>6 DEF LoggedIn
<1>7. ASSUME NEW c \in Callers, LoginFailed(c) PROVE Punctual'  BY <1>7 DEF LoginFailed
<1>8. ASSUME NEW c \in Callers, NextEndpoint(c) PROVE Punctual'  BY <1>8 DEF NextEndpoint
<1>9. ASSUME NEW c \in Callers, Collected(c) PROVE Punctual'  BY <1>9 DEF Collected
<1>10. ASSUME NEW c \in Callers, Rejected(c) PROVE Punctual'  BY <1>10 DEF Rejected
<1>11. ASSUME NEW c \in Callers, GetFailed(c) PROVE Punctual'  BY <1>11 DEF GetFailed
<1>12. ASSUME NEW c \in Callers, Invalidate(c) PROVE Punctual'  BY <1>12 DEF Invalidate
<1>13. ASSUME NEW c \in Callers, Logout(c) PROVE Punctual'
  <2>1. UNCHANGED now /\ pc'[c] \in {"release", "idle"}  BY <1>13 DEF Logout
  <2>2. pc'[c] = "release" => reply'[c] = "failed" \/ (now < deadline[c] /\ UNCHANGED deadline)  BY <1>13 DEF Logout
  <2>3. \A d \in Callers \ {c} : pc'[d] = pc[d] /\ reply'[d] = reply[d] /\ deadline'[d] = deadline[d]  BY <1>13 DEF Logout
  <2>4. now \in Nat /\ deadline \in [Callers -> Nat]  OBVIOUS
  <2> HIDE DEF TypeOK
  <2> QED  BY <2>1, <2>2, <2>3, <2>4
<1>14. ASSUME NEW c \in Callers, LoggedOut(c) PROVE Punctual'  BY <1>14 DEF LoggedOut
<1>15. ASSUME NEW c \in Callers, GiveUp(c) PROVE Punctual'  BY <1>15 DEF GiveUp
<1>16. ASSUME NEW c \in Callers, HandleLogin(c) PROVE Punctual'  BY <1>16 DEF HandleLogin
<1>17. ASSUME NEW c \in Callers, HandleDelete(c) PROVE Punctual'  BY <1>17 DEF HandleDelete
<1>18. ASSUME NEW c \in Callers, HandleGet(c) PROVE Punctual'  BY <1>18 DEF HandleGet
<1>19. ASSUME NEW c \in Callers, Refuse(c) PROVE Punctual'  BY <1>19 DEF Refuse
<1>20. CASE HandleStrayLogin  BY  <1>20 DEF HandleStrayLogin
<1>21. ASSUME NEW s \in Sids, HandleStrayLogout(s) PROVE Punctual'  BY <1>21 DEF HandleStrayLogout
<1>22. ASSUME NEW s \in Sids, Evict(s) PROVE Punctual'  BY <1>22 DEF Evict
<1>23. CASE Tick  BY  <1>23 DEF Tick
<1>24. CASE UNCHANGED vars  BY  <1>24
<1> QED
  BY <1>1, <1>2, <1>3, <1>4, <1>5, <1>6, <1>7, <1>8, <1>9, <1>10, <1>11, <1>12, <1>13, <1>14, <1>15, <1>16, <1>17, <1>18, <1>19, <1>20, <1>21, <1>22, <1>23, <1>24 DEF Next, Begin, Step, Handle, Environment

\* Every step keeps the client's expiry at most Timeout later than Pi-hole's.
LEMMA LagStep ==
    ASSUME TypeOK, Exclusion, Granted, Named, Punctual, Lag, [Next]_vars
    PROVE  Lag'
<1> USE DEF Exclusion, Named, Granted, Punctual, Lag, Locked, Exchanging, TypeOK, CallTypeOK, PiholeTypeOK, Sids,
        Grant, Drop, Elapse
<1>1. ASSUME NEW c \in Callers, Collect(c) PROVE Lag'  BY <1>1 DEF Collect
<1>2. ASSUME NEW c \in Callers, BeginLogout(c) PROVE Lag'  BY <1>2 DEF BeginLogout
<1>3. ASSUME NEW c \in Callers, UseCached(c) PROVE Lag'  BY <1>3 DEF UseCached
<1>4. ASSUME NEW c \in Callers, Refresh(c) PROVE Lag'
  <2>1. session'.sid = NoSid /\ UNCHANGED <<ttl, deadline>>  BY <1>4 DEF Refresh
  <2>2. reply'[c] # "ok"  BY <1>4 DEF Refresh
  <2>3. \A d \in Callers \ {c} : pc'[d] = pc[d] /\ sid'[d] = sid[d] /\ reply'[d] = reply[d]  BY <1>4 DEF Refresh
  <2> HIDE DEF TypeOK, Exclusion, Named, Granted, Punctual
  <2> QED  BY <2>1, <2>2, <2>3
<1>5. ASSUME NEW c \in Callers, Deleted(c) PROVE Lag'  BY <1>5 DEF Deleted
<1>6. ASSUME NEW c \in Callers, LoggedIn(c) PROVE Lag'
  <2>1. session'.sid = sid[c] /\ session'.expiresAt = now + Validity  BY <1>6 DEF LoggedIn
  <2>2. ttl[sid[c]] = 0 \/ now + Validity <= ttl[sid[c]] + Timeout
    <3>1. now <= deadline[c]  BY <1>6 DEF LoggedIn
    <3>2. sid[c] \in Sids /\ ttl[sid[c]] \in Nat /\ deadline[c] \in Nat /\ now \in Nat  BY <1>6 DEF LoggedIn
    <3>3. ttl[sid[c]] = 0 \/ deadline[c] + Validity <= ttl[sid[c]] + Timeout  BY <1>6 DEF LoggedIn
    <3> QED  BY <3>1, <3>2, <3>3
  <2>3. UNCHANGED <<ttl, deadline>>  BY <1>6 DEF LoggedIn
  <2>4. pc'[c] = "get"  BY <1>6 DEF LoggedIn
  <2>5. \A d \in Callers \ {c} : pc'[d] = pc[d] /\ sid'[d] = sid[d] /\ reply'[d] = reply[d]  BY <1>6 DEF LoggedIn
  <2> HIDE DEF TypeOK, Exclusion, Named, Granted, Punctual
  <2> QED  BY <2>1, <2>2, <2>3, <2>4, <2>5
<1>7. ASSUME NEW c \in Callers, LoginFailed(c) PROVE Lag'  BY <1>7 DEF LoginFailed
<1>8. ASSUME NEW c \in Callers, NextEndpoint(c) PROVE Lag'  BY <1>8 DEF NextEndpoint
<1>9. ASSUME NEW c \in Callers, Collected(c) PROVE Lag'  BY <1>9 DEF Collected
<1>10. ASSUME NEW c \in Callers, Rejected(c) PROVE Lag'  BY <1>10 DEF Rejected
<1>11. ASSUME NEW c \in Callers, GetFailed(c) PROVE Lag'  BY <1>11 DEF GetFailed
<1>12. ASSUME NEW c \in Callers, Invalidate(c) PROVE Lag'  BY <1>12 DEF Invalidate
<1>13. ASSUME NEW c \in Callers, Logout(c) PROVE Lag'
  <2>1. session'.sid = NoSid /\ UNCHANGED <<now, ttl>>  BY <1>13 DEF Logout
  <2>2. pc'[c] # "login"  BY <1>13 DEF Logout
  <2>3. \A d \in Callers \ {c} : pc'[d] = pc[d] /\ sid'[d] = sid[d] /\ reply'[d] = reply[d] /\ deadline'[d] = deadline[d]  BY <1>13 DEF Logout
  <2> HIDE DEF TypeOK, Exclusion, Named, Granted
  <2> QED  BY <2>1, <2>2, <2>3
<1>14. ASSUME NEW c \in Callers, LoggedOut(c) PROVE Lag'  BY <1>14 DEF LoggedOut
<1>15. ASSUME NEW c \in Callers, GiveUp(c) PROVE Lag'  BY <1>15 DEF GiveUp
<1>16. ASSUME NEW c \in Callers, HandleLogin(c) PROVE Lag'  BY SMTT(30), <1>16 DEF HandleLogin
<1>17. ASSUME NEW c \in Callers, HandleDelete(c) PROVE Lag'  BY <1>17 DEF HandleDelete
<1>18. ASSUME NEW c \in Callers, HandleGet(c) PROVE Lag'  BY <1>18 DEF HandleGet
<1>19. ASSUME NEW c \in Callers, Refuse(c) PROVE Lag'  BY <1>19 DEF Refuse
<1>20. CASE HandleStrayLogin  BY SMTT(30),  <1>20 DEF HandleStrayLogin
<1>21. ASSUME NEW s \in Sids, HandleStrayLogout(s) PROVE Lag'  BY <1>21 DEF HandleStrayLogout
<1>22. ASSUME NEW s \in Sids, Evict(s) PROVE Lag'  BY <1>22 DEF Evict
<1>23. CASE Tick  BY  <1>23 DEF Tick
<1>24. CASE UNCHANGED vars  BY  <1>24
<1> QED
  BY <1>1, <1>2, <1>3, <1>4, <1>5, <1>6, <1>7, <1>8, <1>9, <1>10, <1>11, <1>12, <1>13, <1>14, <1>15, <1>16, <1>17, <1>18, <1>19, <1>20, <1>21, <1>22, <1>23, <1>24 DEF Next, Begin, Step, Handle, Environment

\* Every step keeps every seat in use known or abandoned.
LEMMA AccountedStep ==
    ASSUME TypeOK, Exclusion, Named, Rejections, Expiry, SeatsAccountedFor, [Next]_vars
    PROVE  SeatsAccountedFor'
<1> USE DEF Exclusion, Named, Rejections, Expiry, SeatsAccountedFor, Held, Seats,
        MustDelete, Locked, AtRest, TypeOK, CallTypeOK, PiholeTypeOK, Sids, Grant, Drop, Elapse
<1>1. ASSUME NEW c \in Callers, Collect(c) PROVE SeatsAccountedFor'
  <2>1. \A d \in Callers : pc'[d] \in Locked <=> pc[d] \in Locked  BY <1>1 DEF Collect
  <2>2. \A d \in Callers : pc[d] \in Locked => sid'[d] = sid[d]  BY <1>1 DEF Collect
  <2>3. UNCHANGED <<session, now, ttl, abandoned>>  BY <1>1 DEF Collect
  <2> HIDE DEF TypeOK, Exclusion, Named, Rejections, Expiry, Locked
  <2> QED  BY <2>1, <2>2, <2>3
<1>2. ASSUME NEW c \in Callers, BeginLogout(c) PROVE SeatsAccountedFor'
  <2>1. \A d \in Callers : pc'[d] \in Locked <=> pc[d] \in Locked  BY <1>2 DEF BeginLogout
  <2>2. \A d \in Callers : pc[d] \in Locked => sid'[d] = sid[d]  BY <1>2 DEF BeginLogout
  <2>3. UNCHANGED <<session, now, ttl, abandoned>>  BY <1>2 DEF BeginLogout
  <2> HIDE DEF TypeOK, Exclusion, Named, Rejections, Expiry, Locked
  <2> QED  BY <2>1, <2>2, <2>3
<1>3. ASSUME NEW c \in Callers, UseCached(c) PROVE SeatsAccountedFor'  BY <1>3 DEF UseCached
<1>4. ASSUME NEW c \in Callers, Refresh(c) PROVE SeatsAccountedFor'  BY <1>4 DEF Refresh
<1>5. ASSUME NEW c \in Callers, Deleted(c) PROVE SeatsAccountedFor'
  <2>1. sid[c] \in Seats => sid[c] \in abandoned'  BY <1>5 DEF Deleted
  <2>2. \A d \in Callers \ {c} : pc'[d] = pc[d] /\ sid'[d] = sid[d]  BY <1>5 DEF Deleted
  <2>3. UNCHANGED <<session, now, ttl>> /\ abandoned \subseteq abandoned'  BY <1>5 DEF Deleted
  <2> HIDE DEF TypeOK, Exclusion, Named, Rejections, Expiry, Locked
  <2> QED  BY <2>1, <2>2, <2>3
<1>6. ASSUME NEW c \in Callers, LoggedIn(c) PROVE SeatsAccountedFor'  BY <1>6 DEF LoggedIn
<1>7. ASSUME NEW c \in Callers, LoginFailed(c) PROVE SeatsAccountedFor'  BY <1>7 DEF LoginFailed
<1>8. ASSUME NEW c \in Callers, NextEndpoint(c) PROVE SeatsAccountedFor'  BY <1>8 DEF NextEndpoint
<1>9. ASSUME NEW c \in Callers, Collected(c) PROVE SeatsAccountedFor'  BY <1>9 DEF Collected
<1>10. ASSUME NEW c \in Callers, Rejected(c) PROVE SeatsAccountedFor'  BY <1>10 DEF Rejected
<1>11. ASSUME NEW c \in Callers, GetFailed(c) PROVE SeatsAccountedFor'  BY SMTT(30), <1>11 DEF GetFailed
<1>12. ASSUME NEW c \in Callers, Invalidate(c) PROVE SeatsAccountedFor'  BY <1>12 DEF Invalidate
<1>13. ASSUME NEW c \in Callers, Logout(c) PROVE SeatsAccountedFor'  BY <1>13 DEF Logout
<1>14. ASSUME NEW c \in Callers, LoggedOut(c) PROVE SeatsAccountedFor'
  <2>1. sid[c] \in Seats => sid[c] \in abandoned'  BY <1>14 DEF LoggedOut
  <2>2. \A d \in Callers \ {c} : pc'[d] = pc[d] /\ sid'[d] = sid[d]  BY <1>14 DEF LoggedOut
  <2>3. UNCHANGED <<session, now, ttl>> /\ abandoned \subseteq abandoned'  BY <1>14 DEF LoggedOut
  <2> HIDE DEF TypeOK, Exclusion, Named, Rejections, Expiry, Locked
  <2> QED  BY <2>1, <2>2, <2>3
<1>15. ASSUME NEW c \in Callers, GiveUp(c) PROVE SeatsAccountedFor'  BY <1>15 DEF GiveUp
<1>16. ASSUME NEW c \in Callers, HandleLogin(c) PROVE SeatsAccountedFor'  BY <1>16 DEF HandleLogin
<1>17. ASSUME NEW c \in Callers, HandleDelete(c) PROVE SeatsAccountedFor'  BY <1>17 DEF HandleDelete
<1>18. ASSUME NEW c \in Callers, HandleGet(c) PROVE SeatsAccountedFor'  BY <1>18 DEF HandleGet
<1>19. ASSUME NEW c \in Callers, Refuse(c) PROVE SeatsAccountedFor'  BY <1>19 DEF Refuse
<1>20. CASE HandleStrayLogin  BY  <1>20 DEF HandleStrayLogin
<1>21. ASSUME NEW s \in Sids, HandleStrayLogout(s) PROVE SeatsAccountedFor'  BY <1>21 DEF HandleStrayLogout
<1>22. ASSUME NEW s \in Sids, Evict(s) PROVE SeatsAccountedFor'  BY <1>22 DEF Evict
<1>23. CASE Tick  BY  <1>23 DEF Tick
<1>24. CASE UNCHANGED vars  BY  <1>24
<1> QED
  BY <1>1, <1>2, <1>3, <1>4, <1>5, <1>6, <1>7, <1>8, <1>9, <1>10, <1>11, <1>12, <1>13, <1>14, <1>15, <1>16, <1>17, <1>18, <1>19, <1>20, <1>21, <1>22, <1>23, <1>24 DEF Next, Begin, Step, Handle, Environment

\* IInv is inductive and holds initially.
THEOREM Invariance == Spec => []IInv
<1>1. Init => IInv
  BY DEF Init, PiholeInit, IInv, TypeOK, CallTypeOK, PiholeTypeOK, Sids, Exclusion, Named, Granted,
    Fresh, Rejections, Expiry, Punctual, Lag, Asked, SeatsAccountedFor, Seats, AtRest, Locking, Locked, Exchanging
<1>2. IInv /\ [Next]_vars => IInv'
  BY TypeStep, ExclusionStep, AskedStep, NamedStep, GrantedStep, FreshStep, RejectionsStep, ExpiryStep,
    PunctualStep, LagStep, AccountedStep DEF IInv
<1> QED  BY <1>1, <1>2, PTL DEF Spec

\* The variables stay in their types.
THEOREM TypeCorrect == Spec => []TypeOK
<1>1. IInv => TypeOK  BY DEF IInv
<1> QED  BY <1>1, Invariance, PTL

\* No seat is occupied that the exporter will not release or has not lost to a
\* failed exchange.
THEOREM SeatsCorrect == Spec => []SeatsAccountedFor
<1>1. IInv => SeatsAccountedFor  BY DEF IInv
<1> QED  BY <1>1, Invariance, PTL

\* The sessions the exporter answers for are one at most: a caller that holds
\* mu in an exchange is alone, and then nothing is cached.
LEMMA HeldIsUnique == IInv => \A s, t \in Held : s = t
<1> SUFFICES ASSUME IInv, NEW s \in Held, NEW t \in Held PROVE s = t
  OBVIOUS
<1> USE DEF IInv, Exclusion, Held
<1>1. CASE mu = Nobody
  <2>1. \A c \in Callers : pc[c] \notin Locked  BY <1>1
  <2> QED  BY <2>1
<1>2. CASE mu # Nobody
  <2>1. session.sid = NoSid  BY <1>2
  <2>2. \A c, d \in Callers : pc[c] \in Locked /\ pc[d] \in Locked => c = d  OBVIOUS
  <2> QED  BY <2>1, <2>2
<1> QED  BY <1>1, <1>2

\* Concurrent callers never make the exporter occupy two seats at once.
THEOREM OneSeatCorrect == Spec => []OneSeat
<1>1. IInv => OneSeat  BY HeldIsUnique DEF IInv, SeatsAccountedFor, OneSeat
<1> QED  BY <1>1, Invariance, PTL

\* The retry after a 401 uses another session than the one rejected.
THEOREM RetryCorrect == Spec => []RetryUsesAnotherSession
<1>1. IInv => RetryUsesAnotherSession  BY DEF IInv, Rejections, RetryUsesAnotherSession
<1> QED  BY <1>1, Invariance, PTL

\* With a refresh skew no shorter than the scrape timeout, a session the client
\* takes from its cache has not expired at Pi-hole.
THEOREM CachedSessionCorrect ==
    ASSUME Timeout <= RefreshSkew
    PROVE  Spec => []CachedSessionIsLive
<1>1. IInv => CachedSessionIsLive
  <2> SUFFICES ASSUME IInv, Usable, ttl[session.sid] # 0 PROVE now < ttl[session.sid]
    BY DEF CachedSessionIsLive
  <2>1. session.sid # NoSid /\ now + RefreshSkew < session.expiresAt  BY DEF Usable
  <2>2. session.expiresAt <= ttl[session.sid] + Timeout  BY <2>1 DEF IInv, Lag
  <2>3. now \in Nat /\ session.expiresAt \in Nat /\ ttl[session.sid] \in Nat
    BY <2>1 DEF IInv, TypeOK, PiholeTypeOK
  <2> QED  BY <2>1, <2>2, <2>3
<1> QED  BY <1>1, Invariance, PTL

\* A usable session that Pi-hole still holds leaves the cache by Logout alone.
THEOREM LiveSessionKeptCorrect == Spec => LiveSessionKept
<1>1. ASSUME IInv, [Next]_vars, Usable, session.sid \in Seats, session' # session
      PROVE  \E c \in Callers : pc[c] = "logout" /\ pc'[c] # "logout"
  <2>0. TypeOK /\ Exclusion /\ Rejections  BY <1>1 DEF IInv
  <2>1. ASSUME NEW c \in Callers, LoggedIn(c) PROVE FALSE
    BY <1>1, <2>0, <2>1 DEF LoggedIn, Exclusion, Locked, Usable
  <2>2. ASSUME NEW c \in Callers, Refresh(c) PROVE FALSE
    BY <1>1, <2>2 DEF Refresh
  <2>3. ASSUME NEW c \in Callers, Invalidate(c) PROVE FALSE
    <3>1. rejected[c] = session.sid /\ rejected[c] # NoSid
      BY <1>1, <2>0, <2>3 DEF Invalidate, Rejections, Usable
    <3> QED  BY <1>1, <2>0, <3>1 DEF Rejections
  <2>4. ASSUME NEW c \in Callers, Logout(c) PROVE pc[c] = "logout" /\ pc'[c] # "logout"
    <3>1. DOMAIN pc = Callers  BY <2>0 DEF TypeOK, CallTypeOK
    <3> QED  BY <2>4, <3>1 DEF Logout
  <2> QED
    BY <1>1, <2>1, <2>2, <2>3, <2>4 DEF Next, Begin, Step, Handle, Environment, Collect, BeginLogout,
      UseCached, Deleted, LoginFailed, NextEndpoint, Collected, Rejected, GetFailed, LoggedOut, GiveUp,
      HandleLogin, HandleDelete, HandleGet, Refuse, HandleStrayLogin, HandleStrayLogout, Evict, Tick
<1>2. IInv /\ [Next]_vars => [ Usable /\ session.sid \in Seats /\ session' # session
        => \E c \in Callers : pc[c] = "logout" /\ pc'[c] # "logout" ]_vars
  BY <1>1
<1> QED  BY <1>2, Invariance, PTL DEF Spec, LiveSessionKept

\* A scrape reports success only within its deadline.
THEOREM SuccessIsTimelyCorrect == Spec => SuccessIsTimely
<1>1. ASSUME IInv, [Next]_vars, NEW c \in Callers, pc[c] # "succeeded", pc'[c] = "succeeded"
      PROVE  now <= deadline[c]
  <2> USE DEF IInv, TypeOK, CallTypeOK
  <2>1. ASSUME NEW d \in Callers, pc' = [pc EXCEPT ![d] = pc'[d]], pc'[d] # "succeeded" PROVE FALSE
    BY <1>1, <2>1
  <2>2. CASE \E d \in Callers : Collected(d)
    <3>1. Collected(c)  BY <1>1, <2>2 DEF Collected
    <3> QED  BY <1>1, <3>1 DEF Collected, Punctual, Exchanging
  <2>3. CASE pc' = pc  BY <1>1, <2>3
  <2> QED
    BY <1>1, <2>1, <2>2, <2>3 DEF Next, Begin, Step, Handle, Environment, Collect, BeginLogout,
      UseCached, Refresh, Deleted, LoggedIn, LoginFailed, NextEndpoint, Rejected, GetFailed,
      Invalidate, Logout, LoggedOut, GiveUp, HandleLogin, HandleDelete, HandleGet, Refuse,
      HandleStrayLogin, HandleStrayLogout, Evict, Tick
<1>2. IInv /\ [Next]_vars => [ \A c \in Callers :
        pc[c] # "succeeded" /\ pc'[c] = "succeeded" => now <= deadline[c] ]_vars
  BY <1>1
<1> QED  BY <1>2, Invariance, PTL DEF Spec, SuccessIsTimely

-----------------------------------------------------------------------------
(* A call ends after finitely many steps of its own                        *)

\* Of what StepsLeft counts nothing has changed.
Unmoved(c) ==
    /\ pc'[c] = pc[c] /\ rejected'[c] = rejected[c] /\ endpoint'[c] = endpoint[c]
    /\ reply'[c] = "failed" <=> reply[c] = "failed"

LEMMA UnmovedLeft ==
    ASSUME NEW c \in Callers, Unmoved(c)
    PROVE  StepsLeft(c)' = StepsLeft(c)
BY Zenon DEF Unmoved, StepsLeft, TryLeft, Exchange

\* What others do, and what Pi-hole answers, neither gives nor takes steps.
LEMMA OthersUnmoved ==
    ASSUME IInv, NEW c \in Callers
    PROVE  /\ Begin(c) \/ Step(c) => \A d \in Callers \ {c} : Unmoved(d)
           /\ Handle(c) \/ Environment \/ UNCHANGED vars => \A d \in Callers : Unmoved(d)
<1> USE DEF IInv, TypeOK, CallTypeOK, Unmoved
<1>1. ASSUME Begin(c) PROVE \A d \in Callers \ {c} : Unmoved(d)
  BY <1>1 DEF Begin, Collect, BeginLogout
<1>2. ASSUME Step(c) PROVE \A d \in Callers \ {c} : Unmoved(d)
  <2>1. CASE UseCached(c) \/ Refresh(c) \/ Deleted(c) \/ LoggedIn(c)
    BY <2>1 DEF UseCached, Refresh, Deleted, LoggedIn
  <2>2. CASE LoginFailed(c) \/ NextEndpoint(c) \/ Collected(c) \/ Rejected(c) \/ GetFailed(c) \/ Invalidate(c)
    BY <2>2 DEF LoginFailed, NextEndpoint, Collected, Rejected, GetFailed, Invalidate
  <2>3. CASE Logout(c) \/ LoggedOut(c) \/ GiveUp(c)
    BY <2>3 DEF Logout, LoggedOut, GiveUp
  <2> QED  BY <1>2, <2>1, <2>2, <2>3 DEF Step
<1>3. ASSUME Handle(c) PROVE \A d \in Callers : Unmoved(d)
  BY <1>3 DEF Handle, HandleLogin, HandleDelete, HandleGet, Refuse
<1>4. ASSUME Environment \/ UNCHANGED vars PROVE \A d \in Callers : Unmoved(d)
  BY <1>4 DEF Environment, HandleStrayLogin, HandleStrayLogout, Evict, Tick
<1> QED  BY <1>1, <1>2, <1>3, <1>4

\* Each step of a caller uses up one of those it had left.
LEMMA StepUsesUp ==
    ASSUME IInv, NEW c \in Callers, Step(c)
    PROVE  StepsLeft(c) \in Nat /\ StepsLeft(c)' \in Nat /\ StepsLeft(c)' < StepsLeft(c)
<1> DEFINE rest == Endpoints - endpoint[c]
<1>0. /\ pc \in [Callers -> AtRest \cup Locking \cup Exchanging]
      /\ DOMAIN reply = Callers /\ DOMAIN sid = Callers /\ DOMAIN rejected = Callers
      /\ DOMAIN endpoint = Callers /\ rest \in Nat
  BY DEF IInv, TypeOK, CallTypeOK
<1> USE DEF StepsLeft, TryLeft, Exchange, AtRest, Locking, Locked, Exchanging
<1>1. CASE UseCached(c)  BY <1>0, <1>1 DEF UseCached
<1>2. CASE Refresh(c)  BY <1>0, <1>2 DEF Refresh
<1>3. CASE Deleted(c)  BY <1>0, <1>3 DEF Deleted
<1>4. CASE LoggedIn(c)  BY <1>0, <1>4 DEF LoggedIn
<1>5. CASE LoginFailed(c)  BY <1>0, <1>5 DEF LoginFailed
<1>6. CASE NextEndpoint(c)
  <2>1. endpoint'[c] = endpoint[c] + 1 /\ Endpoints - endpoint'[c] = rest - 1 /\ rest - 1 \in Nat
    BY <1>0, <1>6 DEF NextEndpoint, IInv, TypeOK, CallTypeOK
  <2> QED  BY <1>0, <1>6, <2>1 DEF NextEndpoint
<1>7. CASE Collected(c)  BY <1>0, <1>7 DEF Collected
<1>8. CASE Rejected(c)
  <2>1. sid[c] # NoSid  BY <1>8 DEF Rejected, IInv, Named
  <2> QED  BY <1>0, <1>8, <2>1 DEF Rejected
<1>9. CASE GetFailed(c)  BY <1>0, <1>9 DEF GetFailed
<1>10. CASE Invalidate(c)
  <2>1. rejected[c] # NoSid  BY <1>10 DEF Invalidate, IInv, Named, Rejections
  <2> QED  BY <1>0, <1>10, <2>1 DEF Invalidate
<1>11. CASE Logout(c)  BY <1>0, <1>11 DEF Logout
<1>12. CASE LoggedOut(c)  BY <1>0, <1>12 DEF LoggedOut
<1>13. CASE GiveUp(c)  BY <1>0, <1>13 DEF GiveUp
<1> QED
  BY <1>1, <1>2, <1>3, <1>4, <1>5, <1>6, <1>7, <1>8, <1>9, <1>10, <1>11, <1>12, <1>13 DEF Step

\* A call takes finitely many steps of its own, whatever Pi-hole answers and
\* whatever other callers do: no 401 and no renewal makes it start over.
THEOREM CallsRunOutCorrect == Spec => CallsRunOut
<1>1. ASSUME IInv, [Next]_vars, NEW c \in Callers, StepsLeft(c)' > StepsLeft(c) PROVE pc[c] \in AtRest
  <2>1. ASSUME Unmoved(c) \/ Step(c) PROVE FALSE
    <3>1. CASE Unmoved(c)
      <4>1. StepsLeft(c) > StepsLeft(c)  BY <1>1, <3>1, UnmovedLeft
      <4>2. StepsLeft(c) \in Int
        BY <1>1 DEF IInv, TypeOK, CallTypeOK, StepsLeft, TryLeft, Exchange
      <4> QED  BY <4>1, <4>2
    <3>2. CASE Step(c)  BY <1>1, <3>2, StepUsesUp
    <3> QED  BY <2>1, <3>1, <3>2
  <2>2. Begin(c)
    <3>1. PICK d \in Callers : Begin(d) \/ Step(d) \/ Handle(d) \/ Environment \/ UNCHANGED vars
      BY <1>1 DEF Next
    <3>2. ASSUME d # c PROVE Unmoved(c)  BY <1>1, <3>1, <3>2, OthersUnmoved
    <3>3. ASSUME d = c, Handle(d) \/ Environment \/ UNCHANGED vars PROVE Unmoved(c)
      BY <1>1, <3>3, OthersUnmoved
    <3> QED  BY <2>1, <3>1, <3>2, <3>3
  <2> QED  BY <2>2 DEF Begin, Collect, BeginLogout
<1>2. IInv /\ [Next]_vars => [ \A c \in Callers :
            /\ Step(c) => StepsLeft(c)' < StepsLeft(c)
            /\ StepsLeft(c)' > StepsLeft(c) => pc[c] \in AtRest ]_vars
  BY <1>1, StepUsesUp
<1> QED  BY <1>2, Invariance, PTL DEF Spec, CallsRunOut

\* And there are not many: a scrape of n endpoints takes at most 15 n steps.
THEOREM CallsAreShort == Spec => [](\A c \in Callers : StepsLeft(c) <= 15 * Endpoints)
<1>1. ASSUME IInv, NEW c \in Callers PROVE StepsLeft(c) <= 15 * Endpoints
  <2>1. pc[c] \in AtRest \cup Locking \cup Exchanging /\ endpoint[c] \in 1..Endpoints
    BY <1>1 DEF IInv, TypeOK, CallTypeOK
  <2> QED  BY <2>1 DEF StepsLeft, TryLeft, Exchange, AtRest, Locking, Locked, Exchanging
<1>2. IInv => \A c \in Callers : StepsLeft(c) <= 15 * Endpoints
  BY <1>1
<1> QED  BY <1>2, Invariance, PTL

\* As long as anybody is in a call, somebody can go on: a locked mu is held by
\* a caller in an exchange, and every exchange has an end.
LEMMA SomebodyCanStep ==
    ASSUME IInv, NEW c \in Callers, pc[c] \notin AtRest
    PROVE  \E d \in Callers : CanStep(d)
<1>1. CASE pc[c] \in Exchanging  BY <1>1 DEF IInv, Asked, CanStep
<1>2. CASE pc[c] \in Locking /\ mu = Nobody  BY <1>2 DEF CanStep
<1>3. CASE mu # Nobody
  <2>1. mu \in Callers /\ pc[mu] \in Locked  BY <1>3 DEF IInv, TypeOK, Exclusion
  <2> QED  BY <2>1 DEF IInv, Asked, CanStep, Exchanging
<1> QED  BY <1>1, <1>2, <1>3 DEF IInv, TypeOK, CallTypeOK

\* No caller waits for ever for one that waits itself.
THEOREM NobodyIsStuck == Spec => []NobodyStuck
<1>1. IInv => NobodyStuck  BY SomebodyCanStep DEF NobodyStuck
<1> QED  BY <1>1, Invariance, PTL
=============================================================================
