-------------------------- MODULE SeatLeaseProofs --------------------------
(***************************************************************************)
(* AuthClient implements SeatLease: proof of the refinement, for every     *)
(* value of the constants, and of what SeatLease promises.                 *)
(***************************************************************************)
EXTENDS AuthClientProofs

\* Abbreviations every step needs.
USE AuthClientAssumption, PiholeAssumption
    DEF vars, piholeVars, callVars, strayVars, NoSid, EmptySession,
        Send, GoTo, Return, Reply, Answered

\* The sessions the exporter answers for, by who holds mu.
HeldByCase ==
    /\ \A c \in Callers : pc[c] \in Locked => Held = {sid[c]} \ {NoSid}
    /\ mu = Nobody => Held = {session.sid} \ {NoSid}

\* A caller in an exchange that needs mu answers for its own session alone;
\* while mu is free the exporter answers for the cached session alone.
LEMMA HeldCases == Exclusion => HeldByCase
<1> SUFFICES ASSUME Exclusion PROVE HeldByCase
  OBVIOUS
<1> USE DEF Exclusion, Held
<1>1. ASSUME NEW c \in Callers, pc[c] \in Locked PROVE Held = {sid[c]} \ {NoSid}
  <2>1. mu = c /\ session.sid = NoSid  BY <1>1
  <2>2. {d \in Callers : pc[d] \in Locked} = {c}  BY <1>1, <2>1
  <2> QED  BY <2>1, <2>2
<1>2. CASE mu = Nobody
  <2>1. {d \in Callers : pc[d] \in Locked} = {}  BY <1>2
  <2> QED  BY <1>2, <2>1 DEF HeldByCase
<1> QED  BY <1>1, <1>2 DEF HeldByCase

\* The same after a step.
LEMMA HeldCasesNext == Exclusion' => HeldByCase'
BY HeldCases, PTL

\* Nothing SeatLease sees has changed.
Unseen == UNCHANGED <<Seats, lastSid, Held, abandoned>>

\* A step that only frees seats is a Free of SeatLease, or unseen.
LEMMA FreeStep ==
    ASSUME Seats' \subseteq Seats, UNCHANGED <<lastSid, Held, abandoned>>
    PROVE  [Lease!Next]_Lease!leaseVars
<1>1. CASE Seats' = Seats  BY <1>1 DEF Lease!leaseVars
<1>2. CASE Seats' # Seats
  <2> DEFINE S == Seats \ Seats'
  <2>1. S # {} /\ S \in SUBSET Seats /\ Seats' = Seats \ S  BY <1>2
  <2>2. Lease!Free(S)  BY <2>1 DEF Lease!Free
  <2> QED  BY <2>1, <2>2 DEF Lease!Next
<1> QED  BY <1>1, <1>2

\* A step that lets a session go whose seat is free is a Forget of SeatLease,
\* or unseen when there was none.
LEMMA ForgetStep ==
    ASSUME UNCHANGED <<Seats, lastSid, abandoned>>, Held' = {}, Held \cap Seats = {}
    PROVE  [Lease!Next]_Lease!leaseVars
<1>1. CASE Held = {}  BY <1>1 DEF Lease!leaseVars
<1>2. CASE Held # {}  BY <1>2 DEF Lease!Next, Lease!Forget
<1> QED  BY <1>1, <1>2

\* A step that lets a session go for lost is an Abandon of SeatLease, or unseen
\* when there was none.
LEMMA AbandonStep ==
    ASSUME UNCHANGED <<Seats, lastSid>>, Held' = {}, abandoned' = abandoned \cup Held
    PROVE  [Lease!Next]_Lease!leaseVars
<1>1. CASE Held = {}  BY <1>1 DEF Lease!leaseVars
<1>2. CASE Held # {}  BY <1>2 DEF Lease!Next, Lease!Abandon
<1> QED  BY <1>1, <1>2

\* A grant of Pi-hole is a grant of SeatLease: of a session never issued before.
LEMMA GrantStep ==
    ASSUME TypeOK, Granted, Grant
    PROVE  Lease!Grant(lastSid + 1) /\ lastSid + 1 \in Sids
<1> USE DEF TypeOK, PiholeTypeOK, Grant, Sids
<1>1. lastSid + 1 \in Sids \ 1..lastSid  OBVIOUS
<1>2. 1..lastSid' = 1..lastSid \cup {lastSid + 1}  OBVIOUS
<1>3. Seats' = Seats \cup {lastSid + 1}  BY <1>1 DEF Seats
<1> QED  BY <1>1, <1>2, <1>3 DEF Lease!Grant

\* Every step of AuthClient is a step of SeatLease or unseen.
LEMMA LeaseStep ==
    ASSUME IInv, IInv', [Next]_vars
    PROVE  [Lease!Next]_Lease!leaseVars
<1>inv. TypeOK /\ Exclusion /\ Named /\ Granted /\ Rejections /\ Expiry  BY DEF IInv
<1>held. HeldByCase /\ HeldByCase'  BY HeldCases, HeldCasesNext DEF IInv
<1>fun. DOMAIN pc = Callers /\ DOMAIN sid = Callers /\ DOMAIN reply = Callers
  BY <1>inv DEF TypeOK, CallTypeOK
<1>unseen. ASSUME Unseen PROVE [Lease!Next]_Lease!leaseVars
  BY <1>unseen DEF Unseen, Lease!leaseVars
<1>quiet. ASSUME NEW c \in Callers, pc[c] \notin Locked, pc'[c] \notin Locked,
                 \A d \in Callers \ {c} : pc'[d] = pc[d] /\ sid'[d] = sid[d], UNCHANGED session
          PROVE  Held' = Held
  <2>1. {d \in Callers : pc'[d] \in Locked} = {d \in Callers : pc[d] \in Locked}  BY <1>quiet
  <2>2. \A d \in Callers : pc[d] \in Locked => sid'[d] = sid[d]  BY <1>quiet
  <2> QED  BY <1>quiet, <2>1, <2>2 DEF Held
<1>1. ASSUME NEW c \in Callers, Collect(c) \/ BeginLogout(c) PROVE [Lease!Next]_Lease!leaseVars
  <2>1. Held' = Held  BY <1>1, <1>fun, <1>quiet DEF Collect, BeginLogout, AtRest, Locked
  <2> QED  BY <1>1, <2>1, <1>unseen DEF Unseen, Collect, BeginLogout, Seats
<1>2. ASSUME NEW c \in Callers, UseCached(c) \/ NextEndpoint(c) \/ Collected(c) \/ Rejected(c) \/ GetFailed(c)
      PROVE  [Lease!Next]_Lease!leaseVars
  <2>1. Held' = Held
    BY <1>2, <1>fun, <1>quiet DEF UseCached, NextEndpoint, Collected, Rejected, GetFailed, Locked
  <2> QED  BY <1>2, <2>1, <1>unseen DEF Unseen, UseCached, NextEndpoint, Collected, Rejected, GetFailed, Seats
<1>3. ASSUME NEW c \in Callers, Refresh(c) PROVE [Lease!Next]_Lease!leaseVars
  <2>1. Held = {session.sid} \ {NoSid}  BY <1>3, <1>held DEF HeldByCase, Refresh
  <2>2. UNCHANGED <<Seats, lastSid, abandoned>>  BY <1>3 DEF Refresh, Seats
  <2>3. Held' = {sid'[c]} \ {NoSid}
    <3>1. pc'[c] \in Locked  BY <1>3, <1>fun DEF Refresh, Locked
    <3> QED  BY <3>1, <1>held DEF HeldByCase
  <2>4. CASE MustDelete
    <3>1. sid'[c] = session.sid  BY <1>3, <1>fun, <2>4 DEF Refresh
    <3> QED  BY <2>1, <2>2, <2>3, <3>1, <1>unseen DEF Unseen
  <2>5. CASE ~MustDelete
    <3>1. sid'[c] = NoSid  BY <1>3, <1>fun, <2>5 DEF Refresh
    <3>2. session.sid \notin Seats
      BY <2>5, <1>inv DEF MustDelete, Expiry, Seats, Sids, TypeOK, PiholeTypeOK
    <3> QED  BY <2>1, <2>2, <2>3, <3>1, <3>2, ForgetStep
  <2> QED  BY <2>4, <2>5
<1>4. ASSUME NEW c \in Callers, Deleted(c) \/ LoggedOut(c) PROVE [Lease!Next]_Lease!leaseVars
  <2>1. Held = {sid[c]} \ {NoSid}  BY <1>4, <1>held DEF HeldByCase, Deleted, LoggedOut, Locked
  <2>2. Held' = {}
    <3>1. CASE Deleted(c)
      <4>1. pc'[c] \in Locked /\ sid'[c] = NoSid  BY <1>fun, <3>1 DEF Deleted, Locked
      <4> QED  BY <4>1, <1>held DEF HeldByCase
    <3>2. CASE LoggedOut(c)
      <4>1. mu' = Nobody /\ session' = session /\ mu = c
        BY <3>2, <1>inv DEF LoggedOut, Exclusion, Locked
      <4>2. session.sid = NoSid  BY <4>1, <1>inv DEF Exclusion
      <4> QED  BY <4>1, <4>2, <1>held DEF HeldByCase
    <3> QED  BY <1>4, <3>1, <3>2
  <2>3. UNCHANGED <<Seats, lastSid>>  BY <1>4 DEF Deleted, LoggedOut, Seats
  <2>4. CASE reply[c] = "ok"
    <3>1. sid[c] \notin Seats /\ abandoned' = abandoned
      BY <1>4, <2>4, <1>inv DEF Deleted, LoggedOut, Rejections
    <3> QED  BY <2>1, <2>2, <2>3, <3>1, ForgetStep
  <2>5. CASE reply[c] # "ok"
    <3>1. abandoned' = abandoned \cup {sid[c]} /\ sid[c] # NoSid
      BY <1>4, <2>5, <1>inv DEF Deleted, LoggedOut, Named
    <3> QED  BY <2>1, <2>2, <2>3, <3>1, AbandonStep
  <2> QED  BY <2>4, <2>5
<1>5. ASSUME NEW c \in Callers, LoggedIn(c) \/ LoginFailed(c) PROVE [Lease!Next]_Lease!leaseVars
  <2>1. Held = {sid[c]} \ {NoSid}  BY <1>5, <1>held DEF HeldByCase, LoggedIn, LoginFailed, Locked
  <2>2. Held' = {session'.sid} \ {NoSid}  BY <1>5, <1>held DEF HeldByCase, LoggedIn, LoginFailed
  <2>3. session'.sid = sid[c]
    <3>1. CASE LoggedIn(c)  BY <3>1 DEF LoggedIn
    <3>2. CASE LoginFailed(c)
      <4>1. sid[c] = NoSid /\ mu = c  BY <3>2, <1>inv DEF LoginFailed, Named, Exclusion, Locked
      <4> QED  BY <3>2, <4>1, <1>inv DEF LoginFailed, Exclusion
    <3> QED  BY <1>5, <3>1, <3>2
  <2> QED  BY <1>5, <2>1, <2>2, <2>3, <1>unseen DEF Unseen, LoggedIn, LoginFailed, Seats
<1>6. ASSUME NEW c \in Callers, Invalidate(c) PROVE [Lease!Next]_Lease!leaseVars
  <2>1. UNCHANGED <<Seats, lastSid, abandoned>>  BY <1>6 DEF Invalidate, Seats
  <2>2. Held = {session.sid} \ {NoSid} /\ Held' = {session'.sid} \ {NoSid}
    BY <1>6, <1>held DEF HeldByCase, Invalidate
  <2>3. CASE session.sid = sid[c]
    <3>1. session'.sid = NoSid  BY <1>6, <2>3 DEF Invalidate
    <3>2. session.sid \notin Seats  BY <1>6, <2>3, <1>inv DEF Invalidate, Rejections, Named
    <3> QED  BY <2>1, <2>2, <3>1, <3>2, ForgetStep
  <2>4. CASE session.sid # sid[c]
    <3>1. session' = session  BY <1>6, <2>4 DEF Invalidate
    <3> QED  BY <2>1, <2>2, <3>1, <1>unseen DEF Unseen
  <2> QED  BY <2>3, <2>4
<1>7. ASSUME NEW c \in Callers, Logout(c) PROVE [Lease!Next]_Lease!leaseVars
  <2>1. UNCHANGED <<Seats, lastSid, abandoned>>  BY <1>7 DEF Logout, Seats
  <2>2. Held = {session.sid} \ {NoSid}  BY <1>7, <1>held DEF HeldByCase, Logout
  <2>3. CASE MustDelete
    <3>1. pc'[c] \in Locked /\ sid'[c] = session.sid  BY <1>7, <1>fun, <2>3 DEF Logout, Locked
    <3> QED  BY <2>1, <2>2, <3>1, <1>held, <1>unseen DEF HeldByCase, Unseen
  <2>4. CASE ~MustDelete
    <3>1. mu' = Nobody /\ session'.sid = NoSid  BY <1>7, <2>4 DEF Logout
    <3>2. session.sid \notin Seats
      BY <2>4, <1>inv DEF MustDelete, Expiry, Seats, Sids, TypeOK, PiholeTypeOK
    <3> QED  BY <2>1, <2>2, <3>1, <3>2, <1>held, ForgetStep DEF HeldByCase
  <2> QED  BY <2>3, <2>4
<1>8. ASSUME NEW c \in Callers, GiveUp(c) PROVE [Lease!Next]_Lease!leaseVars
  <2>1. UNCHANGED <<Seats, lastSid, pc, session>>  BY <1>8 DEF GiveUp, Seats
  <2>2. CASE pc[c] = "login"
    <3>1. Held = {sid[c]} \ {NoSid} /\ Held' = {}
      <4>1. sid'[c] = NoSid  BY <1>8, <1>fun, <2>2 DEF GiveUp
      <4> QED  BY <2>1, <2>2, <4>1, <1>held DEF HeldByCase, Locked
    <3>2. abandoned' = abandoned \cup Held
      BY <1>8, <2>2, <3>1, <1>inv DEF GiveUp, Named
    <3> QED  BY <2>1, <3>1, <3>2, AbandonStep
  <2>3. CASE pc[c] # "login"
    <3>1. UNCHANGED <<sid, abandoned>>  BY <1>8, <2>3 DEF GiveUp
    <3> QED  BY <2>1, <3>1, <1>unseen DEF Unseen, Held
  <2> QED  BY <2>2, <2>3
<1>9. ASSUME NEW c \in Callers, HandleLogin(c) PROVE [Lease!Next]_Lease!leaseVars
  <2>1. pc[c] \in Locked /\ sid[c] = NoSid  BY <1>9, <1>inv DEF HandleLogin, Named, Locked
  <2>2. Held = {}  BY <2>1, <1>held DEF HeldByCase
  <2>3. Lease!Grant(lastSid + 1) /\ lastSid + 1 \in Sids  BY <1>9, <1>inv, GrantStep DEF HandleLogin
  <2>4. Held' = {lastSid + 1}
    <3>1. pc'[c] \in Locked /\ sid'[c] = lastSid + 1  BY <1>9, <1>fun, <2>1 DEF HandleLogin
    <3>2. lastSid + 1 # NoSid  BY <2>3 DEF Sids
    <3> QED  BY <3>1, <3>2, <1>held DEF HeldByCase
  <2>5. Lease!Take(lastSid + 1)  BY <1>9, <2>2, <2>3, <2>4 DEF HandleLogin, Lease!Take
  <2> QED  BY <2>3, <2>5 DEF Lease!Next
<1>10. ASSUME NEW c \in Callers, HandleDelete(c) PROVE [Lease!Next]_Lease!leaseVars
  <2>1. Seats' \subseteq Seats
    BY <1>10, <1>inv DEF HandleDelete, Drop, Seats, TypeOK, PiholeTypeOK
  <2> QED  BY <1>10, <2>1, FreeStep DEF HandleDelete, Drop, Held
<1>11. ASSUME NEW c \in Callers, HandleGet(c) \/ Refuse(c) PROVE [Lease!Next]_Lease!leaseVars
  BY <1>11, <1>unseen DEF Unseen, HandleGet, Refuse, Seats, Held
<1>12. CASE HandleStrayLogin
  <2>1. Lease!Grant(lastSid + 1) /\ lastSid + 1 \in Sids  BY <1>12, <1>inv, GrantStep DEF HandleStrayLogin
  <2>2. Lease!Lose(lastSid + 1)  BY <1>12, <2>1 DEF HandleStrayLogin, Lease!Lose, Held
  <2> QED  BY <2>1, <2>2 DEF Lease!Next
<1>13. ASSUME NEW s \in Sids, HandleStrayLogout(s) \/ Evict(s) PROVE [Lease!Next]_Lease!leaseVars
  <2>1. Drop(s) /\ UNCHANGED <<session, callVars, abandoned>>  BY <1>13 DEF HandleStrayLogout, Evict
  <2>2. Seats' \subseteq Seats  BY <2>1, <1>inv DEF Drop, Seats, TypeOK, PiholeTypeOK
  <2> QED  BY <2>1, <2>2, FreeStep DEF Drop, Held
<1>14. CASE Tick
  <2>1. Seats' \subseteq Seats  BY <1>14, <1>inv DEF Tick, Elapse, Seats, TypeOK, PiholeTypeOK
  <2> QED  BY <1>14, <2>1, FreeStep DEF Tick, Elapse, Held
<1>15. CASE UNCHANGED vars
  BY <1>15, <1>unseen DEF Unseen, Seats, Held
<1> QED
  BY <1>1, <1>2, <1>3, <1>4, <1>5, <1>6, <1>7, <1>8, <1>9, <1>10, <1>11, <1>12, <1>13, <1>14, <1>15
    DEF Next, Begin, Step, Handle, Environment

\* The exporter keeps the promise of SeatLease: however its callers interleave
\* and whatever Pi-hole and the network do, it holds one seat at a time, takes
\* none before it has released the last or given it up for lost, and forgets
\* none that Pi-hole still holds.
THEOREM Refinement == Spec => ImplementsSeatLease
<1>1. Init => Lease!Init
  BY DEF Init, PiholeInit, Lease!Init, Seats, Sids, Held, Locked
<1>2. IInv /\ IInv' /\ [Next]_vars => [Lease!Next]_Lease!leaseVars  BY LeaseStep
<1> QED  BY <1>1, <1>2, Invariance, PTL DEF Spec, ImplementsSeatLease, Lease!Spec

\* What SeatLease promises: every seat in use is on lease or abandoned, and at
\* most one is on lease.
THEOREM Promise == Spec => []Lease!AtMostOneLease
<1> USE DEF Lease!AtMostOneLease
<1>1. Lease!Init => Lease!AtMostOneLease  BY DEF Lease!Init
<1>2. Lease!AtMostOneLease /\ [Lease!Next]_Lease!leaseVars => Lease!AtMostOneLease'
  BY DEF Lease!Next, Lease!leaseVars, Lease!Grant, Lease!Take, Lease!Lose, Lease!Free, Lease!Forget, Lease!Abandon
<1> QED  BY <1>1, <1>2, Refinement, PTL DEF ImplementsSeatLease, Lease!Spec
=============================================================================
