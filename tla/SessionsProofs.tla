--------------------------- MODULE SessionsProofs ---------------------------
(***************************************************************************)
(* Proofs about Sessions for any number of users, logins and password      *)
(* changes, any TTL and any number of faults.                              *)
(***************************************************************************)
EXTENDS Sessions, TLAPS

\* A request that has identified its user, and a key in Redis, belong to one.
Identified ==
  /\ \A l \in Logins :
       lpc[l] \in {"verified", "ok"} \/ ttl[l] > 0 => owner[l] \in Users
  /\ \A l \in Logins : lpc[l] = "idle" => ttl[l] = 0
  /\ \A p \in Changes : cpc[p] \in ChangeInFlight => cuser[p] \in Users

\* An index lists keys of its own user only and lives at least as long as each.
IndexOutlives ==
  \A u \in Users :
    /\ \A t \in index[u] : lpc[t] # "idle" /\ owner[t] = u /\ ttl[t] <= indexTTL[u]
    /\ indexTTL[u] = 0 => index[u] = {}

\* Between its SMEMBERS and its EXEC a change knows every living session of its
\* user but the raced ones.
ListingCovers ==
  \A p \in Changes : cpc[p] = "listed" =>
    \A t \in Logins :
      ttl[t] > 0 /\ owner[t] = cuser[p] => t \in keys[p] \cup raced

\* A token counted as handed out has left its login, which stores no key again.
HandedOut == \A p \in Changes : \A t \in handed[p] : lpc[t] = "ok"

\* The inductive invariant.
IInv ==
  /\ TypeOK
  /\ Identified
  /\ IndexOutlives
  /\ ListingCovers
  /\ HandedOut
  /\ UnindexedOnlyByRace
  /\ ChangeRevokesIndexedTokens

\* The first state.
LEMMA InitIInv == Init => IInv
BY TTLAssumption DEF Init, IInv, TypeOK, Identified, IndexOutlives, ListingCovers, HandedOut,
   UnindexedOnlyByRace, ChangeRevokesIndexedTokens, ChangeInFlight, LoginInFlight, Outcomes

\* Steps that touch neither Redis nor the progress of a change.
LEMMA LoginIInv ==
  ASSUME IInv, NEW l \in Logins,
         \/ \E u \in Users : VerifyPassword(l, u)
         \/ DenyLogin(l) \/ CreateSessionFails(l)
  PROVE  IInv'
<1> USE TTLAssumption DEF TypeOK, LoginInFlight, ChangeInFlight, Outcomes, LGoto, Fault,
            VerifyPassword, DenyLogin, CreateSessionFails, redisVars, changeVars
<1>1. TypeOK'
  BY DEF IInv
<1>2. Identified' /\ HandedOut' /\ ChangeRevokesIndexedTokens'
  BY DEF IInv, Identified, HandedOut, ChangeRevokesIndexedTokens
<1>3. IndexOutlives' /\ UnindexedOnlyByRace' /\ ListingCovers'
  BY DEF IInv, Identified, IndexOutlives, UnindexedOnlyByRace, ListingCovers
<1> QED BY <1>1, <1>2, <1>3 DEF IInv

\* SET, SADD and EXPIRE in one transaction, acknowledged or not.
LEMMA StoreIInv ==
  ASSUME IInv, NEW l \in Logins, CreateSession(l) \/ CreateSessionRetried(l)
  PROVE  IInv'
<1> USE TTLAssumption DEF TypeOK, LoginInFlight, ChangeInFlight, Outcomes, LGoto, Fault,
            CreateSession, CreateSessionRetried, StoreSession, changeVars, loginVars
<1>1. TypeOK'
  BY DEF IInv, Identified
<1>2. Identified' /\ HandedOut' /\ ChangeRevokesIndexedTokens'
  BY DEF IInv, Identified, HandedOut, ChangeRevokesIndexedTokens
<1>3. IndexOutlives'
  BY DEF IInv, Identified, IndexOutlives
<1>4. UnindexedOnlyByRace'
  BY DEF IInv, Identified, IndexOutlives, UnindexedOnlyByRace
<1>5. ListingCovers'
  BY DEF IInv, Identified, ListingCovers
<1> QED BY <1>1, <1>2, <1>3, <1>4, <1>5 DEF IInv

\* A change up to the point where it deletes, and every way it can fail.
LEMMA ChangeIInv ==
  ASSUME IInv, NEW p \in Changes,
         \/ \E t \in Logins : Authorise(p, t)
         \/ DenyChange(p) \/ WritePassword(p) \/ WritePasswordFails(p)
         \/ ListSessions(p) \/ RevokeFails(p)
  PROVE  IInv'
<1> USE TTLAssumption DEF TypeOK, LoginInFlight, ChangeInFlight, Outcomes, CGoto, Fault, ReplaceHash,
            Usable, Authorise, DenyChange, WritePassword, WritePasswordFails, ListSessions,
            RevokeFails, redisVars, loginVars
<1>1. TypeOK'
  BY DEF IInv, Identified
<1>2. Identified' /\ HandedOut' /\ ChangeRevokesIndexedTokens'
  BY DEF IInv, Identified, HandedOut, ChangeRevokesIndexedTokens
<1>3. IndexOutlives' /\ UnindexedOnlyByRace'
  BY DEF IInv, IndexOutlives, UnindexedOnlyByRace
<1>4. ListingCovers'
  BY DEF IInv, Identified, ListingCovers, UnindexedOnlyByRace
<1> QED BY <1>1, <1>2, <1>3, <1>4 DEF IInv

\* DEL of the listed keys and of the index in one transaction.
LEMMA DropIInv ==
  ASSUME IInv, NEW p \in Changes, DeleteSessions(p) \/ DeleteSessionsRetried(p)
  PROVE  IInv'
<1> USE TTLAssumption DEF TypeOK, LoginInFlight, ChangeInFlight, Outcomes, CGoto, Fault,
            DeleteSessions, DeleteSessionsRetried, DropSessions, changeVars, loginVars
<1>1. TypeOK'
  <2>1. cuser[p] \in Users
    BY DEF IInv, Identified
  <2>2. ttl' \in [Logins -> 0..SessionTTL]
    <3>1. \A t \in Logins : ttl'[t] \in 0..SessionTTL
      BY DEF IInv
    <3> QED
      BY <3>1
  <2>3. index' \in [Users -> SUBSET Logins]
    BY <2>1 DEF IInv
  <2>4. indexTTL' \in [Users -> 0..(SessionTTL + IndexMargin)]
    BY <2>1 DEF IInv
  <2>5. cpc' \in [Changes -> {"idle"} \cup ChangeInFlight \cup Outcomes] /\ faults' \in 0..MaxFaults
    BY DEF IInv
  <2>6. UNCHANGED <<version, lpc, owner, pwd, cuser, keys, handed, raced>>
    OBVIOUS
  <2> QED
    BY <2>2, <2>3, <2>4, <2>5, <2>6 DEF IInv
<1>2. Identified' /\ HandedOut' /\ ChangeRevokesIndexedTokens'
  BY DEF IInv, Identified, HandedOut, ChangeRevokesIndexedTokens
<1>3. IndexOutlives'
  BY DEF IInv, IndexOutlives
<1>4. UnindexedOnlyByRace'
  BY DEF IInv, Identified, UnindexedOnlyByRace, ListingCovers
<1>5. ListingCovers'
  BY DEF IInv, ListingCovers
<1> QED BY <1>1, <1>2, <1>3, <1>4, <1>5 DEF IInv

\* Logouts, expiry and crashes only take keys away.
LEMMA EnvironmentIInv ==
  ASSUME IInv, (\E t \in Logins : Logout(t)) \/ Tick \/ Crash
  PROVE  IInv'
<1> USE TTLAssumption DEF TypeOK, LoginInFlight, ChangeInFlight, Outcomes, Fault, Usable,
            Before, loginVars, changeVars, redisVars
<1>1. ASSUME NEW t \in Logins, Logout(t) PROVE IInv'
  BY <1>1 DEF IInv, Logout, Identified, IndexOutlives, ListingCovers, HandedOut,
     UnindexedOnlyByRace, ChangeRevokesIndexedTokens
<1>2. CASE Tick
  <2> USE <1>2 DEF Tick
  <2>1. TypeOK'
    BY DEF IInv
  <2>2. \A l \in Logins : ttl'[l] > 0 => ttl[l] > 0
    BY DEF IInv
  <2>3. IndexOutlives'
    <3>1. UNCHANGED <<lpc, owner>>
      OBVIOUS
    <3>2. ASSUME NEW u \in Users
          PROVE  /\ index'[u] = (IF indexTTL'[u] = 0 THEN {} ELSE index[u])
                 /\ indexTTL'[u] = Before(indexTTL[u]) /\ indexTTL[u] \in Nat
                 /\ index[u] \subseteq Logins
      BY DEF IInv
    <3>3. ASSUME NEW t \in Logins
          PROVE  ttl'[t] = Before(ttl[t]) /\ ttl[t] \in Nat
      BY DEF IInv
    <3>4. ASSUME NEW m \in Nat, NEW n \in Nat, m <= n
          PROVE  Before(m) <= Before(n)
      BY <3>4
    <3>5. IndexOutlives
      BY DEF IInv
    <3> SUFFICES ASSUME NEW u \in Users
                 PROVE  /\ \A t \in index'[u] : lpc'[t] # "idle" /\ owner'[t] = u /\ ttl'[t] <= indexTTL'[u]
                        /\ indexTTL'[u] = 0 => index'[u] = {}
      BY DEF IndexOutlives
    <3>6. ASSUME NEW t \in index[u]
          PROVE  lpc'[t] # "idle" /\ owner'[t] = u /\ ttl'[t] <= indexTTL'[u]
      <4>1. t \in Logins
        BY <3>2
      <4>2. lpc[t] # "idle" /\ owner[t] = u /\ ttl[t] <= indexTTL[u]
        BY <3>5 DEF IndexOutlives
      <4> QED
        BY <3>1, <3>2, <3>3, <3>4, <4>1, <4>2
    <3> QED
      BY <3>2, <3>6
  <2>4. UnindexedOnlyByRace'
    BY <2>2 DEF IInv, UnindexedOnlyByRace, IndexOutlives, Identified
  <2>5. Identified' /\ HandedOut' /\ ListingCovers' /\ ChangeRevokesIndexedTokens'
    BY <2>2 DEF IInv, Identified, HandedOut, ListingCovers, ChangeRevokesIndexedTokens
  <2> QED BY <2>1, <2>3, <2>4, <2>5 DEF IInv
<1>3. CASE Crash
  BY <1>3 DEF IInv, Crash, Identified, IndexOutlives, ListingCovers, HandedOut,
     UnindexedOnlyByRace, ChangeRevokesIndexedTokens
<1> QED BY <1>1, <1>2, <1>3

\* Every step preserves the invariant.
LEMMA NextIInv == IInv /\ [Next]_vars => IInv'
<1>1. ASSUME IInv, UNCHANGED vars PROVE IInv'
  BY <1>1 DEF IInv, TypeOK, Identified, IndexOutlives, ListingCovers, HandedOut,
     UnindexedOnlyByRace, ChangeRevokesIndexedTokens, vars
<1> QED
  BY <1>1, LoginIInv, StoreIInv, ChangeIInv, DropIInv, EnvironmentIInv
     DEF Next, LoginStep, ChangeStep, AllQuiet

\* The invariant holds in every reachable state.
THEOREM Invariance == Spec => []IInv
BY InitIInv, NextIInv, PTL DEF Spec

\* The state keeps its type.
THEOREM TypeCorrect == Spec => []TypeOK
BY Invariance, PTL DEF IInv

\* A successful password change has killed every token its index reading named.
THEOREM RevocationWorks == Spec => []ChangeRevokesIndexedTokens
BY Invariance, PTL DEF IInv

\* A session is lost to the index only by the race inside DeleteAllForUser.
THEOREM OnlyRacesEscape == Spec => []UnindexedOnlyByRace
BY Invariance, PTL DEF IInv

\* A dead token stays dead.
THEOREM NoResurrection == Spec => SpentStaysSpent
<1> DEFINE Stays == \A t \in Logins : lpc[t] = "ok" /\ ttl[t] = 0 => ttl'[t] = 0
<1>1. ASSUME IInv, NEW l \in Logins, LoginStep(l) PROVE Stays
  BY <1>1 DEF LoginStep, IInv, TypeOK, VerifyPassword, DenyLogin, CreateSession,
     CreateSessionRetried, CreateSessionFails, StoreSession, Logout, redisVars
<1>2. ASSUME IInv, NEW p \in Changes, ChangeStep(p) PROVE Stays
  BY <1>2 DEF ChangeStep, IInv, TypeOK, Authorise, DenyChange, WritePassword,
     WritePasswordFails, ListSessions, DeleteSessions, DeleteSessionsRetried,
     DropSessions, RevokeFails, redisVars
<1>3. ASSUME IInv, Tick PROVE Stays
  BY <1>3 DEF Tick, Before, IInv, TypeOK
<1>4. ASSUME Crash PROVE Stays
  BY <1>4 DEF Crash, redisVars
<1>5. IInv /\ [Next]_vars => [Stays]_vars
  BY <1>1, <1>2, <1>3, <1>4 DEF Next, AllQuiet
<1> QED
  BY <1>5, Invariance, PTL DEF Spec, SpentStaysSpent

-----------------------------------------------------------------------------
(* Sessions keeps the ledger. *)

\* A change names nothing before it has read the index, what it reads there are keys
\* of its own user, and it has a user from the moment it begins.
Undertaking ==
  \A p \in Changes :
    /\ cpc[p] = "idle" => cuser[p] = NoUser
    /\ cpc[p] \in {"idle", "authorised", "written"} => handed[p] = {}
    /\ cpc[p] = "listed" =>
         \A t \in keys[p] : lpc[t] # "idle" /\ owner[t] = cuser[p]

\* The change goes on holding its undertaking, whoever takes a step.
LEMMA UndertakingStep ==
  ASSUME IInv, Undertaking, [Next]_vars
  PROVE  Undertaking'
<1> USE DEF IInv, TypeOK, Undertaking
<1>1. ASSUME NEW l \in Logins, LoginStep(l) PROVE Undertaking'
  <2>1. UNCHANGED changeVars
    BY <1>1 DEF LoginStep, VerifyPassword, DenyLogin, CreateSession, CreateSessionRetried,
       CreateSessionFails, Logout
  <2>2. \A t \in Logins : lpc[t] # "idle" => lpc'[t] # "idle" /\ owner'[t] = owner[t]
    BY <1>1 DEF LoginStep, VerifyPassword, DenyLogin, CreateSession, CreateSessionRetried,
       CreateSessionFails, Logout, LGoto, loginVars
  <2> QED
    BY <2>1, <2>2 DEF changeVars
<1>2. ASSUME NEW p \in Changes, NEW t \in Logins, Authorise(p, t) PROVE Undertaking'
  BY <1>2 DEF Authorise, CGoto, loginVars
<1>3. ASSUME NEW p \in Changes, ListSessions(p) PROVE Undertaking'
  <2>1. \A t \in index[cuser[p]] : lpc[t] # "idle" /\ owner[t] = cuser[p]
    BY <1>3 DEF ListSessions, Identified, IndexOutlives, ChangeInFlight
  <2> QED
    BY <1>3, <2>1 DEF ListSessions, CGoto, loginVars
<1>4. ASSUME NEW p \in Changes,
             \/ DenyChange(p) \/ WritePassword(p) \/ WritePasswordFails(p)
             \/ DeleteSessions(p) \/ DeleteSessionsRetried(p) \/ RevokeFails(p)
      PROVE  Undertaking'
  BY <1>4 DEF DenyChange, WritePassword, WritePasswordFails, DeleteSessions,
     DeleteSessionsRetried, RevokeFails, CGoto, loginVars, changeVars
<1>5. CASE Tick
  BY <1>5 DEF Tick, loginVars, changeVars
<1>6. CASE Crash
  BY <1>6 DEF Crash, ChangeInFlight, LoginInFlight
<1>7. CASE UNCHANGED vars
  BY <1>7 DEF vars
<1> QED
  BY <1>1, <1>2, <1>3, <1>4, <1>5, <1>6, <1>7 DEF Next, ChangeStep, AllQuiet

\* The ledger's variables as the state of Redis and of the requests shows them.
LEMMA LedgerInit == Init => Ledger!Init
BY DEF Init, Ledger!Init, Given

\* To the ledger, the steps of a login are the issue of a token or nothing, and a
\* logout is one.
LEMMA LoginKeeps ==
  ASSUME IInv, NEW l \in Logins, LoginStep(l)
  PROVE  [Ledger!Next]_(Ledger!vars)
<1> USE DEF IInv, TypeOK
<1> DEFINE H == [t \in Logins |-> IF Given(t) THEN owner[t] ELSE NoUser]
           L == [t \in Logins |-> IF Given(t) THEN ttl[t] ELSE 0]
<1>1. UNCHANGED <<cpc, cuser, keys, handed>>
  BY DEF LoginStep, VerifyPassword, DenyLogin, CreateSession, CreateSessionRetried,
     CreateSessionFails, Logout, changeVars
<1>2. /\ [p \in Changes |-> handed[p] \cap keys[p]]' = [p \in Changes |-> handed[p] \cap keys[p]]
      /\ {p \in Changes : cpc[p] = "ok"}' = {p \in Changes : cpc[p] = "ok"}
  BY <1>1
<1>3. ASSUME CreateSession(l), NEW u \in Users, u = owner[l] PROVE Ledger!Issue(l, u)
  <2>1. ~Given(l) /\ Given(l)' /\ owner' = owner
    BY <1>3 DEF CreateSession, Identified, Given, LGoto
  <2>2. \A t \in Logins \ {l} : Given(t)' = Given(t) /\ ttl'[t] = ttl[t]
    BY <1>3 DEF CreateSession, StoreSession, Given, LGoto
  <2>3. ttl'[l] = SessionTTL
    BY <1>3 DEF CreateSession, StoreSession
  <2>4. H' = [H EXCEPT ![l] = u] /\ H[l] = NoUser
    BY <1>3, <2>1, <2>2
  <2>5. L' = [L EXCEPT ![l] = SessionTTL]
    BY <2>1, <2>2, <2>3
  <2> QED
    BY <1>1, <1>2, <2>1, <2>4, <2>5 DEF Ledger!Issue
<1>4. ASSUME Logout(l) PROVE Ledger!LogOut(l)
  <2>1. H' = H
    BY <1>4 DEF Logout, loginVars, Given
  <2>2. L' = [L EXCEPT ![l] = 0]
    BY <1>4 DEF Logout, loginVars, Given
  <2> QED
    BY <1>1, <1>2, <2>1, <2>2 DEF Ledger!LogOut
<1>5. ASSUME \/ \E u \in Users : VerifyPassword(l, u)
             \/ DenyLogin(l) \/ CreateSessionRetried(l) \/ CreateSessionFails(l)
      PROVE  UNCHANGED Ledger!vars
  <2>1. \A t \in Logins : Given(t)' = Given(t)
    BY <1>5 DEF VerifyPassword, DenyLogin, CreateSessionRetried, CreateSessionFails, Given,
       LGoto, loginVars
  <2>2. \A t \in Logins : Given(t) => owner'[t] = owner[t] /\ ttl'[t] = ttl[t]
    BY <1>5 DEF VerifyPassword, DenyLogin, CreateSessionRetried, CreateSessionFails, Given,
       StoreSession, LGoto, loginVars, redisVars
  <2>3. H' = H /\ L' = L
    BY <2>1, <2>2
  <2> QED
    BY <1>1, <1>2, <2>3 DEF Ledger!vars
<1>6. \A u \in Users : Ledger!Issue(l, u) => Ledger!Next
  BY DEF Ledger!Next
<1>7. Ledger!LogOut(l) => Ledger!Next
  BY DEF Ledger!Next
<1>8. ASSUME CreateSession(l) PROVE Ledger!Next
  <2>1. owner[l] \in Users
    BY <1>8 DEF CreateSession, Identified
  <2>2. PICK u \in Users : u = owner[l]
    BY <2>1
  <2> QED
    BY <1>3, <1>6, <1>8, <2>2
<1>9. ASSUME Logout(l) PROVE Ledger!Next
  BY <1>4, <1>7, <1>9
<1> QED
  BY <1>5, <1>8, <1>9 DEF LoginStep

\* To the ledger, a change begins, names and revokes, and its other steps are nothing.
LEMMA ChangeKeeps ==
  ASSUME IInv, Undertaking, NEW p \in Changes, ChangeStep(p)
  PROVE  [Ledger!Next]_(Ledger!vars)
<1> USE DEF IInv, TypeOK
<1> DEFINE H == [t \in Logins |-> IF Given(t) THEN owner[t] ELSE NoUser]
           L == [t \in Logins |-> IF Given(t) THEN ttl[t] ELSE 0]
           N == [q \in Changes |-> handed[q] \cap keys[q]]
           D == {q \in Changes : cpc[q] = "ok"}
<1>1. UNCHANGED loginVars
  BY DEF ChangeStep, Authorise, DenyChange, WritePassword, WritePasswordFails, ListSessions,
     DeleteSessions, DeleteSessionsRetried, RevokeFails
<1>2. H' = H /\ \A t \in Logins : Given(t)' = Given(t)
  BY <1>1 DEF Given, loginVars
<1>3. ASSUME NEW t \in Logins, Authorise(p, t)
      PROVE  \E u \in Users : Ledger!Begin(p, u)
  <2>0. PICK u \in Users : u = owner[t]
    BY <1>3 DEF Authorise, Usable, Identified
  <2>1. H[t] = u /\ L[t] > 0 /\ L' = L
    BY <1>3, <1>2, <2>0 DEF Authorise, Usable, Given, redisVars
  <2>2. N' = N /\ D' = D
    BY <1>3 DEF Authorise, CGoto
  <2>3. cuser[p] = NoUser /\ cuser' = [cuser EXCEPT ![p] = u]
    BY <1>3, <2>0 DEF Authorise, Undertaking
  <2>4. t \in Ledger!Working(u)
    BY <2>1 DEF Ledger!Working, Ledger!TokensOf
  <2>5. Ledger!Begin(p, u)
    BY <1>2, <2>1, <2>2, <2>3, <2>4 DEF Ledger!Begin
  <2> QED
    BY <2>5
<1>4. ASSUME ListSessions(p)
      PROVE  \E S \in SUBSET Logins : Ledger!Name(p, S)
  <2>0. PICK S \in SUBSET Logins : S = handed'[p] \cap keys'[p]
    BY <1>4 DEF ListSessions
  <2>1. cpc[p] = "written" /\ cuser[p] \in Users /\ p \notin D /\ N[p] = {}
    BY <1>4 DEF ListSessions, Identified, ChangeInFlight, Undertaking
  <2>2. L' = L /\ D' = D /\ cuser' = cuser
    BY <1>2, <1>4 DEF ListSessions, CGoto, redisVars
  <2>3. /\ handed' = [handed EXCEPT ![p] = {t \in Logins : owner[t] = cuser[p] /\ Usable(t)}]
        /\ keys' = [keys EXCEPT ![p] = index[cuser[p]]]
    BY <1>4 DEF ListSessions
  <2>4. N' = [N EXCEPT ![p] = S]
    BY <2>0, <2>3
  <2>5. \A t \in S : t \in Logins /\ H[t] = cuser[p] /\ L[t] > 0
    BY <2>0, <2>3 DEF Usable, Given
  <2>6. S \subseteq Ledger!Working(cuser[p])
    BY <2>5 DEF Ledger!Working, Ledger!TokensOf
  <2>7. cuser[p] # NoUser
    BY <2>1, NoUserAssumption
  <2>8. Ledger!Name(p, S)
    BY <1>2, <2>1, <2>2, <2>4, <2>6, <2>7 DEF Ledger!Name
  <2> QED
    BY <2>8
<1>5. ASSUME DeleteSessions(p) \/ DeleteSessionsRetried(p)
      PROVE  \E S \in SUBSET Logins : Ledger!Revoke(p, S)
  <2>0. PICK S \in SUBSET Logins : S = {t \in keys[p] : Given(t)}
    OBVIOUS
  <2>1. cpc[p] = "listed" /\ cuser[p] \in Users /\ p \notin D
    BY <1>5 DEF DeleteSessions, DeleteSessionsRetried, Identified, ChangeInFlight
  <2>2. cuser[p] # NoUser
    BY <2>1, NoUserAssumption
  <2>3. UNCHANGED <<cuser, keys, handed>>
    BY <1>5 DEF DeleteSessions, DeleteSessionsRetried, changeVars
  <2>4. L' = [t \in Logins |-> IF t \in S THEN 0 ELSE L[t]]
    <3>1. \A t \in Logins : ttl'[t] = IF t \in keys[p] THEN 0 ELSE ttl[t]
      BY <1>5 DEF DeleteSessions, DeleteSessionsRetried, DropSessions
    <3> QED
      BY <1>2, <2>0, <3>1
  <2>5. N[p] \subseteq S
    BY <2>0 DEF HandedOut, Given
  <2>6. S \subseteq Ledger!TokensOf(cuser[p])
    <3>1. \A t \in S : t \in Logins /\ H[t] = cuser[p]
      BY <2>0, <2>1 DEF Undertaking
    <3> QED
      BY <3>1 DEF Ledger!TokensOf
  <2>7. D' \in {D, D \cup {p}}
    BY <1>5 DEF DeleteSessions, DeleteSessionsRetried, CGoto, changeVars
  <2>8. Ledger!Revoke(p, S)
    BY <1>2, <2>1, <2>2, <2>3, <2>4, <2>5, <2>6, <2>7 DEF Ledger!Revoke
  <2> QED
    BY <2>8
<1>6. ASSUME DenyChange(p) \/ WritePassword(p) \/ WritePasswordFails(p) \/ RevokeFails(p)
      PROVE  UNCHANGED Ledger!vars
  <2>1. UNCHANGED <<cuser, keys, handed>> /\ L' = L
    BY <1>2, <1>6 DEF DenyChange, WritePassword, WritePasswordFails, RevokeFails, redisVars
  <2>2. D' = D
    BY <1>6 DEF DenyChange, WritePassword, WritePasswordFails, RevokeFails, CGoto
  <2> QED
    BY <1>2, <2>1, <2>2 DEF Ledger!vars
<1>7. \A u \in Users : Ledger!Begin(p, u) => Ledger!Next
  BY DEF Ledger!Next
<1>8. \A S \in SUBSET Logins : Ledger!Name(p, S) \/ Ledger!Revoke(p, S) => Ledger!Next
  BY DEF Ledger!Next
<1>9. ASSUME NEW t \in Logins, Authorise(p, t) PROVE Ledger!Next
  BY <1>3, <1>7, <1>9
<1>10. ASSUME ListSessions(p) PROVE Ledger!Next
  BY <1>4, <1>8, <1>10
<1>11. ASSUME DeleteSessions(p) \/ DeleteSessionsRetried(p) PROVE Ledger!Next
  BY <1>5, <1>8, <1>11
<1> QED
  BY <1>6, <1>9, <1>10, <1>11 DEF ChangeStep

\* Time ages all tokens alike, and a crash is nothing to them.
LEMMA EnvironmentKeeps ==
  ASSUME IInv, Tick \/ Crash \/ UNCHANGED vars
  PROVE  [Ledger!Next]_(Ledger!vars)
<1> USE DEF IInv, TypeOK
<1>1. ASSUME Tick PROVE Ledger!Age
  BY <1>1, TTLAssumption DEF Tick, Before, Given, loginVars, changeVars, Ledger!Age
<1>2. CASE Crash
  <2>1. UNCHANGED <<owner, ttl, cuser, keys, handed>>
    BY <1>2 DEF Crash, redisVars
  <2>2. (\A t \in Logins : Given(t)' = Given(t)) /\ \A p \in Changes : cpc'[p] = "ok" <=> cpc[p] = "ok"
    BY <1>2 DEF Crash, Given, LoginInFlight, ChangeInFlight
  <2> QED
    BY <2>1, <2>2 DEF Ledger!vars
<1>3. CASE UNCHANGED vars
  BY <1>3 DEF vars, Ledger!vars, Given
<1> QED
  BY <1>1, <1>2, <1>3 DEF Ledger!Next

\* Sessions in Redis keep the ledger, for any number of users, logins and changes, any
\* life time and any number of faults.
THEOREM LedgerKept == Spec => KeepsLedger
<1>1. Init => Ledger!Init /\ Undertaking
  BY LedgerInit DEF Init, Undertaking
<1>2. IInv /\ Undertaking /\ [Next]_vars => Undertaking' /\ [Ledger!Next]_(Ledger!vars)
  <2> SUFFICES ASSUME IInv, Undertaking, [Next]_vars
               PROVE  Undertaking' /\ [Ledger!Next]_(Ledger!vars)
    OBVIOUS
  <2>1. CASE \E l \in Logins : LoginStep(l)
    BY <2>1, LoginKeeps, UndertakingStep
  <2>2. CASE \E p \in Changes : ChangeStep(p)
    BY <2>2, ChangeKeeps, UndertakingStep
  <2>3. CASE Tick \/ Crash \/ UNCHANGED vars
    BY <2>3, EnvironmentKeeps, UndertakingStep
  <2> QED
    BY <2>1, <2>2, <2>3 DEF Next, AllQuiet
<1> QED
  BY <1>1, <1>2, Invariance, PTL DEF Spec, KeepsLedger, Ledger!Spec
=============================================================================
