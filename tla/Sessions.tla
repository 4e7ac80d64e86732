------------------------------ MODULE Sessions ------------------------------
(***************************************************************************)
(* Sessions and password changes: UserUseCase.Login, Verify, Update and    *)
(* Logout (src/internal/usecase/user.go), the auth middleware, and         *)
(* SessionRepository (src/internal/repository/session.go) on Redis.        *)
(*                                                                         *)
(* A password lives in Postgres, sessions live in Redis, and no            *)
(* transaction spans the two. Each login request draws a random token, so  *)
(* its name is also the name of the token it creates. Time is counted in   *)
(* ticks; a key's remaining TTL is what Redis keeps of it.                 *)
(***************************************************************************)
EXTENDS Naturals, FiniteSets

CONSTANTS
  Users,
  Logins,       \* POST /sessions requests, and the tokens they hand out
  Changes,      \* PATCH /users/_current requests that carry a password
  NoUser,       \* the user of a request that has not identified one
  SessionTTL,   \* constants.SessionTTL, in ticks
  IndexMargin,  \* constants.SessionIndexTTLMargin, in ticks
  MaxFaults     \* bound: lost replies, failed calls and crashes

ASSUME NoUserAssumption == NoUser \notin Users
ASSUME TTLAssumption ==
  SessionTTL \in Nat \ {0} /\ IndexMargin \in Nat /\ MaxFaults \in Nat

VARIABLES
  version,   \* version[u]: how often u's password_hash has been replaced
  lpc,       \* lpc[l]: how far login l has come
  owner,     \* owner[l]: the user row login l read
  pwd,       \* pwd[l]: the version of the password hash login l compared with
  cpc,       \* cpc[p]: how far password change p has come
  cuser,     \* cuser[p]: the user its token resolved to
  keys,      \* keys[p]: what SMEMBERS returned to it
  ttl,       \* ttl[l]: remaining life of the session key of token l, 0 if none
  index,     \* index[u]: members of the user's session index
  indexTTL,  \* indexTTL[u]: remaining life of the index key
  faults,    \* how many faults there have been
  handed,    \* history: the tokens u's clients held, and could use, at p's SMEMBERS
  raced      \* history: tokens stored while a change had listed and not deleted

vars == <<version, lpc, owner, pwd, cpc, cuser, keys, ttl, index, indexTTL,
          faults, handed, raced>>
loginVars  == <<lpc, owner, pwd>>
changeVars == <<cpc, cuser, keys, handed>>
redisVars  == <<ttl, index, indexTTL, raced>>

LoginInFlight  == {"verified"}
ChangeInFlight == {"authorised", "written", "listed"}
Outcomes == {"ok", "denied", "failed", "lost"}

TypeOK ==
  /\ version \in [Users -> Nat]
  /\ lpc \in [Logins -> {"idle"} \cup LoginInFlight \cup Outcomes]
  /\ owner \in [Logins -> Users \cup {NoUser}]
  /\ pwd \in [Logins -> Nat]
  /\ cpc \in [Changes -> {"idle"} \cup ChangeInFlight \cup Outcomes]
  /\ cuser \in [Changes -> Users \cup {NoUser}]
  /\ keys \in [Changes -> SUBSET Logins]
  /\ ttl \in [Logins -> 0..SessionTTL]
  /\ index \in [Users -> SUBSET Logins]
  /\ indexTTL \in [Users -> 0..(SessionTTL + IndexMargin)]
  /\ faults \in 0..MaxFaults
  /\ handed \in [Changes -> SUBSET Logins]
  /\ raced \subseteq Logins

Init ==
  /\ version = [u \in Users |-> 0]
  /\ lpc = [l \in Logins |-> "idle"]
  /\ owner = [l \in Logins |-> NoUser]
  /\ pwd = [l \in Logins |-> 0]
  /\ cpc = [p \in Changes |-> "idle"]
  /\ cuser = [p \in Changes |-> NoUser]
  /\ keys = [p \in Changes |-> {}]
  /\ ttl = [l \in Logins |-> 0]
  /\ index = [u \in Users |-> {}]
  /\ indexTTL = [u \in Users |-> 0]
  /\ faults = 0
  /\ handed = [p \in Changes |-> {}]
  /\ raced = {}

-----------------------------------------------------------------------------
LGoto(l, label) == lpc' = [lpc EXCEPT ![l] = label]
CGoto(p, label) == cpc' = [cpc EXCEPT ![p] = label]

Fault == faults < MaxFaults /\ faults' = faults + 1

\* A token the client was given and Redis still knows.
Usable(t) == lpc[t] = "ok" /\ ttl[t] > 0

-----------------------------------------------------------------------------
(* Login. *)

\* FindByEmail, then bcrypt on the hash that was read: the comparison takes its
\* time, and the password may be replaced meanwhile.
VerifyPassword(l, u) ==
  /\ lpc[l] = "idle"
  /\ LGoto(l, "verified")
  /\ owner' = [owner EXCEPT ![l] = u]
  /\ pwd' = [pwd EXCEPT ![l] = version[u]]
  /\ UNCHANGED <<version, changeVars, redisVars, faults>>

\* Unknown email (compared with the dummy hash all the same) or wrong password.
DenyLogin(l) ==
  /\ lpc[l] = "idle"
  /\ LGoto(l, "denied")
  /\ UNCHANGED <<version, owner, pwd, changeVars, redisVars, faults>>

\* Mutant: the margin of the index is added twice.
StoreSessionDoubleMargin(l) ==
  LET u == owner[l] IN
  /\ ttl' = [ttl EXCEPT ![l] = SessionTTL]
  /\ index' = [index EXCEPT ![u] = @ \cup {l}]
  /\ indexTTL' = [indexTTL EXCEPT ![u] = SessionTTL + 2 * IndexMargin]
  /\ UNCHANGED raced

\* Mutant: the index keeps the expiry its first member gave it.
StoreSessionOnce(l) ==
  LET u == owner[l] IN
  /\ ttl' = [ttl EXCEPT ![l] = SessionTTL]
  /\ index' = [index EXCEPT ![u] = @ \cup {l}]
  /\ indexTTL' = [indexTTL EXCEPT ![u] = IF @ = 0 THEN SessionTTL + IndexMargin ELSE @]
  /\ raced' = IF \E p \in Changes : cpc[p] = "listed" /\ cuser[p] = u
                THEN raced \cup {l} ELSE raced

\* SessionRepository.Create, as Redis executes it: SET, SADD and EXPIRE in one
\* MULTI/EXEC.
StoreSession(l) ==
  LET u == owner[l] IN
  /\ ttl' = [ttl EXCEPT ![l] = SessionTTL]
  /\ index' = [index EXCEPT ![u] = @ \cup {l}]
  /\ indexTTL' = [indexTTL EXCEPT ![u] = SessionTTL + IndexMargin]
  /\ raced' = IF \E p \in Changes : cpc[p] = "listed" /\ cuser[p] = u
                THEN raced \cup {l} ELSE raced

\* The token is drawn at random: no two logins ever share one.
CreateSession(l) ==
  /\ lpc[l] = "verified"
  /\ StoreSession(l)
  /\ LGoto(l, "ok")
  /\ UNCHANGED <<version, owner, pwd, changeVars, faults>>

\* The reply is lost; go-redis sends the transaction again.
CreateSessionRetried(l) ==
  /\ lpc[l] = "verified"
  /\ Fault
  /\ StoreSession(l)
  /\ UNCHANGED <<version, loginVars, changeVars>>

\* The retries are used up: the client gets a 500 and no token.
CreateSessionFails(l) ==
  /\ lpc[l] = "verified"
  /\ Fault
  /\ LGoto(l, "failed")
  /\ UNCHANGED <<version, owner, pwd, changeVars, redisVars>>

-----------------------------------------------------------------------------
(* Password change. *)

\* Mutant: redis.Nil is not told apart from an answer, and any token ever given out
\* still resolves.
AuthoriseAnyToken(p, t) ==
  /\ cpc[p] = "idle"
  /\ lpc[t] = "ok"
  /\ CGoto(p, "authorised")
  /\ cuser' = [cuser EXCEPT ![p] = owner[t]]
  /\ UNCHANGED <<version, loginVars, keys, handed, redisVars, faults>>

\* The middleware resolves the bearer token once, before the handler runs.
Authorise(p, t) ==
  /\ cpc[p] = "idle"
  /\ Usable(t)
  /\ CGoto(p, "authorised")
  /\ cuser' = [cuser EXCEPT ![p] = owner[t]]
  /\ UNCHANGED <<version, loginVars, keys, handed, redisVars, faults>>

\* A missing, dead or foreign token, and equally a Redis that does not answer.
DenyChange(p) ==
  /\ cpc[p] = "idle"
  /\ CGoto(p, "denied")
  /\ UNCHANGED <<version, loginVars, cuser, keys, handed, redisVars, faults>>

ReplaceHash(p) == version' = [version EXCEPT ![cuser[p]] = @ + 1]

WritePassword(p) ==
  /\ cpc[p] = "authorised"
  /\ ReplaceHash(p)
  /\ CGoto(p, "written")
  /\ UNCHANGED <<loginVars, cuser, keys, handed, redisVars, faults>>

\* The UPDATE fails, or takes effect without the backend learning of it; the
\* handler returns before it revokes anything.
WritePasswordFails(p) ==
  /\ cpc[p] = "authorised"
  /\ Fault
  /\ ReplaceHash(p) \/ UNCHANGED version
  /\ CGoto(p, "failed")
  /\ UNCHANGED <<loginVars, cuser, keys, handed, redisVars>>

\* DeleteAllForUser reads the index...
ListSessions(p) ==
  LET u == cuser[p] IN
  /\ cpc[p] = "written"
  /\ CGoto(p, "listed")
  /\ keys' = [keys EXCEPT ![p] = index[u]]
  /\ handed' = [handed EXCEPT ![p] = {t \in Logins : owner[t] = u /\ Usable(t)}]
  /\ UNCHANGED <<version, loginVars, cuser, redisVars, faults>>

\* Mutant: only the index is deleted.
DropIndexOnly(p) ==
  LET u == cuser[p] IN
  /\ index' = [index EXCEPT ![u] = {}]
  /\ indexTTL' = [indexTTL EXCEPT ![u] = 0]
  /\ UNCHANGED <<ttl, raced>>

\* ...and then, in one MULTI/EXEC, deletes the keys it read and the whole index.
DropSessions(p) ==
  LET u == cuser[p] IN
  /\ ttl' = [t \in Logins |-> IF t \in keys[p] THEN 0 ELSE ttl[t]]
  /\ index' = [index EXCEPT ![u] = {}]
  /\ indexTTL' = [indexTTL EXCEPT ![u] = 0]
  /\ UNCHANGED raced

DeleteSessions(p) ==
  /\ cpc[p] = "listed"
  /\ DropSessions(p)
  /\ CGoto(p, "ok")
  /\ UNCHANGED <<version, loginVars, cuser, keys, handed, faults>>

\* The reply is lost; go-redis sends the transaction again.
DeleteSessionsRetried(p) ==
  /\ cpc[p] = "listed"
  /\ Fault
  /\ DropSessions(p)
  /\ UNCHANGED <<version, loginVars, changeVars>>

\* SMEMBERS or EXEC fails for good: a 500 after the password was replaced.
RevokeFails(p) ==
  /\ cpc[p] \in {"written", "listed"}
  /\ Fault
  /\ CGoto(p, "failed")
  /\ UNCHANGED <<version, loginVars, cuser, keys, handed, redisVars>>

-----------------------------------------------------------------------------
(* Logout, time, crashes. *)

\* Delete removes the session key and leaves the index entry behind.
Logout(t) ==
  /\ Usable(t)
  /\ ttl' = [ttl EXCEPT ![t] = 0]
  /\ UNCHANGED <<version, loginVars, changeVars, index, indexTTL, raced, faults>>

Before(n) == IF n = 0 THEN 0 ELSE n - 1

\* Mutant: SET is given no TTL, so that only indexes expire.
TickIndexOnly ==
  /\ \E u \in Users : indexTTL[u] > 0
  /\ indexTTL' = [u \in Users |-> Before(indexTTL[u])]
  /\ index' = [u \in Users |-> IF indexTTL'[u] = 0 THEN {} ELSE index[u]]
  /\ UNCHANGED <<version, loginVars, changeVars, ttl, raced, faults>>

\* Time passes in Redis: a key whose TTL runs out is gone, with its members.
Tick ==
  /\ (\E l \in Logins : ttl[l] > 0) \/ (\E u \in Users : indexTTL[u] > 0)
  /\ ttl' = [l \in Logins |-> Before(ttl[l])]
  /\ indexTTL' = [u \in Users |-> Before(indexTTL[u])]
  /\ index' = [u \in Users |-> IF indexTTL'[u] = 0 THEN {} ELSE index[u]]
  /\ UNCHANGED <<version, loginVars, changeVars, raced, faults>>

\* The backend process dies; Redis and Postgres do not.
Crash ==
  /\ Fault
  /\ lpc' = [l \in Logins |-> IF lpc[l] \in LoginInFlight THEN "lost" ELSE lpc[l]]
  /\ cpc' = [p \in Changes |-> IF cpc[p] \in ChangeInFlight THEN "lost" ELSE cpc[p]]
  /\ UNCHANGED <<version, owner, pwd, cuser, keys, handed, redisVars>>

\* Every request is answered and Redis is empty.
AllQuiet ==
  /\ \A l \in Logins : lpc[l] \in Outcomes /\ ttl[l] = 0
  /\ \A p \in Changes : cpc[p] \in Outcomes
  /\ \A u \in Users : indexTTL[u] = 0
  /\ UNCHANGED vars

LoginStep(l) ==
  \/ \E u \in Users : VerifyPassword(l, u)
  \/ DenyLogin(l)
  \/ CreateSession(l)
  \/ CreateSessionRetried(l)
  \/ CreateSessionFails(l)
  \/ Logout(l)

ChangeStep(p) ==
  \/ \E t \in Logins : Authorise(p, t)
  \/ DenyChange(p)
  \/ WritePassword(p)
  \/ WritePasswordFails(p)
  \/ ListSessions(p)
  \/ DeleteSessions(p)
  \/ DeleteSessionsRetried(p)
  \/ RevokeFails(p)

Next ==
  \/ \E l \in Logins : LoginStep(l)
  \/ \E p \in Changes : ChangeStep(p)
  \/ Tick
  \/ Crash
  \/ AllQuiet

Spec == Init /\ [][Next]_vars

\* Time never stops.
FairSpec == Spec /\ WF_vars(Tick)

-----------------------------------------------------------------------------
(* Properties. *)

\* A password change that reports success has killed every token that a client
\* held and the index knew when it read the index, and none of them came back,
\* in spite of logins, logouts, retries and other changes in between.
ChangeRevokesIndexedTokens ==
  \A p \in Changes :
    cpc[p] = "ok" => \A t \in handed[p] \cap keys[p] : ttl[t] = 0

\* A session is missing from its user's index only if it was stored between a
\* change's SMEMBERS and its EXEC: the index outlives every member, logouts and
\* expiries included, and no other step loses an entry.
UnindexedOnlyByRace ==
  \A t \in Logins : ttl[t] > 0 /\ t \notin index[owner[t]] => t \in raced

\* The tokens that clients were given, and what a change undertakes by its reading of
\* the index.
Given(t) == lpc[t] = "ok"

Ledger == INSTANCE SessionLedger WITH
  Tokens <- Logins,
  Nobody <- NoUser,
  Lifetime <- SessionTTL,
  holder <- [t \in Logins |-> IF Given(t) THEN owner[t] ELSE NoUser],
  left <- [t \in Logins |-> IF Given(t) THEN ttl[t] ELSE 0],
  changer <- cuser,
  named <- [p \in Changes |-> handed[p] \cap keys[p]],
  done <- {p \in Changes : cpc[p] = "ok"}

\* Redis, its pipelines, its expiries and everything that can fail in between keep
\* the ledger: no token works twice or for longer or shorter than it should, nobody
\* is logged out by the password change of another user, a change begins with a
\* working token of the user it is for, and ends what it undertook to end.
KeepsLedger == Ledger!Spec

\* A token that stopped working, by logout, revocation or expiry, never works
\* again, whatever is retried afterwards.
SpentStaysSpent ==
  [][\A t \in Logins : lpc[t] = "ok" /\ ttl[t] = 0 => ttl'[t] = 0]_vars

\* Every session ends, the ones no index entry leads to included.
EverySessionEnds == \A t \in Logins : ttl[t] > 0 ~> ttl[t] = 0

\* What README.md and session.go:75-76 promise of a password change: once it has
\* succeeded and nothing has replaced its password, no session obtained with an
\* earlier password works.
NoSessionWithOldPassword ==
  \A p \in Changes :
    /\ cpc[p] = "ok"
    /\ \A q \in Changes \ {p} : cuser[q] # cuser[p]
    => \A t \in Logins :
         Usable(t) /\ owner[t] = cuser[p] => pwd[t] = version[cuser[p]]

\* What session.go:75 promises of DeleteAllForUser: it revokes every session the
\* user holds, so every token a client held when it ran is dead afterwards.
ChangeRevokesHandedTokens ==
  \A p \in Changes :
    cpc[p] = "ok" => \A t \in handed[p] : ttl[t] = 0

\* What user.go:199 demands: a rotated password must not leave old tokens usable
\* once the change is over, whether or not it was reported as a success.
RotationLeavesNoOldTokens ==
  \A u \in Users :
    (\A p \in Changes : cuser[p] = u => cpc[p] \notin ChangeInFlight) =>
      \A t \in Logins :
        Usable(t) /\ owner[t] = u => pwd[t] = version[u]
=============================================================================
