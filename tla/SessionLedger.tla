---------------------------- MODULE SessionLedger ----------------------------
(***************************************************************************)
(* What sessions promise, with no Redis, no pipelines and no failures: a   *)
(* token is issued once, to one user, and works for its whole life unless  *)
(* its user logs it out or a password change of that user ends it. Only    *)
(* who holds a working token of a user may change that user's password,    *)
(* and a change that reports success has ended every token it had named    *)
(* (src/internal/repository/session.go, src/internal/usecase/user.go).     *)
(***************************************************************************)
EXTENDS Naturals

CONSTANTS Users, Tokens, Changes, Nobody, Lifetime

VARIABLES
  holder,   \* holder[t]: whom token t was issued to, Nobody if to no one yet
  left,     \* left[t]: how long token t will still work
  changer,  \* changer[p]: the user who makes password change p
  named,    \* named[p]: the tokens that change p is going to end
  done      \* the changes reported as successful

vars == <<holder, left, changer, named, done>>

Init ==
  /\ holder = [t \in Tokens |-> Nobody]
  /\ left = [t \in Tokens |-> 0]
  /\ changer = [p \in Changes |-> Nobody]
  /\ named = [p \in Changes |-> {}]
  /\ done = {}

TokensOf(u) == {t \in Tokens : holder[t] = u}
Working(u) == {t \in TokensOf(u) : left[t] > 0}

Issue(t, u) ==
  /\ holder[t] = Nobody
  /\ holder' = [holder EXCEPT ![t] = u]
  /\ left' = [left EXCEPT ![t] = Lifetime]
  /\ UNCHANGED <<changer, named, done>>

LogOut(t) ==
  /\ left' = [left EXCEPT ![t] = 0]
  /\ UNCHANGED <<holder, changer, named, done>>

\* All tokens grow older together.
Age ==
  /\ left' = [t \in Tokens |-> IF left[t] = 0 THEN 0 ELSE left[t] - 1]
  /\ UNCHANGED <<holder, changer, named, done>>

Begin(p, u) ==
  /\ changer[p] = Nobody
  /\ Working(u) # {}
  /\ changer' = [changer EXCEPT ![p] = u]
  /\ UNCHANGED <<holder, left, named, done>>

\* What a change names, it names once.
Name(p, S) ==
  /\ changer[p] # Nobody /\ p \notin done
  /\ named[p] = {}
  /\ S \subseteq Working(changer[p])
  /\ named' = [named EXCEPT ![p] = S]
  /\ UNCHANGED <<holder, left, changer, done>>

\* A change ends tokens of its own user only, all that it named among them. It may
\* do so more than once before it reports success.
Revoke(p, S) ==
  /\ changer[p] # Nobody /\ p \notin done
  /\ named[p] \subseteq S /\ S \subseteq TokensOf(changer[p])
  /\ left' = [t \in Tokens |-> IF t \in S THEN 0 ELSE left[t]]
  /\ done' \in {done, done \cup {p}}
  /\ UNCHANGED <<holder, changer, named>>

Next ==
  \/ \E t \in Tokens : LogOut(t) \/ \E u \in Users : Issue(t, u)
  \/ Age
  \/ \E p \in Changes :
       \/ \E u \in Users : Begin(p, u)
       \/ \E S \in SUBSET Tokens : Name(p, S) \/ Revoke(p, S)

Spec == Init /\ [][Next]_vars
=============================================================================
