---------------------------- MODULE AuthSessions ----------------------------
(***************************************************************************)
(* packages/api/auth_service.py: logins, sessions and lockouts of one API  *)
(* process.  A login reads the clock and looks for a lockout under the     *)
(* lock, verifies the password without it, which is slow, and then uses    *)
(* the time it read first.  Signatures and hashes are exact: a token is    *)
(* the number of its session.                                              *)
(***************************************************************************)
EXTENDS Integers, FiniteSets, Sequences

CONSTANTS Clients,        \* request threads that log in
          Accounts,       \* keys: a client's address and a user name
          Ttl, Window, Lockout,          \* in seconds
          MaxFailures, MaxSessions,
          MaxKeys,        \* failure lists kept (1000)
          MaxLogins, MaxTime   \* bounds: sessions ever made, the clock

ASSUME AuthAssumption ==
  {Ttl, Window, Lockout, MaxFailures, MaxSessions, MaxKeys} \subseteq Nat \ {0}

VARIABLES auth_clock,
          login,      \* what each thread is doing in login
          sessions,     \* _sessions
          login_failures, lockouts,   \* _failures, _lockouts
          logins,       \* sessions made so far: the next number
          ended,        \* history: sessions that were logged out
          misled,       \* history: authenticate answered with a session that was over
          missed        \* history: failures of a key since its last success, <<time, n>>
                        \* for the n-th of its time, up to MaxFailures of each

authVars == <<auth_clock, login, sessions, login_failures, lockouts, logins, ended, misled, missed>>

Waiting == [at |-> "idle", key |-> "none", good |-> "no", now |-> 0]

Without(f, gone) == [x \in DOMAIN f \ gone |-> f[x]]
With(f, x, value) == [y \in DOMAIN f \cup {x} |-> IF y = x THEN value ELSE f[y]]

AuthInit ==
  /\ auth_clock = 0
  /\ login = [c \in Clients |-> Waiting]
  /\ sessions = <<>> /\ login_failures = <<>> /\ lockouts = <<>>
  /\ logins = 0 /\ ended = {} /\ misled = FALSE
  /\ missed = [k \in Accounts |-> {}]

LockedOut(key, now) == key \in DOMAIN lockouts /\ lockouts[key] > now

BeginLogin(c, key, good) ==
  /\ login[c].at = "idle" /\ logins < MaxLogins
  /\ ~LockedOut(key, auth_clock)
  /\ login' = [login EXCEPT ![c] = [at |-> "verify", key |-> key, good |-> good, now |-> auth_clock]]
  /\ UNCHANGED <<auth_clock, sessions, login_failures, lockouts, logins, ended, misled, missed>>

FaultyRecent(key, now) ==
  IF key \in DOMAIN login_failures THEN login_failures[key] ELSE <<>>

\* _record_failure: the failures of the window that ends with this one.
StillRecent(times, start) ==
  LET kept[i \in 0..Len(times)] ==
        IF i = 0 THEN <<>>
        ELSE IF times[i] >= start THEN Append(kept[i - 1], times[i]) ELSE kept[i - 1]
  IN  kept[Len(times)]

Recent(key, now) ==
  IF key \in DOMAIN login_failures THEN StillRecent(login_failures[key], now - Window) ELSE <<>>

Latest(s, n) == IF Len(s) <= n THEN s ELSE SubSeq(s, Len(s) - n + 1, Len(s))

\* Too many lists: the one whose last failure is oldest goes, with its lockout.
Overflow(lists) ==
  IF Cardinality(DOMAIN lists) <= MaxKeys THEN {{}}
  ELSE {{k} : k \in {j \in DOMAIN lists : \A i \in DOMAIN lists :
                       lists[j][Len(lists[j])] <= lists[i][Len(lists[i])]}}

Missed(marks, now) ==
  LET n == Cardinality({m \in marks : m[1] = now})
  IN  IF n < MaxFailures THEN marks \cup {<<now, n + 1>>} ELSE marks

RecordFailure(c) ==
  /\ login[c].at = "verify" /\ login[c].good = "no"
  /\ LET key == login[c].key
         now == login[c].now
         recent == Append(Recent(key, now), now)
         lists == With(login_failures, key, Latest(recent, MaxFailures))
         locks == IF Len(recent) >= MaxFailures THEN With(lockouts, key, now + Lockout) ELSE lockouts
     IN  /\ \E gone \in Overflow(lists) :
              login_failures' = Without(lists, gone) /\ lockouts' = Without(locks, gone)
         /\ missed' = [missed EXCEPT ![key] = Missed(@, now)]
  /\ login' = [login EXCEPT ![c] = Waiting]
  /\ UNCHANGED <<auth_clock, sessions, logins, ended, misled>>

Expired(now) == {id \in DOMAIN sessions : sessions[id].expires <= now}

FaultyLoggedIn(live) == live

\* The oldest sessions go until there is room for one more: by the time a
\* login read, in the order they were made among equals.
LoggedIn(live) ==
  LET Older(x, y) == \/ live[x].created < live[y].created
                     \/ live[x].created = live[y].created /\ x < y
      keep == {x \in DOMAIN live :
                 Cardinality({y \in DOMAIN live : Older(x, y)}) < MaxSessions - 1}
  IN  [x \in keep |-> live[x]]

Admit(c) ==
  /\ login[c].at = "verify" /\ login[c].good = "yes" /\ logins < MaxLogins
  /\ LET key == login[c].key
         now == login[c].now
     IN  /\ login_failures' = Without(login_failures, {key})
         /\ lockouts' = Without(lockouts, {key})
         /\ sessions' = With(LoggedIn(Without(sessions, Expired(now))), logins + 1,
                             [key |-> key, created |-> now, expires |-> now + Ttl])
         /\ missed' = [missed EXCEPT ![key] = {}]
  /\ logins' = logins + 1
  /\ login' = [login EXCEPT ![c] = Waiting]
  /\ UNCHANGED <<auth_clock, ended, misled>>

\* authenticate: the expiry in the token, then the table, purged.
Authenticate(id, expires) ==
  /\ expires > auth_clock
  /\ sessions' = Without(sessions, Expired(auth_clock))
  /\ misled' = (misled \/ (id \in DOMAIN sessions' /\ (id \in ended \/ sessions'[id].expires <= auth_clock)))
  /\ UNCHANGED <<auth_clock, login, login_failures, lockouts, logins, ended, missed>>

FaultyRevoked(id) == Without(sessions, Expired(auth_clock))

Revoked(id) == Without(sessions, {id})

Logout(id) ==
  /\ sessions' = Revoked(id)
  /\ ended' = ended \cup {id}
  /\ UNCHANGED <<auth_clock, login, login_failures, lockouts, logins, misled, missed>>

\* The process is started again: its tables are gone, the secret is not.
AuthRestarts ==
  /\ DOMAIN sessions \cup DOMAIN login_failures # {}
  /\ sessions' = <<>> /\ login_failures' = <<>> /\ lockouts' = <<>>
  /\ login' = [c \in Clients |-> Waiting]
  /\ missed' = [k \in Accounts |-> {}]
  /\ UNCHANGED <<auth_clock, logins, ended, misled>>

AuthTick ==
  /\ auth_clock < MaxTime /\ auth_clock' = auth_clock + 1
  /\ UNCHANGED <<login, sessions, login_failures, lockouts, logins, ended, misled, missed>>

\* A token is presented with the expiry it was signed with; of a session that
\* is gone the latest there can be stands for every other.
AuthNext ==
  \/ \E c \in Clients : \/ \E key \in Accounts, good \in {"yes", "no"} : BeginLogin(c, key, good)
                        \/ RecordFailure(c) \/ Admit(c)
  \/ \E id \in 1..logins :
       Authenticate(id, IF id \in DOMAIN sessions THEN sessions[id].expires ELSE MaxTime + Ttl)
  \/ \E id \in 1..logins : Logout(id)
  \/ AuthRestarts \/ AuthTick

AuthSpec == AuthInit /\ [][AuthNext]_authVars

-----------------------------------------------------------------------------
\* A lockout is earned: since the last success of its key so many attempts
\* failed, none of them older than the window that ends where the lockout
\* began, whatever attempts overtook each other and whatever lists were dropped.
LockoutsAreEarned ==
  \A k \in DOMAIN lockouts :
    /\ Cardinality({m \in missed[k] : m[1] >= lockouts[k] - Lockout - Window}) >= MaxFailures
    /\ k \in DOMAIN login_failures

\* The tables stay within their limits, and no session answers that was logged out
\* or has expired; one that was logged out is not in the table.
SessionsAreLive ==
  /\ Cardinality(DOMAIN sessions) <= MaxSessions
  /\ Cardinality(DOMAIN login_failures) <= MaxKeys
  /\ DOMAIN sessions \cap ended = {}
  /\ ~misled

\* Both, for every interleaving of slow logins, logouts and expiry.
LoginsAreSound == LockoutsAreEarned /\ SessionsAreLive
=============================================================================
