------------------------------ MODULE Accounts ------------------------------
(***************************************************************************)
(* Signing in and out, the administrator's changes to accounts, and the    *)
(* first-run setup (internal/httpapi/auth.go, server.go, setup.go and the  *)
(* account handlers of admin_users.go).                                    *)
(*                                                                         *)
(* A client is one request being served.  Its steps are the store's        *)
(* transactions and the critical sections of loginMu; hashing a password   *)
(* and probing Sub2API take time between two of them, and so anything may  *)
(* happen there.                                                           *)
(***************************************************************************)
EXTENDS AccountsStore, Sequences

CONSTANTS
  Clients,  \* requests that may be served at the same time
  Guessed,  \* the names somebody also tries wrong passwords for
  Limit,    \* failures after which a name is blocked
  Window    \* how long a failure counts, in ticks

ASSUME ThrottleConstants ==
  /\ IsFiniteSet(Clients)
  /\ Guessed \subseteq Users
  /\ Limit \in Nat \ {0}
  /\ Window \in Nat \ {0}

VARIABLES
  at,          \* the next step of each client
  who,         \* the account the client's request is about or made by
  secret,      \* the password it presents, or the session or setup token
  loginFails   \* the ages of the failures in the window, per name

clientVars == <<at, who, secret>>
vars == <<storeVars, at, who, secret, loginFails>>

Steps == {"idle", "admitted", "cleared", "signedIn", "proved", "validated"}

Secrets == (0 .. MaxEras) \cup Tokens \cup SetupTokens \cup {None}

TypeOK ==
  /\ StoreTypeOK
  /\ at \in [Clients -> Steps]
  /\ who \in [Clients -> Users \cup {None}]
  /\ secret \in [Clients -> Secrets]
  /\ loginFails \in [Users -> Seq(0 .. Window - 1)]

Init ==
  /\ StoreInit
  /\ at = [c \in Clients |-> "idle"]
  /\ who = [c \in Clients |-> None]
  /\ secret = [c \in Clients |-> None]
  /\ loginFails = [u \in Users |-> <<>>]

Go(c, step, u, s) ==
  /\ at' = [at EXCEPT ![c] = step]
  /\ who' = [who EXCEPT ![c] = u]
  /\ secret' = [secret EXCEPT ![c] = s]

Finish(c) == Go(c, "idle", None, None)

-----------------------------------------------------------------------------
(* Login.                                                                  *)

\* Mutant: the limit is reached one failure late.
BlockedLate(u) == Len(loginFails[u]) > Limit

\* What loginBlocked answers.
Blocked(u) == Len(loginFails[u]) >= Limit

\* A login for the name u with the password p is let in.
AdmitLogin(c, u, p) ==
  /\ at[c] = "idle"
  /\ u \in Guessed \/ p = password[u]
  /\ ~Blocked(u)
  /\ Go(c, "admitted", u, p)
  /\ UNCHANGED loginFails
  /\ UNCHANGED storeVars

\* UserByUsername, the status and the password.
Verified(u, p) == Exists(u) /\ status[u] = "active" /\ password[u] = p

RecordLoginFailure(c) ==
  /\ at[c] = "admitted"
  /\ ~Verified(who[c], secret[c])
  /\ loginFails' = [loginFails EXCEPT ![who[c]] = Append(@, 0)]
  /\ Finish(c)
  /\ UNCHANGED storeVars

ClearLoginFailures(c) ==
  /\ at[c] = "admitted"
  /\ Verified(who[c], secret[c])
  /\ loginFails' = [loginFails EXCEPT ![who[c]] = <<>>]
  /\ Go(c, "cleared", who[c], secret[c])
  /\ UNCHANGED storeVars

\* The session is created for the account that was read before, whatever has
\* become of it.  RecordLogin follows and touches nothing modelled here.
GrantSession(c) ==
  /\ at[c] = "cleared"
  /\ CreateSession(who[c])
  /\ Finish(c)
  /\ UNCHANGED loginFails

-----------------------------------------------------------------------------
(* Requests with a session.                                                *)

\* requireAuth accepts the token t: the request goes on with the account of
\* its row, and is not looked at again.
Authenticate(c, t) ==
  /\ at[c] = "idle"
  /\ Renew(t)
  /\ Go(c, "signedIn", owner[t], t)
  /\ UNCHANGED loginFails

Reject(c, t) ==
  /\ at[c] = "idle"
  /\ Refuse(t)
  /\ UNCHANGED <<at, who, secret, loginFails>>

Logout(c) ==
  /\ at[c] = "signedIn"
  /\ DeleteSession(secret[c])
  /\ Finish(c)
  /\ UNCHANGED loginFails

\* changePassword: the present password p is verified first.
ProvePassword(c, p) ==
  /\ at[c] = "signedIn"
  /\ password[who[c]] = p
  /\ Go(c, "proved", who[c], None)
  /\ UNCHANGED loginFails
  /\ UNCHANGED storeVars

ChangePassword(c) ==
  /\ at[c] = "proved"
  /\ SetUserPassword(who[c])
  /\ Finish(c)
  /\ UNCHANGED loginFails

\* requireRole("admin"), then one of the account handlers for u.
Administer(c, u) ==
  /\ at[c] = "signedIn"
  /\ role[who[c]] = "admin"
  /\ \/ CreateUser(u)
     \/ EnableUser(u)
     \/ DisableUser(u)
     \/ DeleteUser(u)
     \/ SetUserPassword(u)
  /\ Finish(c)
  /\ UNCHANGED loginFails

-----------------------------------------------------------------------------
(* Setup.                                                                  *)

\* setupComplete up to the probe: the token s presented for the name u.
ValidateSetup(c, s, u) ==
  /\ at[c] = "idle"
  /\ TokenAccepted(s)
  /\ Go(c, "validated", u, s)
  /\ UNCHANGED loginFails
  /\ UNCHANGED storeVars

FinishSetup(c) ==
  /\ at[c] = "validated"
  /\ CompleteSetup(secret[c], who[c])
  /\ Finish(c)
  /\ UNCHANGED loginFails

-----------------------------------------------------------------------------
\* A request ends without further effect: the probe, the store or a check
\* refuses, the client goes away, or it asked for something not modelled here.
GiveUp(c) ==
  /\ at[c] \in {"admitted", "cleared", "signedIn", "proved", "validated"}
  /\ Finish(c)
  /\ UNCHANGED loginFails
  /\ UNCHANGED storeVars

\* The process ends and New runs: the requests and the throttle are gone.
Restart ==
  /\ at' = [c \in Clients |-> "idle"]
  /\ who' = [c \in Clients |-> None]
  /\ secret' = [c \in Clients |-> None]
  /\ loginFails' = [u \in Users |-> <<>>]
  /\ IF complete THEN UNCHANGED setupVars ELSE SetSetupToken
  /\ UNCHANGED userVars
  /\ UNCHANGED sessionVars

\* The list a tick later without the failures at the places in gone.  They are
\* appended as they happen, so the oldest come first, and those go first.
Without(ages, gone) ==
  [i \in 1 .. Len(ages) - Cardinality(gone) |-> ages[i + Cardinality(gone)] + 1]

\* Mutant: a failure exactly as old as the window still counts.
AgedLate(ages) == Without(ages, {i \in 1 .. Len(ages) : ages[i] + 1 > Window})

\* The failures still inside the window a tick later; loginBlocked drops the
\* others when it next looks at the name.
Aged(ages) == Without(ages, {i \in 1 .. Len(ages) : ages[i] + 1 >= Window})

Tick ==
  /\ StoreTick
  /\ loginFails' = [u \in Users |-> Aged(loginFails[u])]
  /\ UNCHANGED clientVars

LoginStep(c) ==
  \/ \E u \in Users, p \in 0 .. MaxEras : AdmitLogin(c, u, p)
  \/ RecordLoginFailure(c) \/ ClearLoginFailures(c) \/ GrantSession(c)

SessionStep(c) ==
  \/ \E t \in Tokens : Authenticate(c, t) \/ Reject(c, t)
  \/ Logout(c)
  \/ \E p \in 0 .. MaxEras : ProvePassword(c, p)
  \/ ChangePassword(c)
  \/ \E u \in Users : Administer(c, u)

SetupStep(c) ==
  \/ \E s \in SetupTokens, u \in Users : ValidateSetup(c, s, u)
  \/ FinishSetup(c)

Next ==
  \/ \E c \in Clients : LoginStep(c) \/ SessionStep(c) \/ SetupStep(c) \/ GiveUp(c)
  \/ Restart
  \/ Tick

Spec == Init /\ [][Next]_vars

-----------------------------------------------------------------------------
(* Properties.                                                             *)

\* Setup happens once and wholly: before it there is neither administrator nor
\* settings, afterwards exactly one administrator, whom nobody can lock out by
\* disabling or deleting, and settings; however many requests presented the
\* token, and whenever the portal was restarted.
SetupIsWhole ==
  LET admins == {u \in Users : role[u] = "admin"} IN
  IF complete
  THEN /\ settings
       /\ \E u \in Users : admins = {u} /\ status[u] = "active"
       /\ setupToken = None
  ELSE ~settings /\ admins = {} /\ setupToken # None

\* Disabling, deleting and setting a password end every session the account
\* has then, for good: what is valid now was granted since, and enabling the
\* account again brings nothing back.
RevocationEndsSessions ==
  \A t \in Tokens : Valid(t) => born[t] = era[owner[t]]

\* Checking the limit and recording the failure are two steps, so requests
\* served together may overshoot the limit, but by no more than one each.
ThrottleHolds == \A u \in Users : Len(loginFails[u]) <= Limit - 1 + Cardinality(Clients)

\* A session in use slides, but never past its absolute end: nothing is valid
\* seven days after its login.
SessionsAreBounded == \A t \in Tokens : Valid(t) => age[t] < AbsoluteTTL
=============================================================================
