--------------------------- MODULE AccountsStore ---------------------------
(***************************************************************************)
(* The tables users, sessions, app_meta and settings, and the methods of   *)
(* internal/store that sign people in and out.  As everywhere in the store *)
(* a method is one statement or one transaction, so it is one action here. *)
(*                                                                         *)
(* A username is unique for ever (a deleted row keeps it), so a name is    *)
(* also the identity of its row.  A password is a number that grows each   *)
(* time one is set, and stands for its hash.  A moment in the future is    *)
(* the time left until it: nothing else about absolute time matters.       *)
(***************************************************************************)
EXTENDS Naturals, FiniteSets

CONSTANTS
  Users,        \* the usernames that can be taken
  MaxSessions,  \* how many session tokens may be handed out
  SetupTokens,  \* values of a setup token; a new one differs from the last
  None,         \* SQL NULL
  IdleTTL,      \* idleTTL, in ticks
  AbsoluteTTL,  \* absoluteTTL, in ticks
  SetupTTL,     \* setupTTL, in ticks
  MaxEras       \* how often the sessions of one account may be revoked

ASSUME AccountsConstants ==
  /\ None \notin Users \cup SetupTokens
  /\ IsFiniteSet(Users)
  /\ {MaxSessions, IdleTTL, AbsoluteTTL, SetupTTL, MaxEras} \subseteq Nat
  /\ 0 < IdleTTL /\ IdleTTL <= AbsoluteTTL
  /\ \A s \in SetupTokens : SetupTokens # {s}

VARIABLES
  role,         \* users.role, "none" before the row exists
  status,       \* users.status
  password,     \* users.password_hash
  issued,       \* how many session tokens exist: they are 1 .. issued
  owner,        \* sessions.user_id of a token, None when it has no row
  idle,         \* time until idle_expires_at
  absolute,     \* time until absolute_expires_at
  setupToken,   \* app_meta.setup_token_hash
  setupLeft,    \* time until setup_token_expires_at
  complete,     \* app_meta.setup_complete
  settings,     \* whether the only row of settings exists
  era,          \* history: how often an account's sessions were revoked
  born,         \* history: the era of its owner when a session was inserted
  age           \* history: time since it was inserted, at most AbsoluteTTL

userVars == <<role, status, password, era>>
sessionVars == <<issued, owner, idle, absolute, born, age>>
setupVars == <<setupToken, setupLeft, complete, settings>>
storeVars == <<role, status, password, era, issued, owner, idle, absolute,
               born, age, setupToken, setupLeft, complete, settings>>

Tokens == 1 .. MaxSessions
Exists(u) == role[u] # "none"

StoreTypeOK ==
  /\ role \in [Users -> {"none", "admin", "user"}]
  /\ status \in [Users -> {"active", "disabled", "deleted"}]
  /\ password \in [Users -> 0 .. MaxEras]
  /\ era \in [Users -> 0 .. MaxEras]
  /\ issued \in 0 .. MaxSessions
  /\ owner \in [Tokens -> Users \cup {None}]
  /\ idle \in [Tokens -> 0 .. IdleTTL]
  /\ absolute \in [Tokens -> 0 .. AbsoluteTTL]
  /\ born \in [Tokens -> 0 .. MaxEras]
  /\ age \in [Tokens -> 0 .. AbsoluteTTL]
  /\ setupToken \in SetupTokens \cup {None}
  /\ setupLeft \in 0 .. SetupTTL
  /\ complete \in BOOLEAN
  /\ settings \in BOOLEAN

\* An empty database, and the setup token the first start has just made.
StoreInit ==
  /\ role = [u \in Users |-> "none"]
  /\ status = [u \in Users |-> "active"]
  /\ password = [u \in Users |-> 0]
  /\ era = [u \in Users |-> 0]
  /\ issued = 0
  /\ owner = [t \in Tokens |-> None]
  /\ idle = [t \in Tokens |-> 0]
  /\ absolute = [t \in Tokens |-> 0]
  /\ born = [t \in Tokens |-> 0]
  /\ age = [t \in Tokens |-> 0]
  /\ setupToken \in SetupTokens
  /\ setupLeft = SetupTTL
  /\ complete = FALSE
  /\ settings = FALSE

-----------------------------------------------------------------------------
(* Sessions.                                                               *)

\* What Session accepts: a row in time, of an account that is active.
Valid(t) ==
  /\ owner[t] # None
  /\ idle[t] > 0
  /\ absolute[t] > 0
  /\ status[owner[t]] = "active"

\* INSERT under the next of the random tokens, none of which comes twice.
CreateSession(u) ==
  LET t == issued + 1 IN
  /\ t \in Tokens
  /\ issued' = t
  /\ owner' = [owner EXCEPT ![t] = u]
  /\ idle' = [idle EXCEPT ![t] = IdleTTL]
  /\ absolute' = [absolute EXCEPT ![t] = AbsoluteTTL]
  /\ born' = [born EXCEPT ![t] = era[u]]
  /\ UNCHANGED age
  /\ UNCHANGED userVars
  /\ UNCHANGED setupVars

\* Mutant: a session in use renews its absolute end as well.
RenewWhole(t) ==
  /\ Valid(t)
  /\ idle' = [idle EXCEPT ![t] = IdleTTL]
  /\ absolute' = [absolute EXCEPT ![t] = AbsoluteTTL]
  /\ UNCHANGED <<issued, owner, born, age>>
  /\ UNCHANGED userVars
  /\ UNCHANGED setupVars

\* Session, accepted: the idle end slides, but never past the absolute end.
Renew(t) ==
  /\ Valid(t)
  /\ idle' = [idle EXCEPT ![t] =
       IF IdleTTL > absolute[t] THEN absolute[t] ELSE IdleTTL]
  /\ UNCHANGED <<issued, owner, absolute, born, age>>
  /\ UNCHANGED userVars
  /\ UNCHANGED setupVars

\* The rows of T are deleted.
DropRows(T) ==
  /\ owner' = [t \in Tokens |-> IF t \in T THEN None ELSE owner[t]]
  /\ idle' = [t \in Tokens |-> IF t \in T THEN 0 ELSE idle[t]]
  /\ absolute' = [t \in Tokens |-> IF t \in T THEN 0 ELSE absolute[t]]
  /\ born' = [t \in Tokens |-> IF t \in T THEN 0 ELSE born[t]]
  /\ age' = [t \in Tokens |-> IF t \in T THEN 0 ELSE age[t]]
  /\ UNCHANGED issued

\* Session, turned away: the row is deleted.  A token without one is turned
\* away with nothing done, and there is no action for that.
Refuse(t) ==
  /\ owner[t] # None
  /\ ~Valid(t)
  /\ DropRows({t})
  /\ UNCHANGED userVars
  /\ UNCHANGED setupVars

DeleteSession(t) ==
  /\ DropRows({t})
  /\ UNCHANGED userVars
  /\ UNCHANGED setupVars

-----------------------------------------------------------------------------
(* Accounts.                                                               *)

SessionsOf(u) == {t \in Tokens : owner[t] = u}

CreateUser(u) ==
  /\ ~Exists(u)
  /\ role' = [role EXCEPT ![u] = "user"]
  /\ UNCHANGED <<status, password, era>>
  /\ UNCHANGED sessionVars
  /\ UNCHANGED setupVars

EnableUser(u) ==
  /\ role[u] = "user" /\ status[u] # "deleted"
  /\ status' = [status EXCEPT ![u] = "active"]
  /\ UNCHANGED <<role, password, era>>
  /\ UNCHANGED sessionVars
  /\ UNCHANGED setupVars

\* The sessions of u are deleted with whatever else the transaction does.
Revoke(u) ==
  /\ era[u] < MaxEras
  /\ era' = [era EXCEPT ![u] = @ + 1]
  /\ DropRows(SessionsOf(u))

\* Mutant: disabling leaves the sessions to Session's check of the status.
DisableUserOnly(u) ==
  /\ role[u] = "user" /\ status[u] # "deleted"
  /\ era[u] < MaxEras
  /\ era' = [era EXCEPT ![u] = @ + 1]
  /\ status' = [status EXCEPT ![u] = "disabled"]
  /\ UNCHANGED <<role, password>>
  /\ UNCHANGED sessionVars
  /\ UNCHANGED setupVars

DisableUser(u) ==
  /\ role[u] = "user" /\ status[u] # "deleted"
  /\ status' = [status EXCEPT ![u] = "disabled"]
  /\ Revoke(u)
  /\ UNCHANGED <<role, password>>
  /\ UNCHANGED setupVars

DeleteUser(u) ==
  /\ role[u] = "user" /\ status[u] # "deleted"
  /\ status' = [status EXCEPT ![u] = "deleted"]
  /\ Revoke(u)
  /\ UNCHANGED <<role, password>>
  /\ UNCHANGED setupVars

SetUserPassword(u) ==
  /\ Exists(u) /\ status[u] # "deleted"
  /\ password' = [password EXCEPT ![u] = @ + 1]
  /\ Revoke(u)
  /\ UNCHANGED <<role, status>>
  /\ UNCHANGED setupVars

-----------------------------------------------------------------------------
(* First-run setup.                                                        *)

\* A start of the portal before setup is complete replaces the token.
SetSetupToken ==
  /\ setupToken' \in SetupTokens \ {setupToken}
  /\ setupLeft' = SetupTTL
  /\ UNCHANGED <<complete, settings>>

\* ValidateSetupToken, and the same check again inside CompleteSetup.
TokenAccepted(s) ==
  /\ ~complete
  /\ setupToken # None
  /\ setupLeft > 0
  /\ setupToken = s

\* Mutant: the transaction trusts the check made before the probe.
CompleteSetupUnchecked(s, u) ==
  /\ ~Exists(u)
  /\ role' = [role EXCEPT ![u] = "admin"]
  /\ settings' = TRUE
  /\ complete' = TRUE
  /\ setupToken' = None
  /\ setupLeft' = 0
  /\ UNCHANGED <<status, password, era>>
  /\ UNCHANGED sessionVars

\* One transaction: recheck, insert the administrator and the settings.
CompleteSetup(s, u) ==
  /\ TokenAccepted(s)
  /\ ~Exists(u)
  /\ ~settings
  /\ role' = [role EXCEPT ![u] = "admin"]
  /\ settings' = TRUE
  /\ complete' = TRUE
  /\ setupToken' = None
  /\ setupLeft' = 0
  /\ UNCHANGED <<status, password, era>>
  /\ UNCHANGED sessionVars

-----------------------------------------------------------------------------
\* Time left after one tick.
Less(n) == IF n = 0 THEN 0 ELSE n - 1

\* Time passes for the rows.
StoreTick ==
  /\ idle' = [t \in Tokens |-> Less(idle[t])]
  /\ absolute' = [t \in Tokens |-> Less(absolute[t])]
  /\ setupLeft' = Less(setupLeft)
  /\ age' = [t \in Tokens |->
       IF owner[t] # None /\ age[t] < AbsoluteTTL THEN age[t] + 1 ELSE age[t]]
  /\ UNCHANGED <<issued, owner, born>>
  /\ UNCHANGED <<setupToken, complete, settings>>
  /\ UNCHANGED userVars
=============================================================================
