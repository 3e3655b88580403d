--------------------------- MODULE AccountsProofs ---------------------------
(***************************************************************************)
(* Theorems about Accounts: setup happens once and wholly, revoked         *)
(* sessions stay revoked, no session outlives its absolute end, and the    *)
(* login throttle bounds the failures of a name, for any number of         *)
(* accounts, sessions and requests.                                        *)
(***************************************************************************)
EXTENDS Accounts, FiniteSetTheorems, SequenceTheorems, TLAPS

-----------------------------------------------------------------------------
(* The inductive invariant, by the part of the state it is about.          *)

UserTypes ==
  /\ role \in [Users -> {"none", "admin", "user"}]
  /\ status \in [Users -> {"active", "disabled", "deleted"}]
  /\ password \in [Users -> 0 .. MaxEras]
  /\ era \in [Users -> 0 .. MaxEras]

SessionTypes ==
  /\ issued \in 0 .. MaxSessions
  /\ owner \in [Tokens -> Users \cup {None}]
  /\ idle \in [Tokens -> 0 .. IdleTTL]
  /\ absolute \in [Tokens -> 0 .. AbsoluteTTL]
  /\ born \in [Tokens -> 0 .. MaxEras]
  /\ age \in [Tokens -> 0 .. AbsoluteTTL]

SetupTypes ==
  /\ setupToken \in SetupTokens \cup {None}
  /\ setupLeft \in 0 .. SetupTTL
  /\ complete \in BOOLEAN
  /\ settings \in BOOLEAN

\* A request that is being served is about an account.
ClientsAreKnown ==
  /\ at \in [Clients -> Steps]
  /\ who \in [Clients -> Users \cup {None}]
  /\ \A c \in Clients : at[c] # "idle" => who[c] \in Users

\* Each new password revokes, and a name that was never taken is active when
\* it is.
UsersAreTrue ==
  \A u \in Users :
    /\ password[u] <= era[u]
    /\ role[u] = "none" => status[u] = "active"

\* A row was inserted since the last revocation, and its absolute end is no
\* further away than its age leaves; a token without a row has no age.
RowsAreTrue ==
  \A t \in Tokens :
    /\ t > issued => owner[t] = None
    /\ owner[t] = None => age[t] = 0
    /\ owner[t] # None => /\ born[t] = era[owner[t]]
                          /\ absolute[t] + age[t] <= AbsoluteTTL

UserPart == UserTypes /\ UsersAreTrue
SessionPart == SessionTypes /\ RowsAreTrue
SetupPart == SetupTypes /\ SetupIsWhole

AccountsInv == UserPart /\ SessionPart /\ SetupPart /\ ClientsAreKnown

LEMMA Numbers ==
  /\ MaxSessions \in Nat /\ IdleTTL \in Nat /\ AbsoluteTTL \in Nat
  /\ SetupTTL \in Nat /\ MaxEras \in Nat
  /\ 0 < IdleTTL /\ IdleTTL <= AbsoluteTTL
  /\ None \notin Users /\ None \notin SetupTokens
  BY AccountsConstants

-----------------------------------------------------------------------------
(* What each step does to the sessions.                                    *)

LEMMA SessionsStay ==
  SessionPart /\ UNCHANGED <<sessionVars, era>> => SessionPart'
  BY DEF SessionPart, SessionTypes, RowsAreTrue, sessionVars

LEMMA CreateSessionRows ==
  ASSUME UserPart, SessionPart, NEW u \in Users, CreateSession(u)
  PROVE  SessionPart'
<1>1. PICK t \in Tokens : t = issued + 1
  BY DEF CreateSession
<1>2. /\ issued' = t /\ owner' = [owner EXCEPT ![t] = u]
      /\ idle' = [idle EXCEPT ![t] = IdleTTL]
      /\ absolute' = [absolute EXCEPT ![t] = AbsoluteTTL]
      /\ born' = [born EXCEPT ![t] = era[u]]
      /\ age' = age /\ era' = era
  BY <1>1 DEF CreateSession, userVars
<1>3. SessionTypes'
  <2>1. /\ IdleTTL \in 0 .. IdleTTL /\ AbsoluteTTL \in 0 .. AbsoluteTTL
        /\ era[u] \in 0 .. MaxEras /\ t \in 0 .. MaxSessions
    BY Numbers DEF UserPart, UserTypes, Tokens
  <2> QED
    BY <1>1, <1>2, <2>1 DEF SessionPart, SessionTypes
<1>4. owner[t] = None /\ age[t] = 0 /\ issued \in Nat /\ t \in Nat
  <2>1. issued \in Nat /\ t > issued
    BY <1>1, Numbers DEF SessionPart, SessionTypes
  <2> QED
    BY <1>1, <2>1 DEF SessionPart, RowsAreTrue
<1>5. /\ owner'[t] = u /\ born'[t] = era[u] /\ absolute'[t] = AbsoluteTTL
      /\ \A x \in Tokens \ {t} : /\ owner'[x] = owner[x] /\ born'[x] = born[x]
                                /\ absolute'[x] = absolute[x]
  BY <1>1, <1>2 DEF SessionPart, SessionTypes
<1>6. ASSUME NEW x \in Tokens
      PROVE  /\ x > issued' => owner'[x] = None
             /\ owner'[x] = None => age'[x] = 0
             /\ owner'[x] # None => /\ born'[x] = era'[owner'[x]]
                                    /\ absolute'[x] + age'[x] <= AbsoluteTTL
  <2>1. CASE x = t
    BY <1>1, <1>2, <1>4, <1>5, <2>1, Numbers
  <2>2. CASE x # t
    <3>1. x > issued' => x > issued
      BY <1>1, <1>2, <1>4, Numbers DEF Tokens
    <3> QED
      BY <1>2, <1>5, <2>2, <3>1 DEF SessionPart, RowsAreTrue
  <2> QED
    BY <2>1, <2>2
<1> QED
  BY <1>3, <1>6 DEF SessionPart, RowsAreTrue

LEMMA RenewRows ==
  ASSUME SessionPart, NEW t \in Tokens, Renew(t)
  PROVE  SessionPart'
<1>1. /\ idle' = [idle EXCEPT ![t] =
                    IF IdleTTL > absolute[t] THEN absolute[t] ELSE IdleTTL]
      /\ issued' = issued /\ owner' = owner /\ absolute' = absolute
      /\ born' = born /\ age' = age /\ era' = era
  BY DEF Renew, userVars
<1>2. idle' \in [Tokens -> 0 .. IdleTTL]
  BY <1>1, Numbers DEF SessionPart, SessionTypes
<1> QED
  BY <1>1, <1>2 DEF SessionPart, SessionTypes, RowsAreTrue

\* Rows are deleted, those of every account whose era ends among them.
LEMMA DropRowsRows ==
  ASSUME SessionPart, NEW T, DropRows(T),
         \A t \in Tokens \ T : owner[t] # None => era'[owner[t]] = era[owner[t]]
  PROVE  SessionPart'
<1>1. /\ issued' = issued
      /\ owner' \in [Tokens -> Users \cup {None}]
      /\ idle' \in [Tokens -> 0 .. IdleTTL]
      /\ absolute' \in [Tokens -> 0 .. AbsoluteTTL]
      /\ born' \in [Tokens -> 0 .. MaxEras]
      /\ age' \in [Tokens -> 0 .. AbsoluteTTL]
  BY Numbers DEF DropRows, SessionPart, SessionTypes
<1>2. ASSUME NEW t \in Tokens
      PROVE  /\ t \in T => owner'[t] = None /\ age'[t] = 0
             /\ t \notin T => /\ owner'[t] = owner[t] /\ born'[t] = born[t]
                              /\ absolute'[t] = absolute[t] /\ age'[t] = age[t]
  BY DEF DropRows
<1>3. RowsAreTrue'
  BY <1>1, <1>2 DEF SessionPart, RowsAreTrue
<1> QED
  BY <1>1, <1>3 DEF SessionPart, SessionTypes

LEMMA RevokeRows ==
  ASSUME UserPart, SessionPart, NEW u \in Users, Revoke(u)
  PROVE  /\ SessionPart'
         /\ era' = [era EXCEPT ![u] = @ + 1]
         /\ era' \in [Users -> 0 .. MaxEras]
<1>1. era[u] < MaxEras /\ era' = [era EXCEPT ![u] = @ + 1] /\ DropRows(SessionsOf(u))
  BY DEF Revoke
<1>2. era' \in [Users -> 0 .. MaxEras]
  BY <1>1, Numbers DEF UserPart, UserTypes
<1>3. ASSUME NEW t \in Tokens \ SessionsOf(u), owner[t] # None
      PROVE  era'[owner[t]] = era[owner[t]]
  BY <1>1, <1>3 DEF SessionsOf, SessionPart, SessionTypes, UserPart, UserTypes
<1> QED
  BY <1>1, <1>2, <1>3, DropRowsRows

LEMMA TickRows ==
  ASSUME SessionPart, StoreTick
  PROVE  SessionPart'
<1>1. /\ idle' = [t \in Tokens |-> Less(idle[t])]
      /\ absolute' = [t \in Tokens |-> Less(absolute[t])]
      /\ age' = [t \in Tokens |->
           IF owner[t] # None /\ age[t] < AbsoluteTTL THEN age[t] + 1 ELSE age[t]]
      /\ issued' = issued /\ owner' = owner /\ born' = born /\ era' = era
  BY DEF StoreTick, userVars
<1>2. ASSUME NEW t \in Tokens
      PROVE  /\ idle[t] \in Nat /\ idle[t] <= IdleTTL
             /\ absolute[t] \in Nat /\ absolute[t] <= AbsoluteTTL
             /\ age[t] \in Nat /\ age[t] <= AbsoluteTTL
  BY Numbers DEF SessionPart, SessionTypes
<1>3. ASSUME NEW t \in Tokens
      PROVE  /\ idle'[t] \in 0 .. IdleTTL
             /\ absolute'[t] \in 0 .. AbsoluteTTL
             /\ age'[t] \in 0 .. AbsoluteTTL
  BY <1>1, <1>2, Numbers DEF Less
<1>4. SessionTypes'
  BY <1>1, <1>3 DEF SessionPart, SessionTypes
<1>5. ASSUME NEW t \in Tokens, owner[t] # None
      PROVE  absolute'[t] + age'[t] <= AbsoluteTTL
  <2>1. absolute[t] + age[t] <= AbsoluteTTL
    BY <1>5 DEF SessionPart, RowsAreTrue
  <2> QED
    BY <1>1, <1>2, <1>5, <2>1, Numbers DEF Less
<1>6. ASSUME NEW t \in Tokens, owner[t] = None
      PROVE  age'[t] = 0
  BY <1>1, <1>6 DEF SessionPart, RowsAreTrue
<1> QED
  BY <1>1, <1>4, <1>5, <1>6 DEF SessionPart, RowsAreTrue

-----------------------------------------------------------------------------
(* What each step does to the accounts and the setup.                      *)

LEMMA UsersStay == UserPart /\ UNCHANGED userVars => UserPart'
  BY DEF UserPart, UserTypes, UsersAreTrue, userVars

LEMMA SetupStays ==
  SetupPart /\ UNCHANGED setupVars /\ UNCHANGED <<role, status>> => SetupPart'
  BY DEF SetupPart, SetupTypes, SetupIsWhole, setupVars

\* The administrator is left alone by what is done to a user.
LEMMA AdminStays ==
  ASSUME SetupPart, UserPart, NEW u \in Users, role[u] # "admin",
         UNCHANGED setupVars,
         role' \in [Users -> {"none", "admin", "user"}], role'[u] # "admin",
         \A x \in Users \ {u} : role'[x] = role[x] /\ status'[x] = status[x]
  PROVE  SetupPart'
<1>1. {x \in Users : role'[x] = "admin"} = {x \in Users : role[x] = "admin"}
  OBVIOUS
<1>2. SetupTypes'
  BY DEF SetupPart, SetupTypes, setupVars
<1>3. complete' = complete /\ settings' = settings /\ setupToken' = setupToken
  BY DEF setupVars
<1>4. ASSUME NEW x \in Users, role[x] = "admin"
      PROVE  status'[x] = status[x]
  BY <1>4
<1>5. SetupIsWhole'
  BY <1>1, <1>3, <1>4 DEF SetupPart, SetupIsWhole
<1> QED
  BY <1>2, <1>5 DEF SetupPart

LEMMA CreateUserParts ==
  ASSUME UserPart, SessionPart, SetupPart, NEW u \in Users, CreateUser(u)
  PROVE  UserPart' /\ SessionPart' /\ SetupPart'
<1>1. /\ role[u] = "none" /\ role' = [role EXCEPT ![u] = "user"]
      /\ status' = status /\ password' = password /\ era' = era
      /\ UNCHANGED sessionVars /\ UNCHANGED setupVars
  BY DEF CreateUser, Exists
<1>2. /\ role' \in [Users -> {"none", "admin", "user"}] /\ role'[u] = "user"
      /\ \A x \in Users \ {u} : role'[x] = role[x]
  BY <1>1 DEF UserPart, UserTypes
<1>3. UserPart'
  BY <1>1, <1>2 DEF UserPart, UserTypes, UsersAreTrue
<1>4. SetupPart'
  BY <1>1, <1>2, AdminStays
<1> QED
  BY <1>1, <1>3, <1>4, SessionsStay

LEMMA EnableUserParts ==
  ASSUME UserPart, SessionPart, SetupPart, NEW u \in Users, EnableUser(u)
  PROVE  UserPart' /\ SessionPart' /\ SetupPart'
<1>1. /\ role[u] = "user" /\ status' = [status EXCEPT ![u] = "active"]
      /\ role' = role /\ password' = password /\ era' = era
      /\ UNCHANGED sessionVars /\ UNCHANGED setupVars
  BY DEF EnableUser
<1>2. /\ status' \in [Users -> {"active", "disabled", "deleted"}]
      /\ \A x \in Users \ {u} : status'[x] = status[x]
  BY <1>1 DEF UserPart, UserTypes
<1>3. UserPart'
  BY <1>1, <1>2 DEF UserPart, UserTypes, UsersAreTrue
<1>4. SetupPart'
  BY <1>1, <1>2, AdminStays DEF UserPart, UserTypes
<1> QED
  BY <1>1, <1>3, <1>4, SessionsStay

\* Disabling and deleting.
LEMMA LockOutParts ==
  ASSUME UserPart, SessionPart, SetupPart, NEW u \in Users,
         DisableUser(u) \/ DeleteUser(u)
  PROVE  UserPart' /\ SessionPart' /\ SetupPart'
<1>1. PICK s \in {"disabled", "deleted"} :
        /\ role[u] = "user" /\ status' = [status EXCEPT ![u] = s]
        /\ Revoke(u) /\ role' = role /\ password' = password
        /\ UNCHANGED setupVars
  BY DEF DisableUser, DeleteUser
<1>2. /\ status' \in [Users -> {"active", "disabled", "deleted"}]
      /\ \A x \in Users \ {u} : status'[x] = status[x]
  BY <1>1 DEF UserPart, UserTypes
<1>3. /\ SessionPart' /\ era' = [era EXCEPT ![u] = @ + 1]
      /\ era' \in [Users -> 0 .. MaxEras]
  BY <1>1, RevokeRows
<1>4. \A x \in Users : password[x] <= era'[x]
  BY <1>3, Numbers DEF UserPart, UserTypes, UsersAreTrue
<1>5. UserPart'
  BY <1>1, <1>2, <1>3, <1>4 DEF UserPart, UserTypes, UsersAreTrue
<1>6. SetupPart'
  BY <1>1, <1>2, AdminStays DEF UserPart, UserTypes
<1> QED
  BY <1>3, <1>5, <1>6

LEMMA SetUserPasswordParts ==
  ASSUME UserPart, SessionPart, SetupPart, NEW u \in Users, SetUserPassword(u)
  PROVE  UserPart' /\ SessionPart' /\ SetupPart'
<1>1. /\ password' = [password EXCEPT ![u] = @ + 1] /\ Revoke(u)
      /\ role' = role /\ status' = status /\ UNCHANGED setupVars
  BY DEF SetUserPassword
<1>2. /\ SessionPart' /\ era' = [era EXCEPT ![u] = @ + 1]
      /\ era' \in [Users -> 0 .. MaxEras]
  BY <1>1, RevokeRows
<1>3. \A x \in Users : password'[x] \in Nat /\ password'[x] <= era'[x]
  BY <1>1, <1>2, Numbers DEF UserPart, UserTypes, UsersAreTrue
<1>4. password' \in [Users -> 0 .. MaxEras]
  BY <1>1, <1>2, <1>3, Numbers DEF UserPart, UserTypes
<1>5. UserPart'
  BY <1>1, <1>2, <1>3, <1>4 DEF UserPart, UserTypes, UsersAreTrue
<1> QED
  BY <1>1, <1>2, <1>5, SetupStays

LEMMA CompleteSetupParts ==
  ASSUME UserPart, SessionPart, SetupPart, NEW s, NEW u \in Users,
         CompleteSetup(s, u)
  PROVE  UserPart' /\ SessionPart' /\ SetupPart'
<1>1. /\ ~complete /\ role[u] = "none" /\ role' = [role EXCEPT ![u] = "admin"]
      /\ settings' = TRUE /\ complete' = TRUE /\ setupToken' = None
      /\ setupLeft' = 0
      /\ status' = status /\ password' = password /\ era' = era
      /\ UNCHANGED sessionVars
  BY DEF CompleteSetup, TokenAccepted, Exists
<1>2. /\ role' \in [Users -> {"none", "admin", "user"}] /\ role'[u] = "admin"
      /\ \A x \in Users \ {u} : role'[x] = role[x]
  BY <1>1 DEF UserPart, UserTypes
<1>3. UserPart'
  BY <1>1, <1>2 DEF UserPart, UserTypes, UsersAreTrue
<1>4. {x \in Users : role[x] = "admin"} = {}
  BY <1>1 DEF SetupPart, SetupIsWhole
<1>5. {x \in Users : role'[x] = "admin"} = {u}
  BY <1>2, <1>4
<1>6. status'[u] = "active"
  BY <1>1 DEF UserPart, UsersAreTrue
<1>7. SetupIsWhole'
  BY <1>1, <1>5, <1>6 DEF SetupIsWhole
<1>8. SetupTypes'
  BY <1>1, Numbers DEF SetupTypes
<1> QED
  BY <1>1, <1>3, <1>7, <1>8, SessionsStay DEF SetupPart

-----------------------------------------------------------------------------
(* Requests, restarts and time.                                            *)

Parts == UserPart /\ SessionPart /\ SetupPart

LEMMA PartsStay == Parts /\ UNCHANGED storeVars => Parts'
  BY UsersStay, SessionsStay, SetupStays
     DEF Parts, storeVars, userVars, sessionVars, setupVars

LEMMA GoKnown ==
  ASSUME ClientsAreKnown, NEW c \in Clients, NEW step \in Steps,
         NEW u \in Users \cup {None}, NEW s, Go(c, step, u, s),
         step # "idle" => u \in Users
  PROVE  ClientsAreKnown'
  BY DEF ClientsAreKnown, Go

LEMMA FinishKnown ==
  ASSUME ClientsAreKnown, NEW c \in Clients, Finish(c)
  PROVE  ClientsAreKnown'
  BY GoKnown DEF Finish, Steps

LEMMA LoginStepInv ==
  ASSUME AccountsInv, NEW c \in Clients, LoginStep(c)
  PROVE  Parts' /\ ClientsAreKnown'
<1>1. ASSUME NEW u \in Users, NEW p, AdmitLogin(c, u, p)
      PROVE  Parts' /\ ClientsAreKnown'
  BY <1>1, PartsStay, GoKnown DEF AdmitLogin, AccountsInv, Parts, Steps
<1>2. ASSUME RecordLoginFailure(c)
      PROVE  Parts' /\ ClientsAreKnown'
  BY <1>2, PartsStay, FinishKnown DEF RecordLoginFailure, AccountsInv, Parts
<1>3. ASSUME ClearLoginFailures(c)
      PROVE  Parts' /\ ClientsAreKnown'
  <2>1. who[c] \in Users
    BY <1>3 DEF ClearLoginFailures, AccountsInv, ClientsAreKnown
  <2> QED
    BY <1>3, <2>1, PartsStay, GoKnown
       DEF ClearLoginFailures, AccountsInv, Parts, Steps
<1>4. ASSUME GrantSession(c)
      PROVE  Parts' /\ ClientsAreKnown'
  <2>1. who[c] \in Users /\ CreateSession(who[c]) /\ Finish(c)
    BY <1>4 DEF GrantSession, AccountsInv, ClientsAreKnown
  <2>2. SessionPart' /\ UNCHANGED userVars /\ UNCHANGED setupVars
    BY <2>1, CreateSessionRows DEF AccountsInv, CreateSession
  <2>3. UNCHANGED <<role, status>>
    BY <2>2 DEF userVars
  <2> QED
    BY <2>1, <2>2, <2>3, UsersStay, SetupStays, FinishKnown
       DEF AccountsInv, Parts
<1> QED
  BY <1>1, <1>2, <1>3, <1>4 DEF LoginStep

LEMMA AdministerParts ==
  ASSUME AccountsInv, NEW c \in Clients, NEW u \in Users, Administer(c, u)
  PROVE  Parts'
  BY CreateUserParts, EnableUserParts, LockOutParts, SetUserPasswordParts
     DEF Administer, AccountsInv, Parts

LEMMA SessionStepInv ==
  ASSUME AccountsInv, NEW c \in Clients, SessionStep(c)
  PROVE  Parts' /\ ClientsAreKnown'
<1>1. ASSUME NEW t \in Tokens, Authenticate(c, t)
      PROVE  Parts' /\ ClientsAreKnown'
  <2>1. /\ Renew(t) /\ Go(c, "signedIn", owner[t], t)
        /\ UNCHANGED userVars /\ UNCHANGED setupVars
    BY <1>1 DEF Authenticate, Renew
  <2>2. owner[t] \in Users
    BY <2>1 DEF Renew, Valid, AccountsInv, SessionPart, SessionTypes
  <2>3. UNCHANGED <<role, status>>
    BY <2>1 DEF userVars
  <2> QED
    BY <2>1, <2>2, <2>3, RenewRows, UsersStay, SetupStays, GoKnown
       DEF AccountsInv, Parts, Steps
<1>2. ASSUME NEW t \in Tokens, Reject(c, t)
      PROVE  Parts' /\ ClientsAreKnown'
  <2>1. /\ DropRows({t}) /\ UNCHANGED userVars /\ UNCHANGED setupVars
        /\ at' = at /\ who' = who
    BY <1>2 DEF Reject, Refuse
  <2>2. era' = era /\ UNCHANGED <<role, status>>
    BY <2>1 DEF userVars
  <2> QED
    BY <2>1, <2>2, DropRowsRows, UsersStay, SetupStays
       DEF AccountsInv, Parts, ClientsAreKnown
<1>3. ASSUME Logout(c)
      PROVE  Parts' /\ ClientsAreKnown'
  <2>1. /\ DropRows({secret[c]}) /\ UNCHANGED userVars /\ UNCHANGED setupVars
        /\ Finish(c)
    BY <1>3 DEF Logout, DeleteSession
  <2>2. era' = era /\ UNCHANGED <<role, status>>
    BY <2>1 DEF userVars
  <2> QED
    BY <2>1, <2>2, DropRowsRows, UsersStay, SetupStays, FinishKnown
       DEF AccountsInv, Parts
<1>4. ASSUME NEW p, ProvePassword(c, p)
      PROVE  Parts' /\ ClientsAreKnown'
  <2>1. who[c] \in Users
    BY <1>4 DEF ProvePassword, AccountsInv, ClientsAreKnown
  <2> QED
    BY <1>4, <2>1, PartsStay, GoKnown
       DEF ProvePassword, AccountsInv, Parts, Steps
<1>5. ASSUME ChangePassword(c)
      PROVE  Parts' /\ ClientsAreKnown'
  <2>1. who[c] \in Users
    BY <1>5 DEF ChangePassword, AccountsInv, ClientsAreKnown
  <2> QED
    BY <1>5, <2>1, SetUserPasswordParts, FinishKnown
       DEF ChangePassword, AccountsInv, Parts
<1>6. ASSUME NEW u \in Users, Administer(c, u)
      PROVE  Parts' /\ ClientsAreKnown'
  BY <1>6, AdministerParts, FinishKnown DEF Administer, AccountsInv
<1> QED
  BY <1>1, <1>2, <1>3, <1>4, <1>5, <1>6 DEF SessionStep

LEMMA SetupStepInv ==
  ASSUME AccountsInv, NEW c \in Clients, SetupStep(c)
  PROVE  Parts' /\ ClientsAreKnown'
<1>1. ASSUME NEW s, NEW u \in Users, ValidateSetup(c, s, u)
      PROVE  Parts' /\ ClientsAreKnown'
  BY <1>1, PartsStay, GoKnown DEF ValidateSetup, AccountsInv, Parts, Steps
<1>2. ASSUME FinishSetup(c)
      PROVE  Parts' /\ ClientsAreKnown'
  <2>1. who[c] \in Users
    BY <1>2 DEF FinishSetup, AccountsInv, ClientsAreKnown
  <2> QED
    BY <1>2, <2>1, CompleteSetupParts, FinishKnown
       DEF FinishSetup, AccountsInv, Parts
<1> QED
  BY <1>1, <1>2 DEF SetupStep

LEMMA RestartInv ==
  ASSUME AccountsInv, Restart
  PROVE  Parts' /\ ClientsAreKnown'
<1>1. /\ at' = [c \in Clients |-> "idle"] /\ who' = [c \in Clients |-> None]
      /\ UNCHANGED userVars /\ UNCHANGED sessionVars
      /\ IF complete THEN UNCHANGED setupVars ELSE SetSetupToken
  BY DEF Restart
<1>2. ClientsAreKnown'
  BY <1>1 DEF ClientsAreKnown, Steps
<1>3. era' = era /\ role' = role /\ status' = status
  BY <1>1 DEF userVars
<1>4. SetupPart'
  <2>1. CASE complete
    BY <1>1, <1>3, <2>1, SetupStays DEF AccountsInv
  <2>2. CASE ~complete
    <3>1. /\ setupToken' \in SetupTokens /\ setupLeft' = SetupTTL
          /\ complete' = complete /\ settings' = settings
      BY <1>1, <2>2 DEF SetSetupToken
    <3> QED
      BY <1>3, <2>2, <3>1, Numbers
         DEF AccountsInv, SetupPart, SetupTypes, SetupIsWhole
  <2> QED
    BY <2>1, <2>2
<1> QED
  BY <1>1, <1>2, <1>3, <1>4, UsersStay, SessionsStay DEF AccountsInv, Parts

LEMMA TickInv ==
  ASSUME AccountsInv, Tick
  PROVE  Parts' /\ ClientsAreKnown'
<1>1. /\ StoreTick /\ at' = at /\ who' = who /\ UNCHANGED userVars
      /\ setupToken' = setupToken /\ complete' = complete
      /\ settings' = settings /\ setupLeft' = Less(setupLeft)
  BY DEF Tick, StoreTick, clientVars
<1>2. setupLeft' \in 0 .. SetupTTL
  BY <1>1, Numbers DEF Less, AccountsInv, SetupPart, SetupTypes
<1>3. role' = role /\ status' = status
  BY <1>1 DEF userVars
<1>4. SetupPart'
  BY <1>1, <1>2, <1>3 DEF AccountsInv, SetupPart, SetupTypes, SetupIsWhole
<1> QED
  BY <1>1, <1>4, TickRows, UsersStay DEF AccountsInv, Parts, ClientsAreKnown

-----------------------------------------------------------------------------
LEMMA InitInv == Init => AccountsInv
<1> SUFFICES ASSUME Init PROVE AccountsInv
  OBVIOUS
<1>1. UserPart
  BY Numbers DEF Init, StoreInit, UserPart, UserTypes, UsersAreTrue
<1>2. SessionPart
  BY Numbers DEF Init, StoreInit, SessionPart, SessionTypes, RowsAreTrue
<1>3. SetupPart
  <2>1. /\ setupToken \in SetupTokens /\ setupLeft = SetupTTL
        /\ complete = FALSE /\ settings = FALSE
    BY DEF Init, StoreInit
  <2>2. {u \in Users : role[u] = "admin"} = {}
    BY DEF Init, StoreInit
  <2>3. SetupTypes
    <3>1. complete \in BOOLEAN /\ settings \in BOOLEAN
      BY <2>1
    <3>2. setupLeft \in 0 .. SetupTTL
      BY <2>1, Numbers
    <3> QED
      BY <2>1, <3>1, <3>2 DEF SetupTypes
  <2>4. SetupIsWhole
    BY <2>1, <2>2, Numbers DEF SetupIsWhole
  <2> QED
    BY <2>3, <2>4 DEF SetupPart
<1>4. ClientsAreKnown
  BY DEF Init, ClientsAreKnown, Steps
<1> QED
  BY <1>1, <1>2, <1>3, <1>4 DEF AccountsInv

LEMMA NextInv == AccountsInv /\ [Next]_vars => AccountsInv'
<1> SUFFICES ASSUME AccountsInv, [Next]_vars PROVE Parts' /\ ClientsAreKnown'
  BY DEF AccountsInv, Parts
<1>1. ASSUME NEW c \in Clients, LoginStep(c) \/ SessionStep(c) \/ SetupStep(c)
      PROVE  Parts' /\ ClientsAreKnown'
  BY <1>1, LoginStepInv, SessionStepInv, SetupStepInv
<1>2. ASSUME NEW c \in Clients, GiveUp(c)
      PROVE  Parts' /\ ClientsAreKnown'
  BY <1>2, PartsStay, FinishKnown DEF GiveUp, AccountsInv, Parts
<1>3. CASE UNCHANGED vars
  <2>1. UNCHANGED storeVars /\ at' = at /\ who' = who
    BY <1>3 DEF vars
  <2> QED
    BY <2>1, PartsStay DEF AccountsInv, Parts, ClientsAreKnown
<1> QED
  BY <1>1, <1>2, <1>3, RestartInv, TickInv DEF Next

LEMMA InvHolds == Spec => []AccountsInv
  BY InitInv, NextInv, PTL DEF Spec

-----------------------------------------------------------------------------
(* The login throttle.                                                     *)

\* Requests for the name u that were let in and have not been verified.
Admitted(u) == {c \in Clients : at[c] = "admitted" /\ who[c] = u}

OldestFirst(ages) ==
  \A i, j \in 1 .. Len(ages) : i <= j => ages[j] <= ages[i]

\* A request is let in while there are fewer failures than the limit, and each
\* one that was let in may add one.
WithinLimit(u) ==
  Len(loginFails[u]) + Cardinality(Admitted(u))
    <= Limit - 1 + Cardinality(Clients)

Ages == 0 .. Window - 1

ThrottlePart ==
  /\ secret \in [Clients -> Secrets]
  /\ loginFails \in [Users -> Seq(Ages)]
  /\ \A u \in Users : OldestFirst(loginFails[u]) /\ WithinLimit(u)

ThrottleInv == AccountsInv /\ ThrottlePart

LEMMA ThrottleNumbers ==
  /\ Limit \in Nat /\ 0 < Limit /\ Window \in Nat /\ 0 < Window
  /\ IsFiniteSet(Clients) /\ Cardinality(Clients) \in Nat
  BY ThrottleConstants, FS_CardinalityType

LEMMA Counts ==
  ASSUME NEW S \in SUBSET Clients, NEW T \in SUBSET S
  PROVE  /\ Cardinality(S) \in Nat /\ Cardinality(T) \in Nat
         /\ Cardinality(T) <= Cardinality(S)
         /\ Cardinality(S) <= Cardinality(Clients)
<1>1. IsFiniteSet(S) /\ Cardinality(S) <= Cardinality(Clients)
  BY ThrottleNumbers, FS_Subset
<1>2. IsFiniteSet(T) /\ Cardinality(T) <= Cardinality(S)
  BY <1>1, FS_Subset
<1> QED
  BY <1>1, <1>2, FS_CardinalityType

\* A new failure is the youngest.
LEMMA Appended ==
  ASSUME NEW ages \in Seq(Ages), OldestFirst(ages)
  PROVE  /\ Append(ages, 0) \in Seq(Ages) /\ OldestFirst(Append(ages, 0))
         /\ Len(Append(ages, 0)) = Len(ages) + 1
<1> DEFINE longer == Append(ages, 0)
<1>1. 0 \in Ages /\ Ages \subseteq Nat
  BY ThrottleNumbers DEF Ages
<1>2. /\ longer \in Seq(Ages) /\ Len(longer) = Len(ages) + 1
      /\ \A i \in 1 .. Len(ages) : longer[i] = ages[i]
      /\ longer[Len(ages) + 1] = 0
  BY <1>1, AppendProperties
<1>3. Len(ages) \in Nat /\ \A i \in 1 .. Len(ages) : ages[i] \in Nat
  BY <1>1, LenProperties, ElementOfSeq
<1> HIDE DEF longer
<1>4. OldestFirst(longer)
  <2> SUFFICES ASSUME NEW i \in 1 .. Len(longer), NEW j \in 1 .. Len(longer),
                      i <= j
               PROVE  longer[j] <= longer[i]
    BY DEF OldestFirst
  <2>1. CASE j \in 1 .. Len(ages)
    <3>1. i \in 1 .. Len(ages)
      BY <1>3, <2>1
    <3> QED
      BY <1>2, <2>1, <3>1 DEF OldestFirst
  <2>2. CASE j = Len(ages) + 1
    BY <1>2, <1>3, <2>2
  <2> QED
    BY <1>2, <1>3, <2>1, <2>2
<1> QED
  BY <1>2, <1>4 DEF longer

\* In a list in order of time, the failures out of the window are its head, so
\* all that stay are inside.
LEMMA AgedInOrder ==
  ASSUME NEW ages \in Seq(Ages), OldestFirst(ages)
  PROVE  /\ Aged(ages) \in Seq(Ages) /\ OldestFirst(Aged(ages))
         /\ Len(Aged(ages)) <= Len(ages)
<1> DEFINE gone == {i \in 1 .. Len(ages) : ages[i] + 1 >= Window}
           n == Cardinality(gone)
           kept == [i \in 1 .. Len(ages) - n |-> ages[i + n] + 1]
<1>1. Len(ages) \in Nat /\ \A i \in 1 .. Len(ages) : ages[i] \in Ages
  BY LenProperties, ElementOfSeq
<1>2. n \in Nat /\ n <= Len(ages) /\ IsFiniteSet(gone)
  <2>1. /\ IsFiniteSet(1 .. Len(ages))
        /\ Cardinality(1 .. Len(ages)) = Len(ages)
    <3>1. 1 \in Int /\ Len(ages) \in Int
      BY <1>1
    <3>2. /\ IsFiniteSet(1 .. Len(ages))
          /\ Cardinality(1 .. Len(ages))
               = IF 1 > Len(ages) THEN 0 ELSE Len(ages) - 1 + 1
      BY <3>1, FS_Interval
    <3> HIDE DEF gone, n, kept
    <3> QED
      BY <1>1, <3>2
  <2>2. gone \in SUBSET (1 .. Len(ages))
    OBVIOUS
  <2> HIDE DEF gone
  <2>3. IsFiniteSet(gone) /\ Cardinality(gone) <= Len(ages)
    BY <2>1, <2>2, FS_Subset
  <2> QED
    BY <2>3, FS_CardinalityType
<1>3. ASSUME NEW i \in 1 .. Len(ages), i > n PROVE ages[i] + 1 < Window
  <2> SUFFICES ASSUME i \in gone PROVE FALSE
    BY <1>1, ThrottleNumbers DEF Ages
  <2>1. \A k \in 1 .. i : k \in gone
    <3> TAKE k \in 1 .. i
    <3>1. k \in 1 .. Len(ages) /\ ages[i] <= ages[k] /\ ages[i] + 1 >= Window
      BY <1>1 DEF OldestFirst
    <3> QED
      BY <1>1, <3>1, ThrottleNumbers DEF Ages
  <2>2. 1 .. i \in SUBSET gone
    BY <2>1
  <2>3. Cardinality(1 .. i) = i
    <3>1. 1 \in Int /\ i \in Int /\ ~(1 > i) /\ i - 1 + 1 = i
      BY <1>1
    <3> QED
      BY <3>1, FS_Interval
  <2> HIDE DEF gone
  <2>4. Cardinality(1 .. i) <= Cardinality(gone)
    BY <1>2, <2>2, FS_Subset
  <2> QED
    BY <1>1, <1>2, <1>3, <2>3, <2>4
<1>4. Aged(ages) = kept
  BY DEF Aged, Without
<1> HIDE DEF gone, n
<1>5. \A i \in 1 .. Len(ages) - n : kept[i] = ages[i + n] + 1
  OBVIOUS
<1>6. \A i \in 1 .. Len(ages) - n : kept[i] \in Ages
  <2> TAKE i \in 1 .. Len(ages) - n
  <2>1. i + n \in 1 .. Len(ages) /\ i + n > n
    BY <1>1, <1>2
  <2>2. ages[i + n] \in Ages /\ ages[i + n] + 1 < Window
    BY <1>1, <1>3, <2>1
  <2> QED
    BY <1>5, <2>2, ThrottleNumbers DEF Ages
<1>7. kept \in Seq(Ages) /\ Len(kept) = Len(ages) - n
  <2>1. Len(ages) - n \in Nat
    BY <1>1, <1>2
  <2>2. kept \in [1 .. Len(ages) - n -> Ages]
    BY <1>6
  <2> HIDE DEF kept
  <2> QED
    BY <2>1, <2>2
<1>8. OldestFirst(kept)
  <2> HIDE DEF kept
  <2> SUFFICES ASSUME NEW i \in 1 .. Len(kept), NEW j \in 1 .. Len(kept),
                      i <= j
               PROVE  kept[j] <= kept[i]
    BY DEF OldestFirst
  <2>1. /\ i + n \in 1 .. Len(ages) /\ j + n \in 1 .. Len(ages)
        /\ i + n <= j + n
    BY <1>1, <1>2, <1>7
  <2>2. ages[j + n] <= ages[i + n]
    BY <2>1 DEF OldestFirst
  <2>3. ages[j + n] \in Nat /\ ages[i + n] \in Nat
    BY <1>1, <2>1, ThrottleNumbers DEF Ages
  <2> QED
    BY <1>5, <1>7, <2>2, <2>3
<1> HIDE DEF kept
<1> QED
  BY <1>1, <1>2, <1>4, <1>7, <1>8

\* A step that lets nobody in and adds no failure.
LEMMA LimitStays ==
  ASSUME ThrottlePart, NEW u \in Users, Admitted(u)' \subseteq Admitted(u),
         Len(loginFails'[u]) \in Nat,
         Len(loginFails'[u]) <= Len(loginFails[u])
  PROVE  WithinLimit(u)'
<1>1. /\ Cardinality(Admitted(u)') \in Nat /\ Cardinality(Admitted(u)) \in Nat
      /\ Cardinality(Admitted(u)') <= Cardinality(Admitted(u))
  <2>1. Admitted(u) \in SUBSET Clients /\ Admitted(u)' \in SUBSET Admitted(u)
    BY DEF Admitted
  <2> QED
    BY <2>1, Counts
<1>2. /\ Len(loginFails[u]) \in Nat
      /\ Len(loginFails[u]) + Cardinality(Admitted(u))
           <= Limit - 1 + Cardinality(Clients)
  BY LenProperties DEF ThrottlePart, WithinLimit
<1>3. Len(loginFails'[u]) + Cardinality(Admitted(u)')
        <= Limit - 1 + Cardinality(Clients)
  BY <1>1, <1>2, ThrottleNumbers
<1> QED
  BY <1>3 DEF WithinLimit

\* A client goes to a step that is not a login's.
LEMMA GoesElsewhere ==
  ASSUME AccountsInv, ThrottlePart, NEW c \in Clients, NEW step \in Steps,
         NEW u, NEW s \in Secrets, Go(c, step, u, s), step # "admitted"
  PROVE  /\ secret' \in [Clients -> Secrets]
         /\ \A v \in Users : Admitted(v)' \subseteq Admitted(v) \ {c}
<1>1. /\ at' = [at EXCEPT ![c] = step] /\ who' = [who EXCEPT ![c] = u]
      /\ secret' = [secret EXCEPT ![c] = s]
  BY DEF Go
<1>2. secret' \in [Clients -> Secrets]
  BY <1>1 DEF ThrottlePart
<1>3. \A d \in Clients : /\ d = c => at'[d] # "admitted"
                         /\ d # c => at'[d] = at[d] /\ who'[d] = who[d]
  BY <1>1 DEF AccountsInv, ClientsAreKnown
<1> QED
  BY <1>2, <1>3 DEF Admitted

LEMMA ListsStay ==
  ASSUME ThrottlePart, UNCHANGED loginFails, secret' \in [Clients -> Secrets],
         \A v \in Users : Admitted(v)' \subseteq Admitted(v)
  PROVE  ThrottlePart'
<1>1. ASSUME NEW v \in Users PROVE WithinLimit(v)'
  <2>1. Len(loginFails[v]) \in Nat /\ loginFails'[v] = loginFails[v]
    BY LenProperties DEF ThrottlePart
  <2> QED
    BY <2>1, LimitStays
<1> QED
  BY <1>1 DEF ThrottlePart, OldestFirst

LEMMA AdmitLoginThrottle ==
  ASSUME ThrottleInv, NEW c \in Clients, NEW u \in Users,
         NEW p \in 0 .. MaxEras, AdmitLogin(c, u, p)
  PROVE  ThrottlePart'
<1>1. /\ at' = [at EXCEPT ![c] = "admitted"] /\ who' = [who EXCEPT ![c] = u]
      /\ secret' = [secret EXCEPT ![c] = p] /\ loginFails' = loginFails
      /\ ~(Len(loginFails[u]) >= Limit)
  BY DEF AdmitLogin, Go, Blocked
<1>2. secret' \in [Clients -> Secrets]
  BY <1>1 DEF ThrottleInv, ThrottlePart, Secrets
<1>3. WithinLimit(u)'
  <2>1. Len(loginFails[u]) \in Nat
    BY LenProperties DEF ThrottleInv, ThrottlePart
  <2>2. Admitted(u)' \in SUBSET Clients
    BY DEF Admitted
  <2>3. /\ Cardinality(Admitted(u)') \in Nat
        /\ Cardinality(Admitted(u)') <= Cardinality(Clients)
    BY <2>2, Counts
  <2>4. Len(loginFails'[u]) + Cardinality(Admitted(u)')
          <= Limit - 1 + Cardinality(Clients)
    BY <1>1, <2>1, <2>3, ThrottleNumbers
  <2> QED
    BY <2>4 DEF WithinLimit
<1>4. ASSUME NEW v \in Users \ {u} PROVE WithinLimit(v)'
  <2>1. Len(loginFails[v]) \in Nat /\ loginFails'[v] = loginFails[v]
    BY <1>1, LenProperties DEF ThrottleInv, ThrottlePart
  <2>2. Admitted(v)' \subseteq Admitted(v)
    BY <1>1 DEF Admitted, ThrottleInv, AccountsInv, ClientsAreKnown
  <2> QED
    BY <2>1, <2>2, LimitStays DEF ThrottleInv
<1> QED
  BY <1>1, <1>2, <1>3, <1>4 DEF ThrottleInv, ThrottlePart, OldestFirst

\* The request that records a failure is one of those let in.
LEMMA RecordLoginFailureThrottle ==
  ASSUME ThrottleInv, NEW c \in Clients, RecordLoginFailure(c)
  PROVE  ThrottlePart'
<1>1. at[c] = "admitted" /\ Finish(c)
  BY DEF RecordLoginFailure
<1>2. PICK u \in Users : /\ u = who[c]
                         /\ loginFails' = [loginFails EXCEPT ![u] = Append(@, 0)]
  BY <1>1 DEF RecordLoginFailure, ThrottleInv, AccountsInv, ClientsAreKnown
<1>3. /\ secret' \in [Clients -> Secrets]
      /\ \A v \in Users : Admitted(v)' \subseteq Admitted(v) \ {c}
  BY <1>1, GoesElsewhere DEF Finish, ThrottleInv, Steps, Secrets
<1>4. /\ loginFails[u] \in Seq(Ages) /\ OldestFirst(loginFails[u])
      /\ WithinLimit(u)
  BY <1>2 DEF ThrottleInv, ThrottlePart
<1>5. /\ loginFails'[u] = Append(loginFails[u], 0)
      /\ \A v \in Users \ {u} : loginFails'[v] = loginFails[v]
  BY <1>2 DEF ThrottleInv, ThrottlePart
<1>6. /\ loginFails'[u] \in Seq(Ages) /\ OldestFirst(loginFails'[u])
      /\ Len(loginFails'[u]) = Len(loginFails[u]) + 1
  BY <1>4, <1>5, Appended
<1>7. loginFails' \in [Users -> Seq(Ages)]
  BY <1>2, <1>4, Appended DEF ThrottleInv, ThrottlePart
<1>8. WithinLimit(u)'
  <2>1. /\ Admitted(u) \in SUBSET Clients /\ c \in Admitted(u)
        /\ Admitted(u)' \in SUBSET (Admitted(u) \ {c})
        /\ Admitted(u) \ {c} \in SUBSET Clients
    BY <1>1, <1>2, <1>3 DEF Admitted
  <2>2. Cardinality(Admitted(u) \ {c}) = Cardinality(Admitted(u)) - 1
    <3>1. IsFiniteSet(Admitted(u))
      BY <2>1, ThrottleNumbers, FS_Subset
    <3> QED
      BY <2>1, <3>1, FS_RemoveElement
  <2>3. /\ Cardinality(Admitted(u)') \in Nat
        /\ Cardinality(Admitted(u)') <= Cardinality(Admitted(u) \ {c})
    BY <2>1, Counts
  <2>4. Cardinality(Admitted(u)) \in Nat
    BY <2>1, Counts
  <2>5. Len(loginFails[u]) \in Nat
    BY <1>4, LenProperties
  <2>6. Len(loginFails[u]) + Cardinality(Admitted(u))
          <= Limit - 1 + Cardinality(Clients)
    BY <1>4 DEF WithinLimit
  <2>7. Len(loginFails'[u]) + Cardinality(Admitted(u)')
          <= Limit - 1 + Cardinality(Clients)
    BY <1>6, <2>2, <2>3, <2>4, <2>5, <2>6, ThrottleNumbers
  <2> QED
    BY <2>7 DEF WithinLimit
<1>9. ASSUME NEW v \in Users \ {u}
      PROVE  OldestFirst(loginFails'[v]) /\ WithinLimit(v)'
  <2>1. /\ Len(loginFails[v]) \in Nat /\ OldestFirst(loginFails[v])
        /\ loginFails'[v] = loginFails[v]
    BY <1>5, LenProperties DEF ThrottleInv, ThrottlePart
  <2> QED
    BY <1>3, <2>1, LimitStays DEF ThrottleInv
<1> QED
  BY <1>3, <1>6, <1>7, <1>8, <1>9 DEF ThrottlePart, OldestFirst

LEMMA ClearLoginFailuresThrottle ==
  ASSUME ThrottleInv, NEW c \in Clients, ClearLoginFailures(c)
  PROVE  ThrottlePart'
<1> DEFINE u == who[c]
<1>1. /\ at[c] = "admitted" /\ Go(c, "cleared", u, secret[c])
      /\ loginFails' = [loginFails EXCEPT ![u] = <<>>]
  BY DEF ClearLoginFailures
<1>2. u \in Users /\ secret[c] \in Secrets
  BY <1>1 DEF ThrottleInv, ThrottlePart, AccountsInv, ClientsAreKnown
<1>3. /\ secret' \in [Clients -> Secrets]
      /\ \A v \in Users : Admitted(v)' \subseteq Admitted(v) \ {c}
  BY <1>1, <1>2, GoesElsewhere DEF ThrottleInv, Steps
<1>4. /\ loginFails' \in [Users -> Seq(Ages)]
      /\ loginFails'[u] = <<>>
      /\ \A v \in Users \ {u} : loginFails'[v] = loginFails[v]
  BY <1>1, <1>2, EmptySeq DEF ThrottleInv, ThrottlePart
<1>5. ASSUME NEW v \in Users
      PROVE  OldestFirst(loginFails'[v]) /\ WithinLimit(v)'
  <2>1. Len(loginFails[v]) \in Nat /\ OldestFirst(loginFails[v])
    BY LenProperties DEF ThrottleInv, ThrottlePart
  <2>2. CASE v = u
    <3>1. loginFails'[v] = <<>> /\ Len(<<>>) = 0
      BY <1>4, <2>2
    <3> QED
      BY <1>3, <2>1, <3>1, LimitStays DEF ThrottleInv, OldestFirst
  <2>3. CASE v # u
    BY <1>3, <1>4, <2>1, <2>3, LimitStays DEF ThrottleInv
  <2> QED
    BY <2>2, <2>3
<1> HIDE DEF u
<1> QED
  BY <1>3, <1>4, <1>5 DEF ThrottlePart, OldestFirst

\* Every other step of a client leaves the throttle to itself.
LEMMA OtherStepsThrottle ==
  ASSUME ThrottleInv, NEW c \in Clients,
         \/ GrantSession(c) \/ SessionStep(c) \/ SetupStep(c) \/ GiveUp(c)
  PROVE  ThrottlePart'
<1>1. None \in Secrets
  BY DEF Secrets
<1>2. ASSUME NEW step \in Steps, NEW u, NEW s \in Secrets, Go(c, step, u, s),
             step # "admitted", UNCHANGED loginFails
      PROVE  ThrottlePart'
  <2>1. /\ secret' \in [Clients -> Secrets]
        /\ \A v \in Users : Admitted(v)' \subseteq Admitted(v) \ {c}
    BY <1>2, GoesElsewhere DEF ThrottleInv
  <2> QED
    BY <1>2, <2>1, ListsStay DEF ThrottleInv
<1>3. CASE Finish(c) /\ UNCHANGED loginFails
  BY <1>1, <1>2, <1>3 DEF Finish, Steps
<1>4. CASE GrantSession(c) \/ GiveUp(c) \/ FinishSetup(c)
  BY <1>3, <1>4 DEF GrantSession, GiveUp, FinishSetup
<1>5. CASE SessionStep(c)
  <2>1. ASSUME NEW t \in Tokens, Authenticate(c, t) PROVE ThrottlePart'
    BY <1>2, <2>1 DEF Authenticate, Secrets, Steps
  <2>2. ASSUME NEW t \in Tokens, Reject(c, t) PROVE ThrottlePart'
    <3>1. UNCHANGED <<at, who, secret, loginFails>>
      BY <2>2 DEF Reject
    <3> QED
      BY <3>1, ListsStay DEF ThrottleInv, ThrottlePart, Admitted
  <2>3. ASSUME NEW p, ProvePassword(c, p) PROVE ThrottlePart'
    BY <1>1, <1>2, <2>3 DEF ProvePassword, Steps
  <2>4. ASSUME \/ Logout(c) \/ ChangePassword(c)
               \/ \E u \in Users : Administer(c, u)
        PROVE  ThrottlePart'
    BY <1>3, <2>4 DEF Logout, ChangePassword, Administer
  <2> QED
    BY <1>5, <2>1, <2>2, <2>3, <2>4 DEF SessionStep
<1>6. ASSUME NEW s \in SetupTokens, NEW u \in Users, ValidateSetup(c, s, u)
      PROVE  ThrottlePart'
  BY <1>2, <1>6 DEF ValidateSetup, Secrets, Steps
<1> QED
  BY <1>4, <1>5, <1>6 DEF SetupStep

LEMMA RestartThrottle ==
  ASSUME ThrottleInv, Restart
  PROVE  ThrottlePart'
<1>1. /\ at' = [c \in Clients |-> "idle"]
      /\ secret' = [c \in Clients |-> None]
      /\ loginFails' = [u \in Users |-> <<>>]
  BY DEF Restart
<1>2. secret' \in [Clients -> Secrets]
  BY <1>1 DEF Secrets
<1>3. loginFails' \in [Users -> Seq(Ages)]
  BY <1>1, EmptySeq
<1>4. ASSUME NEW v \in Users
      PROVE  OldestFirst(loginFails'[v]) /\ WithinLimit(v)'
  <2>1. loginFails'[v] = <<>> /\ Len(<<>>) = 0
    BY <1>1
  <2>2. Admitted(v)' = {}
    BY <1>1 DEF Admitted
  <2>3. Len(loginFails[v]) \in Nat
    BY LenProperties DEF ThrottleInv, ThrottlePart
  <2> QED
    BY <2>1, <2>2, <2>3, LimitStays DEF ThrottleInv, OldestFirst
<1> QED
  BY <1>2, <1>3, <1>4 DEF ThrottlePart, OldestFirst

LEMMA TickThrottle ==
  ASSUME ThrottleInv, Tick
  PROVE  ThrottlePart'
<1>1. /\ UNCHANGED <<at, who, secret>>
      /\ loginFails' = [u \in Users |-> Aged(loginFails[u])]
  BY DEF Tick, clientVars
<1>2. ASSUME NEW v \in Users
      PROVE  /\ loginFails'[v] \in Seq(Ages) /\ OldestFirst(loginFails'[v])
             /\ WithinLimit(v)'
  <2>1. loginFails[v] \in Seq(Ages) /\ OldestFirst(loginFails[v])
    BY DEF ThrottleInv, ThrottlePart
  <2>2. /\ loginFails'[v] \in Seq(Ages) /\ OldestFirst(loginFails'[v])
        /\ Len(loginFails'[v]) <= Len(loginFails[v])
    BY <1>1, <2>1, AgedInOrder
  <2>3. Len(loginFails'[v]) \in Nat
    BY <2>2, LenProperties
  <2>4. Admitted(v)' \subseteq Admitted(v)
    BY <1>1 DEF Admitted
  <2> QED
    BY <2>2, <2>3, <2>4, LimitStays DEF ThrottleInv
<1>3. loginFails' \in [Users -> Seq(Ages)]
  BY <1>1, <1>2
<1>4. secret' \in [Clients -> Secrets]
  BY <1>1 DEF ThrottleInv, ThrottlePart
<1> QED
  BY <1>2, <1>3, <1>4 DEF ThrottlePart, OldestFirst

LEMMA ThrottleInit == Init => ThrottlePart
<1> SUFFICES ASSUME Init PROVE ThrottlePart
  OBVIOUS
<1>1. secret \in [Clients -> Secrets]
  BY DEF Init, Secrets
<1>2. loginFails \in [Users -> Seq(Ages)]
  BY EmptySeq DEF Init
<1>3. ASSUME NEW v \in Users
      PROVE  OldestFirst(loginFails[v]) /\ WithinLimit(v)
  <2>1. loginFails[v] = <<>> /\ Len(<<>>) = 0
    BY DEF Init
  <2>2. Admitted(v) = {}
    BY DEF Init, Admitted
  <2>3. Cardinality(Admitted(v)) = 0
    BY <2>2, FS_EmptySet
  <2>4. Len(loginFails[v]) + Cardinality(Admitted(v))
          <= Limit - 1 + Cardinality(Clients)
    BY <2>1, <2>3, ThrottleNumbers
  <2> QED
    BY <2>1, <2>4 DEF WithinLimit, OldestFirst
<1> QED
  BY <1>1, <1>2, <1>3 DEF ThrottlePart

LEMMA ThrottleNext == ThrottleInv /\ [Next]_vars => ThrottlePart'
<1> SUFFICES ASSUME ThrottleInv, [Next]_vars PROVE ThrottlePart'
  OBVIOUS
<1>1. ASSUME NEW c \in Clients, LoginStep(c) PROVE ThrottlePart'
  BY <1>1, AdmitLoginThrottle, RecordLoginFailureThrottle,
     ClearLoginFailuresThrottle, OtherStepsThrottle DEF LoginStep
<1>2. ASSUME NEW c \in Clients, SessionStep(c) \/ SetupStep(c) \/ GiveUp(c)
      PROVE  ThrottlePart'
  BY <1>2, OtherStepsThrottle
<1>3. CASE UNCHANGED vars
  <2>1. UNCHANGED <<at, who, secret, loginFails>>
    BY <1>3 DEF vars
  <2> QED
    BY <2>1, ListsStay DEF ThrottleInv, ThrottlePart, Admitted
<1> QED
  BY <1>1, <1>2, <1>3, RestartThrottle, TickThrottle DEF Next

LEMMA ThrottleInvHolds == Spec => []ThrottleInv
  BY InitInv, NextInv, ThrottleInit, ThrottleNext, PTL DEF Spec, ThrottleInv

-----------------------------------------------------------------------------
(* The theorems.                                                           *)

\* However many requests present the token, whatever they find at the probe
\* and whenever the portal restarts: one administrator and the settings come
\* together, once, and the administrator stays.
THEOREM SetupOnce == Spec => []SetupIsWhole
<1>1. AccountsInv => SetupIsWhole
  BY DEF AccountsInv, SetupPart
<1> QED
  BY <1>1, InvHolds, PTL

\* No session that was there when its account was disabled, deleted or given
\* a new password is ever valid again.
THEOREM RevocationIsFinal == Spec => []RevocationEndsSessions
<1>1. AccountsInv => RevocationEndsSessions
  BY DEF AccountsInv, SessionPart, RowsAreTrue, RevocationEndsSessions, Valid
<1> QED
  BY <1>1, InvHolds, PTL

\* Use renews a session only up to its absolute end.
THEOREM SessionsEnd == Spec => []SessionsAreBounded
<1>1. ASSUME AccountsInv, NEW t \in Tokens, Valid(t)
      PROVE  age[t] < AbsoluteTTL
  <2>1. absolute[t] > 0 /\ absolute[t] + age[t] <= AbsoluteTTL
    BY <1>1 DEF AccountsInv, SessionPart, RowsAreTrue, Valid
  <2>2. absolute[t] \in Nat /\ age[t] \in Nat
    BY <1>1, Numbers DEF AccountsInv, SessionPart, SessionTypes
  <2> QED
    BY <2>1, <2>2, Numbers
<1>2. AccountsInv => SessionsAreBounded
  BY <1>1 DEF SessionsAreBounded
<1> QED
  BY <1>2, InvHolds, PTL
\* Accounts, sessions, setup, requests and the throttle stay in their types;
\* the throttle keeps no failure that has left its window.
THEOREM TypeCorrect == Spec => []TypeOK
<1>1. ThrottleInv => TypeOK
  BY DEF ThrottleInv, ThrottlePart, Ages, AccountsInv, UserPart, UserTypes,
         SessionPart, SessionTypes, SetupPart, SetupTypes, ClientsAreKnown,
         TypeOK, StoreTypeOK
<1> QED
  BY <1>1, ThrottleInvHolds, PTL

\* However many logins for a name are served together, fewer failures than the
\* limit and one for each of them is all they can leave.
THEOREM GuessingIsBounded == Spec => []ThrottleHolds
<1>1. ASSUME ThrottleInv, NEW u \in Users
      PROVE  Len(loginFails[u]) <= Limit - 1 + Cardinality(Clients)
  <2>1. Admitted(u) \in SUBSET Clients
    BY DEF Admitted
  <2>2. Cardinality(Admitted(u)) \in Nat
    BY <2>1, Counts
  <2>3. /\ Len(loginFails[u]) \in Nat
        /\ Len(loginFails[u]) + Cardinality(Admitted(u))
             <= Limit - 1 + Cardinality(Clients)
    BY <1>1, LenProperties DEF ThrottleInv, ThrottlePart, WithinLimit
  <2> QED
    BY <2>2, <2>3, ThrottleNumbers
<1>2. ThrottleInv => ThrottleHolds
  BY <1>1 DEF ThrottleHolds
<1> QED
  BY <1>2, ThrottleInvHolds, PTL
=============================================================================
