------------------------------ MODULE Accounts ------------------------------
(* Sign-up, log-in, log-out and the session check in front of every operation     *)
(* (AuthService, AuthRepository, attachCurrentUser).  Passwords and token          *)
(* signatures are left out: a log-in has the right password or a wrong one, and a  *)
(* cookie names a session that was issued.                                        *)
EXTENDS Requests

CONSTANTS Addresses, Home  \* the normalised addresses, and that of the seed account

ASSUME AddressAssumption == Home \in Addresses

VARIABLES
  users,      \* rows [id, address]
  identities, \* rows [address, user]
  sessions    \* rows [id, user, is]

accountVars == <<users, identities, sessions>>

SessionsOf(k) == {s \in sessions : s.id = k}

\* Mutants of SignupSteps: the password is hashed before the account is made; the
\* session is made before the identity.
SignupHashesFirst == <<"lookup", "hash", "user", "identity", "session">>
SignupSessionFirst == <<"lookup", "user", "hash", "session", "identity">>

SignupSteps == <<"lookup", "user", "hash", "identity", "session">>
LoginSteps == <<"identify", "verify", "account", "session">>

-----------------------------------------------------------------------------
(* Statements.                                                                  *)

UserRow(c) == [id |-> c, address |-> about[c]]
IdentityRow(c) == [address |-> about[c], user |-> who[c]]
SessionRow(c) == [id |-> c, user |-> who[c], is |-> "live"]

\* The unique indexes of users and auth_identities.  The maps of the memory driver
\* have none: there an identity replaces another with its key.
AddressIsFree(c) ==
  Driver = "postgres" =>
    /\ step[c] = "user" => ~\E u \in users : u.address = about[c]
    /\ step[c] = "identity" => ~\E i \in identities : i.address = about[c]

Revoked(s) == [s EXCEPT !.is = "revoked"]

\* The write of the step at which c is, or has stopped.
WriteAccount(c) ==
  \/ /\ step[c] = "user"
     /\ users' = users \cup {UserRow(c)}
     /\ UNCHANGED <<identities, sessions>>
  \/ /\ step[c] = "identity"
     /\ identities' = {i \in identities : i.address # about[c]} \cup {IdentityRow(c)}
     /\ UNCHANGED <<users, sessions>>
  \/ /\ step[c] = "session"
     /\ sessions' = sessions \cup {SessionRow(c)}
     /\ UNCHANGED <<users, identities>>
  \/ /\ step[c] = "revoke"
     /\ sessions' = (sessions \ SessionsOf(cookie[c])) \cup {Revoked(s) : s \in SessionsOf(cookie[c])}
     /\ UNCHANGED <<users, identities>>

WritesAccounts(c) == step[c] \in {"user", "identity", "session", "revoke"}

-----------------------------------------------------------------------------
(* Actions.                                                                     *)

RequestSignup(c) ==
  /\ \E a \in Addresses : Arrive(c, "signup", a, Nobody, "lookup")
  /\ UNCHANGED accountVars

RequestLogin(c) ==
  /\ \E a \in Addresses : Arrive(c, "login", a, Nobody, "identify")
  /\ UNCHANGED accountVars

RequestLogout(c) ==
  /\ \E s \in sessions : Arrive(c, "logout", "none", s.id, "authenticate")
  /\ UNCHANGED accountVars

FindUserByEmail(c) ==
  /\ At(c, "lookup")
  /\ IF \E u \in users : u.address = about[c]
     THEN Answer(c, "refused")
     ELSE Proceed(c, After(c, SignupSteps))
  /\ UNCHANGED accountVars

CreateUser(c) ==
  /\ At(c, "user")
  /\ IF AddressIsFree(c)
     THEN WriteAccount(c) /\ ProceedAs(c, c, After(c, SignupSteps))
     ELSE Answer(c, "failed") /\ UNCHANGED accountVars

HashPassword(c) ==
  /\ At(c, "hash")
  /\ Proceed(c, After(c, SignupSteps))
  /\ UNCHANGED accountVars

CreateAuthIdentity(c) ==
  /\ At(c, "identity")
  /\ IF AddressIsFree(c)
     THEN WriteAccount(c) /\ Advance(c, SignupSteps)
     ELSE Answer(c, "failed") /\ UNCHANGED accountVars

FindAuthIdentity(c) ==
  /\ At(c, "identify")
  /\ \/ \E i \in identities : i.address = about[c] /\ ProceedAs(c, i.user, After(c, LoginSteps))
     \/ ~(\E i \in identities : i.address = about[c]) /\ Answer(c, "refused")
  /\ UNCHANGED accountVars

\* The password is the right one or not.
VerifyPassword(c) ==
  /\ At(c, "verify")
  /\ Proceed(c, After(c, LoginSteps)) \/ Answer(c, "refused")
  /\ UNCHANGED accountVars

FindUserById(c) ==
  /\ At(c, "account")
  /\ IF \E u \in users : u.id = who[c] THEN Proceed(c, After(c, LoginSteps)) ELSE Answer(c, "refused")
  /\ UNCHANGED accountVars

\* The session comes last in both operations.
CreateSession(c) ==
  /\ At(c, "session")
  /\ WriteAccount(c)
  /\ Advance(c, IF op[c] = "signup" THEN SignupSteps ELSE LoginSteps)

RevokeSession(c) ==
  /\ At(c, "revoke")
  /\ WriteAccount(c)
  /\ Answer(c, "ok")

\* Mutant of Opens: the session is not asked whether it was revoked.
OpensRevoked(s) == s.is # "expired"

\* The session was neither revoked nor has its time run out.
Opens(s) == s.is = "live"

\* attachCurrentUser, then requireAuth of all operations but the log-out, which is
\* answered without a session too.
FindSession(c) ==
  /\ At(c, "authenticate")
  /\ IF \E s \in SessionsOf(cookie[c]) : Opens(s)
     THEN Proceed(c, "owner")
     ELSE Answer(c, IF op[c] = "logout" THEN "ok" ELSE "refused")
  /\ UNCHANGED accountVars

\* The account of the session is read in a statement of its own.  (No row of users is
\* ever taken away or made inactive.)
FindOwner(c) ==
  /\ At(c, "owner")
  /\ \E s \in SessionsOf(cookie[c]) : ProceedAs(c, s.user, FirstStep(op[c]))
  /\ UNCHANGED accountVars

\* The time of a session runs out; the bound on failures counts it.
SessionExpires(s) ==
  /\ s \in sessions /\ s.is = "live" /\ failures < MaxFailures
  /\ sessions' = (sessions \ {s}) \cup {[s EXCEPT !.is = "expired"]}
  /\ failures' = failures + 1
  /\ UNCHANGED <<users, identities, op, about, cookie, who, step, state, late>>

\* A given-up write of a call arrives.
LateAccountWrite(c) ==
  /\ Arrives(c) /\ WritesAccounts(c)
  /\ IF AddressIsFree(c) THEN WriteAccount(c) ELSE UNCHANGED accountVars

AccountsStep(c) ==
  \/ RequestSignup(c) \/ RequestLogin(c) \/ RequestLogout(c)
  \/ FindUserByEmail(c) \/ CreateUser(c) \/ HashPassword(c) \/ CreateAuthIdentity(c)
  \/ FindAuthIdentity(c) \/ VerifyPassword(c) \/ FindUserById(c)
  \/ CreateSession(c) \/ RevokeSession(c) \/ FindSession(c) \/ FindOwner(c)
  \/ LateAccountWrite(c)

AccountsInit ==
  /\ users = {[id |-> Seed, address |-> Home]}
  /\ identities = {[address |-> Home, user |-> Seed]}
  /\ sessions = {[id |-> Seed, user |-> Seed, is |-> "live"]}

-----------------------------------------------------------------------------
(* Properties.                                                                  *)

AccountsType ==
  /\ users \subseteq [id : Accounts, address : Addresses]
  /\ identities \subseteq [address : Addresses, user : Accounts]
  /\ sessions \subseteq [id : Accounts, user : Accounts, is : {"live", "revoked", "expired"}]

\* However sign-ups overlap and fail, an address has at most one account, and one
\* identity, which opens that account (AuthService.signup checks the address and
\* makes the account in separate calls of the repository).
OneAccountPerAddress ==
  /\ \A u, v \in users : u.address = v.address => u = v
  /\ \A i, j \in identities : i.address = j.address => i = j
  /\ \A i \in identities : [id |-> i.user, address |-> i.address] \in users

\* Who has a session can log in again: its account has its identity (sign-up makes
\* the session last).
SessionsCanLogInAgain == \A s \in sessions : \E i \in identities : i.user = s.user

\* An account without an identity, which neither sign-up nor log-in admits any
\* more, is that of a sign-up under way or broken off.
AccountsAreWhole ==
  \A u \in users : (\E i \in identities : i.user = u.id) \/ (u.id \in Calls /\ Unfinished(u.id))
=============================================================================
