------------------------------ MODULE Accounts ------------------------------
(***************************************************************************)
(* The tables of the authentication code: the row of one user and the      *)
(* refresh tokens issued to that user, read and written by concurrent HTTP *)
(* requests.  pc[q] names the step handler q takes next, job[q] holds what *)
(* it has read and still uses.                                             *)
(*                                                                         *)
(* Passwords are numbered in the order they are set; 0 is the null hash of *)
(* an account created through Google.  Signatures, hashes and cookies are  *)
(* left out: a client presents a token that was issued, or none.           *)
(***************************************************************************)
EXTENDS Integers, FiniteSets

CONSTANTS
  Procs,          \* concurrent HTTP requests
  TokenIds,       \* refresh_tokens.id, the jti of a token
  FamilyIds,      \* refresh_tokens.family, one per login
  Roles,          \* users.role
  LastPassword,   \* bound on password changes
  Ops,            \* the operations that clients call
  None

ASSUME PasswordBoundAssumption == LastPassword \in Nat \ {0}

ASSUME RolesAssumption == "TENANT" \in Roles

ASSUME FamilyNoneAssumption == None \notin FamilyIds

VARIABLES
  user,    \* users: one row
  token,   \* refresh_tokens
  pc, job

vars == <<user, token, pc, job>>

UserRow ==
  [exists : BOOLEAN, isActive : BOOLEAN, isEmailVerified : BOOLEAN,
   role : Roles, google : BOOLEAN, password : 0 .. LastPassword]

NoUser ==
  [exists |-> FALSE, isActive |-> FALSE, isEmailVerified |-> FALSE,
   role |-> "TENANT", google |-> FALSE, password |-> 0]

TokenRow ==
  [status : {"NONE", "LIVE", "REVOKED", "DELETED"}, family : FamilyIds \cup {None},
   expired : BOOLEAN]

NoToken == [status |-> "NONE", family |-> None, expired |-> FALSE]

\* known is history, which no handler reads: the tokens that had been issued when
\* a password change took its snapshot.
NoJob == [user |-> NoUser, token |-> None, family |-> None, rows |-> {}, known |-> {}]

\* The guard of the routes that need an access token, which is checked for its
\* signature and not for the session it came from: the row is read again.
Authenticated == user.exists /\ user.isActive

\* The handler goes on to the given step, remembering j.
Goto(q, step, j) ==
  /\ pc' = [pc EXCEPT ![q] = step]
  /\ job' = [job EXCEPT ![q] = j]

\* A request for the operation arrives and its handler takes its first step.
Called(q, op) == pc[q] = "idle" /\ op \in Ops

Return(q) == Goto(q, "idle", NoJob)

\* Wrong form of HeldTokens: an UPDATE does not wait for another transaction.
NoTokenHeld == {}

\* The token rows that a rotation has updated and not yet committed.
HeldTokens == {job[q].token : q \in {p \in Procs : pc[p] = "RotateCommit"}}

\* A password change holds the row of the user until it commits.
UserHeld == \E q \in Procs : pc[q] = "PasswordCommit"

Live(t) == token[t].status = "LIVE"

IssuedTokens == {t \in TokenIds : token[t].status # "NONE"}

TokensOf(f) == {t \in TokenIds : token[t].status # "NONE" /\ token[t].family = f}

=============================================================================
