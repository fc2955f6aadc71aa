----------------------------- MODULE AccountFlow -----------------------------
(***************************************************************************)
(* Every handler that reads or writes the user or the refresh tokens, run  *)
(* by concurrent HTTP requests.                                            *)
(***************************************************************************)
EXTENDS Users, Sessions

Steps ==
  {"idle", "GoogleLink", "SaveUser", "IssueTokens", "Clean", "RotateUpdate",
   "RotateCommit", "RevokeBegin", "RevokeCommit", "PasswordBegin", "PasswordCommit"}

Init ==
  /\ user = NoUser
  /\ token = [t \in TokenIds |-> NoToken]
  /\ pc = [q \in Procs |-> "idle"]
  /\ job = [q \in Procs |-> NoJob]

\* The handler throws (a refusal, a lost connection, a crash): what it has not
\* committed is rolled back.
Fail(q) ==
  /\ pc[q] # "idle"
  /\ Return(q)
  /\ UNCHANGED <<user, token>>

UserStep(q) ==
  \/ Register(q) \/ VerifyEmail(q) \/ GoogleRead(q) \/ GoogleLink(q)
  \/ SetStatusRead(q) \/ SetRoleRead(q) \/ EditSelfRead(q) \/ SaveUser(q)

SessionStep(q) ==
  \/ LoginRead(q) \/ IssueTokens(q) \/ Clean(q)
  \/ RefreshRead(q) \/ RotateUpdate(q) \/ RotateCommit(q)
  \/ Logout(q) \/ RevokeBegin(q) \/ RevokeCommit(q)
  \/ ResetRead(q) \/ ChangeRead(q) \/ PasswordBegin(q) \/ PasswordCommit(q)

HandlerStep(q) == UserStep(q) \/ SessionStep(q) \/ Fail(q)

Next == (\E q \in Procs : HandlerStep(q)) \/ \E t \in TokenIds : Expire(t)

Spec == Init /\ [][Next]_vars

-----------------------------------------------------------------------------
(* Types. *)

Jobs ==
  [user : UserRow, token : TokenIds \cup {None}, family : FamilyIds \cup {None},
   rows : SUBSET TokenIds, known : SUBSET TokenIds]

Fits(step, j) ==
  /\ step \in {"RotateUpdate", "RotateCommit"} => j.token \in TokenIds /\ j.family \in FamilyIds
  /\ step \in {"RevokeBegin", "RevokeCommit"} => j.family \in FamilyIds
  /\ step \in {"GoogleLink", "SaveUser"} => j.user.exists

RowsOK ==
  /\ user \in UserRow
  /\ token \in [TokenIds -> TokenRow]

HandlersOK ==
  /\ pc \in [Procs -> Steps]
  /\ job \in [Procs -> Jobs]
  /\ \A q \in Procs : Fits(pc[q], job[q])

\* Every variable has its type, and a handler that rotates a token, revokes a
\* family or saves the user remembers what it read.
TypeOK == RowsOK /\ HandlersOK

-----------------------------------------------------------------------------
(* What must hold. *)

\* However many requests present the same refresh token at once, and whatever
\* revokes its family meanwhile, one successor at most is issued: a family
\* never has two live tokens.
OneLiveTokenPerFamily ==
  \A t, o \in TokenIds : Live(t) /\ Live(o) /\ token[t].family = token[o].family => t = o

\* No token of the family is live and no rotation of it is about to commit.
Dead(f) ==
  /\ TokensOf(f) # {}
  /\ \A t \in TokensOf(f) : ~ Live(t) /\ t \notin HeldTokens

\* A session that is over stays over: once a logout, a detected reuse or a
\* password change has left a family without a live token and no rotation is
\* about to commit, no request that read the family earlier revives it.
DeadFamiliesStayDead == [][\A f \in FamilyIds : Dead(f) => Dead(f)']_vars

\* A spent token stays recognisable as spent until it expires: it never
\* becomes live again and the clean-up keeps its row, so that presenting it
\* again is detected.
SpentTokensAreKept ==
  [][ \A t \in TokenIds :
        /\ token[t].status = "REVOKED" =>
             \/ token'[t].status = "REVOKED"
             \/ token'[t].status = "DELETED" /\ token[t].expired
        /\ token[t].status = "DELETED" => token'[t].status = "DELETED" ]_vars

\* A token that a password reset or change leaves live belongs to the session
\* it spares, or was issued after it took its snapshot: whatever rotations and
\* revocations it waits for, none of the tokens that were there survives it.
\* The session may survive it: RevocationsEndSessions below.
PasswordChangeEndsTokens ==
  [][ \A q \in Procs : PasswordCommit(q) =>
        \A t \in TokenIds : Live(t)' =>
          token'[t].family = job[q].family \/ t \notin job[q].known ]_vars

\* A handler that saves a user it read earlier never brings back an old
\* password, nor removes the user.
PasswordNeverReverts ==
  [][user.exists => user'.exists /\ user'.password >= user.password]_vars

-----------------------------------------------------------------------------
(* What the documents say, and a rotation under way refutes. *)

\* README.md:406: "presenting an already-used token revokes the whole family",
\* "a password reset revokes all of the user's sessions".  Where the revocation
\* of a family commits, no token of it is live; where a reset commits, no session
\* that had a token at its snapshot has a live one.
RevocationsEndSessions ==
  [][ \A q \in Procs, t \in TokenIds : Live(t)' =>
        /\ RevokeCommit(q) => token'[t].family # job[q].family
        /\ PasswordCommit(q) /\ job[q].family = None =>
             \A o \in job[q].known : token[o].family # token'[t].family ]_vars

-----------------------------------------------------------------------------
(* What the handlers promise about a session. *)

Chains == INSTANCE TokenChains WITH
  issued <- [f \in FamilyIds |-> TokensOf(f)],
  current <- {t \in TokenIds : Live(t)}

\* The handlers implement TokenChains: whatever the requests do at once, every
\* token after the first of its family replaces the one live token of the
\* family in the step that spends it, and a family without a live token is
\* never continued.
SessionsAreChains == Chains!Spec

=============================================================================
