---------------------------- MODULE AccountProofs ----------------------------
(***************************************************************************)
(* Type correctness and the safety properties of AccountFlow, for every    *)
(* instance of its constants.  A step keeps the types where tokens have a  *)
(* family and one password change at a time is under way; both are parts   *)
(* of the invariant of the handlers.                                       *)
(***************************************************************************)
EXTENDS AccountFlow, TLAPS

FamiliesKnown ==
  \A t \in TokenIds : token[t].status # "NONE" => token[t].family \in FamilyIds

\* One password change at a time holds the user, and its number is free.
ChangesOK ==
  \A q \in Procs :
    pc[q] = "PasswordCommit" =>
      /\ user.password < LastPassword
      /\ \A p \in Procs : pc[p] = "PasswordCommit" => p = q

-----------------------------------------------------------------------------
(* Helpers. *)

LEMMA NoRowsOK == NoUser \in UserRow /\ NoToken \in TokenRow
  BY PasswordBoundAssumption, RolesAssumption DEF NoUser, UserRow, NoToken, TokenRow

LEMMA NoJobOK == NoJob \in Jobs /\ Fits("idle", NoJob)
  BY NoRowsOK DEF NoJob, Jobs, Fits

\* The handler q moves, the others stay where they are.
LEMMA GotoMoves ==
  ASSUME HandlersOK, NEW q \in Procs, NEW step, NEW j, Goto(q, step, j)
  PROVE  /\ pc'[q] = step /\ job'[q] = j
         /\ \A p \in Procs \ {q} : pc'[p] = pc[p] /\ job'[p] = job[p]
  BY DEF HandlersOK, Goto

LEMMA GotoOK ==
  ASSUME HandlersOK, NEW q \in Procs, NEW step \in Steps, NEW j \in Jobs,
         Fits(step, j), Goto(q, step, j)
  PROVE  HandlersOK'
  BY DEF HandlersOK, Goto

LEMMA ReturnOK ==
  ASSUME HandlersOK, NEW q \in Procs, Return(q)
  PROVE  HandlersOK'
  BY NoJobOK, GotoOK DEF Return, Steps

LEMMA StayOK ==
  ASSUME HandlersOK, UNCHANGED <<pc, job>>
  PROVE  HandlersOK'
  BY DEF HandlersOK

\* A handler goes on to a step that remembers no row.
LEMMA StartOK ==
  ASSUME HandlersOK, NEW q \in Procs, NEW step \in {"IssueTokens", "Clean", "PasswordBegin"},
         Goto(q, step, NoJob)
  PROVE  HandlersOK'
  BY NoJobOK, GotoOK DEF Fits, Steps

\* A handler goes on to save a row of the user.
LEMMA GotoSaveOK ==
  ASSUME HandlersOK, NEW q \in Procs, NEW step \in {"GoogleLink", "SaveUser"},
         NEW row \in UserRow, row.exists, Goto(q, step, [NoJob EXCEPT !.user = row])
  PROVE  HandlersOK'
<1>1. [NoJob EXCEPT !.user = row] \in Jobs
  BY NoJobOK DEF Jobs
<1>2. Fits(step, [NoJob EXCEPT !.user = row])
  BY DEF Fits, NoJob
<1> QED
  BY <1>1, <1>2, GotoOK DEF Steps

\* A handler goes on to revoke a family.
LEMMA GotoRevokeOK ==
  ASSUME HandlersOK, NEW q \in Procs, NEW f \in FamilyIds,
         Goto(q, "RevokeBegin", [NoJob EXCEPT !.family = f])
  PROVE  HandlersOK'
<1>1. [NoJob EXCEPT !.family = f] \in Jobs /\ [NoJob EXCEPT !.family = f].family = f
  BY NoJobOK DEF NoJob, Jobs
<1>2. Fits("RevokeBegin", [NoJob EXCEPT !.family = f])
  BY <1>1 DEF Fits
<1> QED
  BY <1>1, <1>2, GotoOK DEF Steps

LEMMA NewUsersOK ==
  /\ [NoUser EXCEPT !.exists = TRUE, !.isActive = TRUE, !.password = 1] \in UserRow
  /\ [NoUser EXCEPT !.exists = TRUE, !.isActive = TRUE,
                    !.isEmailVerified = TRUE, !.google = TRUE] \in UserRow
<1>1. 0 \in 0 .. LastPassword /\ 1 \in 0 .. LastPassword
  BY PasswordBoundAssumption
<1>2. [NoUser EXCEPT !.exists = TRUE, !.isActive = TRUE, !.password = 1] \in UserRow
  BY <1>1, RolesAssumption DEF NoUser, UserRow
<1>3. [NoUser EXCEPT !.exists = TRUE, !.isActive = TRUE,
                     !.isEmailVerified = TRUE, !.google = TRUE] \in UserRow
  BY <1>1, RolesAssumption DEF NoUser, UserRow
<1> QED
  BY <1>2, <1>3

LEMMA IssuedOK ==
  ASSUME RowsOK, NEW f \in FamilyIds
  PROVE  /\ Issued(f) \in TokenRow
         /\ Issued(f).status = "LIVE" /\ Issued(f).family = f
  BY DEF Issued, TokenRow

LEMMA SpentOK ==
  ASSUME RowsOK, NEW t \in TokenIds
  PROVE  /\ Spent(t) \in TokenRow
         /\ Spent(t).status = "REVOKED" /\ Spent(t).family = token[t].family
  BY DEF RowsOK, Spent, TokenRow

-----------------------------------------------------------------------------
(* One lemma per group of actions. *)

LEMMA UserStepType ==
  ASSUME TypeOK, NEW q \in Procs, UserStep(q)
  PROVE  TypeOK'
<1> USE DEF TypeOK, RowsOK
<1>1. CASE Register(q)
  BY <1>1, NewUsersOK, StayOK DEF Register
<1>2. CASE VerifyEmail(q)
  BY <1>2, StayOK DEF VerifyEmail, UserRow
<1>3. CASE GoogleRead(q)
  <2>1. CASE UNCHANGED user /\ Goto(q, "IssueTokens", NoJob)
    BY <1>3, <2>1, StartOK DEF GoogleRead
  <2> DEFINE row == [user EXCEPT !.google = TRUE, !.isEmailVerified = TRUE]
  <2>2. CASE user.exists /\ UNCHANGED user
               /\ Goto(q, "GoogleLink", [NoJob EXCEPT !.user = row])
    <3>1. row \in UserRow /\ row.exists
      BY <2>2 DEF UserRow
    <3> HIDE DEF row
    <3> QED
      BY <1>3, <2>2, <3>1, GotoSaveOK DEF GoogleRead
  <2>3. CASE /\ user' = [NoUser EXCEPT !.exists = TRUE, !.isActive = TRUE,
                                       !.isEmailVerified = TRUE, !.google = TRUE]
             /\ Goto(q, "IssueTokens", NoJob)
    BY <1>3, <2>3, NewUsersOK, StartOK DEF GoogleRead
  <2> QED
    BY <1>3, <2>1, <2>2, <2>3 DEF GoogleRead
<1>4. ASSUME job[q].user \in UserRow, NEW next, Save(q, next) PROVE RowsOK'
  BY <1>4 DEF Save, Saved, UserRow
<1>5. job[q].user \in UserRow
  BY DEF HandlersOK, Jobs
<1>6. CASE GoogleLink(q)
  BY <1>4, <1>5, <1>6, StartOK DEF GoogleLink, Save
<1>7. CASE SaveUser(q)
  BY <1>4, <1>5, <1>7, ReturnOK DEF SaveUser, Save, Return
<1>8. CASE SetStatusRead(q)
  <2>1. PICK b \in BOOLEAN :
          Goto(q, "SaveUser", [NoJob EXCEPT !.user = [user EXCEPT !.isActive = b]])
    BY <1>8 DEF SetStatusRead
  <2>2. [user EXCEPT !.isActive = b] \in UserRow /\ [user EXCEPT !.isActive = b].exists
    BY <1>8 DEF SetStatusRead, UserRow
  <2> QED
    BY <1>8, <2>1, <2>2, GotoSaveOK DEF SetStatusRead
<1>9. CASE SetRoleRead(q)
  <2>1. PICK r \in Roles :
          Goto(q, "SaveUser", [NoJob EXCEPT !.user = [user EXCEPT !.role = r]])
    BY <1>9 DEF SetRoleRead
  <2>2. [user EXCEPT !.role = r] \in UserRow /\ [user EXCEPT !.role = r].exists
    BY <1>9 DEF SetRoleRead, UserRow
  <2> QED
    BY <1>9, <2>1, <2>2, GotoSaveOK DEF SetRoleRead
<1>10. CASE EditSelfRead(q)
  BY <1>10, GotoSaveOK DEF EditSelfRead, Authenticated
<1> QED
  BY <1>1, <1>2, <1>3, <1>6, <1>7, <1>8, <1>9, <1>10 DEF UserStep

LEMMA SessionStepType ==
  ASSUME TypeOK, FamiliesKnown, ChangesOK, NEW q \in Procs, SessionStep(q)
  PROVE  TypeOK'
<1> USE DEF TypeOK
<1>0. job[q] \in Jobs /\ Fits(pc[q], job[q])
  BY DEF HandlersOK
<1>1. CASE LoginRead(q)
  BY <1>1, StartOK DEF LoginRead, RowsOK
<1>2. CASE IssueTokens(q)
  BY <1>2, StartOK, IssuedOK DEF IssueTokens, RowsOK
<1>3. CASE Clean(q)
  <2>1. ASSUME NEW t \in TokenIds PROVE [Spent(t) EXCEPT !.status = "DELETED"] \in TokenRow
    BY SpentOK DEF TokenRow
  <2>2. RowsOK'
    BY <1>3, <2>1 DEF Clean, RowsOK
  <2> QED
    BY <1>3, <2>2, ReturnOK DEF Clean
<1>4. CASE RefreshRead(q)
  <2>1. PICK t \in TokenIds :
          \/ /\ token[t].status = "REVOKED"
             /\ Goto(q, "RevokeBegin", [NoJob EXCEPT !.family = FamilyOf(t)])
          \/ /\ Live(t)
             /\ Goto(q, "RotateUpdate", [NoJob EXCEPT !.token = t, !.family = token[t].family])
    BY <1>4 DEF RefreshRead
  <2>2. token[t].family \in FamilyIds
    BY <2>1 DEF FamiliesKnown, Live
  <2> DEFINE j == [NoJob EXCEPT !.token = t, !.family = token[t].family]
  <2>3. j \in Jobs /\ Fits("RotateUpdate", j)
    BY <2>2, NoJobOK DEF Jobs, NoJob, Fits
  <2> HIDE DEF j
  <2>4. HandlersOK'
    BY <2>1, <2>2, <2>3, GotoRevokeOK, GotoOK DEF FamilyOf, Steps, j
  <2> QED
    BY <1>4, <2>4 DEF RefreshRead, RowsOK
<1>5. CASE RotateUpdate(q)
  <2>1. job[q].token \in TokenIds /\ job[q].family \in FamilyIds
    BY <1>0, <1>5 DEF RotateUpdate, Fits
  <2>2. Fits("RotateCommit", job[q])
    BY <2>1 DEF Fits
  <2>3. HandlersOK'
    BY <1>0, <1>5, <2>1, <2>2, GotoRevokeOK, GotoOK DEF RotateUpdate, Steps
  <2> QED
    BY <1>5, <2>3 DEF RotateUpdate, RowsOK
<1>6. CASE RotateCommit(q)
  <2>1. job[q].token \in TokenIds /\ job[q].family \in FamilyIds
    BY <1>0, <1>6 DEF RotateCommit, Fits
  <2>2. RowsOK'
    BY <1>6, <2>1, IssuedOK, SpentOK DEF RotateCommit, RowsOK
  <2> QED
    BY <1>6, <2>2, ReturnOK DEF RotateCommit
<1>7. CASE Logout(q)
  <2>1. PICK f \in FamilyIds : Goto(q, "RevokeBegin", [NoJob EXCEPT !.family = f])
    BY <1>7 DEF Logout, FamilyOf, FamiliesKnown
  <2> QED
    BY <1>7, <2>1, GotoRevokeOK DEF Logout, RowsOK
<1> DEFINE holding(S) == [job[q] EXCEPT !.rows = S]
<1>8. ASSUME NEW S \in SUBSET TokenIds
      PROVE  holding(S) \in Jobs /\ holding(S).family = job[q].family
  BY <1>0 DEF Jobs
<1>9. CASE RevokeBegin(q)
  <2>1. PICK S \in SUBSET TokenIds : Goto(q, "RevokeCommit", holding(S))
    BY <1>9 DEF RevokeBegin, TokensOf
  <2>2. Fits("RevokeCommit", holding(S))
    BY <1>0, <1>8, <1>9 DEF RevokeBegin, Fits
  <2> HIDE DEF holding
  <2>3. HandlersOK'
    BY <1>8, <2>1, <2>2, GotoOK DEF Steps
  <2> QED
    BY <1>9, <2>3 DEF RevokeBegin, RowsOK
<1>10. CASE RevokeCommit(q)
  BY <1>10, SpentOK, ReturnOK DEF RevokeCommit, Revoke, RowsOK
<1>11. CASE ResetRead(q)
  BY <1>11, StartOK DEF ResetRead, RowsOK
<1>12. CASE ChangeRead(q)
  <2>1. PICK f \in FamilyIds \cup {None} :
          Goto(q, "PasswordBegin", [NoJob EXCEPT !.family = f])
    BY <1>12 DEF ChangeRead, RowsOK, TokenRow
  <2>2. [NoJob EXCEPT !.family = f] \in Jobs /\ Fits("PasswordBegin", [NoJob EXCEPT !.family = f])
    BY NoJobOK DEF Jobs, Fits
  <2> QED
    BY <1>12, <2>1, <2>2, GotoOK DEF ChangeRead, Authenticated, RowsOK, Steps
<1>13. CASE PasswordBegin(q)
  <2> DEFINE seen == [job[q] EXCEPT !.rows = Sweepable(job[q].family), !.known = IssuedTokens]
  <2>1. Goto(q, "PasswordCommit", seen)
    BY <1>13 DEF PasswordBegin
  <2>2. Fits("PasswordCommit", seen) /\ seen \in Jobs
    BY <1>0 DEF Fits, Jobs, Sweepable, IssuedTokens
  <2> HIDE DEF seen
  <2>3. HandlersOK'
    BY <2>1, <2>2, GotoOK DEF Steps
  <2> QED
    BY <1>13, <2>3 DEF PasswordBegin, RowsOK
<1>14. CASE PasswordCommit(q)
  <2>1. user.password + 1 \in 0 .. LastPassword
    BY <1>14, PasswordBoundAssumption DEF PasswordCommit, ChangesOK, RowsOK, UserRow
  <2>2. user' \in UserRow /\ user'.password = user.password + 1
    BY <1>14, <2>1 DEF PasswordCommit, RowsOK, UserRow
  <2>5. RowsOK'
    BY <1>14, <2>2, SpentOK DEF PasswordCommit, Revoke, RowsOK
  <2> QED
    BY <1>14, <2>5, ReturnOK DEF PasswordCommit
<1> QED
  BY <1>1, <1>2, <1>3, <1>4, <1>5, <1>6, <1>7, <1>9, <1>10, <1>11, <1>12, <1>13, <1>14
     DEF SessionStep

LEMMA TypeStep ==
  ASSUME TypeOK, FamiliesKnown, ChangesOK, [Next]_vars
  PROVE  TypeOK'
<1>1. ASSUME NEW q \in Procs, Fail(q) PROVE TypeOK'
  BY <1>1, ReturnOK DEF Fail, TypeOK, RowsOK
<1>2. ASSUME NEW t \in TokenIds, Expire(t) PROVE TypeOK'
  BY <1>2, StayOK DEF Expire, TypeOK, RowsOK, TokenRow
<1>3. CASE UNCHANGED vars
  BY <1>3, StayOK DEF vars, TypeOK, RowsOK
<1> QED
  BY <1>1, <1>2, <1>3, UserStepType, SessionStepType DEF Next, HandlerStep

-----------------------------------------------------------------------------
(* The invariant of the handlers. *)

\* A handler works for a user that exists, and so do the tokens.
UserKnown ==
  /\ \A q \in Procs : pc[q] # "idle" => user.exists
  /\ \A t \in TokenIds : token[t].status # "NONE" => user.exists

\* A rotation works on a token of its family; between its update and its commit
\* the token is live and no other rotation has it.
RotationsOK ==
  \A q \in Procs :
    /\ pc[q] \in {"RotateUpdate", "RotateCommit"} =>
         token[job[q].token].status # "NONE" /\ token[job[q].token].family = job[q].family
    /\ pc[q] = "RotateCommit" =>
         /\ Live(job[q].token)
         /\ \A p \in Procs : pc[p] = "RotateCommit" /\ job[p].token = job[q].token => p = q

AccountInv == TypeOK /\ UserKnown /\ FamiliesKnown /\ ChangesOK /\ RotationsOK

-----------------------------------------------------------------------------
(* Where the handlers go. *)

\* A handler that is about to commit was there before, or takes the step that
\* leads there.
LEMMA Entries ==
  ASSUME TypeOK, [Next]_vars, NEW q \in Procs
  PROVE  /\ pc'[q] = "PasswordCommit" =>
              (pc[q] = "PasswordCommit" /\ job'[q] = job[q]) \/ PasswordBegin(q)
         /\ pc'[q] = "RotateUpdate" =>
              (pc[q] = "RotateUpdate" /\ job'[q] = job[q]) \/ RefreshRead(q)
         /\ pc'[q] = "RotateCommit" =>
              (pc[q] = "RotateCommit" /\ job'[q] = job[q]) \/ RotateUpdate(q)
<1> DEFINE Same == pc'[q] = pc[q] /\ job'[q] = job[q]
           Elsewhere == pc'[q] \notin {"PasswordCommit", "RotateUpdate", "RotateCommit"}
<1> USE DEF TypeOK
<1>1. ASSUME NEW p \in Procs, HandlerStep(p), p # q PROVE Same
  <2>1. ASSUME NEW step, NEW j, Goto(p, step, j) PROVE Same
    BY <1>1, <2>1, GotoMoves
  <2>2. CASE UserStep(p)
    BY <2>1, <2>2
       DEF UserStep, Register, VerifyEmail, GoogleRead, GoogleLink, SetStatusRead,
           SetRoleRead, EditSelfRead, SaveUser, Save
  <2>3. CASE SessionStep(p)
    BY <2>1, <2>3
       DEF SessionStep, LoginRead, IssueTokens, Clean, RefreshRead, RotateUpdate,
           RotateCommit, Logout, RevokeBegin, RevokeCommit, ResetRead, ChangeRead,
           PasswordBegin, PasswordCommit, Return
  <2>4. CASE Fail(p)
    BY <2>1, <2>4 DEF Fail, Return
  <2> QED
    BY <1>1, <2>2, <2>3, <2>4 DEF HandlerStep
<1>2. ASSUME HandlerStep(q)
      PROVE  Same \/ Elsewhere \/ PasswordBegin(q) \/ RefreshRead(q) \/ RotateUpdate(q)
  <2>1. ASSUME NEW step, step \notin {"PasswordCommit", "RotateUpdate", "RotateCommit"},
               NEW j, Goto(q, step, j)
        PROVE  Elsewhere
    BY <2>1, GotoMoves
  <2>2. CASE UserStep(q)
    BY <2>1, <2>2
       DEF UserStep, Register, VerifyEmail, GoogleRead, GoogleLink, SetStatusRead,
           SetRoleRead, EditSelfRead, SaveUser, Save
  <2>3. ASSUME SessionStep(q), ~ PasswordBegin(q), ~ RefreshRead(q), ~ RotateUpdate(q)
        PROVE  Elsewhere
    BY <2>1, <2>3
       DEF SessionStep, LoginRead, IssueTokens, Clean, RotateCommit, Logout, RevokeBegin,
           RevokeCommit, ResetRead, ChangeRead, PasswordCommit, Return
  <2>4. CASE Fail(q)
    BY <2>1, <2>4 DEF Fail, Return
  <2> QED
    BY <1>2, <2>2, <2>3, <2>4 DEF HandlerStep
<1>3. ASSUME PasswordBegin(q) PROVE pc'[q] = "PasswordCommit"
  BY <1>3, GotoMoves DEF PasswordBegin
<1>4. ASSUME RefreshRead(q) PROVE pc'[q] \in {"RevokeBegin", "RotateUpdate"}
  BY <1>4, GotoMoves DEF RefreshRead
<1>5. ASSUME RotateUpdate(q) PROVE pc'[q] \in {"RevokeBegin", "RotateCommit"}
  BY <1>5, GotoMoves DEF RotateUpdate
<1>6. ASSUME NEW t \in TokenIds, Expire(t) PROVE Same
  BY <1>6 DEF Expire
<1>7. ASSUME UNCHANGED vars PROVE Same
  BY <1>7 DEF vars
<1>8. Same \/ Elsewhere \/ PasswordBegin(q) \/ RefreshRead(q) \/ RotateUpdate(q)
  BY <1>1, <1>2, <1>6, <1>7 DEF Next
<1> QED
  BY <1>3, <1>4, <1>5, <1>8

-----------------------------------------------------------------------------
(* What a step writes. *)

\* A user that exists stays, and its password changes only in PasswordCommit.
LEMMA UserEffect ==
  ASSUME TypeOK, user.exists, [Next]_vars
  PROVE  /\ user'.exists
         /\ \/ user'.password = user.password
            \/ /\ \E q \in Procs : PasswordCommit(q)
               /\ user'.password = user.password + 1
<1> DEFINE Kept == user'.exists /\ user'.password = user.password
<1> USE DEF TypeOK, RowsOK
<1>1. ASSUME UNCHANGED user PROVE Kept
  BY <1>1
<1>2. ASSUME NEW q \in Procs, NEW next, Save(q, next), pc[q] \in {"GoogleLink", "SaveUser"}
      PROVE  Kept
  <2>1. job[q].user \in UserRow /\ job[q].user.exists
    BY <1>2 DEF HandlersOK, Jobs, Fits
  <2> QED
    BY <1>2, <2>1 DEF Save, Saved, UserRow
<1>3. ASSUME NEW q \in Procs, VerifyEmail(q) PROVE Kept
  BY <1>3 DEF VerifyEmail, UserRow
<1>4. ASSUME NEW q \in Procs, UserStep(q) PROVE Kept
  BY <1>1, <1>2, <1>3, <1>4
     DEF UserStep, Register, GoogleRead, GoogleLink, SetStatusRead, SetRoleRead,
         EditSelfRead, SaveUser
<1>5. ASSUME NEW q \in Procs, PasswordCommit(q)
      PROVE  user'.exists /\ user'.password = user.password + 1
  BY <1>5 DEF PasswordCommit, UserRow
<1>6. ASSUME NEW q \in Procs, SessionStep(q), ~ PasswordCommit(q) PROVE UNCHANGED user
  BY <1>6
     DEF SessionStep, LoginRead, IssueTokens, Clean, RefreshRead, RotateUpdate,
         RotateCommit, Logout, RevokeBegin, RevokeCommit, ResetRead, ChangeRead,
         PasswordBegin
<1> QED
  BY <1>1, <1>4, <1>5, <1>6 DEF Next, HandlerStep, Fail, Expire, vars

\* Where there is no user yet, a step that does anything creates it.
LEMMA UserBorn ==
  ASSUME TypeOK, UserKnown, ~ user.exists, [Next]_vars
  PROVE  user'.exists \/ UNCHANGED vars
<1>1. /\ \A q \in Procs : pc[q] = "idle"
      /\ \A t \in TokenIds : token[t].status = "NONE"
  BY DEF UserKnown, TypeOK, RowsOK, UserRow
<1>2. ASSUME NEW q \in Procs, Register(q) \/ GoogleRead(q) PROVE user'.exists
  BY <1>2 DEF Register, GoogleRead, NoUser
<1>3. ASSUME NEW q \in Procs, UserStep(q) PROVE user'.exists
  BY <1>1, <1>2, <1>3
     DEF UserStep, VerifyEmail, GoogleLink, SetStatusRead, SetRoleRead, EditSelfRead,
         Authenticated, SaveUser
<1>4. ~ \E q \in Procs : SessionStep(q)
  BY <1>1
     DEF SessionStep, LoginRead, IssueTokens, Clean, RefreshRead, RotateUpdate,
         RotateCommit, Logout, RevokeBegin, RevokeCommit, ResetRead, ChangeRead,
         Authenticated, PasswordBegin, PasswordCommit, Live
<1>5. ~ \E q \in Procs : Fail(q)
  BY <1>1 DEF Fail
<1>6. ~ \E t \in TokenIds : Expire(t)
  BY <1>1 DEF Expire
<1> QED
  BY <1>3, <1>4, <1>5, <1>6 DEF Next, HandlerStep

\* The token keeps its family, and its status only moves on.
Ends(t) ==
  /\ token'[t].family = token[t].family
  /\ \/ token'[t].status = token[t].status
     \/ token[t].status = "LIVE" /\ token'[t].status \in {"REVOKED", "DELETED"}
     \/ token[t].status = "REVOKED" /\ token[t].expired /\ token'[t].status = "DELETED"

LEMMA TokenEffect ==
  ASSUME TypeOK, [Next]_vars
  PROVE  \/ \A t \in TokenIds : Ends(t)
         \/ \E q \in Procs : IssueTokens(q) \/ RotateCommit(q)
<1> DEFINE Quiet == \A t \in TokenIds : Ends(t)
<1> USE DEF TypeOK, RowsOK
<1>1. ASSUME UNCHANGED token PROVE Quiet
  BY <1>1 DEF Ends
<1>2. ASSUME NEW q \in Procs, Clean(q) PROVE Quiet
  <2>1. ASSUME NEW t \in TokenIds
        PROVE  /\ [Spent(t) EXCEPT !.status = "DELETED"].status = "DELETED"
               /\ [Spent(t) EXCEPT !.status = "DELETED"].family = token[t].family
    BY SpentOK DEF TokenRow
  <2> QED
    BY <1>1, <1>2, <2>1 DEF Clean, Cleanable, Ends
<1>3. ASSUME NEW q \in Procs, RevokeCommit(q) PROVE Quiet
  BY <1>3, SpentOK DEF RevokeCommit, Revoke, Live, Ends
<1>4. ASSUME NEW q \in Procs, PasswordCommit(q) PROVE Quiet
  BY <1>4, SpentOK DEF PasswordCommit, Revoke, Live, Ends
<1>5. ASSUME NEW t \in TokenIds, Expire(t) PROVE Quiet
  BY <1>5 DEF Expire, Ends, TokenRow
<1>6. ASSUME NEW q \in Procs, UserStep(q) \/ Fail(q) PROVE UNCHANGED token
  BY <1>6
     DEF UserStep, Register, VerifyEmail, GoogleRead, GoogleLink, SetStatusRead,
         SetRoleRead, EditSelfRead, SaveUser, Save, Fail
<1>7. ASSUME NEW q \in Procs,
             \/ LoginRead(q) \/ RefreshRead(q) \/ RotateUpdate(q) \/ Logout(q)
             \/ RevokeBegin(q) \/ ResetRead(q) \/ ChangeRead(q) \/ PasswordBegin(q)
      PROVE  UNCHANGED token
  BY <1>7
     DEF LoginRead, RefreshRead, RotateUpdate, Logout, RevokeBegin, ResetRead,
         ChangeRead, PasswordBegin
<1>8. ASSUME UNCHANGED vars PROVE UNCHANGED token
  BY <1>8 DEF vars
<1> QED
  BY <1>1, <1>2, <1>3, <1>4, <1>5, <1>6, <1>7, <1>8 DEF Next, HandlerStep, SessionStep

-----------------------------------------------------------------------------
(* The inductive invariant. *)

\* A rotation spends its token and issues another of the same family.
LEMMA RotationEffect ==
  ASSUME TypeOK, RotationsOK, NEW q \in Procs, RotateCommit(q)
  PROVE  /\ job[q].token \in TokenIds /\ job[q].family \in FamilyIds
         /\ Live(job[q].token) /\ token[job[q].token].family = job[q].family
         /\ token'[job[q].token] = Spent(job[q].token)
         /\ \E n \in TokenIds :
              /\ token[n].status = "NONE" /\ token'[n] = Issued(job[q].family)
              /\ \A t \in TokenIds \ {n, job[q].token} : token'[t] = token[t]
<1> USE DEF TypeOK, RowsOK
<1>1. PICK old \in TokenIds : old = job[q].token
  BY DEF RotateCommit, HandlersOK, Fits
<1>2. /\ job[q].family \in FamilyIds
      /\ Live(old) /\ token[old].family = job[q].family
  BY <1>1 DEF RotateCommit, HandlersOK, Fits, RotationsOK
<1>3. PICK n \in TokenIds :
        /\ token[n].status = "NONE"
        /\ token' = [token EXCEPT ![old] = Spent(old), ![n] = Issued(job[q].family)]
  BY <1>1 DEF RotateCommit
<1>4. n # old
  BY <1>2, <1>3 DEF Live
<1>5. /\ token'[old] = Spent(old) /\ token'[n] = Issued(job[q].family)
      /\ \A t \in TokenIds \ {n, old} : token'[t] = token[t]
  BY <1>3, <1>4
<1> QED
  BY <1>1, <1>2, <1>3, <1>5

LEMMA UserKnownStep ==
  ASSUME TypeOK, UserKnown, [Next]_vars
  PROVE  UserKnown'
<1>1. CASE user'.exists
  BY <1>1 DEF UserKnown
<1>2. CASE ~ user.exists /\ UNCHANGED vars
  BY <1>2 DEF UserKnown, vars
<1> QED
  BY <1>1, <1>2, UserEffect, UserBorn

LEMMA FamiliesKnownStep ==
  ASSUME TypeOK, FamiliesKnown, RotationsOK, [Next]_vars
  PROVE  FamiliesKnown'
<1> USE DEF TypeOK, RowsOK
<1>1. CASE \A t \in TokenIds : Ends(t)
  BY <1>1 DEF Ends, FamiliesKnown
<1>2. CASE \E q \in Procs : IssueTokens(q)
  BY <1>2, IssuedOK DEF IssueTokens, FamiliesKnown
<1>3. CASE \E q \in Procs : RotateCommit(q)
  <2>1. PICK q \in Procs : RotateCommit(q)
    BY <1>3
  <2>2. PICK n \in TokenIds :
          /\ token'[n] = Issued(job[q].family)
          /\ \A t \in TokenIds \ {n, job[q].token} : token'[t] = token[t]
    BY <2>1, RotationEffect
  <2>3. /\ job[q].token \in TokenIds /\ job[q].family \in FamilyIds
        /\ token[job[q].token].family = job[q].family
        /\ token'[job[q].token] = Spent(job[q].token)
    BY <2>1, RotationEffect
  <2>4. token'[job[q].token].family \in FamilyIds /\ token'[n].family \in FamilyIds
    BY <2>2, <2>3, IssuedOK, SpentOK
  <2> QED
    BY <2>2, <2>4 DEF FamiliesKnown
<1> QED
  BY <1>1, <1>2, <1>3, TokenEffect

\* A password change that commits was the only one.
LEMMA OneChange ==
  ASSUME TypeOK, ChangesOK, NEW q \in Procs, PasswordCommit(q), [Next]_vars
  PROVE  \A p \in Procs : pc'[p] # "PasswordCommit"
<1>1. pc[q] = "PasswordCommit" /\ pc'[q] = "idle"
      /\ \A p \in Procs \ {q} : pc'[p] = pc[p]
  BY GotoMoves DEF PasswordCommit, Return, TypeOK
<1> QED
  BY <1>1 DEF ChangesOK

LEMMA ChangesStep ==
  ASSUME TypeOK, UserKnown, ChangesOK, [Next]_vars
  PROVE  ChangesOK'
<1> SUFFICES ASSUME NEW q \in Procs, pc'[q] = "PasswordCommit"
             PROVE  /\ user'.password < LastPassword
                    /\ \A p \in Procs : pc'[p] = "PasswordCommit" => p = q
  BY DEF ChangesOK
<1>1. ~ \E p \in Procs : PasswordCommit(p)
  BY OneChange
<1>2. CASE PasswordBegin(q)
  <2>1. /\ user' = user /\ user.password < LastPassword
        /\ \A p \in Procs : pc[p] # "PasswordCommit"
        /\ \A p \in Procs \ {q} : pc'[p] = pc[p]
    BY <1>2, GotoMoves DEF PasswordBegin, UserHeld, TypeOK
  <2> QED
    BY <2>1
<1>3. CASE pc[q] = "PasswordCommit"
  <2>1. user.exists /\ user.password < LastPassword
    BY <1>3 DEF UserKnown, ChangesOK
  <2>2. user'.password < LastPassword
    BY <1>1, <2>1, UserEffect
  <2>3. ~ \E p \in Procs : PasswordBegin(p)
    BY <1>3 DEF PasswordBegin, UserHeld
  <2>4. \A p \in Procs : pc'[p] = "PasswordCommit" => pc[p] = "PasswordCommit"
    BY <2>3, Entries
  <2> QED
    BY <1>3, <2>2, <2>4 DEF ChangesOK
<1> QED
  BY <1>2, <1>3, Entries

\* Nothing but its own rotation ends a token between the update of the rotation
\* and its commit: the others wait for the row.
LEMMA HeldStaysLive ==
  ASSUME TypeOK, RotationsOK, [Next]_vars, NEW t \in HeldTokens
  PROVE  \/ t \in TokenIds /\ Live(t) /\ Live(t)' /\ token'[t].family = token[t].family
         \/ \E q \in Procs : RotateCommit(q) /\ job[q].token = t
<1> USE DEF TypeOK, RowsOK
<1> DEFINE Kept == Live(t)' /\ token'[t].family = token[t].family
<1>1. PICK p \in Procs : pc[p] = "RotateCommit" /\ job[p].token = t
  BY DEF HeldTokens
<1>2. t \in TokenIds /\ Live(t)
  BY <1>1 DEF HandlersOK, Fits, RotationsOK
<1>3. ASSUME token'[t] = token[t] PROVE Kept
  BY <1>2, <1>3 DEF Live
<1>4. ASSUME NEW q \in Procs, Clean(q) PROVE Kept
  <2>1. token'[t] = token[t]
    BY <1>2, <1>4 DEF Clean
  <2> QED
    BY <1>3, <2>1
<1>5. ASSUME NEW q \in Procs, RevokeCommit(q) PROVE Kept
  <2>1. t \notin job[q].rows
    BY <1>5 DEF RevokeCommit
  <2>2. token'[t] = token[t]
    BY <1>2, <1>5, <2>1 DEF RevokeCommit, Revoke
  <2> QED
    BY <1>3, <2>2
<1>6. ASSUME NEW q \in Procs, PasswordCommit(q) PROVE Kept
  <2>1. t \notin job[q].rows
    BY <1>6 DEF PasswordCommit
  <2>2. token'[t] = token[t]
    BY <1>2, <1>6, <2>1 DEF PasswordCommit, Revoke
  <2> QED
    BY <1>3, <2>2
<1>7. ASSUME NEW q \in Procs, IssueTokens(q) PROVE Kept
  <2>1. token'[t] = token[t]
    BY <1>2, <1>7 DEF IssueTokens, Live
  <2> QED
    BY <1>3, <2>1
<1>8. ASSUME NEW q \in Procs, RotateCommit(q), job[q].token # t PROVE Kept
  <2>1. token'[t] = token[t]
    BY <1>2, <1>8 DEF RotateCommit, Live
  <2> QED
    BY <1>3, <2>1
<1>9. ASSUME NEW o \in TokenIds, Expire(o) PROVE Kept
  BY <1>2, <1>9 DEF Expire, Live, TokenRow
<1>10. ASSUME UNCHANGED token PROVE Kept
  BY <1>3, <1>10
<1>11. ASSUME NEW q \in Procs, UserStep(q) \/ Fail(q) PROVE UNCHANGED token
  BY <1>11
     DEF UserStep, Register, VerifyEmail, GoogleRead, GoogleLink, SetStatusRead,
         SetRoleRead, EditSelfRead, SaveUser, Save, Fail
<1>12. ASSUME NEW q \in Procs,
             \/ LoginRead(q) \/ RefreshRead(q) \/ RotateUpdate(q) \/ Logout(q)
             \/ RevokeBegin(q) \/ ResetRead(q) \/ ChangeRead(q) \/ PasswordBegin(q)
      PROVE  UNCHANGED token
  BY <1>12
     DEF LoginRead, RefreshRead, RotateUpdate, Logout, RevokeBegin, ResetRead,
         ChangeRead, PasswordBegin
<1>13. ASSUME UNCHANGED vars PROVE UNCHANGED token
  BY <1>13 DEF vars
<1> QED
  BY <1>2, <1>4, <1>5, <1>6, <1>7, <1>8, <1>9, <1>10, <1>11, <1>12, <1>13
     DEF Next, HandlerStep, SessionStep

\* A token that was issued keeps its family.
LEMMA FamilyKept ==
  ASSUME TypeOK, RotationsOK, [Next]_vars, NEW t \in TokenIds, token[t].status # "NONE"
  PROVE  token'[t].status # "NONE" /\ token'[t].family = token[t].family
<1> USE DEF TypeOK, RowsOK
<1>1. CASE Ends(t)
  BY <1>1 DEF Ends
<1>2. CASE \E q \in Procs : IssueTokens(q)
  BY <1>2 DEF IssueTokens
<1>3. CASE \E q \in Procs : RotateCommit(q)
  <2>1. PICK q \in Procs : RotateCommit(q)
    BY <1>3
  <2>2. token'[t] \in {token[t], Spent(t)}
    BY <2>1, RotationEffect
  <2> QED
    BY <2>2, SpentOK
<1> QED
  BY <1>1, <1>2, <1>3, TokenEffect

LEMMA RotationsStep ==
  ASSUME TypeOK, RotationsOK, [Next]_vars
  PROVE  RotationsOK'
<1> USE DEF TypeOK
<1>1. ASSUME NEW q \in Procs, pc'[q] \in {"RotateUpdate", "RotateCommit"}
      PROVE  /\ token'[job'[q].token].status # "NONE"
             /\ token'[job'[q].token].family = job'[q].family
  <2>1. CASE pc[q] \in {"RotateUpdate", "RotateCommit"} /\ job'[q] = job[q]
    <3>1. /\ job[q].token \in TokenIds /\ token[job[q].token].status # "NONE"
          /\ token[job[q].token].family = job[q].family
      BY <2>1 DEF HandlersOK, Fits, RotationsOK
    <3> QED
      BY <2>1, <3>1, FamilyKept
  <2>2. CASE RefreshRead(q)
    <3>1. PICK t \in TokenIds :
            \/ Goto(q, "RevokeBegin", [NoJob EXCEPT !.family = FamilyOf(t)])
            \/ /\ Live(t)
               /\ Goto(q, "RotateUpdate", [NoJob EXCEPT !.token = t, !.family = token[t].family])
      BY <2>2 DEF RefreshRead
    <3>2. Live(t) /\ job'[q] = [NoJob EXCEPT !.token = t, !.family = token[t].family]
      BY <1>1, <3>1, GotoMoves
    <3>3. job'[q].token = t /\ job'[q].family = token[t].family /\ token' = token
      BY <2>2, <3>2 DEF NoJob, RefreshRead
    <3> QED
      BY <3>2, <3>3 DEF Live
  <2>3. CASE RotateUpdate(q)
    <3>1. pc[q] = "RotateUpdate" /\ job'[q] = job[q] /\ token' = token
      BY <1>1, <2>3, GotoMoves DEF RotateUpdate
    <3> QED
      BY <3>1 DEF RotationsOK
  <2> QED
    BY <1>1, <2>1, <2>2, <2>3, Entries
<1>2. ASSUME NEW q \in Procs, pc'[q] = "RotateCommit"
      PROVE  /\ token'[job'[q].token].status = "LIVE"
             /\ \A p \in Procs : pc'[p] = "RotateCommit" /\ job'[p].token = job'[q].token => p = q
  <2>1. CASE RotateUpdate(q)
    <3>1. /\ pc[q] = "RotateUpdate" /\ job'[q] = job[q] /\ token' = token
          /\ job[q].token \notin HeldTokens /\ Live(job[q].token)
          /\ \A p \in Procs \ {q} : pc'[p] = pc[p] /\ job'[p] = job[p]
      BY <1>2, <2>1, GotoMoves DEF RotateUpdate, Rotatable
    <3>2. \A p \in Procs : pc[p] = "RotateCommit" => job[p].token # job[q].token
      BY <3>1 DEF HeldTokens
    <3> QED
      BY <3>1, <3>2 DEF Live
  <2>2. CASE pc[q] = "RotateCommit" /\ job'[q] = job[q]
    <3>1. job[q].token \in HeldTokens
      BY <2>2 DEF HeldTokens
    <3>2. ~ \E p \in Procs : RotateCommit(p) /\ job[p].token = job[q].token
      <4> SUFFICES ASSUME NEW p \in Procs, RotateCommit(p), job[p].token = job[q].token
                   PROVE  FALSE
        OBVIOUS
      <4>1. pc[p] = "RotateCommit" /\ pc'[p] = "idle"
        BY GotoMoves DEF RotateCommit, Return
      <4>2. p = q
        BY <2>2, <4>1 DEF RotationsOK
      <4> QED
        BY <1>2, <4>1, <4>2
    <3>3. token'[job[q].token].status = "LIVE"
      BY <3>1, <3>2, HeldStaysLive DEF Live
    <3>4. ASSUME NEW p \in Procs, pc'[p] = "RotateCommit", job'[p].token = job'[q].token,
                 p # q
          PROVE  FALSE
      <4>1. CASE pc[p] = "RotateCommit" /\ job'[p] = job[p]
        BY <2>2, <3>4, <4>1 DEF RotationsOK
      <4>2. CASE RotateUpdate(p)
        <5>1. job'[p] = job[p] /\ job[p].token \notin HeldTokens
          BY <3>4, <4>2, GotoMoves DEF RotateUpdate
        <5> QED
          BY <2>2, <3>1, <3>4, <5>1
      <4> QED
        BY <3>4, <4>1, <4>2, Entries
    <3> QED
      BY <2>2, <3>3, <3>4
  <2> QED
    BY <1>2, <2>1, <2>2, Entries
<1> QED
  BY <1>1, <1>2 DEF RotationsOK, Live

LEMMA AccountInit == Init => AccountInv
<1> SUFFICES ASSUME Init PROVE AccountInv
  OBVIOUS
<1>1. TypeOK
  BY NoRowsOK, NoJobOK DEF Init, TypeOK, RowsOK, HandlersOK, Steps
<1>2. UserKnown /\ FamiliesKnown /\ ChangesOK /\ RotationsOK
  BY DEF Init, NoToken, UserKnown, FamiliesKnown, ChangesOK, RotationsOK
<1> QED
  BY <1>1, <1>2 DEF AccountInv

LEMMA AccountStep == AccountInv /\ [Next]_vars => AccountInv'
<1> SUFFICES ASSUME AccountInv, [Next]_vars PROVE AccountInv'
  OBVIOUS
<1> USE DEF AccountInv
<1>1. TypeOK'
  BY TypeStep
<1>2. UserKnown' /\ FamiliesKnown' /\ ChangesOK' /\ RotationsOK'
  BY UserKnownStep, FamiliesKnownStep, ChangesStep, RotationsStep
<1> QED
  BY <1>1, <1>2

LEMMA AccountInvariant == Spec => []AccountInv
  BY AccountInit, AccountStep, PTL DEF Spec

\* Every variable keeps its type: no counter passes its bound and no handler
\* loses the row it works on.
THEOREM AccountTypesCorrect == Spec => []TypeOK
<1>1. AccountInv => TypeOK
  BY DEF AccountInv
<1> QED
  BY <1>1, AccountInvariant, PTL

-----------------------------------------------------------------------------
(* One live token per family. *)

LEMMA OneLiveStep ==
  ASSUME TypeOK, RotationsOK, OneLiveTokenPerFamily, [Next]_vars
  PROVE  OneLiveTokenPerFamily'
<1> USE DEF TypeOK, RowsOK
<1>1. CASE \A t \in TokenIds : Ends(t)
  BY <1>1 DEF Ends, Live, OneLiveTokenPerFamily
<1>2. CASE \E q \in Procs : IssueTokens(q)
  <2>1. PICK n \in TokenIds, f \in FamilyIds :
          /\ \A o \in TokenIds : token[o].family # f
          /\ token' = [token EXCEPT ![n] = Issued(f)]
    BY <1>2 DEF IssueTokens
  <2>2. token'[n].family = f /\ \A o \in TokenIds \ {n} : token'[o] = token[o]
    BY <2>1, IssuedOK
  <2> QED
    BY <2>1, <2>2 DEF Live, OneLiveTokenPerFamily
<1>3. CASE \E q \in Procs : RotateCommit(q)
  <2>1. PICK q \in Procs : RotateCommit(q)
    BY <1>3
  <2>2. PICK old \in TokenIds : old = job[q].token
    BY <2>1, RotationEffect
  <2>3. /\ Live(old) /\ token[old].family = job[q].family /\ job[q].family \in FamilyIds
        /\ token'[old].status # "LIVE"
    BY <2>1, <2>2, RotationEffect, SpentOK
  <2>4. PICK n \in TokenIds :
          /\ token'[n] = Issued(job[q].family)
          /\ \A t \in TokenIds \ {n, old} : token'[t] = token[t]
    BY <2>1, <2>2, RotationEffect
  <2>5. token'[n].family = job[q].family
    BY <2>3, <2>4, IssuedOK
  <2>6. \A t \in TokenIds \ {n, old} :
          token'[t].status = "LIVE" => token'[t].family # token'[n].family
    BY <2>3, <2>4, <2>5 DEF Live, OneLiveTokenPerFamily
  <2> QED
    BY <2>3, <2>4, <2>6 DEF Live, OneLiveTokenPerFamily
<1> QED
  BY <1>1, <1>2, <1>3, TokenEffect

\* However many requests present one refresh token, its family never has two
\* live tokens.
THEOREM FamiliesHaveOneLiveToken == Spec => []OneLiveTokenPerFamily
<1> DEFINE IInv == AccountInv /\ OneLiveTokenPerFamily
<1>1. Init => IInv
  BY AccountInit DEF Init, NoToken, Live, OneLiveTokenPerFamily
<1>2. IInv /\ [Next]_vars => IInv'
  BY AccountStep, OneLiveStep DEF AccountInv
<1>3. IInv => OneLiveTokenPerFamily
  OBVIOUS
<1> QED
  BY <1>1, <1>2, <1>3, PTL DEF Spec

-----------------------------------------------------------------------------
(* What is over stays over. *)

\* A rotation that is about to commit was there before, or its token is live.
LEMMA HoldersArrive ==
  ASSUME TypeOK, [Next]_vars, NEW t \in HeldTokens'
  PROVE  t \in HeldTokens \/ Live(t)
<1>1. PICK q \in Procs : pc'[q] = "RotateCommit" /\ job'[q].token = t
  BY DEF HeldTokens
<1>2. CASE pc[q] = "RotateCommit" /\ job'[q] = job[q]
  BY <1>1, <1>2 DEF HeldTokens
<1>3. CASE RotateUpdate(q)
  BY <1>1, <1>3, GotoMoves DEF RotateUpdate, Rotatable, TypeOK
<1> QED
  BY <1>1, <1>2, <1>3, Entries

LEMMA DeadStep ==
  ASSUME TypeOK, RotationsOK, [Next]_vars, NEW f \in FamilyIds, Dead(f)
  PROVE  Dead(f)'
<1> USE DEF TypeOK, RowsOK
<1>1. PICK d \in TokenIds : token[d].status # "NONE" /\ token[d].family = f
  BY DEF Dead, TokensOf
<1>2. \A t \in TokenIds : token[t].status # "NONE" /\ token[t].family = f =>
                            token[t].status # "LIVE" /\ t \notin HeldTokens
  BY DEF Dead, TokensOf, Live
\* No token joins the family, and none of its tokens becomes live.
<1>3. \A t \in TokenIds : token'[t].status # "NONE" /\ token'[t].family = f =>
                            /\ token[t].status # "NONE" /\ token[t].family = f
                            /\ token'[t].status # "LIVE"
  <2>1. CASE \A t \in TokenIds : Ends(t)
    <3> SUFFICES ASSUME NEW t \in TokenIds, token'[t].status # "NONE", token'[t].family = f
                 PROVE  /\ token[t].status # "NONE" /\ token[t].family = f
                        /\ token'[t].status # "LIVE"
      OBVIOUS
    <3>1. token[t].status # "NONE" /\ token[t].family = f
      BY <2>1 DEF Ends
    <3> QED
      BY <1>2, <2>1, <3>1 DEF Ends
  <2>2. CASE \E q \in Procs : IssueTokens(q)
    <3>1. PICK n \in TokenIds, g \in FamilyIds :
            /\ \A o \in TokenIds : token[o].family # g
            /\ token' = [token EXCEPT ![n] = Issued(g)]
      BY <2>2 DEF IssueTokens
    <3>2. token'[n].family = g /\ g # f /\ \A o \in TokenIds \ {n} : token'[o] = token[o]
      BY <1>1, <3>1, IssuedOK
    <3> QED
      BY <1>2, <3>2
  <2>3. CASE \E q \in Procs : RotateCommit(q)
    <3>1. PICK q \in Procs : RotateCommit(q)
      BY <2>3
    <3>2. PICK old \in TokenIds : old = job[q].token
      BY <3>1, RotationEffect
    <3>3. /\ token[old].status = "LIVE" /\ token[old].family = job[q].family
          /\ token'[old].family = token[old].family /\ job[q].family \in FamilyIds
      BY <3>1, <3>2, RotationEffect, SpentOK DEF Live
    <3>4. job[q].family # f
      BY <1>2, <3>3
    <3>5. PICK n \in TokenIds :
            /\ token'[n] = Issued(job[q].family)
            /\ \A t \in TokenIds \ {n, old} : token'[t] = token[t]
      BY <3>1, <3>2, RotationEffect
    <3>6. token'[n].family # f /\ token'[old].family # f
      BY <3>3, <3>4, <3>5, IssuedOK
    <3> QED
      BY <1>2, <3>5, <3>6
  <2> QED
    BY <2>1, <2>2, <2>3, TokenEffect
<1>4. \A t \in TokenIds : token[t].status # "NONE" /\ token[t].family = f => t \notin HeldTokens'
  BY <1>2, HoldersArrive DEF Live
<1>5. token'[d].status # "NONE" /\ token'[d].family = f
  BY <1>1, FamilyKept
<1> QED
  BY <1>3, <1>4, <1>5 DEF Dead, TokensOf, Live

\* A family without a live token that no rotation is about to replace stays so
\* for good: no handler that read it earlier revives the session.
THEOREM SessionsStayOver == Spec => DeadFamiliesStayDead
<1> DEFINE Stay == \A f \in FamilyIds : Dead(f) => Dead(f)'
<1>1. AccountInv /\ [Next]_vars => [Stay]_vars
  BY DeadStep DEF AccountInv
<1> QED
  BY <1>1, AccountInvariant, PTL DEF Spec, DeadFamiliesStayDead

LEMMA SpentStep ==
  ASSUME TypeOK, RotationsOK, [Next]_vars, NEW t \in TokenIds
  PROVE  /\ token[t].status = "REVOKED" =>
              \/ token'[t].status = "REVOKED"
              \/ token'[t].status = "DELETED" /\ token[t].expired
         /\ token[t].status = "DELETED" => token'[t].status = "DELETED"
<1>1. CASE Ends(t)
  BY <1>1 DEF Ends
<1>2. CASE \E q \in Procs : IssueTokens(q)
  BY <1>2 DEF IssueTokens, TypeOK, RowsOK
<1>3. CASE \E q \in Procs : RotateCommit(q)
  <2>1. token[t].status = "LIVE" \/ token[t].status = "NONE" \/ token'[t] = token[t]
    BY <1>3, RotationEffect DEF Live
  <2> QED
    BY <2>1
<1> QED
  BY <1>1, <1>2, <1>3, TokenEffect

\* A spent token is known as spent until it has expired, so that its reuse is
\* detected, and a deleted one never returns.
THEOREM SpentTokensStaySpent == Spec => SpentTokensAreKept
<1> DEFINE Kept == \A t \in TokenIds :
             /\ token[t].status = "REVOKED" =>
                  \/ token'[t].status = "REVOKED"
                  \/ token'[t].status = "DELETED" /\ token[t].expired
             /\ token[t].status = "DELETED" => token'[t].status = "DELETED"
<1>1. AccountInv /\ [Next]_vars => [Kept]_vars
  BY SpentStep DEF AccountInv
<1> QED
  BY <1>1, AccountInvariant, PTL DEF Spec, SpentTokensAreKept

-----------------------------------------------------------------------------
(* The sessions are chains of tokens. *)

LiveSet == {t \in TokenIds : Live(t)}

\* Tokens end, or nothing the abstract specification sees changes.
LEMMA EndsMap ==
  ASSUME \A t \in TokenIds : Ends(t)
  PROVE  Chains!Next
<1> DEFINE S == LiveSet \ LiveSet'
<1>1. S \in SUBSET TokenIds /\ LiveSet' = LiveSet \ S
  BY DEF LiveSet, Live, Ends
<1>2. \A f \in FamilyIds : TokensOf(f)' = TokensOf(f)
  BY DEF TokensOf, Ends
<1>3. [f \in FamilyIds |-> TokensOf(f)]' = [f \in FamilyIds |-> TokensOf(f)]
  BY <1>2
<1>4. Chains!End(S)
  BY <1>1, <1>3 DEF Chains!End, LiveSet
<1> QED
  BY <1>1, <1>4 DEF Chains!Next

\* A token that was never issued belongs to no family.
LEMMA Unissued ==
  ASSUME NEW n \in TokenIds, token[n].status = "NONE"
  PROVE  n \in Chains!Unissued
  BY DEF Chains!Unissued, TokensOf

LEMMA LoginMaps ==
  ASSUME TypeOK, NEW q \in Procs, IssueTokens(q)
  PROVE  Chains!Next
<1> USE DEF TypeOK, RowsOK
<1>1. PICK n \in TokenIds, f \in FamilyIds :
        /\ token[n].status = "NONE"
        /\ \A o \in TokenIds : token[o].family # f
        /\ token' = [token EXCEPT ![n] = Issued(f)]
  BY DEF IssueTokens
<1>2. /\ token'[n].status = "LIVE" /\ token'[n].family = f
      /\ \A t \in TokenIds \ {n} : token'[t] = token[t]
  BY <1>1, IssuedOK
<1>3. TokensOf(f) = {} /\ TokensOf(f)' = {n}
  BY <1>1, <1>2 DEF TokensOf
<1>4. \A g \in FamilyIds \ {f} : TokensOf(g)' = TokensOf(g)
  BY <1>1, <1>2 DEF TokensOf
<1>5. LiveSet' = LiveSet \cup {n}
  BY <1>1, <1>2 DEF LiveSet, Live
<1>6. [g \in FamilyIds |-> TokensOf(g)]'
        = [[g \in FamilyIds |-> TokensOf(g)] EXCEPT ![f] = {n}]
  BY <1>3, <1>4
<1>7. Chains!Open(f)
  BY <1>1, <1>3, <1>5, <1>6, Unissued DEF Chains!Open, LiveSet
<1> QED
  BY <1>7 DEF Chains!Next

LEMMA RotationMaps ==
  ASSUME TypeOK, RotationsOK, NEW q \in Procs, RotateCommit(q)
  PROVE  Chains!Next
<1> USE DEF TypeOK, RowsOK
<1>1. PICK old \in TokenIds, f \in FamilyIds : old = job[q].token /\ f = job[q].family
  BY RotationEffect
<1>2. Live(old) /\ token[old].family = f
  BY <1>1, RotationEffect
<1>3. token'[old].status = "REVOKED" /\ token'[old].family = f
  BY <1>1, <1>2, RotationEffect, SpentOK
<1>4. PICK n \in TokenIds :
        /\ token[n].status = "NONE" /\ token'[n] = Issued(f)
        /\ \A t \in TokenIds \ {n, old} : token'[t] = token[t]
  BY <1>1, RotationEffect
<1>5. token'[n].status = "LIVE" /\ token'[n].family = f
  BY <1>4, IssuedOK
<1>6. TokensOf(f)' = TokensOf(f) \cup {n}
  BY <1>2, <1>3, <1>4, <1>5 DEF TokensOf, Live
<1>7. \A g \in FamilyIds \ {f} : TokensOf(g)' = TokensOf(g)
  BY <1>2, <1>3, <1>4, <1>5 DEF TokensOf, Live
<1>8. LiveSet' = (LiveSet \ {old}) \cup {n}
  BY <1>2, <1>3, <1>4, <1>5 DEF LiveSet, Live
<1>9. [g \in FamilyIds |-> TokensOf(g)]'
        = [[g \in FamilyIds |-> TokensOf(g)] EXCEPT ![f] = @ \cup {n}]
  BY <1>6, <1>7
<1>10. old \in TokensOf(f) /\ old \in LiveSet
  BY <1>2 DEF TokensOf, LiveSet, Live
<1>11. Chains!Exchange(f, old)
  BY <1>4, <1>8, <1>9, <1>10, Unissued DEF Chains!Exchange, LiveSet
<1> QED
  BY <1>11 DEF Chains!Next

LEMMA InitMaps == Init => Chains!Init
  BY DEF Init, NoToken, Chains!Init, TokensOf, Live

\* The handlers implement TokenChains, for any number of requests, tokens and
\* families: a login, the commit of a rotation and whatever ends tokens are its
\* three actions.
THEOREM SessionsImplementChains == Spec => SessionsAreChains
<1>1. AccountInv /\ [Next]_vars => [Chains!Next]_(Chains!chains)
  BY TokenEffect, EndsMap, LoginMaps, RotationMaps DEF AccountInv
<1> QED
  BY <1>1, InitMaps, AccountInvariant, PTL DEF Spec, SessionsAreChains, Chains!Spec

Promise == INSTANCE TokenChainsProofs WITH
  issued <- [f \in FamilyIds |-> TokensOf(f)],
  current <- {t \in TokenIds : Live(t)}

LEMMA ChainsPromise == SessionsAreChains => Promise!Spec
  BY DEF SessionsAreChains, Chains!Spec, Promise!Spec, Chains!Init, Promise!Init,
         Chains!Next, Promise!Next, Chains!chains, Promise!chains, Chains!Open, Promise!Open,
         Chains!Exchange, Promise!Exchange, Chains!End, Promise!End,
         Chains!Unissued, Promise!Unissued

\* What TokenChains promises holds of the handlers: no token ever belongs to two
\* families, and every live token belongs to one.
THEOREM SessionsHaveOneEnd == Spec => []Chains!ChainsOK
<1>1. Promise!ChainsOK <=> Chains!ChainsOK
  BY DEF Promise!ChainsOK, Chains!ChainsOK
<1> QED
  BY <1>1, SessionsImplementChains, ChainsPromise, Promise!ChainsHaveOneEnd, PTL

\* A token that was used, revoked or deleted is never live again, and a family
\* none of whose tokens is live gets no other token.
THEOREM SessionsEndForGood == Spec => Chains!ChainsEnd
<1>1. Promise!ChainsEnd => Chains!ChainsEnd
  BY DEF Promise!ChainsEnd, Chains!ChainsEnd, Promise!chains, Chains!chains
<1> QED
  BY <1>1, SessionsImplementChains, ChainsPromise, Promise!ChainsStayOver, PTL

-----------------------------------------------------------------------------
(* Password changes. *)

\* A password, once there is a user, is only ever replaced by the next one.
THEOREM PasswordsOnlyAdvance == Spec => PasswordNeverReverts
<1> DEFINE Kept == user.exists => user'.exists /\ user'.password >= user.password
<1>1. AccountInv /\ [Next]_vars => [Kept]_vars
  <2> SUFFICES ASSUME AccountInv, [Next]_vars, user.exists
               PROVE  user'.exists /\ user'.password >= user.password
    OBVIOUS
  <2>1. user.password \in Nat
    BY PasswordBoundAssumption DEF AccountInv, TypeOK, RowsOK, UserRow
  <2> QED
    BY <2>1, UserEffect DEF AccountInv
<1> QED
  BY <1>1, AccountInvariant, PTL DEF Spec, PasswordNeverReverts

\* While a password change is under way, a live token that its snapshot saw is
\* one that it revokes or spares.
ChangesSeeTokens ==
  \A q \in Procs : pc[q] = "PasswordCommit" =>
    /\ job[q].known \subseteq IssuedTokens
    /\ \A t \in job[q].known : Live(t) =>
         t \in job[q].rows \/ token[t].family = job[q].family

LEMMA ChangesSeeTokensStep ==
  ASSUME AccountInv, ChangesSeeTokens, [Next]_vars
  PROVE  ChangesSeeTokens'
<1> USE DEF AccountInv
<1> SUFFICES ASSUME NEW q \in Procs, pc'[q] = "PasswordCommit"
             PROVE  /\ job'[q].known \subseteq IssuedTokens'
                    /\ \A t \in job'[q].known : Live(t)' =>
                         t \in job'[q].rows \/ token'[t].family = job'[q].family
  BY DEF ChangesSeeTokens
<1>1. CASE PasswordBegin(q)
  <2>1. /\ job[q] \in Jobs /\ token' = token
        /\ job'[q] = [job[q] EXCEPT !.rows = Sweepable(job[q].family), !.known = IssuedTokens]
    BY <1>1, GotoMoves DEF PasswordBegin, TypeOK, HandlersOK
  <2>2. /\ job'[q].rows = Sweepable(job[q].family) /\ job'[q].family = job[q].family
        /\ job'[q].known = IssuedTokens
    BY <2>1 DEF Jobs
  <2> QED
    BY <2>1, <2>2 DEF Sweepable, IssuedTokens, Live
<1>2. CASE pc[q] = "PasswordCommit" /\ job'[q] = job[q]
  <2>1. ASSUME NEW t \in job[q].known
        PROVE  /\ t \in IssuedTokens'
               /\ Live(t)' => Live(t) /\ token'[t].family = token[t].family
    <3>1. t \in TokenIds /\ token[t].status # "NONE" /\ token[t] \in TokenRow
      BY <1>2, <2>1 DEF ChangesSeeTokens, IssuedTokens, TypeOK, RowsOK
    <3>2. token'[t].status # "NONE" /\ token'[t].family = token[t].family
      BY <3>1, FamilyKept
    <3>3. Live(t)' => Live(t)
      BY <3>1, SpentStep DEF Live, TokenRow
    <3> QED
      BY <3>1, <3>2, <3>3 DEF IssuedTokens
  <2> QED
    BY <1>2, <2>1 DEF ChangesSeeTokens
<1> QED
  BY <1>1, <1>2, Entries

LEMMA CommitEndsTokens ==
  ASSUME AccountInv, ChangesSeeTokens, NEW q \in Procs, PasswordCommit(q),
         NEW t \in TokenIds, Live(t)', t \in job[q].known
  PROVE  token'[t].family = job[q].family
<1>1. Live(t) /\ t \notin job[q].rows /\ token'[t] = token[t]
  BY SpentOK DEF AccountInv, TypeOK, PasswordCommit, Revoke, Live
<1> QED
  BY <1>1 DEF ChangesSeeTokens, PasswordCommit

\* None of the tokens that a password reset or change saw when it took its
\* snapshot outlives it, but those of the session it spares: a session that
\* goes on does so with a token that was issued while the change was under way.
THEOREM PasswordChangesEndTokens == Spec => PasswordChangeEndsTokens
<1> DEFINE IInv == AccountInv /\ ChangesSeeTokens
           Ended == \A q \in Procs : PasswordCommit(q) =>
                      \A t \in TokenIds : Live(t)' =>
                        token'[t].family = job[q].family \/ t \notin job[q].known
<1>1. Init => IInv
  BY AccountInit DEF Init, ChangesSeeTokens
<1>2. IInv /\ [Next]_vars => IInv'
  BY AccountStep, ChangesSeeTokensStep
<1>3. IInv /\ [Next]_vars => [Ended]_vars
  BY CommitEndsTokens
<1> QED
  BY <1>1, <1>2, <1>3, PTL DEF Spec, PasswordChangeEndsTokens

=============================================================================
