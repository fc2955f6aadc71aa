--------------------------------- MODULE Otp ---------------------------------
(***************************************************************************)
(* OtpService for one purpose and one address, behind the throttler of     *)
(* the authentication routes.  Codes are numbered in the order they are    *)
(* generated; a client presents a code it was sent, or a wrong one (0).    *)
(***************************************************************************)
EXTENDS Redis, FiniteSets

CONSTANTS
  Procs,        \* concurrent HTTP requests
  CodeTtl,      \* OTP_TTL_SECONDS
  CooldownTtl,  \* OTP_RESEND_COOLDOWN_SECONDS
  MaxAttempts,  \* OTP_MAX_ATTEMPTS
  Window,       \* the time window of the throttler, and its block duration
  Limit,        \* requests in a window
  LastCode      \* bound on the codes generated

ASSUME OtpAssumption ==
  /\ {CodeTtl, CooldownTtl, Window} \subseteq 1 .. (Forever - 1)
  /\ {MaxAttempts, Limit, LastCode} \subseteq Nat \ {0}
  /\ Keys = {"code", "cooldown", "hits", "block"}

VARIABLES
  issued,    \* codes generated so far
  used,      \* the codes that were accepted
  admitted,  \* requests let through since the counter of the window was made
  pc, job

vars == <<redis, issued, used, admitted, pc, job>>

Goto(q, step, guess) ==
  /\ pc' = [pc EXCEPT ![q] = step]
  /\ job' = [job EXCEPT ![q] = guess]

Return(q) == Goto(q, "idle", 0)

\* Wrong form of CooldownEntry: the cooldown key is set without EX.
CooldownForever == Stored(0, Forever)

CooldownEntry == Stored(0, CooldownTtl)

\* issue: SET NX of the cooldown; while it is there no code is generated.
IssueCooldown(q) ==
  /\ pc[q] = "idle"
  /\ ~ Present("cooldown")
  /\ redis' = [redis EXCEPT !["cooldown"] = CooldownEntry]
  /\ Goto(q, "IssueCode", 0)
  /\ UNCHANGED <<issued, used, admitted>>

\* issue: the new code replaces the old one and its attempts, and is mailed.
IssueCode(q) ==
  /\ pc[q] = "IssueCode"
  /\ issued < LastCode
  /\ issued' = issued + 1
  /\ redis' = [redis EXCEPT !["code"] = Stored(issued + 1, CodeTtl)]
  /\ Return(q)
  /\ UNCHANGED <<used, admitted>>

-----------------------------------------------------------------------------
(* RedisThrottlerStorage: the script that counts a request. *)

\* Wrong form of OverLimit: the count before the request is compared.
OverLimitBefore(n) == n - 1 > Limit

OverLimit(n) == n > Limit

\* Wrong form of WhileBlocked: a blocked request prolongs the block.
WhileBlockedAgain == [redis EXCEPT !["block"].ttl = Window]

\* A blocked request changes nothing.
WhileBlocked == redis

\* The counter after one more request; the first one opens the window.
Hits ==
  LET e == Counted("hits")
  IN  IF e.count = 1 THEN [e EXCEPT !.ttl = Window] ELSE e

\* A client submits a code; the request is refused or handed to verify.
Submit(q, guess) ==
  /\ pc[q] = "idle"
  /\ IF Present("block")
       THEN redis' = WhileBlocked /\ UNCHANGED <<admitted, pc, job>>
     ELSE IF OverLimit(Hits.count)
       THEN /\ redis' = [redis EXCEPT !["hits"] = Hits, !["block"] = Stored(0, Window)]
            /\ UNCHANGED <<admitted, pc, job>>
     ELSE /\ redis' = [redis EXCEPT !["hits"] = Hits]
          /\ admitted' = IF Hits.count = 1 THEN 1 ELSE admitted + 1
          /\ Goto(q, "Verify", guess)
  /\ UNCHANGED <<issued, used>>

-----------------------------------------------------------------------------
(* OtpService.verify: the script that checks a code. *)

\* Wrong form of AfterMatch: an accepted code stays until it expires.
AfterMatchKept == redis["code"]

\* The key once its code was accepted.
AfterMatch == Gone

\* Wrong form of AfterMiss: the code is never locked.
AfterMissOpen == Counted("code")

\* The key after a wrong guess; the last attempt locks the code.
AfterMiss ==
  IF Counted("code").count >= MaxAttempts THEN Gone ELSE Counted("code")

Verify(q) ==
  /\ pc[q] = "Verify"
  /\ IF ~ Present("code")
       THEN UNCHANGED <<redis, used>>
     ELSE IF redis["code"].ref = job[q]
       THEN /\ redis' = [redis EXCEPT !["code"] = AfterMatch]
            /\ used' = used \cup {job[q]}
     ELSE /\ redis' = [redis EXCEPT !["code"] = AfterMiss]
          /\ UNCHANGED used
  /\ Return(q)
  /\ UNCHANGED <<issued, admitted>>

-----------------------------------------------------------------------------

Init ==
  /\ redis = [k \in Keys |-> Gone]
  /\ issued = 0
  /\ used = {}
  /\ admitted = 0
  /\ pc = [q \in Procs |-> "idle"]
  /\ job = [q \in Procs |-> 0]

\* Time passes.
Tick ==
  /\ redis' = [k \in Keys |-> Aged(redis[k])]
  /\ UNCHANGED <<issued, used, admitted, pc, job>>

\* A crash, or Redis fails, between two commands of a request.
Fail(q) ==
  /\ pc[q] # "idle"
  /\ Return(q)
  /\ UNCHANGED <<redis, issued, used, admitted>>

HandlerStep(q) ==
  \/ IssueCooldown(q) \/ IssueCode(q) \/ Verify(q) \/ Fail(q)
  \/ \E guess \in 0 .. issued : Submit(q, guess)

Next == Tick \/ \E q \in Procs : HandlerStep(q)

\* Time never stops; no client has to do anything.
Spec == Init /\ [][Next]_vars /\ WF_vars(Tick)

\* No key outlives the time that the code gives it: a counter that Redis makes
\* without a limit gets one in the same script.
LifetimesOK ==
  /\ redis["code"].ttl <= CodeTtl
  /\ redis["cooldown"].ttl <= CooldownTtl
  /\ redis["hits"].ttl <= Window
  /\ redis["block"].ttl <= Window

\* Every variable has its type, and every key in the store a limited lifetime.
TypeOK ==
  /\ redis \in [Keys -> Entry]
  /\ LifetimesOK
  /\ issued \in 0 .. LastCode
  /\ used \in SUBSET (1 .. LastCode)
  /\ admitted \in Nat
  /\ pc \in [Procs -> {"idle", "IssueCode", "Verify"}]
  /\ job \in [Procs -> 0 .. LastCode]

-----------------------------------------------------------------------------
(* What must hold. *)

\* A code is accepted once: after that it is in the store no more, whatever is
\* issued and submitted meanwhile.
UsedCodesAreGone == Present("code") => redis["code"].ref \notin used

\* However requests interleave with expiry and reissue, a code survives fewer
\* than MaxAttempts wrong guesses, and only a new code gets new attempts.
GuessBudget ==
  [][ Present("code") /\ Present("code")' /\ redis'["code"].ref = redis["code"].ref =>
        redis'["code"].count \in redis["code"].count .. (MaxAttempts - 1) ]_vars

\* The throttler lets no more than Limit requests through in a window.
AdmittedPerWindow == Present("hits") => admitted <= Limit

\* Nobody is shut out for good: the cooldown that a failed request left
\* without a code ends, and so does a block, even if the client keeps trying.
LockoutsEnd == \A k \in {"cooldown", "hits", "block"} : Present(k) ~> ~ Present(k)

=============================================================================
