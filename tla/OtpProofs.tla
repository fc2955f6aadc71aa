----------------------------- MODULE OtpProofs -----------------------------
(***************************************************************************)
(* The safety properties of Otp, for every instance of its constants.      *)
(***************************************************************************)
EXTENDS Otp, TLAPS

\* The code in the store was issued, is not used and has attempts left.
CodeOK ==
  Present("code") =>
    /\ redis["code"].ref \in 1 .. issued
    /\ redis["code"].ref \notin used
    /\ redis["code"].count < MaxAttempts

\* The window counts at least the requests that it let through.
WindowOK ==
  Present("hits") =>
    redis["hits"].count >= 1 /\ admitted <= redis["hits"].count /\ admitted <= Limit

OtpInv == TypeOK /\ used \subseteq 1 .. issued /\ CodeOK /\ WindowOK

-----------------------------------------------------------------------------
(* The store. *)

LEMMA KeysAre ==
  /\ {"code", "cooldown", "hits", "block"} \subseteq Keys
  /\ Forever \in Nat /\ Forever >= 1
  /\ {CodeTtl, CooldownTtl, Window} \subseteq 1 .. (Forever - 1)
  /\ {MaxAttempts, Limit, LastCode} \subseteq Nat \ {0}
  BY OtpAssumption, ForeverAssumption

LEMMA GoneOK == Gone \in Entry /\ Gone.ttl = 0
  BY KeysAre DEF Gone, Entry

LEMMA StoredOK ==
  ASSUME NEW ref \in Nat, NEW ttl \in 1 .. (Forever - 1)
  PROVE  /\ Stored(ref, ttl) \in Entry
         /\ Stored(ref, ttl).ref = ref /\ Stored(ref, ttl).count = 0
         /\ Stored(ref, ttl).ttl = ttl
  BY KeysAre DEF Stored, Entry

LEMMA CountedOK ==
  ASSUME NEW k \in Keys, redis \in [Keys -> Entry]
  PROVE  /\ Counted(k) \in Entry
         /\ Present(k) => /\ Counted(k).ref = redis[k].ref
                          /\ Counted(k).count = redis[k].count + 1
                          /\ Counted(k).ttl = redis[k].ttl
         /\ ~ Present(k) => Counted(k).count = 1
<1>1. CASE Present(k)
  BY <1>1 DEF Counted, Entry
<1>2. CASE ~ Present(k)
  BY <1>2, KeysAre DEF Counted, Entry
<1> QED
  BY <1>1, <1>2

\* An entry that is still there after some time has only less time left.
LEMMA AgedOK ==
  ASSUME NEW e \in Entry
  PROVE  /\ Aged(e) \in Entry /\ Aged(e).ttl <= e.ttl
         /\ Aged(e).ttl > 0 => e.ttl > 0 /\ Aged(e).ref = e.ref /\ Aged(e).count = e.count
<1>1. CASE e.ttl = Forever
  BY <1>1, KeysAre DEF Aged, Entry
<1>2. CASE e.ttl # Forever /\ e.ttl <= 1
  BY <1>2, GoneOK DEF Aged, Entry
<1>3. CASE e.ttl # Forever /\ ~ e.ttl <= 1
  <2>1. e.ttl \in 0 .. Forever /\ e.ttl - 1 \in 0 .. Forever
    BY <1>3, KeysAre DEF Entry
  <2>2. Aged(e) = [e EXCEPT !.ttl = e.ttl - 1]
    BY <1>3 DEF Aged
  <2> QED
    BY <1>3, <2>1, <2>2 DEF Entry
<1> QED
  BY <1>1, <1>2, <1>3

LEMMA HitsOK ==
  ASSUME redis \in [Keys -> Entry], LifetimesOK
  PROVE  Hits \in Entry /\ Hits.count = Counted("hits").count /\ Hits.ttl <= Window
<1>1. Counted("hits") \in Entry /\ Window \in 0 .. Forever
  BY KeysAre, CountedOK
<1>2. CASE Counted("hits").count = 1
  BY <1>1, <1>2 DEF Hits, Entry
<1>3. CASE Counted("hits").count # 1
  <2>1. Counted("hits").ttl = redis["hits"].ttl
    BY <1>3, CountedOK, KeysAre
  <2> QED
    BY <1>1, <1>3, <2>1 DEF Hits, LifetimesOK
<1> QED
  BY <1>2, <1>3

-----------------------------------------------------------------------------
(* One lemma per action. *)

LEMMA CodeKept ==
  ASSUME OtpInv, redis'["code"] = redis["code"], UNCHANGED <<issued, used>>
  PROVE  CodeOK'
  BY DEF OtpInv, CodeOK, Present

LEMMA WindowKept ==
  ASSUME OtpInv, redis'["hits"] = redis["hits"], UNCHANGED admitted
  PROVE  WindowOK'
  BY DEF OtpInv, WindowOK, Present

LEMMA GotoOK ==
  ASSUME TypeOK, NEW q \in Procs, NEW step \in {"idle", "IssueCode", "Verify"},
         NEW g \in 0 .. LastCode, Goto(q, step, g)
  PROVE  /\ pc' \in [Procs -> {"idle", "IssueCode", "Verify"}]
         /\ job' \in [Procs -> 0 .. LastCode]
  BY DEF Goto, TypeOK

LEMMA IssueCooldownOK ==
  ASSUME OtpInv, NEW q \in Procs, IssueCooldown(q)
  PROVE  OtpInv'
<1> USE DEF OtpInv
<1>1. redis' \in [Keys -> Entry] /\ redis'["code"] = redis["code"]
      /\ redis'["hits"] = redis["hits"]
  BY KeysAre, StoredOK DEF IssueCooldown, CooldownEntry, TypeOK
<1>2. redis'["cooldown"].ttl <= CooldownTtl /\ redis'["block"] = redis["block"]
  BY KeysAre, StoredOK DEF IssueCooldown, CooldownEntry, TypeOK
<1>3. LifetimesOK'
  BY <1>1, <1>2 DEF TypeOK, LifetimesOK
<1>4. TypeOK'
  BY <1>1, <1>3, GotoOK, KeysAre DEF IssueCooldown, TypeOK
<1>5. CodeOK' /\ WindowOK'
  BY <1>1, CodeKept, WindowKept DEF IssueCooldown
<1> QED
  BY <1>4, <1>5 DEF IssueCooldown

LEMMA IssueCodeOK ==
  ASSUME OtpInv, NEW q \in Procs, IssueCode(q)
  PROVE  OtpInv'
<1> USE DEF OtpInv
<1>1. issued \in Nat /\ issued' = issued + 1 /\ issued' \in 0 .. LastCode
  BY KeysAre DEF IssueCode, TypeOK
<1>2. Stored(issued + 1, CodeTtl) \in Entry /\ Stored(issued + 1, CodeTtl).ref = issued + 1
      /\ Stored(issued + 1, CodeTtl).count = 0 /\ Stored(issued + 1, CodeTtl).ttl = CodeTtl
  BY <1>1, KeysAre, StoredOK
<1>3. redis' = [redis EXCEPT !["code"] = Stored(issued + 1, CodeTtl)]
  BY DEF IssueCode
<1>4. redis' \in [Keys -> Entry] /\ redis'["hits"] = redis["hits"]
      /\ redis'["code"].ref = issued + 1 /\ redis'["code"].count = 0
  BY <1>2, <1>3, KeysAre DEF TypeOK
<1>5. LifetimesOK'
  BY <1>2, <1>3, KeysAre DEF TypeOK, LifetimesOK
<1>6. TypeOK'
  BY <1>1, <1>4, <1>5, GotoOK, KeysAre DEF IssueCode, Return, TypeOK
<1>7. used' \subseteq 1 .. issued' /\ issued + 1 \notin used
  BY <1>1 DEF IssueCode
<1>8. CodeOK'
  BY <1>1, <1>4, <1>7, KeysAre DEF CodeOK, IssueCode
<1>9. WindowOK'
  BY <1>4, WindowKept DEF IssueCode
<1> QED
  BY <1>6, <1>7, <1>8, <1>9

LEMMA SubmitOK ==
  ASSUME OtpInv, NEW q \in Procs, NEW guess \in 0 .. issued, Submit(q, guess)
  PROVE  OtpInv'
<1> USE DEF OtpInv
<1>1. /\ Hits \in Entry /\ Stored(0, Window) \in Entry /\ Hits.count \in Nat
      /\ redis \in [Keys -> Entry] /\ Limit \in Nat \ {0} /\ admitted \in Nat
      /\ redis["hits"].count \in Nat
      /\ Hits.ttl <= Window /\ Stored(0, Window).ttl <= Window
  BY HitsOK, StoredOK, KeysAre DEF TypeOK, Entry
<1>2. /\ Present("hits") => Hits.count = redis["hits"].count + 1
      /\ ~ Present("hits") => Hits.count = 1
  BY <1>1, HitsOK, CountedOK, KeysAre DEF TypeOK
<1>3. guess \in 0 .. LastCode
  BY KeysAre DEF TypeOK
<1>4. CASE UNCHANGED <<redis, admitted, pc, job>>
  BY <1>4, CodeKept, WindowKept DEF Submit, TypeOK, LifetimesOK
<1>5. CASE /\ OverLimit(Hits.count)
           /\ redis' = [redis EXCEPT !["hits"] = Hits, !["block"] = Stored(0, Window)]
           /\ UNCHANGED <<admitted, pc, job>>
  <2>1. /\ redis' \in [Keys -> Entry] /\ redis'["code"] = redis["code"]
        /\ redis'["hits"] = Hits /\ LifetimesOK'
    BY <1>1, <1>5, KeysAre DEF TypeOK, LifetimesOK
  <2>2. TypeOK'
    BY <1>5, <2>1 DEF Submit, TypeOK
  <2>3. Present("hits")
    BY <1>1, <1>2, <1>5 DEF OverLimit
  <2>4. WindowOK'
    BY <1>1, <1>2, <1>5, <2>1, <2>3 DEF WindowOK
  <2> QED
    BY <2>1, <2>2, <2>4, CodeKept DEF Submit
<1>6. CASE /\ ~ OverLimit(Hits.count)
           /\ redis' = [redis EXCEPT !["hits"] = Hits]
           /\ admitted' = IF Hits.count = 1 THEN 1 ELSE admitted + 1
           /\ Goto(q, "Verify", guess)
  <2>1. /\ redis' \in [Keys -> Entry] /\ redis'["code"] = redis["code"]
        /\ redis'["hits"] = Hits /\ LifetimesOK'
    BY <1>1, <1>6, KeysAre DEF TypeOK, LifetimesOK
  <2>2. TypeOK'
    BY <1>1, <1>3, <1>6, <2>1, GotoOK DEF Submit, TypeOK
  <2>3. Hits.count <= Limit /\ Hits.count >= 1
    BY <1>1, <1>2, <1>6 DEF OverLimit
  <2>4. admitted' <= Hits.count
    BY <1>1, <1>2, <1>6, <2>3 DEF WindowOK
  <2>5. WindowOK'
    BY <1>1, <1>6, <2>1, <2>3, <2>4 DEF WindowOK
  <2> QED
    BY <2>1, <2>2, <2>5, CodeKept DEF Submit
<1> QED
  BY <1>4, <1>5, <1>6 DEF Submit, WhileBlocked

\* The three outcomes of the script that checks a code.
LEMMA VerifyEffect ==
  ASSUME TypeOK, NEW q \in Procs, Verify(q)
  PROVE  \/ UNCHANGED <<redis, used>>
         \/ /\ Present("code") /\ redis["code"].ref = job[q]
            /\ redis' = [redis EXCEPT !["code"] = Gone] /\ used' = used \cup {job[q]}
         \/ redis' = [redis EXCEPT !["code"] = Gone] /\ UNCHANGED used
         \/ /\ Present("code") /\ Counted("code").count < MaxAttempts
            /\ redis' = [redis EXCEPT !["code"] = Counted("code")] /\ UNCHANGED used
<1>1. Counted("code").count \in Nat /\ MaxAttempts \in Nat
  BY KeysAre, CountedOK DEF TypeOK, Entry
<1> QED
  BY <1>1 DEF Verify, AfterMatch, AfterMiss

LEMMA VerifyOK ==
  ASSUME OtpInv, NEW q \in Procs, Verify(q)
  PROVE  OtpInv'
<1> USE DEF OtpInv
<1>1. /\ redis \in [Keys -> Entry] /\ "code" \in Keys /\ Gone \in Entry
      /\ Counted("code") \in Entry /\ UNCHANGED <<issued, admitted>>
  BY KeysAre, GoneOK, CountedOK DEF TypeOK, Verify
<1>2. /\ redis' \in [Keys -> Entry] /\ redis'["hits"] = redis["hits"]
      /\ used' \subseteq 1 .. issued
  BY <1>1, VerifyEffect, KeysAre DEF CodeOK
<1>3. Gone.ttl <= CodeTtl /\ (Present("code") => Counted("code").ttl <= CodeTtl)
  BY <1>1, GoneOK, CountedOK, KeysAre DEF TypeOK, LifetimesOK
<1>4. LifetimesOK'
  BY <1>1, <1>3, VerifyEffect, KeysAre DEF TypeOK, LifetimesOK
<1>5. TypeOK'
  BY <1>1, <1>2, <1>4, GotoOK, KeysAre DEF Verify, Return, TypeOK
<1>6. ASSUME UNCHANGED <<redis, used>> PROVE CodeOK'
  BY <1>1, <1>6, CodeKept
<1>7. ASSUME redis'["code"] = Gone PROVE CodeOK'
  BY <1>7, GoneOK DEF CodeOK, Present
<1>8. ASSUME Present("code"), Counted("code").count < MaxAttempts,
             redis' = [redis EXCEPT !["code"] = Counted("code")], UNCHANGED used
      PROVE  CodeOK'
  <2>1. redis'["code"].ref = redis["code"].ref /\ redis'["code"].count < MaxAttempts
    BY <1>1, <1>8, CountedOK
  <2> QED
    BY <1>1, <1>8, <2>1 DEF CodeOK
<1>9. CodeOK'
  BY <1>1, <1>6, <1>7, <1>8, VerifyEffect
<1> QED
  BY <1>1, <1>2, <1>5, <1>9, WindowKept

LEMMA TickOK ==
  ASSUME OtpInv, Tick
  PROVE  OtpInv'
<1> USE DEF OtpInv
<1>1. /\ redis' \in [Keys -> Entry] /\ UNCHANGED <<issued, used, admitted, pc, job>>
      /\ \A k \in Keys : redis'[k].ttl > 0 =>
           /\ redis[k].ttl > 0
           /\ redis'[k].ref = redis[k].ref /\ redis'[k].count = redis[k].count
  BY AgedOK DEF Tick, TypeOK
<1>2. \A k \in Keys : redis'[k].ttl <= redis[k].ttl
                       /\ redis[k].ttl \in Nat /\ redis'[k].ttl \in Nat
  BY <1>1, AgedOK DEF Tick, TypeOK, Entry
<1>3. LifetimesOK'
  BY <1>2, KeysAre DEF TypeOK, LifetimesOK
<1>4. TypeOK' /\ used' \subseteq 1 .. issued'
  BY <1>1, <1>3 DEF TypeOK
<1>5. CodeOK' /\ WindowOK'
  BY <1>1, KeysAre DEF CodeOK, WindowOK, Present
<1> QED
  BY <1>4, <1>5

LEMMA OtpStep == OtpInv /\ [Next]_vars => OtpInv'
<1> SUFFICES ASSUME OtpInv, [Next]_vars PROVE OtpInv'
  OBVIOUS
<1>1. ASSUME NEW q \in Procs, Fail(q) PROVE OtpInv'
  <2>1. TypeOK'
    BY <1>1, GotoOK, KeysAre DEF Fail, Return, OtpInv, TypeOK, LifetimesOK
  <2> QED
    BY <1>1, <2>1, CodeKept, WindowKept DEF Fail, OtpInv
<1>2. CASE UNCHANGED vars
  BY <1>2, CodeKept, WindowKept DEF vars, OtpInv, TypeOK, LifetimesOK
<1> QED
  BY <1>1, <1>2, IssueCooldownOK, IssueCodeOK, SubmitOK, VerifyOK, TickOK
     DEF Next, HandlerStep

LEMMA OtpInit == Init => OtpInv
<1> SUFFICES ASSUME Init PROVE OtpInv
  OBVIOUS
<1>1. ~ Present("code") /\ ~ Present("hits")
  BY KeysAre, GoneOK DEF Init, Present
<1>2. TypeOK
  BY KeysAre, GoneOK DEF Init, TypeOK, LifetimesOK
<1> QED
  BY <1>1, <1>2 DEF Init, OtpInv, CodeOK, WindowOK

LEMMA OtpInvariant == Spec => []OtpInv
  BY OtpInit, OtpStep, PTL DEF Spec

-----------------------------------------------------------------------------
(* The results. *)

\* Every variable keeps its type: no counter is misread, no guess is of a code
\* that was never issued, and no key stays in the store for good.
THEOREM OtpTypesCorrect == Spec => []TypeOK
<1>1. OtpInv => TypeOK
  BY DEF OtpInv
<1> QED
  BY <1>1, OtpInvariant, PTL

\* A code that was accepted is never in the store again.
THEOREM CodesAreUsedOnce == Spec => []UsedCodesAreGone
<1>1. OtpInv => UsedCodesAreGone
  BY DEF OtpInv, CodeOK, UsedCodesAreGone
<1> QED
  BY <1>1, OtpInvariant, PTL

\* Never more than Limit requests get through in one window.
THEOREM WindowsAreLimited == Spec => []AdmittedPerWindow
<1>1. OtpInv => AdmittedPerWindow
  BY DEF OtpInv, WindowOK, AdmittedPerWindow
<1> QED
  BY <1>1, OtpInvariant, PTL

\* A code in the store counts its wrong guesses up and survives fewer than
\* MaxAttempts of them, unless another code takes its place.
LEMMA GuessStep ==
  ASSUME OtpInv, OtpInv', [Next]_vars, Present("code"), Present("code")',
         redis'["code"].ref = redis["code"].ref
  PROVE  redis'["code"].count \in redis["code"].count .. (MaxAttempts - 1)
<1> USE DEF OtpInv
<1>1. /\ redis \in [Keys -> Entry] /\ redis["code"].count \in Nat
      /\ redis'["code"].count \in Nat /\ redis'["code"].count < MaxAttempts
      /\ MaxAttempts \in Nat /\ issued \in Nat /\ redis["code"].ref \in 1 .. issued
  BY KeysAre DEF TypeOK, CodeOK, Entry
<1>2. redis'["code"].count >= redis["code"].count
  <2>1. CASE redis'["code"] = redis["code"]
    BY <1>1, <2>1
  <2>2. ASSUME NEW q \in Procs, IssueCode(q) PROVE FALSE
    <3>1. redis'["code"] = Stored(issued + 1, CodeTtl)
      BY <1>1, <2>2, KeysAre DEF IssueCode
    <3>2. redis'["code"].ref = issued + 1
      BY <1>1, <3>1, StoredOK, KeysAre
    <3> QED
      BY <1>1, <3>2
  <2>3. ASSUME NEW q \in Procs, Verify(q) PROVE redis'["code"].count >= redis["code"].count
    <3>1. CASE redis'["code"] = Counted("code")
      BY <1>1, <3>1, CountedOK, KeysAre
    <3>2. redis'["code"] # Gone
      BY GoneOK DEF Present
    <3> QED
      BY <1>1, <2>1, <2>3, <3>1, <3>2, VerifyEffect, KeysAre
  <2>4. CASE Tick
    <3>1. redis'["code"] = Aged(redis["code"]) /\ redis["code"] \in Entry
      BY <1>1, <2>4, KeysAre DEF Tick
    <3> QED
      BY <1>1, <3>1, AgedOK DEF Present
  <2>5. ASSUME NEW q \in Procs,
               IssueCooldown(q) \/ Fail(q) \/ \E g \in 0 .. issued : Submit(q, g)
        PROVE  redis'["code"] = redis["code"]
    BY <1>1, <2>5, KeysAre DEF IssueCooldown, Fail, Submit, WhileBlocked
  <2>6. CASE UNCHANGED vars
    BY <1>1, <2>6 DEF vars
  <2> QED
    BY <2>1, <2>2, <2>3, <2>4, <2>5, <2>6 DEF Next, HandlerStep
<1> QED
  BY <1>1, <1>2

\* However requests interleave with expiry and reissue, a code survives fewer
\* than MaxAttempts wrong guesses, and only a new code gets new attempts.
THEOREM GuessesAreBudgeted == Spec => GuessBudget
<1> DEFINE Budget ==
      Present("code") /\ Present("code")' /\ redis'["code"].ref = redis["code"].ref =>
        redis'["code"].count \in redis["code"].count .. (MaxAttempts - 1)
<1>1. OtpInv /\ OtpInv' /\ [Next]_vars => [Budget]_vars
  BY GuessStep
<1> QED
  BY <1>1, OtpInvariant, PTL DEF Spec, GuessBudget

=============================================================================
