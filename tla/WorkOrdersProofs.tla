-------------------------- MODULE WorkOrdersProofs --------------------------
(***************************************************************************)
(* What WorkOrders promises in its steps, said as properties of the course *)
(* of a request and of what it shows.                                      *)
(***************************************************************************)
EXTENDS WorkOrders, SequenceTheorems, TLAPS

\* The stages that may come before each stage.
Before ==
  [OPEN |-> {}, ASSIGNED |-> {"OPEN"}, IN_PROGRESS |-> {"OPEN", "ASSIGNED"},
   RESOLVED |-> {"OPEN", "ASSIGNED", "IN_PROGRESS"},
   CLOSED |-> {"OPEN", "ASSIGNED", "IN_PROGRESS", "RESOLVED"},
   CANCELLED |-> {"OPEN", "ASSIGNED"}]

Typed ==
  /\ course \in [RequestIds -> Seq(Stages)]
  /\ DOMAIN worker = RequestIds /\ DOMAIN defect = RequestIds /\ DOMAIN repair = RequestIds

Ordered(c) == \A j, k \in 1 .. Len(c) : j < k => c[j] \in Before[c[k]]

CoursesOK == \A r \in RequestIds : Ordered(course[r])

OrdersInv == Typed /\ CoursesOK /\ OrdersOK

-----------------------------------------------------------------------------
(* Courses. *)

LEMMA Appended ==
  ASSUME NEW c \in Seq(Stages), NEW stage \in Stages
  PROVE  LET d == Append(c, stage)
         IN  /\ d \in Seq(Stages) /\ Len(c) \in Nat /\ Len(d) = Len(c) + 1
             /\ d[Len(c) + 1] = stage /\ \A k \in 1 .. Len(c) : d[k] = c[k]
  BY AppendProperties, LenProperties

\* A course stays ordered where the last stage may come before the next, and so
\* may whatever may come before the last.
LEMMA OrderedAppend ==
  ASSUME NEW c \in Seq(Stages), Ordered(c), NEW stage \in Stages,
         \/ c = <<>>
         \/ c[Len(c)] \in Before[stage] /\ Before[c[Len(c)]] \subseteq Before[stage]
  PROVE  Ordered(Append(c, stage))
<1>1. PICK d : d = Append(c, stage)
  OBVIOUS
<1>2. /\ Len(c) \in Nat /\ Len(d) = Len(c) + 1
      /\ d[Len(c) + 1] = stage /\ \A k \in 1 .. Len(c) : d[k] = c[k]
  BY <1>1, Appended
<1>3. c = <<>> => Len(c) = 0
  BY EmptySeq
<1>4. ASSUME NEW j \in 1 .. Len(d), NEW k \in 1 .. Len(d), j < k
      PROVE  d[j] \in Before[d[k]]
  <2>1. j \in 1 .. Len(c)
    BY <1>2, <1>4
  <2>2. CASE k \in 1 .. Len(c)
    BY <1>2, <1>4, <2>1, <2>2 DEF Ordered
  <2>3. CASE k = Len(c) + 1
    <3>1. Len(c) \in 1 .. Len(c) /\ c # <<>>
      BY <1>2, <1>3, <2>1
    <3>2. c[j] \in Before[stage]
      <4>1. CASE j = Len(c)
        BY <3>1, <4>1
      <4>2. CASE j # Len(c)
        <5>1. j < Len(c)
          BY <1>2, <2>1, <4>2
        <5>2. c[j] \in Before[c[Len(c)]]
          BY <2>1, <3>1, <5>1 DEF Ordered
        <5> QED
          BY <3>1, <5>2
      <4> QED
        BY <4>1, <4>2
    <3> QED
      BY <1>2, <2>1, <2>3, <3>2
  <2> QED
    BY <1>2, <2>2, <2>3
<1> QED
  BY <1>1, <1>4 DEF Ordered

LEMMA CourseOK ==
  ASSUME Typed, NEW r \in RequestIds
  PROVE  course[r] \in Seq(Stages) /\ Len(course[r]) \in Nat
  BY LenProperties DEF Typed

\* The last stage is one the request went through, and every other came before.
LEMMA WentBefore ==
  ASSUME Typed, CoursesOK, NEW r \in RequestIds, NEW stage, At(r, stage)
  PROVE  /\ Went(r, stage)
         /\ \A s : Went(r, s) => s = stage \/ s \in Before[stage]
<1>1. /\ Len(course[r]) \in 1 .. Len(course[r])
      /\ course[r][Len(course[r])] = stage
  BY CourseOK, EmptySeq DEF At
<1>2. ASSUME NEW k \in 1 .. Len(course[r]), course[r][k] # stage
      PROVE  course[r][k] \in Before[stage]
  <2>1. k < Len(course[r])
    BY <1>1, <1>2, CourseOK
  <2> QED
    BY <1>1, <2>1 DEF CoursesOK, Ordered
<1> QED
  BY <1>1, <1>2 DEF Went

LEMMA WentNowhere ==
  ASSUME NEW r, course[r] = <<>>
  PROVE  \A s : ~ Went(r, s)
<1>1. Len(course[r]) = 0
  BY EmptySeq
<1> QED
  BY <1>1 DEF Went

\* A request that reaches a stage has gone through it, and others stay.
LEMMA ReachEffect ==
  ASSUME Typed, NEW r \in RequestIds, NEW stage \in Stages, Reach(r, stage)
  PROVE  /\ course' \in [RequestIds -> Seq(Stages)]
         /\ course'[r] = Append(course[r], stage)
         /\ \A o \in RequestIds \ {r} : course'[o] = course[o]
         /\ \A s : Went(r, s)' <=> Went(r, s) \/ s = stage
         /\ \A o \in RequestIds \ {r} : \A s : Went(o, s)' <=> Went(o, s)
<1>1. /\ course' \in [RequestIds -> Seq(Stages)]
      /\ course'[r] = Append(course[r], stage)
      /\ \A o \in RequestIds \ {r} : course'[o] = course[o]
  BY CourseOK, Appended DEF Reach, Typed
<1>2. PICK c \in Seq(Stages), d \in Seq(Stages) : c = course[r] /\ d = course'[r]
  BY <1>1, CourseOK
<1>3. /\ Len(c) \in Nat /\ Len(d) = Len(c) + 1
      /\ d[Len(c) + 1] = stage /\ \A k \in 1 .. Len(c) : d[k] = c[k]
  BY <1>1, <1>2, Appended
<1>4. 1 .. Len(d) = (1 .. Len(c)) \cup {Len(c) + 1}
  BY <1>3
<1>5. \A s : (\E k \in 1 .. Len(d) : d[k] = s) <=> (\E k \in 1 .. Len(c) : c[k] = s) \/ s = stage
  BY <1>3, <1>4
<1> QED
  BY <1>1, <1>2, <1>5 DEF Went

\* A step that stays on the course changes nothing the invariant says of it.
LEMMA WentKept ==
  ASSUME UNCHANGED course
  PROVE  \A r, s : Went(r, s)' <=> Went(r, s)
  BY DEF Went

-----------------------------------------------------------------------------
(* The invariant. *)

LEMMA ReachKeepsCourses ==
  ASSUME Typed, CoursesOK, NEW r \in RequestIds, NEW stage \in Stages, Reach(r, stage),
         \/ course[r] = <<>>
         \/ \E s \in Before[stage] : At(r, s) /\ Before[s] \subseteq Before[stage]
  PROVE  CoursesOK'
<1>1. Ordered(course[r]) /\ course[r] \in Seq(Stages)
  BY CourseOK DEF CoursesOK
<1>2. \/ course[r] = <<>>
      \/ /\ course[r][Len(course[r])] \in Before[stage]
         /\ Before[course[r][Len(course[r])]] \subseteq Before[stage]
  BY DEF At
<1>3. Ordered(Append(course[r], stage))
  BY <1>1, <1>2, OrderedAppend
<1> QED
  BY <1>3, ReachEffect DEF CoursesOK

LEMMA OrdersInvStep == OrdersInv /\ [Next]_orders => OrdersInv'
<1> SUFFICES ASSUME OrdersInv, [Next]_orders PROVE OrdersInv'
  OBVIOUS
<1> USE DEF OrdersInv
<1>1. ASSUME NEW r \in RequestIds, Report(r) PROVE OrdersInv'
  <2>1. Reach(r, "OPEN") /\ course[r] = <<>> /\ UNCHANGED <<worker, repair>> /\ "OPEN" \in Stages
        /\ DOMAIN defect' = RequestIds
    BY <1>1 DEF Report, Show, Typed, Stages
  <2>2. CoursesOK' /\ Typed'
    BY <2>1, ReachEffect, ReachKeepsCourses DEF Typed
  <2>3. OrdersOK'
    BY <2>1, ReachEffect DEF OrdersOK
  <2> QED
    BY <2>2, <2>3
<1>2. ASSUME NEW r \in RequestIds, Assign(r) PROVE OrdersInv'
  <2>1. Reach(r, "ASSIGNED") /\ At(r, "OPEN") /\ UNCHANGED <<defect, repair>>
        /\ "ASSIGNED" \in Stages
    BY <1>2 DEF Assign, Stages
  <2>2. PICK s \in Staff : worker' = [worker EXCEPT ![r] = s]
    BY <1>2 DEF Assign
  <2>3. worker'[r] \in Staff /\ \A o \in RequestIds \ {r} : worker'[o] = worker[o]
    BY <2>2 DEF Typed
  <2>4. "OPEN" \in Before["ASSIGNED"] /\ Before["OPEN"] \subseteq Before["ASSIGNED"]
    BY DEF Before
  <2>5. CoursesOK' /\ Typed'
    BY <2>1, <2>2, <2>4, ReachEffect, ReachKeepsCourses DEF Typed
  <2>6. OrdersOK'
    BY <2>1, <2>3, ReachEffect DEF OrdersOK
  <2> QED
    BY <2>5, <2>6
<1>3. ASSUME NEW r \in RequestIds, Start(r) PROVE OrdersInv'
  <2>1. Reach(r, "IN_PROGRESS") /\ At(r, "ASSIGNED") /\ UNCHANGED <<worker, defect, repair>>
        /\ "IN_PROGRESS" \in Stages
    BY <1>3 DEF Start, Stages
  <2>2. "ASSIGNED" \in Before["IN_PROGRESS"] /\ Before["ASSIGNED"] \subseteq Before["IN_PROGRESS"]
    BY DEF Before
  <2>3. CoursesOK' /\ Typed'
    BY <2>1, <2>2, ReachEffect, ReachKeepsCourses DEF Typed
  <2>4. OrdersOK'
    BY <2>1, ReachEffect, WentBefore DEF OrdersOK
  <2> QED
    BY <2>3, <2>4
<1>4. ASSUME NEW r \in RequestIds, Complete(r) PROVE OrdersInv'
  <2>1. Reach(r, "RESOLVED") /\ At(r, "IN_PROGRESS") /\ UNCHANGED <<worker, defect>>
        /\ "RESOLVED" \in Stages
    BY <1>4 DEF Complete, Stages
  <2>2. DOMAIN repair' = RequestIds /\ \A o \in RequestIds \ {r} : repair'[o] = repair[o]
    BY <1>4 DEF Complete, Typed
  <2>3. "IN_PROGRESS" \in Before["RESOLVED"] /\ Before["IN_PROGRESS"] \subseteq Before["RESOLVED"]
    BY DEF Before
  <2>4. CoursesOK' /\ Typed'
    BY <2>1, <2>2, <2>3, ReachEffect, ReachKeepsCourses DEF Typed
  <2>5. OrdersOK'
    BY <2>1, <2>2, ReachEffect DEF OrdersOK
  <2> QED
    BY <2>4, <2>5
<1>5. ASSUME NEW r \in RequestIds, Close(r) PROVE OrdersInv'
  <2>1. Reach(r, "CLOSED") /\ At(r, "RESOLVED") /\ UNCHANGED <<worker, defect, repair>>
        /\ "CLOSED" \in Stages
    BY <1>5 DEF Close, Stages
  <2>2. "RESOLVED" \in Before["CLOSED"] /\ Before["RESOLVED"] \subseteq Before["CLOSED"]
    BY DEF Before
  <2>3. CoursesOK' /\ Typed'
    BY <2>1, <2>2, ReachEffect, ReachKeepsCourses DEF Typed
  <2>4. OrdersOK'
    BY <2>1, ReachEffect DEF OrdersOK
  <2> QED
    BY <2>3, <2>4
<1>6. ASSUME NEW r \in RequestIds, Cancel(r) PROVE OrdersInv'
  <2>1. Reach(r, "CANCELLED") /\ (At(r, "OPEN") \/ At(r, "ASSIGNED"))
        /\ UNCHANGED <<worker, defect, repair>> /\ "CANCELLED" \in Stages
    BY <1>6 DEF Cancel, Stages
  <2>2. \A s \in {"OPEN", "ASSIGNED"} :
          s \in Before["CANCELLED"] /\ Before[s] \subseteq Before["CANCELLED"]
    BY DEF Before
  <2>3. CoursesOK' /\ Typed'
    BY <2>1, <2>2, ReachEffect, ReachKeepsCourses DEF Typed
  <2>4. OrdersOK'
    BY <2>1, ReachEffect DEF OrdersOK
  <2> QED
    BY <2>3, <2>4
<1>7. ASSUME NEW r \in RequestIds, EditDefect(r) PROVE OrdersInv'
  BY <1>7, WentKept DEF EditDefect, Show, Typed, CoursesOK, OrdersOK
<1>8. ASSUME NEW r \in RequestIds, TrimRepair(r) PROVE OrdersInv'
  <2>1. /\ UNCHANGED <<course, worker, defect>> /\ DOMAIN repair' = RequestIds
        /\ \A o \in RequestIds : repair'[o] # {} => repair[o] # {}
    BY <1>8 DEF TrimRepair, Typed
  <2> QED
    BY <2>1, WentKept DEF Typed, CoursesOK, OrdersOK
<1>9. CASE UNCHANGED orders
  BY <1>9, WentKept DEF orders, Typed, CoursesOK, OrdersOK
<1> QED
  BY <1>1, <1>2, <1>3, <1>4, <1>5, <1>6, <1>7, <1>8, <1>9 DEF Next

LEMMA OrdersInitial == Init => OrdersInv
<1> SUFFICES ASSUME Init PROVE OrdersInv
  OBVIOUS
<1>1. \A r \in RequestIds : course[r] = <<>> /\ repair[r] = {}
  BY DEF Init
<1>2. <<>> \in Seq(Stages) /\ Len(<<>>) = 0
  BY EmptySeq
<1>3. Typed
  BY <1>2 DEF Init, Typed
<1>4. CoursesOK
  BY <1>1, <1>2 DEF CoursesOK, Ordered
<1> QED
  BY <1>1, <1>3, <1>4, WentNowhere DEF OrdersInv, OrdersOK

LEMMA OrdersInvariant == Spec => []OrdersInv
  BY OrdersInitial, OrdersInvStep, PTL DEF Spec

-----------------------------------------------------------------------------
(* What a reader should know of. *)

\* Nobody works unassigned, and no repair is shown before it is done.
THEOREM WorkIsAssigned == Spec => []OrdersOK
<1>1. OrdersInv => OrdersOK
  BY DEF OrdersInv
<1> QED
  BY <1>1, OrdersInvariant, PTL

\* A request never returns to a stage, nor goes on once closed or cancelled.
THEOREM CoursesOnlyAdvance == Spec => []CoursesEnd
<1>1. OrdersInv => CoursesEnd
  <2> SUFFICES ASSUME OrdersInv, NEW r \in RequestIds,
                      NEW j \in 1 .. Len(course[r]), NEW k \in 1 .. Len(course[r]), j < k
               PROVE  /\ course[r][j] # course[r][k]
                      /\ course[r][j] \notin {"CLOSED", "CANCELLED"}
    BY DEF CoursesEnd
  <2>1. course[r][j] \in Before[course[r][k]]
    BY DEF OrdersInv, CoursesOK, Ordered
  <2>2. course[r][k] \in Stages
    BY CourseOK, ElementOfSeq DEF OrdersInv
  <2>3. \A stage \in Stages : Before[stage] \cap {stage, "CLOSED", "CANCELLED"} = {}
    BY DEF Before, Stages
  <2> QED
    BY <2>1, <2>2, <2>3
<1> QED
  BY <1>1, OrdersInvariant, PTL

\* What a request shows of its defect is final once it is assigned, what it
\* shows of the repair once it is closed.
THEOREM EvidenceIsFinal == Spec => ShownStays
<1> DEFINE Stay ==
      \A r \in RequestIds :
        /\ Went(r, "ASSIGNED") => defect'[r] = defect[r]
        /\ Went(r, "CLOSED") => repair'[r] = repair[r]
<1>1. ASSUME OrdersInv, [Next]_orders PROVE Stay
  <2>0. Typed /\ CoursesOK
    BY <1>1 DEF OrdersInv
  <2>1. ASSUME NEW r \in RequestIds, Report(r) \/ EditDefect(r) PROVE Stay
    <3>1. ~ Went(r, "ASSIGNED")
      <4>1. CASE course[r] = <<>>
        BY <4>1, WentNowhere
      <4>2. CASE At(r, "OPEN")
        BY <2>0, <4>2, WentBefore DEF Before
      <4> QED
        BY <2>1, <4>1, <4>2 DEF Report, EditDefect
    <3>2. UNCHANGED repair /\ \A o \in RequestIds \ {r} : defect'[o] = defect[o]
      BY <2>0, <2>1 DEF Report, EditDefect, Show, Typed
    <3> QED
      BY <3>1, <3>2
  <2>2. ASSUME NEW r \in RequestIds, Complete(r) \/ TrimRepair(r) PROVE Stay
    <3>1. ~ Went(r, "CLOSED")
      BY <2>0, <2>2, WentBefore DEF Complete, TrimRepair, Before
    <3>2. UNCHANGED defect /\ \A o \in RequestIds \ {r} : repair'[o] = repair[o]
      BY <2>0, <2>2 DEF Complete, TrimRepair, Typed
    <3> QED
      BY <3>1, <3>2
  <2>3. ASSUME NEW r \in RequestIds, Assign(r) \/ Start(r) \/ Close(r) \/ Cancel(r) PROVE Stay
    BY <2>3 DEF Assign, Start, Close, Cancel
  <2>4. CASE UNCHANGED orders
    BY <2>4 DEF orders
  <2> QED
    BY <1>1, <2>1, <2>2, <2>3, <2>4 DEF Next
<1>2. OrdersInv /\ [Next]_orders => [Stay]_orders
  BY <1>1
<1> QED
  BY <1>2, OrdersInvariant, PTL DEF Spec, ShownStays

=============================================================================
