------------------------------ MODULE ReadCache ------------------------------
(***************************************************************************)
(* The cached reads: the search of units and the dashboard, filled by the  *)
(* readers and dropped by the handlers that change what they show, once    *)
(* their transaction has committed.  For each of the two only one entry is *)
(* kept; the others behave alike.                                          *)
(***************************************************************************)
EXTENDS LockOrder

CONSTANT CacheTtl

ASSUME CacheTtlAssumption == CacheTtl \in 1 .. (Forever - 1)

ASSUME CacheKeysAssumption == Keys \subseteq {"search", "stats"}

VARIABLE fill   \* the answer a reader is about to cache

\* redis[k].ref and fill[q].ref: whether the answer shows the tables as they
\* are, or does not: since a commit whose handler drops it, for a reason already
\* known, or since a commit after which nothing is dropped.
Outdated == 0
Current == 1
Excused == 2
Unannounced == 3

NoFill == [key |-> None, ref |-> Outdated]

\* What the queries of findAll and computeStats can see.
View(k) ==
  IF deleted THEN <<>>
  ELSE IF k = "search" THEN <<unit>>
  ELSE <<unit, {l \in LeaseIds : lease[l] = "ACTIVE"}, {l \in LeaseIds : lease[l] = "EXPIRED"}>>

Superseded(ref, by) == IF ref = Current THEN by ELSE ref

\* A commit that changes what an answer shows leaves it out of date, whether it
\* is cached or still on its way.  Only LeasesService.update says nothing to the
\* cache of what it changed.
AnswersAge(q) ==
  LET seen == {k \in Keys : View(k)' # View(k)}
      mark == IF pc[q] = "UpdateLease" THEN Unannounced ELSE Outdated
  IN  /\ redis' = [k \in Keys |->
           IF k \in seen THEN [redis[k] EXCEPT !.ref = Superseded(@, mark)] ELSE redis[k]]
      /\ fill' = [p \in Procs |->
           IF fill[p].key \in seen THEN [fill[p] EXCEPT !.ref = Superseded(@, Outdated)]
           ELSE fill[p]]

\* findAll, getDashboard: a hit answers the request; a miss, or a failed read
\* of the cache, runs the queries.
FillRead(q) ==
  /\ pc[q] = "idle"
  /\ \E k \in Keys : fill' = [fill EXCEPT ![q] = [key |-> k, ref |-> Current]]
  /\ Goto(q, "Store", NoJob)
  /\ UNCHANGED <<tables, redis>>

\* The answer is cached; if a commit came since, nobody will drop it for that.
FillStore(q) ==
  /\ pc[q] = "Store"
  /\ LET ref == IF fill[q].ref = Outdated THEN Excused ELSE Current
     IN  redis' = [redis EXCEPT ![fill[q].key] = Stored(ref, CacheTtl)]
  /\ fill' = [fill EXCEPT ![q] = NoFill]
  /\ Return(q)
  /\ UNCHANGED tables

\* invalidateUnitsAndDashboard: the two patterns are scanned side by side.
Invalidate(q) ==
  /\ pc[q] = "Invalidate"
  /\ \E k \in job[q].keys :
       /\ redis' = [redis EXCEPT ![k] = Gone]
       /\ IF job[q].keys = {k} THEN Return(q)
            ELSE Goto(q, "Invalidate", [job[q] EXCEPT !.keys = @ \ {k}])
  /\ UNCHANGED <<tables, fill>>

\* A crash or a refusal: what is not committed is rolled back, and the
\* invalidation that was due is lost.  PostgreSQL also ends so one of the
\* transactions of a wait cycle.
Fail(q) ==
  /\ pc[q] # "idle"
  /\ redis' = [k \in Keys |->
       IF k \in job[q].keys /\ redis[k].ref = Outdated /\ Present(k)
         THEN [redis[k] EXCEPT !.ref = Excused] ELSE redis[k]]
  /\ fill' = [fill EXCEPT ![q] = NoFill]
  /\ Return(q)
  /\ UNCHANGED tables

\* Time passes.
Tick ==
  /\ redis' = [k \in Keys |-> Aged(redis[k])]
  /\ UNCHANGED <<tables, pc, job, fill>>

=============================================================================
