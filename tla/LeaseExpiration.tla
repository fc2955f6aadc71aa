-------------------------- MODULE LeaseExpiration --------------------------
(***************************************************************************)
(* LeaseExpirationService.run: one SQL statement, committed on its own,    *)
(* that expires the overdue leases.  PostgreSQL runs it READ COMMITTED: it *)
(* chooses its rows in a snapshot taken when it starts, and a row that     *)
(* changed since is checked again in its new version, but rows inserted    *)
(* since stay unseen.  So it is two steps, with other handlers in between. *)
(***************************************************************************)
EXTENDS Database

Overdue == {l \in LeaseIds : lease[l].status = "ACTIVE" /\ lease[l].end < today}

\* The snapshot: the leases to expire, the units that are RENTED, the renewal
\* requests that are PENDING, the current date; then is what follows the sweep.
SweepBegin(q, then) ==
  Goto(q, "Sweep",
    [NoJob EXCEPT !.rows = Overdue, !.end = today, !.then = then,
                  !.rented = {u \in UnitIds : unit[u] = "RENTED"},
                  !.open = {r \in RenewalIds : renewal[r].status = "PENDING"}])

\* The leases of the snapshot that are still to be expired.
Expiring(q) ==
  {l \in job[q].rows : lease[l].status = "ACTIVE" /\ lease[l].end < job[q].end}

SweepCommit(q) ==
  /\ pc[q] = "Sweep"
  /\ lease' = [l \in LeaseIds |->
       IF l \in Expiring(q) THEN [lease[l] EXCEPT !.status = "EXPIRED"] ELSE lease[l]]
  /\ unit' = [u \in UnitIds |->
       IF /\ u \in job[q].rented /\ unit[u] = "RENTED"
          /\ \E l \in Expiring(q) : UnitOf[l] = u
         THEN "AVAILABLE" ELSE unit[u]]
  /\ CloseRenewals(RenewalsOf(Expiring(q)) \cap job[q].open, "CANCELLED")
  /\ Goto(q, job[q].then, NoJob)
  /\ UNCHANGED <<today, deleted, request>>

=============================================================================
