------------------------------- MODULE Units --------------------------------
(***************************************************************************)
(* The handlers of UnitsService that write a unit row: each reads the unit *)
(* without a lock and later saves the whole entity, so that the status it  *)
(* read comes back with whatever else it changes.  The other columns       *)
(* (number, rent, images) are left out.                                    *)
(***************************************************************************)
EXTENDS Database

\* The unit is read with its property; saved gives the status it will write.
ReadUnit(q, step, allowed, saved) ==
  /\ pc[q] = step
  /\ \E u \in UnitIds :
       /\ PropertyLive(u)
       /\ unit[u] \in allowed
       /\ Goto(q, "SaveUnit", [NoJob EXCEPT !.id = u, !.status = saved[unit[u]]])
  /\ UNCHANGED <<today, tables>>

\* The entity as it was read, and changed since, is written over the row.
SaveUnit(q) ==
  /\ pc[q] = "SaveUnit"
  /\ unit' = [unit EXCEPT ![job[q].id] = job[q].status]
  /\ Return(q)
  /\ UNCHANGED <<today, deleted, lease, request, renewal>>

AsRead == [s \in UnitStatus |-> s]

NotRented == UnitStatus \ {"RENTED"}

ManualTransitions == [AsRead EXCEPT !["AVAILABLE"] = "MAINTENANCE",
                                    !["MAINTENANCE"] = "AVAILABLE"]

SetStatusRead(q) == ReadUnit(q, "SetStatusRead", NotRented, ManualTransitions)

UpdateUnitRead(q) == ReadUnit(q, "UpdateUnitRead", NotRented, AsRead)

\* addImages and removeImage are allowed on a RENTED unit.
EditImagesRead(q) == ReadUnit(q, "EditImagesRead", UnitStatus, AsRead)

=============================================================================
