-------------------------------- MODULE Redis --------------------------------
(***************************************************************************)
(* The Redis server as the program uses it: keys that hold a small value   *)
(* and that disappear when their time to live runs out.  Redis runs one    *)
(* command, script or MULTI block at a time, so each of them is one step.  *)
(***************************************************************************)
EXTENDS Integers

CONSTANTS Keys, Forever

ASSUME ForeverAssumption == Forever \in Nat \ {0}

VARIABLE redis

\* ref stands for the payload of a key, count for its counter; ttl is the time
\* the key still has, 0 if it does not exist and Forever if it has no limit.
Entry == [ref : Nat, count : Nat, ttl : 0 .. Forever]

Gone == [ref |-> 0, count |-> 0, ttl |-> 0]

Present(k) == redis[k].ttl > 0

\* SET k EX, or DEL, HSET and EXPIRE of k in one block.
Stored(ref, ttl) == [ref |-> ref, count |-> 0, ttl |-> ttl]

\* INCR and HINCRBY keep the time to live; INCR makes a key without a limit.
Counted(k) ==
  IF Present(k) THEN [redis[k] EXCEPT !.count = @ + 1]
                ELSE [ref |-> 0, count |-> 1, ttl |-> Forever]

\* One unit of time passes for an entry.
Aged(e) ==
  IF e.ttl = Forever THEN e
  ELSE IF e.ttl <= 1 THEN Gone
  ELSE [e EXCEPT !.ttl = @ - 1]

=============================================================================
