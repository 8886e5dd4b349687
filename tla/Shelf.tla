-------------------------------- MODULE Shelf --------------------------------
(***************************************************************************)
(* What the cache promises its clients (docs/ARCHITECTURE.md, "Cache state *)
(* machine"), with no session, file name, database, worker or fault in it: *)
(* an object is on the shelf or it is missing; one transfer at a time may  *)
(* put a newer one there, whole; and a request is answered from the shelf  *)
(* or from the transfer's temporary file.                                  *)
(***************************************************************************)
EXTENDS Integers

CONSTANTS
  Keys,
  Readers,  \* the requests under way at one time
  Editions  \* the numbers of an object's editions; 0 stands for none

VARIABLES
  edition,  \* the edition upstream has, per key
  shelf,    \* the complete object, or 0
  best,     \* the latest one that was ever complete
  phase,    \* of the transfer of each key
  partial,  \* the edition of the temporary file, or 0
  reader    \* the requests

vars == <<edition, shelf, best, phase, partial, reader>>

Nobody == [key |-> "none", floor |-> 0, got |-> 0]

Init ==
  /\ edition \in [Keys -> Editions \ {0}]
  /\ shelf = [k \in Keys |-> 0] /\ best = [k \in Keys |-> 0]
  /\ phase = [k \in Keys |-> "idle"] /\ partial = [k \in Keys |-> 0]
  /\ reader = [r \in Readers |-> Nobody]

Publish(k) ==
  /\ edition[k] + 1 \in Editions
  /\ edition' = [edition EXCEPT ![k] = @ + 1]
  /\ UNCHANGED <<shelf, best, phase, partial, reader>>

-----------------------------------------------------------------------------
(* The transfer of a key.                                                  *)

Goes(k, from, to) == phase[k] = from /\ phase' = [phase EXCEPT ![k] = to]

\* What is left of an earlier temporary file may be lost on the way.
KeepsOrDrops(k) == partial' \in {partial, [partial EXCEPT ![k] = 0]}

Begin(k) ==
  /\ Goes(k, "idle", "opening") /\ KeepsOrDrops(k)
  /\ UNCHANGED <<edition, shelf, best, reader>>

Open(k) ==
  /\ Goes(k, "opening", "downloading")
  /\ partial' = [partial EXCEPT ![k] = 0]
  /\ UNCHANGED <<edition, shelf, best, reader>>

\* Upstream answers with an edition that is not older than any before.
Respond(k) ==
  /\ phase[k] = "downloading" /\ partial[k] = 0
  /\ \E e \in Editions \ {0} : /\ best[k] <= e /\ e <= edition[k]
                               /\ partial' = [partial EXCEPT ![k] = e]
  /\ UNCHANGED <<edition, shelf, best, phase, reader>>

Promote(k) ==
  /\ Goes(k, "downloading", "complete") /\ partial[k] # 0
  /\ shelf' = [shelf EXCEPT ![k] = partial[k]]
  /\ best' = [best EXCEPT ![k] = partial[k]]
  /\ partial' = [partial EXCEPT ![k] = 0]
  /\ UNCHANGED <<edition, reader>>

\* A failure; or what is on the shelf is still current.
Discard(k) ==
  /\ Goes(k, "opening", "over") \/ Goes(k, "downloading", "over")
  /\ KeepsOrDrops(k)
  /\ UNCHANGED <<edition, shelf, best, reader>>

Record(k) ==
  /\ Goes(k, "complete", "over")
  /\ UNCHANGED <<edition, shelf, best, partial, reader>>

Remove(k) ==
  /\ phase[k] = "over" /\ partial' = [partial EXCEPT ![k] = 0]
  /\ UNCHANGED <<edition, shelf, best, phase, reader>>

End(k) ==
  /\ Goes(k, "over", "idle")
  /\ UNCHANGED <<edition, shelf, best, partial, reader>>

\* Retention, capacity, or somebody at the console: at any time.
Evict(k) ==
  /\ shelf' = [shelf EXCEPT ![k] = 0]
  /\ UNCHANGED <<edition, best, phase, partial, reader>>

Transfer(k) ==
  \/ Begin(k) \/ Open(k) \/ Respond(k) \/ Promote(k) \/ Discard(k)
  \/ Record(k) \/ Remove(k) \/ End(k)

-----------------------------------------------------------------------------
(* The requests.                                                           *)

Ask(r, k) ==
  /\ reader[r] = Nobody
  /\ reader' = [reader EXCEPT ![r] = [key |-> k, floor |-> best[k], got |-> 0]]
  /\ UNCHANGED <<edition, shelf, best, phase, partial>>

Answer(r) ==
  /\ reader[r].key \in Keys /\ reader[r].got = 0
  /\ \E e \in {shelf[reader[r].key], partial[reader[r].key]} \ {0} :
       reader' = [reader EXCEPT ![r].got = e]
  /\ UNCHANGED <<edition, shelf, best, phase, partial>>

\* With an answer, or with an error.
Leave(r) ==
  /\ reader' = [reader EXCEPT ![r] = Nobody]
  /\ UNCHANGED <<edition, shelf, best, phase, partial>>

\* Complete objects survive a restart; transfers and requests do not.
Crash ==
  /\ phase' = [k \in Keys |-> "idle"] /\ partial' = [k \in Keys |-> 0]
  /\ reader' = [r \in Readers |-> Nobody]
  /\ UNCHANGED <<edition, shelf, best>>

Next ==
  \/ \E k \in Keys : Publish(k) \/ Transfer(k) \/ Evict(k)
  \/ \E r \in Readers : (\E k \in Keys : Ask(r, k)) \/ Answer(r) \/ Leave(r)
  \/ Crash

Spec == Init /\ [][Next]_vars
=============================================================================
