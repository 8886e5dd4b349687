------------------------------ MODULE Transfer ------------------------------
(***************************************************************************)
(* What a shared download promises its readers, with no goroutine, lock,   *)
(* file or timer in it: a frontier that only grows, one verdict that never *)
(* changes, and readers that are served the whole of what they asked for   *)
(* or are let down.                                                        *)
(***************************************************************************)
EXTENDS Integers

CONSTANTS
  Readers,  \* the requests that share the download
  Length    \* the length of the object

VARIABLES
  status,    \* "running", then "ok" or "failed" for good
  frontier,  \* bytes the readers may have
  asked,     \* the part of the object each reader asked for
  pos,       \* the next byte each reader is due
  verdict    \* "none", then "served" or "denied"

vars == <<status, frontier, asked, pos, verdict>>

\* last = -1: a whole object.
Nothing == [first |-> 0, last |-> -2]
Wishes ==
  {w \in [first : 0..Length, last : -1..(Length - 1)] :
     IF w.last = -1 THEN w.first = 0 ELSE w.first <= w.last}

Init ==
  /\ status = "running" /\ frontier = 0
  /\ asked = [r \in Readers |-> Nothing]
  /\ pos = [r \in Readers |-> 0]
  /\ verdict = [r \in Readers |-> "none"]

Publish ==
  /\ status = "running"
  /\ frontier' \in (frontier + 1)..Length
  /\ UNCHANGED <<status, asked, pos, verdict>>

Succeed ==
  /\ status = "running" /\ frontier = Length
  /\ status' = "ok"
  /\ UNCHANGED <<frontier, asked, pos, verdict>>

Fail ==
  /\ status = "running"
  /\ status' = "failed"
  /\ UNCHANGED <<frontier, asked, pos, verdict>>

Ask(r) ==
  /\ verdict[r] = "none" /\ asked[r] = Nothing
  /\ \E w \in Wishes :
       /\ asked' = [asked EXCEPT ![r] = w]
       /\ pos' = [pos EXCEPT ![r] = w.first]
  /\ UNCHANGED <<status, frontier, verdict>>

Deliver(r) ==
  /\ verdict[r] = "none" /\ asked[r] # Nothing
  /\ \E p \in (pos[r] + 1)..frontier :
       /\ asked[r].last >= 0 => p <= asked[r].last + 1
       /\ pos' = [pos EXCEPT ![r] = p]
  /\ UNCHANGED <<status, frontier, asked, verdict>>

Serve(r) ==
  /\ verdict[r] = "none" /\ asked[r] # Nothing
  /\ IF asked[r].last >= 0 THEN pos[r] = asked[r].last + 1
                           ELSE pos[r] = Length /\ status = "ok"
  /\ verdict' = [verdict EXCEPT ![r] = "served"]
  /\ UNCHANGED <<status, frontier, asked, pos>>

Deny(r) ==
  /\ verdict[r] = "none"
  /\ verdict' = [verdict EXCEPT ![r] = "denied"]
  /\ UNCHANGED <<status, frontier, asked, pos>>

Next ==
  \/ Publish \/ Succeed \/ Fail
  \/ \E r \in Readers : Ask(r) \/ Deliver(r) \/ Serve(r) \/ Deny(r)

Spec == Init /\ [][Next]_vars
=============================================================================
