-------------------------- MODULE BoundedStaleness --------------------------
(***************************************************************************)
(* What a client-side read cache with a per-read tolerance promises, apart *)
(* from how it keeps its promise.  A source holds one value per key and is *)
(* changed by others.  A read names the greatest age d it accepts; what it *)
(* returns is a value the source really had, either while the read was in  *)
(* progress or less than d before it was asked for.                        *)
(***************************************************************************)
EXTENDS Integers

CONSTANTS
  Key,       \* what is read
  Value,     \* what a key can hold
  Reader,    \* the read operations, each used once
  Tolerance  \* the ages a read may ask for

VARIABLES
  now,       \* time
  source,    \* source[k]: the present value of k
  past,      \* past[k]: every <<value, time>> k has had
  read       \* read[r]: where the read r stands

vars == <<now, source, past, read>>

Idle == [state |-> "idle"]

Init ==
  /\ now \in Nat
  /\ source \in [Key -> Value]
  /\ past = [k \in Key |-> {<<source[k], now>>}]
  /\ read = [r \in Reader |-> Idle]

\* Time passes; values stay.
Tick ==
  /\ now' = now + 1
  /\ past' = [k \in Key |-> past[k] \cup {<<source[k], now + 1>>}]
  /\ UNCHANGED <<source, read>>

\* Keys may change together.
Write ==
  /\ UNCHANGED <<now, read>>
  /\ source' \in [Key -> Value]
  /\ past' = [k \in Key |-> past[k] \cup {<<source'[k], now>>}]

Ask(r, k, d) ==
  /\ read[r] = Idle
  /\ read' = [read EXCEPT ![r] =
                [state |-> "asked", key |-> k, tolerance |-> d, start |-> now]]
  /\ UNCHANGED <<now, source, past>>

\* A value is fresh enough for a read asked at start with tolerance d.
Fresh(at, start, d) == at >= start \/ at > start - d

\* The answer of a read asked at start, given at any later time.
Return(r, k, d, start) ==
  /\ \E p \in past[k] :
       /\ Fresh(p[2], start, d)
       /\ read' = [read EXCEPT ![r] =
            [state |-> "returned", key |-> k, tolerance |-> d, value |-> p[1]]]
  /\ UNCHANGED <<now, source, past>>

\* A read is answered later than it is asked, or at once.
Answer(r) ==
  \/ /\ read[r].state = "asked"
     /\ Return(r, read[r].key, read[r].tolerance, read[r].start)
  \/ /\ read[r] = Idle
     /\ \E k \in Key, d \in Tolerance : Return(r, k, d, now)

\* A read may also fail, and then returns nothing.
Fail(r) ==
  /\ read[r].state \in {"asked", "returned"}
  /\ read' = [read EXCEPT ![r] = [state |-> "failed"]]
  /\ UNCHANGED <<now, source, past>>

\* Of the reads, one moves at a time.
Next ==
  \/ Tick
  \/ Write
  \/ \E r \in Reader :
       /\ read'[r] # read[r]
       /\ \/ \E k \in Key, d \in Tolerance : Ask(r, k, d)
          \/ Answer(r)
          \/ Fail(r)

Spec == Init /\ [][Next]_vars
=============================================================================
