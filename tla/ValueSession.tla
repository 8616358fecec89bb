----------------------------- MODULE ValueSession -----------------------------
(***************************************************************************)
(* What a handle promises its host, with no reference counts, no calls in   *)
(* progress and no exception slot: while the session is open, an id that    *)
(* was issued and not dropped names one value, and that value is alive.     *)
(* Ids are issued in order and never twice.  The session ends by closing,   *)
(* which always succeeds, or with the whole process.                        *)
(***************************************************************************)
EXTENDS Integers

CONSTANTS
  Objects,   \* values that can die
  Immortal,  \* values that cannot
  Absent,    \* no value
  MaxIds     \* bound: ids one session may issue

Ids == 0 .. MaxIds - 1

VARIABLES
  phase,    \* "none", "open" or "terminated"
  entries,  \* what each id names
  issued,   \* how many ids were issued
  alive     \* the values of Objects that exist

vars == <<phase, entries, issued, alive>>

Init ==
  /\ phase = "none"
  /\ entries = [i \in Ids |-> Absent]
  /\ issued = 0
  /\ alive = {}

\* Any values may come and go, except those an id names.
Live(table, objects) == \A i \in Ids : table[i] \in Objects => table[i] \in objects

Open ==
  /\ phase = "none"
  /\ phase' = "open"
  /\ UNCHANGED <<entries, issued, alive>>

Issue ==
  /\ phase = "open" /\ issued \in Ids
  /\ \E v \in Objects \cup Immortal : entries' = [entries EXCEPT ![issued] = v]
  /\ issued' = issued + 1
  /\ alive' \in SUBSET Objects /\ Live(entries', alive')
  /\ UNCHANGED phase

Drop ==
  /\ phase = "open"
  /\ \E i \in Ids : entries[i] # Absent /\ entries' = [entries EXCEPT ![i] = Absent]
  /\ alive' \in SUBSET Objects /\ Live(entries', alive')
  /\ UNCHANGED <<phase, issued>>

Run ==
  /\ phase = "open"
  /\ alive' \in SUBSET Objects /\ Live(entries, alive')
  /\ UNCHANGED <<phase, entries, issued>>

Close ==
  /\ phase = "open"
  /\ phase' = "none"
  /\ entries' = [i \in Ids |-> Absent]
  /\ issued' = 0
  /\ alive' = {}

Terminate ==
  /\ phase = "open"
  /\ phase' = "terminated"
  /\ UNCHANGED <<entries, issued, alive>>

Next == Open \/ Issue \/ Drop \/ Run \/ Close \/ Terminate

Spec == Init /\ [][Next]_vars

=============================================================================
