------------------------------ MODULE LwwStamp ------------------------------
(***************************************************************************)
(* Payloads and timestamps of the last-writer-wins types.                  *)
(***************************************************************************)
EXTENDS Integers

CONSTANTS
    Values,  \* payloads, integers in the order of the byte strings
    MaxTime  \* bound: clock readings and timestamps, far below u64::MAX

ASSUME LwwAssumption ==
    /\ Values \subseteq Nat
    /\ MaxTime \in Nat

\* The timestamp of what is absent.
NoTime == -1

\* Faulty variant: the clock alone stamps the write.
Stamp_of_clock(existing, now) == now

\* A local write is stamped after the timestamp that the node has observed.
Stamp(existing, now) == IF existing + 1 > now THEN existing + 1 ELSE now
=============================================================================
