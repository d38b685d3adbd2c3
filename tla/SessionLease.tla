---------------------------- MODULE SessionLease ----------------------------
(***************************************************************************)
(* What the server promises about the ids of compressed playback sessions. *)
(* An id is unknown, holds a slot of the shared limit, or is over.  It is  *)
(* admitted at most once and only within the limit in force, which may be  *)
(* lowered below what is held; once it is over (cancelled, also before it  *)
(* was admitted, or ended in any other way) it never holds a slot again.   *)
(*                                                                         *)
(* Playback implements this contract, and CompressedSource models the page *)
(* in front of a server of which it knows nothing else.                    *)
(***************************************************************************)
EXTENDS Naturals, FiniteSets

CONSTANTS
  Ids,          (* session ids: fresh UUIDs chosen by the page               *)
  Limits        (* the values that the limit may take; 0 is unlimited        *)

VARIABLES
  lease,        (* what the server knows of each id                          *)
  limit         (* the limit in force                                        *)

LeaseStates == {"unknown", "held", "over"}

Init == lease = [s \in Ids |-> "unknown"] /\ limit \in Limits

Held == {s \in Ids : lease[s] = "held"}
HasRoom == limit = 0 \/ Cardinality(Held) < limit

\* The first admission of an id; the server may also refuse it, which leaves
\* the id unknown.
Admit(s) ==
  /\ lease[s] = "unknown" /\ HasRoom
  /\ lease' = [lease EXCEPT ![s] = "held"]

\* A DELETE, a watchdog or the end of the stream.
End(s) ==
  /\ lease[s] # "over"
  /\ lease' = [lease EXCEPT ![s] = "over"]

SetLimit == limit' \in Limits /\ UNCHANGED lease

Next ==
  \/ SetLimit
  \/ UNCHANGED limit /\ \E s \in Ids : Admit(s) \/ End(s)

Spec == Init /\ [][Next]_<<lease, limit>>

=============================================================================
