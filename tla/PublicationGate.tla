--------------------------- MODULE PublicationGate ---------------------------
(***************************************************************************)
(* What a runtime session promises its callers about scene revisions,      *)
(* without surfaces, tokens, queues, packets or devices: revisions are     *)
(* requested, some of them are shown, a lost backend can be rebuilt, and   *)
(* the end is final.  EngineSession implements it.                         *)
(***************************************************************************)
EXTENDS Integers

CONSTANT Revisions   \* scene revisions, natural numbers

VARIABLES
  phase,      \* "new", "open", "lost" or "dead"
  requested,  \* highest revision requested so far, -1 when none
  shown       \* revision of the last frame shown, -1 when none

gateVars == <<phase, requested, shown>>

Unseen == -1

GateInit ==
  /\ phase = "new"
  /\ requested = Unseen
  /\ shown = Unseen

Open ==
  /\ phase = "new"
  /\ phase' = "open"
  /\ UNCHANGED <<requested, shown>>

(* Requests only ever move the watermark forward. *)
Request ==
  /\ phase = "open"
  /\ \E r \in Revisions : r > requested /\ requested' = r
  /\ UNCHANGED <<phase, shown>>

(* A live session shows the newest requested revision and no other; the     *)
(* frame may turn out to be its last.                                      *)
Show ==
  /\ phase = "open"
  /\ requested # Unseen
  /\ shown' = requested
  /\ phase' \in {"open", "dead"}
  /\ UNCHANGED requested

Lose ==
  /\ phase \in {"new", "open"}
  /\ phase' = "lost"
  /\ UNCHANGED <<requested, shown>>

(* A rebuild may replay a frame the session had accepted: never one older   *)
(* than what was shown, never one that was not requested.                  *)
Rebuild ==
  /\ phase = "lost"
  /\ phase' \in {"open", "lost", "dead"}
  /\ shown' \in Revisions \cup {Unseen}
  /\ shown <= shown' /\ shown' <= requested
  /\ UNCHANGED requested

Die ==
  /\ phase # "dead"
  /\ phase' = "dead"
  /\ UNCHANGED <<requested, shown>>

GateNext == Open \/ Request \/ Show \/ Lose \/ Rebuild \/ Die

GateSpec == GateInit /\ [][GateNext]_gateVars
=============================================================================
