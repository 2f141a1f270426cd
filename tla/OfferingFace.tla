---------------------------- MODULE OfferingFace ----------------------------
(***************************************************************************)
(* What an offering shows to the intake case it was opened for. The        *)
(* corrections and the handoffs of a case depend on these phases alone.    *)
(* Offering implements this module, and Intake composes the case with it:  *)
(* the two agree on what either may assume of the other.                   *)
(***************************************************************************)

VARIABLE phase
  \* none      not opened yet
  \* open      opened, and nobody can have seen it
  \* engaged   a disclosure pack was published, people may be in it
  \* ready     the pack is complete and the target is funded
  \* terms     the final terms are published
  \* final     finalized
  \* closed    closed by a correction of the case

Phases == {"none", "open", "engaged", "ready", "terms", "final", "closed"}

FaceInit == phase \in {"none", "open"}

Open == phase = "none" /\ phase' = "open"

PublishPack == phase \in {"open", "engaged", "ready"} /\ phase' \in {"engaged", "ready"}

\* Nobody comes in before a disclosure pack.
DemandMoves == phase \in {"engaged", "ready"} /\ phase' \in {"engaged", "ready"}

PublishTerms == phase = "ready" /\ phase' = "terms"

Finalize == phase = "terms" /\ phase' = "final"

\* Only an offering that nobody can have seen is closed.
Close == phase \in {"open", "closed"} /\ phase' = "closed"

FaceNext == Open \/ PublishPack \/ DemandMoves \/ PublishTerms \/ Finalize \/ Close

FaceSpec == FaceInit /\ [][FaceNext]_phase
=============================================================================
