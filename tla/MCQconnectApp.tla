---------------------------- MODULE MCQconnectApp ----------------------------
(* Model checking instances of QconnectApp: small sets of uuids and kinds. *)
EXTENDS QconnectApp, TLC

UuidSymmetry == Permutations(Uuids)

\* A write, a control that may go beside a read, and the handover command.
WideCommands == {"QueueLoadTracks", "SetPlayerState"}
WideOneShots == {"AskForQueueState", "SetActiveRenderer"}
WideForeign  == {"QueueState", "QueuePartial", "RendererStateUpdated"}

NarrowCommands == {"QueueLoadTracks", "AskForQueueState"}
NarrowOneShots == {"AskForQueueState"}
NarrowForeign  == {"QueueDelta"}

\* The regular run, with liveness: one write beside reads and the handover.
OneWrite == {"QueueLoadTracks"}
==============================================================================
