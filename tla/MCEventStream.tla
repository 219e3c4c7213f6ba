--------------------------- MODULE MCEventStream ---------------------------
(* EventStream for TLC: every stream of up to three events.                  *)
EXTENDS EventStream

MCStreams == SeqOf(Kinds, 3)
=============================================================================
