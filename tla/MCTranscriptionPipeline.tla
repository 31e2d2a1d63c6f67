----------------------- MODULE MCTranscriptionPipeline -----------------------
(* TranscriptionPipeline on small instances. *)
EXTENDS TranscriptionPipeline, TLC

\* Workers are interchangeable.
WorkerSymmetry == Permutations(Workers)
=============================================================================
