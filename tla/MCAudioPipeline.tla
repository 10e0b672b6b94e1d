----------------------------- MODULE MCAudioPipeline -----------------------------
(***************************************************************************)
(* A small instance of AudioPipeline.tla: queues of one or two elements (1500 *)
(* frames and 10 chunks in the code), a detector that opens on one frame and *)
(* closes on one silent frame, so that chunks come thick and fast.           *)
(***************************************************************************)
EXTENDS AudioPipeline

OneSilence == {1}
===============================================================================
