--------------------------- MODULE MCStreamManager ---------------------------
(***************************************************************************)
(* A job's output: the stream manager with a buffer of three bytes, a      *)
(* connected window of two and packets of one or two bytes, small enough   *)
(* to fill, wrap and overflow within a short stream; and a terminal that   *)
(* attaches to the block while two writers change its file.  They share no *)
(* state: each behavior is one of the part its first state names.          *)
(***************************************************************************)
EXTENDS StreamManager, AttachOutput
CONSTANTS w1, w2

VARIABLE part
MCInit == SmInit /\ AttachInit /\ part \in {"stream", "attach"}
MCNext ==
    \/ part = "stream" /\ SmNext /\ UNCHANGED <<part, attachVars>>
    \/ part = "attach" /\ AttachNext /\ UNCHANGED <<part, smVars>>
MCSpec == MCInit /\ [][MCNext]_<<part, smVars, attachVars>>
=============================================================================
