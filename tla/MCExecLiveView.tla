--------------------------- MODULE MCExecLiveView ---------------------------
(* Small instances of ExecLiveView. *)
EXTENDS ExecLiveView

CONSTANTS f1, f2
=============================================================================
