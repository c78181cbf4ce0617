------------------------------ MODULE IspControl ----------------------------
(***************************************************************************)
(* The image signal processor (isp/isp_control.c) and the RKAIQ library    *)
(* (external), which reports a fatal condition from a thread of its own.   *)
(* Its callbacks carry no pointer of ours: the flag they set is global.    *)
(***************************************************************************)
EXTENDS Naturals

VARIABLES
    isp,       \* the IspControl: "none", "created" or "started"
    aiqQuit    \* g_aiq_should_quit

ispVars == <<isp, aiqQuit>>

(* The flag is false in a new process.                                     *)
IspInit == isp = "none" /\ aiqQuit = FALSE

(* isp_control_create frees what it made when a step fails.  The flag is   *)
(* reset, if create gets that far, before the library can set it again.    *)
IspCreate ==
    /\ isp = "none" /\ isp' = "created" /\ aiqQuit' = FALSE

IspCreateFails ==
    /\ isp = "none" /\ isp' = "none" /\ aiqQuit' \in BOOLEAN

(* isp_control_start: prepare and start.                                   *)
IspStart      == isp = "created" /\ isp' = "started" /\ UNCHANGED aiqQuit
IspStartFails == isp = "created" /\ UNCHANGED ispVars

(* isp_control_destroy stops what was started, whether or not the library  *)
(* agrees, and releases the context.                                       *)
IspDestroy == isp # "none" /\ isp' = "none" /\ UNCHANGED aiqQuit

(* isp_error_callback, XCAM_RETURN_BYPASS.                                 *)
IspError == isp # "none" /\ aiqQuit' = TRUE /\ UNCHANGED isp

(* isp_control_should_quit                                                 *)
ShouldQuit == isp # "none" /\ aiqQuit

(* Type correctness.                                                       *)
IspTypeOK == isp \in {"none", "created", "started"} /\ aiqQuit \in BOOLEAN
=============================================================================
