---------------------------- MODULE PictureDetector --------------------------
(***************************************************************************)
(* rockiva_detect_nv12 (tools/person_pet_detect_test/rockiva_detector.c):  *)
(* one call that shows one picture to the RockIVA library and waits for    *)
(* what it saw.  The library answers from threads of its own, in a result  *)
(* callback and in a release callback, and both are given the address of   *)
(* the call's own stack frame: the context with the mutex, the condition   *)
(* and the answer.                                                         *)
(*                                                                         *)
(* RockIVA is external.  What the code takes for granted of it: it reports *)
(* a pushed picture and gives it back at most once each, possibly never,   *)
(* in either order and however long ROCKIVA_WaitFinish waited; and no      *)
(* callback runs, and the picture is not read, once the call that releases *)
(* the detector or the library has returned.                               *)
(*                                                                         *)
(* Every section under context->mutex is one step.                         *)
(***************************************************************************)

EXTENDS Integers

VARIABLES
    caller,     \* where the call is, "done" when it has returned
    owned,      \* what it holds: the image and the three *_initialized flags
    result,     \* what it will return
    summary,    \* the caller's *summary
    context,    \* callback_received, execute_status, summary, frame_released
    pending,    \* library: the picture is pushed and not yet reported
    held,       \* library: the picture is pushed and not yet given back
    reporter,   \* the result callback, from its call to its return
    releaser,   \* the release callback, from its call to its return
    answer      \* what the library passes to the result callback

answered == <<context, reporter, answer>>
library  == <<pending, held>>
vars     == <<caller, owned, result, summary, answered, library, releaser>>

Resources == {"image", "sync", "iva", "detect"}

(* What the library found; no result at all is a NULL pointer.             *)
Results  == {"objects", "empty", "null"}
Answers  == [status : {"success", "failure"}, result : Results]

(* A summary holds the library's counts, or only zeros.                    *)
Counts(r) == IF r = "objects" THEN "objects" ELSE "empty"

Init ==
    /\ caller = "start" /\ owned = {} /\ result = -1
    /\ summary = "empty"
    /\ context = [received |-> FALSE, status |-> "unknown",
                  summary |-> "empty", released |-> FALSE]
    /\ pending = FALSE /\ held = FALSE
    /\ reporter = "idle" /\ releaser = "idle"
    /\ answer = [status |-> "success", result |-> "empty"]

-----------------------------------------------------------------------------
(* Building up.  A step that fails goes to cleanup, which undoes exactly   *)
(* what the flags say was done.                                            *)
Acquire(at, resource, next) ==
    /\ caller = at
    /\ \/ owned' = owned \cup {resource} /\ caller' = next
       \/ owned' = owned /\ caller' = "cleanup"
    /\ UNCHANGED <<result, summary, answered, library, releaser>>

(* A bad argument, model, size or file, or no DMA memory: nothing to undo. *)
AllocImage ==
    /\ caller = "start"
    /\ \/ owned' = {"image"} /\ caller' = "load"
       \/ owned' = {} /\ caller' = "done"
    /\ UNCHANGED <<result, summary, answered, library, releaser>>

(* The image is unusable, the picture cannot be read, or all is well; and, *)
(* at "callback", ROCKIVA_SetFrameReleaseCallback.                         *)
Attempt(at, next) ==
    /\ caller = at /\ caller' \in {next, "cleanup"}
    /\ UNCHANGED <<owned, result, summary, answered, library, releaser>>

LoadPicture == Attempt("load", "sync")
CreateSync  == Acquire("sync", "sync", "init")
InitIva     == Acquire("init", "iva", "callback")
SetCallback == Attempt("callback", "detect")
InitDetect  == Acquire("detect", "detect", "push")

PushFrame ==
    /\ caller = "push"
    /\ \/ caller' = "finish" /\ pending' = TRUE /\ held' = TRUE
       \/ caller' = "cleanup" /\ UNCHANGED library
    /\ UNCHANGED <<owned, result, summary, answered, releaser>>

(* ROCKIVA_WaitFinish: done, failed or timed out, as the library says.     *)
WaitFinish == Attempt("finish", "wait")

-----------------------------------------------------------------------------
(* Mutants: what the named definition below would be with a plausible bug. *)
(* No action of the specification uses them.                               *)

(* WaitForResult: pthread_cond_wait, without a deadline.                   *)
WaitForever ==
    /\ caller = "wait" /\ context.received
    /\ caller' = "copy"
    /\ UNCHANGED <<owned, result, summary, answered, library, releaser>>

(* CopySummary: any answer is a good one.                                  *)
CopyUnchecked ==
    /\ caller = "copy"
    /\ summary' = context.summary /\ result' = 0
    /\ caller' = "cleanup"
    /\ UNCHANGED <<owned, answered, library, releaser>>

(* ReleaseIva: after the picture is reported there is nothing to wait for. *)
ReleaseFinished ==
    /\ caller = "release"
    /\ \/ "iva" \in owned /\ ~context.received
          /\ reporter = "idle" /\ releaser = "idle"
          /\ held' = FALSE
       \/ ("iva" \notin owned \/ context.received) /\ UNCHANGED held
    /\ owned' = owned \ {"iva"} /\ caller' = "destroy"
    /\ UNCHANGED <<result, summary, answered, pending, releaser>>

-----------------------------------------------------------------------------
(* A timed wait for callback_received; CLOCK_REALTIME is always there.     *)
WaitForResult ==
    /\ caller = "wait"
    /\ caller' = IF context.received THEN "copy" ELSE "cleanup"
    /\ UNCHANGED <<owned, result, summary, answered, library, releaser>>

CopySummary ==
    /\ caller = "copy"
    /\ summary' = context.summary
    /\ result' = IF context.status = "success" THEN 0 ELSE -1
    /\ caller' = "cleanup"
    /\ UNCHANGED <<owned, answered, library, releaser>>

(* detector_cleanup: the detector, the library, then mutex and condition.  *)
(* A release that fails is logged and counts as done.                      *)
ReleaseDetect ==
    /\ caller = "cleanup"
    /\ \/ "detect" \in owned /\ reporter = "idle" /\ pending' = FALSE
       \/ "detect" \notin owned /\ UNCHANGED pending
    /\ owned' = owned \ {"detect"} /\ caller' = "release"
    /\ UNCHANGED <<result, summary, answered, held, releaser>>

ReleaseIva ==
    /\ caller = "release"
    /\ \/ "iva" \in owned /\ reporter = "idle" /\ releaser = "idle"
          /\ held' = FALSE
       \/ "iva" \notin owned /\ UNCHANGED held
    /\ owned' = owned \ {"iva"} /\ caller' = "destroy"
    /\ UNCHANGED <<result, summary, answered, pending, releaser>>

DestroySync ==
    /\ caller = "destroy"
    /\ owned' = owned \ {"sync"} /\ caller' = "free"
    /\ UNCHANGED <<result, summary, answered, library, releaser>>

(* A failure of ROCKIVA_IMAGE_FreeMem fails the call.                      *)
FreeImage ==
    /\ caller = "free" /\ caller' = "done"
    /\ \/ owned' = owned \ {"image"} /\ UNCHANGED result
       \/ owned' = owned /\ result' = -1
    /\ UNCHANGED <<summary, answered, library, releaser>>

Call ==
    \/ AllocImage \/ LoadPicture \/ CreateSync \/ InitIva \/ SetCallback
    \/ InitDetect \/ PushFrame \/ WaitFinish \/ WaitForResult
    \/ CopySummary \/ ReleaseDetect \/ ReleaseIva \/ DestroySync
    \/ FreeImage

-----------------------------------------------------------------------------
(* The library calls back.                                                 *)
Report ==
    /\ pending /\ reporter = "idle"
    /\ answer' \in Answers
    /\ pending' = FALSE /\ reporter' = "called"
    /\ UNCHANGED <<caller, owned, result, summary, context, held, releaser>>

(* detect_result_callback                                                  *)
DetectResult ==
    /\ reporter = "called" /\ reporter' = "idle"
    /\ context' = [context EXCEPT !.received = TRUE,
                                  !.status = answer.status,
                                  !.summary = Counts(answer.result)]
    /\ UNCHANGED <<caller, owned, result, summary, answer, library, releaser>>

GiveBack ==
    /\ held /\ releaser = "idle"
    /\ held' = FALSE /\ releaser' = "called"
    /\ UNCHANGED <<caller, owned, result, summary, answered, pending>>

(* frame_release_callback                                                  *)
FrameRelease ==
    /\ releaser = "called" /\ releaser' = "idle"
    /\ context' = [context EXCEPT !.released = TRUE]
    /\ UNCHANGED <<caller, owned, result, summary, reporter, answer, library>>

Library   == Report \/ GiveBack
Callbacks == DetectResult \/ FrameRelease

Next == Call \/ Library \/ Callbacks
Spec == Init /\ [][Next]_vars

(* The waits have deadlines, the callbacks return, and a release returns   *)
(* once they have.  Nothing makes the library call back.                   *)
FairSpec == Spec /\ WF_vars(Call) /\ WF_vars(DetectResult) /\ WF_vars(FrameRelease)

-----------------------------------------------------------------------------
TypeOK ==
    /\ caller \in {"start", "load", "sync", "init", "callback", "detect",
                   "push", "finish", "wait", "copy", "cleanup", "release",
                   "destroy", "free", "done"}
    /\ owned \subseteq Resources
    /\ result \in {-1, 0}
    /\ summary \in {"objects", "empty"}
    /\ context \in [received : BOOLEAN,
                    status : {"unknown", "success", "failure"},
                    summary : {"objects", "empty"}, released : BOOLEAN]
    /\ pending \in BOOLEAN /\ held \in BOOLEAN
    /\ reporter \in {"idle", "called"} /\ releaser \in {"idle", "called"}
    /\ answer \in Answers

(* Whatever the library does after a deadline has passed, it does to a     *)
(* context that is still there: no callback runs without its mutex, none   *)
(* after the call has returned and its stack frame is gone, and the image  *)
(* is not freed while the library may read it.                             *)
ContextInScope ==
    /\ reporter = "called" \/ releaser = "called"
       => {"image", "sync"} \subseteq owned /\ caller # "done"
    /\ pending \/ held => {"image", "sync", "iva"} \subseteq owned

(* The call succeeds only with an answer the library gave with status      *)
(* SUCCESS, which is then what the caller's summary says, and with nothing *)
(* left behind; a call that fails leaves at most the image it failed to    *)
(* free.                                                                   *)
HonestReturn ==
    caller = "done" =>
        /\ owned \subseteq {"image"}
        /\ result = 0 =>
            /\ owned = {}
            /\ context.received /\ answer.status = "success"
            /\ summary = Counts(answer.result)

(* The call returns, though the library may never call back and though     *)
(* callbacks may hold up the releases.                                     *)
CallReturns == <>(caller = "done")
=============================================================================
