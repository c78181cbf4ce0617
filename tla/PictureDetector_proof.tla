------------------------ MODULE PictureDetector_proof -----------------------
(***************************************************************************)
(* Proofs about the picture detector.  ContextInScope and HonestReturn are *)
(* not inductive: the first needs to know what the call holds at each of   *)
(* its positions and which of it each callback stands on, the second that  *)
(* the one report of the one picture is never overwritten.                 *)
(***************************************************************************)
EXTENDS PictureDetector, TLAPS

Building == {"start", "load", "sync", "init", "callback", "detect", "push"}

(* What the call holds, by position; cleanup may start from any of them.   *)
HoldsInv ==
    /\ caller = "start" => owned = {}
    /\ caller \in {"load", "sync"} => owned = {"image"}
    /\ caller = "init" => owned = {"image", "sync"}
    /\ caller \in {"callback", "detect"} => owned = {"image", "sync", "iva"}
    /\ caller \in {"push", "finish", "wait", "copy"} => owned = Resources
    /\ caller \notin {"start", "done"} => "image" \in owned
    /\ "iva" \in owned => "sync" \in owned
    /\ "detect" \in owned => "iva" \in owned
    /\ caller \in {"release", "destroy", "free", "done"} => "detect" \notin owned
    /\ caller \in {"destroy", "free", "done"} => "iva" \notin owned
    /\ caller \in {"free", "done"} => "sync" \notin owned

(* Reports come from an initialised detector, releases from an initialised *)
(* library, and neither before the picture is pushed.                      *)
SourceInv ==
    /\ pending \/ reporter = "called" => "detect" \in owned
    /\ held \/ releaser = "called" => "iva" \in owned
    /\ caller \in Building => ~pending /\ reporter = "idle" /\ ~context.received

(* There is one report, and the context holds it from then on.             *)
ReportInv ==
    /\ reporter = "called" => ~pending /\ ~context.received
    /\ context.received =>
        /\ ~pending
        /\ context.status = answer.status
        /\ context.summary = Counts(answer.result)
    /\ caller = "copy" => context.received

ResultInv ==
    result = 0 =>
        /\ context.received /\ answer.status = "success"
        /\ summary = Counts(answer.result)
        /\ caller = "done" => owned = {}

IInv == TypeOK /\ HoldsInv /\ SourceInv /\ ReportInv /\ ResultInv

-----------------------------------------------------------------------------
LEMMA InitIInv == Init => IInv
<1> SUFFICES ASSUME Init PROVE IInv
    OBVIOUS
<1>1. TypeOK
    BY DEF Init, TypeOK, Resources, Answers, Results
<1>2. HoldsInv /\ SourceInv
    BY DEF Init, HoldsInv, SourceInv
<1>3. ReportInv /\ ResultInv
    BY DEF Init, ReportInv, ResultInv
<1>4. QED
    BY <1>1, <1>2, <1>3 DEF IInv

(* The steps that build up change neither the answer nor the context, and  *)
(* a resource is added where HoldsInv says it was missing.                 *)
LEMMA BuildingStep ==
    ASSUME IInv,
           \/ AllocImage \/ LoadPicture \/ CreateSync \/ InitIva
           \/ SetCallback \/ InitDetect \/ PushFrame
    PROVE  IInv'
<1>1. CASE AllocImage
    <2>1. TypeOK'
        BY <1>1 DEF IInv, TypeOK, AllocImage, answered, library, Resources
    <2>2. HoldsInv'
        BY <1>1 DEF IInv, HoldsInv, AllocImage, Resources
    <2>3. SourceInv'
        BY <1>1
        DEF IInv, TypeOK, HoldsInv, SourceInv, AllocImage, answered, library,
            Building
    <2>4. ReportInv'
        BY <1>1 DEF IInv, TypeOK, ReportInv, AllocImage, answered, library
    <2>5. ResultInv'
        BY <1>1
        DEF IInv, TypeOK, HoldsInv, SourceInv, ReportInv, ResultInv, AllocImage,
            answered, library, Building
    <2>6. QED
        BY <2>1, <2>2, <2>3, <2>4, <2>5 DEF IInv
<1>2. CASE LoadPicture
    BY <1>2 DEF IInv, TypeOK, HoldsInv, SourceInv, ReportInv, ResultInv,
                LoadPicture, Attempt, Resources, Building, answered, library
<1>3. CASE CreateSync
    BY <1>3 DEF IInv, TypeOK, HoldsInv, SourceInv, ReportInv, ResultInv,
                CreateSync, Acquire, Resources, Building, answered, library
<1>4. CASE InitIva
    BY <1>4 DEF IInv, TypeOK, HoldsInv, SourceInv, ReportInv, ResultInv,
                InitIva, Acquire, Resources, Building, answered, library
<1>5. CASE SetCallback
    BY <1>5 DEF IInv, TypeOK, HoldsInv, SourceInv, ReportInv, ResultInv,
                SetCallback, Attempt, Resources, Building, answered, library
<1>6. CASE InitDetect
    BY <1>6 DEF IInv, TypeOK, HoldsInv, SourceInv, ReportInv, ResultInv,
                InitDetect, Acquire, Resources, Building, answered, library
<1>7. CASE PushFrame
    <2>1. TypeOK'
        <3>1. pending' \in BOOLEAN /\ held' \in BOOLEAN
            BY <1>7 DEF IInv, TypeOK, PushFrame, library
        <3>2. context' = context /\ answer' \in Answers
            BY <1>7 DEF IInv, TypeOK, PushFrame, answered
        <3>3. QED
            BY <1>7, <3>1, <3>2 DEF IInv, TypeOK, PushFrame, answered
    <2>2. HoldsInv'
        BY <1>7 DEF IInv, HoldsInv, PushFrame, Resources
    <2>3. SourceInv'
        BY <1>7
        DEF IInv, HoldsInv, SourceInv, PushFrame, answered, Building,
            Resources
    <2>4. ReportInv'
        BY <1>7
        DEF IInv, SourceInv, ReportInv, PushFrame, answered, Building
    <2>5. ResultInv'
        BY <1>7
        DEF IInv, TypeOK, HoldsInv, SourceInv, ReportInv, ResultInv, PushFrame,
            answered, library, Building
    <2>6. QED
        BY <2>1, <2>2, <2>3, <2>4, <2>5 DEF IInv
<1>8. QED
    BY <1>1, <1>2, <1>3, <1>4, <1>5, <1>6, <1>7

LEMMA WaitingStep ==
    ASSUME IInv, WaitFinish \/ WaitForResult \/ CopySummary
    PROVE  IInv'
<1>1. CASE WaitFinish
    BY <1>1 DEF IInv, TypeOK, HoldsInv, SourceInv, ReportInv, ResultInv,
                WaitFinish, Attempt, Resources, Building, answered, library
<1>2. CASE WaitForResult
    BY <1>2 DEF IInv, TypeOK, HoldsInv, SourceInv, ReportInv, ResultInv,
                WaitForResult, Resources, Building, answered, library
<1>3. CASE CopySummary
    <2>1. TypeOK'
        BY <1>3 DEF IInv, TypeOK, CopySummary, answered, library
    <2>2. HoldsInv'
        BY <1>3 DEF IInv, HoldsInv, CopySummary, Resources
    <2>3. SourceInv'
        BY <1>3
        DEF IInv, TypeOK, HoldsInv, SourceInv, CopySummary, answered, library,
            Building
    <2>4. ReportInv'
        BY <1>3 DEF IInv, TypeOK, ReportInv, CopySummary, answered, library
    <2>5. ResultInv'
        BY <1>3
        DEF IInv, TypeOK, HoldsInv, SourceInv, ReportInv, ResultInv, CopySummary,
            answered, library, Building
    <2>6. QED
        BY <2>1, <2>2, <2>3, <2>4, <2>5 DEF IInv
<1>4. QED
    BY <1>1, <1>2, <1>3

(* A release takes a resource only when no callback stands on it.          *)
LEMMA CleanupStep ==
    ASSUME IInv, ReleaseDetect \/ ReleaseIva \/ DestroySync \/ FreeImage
    PROVE  IInv'
<1>1. CASE ReleaseDetect
    <2>1. TypeOK'
        <3>1. pending' \in BOOLEAN /\ held' \in BOOLEAN
            BY <1>1 DEF IInv, TypeOK, ReleaseDetect, library
        <3>2. context' = context /\ answer' \in Answers
            BY <1>1 DEF IInv, TypeOK, ReleaseDetect, answered
        <3>3. QED
            BY <1>1, <3>1, <3>2 DEF IInv, TypeOK, ReleaseDetect, answered
    <2>2. HoldsInv'
        BY <1>1 DEF IInv, HoldsInv, ReleaseDetect, TypeOK
    <2>3. SourceInv'
        BY <1>1
        DEF IInv, TypeOK, HoldsInv, SourceInv, ReleaseDetect, answered, library,
            Building
    <2>4. ReportInv'
        BY <1>1 DEF IInv, TypeOK, ReportInv, ReleaseDetect, answered, library
    <2>5. ResultInv'
        BY <1>1
        DEF IInv, TypeOK, HoldsInv, SourceInv, ReportInv, ResultInv, ReleaseDetect,
            answered, library, Building
    <2>6. QED
        BY <2>1, <2>2, <2>3, <2>4, <2>5 DEF IInv
<1>2. CASE ReleaseIva
    <2>1. TypeOK'
        BY <1>2 DEF IInv, TypeOK, ReleaseIva, answered, library
    <2>2. HoldsInv'
        BY <1>2 DEF IInv, HoldsInv, ReleaseIva, TypeOK
    <2>3. SourceInv'
        BY <1>2
        DEF IInv, TypeOK, HoldsInv, SourceInv, ReleaseIva, answered, library,
            Building
    <2>4. ReportInv'
        BY <1>2 DEF IInv, TypeOK, ReportInv, ReleaseIva, answered, library
    <2>5. ResultInv'
        BY <1>2
        DEF IInv, TypeOK, HoldsInv, SourceInv, ReportInv, ResultInv, ReleaseIva,
            answered, library, Building
    <2>6. QED
        BY <2>1, <2>2, <2>3, <2>4, <2>5 DEF IInv
<1>3. CASE DestroySync
    <2>1. TypeOK'
        BY <1>3 DEF IInv, TypeOK, DestroySync, answered, library
    <2>2. HoldsInv'
        BY <1>3 DEF IInv, HoldsInv, DestroySync, TypeOK
    <2>3. SourceInv'
        BY <1>3
        DEF IInv, TypeOK, HoldsInv, SourceInv, DestroySync, answered, library,
            Building
    <2>4. ReportInv'
        BY <1>3 DEF IInv, TypeOK, ReportInv, DestroySync, answered, library
    <2>5. ResultInv'
        BY <1>3
        DEF IInv, TypeOK, HoldsInv, SourceInv, ReportInv, ResultInv, DestroySync,
            answered, library, Building
    <2>6. QED
        BY <2>1, <2>2, <2>3, <2>4, <2>5 DEF IInv
<1>4. CASE FreeImage
    <2>1. TypeOK'
        BY <1>4 DEF IInv, TypeOK, FreeImage, answered, library
    <2>2. HoldsInv'
        BY <1>4 DEF IInv, HoldsInv, FreeImage, TypeOK, Resources
    <2>3. SourceInv'
        BY <1>4
        DEF IInv, TypeOK, HoldsInv, SourceInv, FreeImage, answered, library,
            Building
    <2>4. ReportInv'
        BY <1>4 DEF IInv, TypeOK, ReportInv, FreeImage, answered, library
    <2>5. caller = "free" => owned \ {"image"} = {}
        BY DEF IInv, TypeOK, HoldsInv, Resources
    <2>6. ResultInv'
        BY <1>4, <2>5
        DEF IInv, ResultInv, FreeImage, answered, library
    <2>7. QED
        BY <2>1, <2>2, <2>3, <2>4, <2>6 DEF IInv
<1>5. QED
    BY <1>1, <1>2, <1>3, <1>4

LEMMA LibraryStep ==
    ASSUME IInv, Library \/ Callbacks
    PROVE  IInv'
<1>1. CASE Report
    <2>1. TypeOK'
        <3>1. pending' \in BOOLEAN /\ held' \in BOOLEAN
            BY <1>1 DEF IInv, TypeOK, Report, library
        <3>2. context' = context /\ answer' \in Answers
            BY <1>1 DEF IInv, TypeOK, Report, answered
        <3>3. QED
            BY <1>1, <3>1, <3>2 DEF IInv, TypeOK, Report, answered
    <2>2. HoldsInv'
        BY <1>1 DEF IInv, HoldsInv, Report, TypeOK
    <2>3. SourceInv'
        BY <1>1
        DEF IInv, TypeOK, HoldsInv, SourceInv, Report, answered, library,
            Building
    <2>4. ReportInv'
        BY <1>1 DEF IInv, TypeOK, ReportInv, Report, answered, library
    <2>5. ResultInv'
        BY <1>1
        DEF IInv, TypeOK, HoldsInv, SourceInv, ReportInv, ResultInv, Report,
            answered, library, Building
    <2>6. QED
        BY <2>1, <2>2, <2>3, <2>4, <2>5 DEF IInv
<1>2. CASE GiveBack
    <2>1. TypeOK'
        <3>1. pending' \in BOOLEAN /\ held' \in BOOLEAN
            BY <1>2 DEF IInv, TypeOK, GiveBack, library
        <3>2. context' = context /\ answer' \in Answers
            BY <1>2 DEF IInv, TypeOK, GiveBack, answered
        <3>3. QED
            BY <1>2, <3>1, <3>2 DEF IInv, TypeOK, GiveBack, answered
    <2>2. HoldsInv'
        BY <1>2 DEF IInv, HoldsInv, GiveBack, TypeOK
    <2>3. SourceInv'
        BY <1>2
        DEF IInv, TypeOK, HoldsInv, SourceInv, GiveBack, answered, library,
            Building
    <2>4. ReportInv'
        BY <1>2 DEF IInv, TypeOK, ReportInv, GiveBack, answered, library
    <2>5. ResultInv'
        BY <1>2
        DEF IInv, TypeOK, HoldsInv, SourceInv, ReportInv, ResultInv, GiveBack,
            answered, library, Building
    <2>6. QED
        BY <2>1, <2>2, <2>3, <2>4, <2>5 DEF IInv
<1>3. CASE DetectResult
    <2>1. Counts(answer.result) \in {"objects", "empty"}
        BY DEF Counts
    <2>2. answer.status \in {"success", "failure"}
        BY DEF IInv, TypeOK, Answers
    <2>3. QED
        BY <1>3, <2>1, <2>2
        DEF IInv, TypeOK, HoldsInv, SourceInv, ReportInv, ResultInv,
            DetectResult, Building, library
<1>4. CASE FrameRelease
    <2>1. TypeOK'
        BY <1>4 DEF IInv, TypeOK, FrameRelease, library
    <2>2. HoldsInv'
        BY <1>4 DEF IInv, HoldsInv, FrameRelease
    <2>3. SourceInv'
        BY <1>4 DEF IInv, TypeOK, SourceInv, FrameRelease, library
    <2>4. ReportInv' /\ ResultInv'
        BY <1>4 DEF IInv, TypeOK, ReportInv, ResultInv, FrameRelease, library
    <2>5. QED
        BY <2>1, <2>2, <2>3, <2>4 DEF IInv
<1>5. QED
    BY <1>1, <1>2, <1>3, <1>4 DEF Library, Callbacks

LEMMA StutterStep == ASSUME IInv, UNCHANGED vars PROVE IInv'
BY DEF IInv, TypeOK, HoldsInv, SourceInv, ReportInv, ResultInv,
       vars, answered, library

(* The invariant holds in every state of every run of the call.            *)
THEOREM IInvHolds == Spec => []IInv
<1>1. ASSUME IInv, [Next]_vars PROVE IInv'
    BY <1>1, BuildingStep, WaitingStep, CleanupStep, LibraryStep, StutterStep
    DEF Next, Call
<1>2. QED
    BY InitIInv, <1>1, PTL DEF Spec

(* Every variable keeps its type.                                          *)
THEOREM TypesHold == Spec => []TypeOK
<1>1. IInv => TypeOK
    BY DEF IInv
<1>2. QED
    BY IInvHolds, <1>1, PTL

(* No callback, however late, runs on a context or reads an image that is  *)
(* gone (detector_cleanup, rockiva_detector.c).                            *)
THEOREM ScopeHolds == Spec => []ContextInScope
<1>1. IInv => ContextInScope
    BY DEF IInv, TypeOK, HoldsInv, SourceInv, ContextInScope
<1>2. QED
    BY IInvHolds, <1>1, PTL

(* A call that returns success returns what the library answered, and      *)
(* leaves nothing behind (rockiva_detect_nv12).                            *)
THEOREM HonestHolds == Spec => []HonestReturn
<1>1. IInv => HonestReturn
    BY DEF IInv, TypeOK, HoldsInv, ResultInv, HonestReturn, Resources
<1>2. QED
    BY IInvHolds, <1>1, PTL
=============================================================================
