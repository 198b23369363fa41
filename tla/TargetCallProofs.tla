-------------------------- MODULE TargetCallProofs --------------------------
(***************************************************************************)
(* Proofs about TargetCall, for every set of adapters and all bounds: what *)
(* a call reports of its target is true.  CallInv says what each place the *)
(* adapter can be in knows of the target.                                  *)
(***************************************************************************)
EXTENDS TargetCall, TLAPS

\* Before the call nothing is at work; who polls awaits a job that began; who
\* fetches a result knows that the job is done; and a status or an opaque body is
\* never blamed on the target as its error.
StepKnowsTarget ==
    /\ step = "idle" => target = "idle" /\ adapter = "none"
    /\ step \in {"head", "poll", "asleep", "fetch"} => Polls /\ awaits /\ target # "idle"
    /\ step = "fetch" => target = "done"
    /\ step # "over" => outcome = "none" /\ reason = "none"
    /\ step \in {"idle", "sent"} => answer = "none"
    /\ step \in {"head", "poll", "asleep", "fetch"} => answer = "handle"
    /\ answer = "handle" => Polls /\ awaits
    /\ answer \in {"status", "opaque"} => reason # "target_error"

CallInv ==
    /\ TargetCallTypeOK
    /\ StepKnowsTarget
    /\ SuccessIsReal
    /\ NothingLeftAtWork
    /\ FailureIsReal

\* No call has been made.
LEMMA CallInvInit == TargetCallInit => CallInv
<1> SUFFICES ASSUME TargetCallInit PROVE CallInv
  OBVIOUS
<1>1. TargetCallTypeOK
  <2>1. awaits \in BOOLEAN /\ guarded \in BOOLEAN
    BY DEF TargetCallInit
  <2>2. /\ adapter = "none" /\ step = "idle" /\ target = "idle" /\ answer = "none"
        /\ outcome = "none" /\ reason = "none"
        /\ elapsed = 0 /\ wake = 0 /\ tries = 0
    BY DEF TargetCallInit
  <2> QED BY <2>1, <2>2, TargetCallConstantsOK DEF TargetCallTypeOK
<1>2. StepKnowsTarget
  BY DEF TargetCallInit, StepKnowsTarget
<1>3. SuccessIsReal /\ NothingLeftAtWork /\ FailureIsReal
  BY DEF TargetCallInit, SuccessIsReal, NothingLeftAtWork, FailureIsReal, Over
<1> QED BY <1>1, <1>2, <1>3 DEF CallInv

-----------------------------------------------------------------------------
\* Ending a call stores an outcome, a reason and what it was answered by: the
\* invariant holds if they are true of the target.
LEMMA EndsStep ==
  ASSUME CallInv, NEW result \in {"succeeded", "failed"},
         NEW why \in {"none", "unsent", "http_status", "target_error"} \cup GaveUp,
         step # "idle", Ends(result, why), UNCHANGED target,
         answer' \in {"none", "result", "handle", "status", "opaque", "marked"},
         answer' = "handle" => Polls /\ awaits,
         answer' \in {"status", "opaque"} => why # "target_error",
         result = "succeeded" => target = "done" \/ adapter \in StatusOnly \/ answer' = "opaque",
         target = "working" => why \in GaveUp \/ answer' \in {"status", "opaque", "marked"},
         why = "target_error" => target \in {"idle", "failed"} \/ answer' = "marked"
  PROVE  CallInv'
  BY TargetCallConstantsOK DEF CallInv, TargetCallTypeOK, StepKnowsTarget, SuccessIsReal,
     NothingLeftAtWork, FailureIsReal, Ends, Over, Polls, GaveUp

\* Going on is sound as long as the adapter knows of the target what its next
\* place needs.
LEMMA GoesStep ==
  ASSUME CallInv, NEW to \in {"head", "poll", "asleep", "fetch"}, NEW left \in 0..Urls,
         step \notin {"idle", "over"}, Goes(to, left), UNCHANGED target,
         wake' \in 0..(MaxElapsed + Interval),
         answer' = "handle", Polls, awaits, target # "idle", to = "fetch" => target = "done"
  PROVE  CallInv'
  BY TargetCallConstantsOK DEF CallInv, TargetCallTypeOK, StepKnowsTarget, SuccessIsReal,
     NothingLeftAtWork, FailureIsReal, Goes, Over, Polls

-----------------------------------------------------------------------------
\* The worker chooses an adapter before anything can be at work.
LEMMA CallStartsStep == CallInv /\ CallStarts => CallInv'
  BY TargetCallConstantsOK DEF CallStarts, CallInv, TargetCallTypeOK, StepKnowsTarget, SuccessIsReal,
     NothingLeftAtWork, FailureIsReal, Over, Polls

\* The target begins only while the request may be on its way, and ends whenever
\* it likes; a call that is over keeps its reason.
LEMMA TargetSteps == CallInv /\ (TargetStarts \/ TargetEnds) => CallInv'
  BY TargetCallConstantsOK DEF TargetStarts, TargetEnds, CallInv, TargetCallTypeOK, StepKnowsTarget,
     SuccessIsReal, NothingLeftAtWork, FailureIsReal, Over, Polls, GaveUp

\* Time changes nothing that is known of the target.
LEMMA ClockRunsStep == CallInv /\ ClockRuns => CallInv'
  BY TargetCallConstantsOK DEF GaveUp, ClockRuns, CallInv, TargetCallTypeOK, StepKnowsTarget, SuccessIsReal,
     NothingLeftAtWork, FailureIsReal, Over, Polls

\* The first answer: a result, a status, a body without a verdict, a refusal, none,
\* or a job's handle.
LEMMA AnswerSteps ==
  ASSUME CallInv,
         \/ AnsweredResult \/ AnsweredStatus \/ AnsweredOpaque \/ AnsweredMarked
         \/ AnsweredRefusal \/ AnswerLost \/ AnsweredHandle
  PROVE  CallInv'
<1> USE DEF GaveUp
<1>0. step = "sent" /\ answer = "none"
  BY DEF CallInv, StepKnowsTarget, AnsweredResult, AnsweredStatus, AnsweredOpaque, AnsweredMarked,
         AnsweredRefusal, AnswerLost, AnsweredHandle
<1>1. CASE AnsweredResult
  BY <1>1, EndsStep DEF AnsweredResult
<1>2. CASE AnsweredStatus
  BY <1>2, EndsStep DEF AnsweredStatus
<1>3. CASE AnsweredOpaque
  BY <1>3, EndsStep DEF AnsweredOpaque
<1>4. CASE AnsweredMarked
  BY <1>4, EndsStep DEF AnsweredMarked
<1>5. CASE AnsweredRefusal
  BY <1>0, <1>5, EndsStep DEF AnsweredRefusal
<1>6. CASE AnswerLost
  BY <1>0, <1>6, EndsStep DEF AnswerLost
<1>7. CASE AnsweredHandle
  <2>1. CASE Goes("head", 0) /\ UNCHANGED wake
    BY <1>7, <2>1, GoesStep, TargetCallConstantsOK DEF AnsweredHandle, CallInv, TargetCallTypeOK
  <2>2. CASE Ends("failed", "adapter_error")
    BY <1>7, <2>2, EndsStep DEF AnsweredHandle
  <2> QED BY <1>7, <2>1, <2>2 DEF AnsweredHandle
<1> QED BY <1>1, <1>2, <1>3, <1>4, <1>5, <1>6, <1>7

\* The poll of a sibling's job.
LEMMA PollSteps ==
  ASSUME CallInv, PollRound \/ PollMisses \/ PollRaises \/ PollAnswered \/ PollSleeps \/ ResultFetched
  PROVE  CallInv'
<1> USE TargetCallConstantsOK DEF GaveUp
<1>0. /\ step \in {"head", "poll", "asleep", "fetch"}
      /\ Polls /\ awaits /\ target # "idle"
      /\ step = "fetch" => target = "done"
      /\ wake \in 0..(MaxElapsed + Interval) /\ elapsed \in 0..MaxElapsed /\ tries \in 0..Urls
      /\ answer = "handle" /\ UNCHANGED answer
  BY DEF PollRound, PollMisses, PollRaises, PollAnswered, PollSleeps, ResultFetched, CallInv,
         StepKnowsTarget, TargetCallTypeOK
<1>1. CASE PollRound
  <2>1. CASE elapsed < Timeout
    BY <1>0, <1>1, <2>1, GoesStep DEF PollRound
  <2>2. CASE ~(elapsed < Timeout)
    BY <1>0, <1>1, <2>2, EndsStep DEF PollRound, Ends
  <2> QED BY <2>1, <2>2
<1>2. CASE PollMisses
  <2>1. CASE tries > 1
    BY <1>0, <1>2, <2>1, GoesStep DEF PollMisses
  <2>2. CASE ~(tries > 1)
    BY <1>0, <1>2, <2>2, EndsStep DEF PollMisses, Ends
  <2> QED BY <2>1, <2>2
<1>3. CASE PollRaises
  BY <1>0, <1>3, EndsStep DEF PollRaises, Ends
<1>4. CASE PollAnswered
  <2>1. CASE Goes("asleep", 0) /\ wake' = elapsed + Interval
    BY <1>0, <1>4, <2>1, GoesStep DEF PollAnswered
  <2>2. CASE target = "done" /\ Goes("fetch", Urls) /\ UNCHANGED wake
    BY <1>0, <1>4, <2>2, GoesStep DEF PollAnswered
  <2>3. CASE target = "failed" /\ Ends("failed", "target_error")
    BY <1>0, <1>4, <2>3, EndsStep DEF PollAnswered, Ends
  <2> QED BY <1>4, <2>1, <2>2, <2>3 DEF PollAnswered
<1>5. CASE PollSleeps
  BY <1>0, <1>5, GoesStep DEF PollSleeps
<1>6. CASE ResultFetched
  <2>0. step = "fetch" /\ target = "done" /\ UNCHANGED target
    BY <1>0, <1>6 DEF ResultFetched
  <2>1. CASE tries > 1 /\ Goes("fetch", tries - 1) /\ UNCHANGED wake
    BY <1>0, <2>0, <2>1, GoesStep
  <2>2. CASE Ends("succeeded", "none")
    BY <1>0, <2>0, <2>2, EndsStep
  <2> QED BY <1>6, <2>1, <2>2 DEF ResultFetched
<1> QED BY <1>1, <1>2, <1>3, <1>4, <1>5, <1>6

\* asyncio.wait_for may cancel the adapter wherever it is.
LEMMA WorkerGivesUpStep == CallInv /\ WorkerGivesUp => CallInv'
  BY EndsStep DEF WorkerGivesUp, GaveUp, CallInv, TargetCallTypeOK, StepKnowsTarget

-----------------------------------------------------------------------------
\* Every step of adapter, target, worker and clock keeps the invariant.
THEOREM CallInvNext == CallInv /\ [TargetCallNext]_callVars => CallInv'
<1>1. ASSUME CallInv, TargetCallNext PROVE CallInv'
  BY <1>1, CallStartsStep, TargetSteps, ClockRunsStep, AnswerSteps, PollSteps, WorkerGivesUpStep
     DEF TargetCallNext, AdapterStep
<1>2. ASSUME CallInv, UNCHANGED callVars PROVE CallInv'
  BY <1>2 DEF callVars, CallInv, TargetCallTypeOK, StepKnowsTarget, SuccessIsReal, NothingLeftAtWork,
     FailureIsReal, Over, Polls
<1> QED BY <1>1, <1>2

\* A call keeps the invariant throughout.
THEOREM CallInvariant == TargetCallSpec => []CallInv
<1>1. TargetCallInit => CallInv
  BY CallInvInit
<1>2. CallInv /\ [TargetCallNext]_callVars => CallInv'
  BY CallInvNext
<1> QED BY <1>1, <1>2, PTL DEF TargetCallSpec

\* The variables keep their types: tries and times stay within their bounds.
THEOREM TargetCallTypeCorrect == TargetCallSpec => []TargetCallTypeOK
<1>1. CallInv => TargetCallTypeOK
  BY DEF CallInv
<1> QED BY <1>1, CallInvariant, PTL

\* Success is reported only of work the target finished without failing it, but
\* for the adapters that read a status only and a body that holds no verdict.
THEOREM SuccessReported == TargetCallSpec => []SuccessIsReal
<1>1. CallInv => SuccessIsReal
  BY DEF CallInv
<1> QED BY <1>1, CallInvariant, PTL

\* The target is left at work only by a call that gave it up or was answered by
\* no verdict on the work.
THEOREM TargetLeftAtWork == TargetCallSpec => []NothingLeftAtWork
<1>1. CallInv => NothingLeftAtWork
  BY DEF CallInv
<1> QED BY <1>1, CallInvariant, PTL

\* A failure is blamed on the target only if the target did not do the work and
\* will not, but for an error member that is no error.
THEOREM FailureReported == TargetCallSpec => []FailureIsReal
<1>1. CallInv => FailureIsReal
  BY DEF CallInv
<1> QED BY <1>1, CallInvariant, PTL
=============================================================================
