------------------------------ MODULE TargetCall ------------------------------
(***************************************************************************)
(* One call of a target adapter, from the worker's execute to the outcome  *)
(* it records (RunLifecycle's Finish).  The registered_tool adapter may be *)
(* answered with a job handle and then polls the sibling's job; the others *)
(* make one HTTP request or run one process.  The target works on by       *)
(* itself: it does not learn that a call was given up.                     *)
(*                                                                         *)
(* Abstracted: request bodies and headers; which of the job's URLs is      *)
(* tried, as only how many are left matters; bodies, of which only what    *)
(* the adapter reads in them is kept.  The first answer may come from      *)
(* anywhere on the way, at any point of the work; a polled document whose  *)
(* status is one of the words for an end is the job's own.                 *)
(***************************************************************************)
EXTENDS Naturals

CONSTANTS
    Adapter,   \* the adapters called, by target_type
    Urls,      \* candidates for a job's poll and result URL
    Timeout,   \* target_spec.timeout_seconds, or the client's default
    Interval,  \* target_spec.job_poll_interval_seconds
    MaxElapsed \* bound on the time a call takes

ASSUME TargetCallConstantsOK ==
    /\ Adapter \subseteq {"registered_tool", "external_mcp", "external_http", "code_runner",
                          "sandbox_command"}
    /\ Urls \in Nat \ {0}
    /\ Timeout \in Nat \ {0}
    /\ Interval \in Nat \ {0}
    /\ MaxElapsed \in Nat
    /\ Timeout < MaxElapsed

VARIABLES
    adapter,  \* the run's target_type
    awaits,   \* target_spec.await_job
    guarded,  \* does the worker bound the call (target_spec.timeout_seconds given)?
    step,     \* where the adapter is
    elapsed,
    wake,     \* when the poll's sleep ends
    tries,    \* candidates not tried yet in this round
    target,   \* what the target is doing for this call
    answer,   \* what the first answer was judged by
    outcome,  \* the AdapterResult's outcome and error code
    reason    \* a poll given up is told from a failed job, which error_code is not

callVars == <<adapter, awaits, guarded, step, elapsed, wake, tries, target, answer, outcome, reason>>

-----------------------------------------------------------------------------
Polls == adapter = "registered_tool"
Over  == step = "over"
\* They read an answer's HTTP status only: external_http takes any below 400 for
\* success, the other two 200, whatever the body says.
StatusOnly == {"external_mcp", "external_http", "code_runner"}
\* Errors after which the target may still be at work.
GaveUp == {"timeout", "target_unreachable", "poll_bad_payload", "adapter_error"}

TargetCallTypeOK ==
    /\ adapter \in Adapter \cup {"none"}
    /\ awaits \in BOOLEAN
    /\ guarded \in BOOLEAN
    /\ step \in {"idle", "sent", "head", "poll", "asleep", "fetch", "over"}
    /\ elapsed \in 0..MaxElapsed
    /\ wake \in 0..(MaxElapsed + Interval)
    /\ tries \in 0..Urls
    /\ target \in {"idle", "working", "done", "failed"}
    /\ answer \in {"none", "result", "handle", "status", "opaque", "marked"}
    /\ outcome \in {"none", "succeeded", "failed"}
    /\ reason \in {"none", "unsent", "http_status", "target_error"} \cup GaveUp

TargetCallInit ==
    /\ adapter = "none"
    /\ awaits = TRUE
    /\ guarded = FALSE
    /\ step = "idle"
    /\ elapsed = 0
    /\ wake = 0
    /\ tries = 0
    /\ target = "idle"
    /\ answer = "none"
    /\ outcome = "none"
    /\ reason = "none"

Ends(result, why) ==
    /\ step' = "over"
    /\ outcome' = result
    /\ reason' = why
    /\ tries' = 0
    /\ UNCHANGED <<adapter, awaits, guarded, elapsed, wake>>

Goes(to, left) ==
    /\ step' = to
    /\ tries' = left
    /\ UNCHANGED <<adapter, awaits, guarded, elapsed, outcome, reason>>

\* The worker calls execute with what the schedule's target_spec says.
CallStarts ==
    /\ step = "idle"
    /\ step' = "sent"
    /\ adapter' \in Adapter
    /\ awaits' \in BOOLEAN
    /\ guarded' \in BOOLEAN
    /\ UNCHANGED <<elapsed, wake, tries, target, answer, outcome, reason>>

-----------------------------------------------------------------------------
(* The target, on its own.                                                 *)

\* The request reaches it, if need be after the adapter has given the call up
\* or been answered by someone on the way.
TargetStarts ==
    /\ target = "idle"
    /\ \/ step = "sent"
       \/ Over /\ reason \in {"timeout", "target_unreachable"}
       \/ Over /\ answer \in {"status", "opaque"}
    /\ target' = "working"
    /\ UNCHANGED <<adapter, awaits, guarded, step, elapsed, wake, tries, answer, outcome, reason>>

TargetEnds ==
    /\ target = "working"
    /\ target' \in {"done", "failed"}
    /\ UNCHANGED <<adapter, awaits, guarded, step, elapsed, wake, tries, answer, outcome, reason>>

ClockRuns ==
    /\ step \notin {"idle", "over"}
    /\ elapsed < MaxElapsed
    /\ elapsed' = elapsed + 1
    /\ UNCHANGED <<adapter, awaits, guarded, step, wake, tries, target, answer, outcome, reason>>

-----------------------------------------------------------------------------
(* The first answer.                                                       *)

\* The target's verdict on finished work, in a form the adapter reads: error,
\* isError or ok of a body to registered_tool, a process's exit code.
AnsweredResult ==
    /\ step = "sent"
    /\ adapter \notin StatusOnly
    /\ \/ target = "done" /\ Ends("succeeded", "none")
       \/ target = "failed" /\ Ends("failed", "target_error")
    /\ answer' = "result"
    /\ UNCHANGED target

\* A status decides, wherever it comes from and whatever the target does: any
\* but 200 (201, 202, a gateway's) is a failure, the right one a success of the
\* adapters that look no further.
AnsweredStatus ==
    /\ step = "sent"
    /\ adapter # "sandbox_command"
    /\ Ends("failed", "http_status") \/ (adapter \in StatusOnly /\ Ends("succeeded", "none"))
    /\ answer' = "status"
    /\ UNCHANGED target

\* A 200 in which registered_tool finds no error is a success: a page that is no
\* JSON, a handle that is not to be awaited or whose status is no known word, an
\* error told in another way.
AnsweredOpaque ==
    /\ step = "sent"
    /\ Polls
    /\ Ends("succeeded", "none")
    /\ answer' = "opaque"
    /\ UNCHANGED target

\* An error member is an error even if it is null, and in a handle that is not
\* awaited or not known for one.
AnsweredMarked ==
    /\ step = "sent"
    /\ Polls
    /\ target \in {"working", "done"}
    /\ Ends("failed", "target_error")
    /\ answer' = "marked"
    /\ UNCHANGED target

\* Nothing was done: an error says so, or the target_spec cannot be sent at all.
AnsweredRefusal ==
    /\ step = "sent"
    /\ target = "idle"
    /\ Ends("failed", "unsent") \/ (Polls /\ Ends("failed", "target_error"))
    /\ UNCHANGED <<target, answer>>

\* Unreachable, or no answer within the client's timeout, whatever the target
\* made of the request; a process exceeds its own timeout and is left running.
AnswerLost ==
    /\ step = "sent"
    /\ adapter = "sandbox_command" => elapsed >= Timeout
    /\ Ends("failed", IF adapter = "sandbox_command" THEN "timeout" ELSE "target_unreachable")
    /\ UNCHANGED <<target, answer>>

\* Mutant of AnsweredHandle: the handle of a running job is taken for a result.
HandleIsResult ==
    /\ step = "sent"
    /\ Polls
    /\ awaits
    /\ target # "idle"
    /\ Ends("succeeded", "none")
    /\ answer' = "handle"
    /\ UNCHANGED target

\* The handle of a job to be awaited, with one of the four words for a job that
\* is not over, which it may be by now.  A poll interval that is no number raises.
AnsweredHandle ==
    /\ step = "sent"
    /\ Polls
    /\ awaits
    /\ target # "idle"
    /\ \/ Goes("head", 0) /\ UNCHANGED wake
       \/ Ends("failed", "adapter_error")
    /\ answer' = "handle"
    /\ UNCHANGED target

-----------------------------------------------------------------------------
(* _await_sibling_job.                                                     *)

\* The head of the loop: another round, or the deadline.
PollRound ==
    /\ step = "head"
    /\ IF elapsed < Timeout
       THEN Goes("poll", Urls) /\ UNCHANGED wake
       ELSE Ends("failed", "timeout")
    /\ UNCHANGED <<target, answer>>

\* No JSON with status 200 from this URL: the next one; after the last, the poll
\* is given up at once.
PollMisses ==
    /\ step = "poll"
    /\ IF tries > 1
       THEN Goes("poll", tries - 1) /\ UNCHANGED wake
       ELSE Ends("failed", "poll_bad_payload")
    /\ UNCHANGED <<target, answer>>

\* JSON of another shape than an object raises, and so does a URL that is none.
PollRaises ==
    /\ step \in {"poll", "fetch"}
    /\ Ends("failed", "adapter_error")
    /\ UNCHANGED <<target, answer>>

\* Mutant of PollAnswered: a job that is over in any way has succeeded.
PollTakesAnyEnd ==
    /\ step = "poll"
    /\ \/ Goes("asleep", 0) /\ wake' = elapsed + Interval
       \/ target # "working" /\ Goes("fetch", Urls) /\ UNCHANGED wake
    /\ UNCHANGED <<target, answer>>

\* Mutant of PollAnswered: a status that is no known word is a failure.
PollFailsUnknown ==
    /\ step = "poll"
    /\ IF target = "working"
       THEN Goes("asleep", 0) /\ wake' = elapsed + Interval
       ELSE Ends("failed", "target_error")
    /\ UNCHANGED <<target, answer>>

\* A status that is none of the words the poll knows for an end is no end.
PollAnswered ==
    /\ step = "poll"
    /\ \/ Goes("asleep", 0) /\ wake' = elapsed + Interval
       \/ target = "done" /\ Goes("fetch", Urls) /\ UNCHANGED wake
       \/ target = "failed" /\ Ends("failed", "target_error")
    /\ UNCHANGED <<target, answer>>

\* Mutant of PollSleeps: the poll sleeps while the job is at work.
PollSleepsOn ==
    /\ step = "asleep"
    /\ target # "working"
    /\ Goes("head", 0)
    /\ UNCHANGED <<target, answer, wake>>

PollSleeps ==
    /\ step = "asleep"
    /\ elapsed >= wake \/ elapsed = MaxElapsed
    /\ Goes("head", 0)
    /\ UNCHANGED <<target, answer, wake>>

\* The job's result, or after the last URL the document that was polled.
ResultFetched ==
    /\ step = "fetch"
    /\ \/ tries > 1 /\ Goes("fetch", tries - 1) /\ UNCHANGED wake
       \/ Ends("succeeded", "none")
    /\ UNCHANGED <<target, answer>>

-----------------------------------------------------------------------------
\* asyncio.wait_for around execute cancels whatever the adapter is doing.
WorkerGivesUp ==
    /\ step \notin {"idle", "over"}
    /\ guarded
    /\ elapsed >= Timeout
    /\ Ends("failed", "timeout")
    /\ UNCHANGED <<target, answer>>

AdapterStep ==
    \/ AnsweredResult
    \/ AnsweredStatus
    \/ AnsweredOpaque
    \/ AnsweredMarked
    \/ AnsweredRefusal
    \/ AnswerLost
    \/ AnsweredHandle
    \/ PollRound
    \/ PollMisses
    \/ PollRaises
    \/ PollAnswered
    \/ PollSleeps
    \/ ResultFetched

TargetCallNext ==
    \/ CallStarts
    \/ TargetStarts
    \/ TargetEnds
    \/ ClockRuns
    \/ AdapterStep
    \/ WorkerGivesUp

TargetCallSpec == TargetCallInit /\ [][TargetCallNext]_callVars

\* Time passes, and every request, sleep and cancellation of the adapter ends.
\* Nothing is assumed of the target.
TargetCallFairness ==
    /\ WF_callVars(ClockRuns)
    /\ WF_callVars(AdapterStep)
    /\ WF_callVars(WorkerGivesUp)

-----------------------------------------------------------------------------
\* Success is reported of work the target finished and did not fail, above all of
\* every job that was awaited; but by the adapters that read a status only, and of
\* a 200 in which registered_tool read no verdict, it says nothing of the work
\* (registered_tool.execute).
SuccessIsReal ==
    outcome = "succeeded" => target = "done" \/ adapter \in StatusOnly \/ answer = "opaque"

\* A call that is over leaves the target at work only if it gave up on it, or was
\* answered by no verdict on the work; so a job that is awaited is left at work by
\* a timeout or a failed poll alone (_await_sibling_job, sandbox_command.execute).
NothingLeftAtWork ==
    Over /\ target = "working" => reason \in GaveUp \/ answer \in {"status", "opaque", "marked"}

\* A failure blamed on the target is one: the work was not begun or has failed, and
\* will not end well later, unless an error member was read that was no error
\* (_mcp_failure, _await_sibling_job).
FailureIsReal ==
    reason = "target_error" => target \in {"idle", "failed"} \/ answer = "marked"

\* Every call ends, whether the sibling's job does or not: "Bounded polling only
\* -- never an unbounded wait" (_await_sibling_job).
CallEnds == step = "sent" ~> Over
=============================================================================
