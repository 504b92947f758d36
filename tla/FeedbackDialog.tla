--------------------------- MODULE FeedbackDialog ---------------------------
(***************************************************************************)
(* The dialog that sends the opinion of a user by mail (feedback.js).  The *)
(* send button validates the two inputs and leaves it to a timer to look   *)
(* for errors and send what the inputs hold then; hiding the dialog, which *)
(* the answer does too, resets the form once the dialog has faded out.     *)
(***************************************************************************)
EXTENDS WebPage

CONSTANT MaxSends    \* bound on the clicks on the send button

ASSUME FeedbackAssumption == MaxSends \in Nat

VARIABLES
    feedback,       \* "shown", "fading" or "hidden"
    inputs,         \* inputs[f]: something is typed in it
    invalid,        \* the inputs that are marked as invalid
    sendTimers,     \* timers to come: whether each is to validate first
    feedbackPosts,  \* what is on its way to the server
    mailed,         \* what the server has mailed
    sends           \* clicks counted against MaxSends

feedbackVars == <<feedback, inputs, invalid, sendTimers, feedbackPosts, mailed,
                  sends>>

FeedbackInputs == {"subject", "message"}
NothingTyped == [f \in FeedbackInputs |-> FALSE]

\* The button of the page.
FeedbackClick ==
    /\ feedback = "hidden"
    /\ feedback' = "shown"
    /\ UNCHANGED <<inputs, invalid, sendTimers, feedbackPosts, mailed, sends>>

TypeFeedback(f) ==
    /\ feedback = "shown" /\ ~inputs[f]
    /\ inputs' = [inputs EXCEPT ![f] = TRUE]
    /\ invalid' = invalid \ {f}
    /\ UNCHANGED <<feedback, sendTimers, feedbackPosts, mailed, sends>>

HideFeedback == IF feedback = "shown" THEN "fading" ELSE feedback

CancelFeedback ==
    /\ feedback = "shown"
    /\ feedback' = HideFeedback
    /\ UNCHANGED <<inputs, invalid, sendTimers, feedbackPosts, mailed, sends>>

\* A form that is reset no longer waits to be validated.
HiddenFeedback ==
    /\ feedback = "fading"
    /\ feedback' = "hidden"
    /\ inputs' = NothingTyped
    /\ invalid' = {}
    /\ sendTimers' = [i \in DOMAIN sendTimers |-> FALSE]
    /\ UNCHANGED <<feedbackPosts, mailed, sends>>

\* The buttons hear clicks until the dialog has faded out.
SendClick ==
    /\ feedback # "hidden" /\ sends < MaxSends
    /\ sends' = sends + 1
    /\ sendTimers' = Append(sendTimers, TRUE)
    /\ UNCHANGED <<feedback, inputs, invalid, feedbackPosts, mailed>>

\* sendFeedback, after 200 ms.
SendFeedback ==
    /\ sendTimers # <<>>
    /\ sendTimers' = Tail(sendTimers)
    /\ invalid' = IF Head(sendTimers) THEN {f \in FeedbackInputs : ~inputs[f]}
                  ELSE invalid
    /\ feedbackPosts' = IF invalid' = {} THEN Append(feedbackPosts, inputs)
                        ELSE feedbackPosts
    /\ UNCHANGED <<feedback, inputs, mailed, sends>>

\* The server does not look at what it mails.  Its answer, or an error, hides the
\* dialog, whatever it has been opened for since.
FeedbackAnswered ==
    /\ feedbackPosts # <<>>
    /\ feedbackPosts' = Tail(feedbackPosts)
    /\ mailed' \in {mailed, mailed \union {Head(feedbackPosts)}}
    /\ feedback' = HideFeedback
    /\ UNCHANGED <<inputs, invalid, sendTimers, sends>>

-----------------------------------------------------------------------------
FeedbackInit ==
    /\ feedback = "hidden" /\ inputs = NothingTyped /\ invalid = {}
    /\ sendTimers = <<>> /\ feedbackPosts = <<>> /\ mailed = {} /\ sends = 0

FeedbackNext ==
    \/ FeedbackClick \/ CancelFeedback \/ HiddenFeedback
    \/ \E f \in FeedbackInputs : TypeFeedback(f)
    \/ SendClick \/ SendFeedback \/ FeedbackAnswered

FeedbackSpec == FeedbackInit /\ [][FeedbackNext]_feedbackVars
=============================================================================
