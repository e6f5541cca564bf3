-------------------------- MODULE OpenAIProvider ---------------------------
(***************************************************************************)
(* The OpenAI-compatible provider: a request that is tried up to           *)
(* MaxRetries times, then a stream of lines that is passed on token by     *)
(* token.  The server, the network and the client's own timeout choose     *)
(* what comes back.  Lines without content are skipped and not modelled.   *)
(***************************************************************************)
EXTENDS ProviderChannel

CONSTANT MaxRetries   \* Config.MaxRetries; NewProvider turns 0 into 3

ASSUME OpenAIProviderAssumption == MaxRetries \in Nat \ {0}

VARIABLES
    attempt,   \* the loop counter
    cause      \* ghost: what the last request or the stream ended with

openaiVars == <<channelVars, attempt, cause>>

-----------------------------------------------------------------------------
(* The errors of the HTTP client, by their cause, as phrases of their text. *)
Transport ==
    [ timeout  |-> {"timeout", "deadline exceeded"},
      refused  |-> {"connection refused"},
      nohost   |-> {"no such host"},
      reset    |-> {"connection reset"},
      eof      |-> {"eof"},
      other    |-> {},
      cancel   |-> {"context canceled"} ]

Possible == {c \in DOMAIN Transport : c = "cancel" => cancelled}
PossibleOnceAnswered == Possible \ {"refused", "nohost"}

(* The part of an HTTP error's body that could be taken for something else. *)
Bodies == {{}, {"timeout"}, {"json"}, {"context canceled"}}

IsRetryableError(text) ==
    text \cap {"timeout", "connection refused", "no such host", "temporary",
               "eof"} # {}

LastAttempt == attempt = MaxRetries - 1

-----------------------------------------------------------------------------
OpenAIInit ==
    /\ ChannelInit("request")
    /\ attempt = 0
    /\ cause = "none"

(* The endpoint is not a URL.                                               *)
BadRequest ==
    /\ ppc = "request" /\ attempt = 0
    /\ FailWith({"parse"})
    /\ cause' = "url"
    /\ UNCHANGED attempt

Answered ==
    /\ ppc = "request"
    /\ Goto("stream")
    /\ cause' = "none"
    /\ UNCHANGED attempt

RequestFails ==
    /\ ppc = "request"
    /\ \E c \in Possible :
        /\ cause' = c
        /\ IF ~IsRetryableError(Transport[c]) \/ LastAttempt
           THEN FailWith(Transport[c])
           ELSE Goto("pause")
    /\ UNCHANGED attempt

HTTPError ==
    /\ ppc = "request"
    /\ \E body \in Bodies : FailWith(body)
    /\ cause' = "http"
    /\ UNCHANGED attempt

(* 429: the body is closed.  After the last attempt the loop ends without a *)
(* word and the closed body is what will be scanned.                        *)
RateLimited ==
    /\ ppc = "request"
    /\ Goto(IF LastAttempt THEN "stale" ELSE "pause")
    /\ cause' = "rate_limit"
    /\ UNCHANGED attempt

(* Mutant: the attempts are not counted.                                    *)
Retry_Uncounted ==
    /\ ppc = "pause"
    /\ Goto("request")
    /\ UNCHANGED <<attempt, cause>>

(* The back-off and the wait before a retry: the timer ...                  *)
Retry ==
    /\ ppc = "pause"
    /\ Goto("request")
    /\ attempt' = attempt + 1
    /\ UNCHANGED cause

(* ... or the context; its error is sent without a select.                  *)
PauseCancelled ==
    /\ ppc = "pause" /\ cancelled
    /\ FailWith({"context canceled"})
    /\ cause' = "cancel"
    /\ UNCHANGED attempt

(* A closed body gives an error to the scanner, or an end if it was empty.  *)
ScanClosedBody ==
    /\ ppc = "stale"
    /\ FailWith({}) \/ Goto("finish")
    /\ UNCHANGED <<attempt, cause>>

-----------------------------------------------------------------------------
EmittedToken == sent # <<>>

ReadContent ==
    /\ ppc = "stream" /\ ~cancelled /\ Len(sent) < MaxTokens
    /\ Goto("send")
    /\ UNCHANGED <<attempt, cause>>

ReadCancelled ==
    /\ ppc = "stream" /\ cancelled
    /\ FailWith({"context canceled"})
    /\ cause' = "cancel"
    /\ UNCHANGED attempt

(* [DONE] or the end of the body, which is not looked at together with the  *)
(* context.                                                                 *)
ReadEnd ==
    /\ ppc = "stream"
    /\ Goto("finish")
    /\ cause' = "end"
    /\ UNCHANGED attempt

(* Mutant: a partial result is passed on even if there is none.             *)
ReadFails_AlwaysPartial ==
    /\ ppc = "stream"
    /\ \E c \in PossibleOnceAnswered : cause' = c
    /\ Goto("finish")
    /\ UNCHANGED attempt

(* The scanner's error: a partial result, if there is one, is passed on as  *)
(* a complete one.                                                          *)
ReadFails ==
    /\ ppc = "stream"
    /\ \E c \in PossibleOnceAnswered :
        /\ cause' = c
        /\ IF EmittedToken THEN Goto("finish") ELSE FailWith(Transport[c])
    /\ UNCHANGED attempt

-----------------------------------------------------------------------------
Request == BadRequest \/ Answered \/ RequestFails \/ HTTPError \/ RateLimited
Pause == Retry \/ PauseCancelled
Scan == ScanClosedBody \/ ReadContent \/ ReadCancelled \/ ReadEnd \/ ReadFails
Shared == SendToken \/ SendDone \/ SendFailure \/ Return

OpenAISteps ==
    \/ Request
    \/ Pause
    \/ Scan
    \/ Shared /\ UNCHANGED <<attempt, cause>>

OpenAINext ==
    \/ OpenAISteps
    \/ (Reader \/ CancelContext) /\ UNCHANGED <<attempt, cause>>

OpenAISpec == OpenAIInit /\ [][OpenAINext]_openaiVars

-----------------------------------------------------------------------------
(* The counted label tells what really ended the call: the last attempt's   *)
(* failure and not an earlier one, by the classes that                      *)
(* classifyProviderError documents.  (An HTTP error is classified by its    *)
(* body; a 429 is not counted as one, see RateLimitReported.)               *)
LabelTellsCause ==
    LET Counted(causes, l) == cause \in causes => label \in {"none", l} IN
    /\ Counted({"timeout"}, "timeout")
    /\ Counted({"refused", "nohost", "reset"}, "connection_refused")
    /\ Counted({"url"}, "parse_error")
    /\ Counted({"eof", "other", "rate_limit"}, "stream_error")

(* A call that a cancel has ended is not charged to the provider: it counts *)
(* under none of the labels of failures, whichever of the two notices the   *)
(* cancel first.  turn_runtime.go:245 and metrics.go:55 document a label    *)
(* `cancelled` for it, which the property allows; the code counts such a    *)
(* call under no label at all (theorem CancelNotCounted).                   *)
CancelIsNoFailure == cause = "cancel" => label \in {"none", "cancelled"}

(* A broken answer is passed on as a complete one only if the reader has    *)
(* got some of it.                                                          *)
PartialHasTokens ==
    sent = <<"done">> => cause \notin DOMAIN Transport

(* turn_runtime.go:245 lists 429 among the labels of failed calls: a call   *)
(* that ends rate limited and is not cancelled is counted as such.          *)
RateLimitReported ==
    cause = "rate_limit" /\ reader = "returned" /\ ~cancelled
        => label = "429"
=============================================================================
