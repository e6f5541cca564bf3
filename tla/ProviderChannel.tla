-------------------------- MODULE ProviderChannel --------------------------
(***************************************************************************)
(* What all providers share: the unbuffered channel between the goroutine  *)
(* of StreamCompletion and the range loop of TurnRuntime.streamAgent, and  *)
(* the context, which may be cancelled at any time.  A send is a           *)
(* rendezvous: it happens only while the reader waits at the channel.      *)
(***************************************************************************)
EXTENDS Integers, Sequences

CONSTANT MaxTokens    \* bound on the tokens of an answer

ASSUME ProviderChannelAssumption == MaxTokens \in Nat

VARIABLES
    ppc,        \* where the provider's goroutine stands
    err,        \* the error it is about to send or has sent: the telling
                \* phrases of its text
    sent,       \* the kinds of the values sent: "token", "done", "error"
    open,       \* the channel has not been closed
    cancelled,  \* the context is done
    reader,     \* streamAgent: "waiting", "holding" a value, or "returned"
    label       \* the ProviderErrors label it counted, or "none"

channelVars == <<ppc, err, sent, open, cancelled, reader, label>>

(* The places that all providers have; each adds its own.                   *)
Sending == {"send", "finish", "fail"}    \* at a send of a token, Done, error
Places == Sending \cup {"stream", "close", "end"}

ChannelInit(place) ==
    /\ ppc = place
    /\ err = {}
    /\ sent = <<>>
    /\ open = TRUE
    /\ cancelled = FALSE
    /\ reader = "waiting"
    /\ label = "none"

-----------------------------------------------------------------------------
(* The provider's side.                                                     *)
Deliver(kind, next) ==
    /\ reader = "waiting"
    /\ sent' = Append(sent, kind)
    /\ reader' = "holding"
    /\ ppc' = next
    /\ UNCHANGED <<err, open, cancelled, label>>

(* The only send without a way out in all providers.                        *)
SendToken == ppc = "send" /\ Deliver("token", "stream")

SendDone == ppc = "finish" /\ Deliver("done", "close")

(* Mutant: no return after the error.                                       *)
SendFailure_GoesOn == ppc = "fail" /\ Deliver("error", "stream")

SendFailure == ppc = "fail" /\ Deliver("error", "close")

(* The deferred close.                                                      *)
EndOpen == ppc' = "end" /\ open' = FALSE
           /\ UNCHANGED <<err, sent, cancelled, reader, label>>

(* Mutant: the channel is not closed on this path.                          *)
Return_LeavesOpen ==
    /\ ppc = "close"
    /\ ppc' = "end"
    /\ UNCHANGED <<err, sent, open, cancelled, reader, label>>

Return == ppc = "close" /\ EndOpen

Goto(place) ==
    /\ ppc' = place
    /\ UNCHANGED <<err, sent, open, cancelled, reader, label>>

FailWith(phrases) ==
    /\ ppc' = "fail"
    /\ err' = phrases
    /\ UNCHANGED <<sent, open, cancelled, reader, label>>

-----------------------------------------------------------------------------
(* The reader's side.                                                       *)

Timeouts == {"timeout", "deadline exceeded"}
Refusals == {"connection refused", "no such host", "connection reset"}
RateLimits == {"429", "too many requests"}
Malformed == {"parse", "unmarshal", "json"}

(* Mutant: a cancelled context is looked for before a deadline, and both    *)
(* are taken for a cancel.                                                  *)
Classify_ContextFirst(text) ==
    CASE text \cap {"deadline exceeded", "context canceled"} # {} -> "cancelled"
      [] text \cap {"timeout"} # {} -> "timeout"
      [] OTHER -> "stream_error"

(* classifyProviderError: the first of these groups that the text contains. *)
(* (The test for the bare errors of package context that comes before them  *)
(* makes no difference: a bare context.Canceled has the text of the last    *)
(* group and of no other, and no context of a turn has a deadline.)         *)
Classify(text) ==
    IF text \cap Timeouts # {} THEN "timeout"
    ELSE IF text \cap Refusals # {} THEN "connection_refused"
    ELSE IF text \cap RateLimits # {} THEN "429"
    ELSE IF text \cap Malformed # {} THEN "parse_error"
    ELSE IF "context canceled" \in text THEN "cancelled"
    ELSE "stream_error"

(* Mutant: an error is counted before the context is looked at, under the   *)
(* code of the event it is announced with.                                  *)
Handle_CountsAllErrors ==
    /\ reader = "holding"
    /\ LET kind == sent[Len(sent)] IN
       /\ label' = IF kind = "error" THEN "stream_error" ELSE label
       /\ reader' = IF cancelled \/ kind # "token" THEN "returned"
                                                   ELSE "waiting"
    /\ UNCHANGED <<ppc, err, sent, open, cancelled>>

(* The body of the range loop: return on a cancelled context, on an error,  *)
(* which is counted, or on Done; go back to the channel after a token.      *)
Handle ==
    /\ reader = "holding"
    /\ LET kind == sent[Len(sent)] IN
       /\ label' = IF ~cancelled /\ kind = "error" THEN Classify(err)
                                                   ELSE label
       /\ reader' = IF cancelled \/ kind # "token" THEN "returned"
                                                   ELSE "waiting"
    /\ UNCHANGED <<ppc, err, sent, open, cancelled>>

(* The range ends when the channel is closed.                               *)
SeeClosed ==
    /\ reader = "waiting" /\ ~open
    /\ reader' = "returned"
    /\ UNCHANGED <<ppc, err, sent, open, cancelled, label>>

Reader == Handle \/ SeeClosed

(* A cancel request, or the clean-up of the turn.                           *)
CancelContext ==
    /\ ~cancelled
    /\ cancelled' = TRUE
    /\ UNCHANGED <<ppc, err, sent, open, reader, label>>

-----------------------------------------------------------------------------
(* The provider keeps the contract of port.LLMProvider: tokens, then at     *)
(* most one Done or error, then one close; no close in between unless the   *)
(* context is cancelled.                                                    *)
Contract == INSTANCE LLMProvider
KeepsContract == Contract!Spec

(* A provider is left alone at a send, where it would block for ever, only  *)
(* by a cancel: never because it sends what the reader does not expect.     *)
LeftBehindOnlyByCancel ==
    reader = "returned" /\ ppc \in Sending => cancelled

(* streamAgent always gets away from its range loop: with Done, an error,   *)
(* a cancel or a closed channel; the turn cannot hang in it.                *)
ReaderReturns == <>(reader = "returned")

(* Without a cancel the goroutine ends and the channel is closed.           *)
ClosedUnlessCancelled == <>(~open \/ cancelled)
=============================================================================
