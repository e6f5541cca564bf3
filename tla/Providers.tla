----------------------------- MODULE Providers -----------------------------
(***************************************************************************)
(* The three implementations of port.LLMProvider, one of which serves a    *)
(* turn, beside the one reader they all have to suit.                      *)
(***************************************************************************)
EXTENDS PacedProvider, OpenAIProvider

vars == <<channelVars, answerVars, attempt, cause>>

Init ==
    \/ PacedInit /\ attempt = 0 /\ cause = "none"
    \/ /\ OpenAIInit
       /\ provider = "openai" /\ words = 0 /\ target = 0 /\ answer = <<>>

Provider ==
    \/ provider # "openai" /\ PacedSteps /\ UNCHANGED <<attempt, cause>>
    \/ provider = "openai" /\ OpenAISteps /\ UNCHANGED answerVars

StreamReader == Reader /\ UNCHANGED <<answerVars, attempt, cause>>

Canceller == CancelContext /\ UNCHANGED <<answerVars, attempt, cause>>

Next == Provider \/ StreamReader \/ Canceller

Spec == Init /\ [][Next]_vars

(* Timers fire, runnable goroutines run, and http.Client.Timeout ends a     *)
(* request and the reading of its body even if the server hangs.  No        *)
(* fairness makes anyone cancel, and a blocked send is not enabled.         *)
FairSpec == Spec /\ WF_vars(Provider) /\ WF_vars(StreamReader)
=============================================================================
