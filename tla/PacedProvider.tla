--------------------------- MODULE PacedProvider ---------------------------
(***************************************************************************)
(* The mock and the fake provider: a goroutine that waits, sends a token,  *)
(* waits, ... and looks at the context while it waits, but not while it    *)
(* sends a token.  The mock one has a canned answer; the fake one may send *)
(* an error instead, waits for the time to the first token, and then cuts  *)
(* or repeats a template to the number of tokens it has drawn.  Words are  *)
(* their places in the template.  How long the waits are is in FakeDelays. *)
(***************************************************************************)
EXTENDS ProviderChannel

VARIABLES
    provider,  \* "mock" or "fake"
    words,     \* the words of the canned answer or of the template
    target,    \* targetTokens, once the fake provider has drawn it
    answer     \* the words to send

answerVars == <<provider, words, target, answer>>
pacedVars == <<channelVars, answerVars>>

Template(n) == [i \in 1..n |-> i]

(* The loop that appends the template, whole or cut, n words in all.        *)
Repeat(w) ==
    LET r[n \in 0..MaxTokens] ==
            IF n = 0 THEN <<>>
            ELSE LET toAdd == IF n > w THEN w ELSE n
                 IN  Template(toAdd) \o r[n - toAdd]
    IN  r

(* Mutant: the last repetition is not cut.                                  *)
GenerateResponse_WholeTemplates(w, t) ==
    IF w >= t THEN Template(t)
    ELSE Template(w) \o Repeat(w)[((t - w) \div w) * w]

GenerateResponse(w, t) ==
    IF w >= t THEN Template(t) ELSE Template(w) \o Repeat(w)[t - w]

-----------------------------------------------------------------------------
(* The fake provider falls back to a template of its own when the one it is *)
(* given is empty, so its template has a word.  (One of blanks only would   *)
(* have none; no caller sets such a template.)                              *)
PacedInit ==
    /\ ChannelInit("start")
    /\ \/ /\ provider = "mock"
          /\ words \in 0..MaxTokens
          /\ target = words
          /\ answer = Template(words)
       \/ /\ provider = "fake"
          /\ words \in 1..MaxTokens
          /\ target = 0
          /\ answer = <<>>

(* The mock provider begins at once.                                        *)
StartCanned ==
    /\ ppc = "start" /\ provider = "mock"
    /\ Goto("stream")
    /\ UNCHANGED answerVars

(* The fake one may have drawn an error (ErrorRate > 0).                    *)
StartSimulated ==
    /\ ppc = "start" /\ provider = "fake"
    /\ FailWith({}) \/ Goto("ttft")
    /\ UNCHANGED answerVars

(* The time to the first token is over.                                     *)
Generate ==
    /\ ppc = "ttft"
    /\ target' \in 0..MaxTokens
    /\ answer' = GenerateResponse(words, target')
    /\ Goto("stream")
    /\ UNCHANGED <<provider, words>>

Cancellable == {"ttft", "stream", "finish", "fail"}

(* The ctx.Done() case of each select.                                      *)
Abandon ==
    /\ ppc \in Cancellable
    /\ cancelled
    /\ EndOpen
    /\ UNCHANGED answerVars

(* The timer fires; it may win against a context that is done.              *)
Tick ==
    /\ ppc = "stream" /\ Len(sent) < Len(answer)
    /\ Goto("send")
    /\ UNCHANGED answerVars

(* Mutant: the done signal does not wait for the last token.                *)
AllSent_Early ==
    /\ ppc = "stream" /\ Len(answer) <= Len(sent) + 1
    /\ Goto("finish")
    /\ UNCHANGED answerVars

(* Mutant: the channel is closed without a done signal.                     *)
AllSent_NoDone ==
    /\ ppc = "stream" /\ Len(sent) = Len(answer)
    /\ Goto("close")
    /\ UNCHANGED answerVars

AllSent ==
    /\ ppc = "stream" /\ Len(sent) = Len(answer)
    /\ Goto("finish")
    /\ UNCHANGED answerVars

PacedSteps ==
    \/ StartCanned
    \/ StartSimulated
    \/ Generate
    \/ Abandon
    \/ Tick
    \/ AllSent
    \/ (SendToken \/ SendDone \/ SendFailure \/ Return) /\ UNCHANGED answerVars

PacedNext ==
    \/ PacedSteps
    \/ (Reader \/ CancelContext) /\ UNCHANGED answerVars

PacedSpec == PacedInit /\ [][PacedNext]_pacedVars

(* Timers fire and runnable goroutines run.  No fairness makes anyone       *)
(* cancel, and a blocked send is not enabled.                               *)
PacedFairSpec == PacedSpec /\ WF_pacedVars(PacedSteps)
                           /\ WF_pacedVars(Reader /\ UNCHANGED answerVars)

-----------------------------------------------------------------------------
(* A Done tells the reader that it has the whole answer.                    *)
DoneMeansWhole ==
    provider \in {"mock", "fake"} =>
        \A i \in DOMAIN sent : sent[i] = "done" => i = Len(answer) + 1

(* The fake provider's answer has exactly the number of tokens it has drawn *)
(* and goes through its template over and over, whichever is longer.        *)
AnswerHasTarget ==
    provider = "fake" =>
        /\ Len(answer) = target
        /\ \A i \in DOMAIN answer : answer[i] = ((i - 1) % words) + 1

(* port/llm_provider.go:15: the channel closes when streaming is complete   *)
(* or the context is cancelled.                                             *)
ChannelCloses == <>(~open)
=============================================================================
