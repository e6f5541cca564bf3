-------------------------- MODULE ProvidersProofs --------------------------
(***************************************************************************)
(* What holds of all three providers for answers of any length and any     *)
(* number of retries: the contract of port.LLMProvider, nobody left at a   *)
(* send without a cancel, Done only after the whole answer, the fake       *)
(* answer's length, and what the reader counts as a failure.               *)
(***************************************************************************)
EXTENDS Providers, SequenceTheorems, WellFoundedInduction, TLAPS

-----------------------------------------------------------------------------
(* The channel that all providers share: its invariant, which every shared  *)
(* step keeps, and that every shared step is a step of the contract or      *)
(* changes nothing that the contract sees.                                  *)
Kinds == {"token", "done", "error"}
Over == {"close", "end"}

SentOK == sent \in Seq(Kinds)

(* Nothing final has been sent while the provider may still send.           *)
OnlyTokensBefore == ppc \notin Over => \A i \in DOMAIN sent : sent[i] = "token"

(* The normal way to the close is past a final value.                       *)
FinalBeforeClose == ppc = "close" => \E i \in DOMAIN sent : sent[i] # "token"

OpenUntilEnd == open <=> ppc # "end"

HoldsLast == reader = "holding" => sent # <<>>

ReturnedWithReason == reader = "returned" => cancelled \/ ppc \in Over

ChannelInv ==
    /\ SentOK
    /\ open \in BOOLEAN /\ cancelled \in BOOLEAN
    /\ OnlyTokensBefore
    /\ FinalBeforeClose
    /\ OpenUntilEnd
    /\ HoldsLast
    /\ ReturnedWithReason

(* The invariant holds at first, wherever the provider begins.              *)
LEMMA ChannelStarts ==
    ASSUME NEW place, place \notin Over, ChannelInit(place)
    PROVE  ChannelInv /\ Contract!Init
  <1>1. /\ ppc \notin Over /\ sent = <<>> /\ open = TRUE /\ cancelled = FALSE
        /\ reader = "waiting"
    BY DEF ChannelInit
  <1>2. sent \in Seq(Kinds) /\ \A i \in DOMAIN sent : sent[i] = "token"
    BY <1>1
  <1> QED
    BY <1>1, <1>2 DEF ChannelInv, SentOK, OnlyTokensBefore, FinalBeforeClose,
       OpenUntilEnd, HoldsLast, ReturnedWithReason, Over, Contract!Init

(* What one more value does to the values sent.                             *)
LEMMA SentGrows ==
    ASSUME SentOK, NEW kind \in Kinds, sent' = Append(sent, kind)
    PROVE  /\ SentOK'
           /\ sent' # <<>>
           /\ (\A i \in DOMAIN sent : sent[i] = "token") /\ kind = "token"
                => \A i \in DOMAIN sent' : sent'[i] = "token"
           /\ kind # "token" => \E i \in DOMAIN sent' : sent'[i] # "token"
  <1>1. /\ sent \in Seq(Kinds)
        /\ Len(sent') = Len(sent) + 1 /\ DOMAIN sent' = 1..(Len(sent) + 1)
        /\ \A i \in 1..Len(sent) : sent'[i] = sent[i]
        /\ sent'[Len(sent) + 1] = kind
        /\ sent' \in Seq(Kinds)
        /\ DOMAIN sent = 1..Len(sent) /\ Len(sent) \in Nat
    BY DEF SentOK
  <1> QED
    BY <1>1 DEF SentOK

(* Every send keeps the invariant and is a Send of the contract.            *)
LEMMA SendStep ==
    ASSUME ChannelInv, SendToken \/ SendDone \/ SendFailure
    PROVE  ChannelInv' /\ Contract!Send
  <1> DEFINE After(kind) == IF kind = "token" THEN "stream" ELSE "close"
  <1>1. PICK kind \in Kinds : Deliver(kind, After(kind)) /\ ppc \notin Over
    BY DEF SendToken, SendDone, SendFailure, Kinds, Over
  <1>2. sent' = Append(sent, kind) /\ ppc' = After(kind) /\ reader' = "holding"
        /\ open' = open /\ cancelled' = cancelled
    BY <1>1 DEF Deliver
  <1>3. \A i \in DOMAIN sent : sent[i] = "token"
    BY <1>1 DEF ChannelInv, OnlyTokensBefore
  <1>4. /\ SentOK' /\ sent' # <<>>
        /\ kind = "token" => \A i \in DOMAIN sent' : sent'[i] = "token"
        /\ kind # "token" => \E i \in DOMAIN sent' : sent'[i] # "token"
    BY <1>2, <1>3, SentGrows DEF ChannelInv
  <1>5. ChannelInv'
    BY <1>1, <1>2, <1>4 DEF ChannelInv, OnlyTokensBefore, FinalBeforeClose,
       OpenUntilEnd, HoldsLast, ReturnedWithReason, Over
  <1>6. Contract!Send
    BY <1>1, <1>2, <1>3 DEF ChannelInv, OpenUntilEnd, Over, Kinds,
       Contract!Send, Contract!Complete, Contract!Finals
  <1> QED
    BY <1>5, <1>6

(* The end of the goroutine, reached past a final value or by a cancel, is  *)
(* the contract's Close.                                                    *)
LEMMA EndStep ==
    ASSUME ChannelInv, EndOpen, ppc # "end", ppc = "close" \/ cancelled
    PROVE  ChannelInv' /\ Contract!Close
  <1>1. ChannelInv'
    BY DEF ChannelInv, EndOpen, SentOK, OnlyTokensBefore, FinalBeforeClose,
       OpenUntilEnd, HoldsLast, ReturnedWithReason, Over
  <1>2. ppc = "close" => Contract!Complete
    <2>1. \A i \in DOMAIN sent : sent[i] \in Kinds
      BY DEF ChannelInv, SentOK
    <2> QED
      BY <2>1 DEF ChannelInv, FinalBeforeClose, Kinds, Contract!Complete,
         Contract!Finals
  <1>3. Contract!Close
    BY <1>2 DEF ChannelInv, EndOpen, OpenUntilEnd, Contract!Close
  <1> QED
    BY <1>1, <1>3

(* Steps of the provider between its sends.                                 *)
LEMMA InnerStep ==
    ASSUME ChannelInv, ppc \notin Over, NEW place, place \notin Over,
           NEW phrases, Goto(place) \/ FailWith(phrases)
    PROVE  ChannelInv' /\ UNCHANGED Contract!vars
  BY DEF ChannelInv, Goto, FailWith, SentOK, OnlyTokensBefore,
     FinalBeforeClose, OpenUntilEnd, HoldsLast, ReturnedWithReason, Over,
     Contract!vars

(* Steps of the reader and of whoever cancels.                              *)
LEMMA OtherStep ==
    ASSUME ChannelInv, Reader \/ CancelContext
    PROVE  ChannelInv' /\ [Contract!Next]_(Contract!vars)
  <1>1. CASE Handle
    <2>1. /\ reader = "holding" /\ UNCHANGED <<ppc, sent, open, cancelled>>
          /\ reader' \in {"waiting", "returned"}
          /\ reader' = "returned" => cancelled \/ sent[Len(sent)] # "token"
      BY <1>1 DEF Handle
    <2>2. Len(sent) \in DOMAIN sent
      BY <2>1 DEF ChannelInv, HoldsLast, SentOK
    <2>3. reader' = "returned" => cancelled \/ ppc \in Over
      BY <2>1, <2>2 DEF ChannelInv, OnlyTokensBefore
    <2> QED
      BY <2>1, <2>3 DEF ChannelInv, SentOK, OnlyTokensBefore,
         FinalBeforeClose, OpenUntilEnd, HoldsLast, ReturnedWithReason,
         Contract!vars
  <1>2. CASE SeeClosed
    BY <1>2 DEF SeeClosed, ChannelInv, SentOK, OnlyTokensBefore,
       FinalBeforeClose, OpenUntilEnd, HoldsLast, ReturnedWithReason, Over,
       Contract!vars
  <1>3. CASE CancelContext
    BY <1>3 DEF CancelContext, ChannelInv, SentOK, OnlyTokensBefore,
       FinalBeforeClose, OpenUntilEnd, HoldsLast, ReturnedWithReason,
       Contract!Next, Contract!Cancel
  <1> QED
    BY <1>1, <1>2, <1>3 DEF Reader

(* The invariant says who may be left behind.                               *)
LEMMA InvImpliesNotLeft == ChannelInv => LeftBehindOnlyByCancel
  BY DEF ChannelInv, ReturnedWithReason, LeftBehindOnlyByCancel, Sending, Over

-----------------------------------------------------------------------------
(* The three providers.                                                     *)

ghosts == <<answerVars, attempt, cause>>

(* Next, by what the steps do to the channel.                               *)
LEMMA StepCases ==
    ASSUME Next
    PROVE  \/ provider # "openai" /\ UNCHANGED <<attempt, cause>>
              /\ \/ StartCanned \/ StartSimulated \/ Generate
                 \/ Abandon \/ Tick \/ AllSent
           \/ provider = "openai" /\ UNCHANGED answerVars
              /\ (Request \/ Pause \/ Scan)
           \/ UNCHANGED ghosts
              /\ \/ SendToken \/ SendDone \/ SendFailure \/ Return
                 \/ Reader \/ CancelContext
  <1>1. CASE Provider /\ provider # "openai"
    BY <1>1 DEF Provider, PacedSteps, ghosts
  <1>2. CASE Provider /\ provider = "openai"
    BY <1>2 DEF Provider, OpenAISteps, Shared, ghosts
  <1>3. CASE StreamReader \/ Canceller
    BY <1>3 DEF StreamReader, Canceller, ghosts
  <1> QED
    BY <1>1, <1>2, <1>3 DEF Next

LEMMA ProviderStep ==
    ASSUME ChannelInv, Next
    PROVE  ChannelInv' /\ [Contract!Next]_(Contract!vars)
  <1>1. CASE StartCanned \/ StartSimulated \/ Generate \/ Tick \/ AllSent
    BY <1>1, InnerStep DEF StartCanned, StartSimulated, Generate, Tick,
       AllSent, Over
  <1>2. CASE Abandon
    BY <1>2, EndStep DEF Abandon, Cancellable, Contract!Next
  <1>3. CASE Request
    BY <1>3, InnerStep DEF Request, BadRequest, Answered, RequestFails,
       HTTPError, RateLimited, Over
  <1>4. CASE Pause
    BY <1>4, InnerStep DEF Pause, Retry, PauseCancelled, Over
  <1>5. CASE Scan
    BY <1>5, InnerStep DEF Scan, ScanClosedBody, ReadContent, ReadCancelled,
       ReadEnd, ReadFails, Over
  <1>6. CASE SendToken \/ SendDone \/ SendFailure
    BY <1>6, SendStep DEF Contract!Next
  <1>7. CASE Return
    BY <1>7, EndStep DEF Return, Contract!Next
  <1>8. CASE Reader \/ CancelContext
    BY <1>8, OtherStep
  <1> QED
    BY StepCases, <1>1, <1>2, <1>3, <1>4, <1>5, <1>6, <1>7, <1>8

LEMMA ProvidersStart == Init => ChannelInv /\ Contract!Init
  BY ChannelStarts DEF Init, PacedInit, OpenAIInit, Over

LEMMA ProvidersInvariant == Spec => []ChannelInv
  <1>1. ChannelInv /\ [Next]_vars => ChannelInv'
    <2> SUFFICES ASSUME ChannelInv, [Next]_vars PROVE ChannelInv'
      OBVIOUS
    <2>1. CASE Next
      BY <2>1, ProviderStep
    <2>2. CASE UNCHANGED vars
      BY <2>2 DEF vars, channelVars, ChannelInv, SentOK, OnlyTokensBefore,
         FinalBeforeClose, OpenUntilEnd, HoldsLast, ReturnedWithReason
    <2> QED
      BY <2>1, <2>2
  <1> QED
    BY ProvidersStart, <1>1, PTL DEF Spec

(* The providers implement LLMProvider: whatever the server answers, the    *)
(* dice say or a cancel interrupts, the reader gets tokens, then at most    *)
(* one final value, then the close.                                         *)
THEOREM ProvidersKeepContract == Spec => KeepsContract
  <1>1. ChannelInv /\ [Next]_vars => [Contract!Next]_(Contract!vars)
    <2> SUFFICES ASSUME ChannelInv, [Next]_vars
                 PROVE  [Contract!Next]_(Contract!vars)
      OBVIOUS
    <2>1. CASE Next
      BY <2>1, ProviderStep
    <2>2. CASE UNCHANGED vars
      BY <2>2 DEF vars, channelVars, Contract!vars
    <2> QED
      BY <2>1, <2>2
  <1> QED
    BY ProvidersStart, <1>1, ProvidersInvariant, PTL
       DEF Spec, KeepsContract, Contract!Spec

(* A provider's goroutine is left at a send only by a cancel.               *)
THEOREM LeftOnlyByCancel == Spec => []LeftBehindOnlyByCancel
  BY ProvidersInvariant, InvImpliesNotLeft, PTL

-----------------------------------------------------------------------------
(* Done only after the whole answer (mock and fake).                        *)

WholeAtFinish ==
    provider # "openai" /\ ppc = "finish" => Len(sent) = Len(answer)

WholeInv == WholeAtFinish /\ DoneMeansWhole

LEMMA WholeStep ==
    ASSUME ChannelInv, WholeInv, Next
    PROVE  WholeInv'
  <1>0. /\ sent \in Seq(Kinds) /\ DOMAIN sent = 1..Len(sent) /\ Len(sent) \in Nat
        /\ ppc \notin Over => \A i \in DOMAIN sent : sent[i] = "token"
    BY DEF ChannelInv, SentOK, OnlyTokensBefore
  <1>1. CASE StartCanned \/ StartSimulated \/ Generate
    <2>1. /\ UNCHANGED <<sent, provider>> /\ ppc' # "finish"
          /\ ppc \notin Over
      BY <1>1 DEF StartCanned, StartSimulated, Generate, answerVars, Goto,
         FailWith, Over
    <2> QED
      BY <1>0, <2>1 DEF WholeInv, WholeAtFinish, DoneMeansWhole
  <1>2. CASE Abandon \/ Tick
    BY <1>2 DEF Abandon, EndOpen, Tick, answerVars, Goto, WholeInv,
       WholeAtFinish, DoneMeansWhole
  <1>3. CASE AllSent
    BY <1>3 DEF AllSent, answerVars, Goto, WholeInv, WholeAtFinish,
       DoneMeansWhole
  <1>4. CASE provider = "openai" /\ UNCHANGED answerVars
    BY <1>4 DEF answerVars, WholeInv, WholeAtFinish, DoneMeansWhole
  <1>5. CASE UNCHANGED ghosts /\ (SendToken \/ SendFailure)
    <2>1. PICK kind \in {"token", "error"} :
            sent' = Append(sent, kind) /\ ppc' # "finish" /\ ppc \notin Over
      BY <1>5 DEF SendToken, SendFailure, Deliver, Over
    <2>2. DOMAIN sent' = 1..(Len(sent) + 1)
          /\ \A i \in DOMAIN sent' : sent'[i] # "done"
      BY <1>0, <2>1
    <2> QED
      BY <1>5, <2>1, <2>2
         DEF ghosts, answerVars, WholeInv, WholeAtFinish, DoneMeansWhole
  <1>6. CASE UNCHANGED ghosts /\ SendDone
    <2>1. /\ sent' = Append(sent, "done") /\ ppc = "finish" /\ ppc' = "close"
      BY <1>6 DEF SendDone, Deliver
    <2>2. \A i \in DOMAIN sent' : sent'[i] = "done" => i = Len(sent) + 1
      BY <1>0, <2>1 DEF Over
    <2> QED
      BY <1>6, <2>1, <2>2
         DEF ghosts, answerVars, WholeInv, WholeAtFinish, DoneMeansWhole
  <1>7. CASE UNCHANGED ghosts /\ (Return \/ Reader \/ CancelContext)
    BY <1>7 DEF ghosts, answerVars, Return, EndOpen, Reader, Handle,
       SeeClosed, CancelContext, WholeInv, WholeAtFinish, DoneMeansWhole
  <1> QED
    BY StepCases, <1>1, <1>2, <1>3, <1>4, <1>5, <1>6, <1>7

(* A Done of the mock or the fake provider follows the last word of its     *)
(* answer, however long the answer is and however slow the reader.          *)
THEOREM DoneAfterWholeAnswer == Spec => []DoneMeansWhole
  <1>1. Init => WholeInv
    BY DEF Init, PacedInit, OpenAIInit, ChannelInit, WholeInv, WholeAtFinish,
       DoneMeansWhole
  <1>2. ChannelInv /\ WholeInv /\ [Next]_vars => WholeInv'
    <2> SUFFICES ASSUME ChannelInv, WholeInv, [Next]_vars PROVE WholeInv'
      OBVIOUS
    <2>1. CASE UNCHANGED vars
      BY <2>1 DEF vars, channelVars, answerVars, WholeInv, WholeAtFinish,
         DoneMeansWhole
    <2> QED
      BY <2>1, WholeStep
  <1>3. WholeInv => DoneMeansWhole
    BY DEF WholeInv
  <1> QED
    BY <1>1, <1>2, <1>3, ProvidersInvariant, PTL DEF Spec

-----------------------------------------------------------------------------
(* The fake provider's answer.                                              *)

(* The template over and over, word by word, and what the loop appends next *)
(* when n words are missing.                                                *)
Word(w, i) == ((i - 1) % w) + 1
Cycle(w, n) == [i \in 1..n |-> Word(w, i)]
ToAdd(w, n) == IF n > w THEN w ELSE n

(* Integer division, and that its remainder is unique.                      *)
LEMMA Division ==
    ASSUME NEW x \in Nat, NEW w \in Nat \ {0}
    PROVE  /\ x = w * (x \div w) + (x % w)
           /\ x % w \in 0..(w - 1) /\ x \div w \in Int
  <1>1. x = w * (x \div w) + (x % w)
    OBVIOUS
  <1>2. x % w \in 0..(w - 1)
    OBVIOUS
  <1>3. x \div w \in Int
    OBVIOUS
  <1> QED
    BY <1>1, <1>2, <1>3

LEMMA Quotients ==
    ASSUME NEW w \in Nat \ {0}, NEW q1 \in Int, NEW q2 \in Int,
           NEW r1 \in 0..(w - 1), NEW r2 \in 0..(w - 1),
           w * q1 + r1 = w * q2 + r2
    PROVE  r1 = r2
  OBVIOUS

(* Words repeat with the length of the template.                            *)
LEMMA WordCycles ==
    ASSUME NEW w \in Nat \ {0}, NEW i \in Nat \ {0}
    PROVE  /\ Word(w, i) \in Int
           /\ i <= w => Word(w, i) = i
           /\ i > w => Word(w, i) = Word(w, i - w)
  <1>1. PICK x \in Nat : x = i - 1
    OBVIOUS
  <1>2. ASSUME i <= w PROVE Word(w, i) = i
    <2>1. x < w
      BY <1>1, <1>2
    <2>2. x % w = x
      BY <2>1
    <2> QED
      BY <1>1, <2>2 DEF Word
  <1>3. ASSUME i > w PROVE Word(w, i) = Word(w, i - w)
    <2>1. PICK y \in Nat : y = x - w /\ i - w - 1 = y
      BY <1>1, <1>3
    <2>2. PICK q1 \in Int, r1 \in 0..(w - 1) : x = w * q1 + r1 /\ r1 = x % w
      BY Division
    <2>3. PICK q2 \in Int, r2 \in 0..(w - 1) : y = w * q2 + r2 /\ r2 = y % w
      BY Division
    <2>4. PICK q3 \in Int : q3 = q2 + 1
      OBVIOUS
    <2>5. w * q3 = w * q2 + w
      BY <2>4
    <2>6. w * q1 + r1 = w * q3 + r2
      BY <2>1, <2>2, <2>3, <2>5
    <2>7. r1 = r2
      BY <2>6, Quotients
    <2> QED
      BY <1>1, <2>1, <2>2, <2>3, <2>7 DEF Word
  <1>4. Word(w, i) \in Int
    BY <1>1, Division DEF Word
  <1> QED
    BY <1>2, <1>3, <1>4

(* Both are sequences of words.                                             *)
LEMMA CycleIsSeq ==
    ASSUME NEW w \in Nat \ {0}, NEW n \in Nat
    PROVE  /\ Cycle(w, n) \in Seq(Int) /\ Len(Cycle(w, n)) = n
           /\ \A i \in 1..n : Cycle(w, n)[i] = Word(w, i)
  <1>1. \A i \in 1..n : Word(w, i) \in Int
    BY WordCycles
  <1> QED
    BY <1>1 DEF Cycle

LEMMA TemplateIsSeq ==
    ASSUME NEW n \in Nat
    PROVE  /\ Template(n) \in Seq(Int) /\ Len(Template(n)) = n
           /\ \A i \in 1..n : Template(n)[i] = i
  BY DEF Template

(* What has been appended and what is still to come make the whole.         *)
LEMMA CycleStep ==
    ASSUME NEW w \in Nat \ {0}, NEW n \in Nat \ {0}
    PROVE  /\ ToAdd(w, n) \in 1..n
           /\ Cycle(w, n) = Template(ToAdd(w, n)) \o Cycle(w, n - ToAdd(w, n))
  <1>1. PICK k \in 1..n : k = ToAdd(w, n) /\ k <= w /\ (n > k => k = w)
    BY DEF ToAdd
  <1>2. PICK m \in Nat : m = n - k
    OBVIOUS
  <1>3. PICK s \in Seq(Int) : s = Template(k) /\ Len(s) = k /\ \A i \in 1..k : s[i] = i
    BY TemplateIsSeq
  <1>4. PICK c \in Seq(Int) : c = Cycle(w, m) /\ Len(c) = m /\ \A i \in 1..m : c[i] = Word(w, i)
    BY CycleIsSeq
  <1>5. /\ s \o c \in Seq(Int) /\ Len(s \o c) = n
        /\ \A i \in 1..n : (s \o c)[i] = IF i <= k THEN s[i] ELSE c[i - k]
    <2>1. /\ s \o c \in Seq(Int) /\ Len(s \o c) = Len(s) + Len(c)
          /\ \A i \in 1..(Len(s) + Len(c)) :
                (s \o c)[i] = IF i <= Len(s) THEN s[i] ELSE c[i - Len(s)]
      BY ConcatProperties
    <2>2. Len(s) = k /\ Len(c) = m /\ k + m = n
      BY <1>2, <1>3, <1>4
    <2> QED
      BY <2>1, <2>2
  <1>6. ASSUME NEW i \in 1..n PROVE (s \o c)[i] = Word(w, i)
    <2>1. CASE i <= k
      BY <1>1, <1>3, <1>5, <2>1, WordCycles
    <2>2. CASE ~(i <= k)
      <3>1. k = w /\ i > w
        BY <1>1, <2>2
      <3>2. PICK j \in 1..m : j = i - w
        BY <1>2, <3>1
      <3>3. Word(w, i) = Word(w, i - w)
        BY <3>1, WordCycles
      <3> QED
        BY <1>4, <1>5, <2>2, <3>1, <3>2, <3>3
    <2> QED
      BY <2>1, <2>2
  <1>7. Cycle(w, n) = s \o c
    <2>1. /\ Cycle(w, n) \in Seq(Int) /\ Len(Cycle(w, n)) = n
          /\ \A i \in 1..n : Cycle(w, n)[i] = (s \o c)[i]
      BY <1>6, CycleIsSeq
    <2> QED
      BY <1>5, <2>1, SeqEqual
  <1> QED
    BY <1>1, <1>2, <1>3, <1>4, <1>7

(* The loop computes the cycle: the cycle solves the equation that defines  *)
(* Repeat, so Repeat does too, and the least n at which a solution could    *)
(* differ from the cycle is none.                                           *)
LEMMA RepeatCycles ==
    ASSUME NEW w \in 1..MaxTokens, NEW n \in 0..MaxTokens
    PROVE  Repeat(w)[n] = Cycle(w, n)
  <1> DEFINE Solves(r) ==
               r = [m \in 0..MaxTokens |->
                      IF m = 0 THEN <<>>
                      ELSE LET toAdd == IF m > w THEN w ELSE m
                           IN  Template(toAdd) \o r[m - toAdd]]
             c == [m \in 0..MaxTokens |-> Cycle(w, m)]
  <1>0. MaxTokens \in Nat /\ w \in Nat \ {0}
    BY ProviderChannelAssumption
  <1>a. Cycle(w, 0) = <<>>
    BY DEF Cycle
  <1>b. \A m \in 1..MaxTokens : ToAdd(w, m) \in 1..m /\ m - ToAdd(w, m) \in 0..(m - 1)
    BY <1>0 DEF ToAdd
  <1>1. Solves(c)
    <2>1. ASSUME NEW m \in 1..MaxTokens
          PROVE  c[m] = Template(ToAdd(w, m)) \o c[m - ToAdd(w, m)]
      <3>1. PICK k \in 0..MaxTokens : k = m - ToAdd(w, m)
        BY <1>0, <1>b
      <3>2. m \in Nat \ {0}
        BY <1>0
      <3>3. Cycle(w, m) = Template(ToAdd(w, m)) \o Cycle(w, k)
        BY <1>0, <3>1, <3>2, CycleStep
      <3>4. c[m] = Cycle(w, m) /\ c[k] = Cycle(w, k)
        BY <1>0
      <3> QED
        BY <3>1, <3>3, <3>4
    <2>2. c = [m \in 0..MaxTokens |-> c[m]] /\ c[0] = <<>>
      BY <1>0, <1>a
    <2> HIDE DEF c
    <2>3. ASSUME NEW m \in 0..MaxTokens
          PROVE  c[m] = IF m = 0 THEN <<>>
                        ELSE Template(ToAdd(w, m)) \o c[m - ToAdd(w, m)]
      <3>1. m = 0 \/ (m \in 1..MaxTokens /\ m # 0)
        BY <1>0
      <3> QED
        BY <2>1, <2>2, <3>1
    <2> QED
      BY <2>2, <2>3 DEF ToAdd
  <1>2. Repeat(w) = CHOOSE r : Solves(r)
    BY DEF Repeat
  <1> HIDE DEF Solves, c
  <1>3. Solves(Repeat(w))
    BY <1>1, <1>2
  <1>4. Repeat(w)[0] = <<>>
    BY <1>0, <1>3 DEF Solves
  <1>5. ASSUME NEW m \in 1..MaxTokens
        PROVE  Repeat(w)[m] = Template(ToAdd(w, m)) \o Repeat(w)[m - ToAdd(w, m)]
    <2>1. m \in 0..MaxTokens /\ m # 0
      BY <1>0
    <2>2. Repeat(w)[m] = LET toAdd == IF m > w THEN w ELSE m
                         IN  Template(toAdd) \o Repeat(w)[m - toAdd]
      BY <1>3, <2>1 DEF Solves
    <2> QED
      BY <2>2 DEF ToAdd
  <1> DEFINE Wrong == {m \in 0..MaxTokens : Repeat(w)[m] # Cycle(w, m)}
  <1> SUFFICES ASSUME Wrong # {} PROVE FALSE
    OBVIOUS
  <1>6. PICK m \in Wrong : \A j \in Wrong : ~(j < m)
    <2>1. Wrong \subseteq Nat
      BY <1>0
    <2> HIDE DEF Wrong
    <2>2. PICK m \in Wrong : \A j \in Wrong : ~(<<j, m>> \in OpToRel(<, Nat))
      BY <2>1, WFMin, NatLessThanWellFounded
    <2> QED
      BY <2>1, <2>2 DEF OpToRel
  <1>7. m \in 1..MaxTokens
    BY <1>0, <1>4, <1>6, <1>a
  <1>8. PICK k \in 0..(m - 1) : k = m - ToAdd(w, m)
    BY <1>7, <1>b
  <1>9. Cycle(w, m) = Template(ToAdd(w, m)) \o Cycle(w, k)
    <2>1. m \in Nat \ {0}
      BY <1>0, <1>7
    <2> QED
      BY <1>0, <1>8, <2>1, CycleStep
  <1>10. Repeat(w)[k] = Cycle(w, k)
    BY <1>0, <1>6, <1>7, <1>8
  <1> QED
    BY <1>5, <1>6, <1>7, <1>8, <1>9, <1>10

(* A template that is long enough is cut; a shorter one is repeated.        *)
LEMMA AnswerCycles ==
    ASSUME NEW w \in 1..MaxTokens, NEW t \in 0..MaxTokens
    PROVE  GenerateResponse(w, t) = Cycle(w, t)
  <1>1. w \in Nat \ {0} /\ t \in Nat /\ MaxTokens \in Nat
    BY ProviderChannelAssumption
  <1>2. CASE w >= t
    <2>1. \A i \in 1..t : Word(w, i) = i
      BY <1>1, <1>2, WordCycles
    <2> QED
      BY <1>2, <2>1 DEF GenerateResponse, Template, Cycle
  <1>3. CASE w < t
    <2>1. PICK m \in 0..MaxTokens : m = t - w
      BY <1>1, <1>3
    <2>2. ToAdd(w, t) = w /\ t \in Nat \ {0}
      BY <1>1, <1>3 DEF ToAdd
    <2>3. Cycle(w, t) = Template(w) \o Cycle(w, m)
      BY <1>1, <2>1, <2>2, CycleStep
    <2>4. GenerateResponse(w, t) = Template(w) \o Repeat(w)[m]
      BY <1>1, <1>3, <2>1 DEF GenerateResponse
    <2> QED
      BY <2>1, <2>3, <2>4, RepeatCycles
  <1> QED
    BY <1>1, <1>2, <1>3

AnswerInv ==
    provider = "fake" =>
        /\ words \in 1..MaxTokens
        /\ target \in 0..MaxTokens
        /\ answer = Cycle(words, target)

(* Whatever number of tokens it draws, and whether its template is longer   *)
(* or shorter, the fake provider's answer is its template over and over, as *)
(* many words of it as were drawn.                                          *)
THEOREM AnswersAsDrawn == Spec => []AnswerHasTarget
  <1>1. Init => AnswerInv
    <2> SUFFICES ASSUME Init, provider = "fake" PROVE AnswerInv
      BY DEF AnswerInv
    <2>1. words \in 1..MaxTokens /\ target = 0 /\ answer = <<>>
      BY DEF Init, PacedInit
    <2>2. Cycle(words, 0) = <<>> /\ 0 \in 0..MaxTokens
      BY ProviderChannelAssumption DEF Cycle
    <2> QED
      BY <2>1, <2>2 DEF AnswerInv
  <1>2. AnswerInv /\ [Next]_vars => AnswerInv'
    <2> SUFFICES ASSUME AnswerInv, [Next]_vars PROVE AnswerInv'
      OBVIOUS
    <2>1. CASE Generate
      BY <2>1, AnswerCycles DEF Generate, AnswerInv
    <2>2. CASE UNCHANGED answerVars
      BY <2>2 DEF answerVars, AnswerInv
    <2>3. Generate \/ UNCHANGED answerVars
      BY StepCases DEF vars, ghosts, StartCanned, StartSimulated, Abandon,
         Tick, AllSent
    <2> QED
      BY <2>1, <2>2, <2>3
  <1>3. AnswerInv => AnswerHasTarget
    <2> SUFFICES ASSUME AnswerInv, provider = "fake"
                 PROVE  /\ Len(answer) = target
                        /\ \A i \in DOMAIN answer :
                              answer[i] = ((i - 1) % words) + 1
      BY DEF AnswerHasTarget
    <2>1. words \in Nat \ {0} /\ target \in Nat
      BY ProviderChannelAssumption DEF AnswerInv
    <2>2. Len(answer) = target /\ DOMAIN answer = 1..target
      BY <2>1, CycleIsSeq DEF AnswerInv, Cycle
    <2> QED
      BY <2>1, <2>2, CycleIsSeq DEF AnswerInv, Word
  <1> QED
    BY <1>1, <1>2, <1>3, PTL DEF Spec

-----------------------------------------------------------------------------
(* What the reader counts (OpenAI).                                         *)

Failing == ppc = "fail" \/ \E i \in DOMAIN sent : sent[i] = "error"

(* The error on its way is the one of the last cause.                       *)
ErrMatches ==
    Failing =>
        /\ cause \in DOMAIN Transport => err = Transport[cause]
        /\ cause = "url" => err = {"parse"}
        /\ cause = "rate_limit" => err = {}

Uncounted == label = "none"

CountedOnce ==
    ~Uncounted => /\ ppc \in Over
                  /\ label = Classify(err)
                  /\ Failing

CancelKnown == cause = "cancel" => cancelled /\ Uncounted

PartialOnlyAfterToken ==
    /\ ppc = "finish" /\ sent = <<>> => cause \notin DOMAIN Transport
    /\ PartialHasTokens

StaleIsRateLimited == ppc = "stale" => cause = "rate_limit"

CauseInv ==
    /\ provider # "openai" => cause = "none"
    /\ ErrMatches
    /\ CountedOnce
    /\ CancelKnown
    /\ PartialOnlyAfterToken
    /\ StaleIsRateLimited

(* While the provider works, nothing has failed and nothing is counted.     *)
LEMMA WorkingIsClean ==
    ASSUME ChannelInv, CauseInv, ppc \notin Over
    PROVE  /\ label = "none"
           /\ \A i \in DOMAIN sent : sent[i] = "token"
           /\ Failing => ppc = "fail"
           /\ sent # <<"done">>
  <1>1. \A i \in DOMAIN sent : sent[i] = "token"
    BY DEF ChannelInv, OnlyTokensBefore
  <1>2. sent # <<"done">>
    <2> SUFFICES ASSUME sent = <<"done">> PROVE FALSE
      OBVIOUS
    <2>1. 1 \in DOMAIN sent /\ sent[1] = "done"
      OBVIOUS
    <2> QED
      BY <1>1, <2>1
  <1> QED
    BY <1>1, <1>2 DEF CauseInv, CountedOnce, Uncounted, Failing

(* A step that leaves the values sent, the context and the count alone, and *)
(* goes from work to work, must only keep the last cause told.              *)
LEMMA WorkStep ==
    ASSUME ChannelInv, CauseInv, ppc \notin Over,
           UNCHANGED <<sent, cancelled, label, provider>>,
           provider = "openai" \/ UNCHANGED cause,
           ppc' = "fail" =>
               /\ cause' \in DOMAIN Transport => err' = Transport[cause']
               /\ cause' = "url" => err' = {"parse"}
               /\ cause' = "rate_limit" => err' = {},
           cause' = "cancel" => cancelled,
           ppc' = "finish" /\ sent = <<>> => cause' \notin DOMAIN Transport,
           ppc' = "stale" => cause' = "rate_limit"
    PROVE  CauseInv'
  <1>1. /\ label = "none" /\ (\A i \in DOMAIN sent : sent[i] = "token")
        /\ sent # <<"done">>
    BY WorkingIsClean
  <1>2. Failing' => ppc' = "fail"
    BY <1>1 DEF Failing
  <1> QED
    BY <1>1, <1>2 DEF CauseInv, ErrMatches, CountedOnce, Uncounted,
       CancelKnown, PartialOnlyAfterToken, PartialHasTokens,
       StaleIsRateLimited

LEMMA CauseStep ==
    ASSUME ChannelInv, CauseInv, Next
    PROVE  CauseInv'
  <1>0. /\ sent \in Seq(Kinds) /\ DOMAIN sent = 1..Len(sent) /\ Len(sent) \in Nat
        /\ DOMAIN Transport = {"timeout", "refused", "nohost", "reset", "eof",
                               "other", "cancel"}
    BY DEF ChannelInv, SentOK, Transport
  <1>1. CASE /\ StartCanned \/ StartSimulated \/ Generate \/ Tick \/ AllSent
             /\ provider # "openai" /\ UNCHANGED <<attempt, cause>>
    <2>1. cause = "none"
      BY <1>1 DEF CauseInv
    <2>2. /\ ppc \notin Over /\ ppc' # "stale"
          /\ UNCHANGED <<sent, cancelled, label, provider, cause>>
      BY <1>1 DEF StartCanned, StartSimulated, Generate, Tick, AllSent, Goto,
         FailWith, answerVars, Over
    <2> QED
      BY <1>0, <2>1, <2>2, WorkStep
  <1>2. CASE Abandon /\ UNCHANGED <<attempt, cause>>
    <2>1. /\ ppc \notin Over /\ ppc' = "end" /\ cancelled
          /\ UNCHANGED <<err, sent, cancelled, label, provider, cause>>
      BY <1>2 DEF Abandon, Cancellable, EndOpen, answerVars, Over
    <2> QED
      BY <2>1, <1>0, WorkStep
  <1>3. CASE Request /\ UNCHANGED answerVars /\ provider = "openai"
    <2>1. ppc \notin Over /\ UNCHANGED <<sent, cancelled, label, provider>>
      BY <1>3 DEF Request, BadRequest, Answered, RequestFails, HTTPError,
         RateLimited, Goto, FailWith, answerVars, Over
    <2>2. CASE RequestFails
      BY <1>0, <1>3, <2>1, <2>2, WorkStep
         DEF RequestFails, Goto, FailWith, Possible
    <2>3. CASE BadRequest \/ Answered \/ HTTPError \/ RateLimited
      BY <1>0, <1>3, <2>1, <2>3, WorkStep
         DEF BadRequest, Answered, HTTPError, RateLimited, Goto, FailWith
    <2> QED
      BY <1>3, <2>2, <2>3 DEF Request
  <1>4. CASE Pause /\ UNCHANGED answerVars /\ provider = "openai"
    <2>1. /\ ppc \notin Over /\ UNCHANGED <<sent, cancelled, label, provider>>
          /\ ppc' \notin {"finish", "stale"}
      BY <1>4 DEF Pause, Retry, PauseCancelled, Goto, FailWith, answerVars,
         Over
    <2>2. ppc' = "fail" => cause' = "cancel" /\ err' = Transport["cancel"]
      BY <1>4 DEF Pause, Retry, PauseCancelled, Goto, FailWith, Transport
    <2>3. cause' = "cancel" => cancelled
      BY <1>4 DEF Pause, Retry, PauseCancelled, CauseInv, CancelKnown
    <2> QED
      BY <1>4, <2>1, <2>2, <2>3, WorkStep
  <1>5. CASE Scan /\ UNCHANGED answerVars /\ provider = "openai"
    <2>1. /\ ppc \notin Over /\ UNCHANGED <<sent, cancelled, label, provider>>
          /\ ppc' # "stale"
      BY <1>5 DEF Scan, ScanClosedBody, ReadContent, ReadCancelled, ReadEnd,
         ReadFails, Goto, FailWith, answerVars, Over
    <2>2. CASE ScanClosedBody
      BY <1>0, <1>5, <2>1, <2>2, WorkStep
         DEF ScanClosedBody, Goto, FailWith, CauseInv, StaleIsRateLimited
    <2>3. CASE ReadContent
      BY <1>0, <1>5, <2>1, <2>3, WorkStep
         DEF ReadContent, Goto, CauseInv, CancelKnown
    <2>4. CASE ReadCancelled
      BY <1>5, <2>1, <2>4, WorkStep DEF ReadCancelled, FailWith, Transport
    <2>5. CASE ReadEnd
      BY <1>0, <1>5, <2>1, <2>5, WorkStep DEF ReadEnd, Goto
    <2>6. CASE ReadFails
      BY <1>0, <1>5, <2>1, <2>6, WorkStep
         DEF ReadFails, PossibleOnceAnswered, Possible, Goto, FailWith,
             EmittedToken
    <2> QED
      BY <1>5, <2>2, <2>3, <2>4, <2>5, <2>6 DEF Scan
  <1>6. CASE UNCHANGED ghosts /\ (SendToken \/ SendDone \/ SendFailure)
    <2>1. PICK kind \in Kinds :
            /\ sent' = Append(sent, kind)
            /\ ppc = CASE kind = "token" -> "send"
                       [] kind = "done" -> "finish"
                       [] kind = "error" -> "fail"
            /\ ppc' = IF kind = "token" THEN "stream" ELSE "close"
            /\ UNCHANGED <<err, cancelled, label>>
      BY <1>6 DEF SendToken, SendDone, SendFailure, Deliver, Kinds
    <2>2. /\ ppc \notin Over /\ UNCHANGED <<provider, cause>>
      BY <1>6, <2>1 DEF ghosts, answerVars, Over, Kinds
    <2>3. /\ label = "none" /\ (\A i \in DOMAIN sent : sent[i] = "token")
      BY <2>2, WorkingIsClean
    <2>4. /\ DOMAIN sent' = 1..(Len(sent) + 1)
          /\ sent'[Len(sent) + 1] = kind
          /\ \A i \in 1..Len(sent) : sent'[i] = "token"
      BY <1>0, <2>1, <2>3
    <2>5. Failing' => kind = "error" /\ ppc = "fail"
      BY <2>1, <2>4 DEF Failing, Kinds
    <2>6. ErrMatches'
      BY <2>1, <2>2, <2>5 DEF CauseInv, ErrMatches, Failing
    <2>7. sent' = <<"done">> => sent = <<>> /\ ppc = "finish"
      <3> SUFFICES ASSUME sent' = <<"done">>
                   PROVE  sent = <<>> /\ ppc = "finish"
        OBVIOUS
      <3>1. DOMAIN sent' = 1..1 /\ sent'[1] = "done"
        OBVIOUS
      <3>2. Len(sent) = 0
        BY <1>0, <2>4, <3>1
      <3> QED
        BY <1>0, <2>1, <2>4, <3>1, <3>2
    <2>8. PartialOnlyAfterToken'
      BY <2>1, <2>2, <2>7 DEF CauseInv, PartialOnlyAfterToken,
         PartialHasTokens
    <2> QED
      BY <2>1, <2>2, <2>3, <2>6, <2>8 DEF CauseInv, CountedOnce, Uncounted,
         CancelKnown, StaleIsRateLimited
  <1>7. CASE UNCHANGED ghosts /\ (Return \/ SeeClosed \/ CancelContext)
    <2>1. /\ UNCHANGED <<err, sent, label, provider, cause>>
          /\ UNCHANGED ppc \/ (ppc \in Over /\ ppc' = "end")
          /\ cancelled' = cancelled \/ cancelled' = TRUE
      BY <1>7 DEF ghosts, answerVars, Return, EndOpen, SeeClosed,
         CancelContext, Over
    <2>2. Failing' <=> Failing
      BY <2>1 DEF Failing, Over
    <2> QED
      BY <2>1, <2>2 DEF CauseInv, ErrMatches, CountedOnce, Uncounted,
         CancelKnown, PartialOnlyAfterToken, PartialHasTokens,
         StaleIsRateLimited, Over
  <1>8. CASE UNCHANGED ghosts /\ Handle
    <2>1. /\ UNCHANGED <<ppc, err, sent, cancelled, provider, cause>>
          /\ Len(sent) \in DOMAIN sent
          /\ label' = IF ~cancelled /\ sent[Len(sent)] = "error"
                      THEN Classify(err) ELSE label
      BY <1>0, <1>8 DEF ghosts, answerVars, Handle, ChannelInv, HoldsLast
    <2>2. Failing' <=> Failing
      BY <2>1 DEF Failing
    <2>3. sent[Len(sent)] = "error" => ppc \in Over /\ Failing
      BY <2>1 DEF ChannelInv, OnlyTokensBefore, Failing
    <2>4. CountedOnce'
      BY <2>1, <2>2, <2>3 DEF CauseInv, CountedOnce, Uncounted
    <2>5. CancelKnown'
      BY <2>1 DEF CauseInv, CancelKnown, Uncounted
    <2> QED
      BY <2>1, <2>2, <2>4, <2>5 DEF CauseInv, ErrMatches,
         PartialOnlyAfterToken, PartialHasTokens, StaleIsRateLimited
  <1> QED
    BY StepCases, <1>1, <1>2, <1>3, <1>4, <1>5, <1>6, <1>7, <1>8 DEF Reader

LEMMA CauseInvariant == Spec => []CauseInv
  <1>1. Init => CauseInv
    BY DEF Init, PacedInit, OpenAIInit, ChannelInit, CauseInv, ErrMatches,
       Failing, CountedOnce, Uncounted, CancelKnown, PartialOnlyAfterToken,
       PartialHasTokens, StaleIsRateLimited, Transport
  <1>2. ChannelInv /\ CauseInv /\ [Next]_vars => CauseInv'
    <2> SUFFICES ASSUME ChannelInv, CauseInv, [Next]_vars PROVE CauseInv'
      OBVIOUS
    <2>1. CASE UNCHANGED vars
      BY <2>1 DEF vars, channelVars, answerVars, CauseInv, ErrMatches,
         Failing, CountedOnce, Uncounted, CancelKnown, PartialOnlyAfterToken,
         PartialHasTokens, StaleIsRateLimited
    <2> QED
      BY <2>1, CauseStep
  <1> QED
    BY <1>1, <1>2, ProvidersInvariant, PTL DEF Spec

(* A call that a cancel has ended counts under no label whatever: streamAgent *)
(* returns on ctx.Err() before it counts, so the label `cancelled` that       *)
(* turn_runtime.go:245 and metrics.go:55 list is given to no such call.       *)
THEOREM CancelNotCounted == Spec => [](cause = "cancel" => label = "none")
  <1>1. CauseInv => (cause = "cancel" => label = "none")
    BY DEF CauseInv, CancelKnown, Uncounted
  <1> QED
    BY <1>1, CauseInvariant, PTL

(* In particular it is not charged to the provider under a failure's label.   *)
THEOREM CancelNotCharged == Spec => []CancelIsNoFailure
  <1>1. (cause = "cancel" => label = "none") => CancelIsNoFailure
    BY DEF CancelIsNoFailure
  <1> QED
    BY <1>1, CancelNotCounted, PTL

(* A broken stream is passed on as a complete answer only after a token.    *)
THEOREM PartialNotEmpty == Spec => []PartialHasTokens
  <1>1. CauseInv => PartialHasTokens
    BY DEF CauseInv, PartialOnlyAfterToken
  <1> QED
    BY <1>1, CauseInvariant, PTL

LEMMA TransportErrors ==
    /\ DOMAIN Transport = {"timeout", "refused", "nohost", "reset", "eof",
                           "other", "cancel"}
    /\ Transport["timeout"] = {"timeout", "deadline exceeded"}
    /\ Transport["refused"] = {"connection refused"}
    /\ Transport["nohost"] = {"no such host"}
    /\ Transport["reset"] = {"connection reset"}
    /\ Transport["eof"] = {"eof"}
    /\ Transport["other"] = {}
  BY DEF Transport

(* However many attempts failed before, the label is the last one's.        *)
THEOREM LabelIsLastCause == Spec => []LabelTellsCause
  <1>1. CauseInv => LabelTellsCause
    <2> SUFFICES ASSUME CauseInv, label # "none" PROVE LabelTellsCause
      BY DEF LabelTellsCause
    <2>1. label = Classify(err)
      BY DEF CauseInv, CountedOnce, Uncounted
    <2>2. /\ cause \in DOMAIN Transport => err = Transport[cause]
          /\ cause = "url" => err = {"parse"}
          /\ cause = "rate_limit" => err = {}
      BY DEF CauseInv, CountedOnce, Uncounted, ErrMatches
    <2>3. ASSUME cause = "timeout" PROVE label = "timeout"
      <3>1. "timeout" \in err \cap Timeouts
        BY <2>2, <2>3, TransportErrors DEF Timeouts
      <3> QED
        BY <2>1, <3>1 DEF Classify
    <2>4. ASSUME cause \in {"refused", "nohost", "reset"}
          PROVE  label = "connection_refused"
      <3>1. \/ err = {"connection refused"} \/ err = {"no such host"}
            \/ err = {"connection reset"}
        BY <2>2, <2>4, TransportErrors
      <3>2. err \cap Timeouts = {}
        BY <3>1 DEF Timeouts
      <3>3. err \cap Refusals # {}
        BY <3>1 DEF Refusals
      <3> QED
        BY <2>1, <3>2, <3>3 DEF Classify
    <2>5. ASSUME cause = "url" PROVE label = "parse_error"
      <3>1. err = {"parse"}
        BY <2>2, <2>5
      <3>2. err \cap Timeouts = {} /\ err \cap Refusals = {}
            /\ err \cap RateLimits = {}
        BY <3>1 DEF Timeouts, Refusals, RateLimits
      <3>3. "parse" \in err \cap Malformed
        BY <3>1 DEF Malformed
      <3> QED
        BY <2>1, <3>2, <3>3 DEF Classify
    <2>6. ASSUME cause \in {"eof", "other", "rate_limit"}
          PROVE  label = "stream_error"
      <3>1. err = {"eof"} \/ err = {}
        BY <2>2, <2>6, TransportErrors
      <3>2. err \cap Timeouts = {} /\ err \cap Refusals = {}
        BY <3>1 DEF Timeouts, Refusals
      <3>3. err \cap RateLimits = {} /\ err \cap Malformed = {}
            /\ "context canceled" \notin err
        BY <3>1 DEF RateLimits, Malformed
      <3> QED
        BY <2>1, <3>2, <3>3 DEF Classify
    <2> QED
      BY <2>3, <2>4, <2>5, <2>6 DEF LabelTellsCause
  <1> QED
    BY <1>1, CauseInvariant, PTL
=============================================================================
