---------------------------- MODULE LLMProvider ----------------------------
(***************************************************************************)
(* The contract of port.LLMProvider: the channel that StreamCompletion     *)
(* returns carries tokens, then at most one Done or error, and is closed   *)
(* once, when the stream is complete or the context is cancelled.          *)
(***************************************************************************)
EXTENDS Naturals, Sequences

VARIABLES
    sent,       \* the kinds of the values sent, in order
    open,       \* the channel has not been closed
    cancelled   \* the context is done

vars == <<sent, open, cancelled>>

Finals == {"done", "error"}
Complete == \E i \in DOMAIN sent : sent[i] \in Finals

Init == sent = <<>> /\ open = TRUE /\ cancelled = FALSE

Cancel == ~cancelled /\ cancelled' = TRUE /\ UNCHANGED <<sent, open>>

Send ==
    /\ open /\ ~Complete
    /\ \E v \in Finals \cup {"token"} : sent' = Append(sent, v)
    /\ UNCHANGED <<open, cancelled>>

Close ==
    /\ open
    /\ Complete \/ cancelled
    /\ open' = FALSE
    /\ UNCHANGED <<sent, cancelled>>

Next == Cancel \/ Send \/ Close

Spec == Init /\ [][Next]_vars
=============================================================================
