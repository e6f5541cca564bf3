------------------------------- MODULE Server -------------------------------
(***************************************************************************)
(* The server process around the event streams: the configuration it       *)
(* starts from (config.Load, wiring.Wire), the listener, and the shutdown  *)
(* that waits for open streams (main, Server.Start, Server.Shutdown).      *)
(* net/http closes the listener at once, serves requests of connections    *)
(* that were accepted before it, and waits until no handler runs.          *)
(***************************************************************************)
EXTENDS EventStream

VARIABLES
    phase,  \* "loading", "starting", "serving", "deaf" (not listening),
            \* "draining"; ended: "refused", "crashed", "exited", "killed"
    late    \* clients accepted before the listener was closed whose request
            \* has not been read

serverVars == <<phase, late>>
vars == <<allVars, serverVars>>

Ended == {"refused", "crashed", "exited", "killed"}
Running == phase \in {"serving", "draining"}

-----------------------------------------------------------------------------
(* The configuration.                                                       *)

ConfigKeys == {"SERVER_ADDR", "PROVIDER_TYPE", "PROVIDER_ENDPOINT",
               "PROVIDER_MODEL", "PROVIDER_API_KEY", "PROVIDER_TOKEN_DELAY",
               "SCENERY_PATH", "LOG_LEVEL"}

(* What the process finds: an .env file or none, the keys that are set by   *)
(* it or by the environment, what PROVIDER_TYPE says, and whether the       *)
(* durations can be parsed.                                                 *)
Environment ==
    [file : BOOLEAN, set : SUBSET ConfigKeys,
     type : {"mock", "openai", "other"}, durationsOK : BOOLEAN]

OpenAIKeys == {"PROVIDER_ENDPOINT", "PROVIDER_MODEL"}

IsOpenAI(env) == "PROVIDER_TYPE" \in env.set /\ env.type = "openai"

(* Mutant: what the chosen provider needs is left to the wiring.            *)
ValidConfig_AnyProvider(env) ==
    {"SERVER_ADDR", "PROVIDER_TYPE", "SCENERY_PATH"} \subseteq env.set

ValidConfig(env) ==
    /\ {"SERVER_ADDR", "PROVIDER_TYPE", "SCENERY_PATH"} \subseteq env.set
    /\ IsOpenAI(env) => OpenAIKeys \subseteq env.set

Loads(env) ==
    /\ env.file \/ env.set # {}
    /\ env.durationsOK
    /\ ValidConfig(env)

(* openai.NewProvider has demands of its own.  Any other type is served by  *)
(* the mock, which has none.                                                *)
Wires(env) == IsOpenAI(env) => OpenAIKeys \subseteq env.set

ServerInit == StreamInit /\ phase = "loading" /\ late = {}

(* main up to the go statement; only the panics and the outcome are kept.   *)
StartUp ==
    /\ phase = "loading"
    /\ \E env \in Environment :
         phase' = IF ~Loads(env) THEN "refused"
                  ELSE IF ~Wires(env) THEN "crashed"
                  ELSE "starting"
    /\ UNCHANGED <<allVars, late>>

(* ListenAndServe in its goroutine; an error is logged and main waits on.   *)
Listen ==
    /\ phase = "starting"
    /\ phase' \in {"serving", "deaf"}
    /\ UNCHANGED <<allVars, late>>

-----------------------------------------------------------------------------
(* A client that has been accepted, or still is, gets its stream.           *)
Request(k, c) ==
    /\ phase = "serving" \/ (phase = "draining" /\ k \in late)
    /\ Connect(k, c)
    /\ late' = late \ {k}
    /\ UNCHANGED phase

(* An accepted client goes away without a request.                          *)
GiveUp(k) ==
    /\ phase = "draining" /\ k \in late
    /\ late' = late \ {k}
    /\ UNCHANGED <<allVars, phase>>

Serve(c) == Running /\ Handler(c) /\ UNCHANGED serverVars
LeaveStream(c) == Running /\ Leave(c) /\ UNCHANGED serverVars
Receive(k) == Read(k) /\ UNCHANGED serverVars
BreakOff(k) == Disconnect(k) /\ UNCHANGED serverVars

(* Turns go on while the server drains.                                     *)
Emit == Running /\ AppendEvent /\ UNCHANGED <<streamVars, serverVars>>

-----------------------------------------------------------------------------
(* SIGINT or SIGTERM: main calls Shutdown with a limit of five seconds.     *)
Signal ==
    /\ phase \in {"starting", "serving", "deaf"}
    /\ phase' = "draining"
    /\ late' \in SUBSET {k \in Clients : phase = "serving" /\ conn[k] = None}
    /\ UNCHANGED allVars

(* The end of the process: its connections break, its memory is gone.  The  *)
(* log is kept as the record of what there was to read.                     *)
ProcessEnds ==
    /\ late' = {}
    /\ subscribers' = {}
    /\ chan' = [c \in Chans |-> IF chan[c] = "open" THEN "closed" ELSE chan[c]]
    /\ buffer' = [c \in Chans |-> <<>>]
    /\ snapshot' = [c \in Chans |-> <<>>]
    /\ hpc' = [c \in Chans |-> IF hpc[c] = "idle" THEN "idle" ELSE "done"]
    /\ wire' = [c \in Chans |-> <<>>]
    /\ gone' = {c \in Chans : owner[c] # None}
    /\ conn' = [k \in Clients |-> None]
    /\ UNCHANGED <<events, next, dropped, owner, lastId, got>>

(* Before signal.Notify a signal ends the process at once.  The listener    *)
(* runs in a goroutine of its own, so clients may have been served by then. *)
EarlySignal ==
    /\ phase \in {"loading", "starting", "serving", "deaf"}
    /\ phase' = "killed"
    /\ ProcessEnds

(* Mutant: Close instead of Shutdown: nobody is waited for.                 *)
Drained_Close ==
    /\ phase = "draining"
    /\ phase' = "exited"
    /\ ProcessEnds

(* Shutdown returns when no connection is active.                           *)
Drained ==
    /\ phase = "draining"
    /\ late = {}
    /\ \A c \in Chans : hpc[c] \in {"idle", "done"}
    /\ phase' = "exited"
    /\ ProcessEnds

(* Mutant: the shutdown has no limit.                                       *)
DrainTimeout_None ==
    /\ phase = "draining" /\ FALSE
    /\ phase' = "killed"
    /\ ProcessEnds

(* Shutdown returns the context's error and logger.Fatal ends the process.  *)
DrainTimeout ==
    /\ phase = "draining"
    /\ phase' = "killed"
    /\ ProcessEnds

-----------------------------------------------------------------------------
ServerNext ==
    \/ StartUp
    \/ Listen
    \/ \E k \in Clients, c \in Chans : Request(k, c)
    \/ \E k \in Clients : GiveUp(k) \/ Receive(k) \/ BreakOff(k)
    \/ \E c \in Chans : Serve(c)
    \/ Emit
    \/ Signal
    \/ EarlySignal
    \/ Drained
    \/ DrainTimeout

ServerSpec == ServerInit /\ [][ServerNext]_vars

(* A handler that can take a step takes one; its select is random, so the   *)
(* end of the request is not passed over for ever; the client reads what    *)
(* arrives; timers fire.  Nothing makes anyone connect or break off, events *)
(* appear, or a signal come.                                                *)
FairServerSpec ==
    /\ ServerSpec
    /\ \A c \in Chans : WF_vars(Serve(c)) /\ WF_vars(LeaveStream(c))
    /\ \A k \in Clients : WF_vars(Receive(k))
    /\ WF_vars(DrainTimeout)

-----------------------------------------------------------------------------
(* config.Load and wiring.Wire agree on what a configuration needs: what    *)
(* the first accepts does not make the second panic.                        *)
WiringNeverPanics == phase # "crashed"

(* A shutdown ends, although open streams end only with their clients.      *)
ShutdownEnds == phase = "draining" ~> phase \in Ended

(* Shutdown cuts no stream off: when the process exits in order, every      *)
(* client has left by itself and none was turned away after being accepted. *)
ExitCutsNobody ==
    [][phase = "draining" /\ phase' = "exited" =>
          late = {} /\ \A k \in Clients : conn[k] = None]_vars
=============================================================================
