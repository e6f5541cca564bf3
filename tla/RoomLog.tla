------------------------------- MODULE RoomLog -------------------------------
(***************************************************************************)
(* What the event log of a room promises to its readers, without requests, *)
(* goroutines, contexts or providers: turns of a room follow one another,  *)
(* each opens with turn_started, sends token_received and error events     *)
(* while it is open, and ends with or without a turn_completed; a          *)
(* turn_cancelled may name any turn of the room at any time after it was   *)
(* admitted.  TurnRuntime implements this module, and EventStream reads    *)
(* what it promises.                                                       *)
(***************************************************************************)
EXTENDS Naturals, Sequences

CONSTANTS Rooms, Turns, NumAgents, None

VARIABLES
    log,       \* the events of each room, in append order
    created,   \* rooms whose room_created event was appended
    phase,     \* of each turn
    home       \* the room of each admitted turn

vars == <<log, created, phase, home>>

Phases == {"new", "admitted", "open", "sealed", "closed"}
Active(t) == phase[t] \in {"admitted", "open", "sealed"}

Entry(type, t, a) == [type |-> type, turn |-> t, agent |-> a]
Emit(r, e) == log' = [log EXCEPT ![r] = Append(@, e)]
Move(t, p) == phase' = [phase EXCEPT ![t] = p]

Init ==
    /\ log = [r \in Rooms |-> <<>>]
    /\ created = {}
    /\ phase = [t \in Turns |-> "new"]
    /\ home = [t \in Turns |-> None]

Create(r) ==
    /\ r \notin created
    /\ created' = created \cup {r}
    /\ Emit(r, Entry("room_created", None, 0))
    /\ UNCHANGED <<phase, home>>

(* One turn at a time.                                                      *)
Admit(t, r) ==
    /\ phase[t] = "new"
    /\ \A u \in Turns : home[u] = r => ~Active(u)
    /\ Move(t, "admitted")
    /\ home' = [home EXCEPT ![t] = r]
    /\ UNCHANGED <<log, created>>

Open(t) ==
    /\ phase[t] = "admitted"
    /\ Move(t, "open")
    /\ Emit(home[t], Entry("turn_started", t, 0))
    /\ UNCHANGED <<created, home>>

Say(t, type, a) ==
    /\ phase[t] = "open"
    /\ Emit(home[t], Entry(type, t, a))
    /\ UNCHANGED <<created, phase, home>>

Seal(t) ==
    /\ phase[t] = "open"
    /\ Move(t, "sealed")
    /\ Emit(home[t], Entry("turn_completed", t, 0))
    /\ UNCHANGED <<created, home>>

Close(t) ==
    /\ phase[t] \in {"open", "sealed"}
    /\ Move(t, "closed")
    /\ UNCHANGED <<log, created, home>>

Cancelled(t) ==
    /\ phase[t] # "new"
    /\ Emit(home[t], Entry("turn_cancelled", t, 0))
    /\ UNCHANGED <<created, phase, home>>

Next ==
    \/ \E r \in Rooms : Create(r)
    \/ \E t \in Turns, r \in Rooms : Admit(t, r)
    \/ \E t \in Turns :
          \/ Open(t) \/ Seal(t) \/ Close(t) \/ Cancelled(t)
          \/ \E a \in 0..NumAgents, type \in {"token_received", "error"} :
                Say(t, type, a)

Spec == Init /\ [][Next]_vars
=============================================================================
