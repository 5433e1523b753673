------------------------------- MODULE MFSCall -------------------------------
(***************************************************************************)
(* What a program that uses the client library expects of a call: the      *)
(* server acts once for it, after the call began and before it returns,    *)
(* and what it returns is the answer to it.                                *)
(***************************************************************************)
EXTENDS Naturals

CONSTANTS
    Clients,     \* client programs, one on each host
    MaxCalls     \* bound: calls of each client

VARIABLES
    phase,       \* of each client: "idle", "asked", or "done" (not yet returned)
    call,        \* the number of its last call
    effects,     \* how often the server has acted for it
    answer       \* the number of the call whose answer it was last given

vars == <<phase, call, effects, answer>>

Init ==
    /\ phase = [c \in Clients |-> "idle"]
    /\ call = [c \in Clients |-> 0]
    /\ effects = [c \in Clients |-> 0]
    /\ answer = [c \in Clients |-> 0]

Ask(c) ==
    /\ phase[c] = "idle"
    /\ call[c] < MaxCalls
    /\ phase' = [phase EXCEPT ![c] = "asked"]
    /\ call' = [call EXCEPT ![c] = @ + 1]
    /\ UNCHANGED <<effects, answer>>

Act(c) ==
    /\ phase[c] = "asked"
    /\ phase' = [phase EXCEPT ![c] = "done"]
    /\ effects' = [effects EXCEPT ![c] = @ + 1]
    /\ UNCHANGED <<call, answer>>

Return(c) ==
    /\ phase[c] = "done"
    /\ phase' = [phase EXCEPT ![c] = "idle"]
    /\ answer' = [answer EXCEPT ![c] = call[c]]
    /\ UNCHANGED <<call, effects>>

Next == \E c \in Clients : Ask(c) \/ Act(c) \/ Return(c)

Spec == Init /\ [][Next]_vars
=============================================================================
