----------------------------- MODULE MFSProtocol -----------------------------
(***************************************************************************)
(* Calls of libmfs.c over UDP to the loop of server.c.  A call sends one   *)
(* datagram and blocks in recvfrom until one arrives, which it takes for   *)
(* its answer: it looks neither at the sender nor at what was asked, it    *)
(* has no timeout and it never sends again.  What a handler does to the    *)
(* image is the business of MFSServer; here it is one effect.              *)
(*                                                                         *)
(* The network may lose, delay and reorder datagrams and, up to a bound,   *)
(* duplicate them.  A datagram in a socket's queue counts as in flight; one *)
(* dropped with the queue of a server that exits, or by a round that a      *)
(* signal ends before its reply, counts as lost.                           *)
(***************************************************************************)
EXTENDS Naturals, Functions

CONSTANTS
    Clients,       \* client programs; UDP_Open(20000) allows one on each host
    MaxCalls,      \* bound: calls of each client
    MaxShutdowns,  \* bound: MFS_Shutdown datagrams in flight
    MaxDups,       \* bound: datagrams that the network duplicates
    MaxGiveUps     \* bound: waits that end without an answer

Calls == 1 .. MaxCalls

ASSUME BoundsAssumption ==
    /\ MaxCalls \in Nat
    /\ MaxShutdowns \in Nat
    /\ MaxDups \in Nat
    /\ MaxGiveUps \in Nat

VARIABLES
    mode,        \* the server process: "up" or "down"
    pc,          \* of each client: "idle" or "waiting" in UDP_Read
    call,        \* the number of its last call
    answer,      \* the call whose answer it was last given, 0 for none
    effects,     \* how often the server ran a handler for it
    requests,    \* its requests in flight: how many datagrams of each call
    replies,     \* replies to it in flight, by the call that they answer
    shutdowns,   \* MFS_Shutdown datagrams in flight
    lost,        \* a request or a reply was lost
    dups,        \* datagrams duplicated so far
    giveUps      \* waits given up so far

server  == mode
clients == <<pc, call, answer, giveUps>>
network == <<requests, replies, shutdowns, lost, dups>>
vars    == <<server, clients, effects, network>>

Init ==
    /\ mode = "down"
    /\ pc = [c \in Clients |-> "idle"]
    /\ call = [c \in Clients |-> 0]
    /\ answer = [c \in Clients |-> 0]
    /\ effects = [c \in Clients |-> 0]
    /\ requests = [c \in Clients |-> [n \in Calls |-> 0]]
    /\ replies = [c \in Clients |-> [n \in Calls |-> 0]]
    /\ shutdowns = 0
    /\ lost = FALSE
    /\ dups = 0
    /\ giveUps = 0

OneMore(datagrams, c, n) == [datagrams EXCEPT ![c][n] = @ + 1]
OneLess(datagrams, c, n) == [datagrams EXCEPT ![c][n] = @ - 1]
-----------------------------------------------------------------------------
(***************************************************************************)
(* The client library.                                                     *)
(***************************************************************************)

(* Mutant: the request is sent twice, as a retry would.                    *)
Send_Twice(c) ==
    /\ pc[c] = "idle"
    /\ call[c] < MaxCalls
    /\ call' = [call EXCEPT ![c] = @ + 1]
    /\ pc' = [pc EXCEPT ![c] = "waiting"]
    /\ requests' = [requests EXCEPT ![c][call[c] + 1] = @ + 2]
    /\ UNCHANGED <<server, answer, giveUps, effects, replies, shutdowns, lost, dups>>

(* A call up to its UDP_Read.  One whose UDP_Write fails returns -1 and    *)
(* has done nothing.                                                       *)
Send(c) ==
    /\ pc[c] = "idle"
    /\ call[c] < MaxCalls
    /\ call' = [call EXCEPT ![c] = @ + 1]
    /\ pc' = [pc EXCEPT ![c] = "waiting"]
    /\ requests' = OneMore(requests, c, call[c] + 1)
    /\ UNCHANGED <<server, answer, giveUps, effects, replies, shutdowns, lost, dups>>

(* Mutants: UDP_Read does not block; it times out and the call returns.    *)
Receive_NonBlocking(c, n) ==
    /\ pc[c] = "waiting"
    /\ replies' = OneLess(replies, c, n)
    /\ pc' = [pc EXCEPT ![c] = "idle"]
    /\ answer' = [answer EXCEPT ![c] = n]
    /\ UNCHANGED <<server, call, giveUps, effects, requests, shutdowns, lost, dups>>
Receive_TimesOut(c, n) ==
    /\ pc[c] = "waiting"
    /\ pc' = [pc EXCEPT ![c] = "idle"]
    /\ \/ /\ replies[c][n] > 0
          /\ replies' = OneLess(replies, c, n)
          /\ answer' = [answer EXCEPT ![c] = n]
       \/ UNCHANGED <<replies, answer>>
    /\ UNCHANGED <<server, call, giveUps, effects, requests, shutdowns, lost, dups>>

(* UDP_Read returns whatever datagram is there and so does the call.       *)
Receive(c, n) ==
    /\ pc[c] = "waiting"
    /\ replies[c][n] > 0
    /\ replies' = OneLess(replies, c, n)
    /\ pc' = [pc EXCEPT ![c] = "idle"]
    /\ answer' = [answer EXCEPT ![c] = n]
    /\ UNCHANGED <<server, call, giveUps, effects, requests, shutdowns, lost, dups>>

(* UDP_Read fails and the call returns -1; or the waiting program ends and *)
(* another one on its host binds the same port 20000.                      *)
GiveUp(c) ==
    /\ pc[c] = "waiting"
    /\ giveUps < MaxGiveUps
    /\ giveUps' = giveUps + 1
    /\ pc' = [pc EXCEPT ![c] = "idle"]
    /\ answer' = [answer EXCEPT ![c] = 0]
    /\ UNCHANGED <<server, call, effects, network>>

(* MFS_Shutdown sends and returns 0 without an answer.                     *)
AskShutdown(c) ==
    /\ pc[c] = "idle"
    /\ shutdowns < MaxShutdowns
    /\ shutdowns' = shutdowns + 1
    /\ UNCHANGED <<server, clients, effects, requests, replies, lost, dups>>
-----------------------------------------------------------------------------
(***************************************************************************)
(* The server's loop.                                                      *)
(***************************************************************************)

(* Mutants: a handler's -1 ends the round before the reply; the reply goes *)
(* to the address of an earlier round.                                     *)
Serve_Silent(c, n) ==
    /\ mode = "up"
    /\ requests[c][n] > 0
    /\ requests' = OneLess(requests, c, n)
    /\ effects' = [effects EXCEPT ![c] = @ + 1]
    /\ \/ replies' = OneMore(replies, c, n)
       \/ UNCHANGED replies
    /\ UNCHANGED <<server, clients, shutdowns, lost, dups>>
Serve_StaleAddr(c, n) ==
    /\ mode = "up"
    /\ requests[c][n] > 0
    /\ requests' = OneLess(requests, c, n)
    /\ effects' = [effects EXCEPT ![c] = @ + 1]
    /\ \E d \in Clients : replies' = OneMore(replies, d, n)
    /\ UNCHANGED <<server, clients, shutdowns, lost, dups>>

(* One round: a request, its handler, and the reply to where it came from. *)
Serve(c, n) ==
    /\ mode = "up"
    /\ requests[c][n] > 0
    /\ requests' = OneLess(requests, c, n)
    /\ effects' = [effects EXCEPT ![c] = @ + 1]
    /\ replies' = OneMore(replies, c, n)
    /\ UNCHANGED <<server, clients, shutdowns, lost, dups>>

(* run_shutdown exits within the round.                                    *)
ServeShutdown ==
    /\ mode = "up"
    /\ shutdowns > 0
    /\ shutdowns' = shutdowns - 1
    /\ mode' = "down"
    /\ UNCHANGED <<clients, effects, requests, replies, lost, dups>>

(* intHandler, and main up to its loop.                                    *)
Interrupt == mode = "up"   /\ mode' = "down" /\ UNCHANGED <<clients, effects, network>>
Start     == mode = "down" /\ mode' = "up"   /\ UNCHANGED <<clients, effects, network>>
-----------------------------------------------------------------------------
(***************************************************************************)
(* The network.                                                            *)
(***************************************************************************)
Lose ==
    /\ \/ /\ \E c \in Clients, n \in Calls :
               \/ requests[c][n] > 0 /\ requests' = OneLess(requests, c, n)
                                     /\ UNCHANGED replies
               \/ replies[c][n] > 0 /\ replies' = OneLess(replies, c, n)
                                    /\ UNCHANGED requests
          /\ lost' = TRUE
          /\ UNCHANGED shutdowns
       \/ /\ shutdowns > 0
          /\ shutdowns' = shutdowns - 1
          /\ UNCHANGED <<requests, replies, lost>>
    /\ UNCHANGED <<server, clients, effects, dups>>

Duplicate ==
    /\ dups < MaxDups
    /\ dups' = dups + 1
    /\ \E c \in Clients, n \in Calls :
         \/ requests[c][n] > 0 /\ requests' = OneMore(requests, c, n)
                               /\ UNCHANGED replies
         \/ replies[c][n] > 0 /\ replies' = OneMore(replies, c, n)
                              /\ UNCHANGED requests
    /\ UNCHANGED <<server, clients, effects, shutdowns, lost>>
-----------------------------------------------------------------------------
Round     == \E c \in Clients, n \in Calls : Serve(c, n)
Answer(c) == \E n \in Calls : Receive(c, n)

Next ==
    \/ \E c \in Clients : Send(c) \/ Answer(c) \/ GiveUp(c) \/ AskShutdown(c)
    \/ Round \/ ServeShutdown \/ Interrupt \/ Start
    \/ Lose \/ Duplicate

(* The server's loop goes on while there is something to read, and a       *)
(* client that waits wakes up when a datagram has arrived.  Nothing obliges *)
(* a program to call, an operator to start the server, or the network to   *)
(* lose or to duplicate.                                                   *)
Fairness == WF_vars(Round) /\ \A c \in Clients : WF_vars(Answer(c))

Spec     == Init /\ [][Next]_vars
FairSpec == Spec /\ Fairness
-----------------------------------------------------------------------------
(* Datagrams are counted, calls are numbered up to their bound.            *)
TypeOK ==
    /\ mode \in {"up", "down"}
    /\ pc \in [Clients -> {"idle", "waiting"}]
    /\ call \in [Clients -> 0 .. MaxCalls]
    /\ answer \in [Clients -> 0 .. MaxCalls]
    /\ effects \in [Clients -> Nat]
    /\ requests \in [Clients -> [Calls -> Nat]]
    /\ replies \in [Clients -> [Calls -> Nat]]
    /\ shutdowns \in 0 .. MaxShutdowns
    /\ lost \in BOOLEAN
    /\ dups \in 0 .. MaxDups
    /\ giveUps \in 0 .. MaxGiveUps

(* While no datagram is duplicated and no wait given up, a client has at   *)
(* most one datagram in flight, that of the call it is in: a request       *)
(* before the server acted for it, a reply after.  An idle client has none, *)
(* so that its next call cannot pick up an old answer.                     *)
OneOutstanding ==
    dups = 0 /\ giveUps = 0 =>
        \A c \in Clients, n \in Calls :
            /\ requests[c][n] > 0 =>
                 /\ pc[c] = "waiting" /\ n = call[c] /\ requests[c][n] = 1
                 /\ replies[c][n] = 0
                 /\ effects[c] = call[c] - 1
            /\ replies[c][n] > 0 =>
                 /\ pc[c] = "waiting" /\ n = call[c] /\ replies[c][n] = 1
                 /\ effects[c] = call[c]

(* The datagrams in flight for a client are those of the call it waits in,  *)
(* one for every duplicate the network made and one for every wait that     *)
(* was given up; the server acts for a client once per call and duplicate.  *)
(* Old replies thus pile up by faults only, never by the loop of calls.    *)
InFlight(c) == SumFunction(requests[c]) + SumFunction(replies[c])
SurplusFromFaults ==
    \A c \in Clients :
        /\ InFlight(c) <= (IF pc[c] = "waiting" THEN 1 ELSE 0) + dups + giveUps
        /\ effects[c] + SumFunction(requests[c]) <= call[c] + dups

(* A call returns if the server stays up and nothing is lost on the way.   *)
CallReturns ==
    (<>[](mode = "up") /\ []~lost) =>
        \A c \in Clients : pc[c] = "waiting" ~> pc[c] = "idle"

(* Until the network duplicates a datagram or a wait is given up, the       *)
(* library gives every program what it expects of a call: one effect,      *)
(* within the call, and its own answer.  Losses and restarts of the server *)
(* only keep calls from returning.                                         *)
phaseBar == [c \in Clients |-> IF pc[c] = "idle" THEN "idle"
                               ELSE IF effects[c] = call[c] THEN "done" ELSE "asked"]
Library == INSTANCE MFSCall WITH phase <- phaseBar
LibraryKeepsCalls ==
    Library!Init /\ [][Library!Next \/ dups' > 0 \/ giveUps' > 0]_(Library!vars)

(* libmfs.c:58, "Reads data sent back from server in message_t and returns *)
(* a return code to check if server processsing was successful": what a    *)
(* call returned is the answer to it.                                      *)
OwnAnswer ==
    \A c \in Clients : pc[c] = "idle" => answer[c] \in {0, call[c]}
=============================================================================
