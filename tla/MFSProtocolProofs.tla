-------------------------- MODULE MFSProtocolProofs --------------------------
(***************************************************************************)
(* Theorems about the calls of the client library, for any number of       *)
(* clients, calls, shutdowns and faults.                                   *)
(***************************************************************************)
EXTENDS MFSProtocol, TLAPS, FiniteSetTheorems, WellFoundedInduction

(***************************************************************************)
(* Typing.                                                                 *)
(***************************************************************************)

(* Datagrams are counted by numbers, also after one more or one less.      *)
LEMMA DatagramsCounted ==
    ASSUME NEW datagrams \in [Clients -> [Calls -> Nat]],
           NEW c \in Clients, NEW n \in Calls
    PROVE  /\ OneMore(datagrams, c, n) \in [Clients -> [Calls -> Nat]]
           /\ datagrams[c][n] > 0 =>
                OneLess(datagrams, c, n) \in [Clients -> [Calls -> Nat]]
  BY DEF OneMore, OneLess

(* A loss leaves no more datagrams of any call than there were.            *)
LEMMA OneLost ==
    ASSUME requests \in [Clients -> [Calls -> Nat]],
           replies \in [Clients -> [Calls -> Nat]], Lose
    PROVE  /\ requests' \in [Clients -> [Calls -> Nat]]
           /\ replies' \in [Clients -> [Calls -> Nat]]
           /\ \A d \in Clients, k \in Calls : /\ requests'[d][k] <= requests[d][k]
                                            /\ replies'[d][k] <= replies[d][k]
<1> DEFINE Fewer(new, old) ==
        /\ new \in [Clients -> [Calls -> Nat]]
        /\ \A d \in Clients, k \in Calls : new[d][k] <= old[d][k]
<1>1. Fewer(requests, requests) /\ Fewer(replies, replies)
  OBVIOUS
<1>2. ASSUME NEW old \in [Clients -> [Calls -> Nat]],
             NEW c \in Clients, NEW n \in Calls, old[c][n] > 0
      PROVE  Fewer(OneLess(old, c, n), old)
  <2>1. OneLess(old, c, n) \in [Clients -> [Calls -> Nat]]
    BY <1>2, DatagramsCounted
  <2>2. ASSUME NEW d \in Clients, NEW k \in Calls
        PROVE  OneLess(old, c, n)[d][k] <= old[d][k]
    BY <1>2, <2>1 DEF OneLess
  <2> QED
    BY <2>1, <2>2
<1>3. \/ UNCHANGED <<requests, replies>>
      \/ \E c \in Clients, n \in Calls :
           requests[c][n] > 0 /\ requests' = OneLess(requests, c, n) /\ UNCHANGED replies
      \/ \E c \in Clients, n \in Calls :
           replies[c][n] > 0 /\ replies' = OneLess(replies, c, n) /\ UNCHANGED requests
  BY DEF Lose
<1> HIDE DEF Fewer
<1>4. Fewer(requests', requests) /\ Fewer(replies', replies)
  BY <1>1, <1>2, <1>3
<1> QED
  BY <1>4 DEF Fewer

(* Every step of a client, of the server and of the network keeps the      *)
(* types.                                                                  *)
LEMMA TypeStep == TypeOK /\ [Next]_vars => TypeOK'
<1> SUFFICES ASSUME TypeOK, [Next]_vars PROVE TypeOK'
  OBVIOUS
<1> USE BoundsAssumption
<1>1. ASSUME NEW c \in Clients, Send(c) PROVE TypeOK'
  <2>1. call[c] + 1 \in Calls
    BY <1>1 DEF Send, TypeOK, Calls
  <2>2. requests' \in [Clients -> [Calls -> Nat]]
    BY <1>1, <2>1, DatagramsCounted DEF Send, TypeOK
  <2>3. /\ call' \in [Clients -> 0 .. MaxCalls]
        /\ pc' \in [Clients -> {"idle", "waiting"}]
    BY <1>1, <2>1 DEF Send, TypeOK, Calls
  <2>4. UNCHANGED <<mode, answer, giveUps, effects, replies, shutdowns, lost, dups>>
    BY <1>1 DEF Send, server
  <2> QED
    BY <2>2, <2>3, <2>4 DEF TypeOK
<1>2. ASSUME NEW c \in Clients, NEW n \in Calls, Receive(c, n) PROVE TypeOK'
  <2>1. replies' \in [Clients -> [Calls -> Nat]]
    BY <1>2, DatagramsCounted DEF Receive, TypeOK
  <2>2. /\ answer' \in [Clients -> 0 .. MaxCalls]
        /\ pc' \in [Clients -> {"idle", "waiting"}]
    BY <1>2 DEF Receive, TypeOK, Calls
  <2>3. UNCHANGED <<mode, call, giveUps, effects, requests, shutdowns, lost, dups>>
    BY <1>2 DEF Receive, server
  <2> QED
    BY <2>1, <2>2, <2>3 DEF TypeOK
<1>3. ASSUME NEW c \in Clients, GiveUp(c) PROVE TypeOK'
  BY <1>3 DEF GiveUp, TypeOK, server, network
<1>4. ASSUME NEW c \in Clients, AskShutdown(c) PROVE TypeOK'
  BY <1>4 DEF AskShutdown, TypeOK, server, clients
<1>5. ASSUME NEW c \in Clients, NEW n \in Calls, Serve(c, n) PROVE TypeOK'
  <2>1. /\ requests' \in [Clients -> [Calls -> Nat]]
        /\ replies' \in [Clients -> [Calls -> Nat]]
    BY <1>5, DatagramsCounted DEF Serve, TypeOK
  <2>2. effects' \in [Clients -> Nat]
    BY <1>5 DEF Serve, TypeOK
  <2>3. UNCHANGED <<mode, pc, call, answer, giveUps, shutdowns, lost, dups>>
    BY <1>5 DEF Serve, server, clients
  <2> QED
    BY <2>1, <2>2, <2>3 DEF TypeOK
<1>6. CASE ServeShutdown
  BY <1>6 DEF ServeShutdown, TypeOK, clients
<1>7. CASE Interrupt \/ Start
  BY <1>7 DEF Interrupt, Start, TypeOK, clients, network
<1>8. CASE Lose
  <2>1. /\ requests' \in [Clients -> [Calls -> Nat]]
        /\ replies' \in [Clients -> [Calls -> Nat]]
    BY <1>8, OneLost DEF TypeOK
  <2>2. shutdowns' \in 0 .. MaxShutdowns /\ lost' \in BOOLEAN
    <3>1. lost' = TRUE \/ lost' = lost
      BY <1>8 DEF Lose
    <3>2. shutdowns' = shutdowns \/ (shutdowns > 0 /\ shutdowns' = shutdowns - 1)
      BY <1>8 DEF Lose
    <3>3. lost' \in BOOLEAN
      BY <3>1, Zenon DEF TypeOK
    <3>4. shutdowns' \in 0 .. MaxShutdowns
      BY <3>2 DEF TypeOK
    <3> QED
      BY <3>3, <3>4
  <2>3. UNCHANGED <<mode, pc, call, answer, giveUps, effects, dups>>
    BY <1>8 DEF Lose, server, clients
  <2> QED
    BY <2>1, <2>2, <2>3 DEF TypeOK
<1>9. CASE Duplicate
  <2>1. /\ requests' \in [Clients -> [Calls -> Nat]]
        /\ replies' \in [Clients -> [Calls -> Nat]]
    <3>1. PICK c \in Clients, n \in Calls :
            \/ requests' = OneMore(requests, c, n) /\ UNCHANGED replies
            \/ replies' = OneMore(replies, c, n) /\ UNCHANGED requests
      BY <1>9 DEF Duplicate
    <3>2. /\ OneMore(requests, c, n) \in [Clients -> [Calls -> Nat]]
          /\ OneMore(replies, c, n) \in [Clients -> [Calls -> Nat]]
      BY DatagramsCounted DEF TypeOK
    <3> QED
      BY <3>1, <3>2 DEF TypeOK
  <2>2. dups' \in 0 .. MaxDups
    BY <1>9 DEF Duplicate, TypeOK
  <2>3. UNCHANGED <<mode, pc, call, answer, giveUps, effects, shutdowns, lost>>
    BY <1>9 DEF Duplicate, server, clients
  <2> QED
    BY <2>1, <2>2, <2>3 DEF TypeOK
<1>10. CASE UNCHANGED vars
  BY <1>10 DEF vars, server, clients, network, TypeOK
<1> QED
  BY <1>1, <1>2, <1>3, <1>4, <1>5, <1>6, <1>7, <1>8, <1>9, <1>10
     DEF Next, Answer, Round

(* The bookkeeping of calls and datagrams stays within its types: no       *)
(* datagram is taken that is not there.                                    *)
THEOREM ProtocolTypeCorrect == Spec => []TypeOK
<1>1. Init => TypeOK
  <2> SUFFICES ASSUME Init PROVE TypeOK
    OBVIOUS
  <2>1. 0 \in 0 .. MaxCalls /\ 0 \in 0 .. MaxShutdowns /\ 0 \in 0 .. MaxDups
        /\ 0 \in 0 .. MaxGiveUps
    BY BoundsAssumption
  <2> QED
    BY <2>1 DEF Init, TypeOK
<1> QED
  BY <1>1, TypeStep, PTL DEF Spec

-----------------------------------------------------------------------------
(***************************************************************************)
(* At most one datagram for each client.                                   *)
(***************************************************************************)

(* A client without faults: the server has acted for all of its calls, or  *)
(* for all but the one it waits in; a request is that call's and not yet   *)
(* acted for, a reply is that call's and acted for.                        *)
InStep(c) ==
    /\ effects[c] = call[c] \/ (pc[c] = "waiting" /\ effects[c] = call[c] - 1)
    /\ \A n \in Calls :
         /\ requests[c][n] > 0 =>
              /\ pc[c] = "waiting" /\ n = call[c] /\ requests[c][n] = 1
              /\ replies[c][n] = 0
              /\ effects[c] = call[c] - 1
         /\ replies[c][n] > 0 =>
              /\ pc[c] = "waiting" /\ n = call[c] /\ replies[c][n] = 1
              /\ effects[c] = call[c]

(* OneOutstanding says nothing of a client that waits with nothing in       *)
(* flight, so that it is not inductive; this is.                           *)
AllInStep == dups = 0 /\ giveUps = 0 => \A c \in Clients : InStep(c)

(* A step that touches nothing of a client keeps it in step.               *)
LEMMA UntouchedInStep ==
    ASSUME NEW c \in Clients, InStep(c),
           pc'[c] = pc[c], call'[c] = call[c], effects'[c] = effects[c],
           requests'[c] = requests[c], replies'[c] = replies[c]
    PROVE  InStep(c)'
  BY DEF InStep

(* The first datagram of a call is its only one, since an idle client has  *)
(* none.                                                                   *)
LEMMA SendInStep ==
    ASSUME TypeOK, NEW c \in Clients, Send(c), \A d \in Clients : InStep(d)
    PROVE  \A d \in Clients : InStep(d)'
<1> SUFFICES ASSUME NEW d \in Clients PROVE InStep(d)'
  OBVIOUS
<1> USE BoundsAssumption
<1>1. CASE d # c
  BY <1>1, UntouchedInStep DEF Send, OneMore, TypeOK
<1>2. CASE d = c
  <2>1. \A n \in Calls : requests[c][n] = 0 /\ replies[c][n] = 0
    BY DEF Send, InStep, TypeOK
  <2>2. /\ effects[c] = call[c] /\ effects' = effects
        /\ call'[c] = call[c] + 1 /\ pc'[c] = "waiting"
    BY DEF Send, InStep, TypeOK
  <2>3. call[c] + 1 \in Calls
    <3>1. call[c] \in 0 .. MaxCalls /\ call[c] < MaxCalls
      BY DEF Send, TypeOK
    <3> QED
      BY <3>1 DEF Calls
  <2>4. \A n \in Calls : /\ requests'[c][n] = IF n = call[c] + 1 THEN 1 ELSE 0
                         /\ replies'[c][n] = 0
    BY <2>1, <2>3 DEF Send, OneMore, TypeOK
  <2>5. call'[c] \in Nat /\ effects'[c] = call'[c] - 1
    <3>1. call[c] \in Nat
      BY DEF TypeOK
    <3> QED
      BY <2>2, <3>1
  <2>6. \A n \in Calls : requests'[c][n] > 0 => n = call'[c] /\ requests'[c][n] = 1
    BY <2>2, <2>4
  <2>7. \A n \in Calls : ~(replies'[c][n] > 0)
    BY <2>4
  <2> QED
    BY <1>2, <2>2, <2>4, <2>5, <2>6, <2>7 DEF InStep
<1> QED
  BY <1>1, <1>2

(* The reply that ends a wait was the last datagram of the client.         *)
LEMMA ReceiveInStep ==
    ASSUME TypeOK, NEW c \in Clients, NEW n \in Calls, Receive(c, n),
           \A d \in Clients : InStep(d)
    PROVE  \A d \in Clients : InStep(d)'
<1> SUFFICES ASSUME NEW d \in Clients PROVE InStep(d)'
  OBVIOUS
<1>1. CASE d # c
  BY <1>1, UntouchedInStep DEF Receive, OneLess, TypeOK
<1>2. CASE d = c
  <2>1. n = call[c] /\ replies[c][n] = 1 /\ effects[c] = call[c]
    BY DEF Receive, InStep
  <2>2. \A k \in Calls : requests[c][k] = 0 /\ (k # n => replies[c][k] = 0)
    BY <2>1 DEF InStep, TypeOK
  <2>3. \A k \in Calls : requests'[c][k] = 0 /\ replies'[c][k] = 0
    BY <2>1, <2>2 DEF Receive, OneLess, TypeOK
  <2> QED
    BY <1>2, <2>1, <2>3 DEF Receive, InStep, TypeOK
<1> QED
  BY <1>1, <1>2

(* A round turns the request of a call into its reply and its effect.      *)
LEMMA ServeInStep ==
    ASSUME TypeOK, NEW c \in Clients, NEW n \in Calls, Serve(c, n),
           \A d \in Clients : InStep(d)
    PROVE  \A d \in Clients : InStep(d)'
<1> SUFFICES ASSUME NEW d \in Clients PROVE InStep(d)'
  OBVIOUS
<1>1. CASE d # c
  BY <1>1, UntouchedInStep DEF Serve, OneMore, OneLess, TypeOK, clients
<1>2. CASE d = c
  <2>1. /\ pc[c] = "waiting" /\ n = call[c] /\ requests[c][n] = 1
        /\ replies[c][n] = 0 /\ effects[c] = call[c] - 1
    BY DEF Serve, InStep
  <2>2. \A k \in Calls : k # n => requests[c][k] = 0 /\ replies[c][k] = 0
    BY <2>1 DEF InStep, TypeOK
  <2>3. \A k \in Calls : /\ requests'[c][k] = 0
                         /\ replies'[c][k] = IF k = n THEN 1 ELSE 0
    BY <2>1, <2>2 DEF Serve, OneMore, OneLess, TypeOK
  <2>4. effects'[c] = call[c] /\ pc' = pc /\ call' = call
    BY <2>1 DEF Serve, TypeOK, clients
  <2> QED
    BY <1>2, <2>1, <2>3, <2>4 DEF InStep, TypeOK
<1> QED
  BY <1>1, <1>2

(* A client whose only datagram is lost waits on, with nothing in flight.  *)
LEMMA LoseInStep ==
    ASSUME TypeOK, Lose, \A d \in Clients : InStep(d)
    PROVE  \A d \in Clients : InStep(d)'
<1> SUFFICES ASSUME NEW d \in Clients PROVE InStep(d)'
  OBVIOUS
<1>1. \A k \in Calls : /\ requests'[d][k] \in Nat /\ requests'[d][k] <= requests[d][k]
                       /\ replies'[d][k] \in Nat /\ replies'[d][k] <= replies[d][k]
  BY OneLost DEF TypeOK
<1>2. pc' = pc /\ call' = call /\ effects' = effects
  BY DEF Lose, clients
<1> QED
  BY <1>1, <1>2 DEF InStep, TypeOK

(* Faults do not come undone, and every step without one keeps each client *)
(* in step.                                                                *)
LEMMA StepInStep == TypeOK /\ AllInStep /\ [Next]_vars => AllInStep'
<1> SUFFICES ASSUME TypeOK, AllInStep, [Next]_vars, dups' = 0, giveUps' = 0
             PROVE  \A d \in Clients : InStep(d)'
  BY DEF AllInStep
<1> USE BoundsAssumption
<1>1. ASSUME NEW c \in Clients, Send(c) PROVE \A d \in Clients : InStep(d)'
  BY <1>1, SendInStep DEF AllInStep, Send
<1>2. ASSUME NEW c \in Clients, NEW n \in Calls, Receive(c, n)
      PROVE  \A d \in Clients : InStep(d)'
  BY <1>2, ReceiveInStep DEF AllInStep, Receive
<1>3. ASSUME NEW c \in Clients, GiveUp(c) PROVE FALSE
  BY <1>3 DEF GiveUp, TypeOK
<1>4. ASSUME NEW c \in Clients, AskShutdown(c) PROVE \A d \in Clients : InStep(d)'
  BY <1>4, UntouchedInStep DEF AskShutdown, AllInStep, clients
<1>5. ASSUME NEW c \in Clients, NEW n \in Calls, Serve(c, n)
      PROVE  \A d \in Clients : InStep(d)'
  BY <1>5, ServeInStep DEF AllInStep, Serve, clients
<1>6. CASE ServeShutdown
  BY <1>6, UntouchedInStep DEF ServeShutdown, AllInStep, clients
<1>7. CASE Interrupt \/ Start
  BY <1>7, UntouchedInStep DEF Interrupt, Start, AllInStep, clients, network
<1>8. CASE Lose
  BY <1>8, LoseInStep DEF AllInStep, Lose, clients
<1>9. ASSUME Duplicate PROVE FALSE
  BY <1>9 DEF Duplicate, TypeOK
<1>10. CASE UNCHANGED vars
  BY <1>10, UntouchedInStep DEF AllInStep, vars, clients, network
<1> QED
  BY <1>1, <1>2, <1>3, <1>4, <1>5, <1>6, <1>7, <1>8, <1>9, <1>10
     DEF Next, Answer, Round

(* Clients start in step and stay so.                                      *)
LEMMA StaysInStep == Spec => []AllInStep
<1>1. Init => AllInStep
  BY DEF Init, AllInStep, InStep, Calls
<1> QED
  BY <1>1, StepInStep, ProtocolTypeCorrect, PTL DEF Spec

(* libmfs.c sends a request only when nothing of an earlier call is left:  *)
(* without duplicates and given-up waits a client has at most one datagram *)
(* in flight and an idle one none, with any losses and restarts.           *)
THEOREM AtMostOneOutstanding == Spec => []OneOutstanding
<1>1. AllInStep => OneOutstanding
  BY DEF AllInStep, InStep, OneOutstanding
<1> QED
  BY <1>1, StaysInStep, PTL

-----------------------------------------------------------------------------
(***************************************************************************)
(* How many datagrams of all calls there are.  SumFunction folds the       *)
(* counts in an order that CHOOSE fixes; it is the same for any counts.    *)
(***************************************************************************)

(* Sets of calls, by size; the call that is counted first.                 *)
UpTo(n)  == {s \in SUBSET Calls : Cardinality(s) <= n}
First(s) == CHOOSE k \in s : TRUE

(* sum is the table of the counts' sums over the sets in T.                *)
SumsOf(count, sum, T) ==
    sum = [s \in T |-> IF s = {} THEN 0 ELSE count[First(s)] + sum[s \ {First(s)}]]

LEMMA SetsOfCalls ==
    /\ \A s \in SUBSET Calls : IsFiniteSet(s) /\ Cardinality(s) \in Nat
    /\ \A s \in SUBSET Calls : s # {} =>
         /\ First(s) \in s /\ First(s) \in Calls /\ s \ {First(s)} \in SUBSET Calls
         /\ Cardinality(s) = Cardinality(s \ {First(s)}) + 1
<1>1. IsFiniteSet(Calls)
  BY BoundsAssumption, FS_Interval DEF Calls
<1>2. ASSUME NEW s \in SUBSET Calls PROVE IsFiniteSet(s) /\ Cardinality(s) \in Nat
  BY <1>1, FS_Subset, FS_CardinalityType
<1>3. ASSUME NEW s \in SUBSET Calls, s # {}
      PROVE  /\ First(s) \in s /\ First(s) \in Calls /\ s \ {First(s)} \in SUBSET Calls
             /\ Cardinality(s) = Cardinality(s \ {First(s)}) + 1
  <2>1. First(s) \in s
    BY <1>3 DEF First
  <2>2. Cardinality(s \ {First(s)}) = Cardinality(s) - 1
    BY <1>2, <2>1, FS_RemoveElement
  <2> QED
    BY <1>2, <2>1, <2>2
<1> QED
  BY <1>2, <1>3

(* Among sets of calls there is a smallest one.                            *)
LEMMA SmallestSet ==
    ASSUME NEW B, B \subseteq SUBSET Calls, B # {}
    PROVE  \E s \in B : \A t \in B : ~(Cardinality(t) < Cardinality(s))
<1> DEFINE sizes == {Cardinality(s) : s \in B}
<1>1. sizes \in SUBSET Nat /\ sizes # {}
  BY SetsOfCalls
<1>2. PICK x \in sizes : \A y \in sizes : ~(<<y, x>> \in OpToRel(<, Nat))
  <2> HIDE DEF sizes
  <2> QED
    BY <1>1, NatLessThanWellFounded, WFMin
<1>3. \A y \in sizes : <<y, x>> \in OpToRel(<, Nat) <=> y < x
  BY <1>1, Zenon DEF OpToRel
<1>4. \A y \in sizes : ~(y < x)
  BY <1>2, <1>3, Zenon
<1> QED
  BY <1>4

(* The table that SumFunction looks its result up in exists.               *)
LEMMA SumsExist ==
    ASSUME NEW count \in [Calls -> Nat]
    PROVE  \E sum : SumsOf(count, sum, SUBSET Calls)
<1> DEFINE Some(n) == \E sum : SumsOf(count, sum, UpTo(n))
           none == {n \in Nat : ~Some(n)}
<1>1. Some(0)
  <2> DEFINE sum == [s \in UpTo(0) |-> 0]
  <2>1. \A s \in UpTo(0) : s = {}
    BY SetsOfCalls, FS_EmptySet DEF UpTo
  <2>2. SumsOf(count, sum, UpTo(0))
    BY <2>1 DEF SumsOf
  <2> QED
    BY <2>2
<1>2. ASSUME NEW n \in Nat, Some(n) PROVE Some(n + 1)
  <2>1. PICK less : SumsOf(count, less, UpTo(n))
    BY <1>2
  <2> DEFINE sum == [s \in UpTo(n + 1) |-> IF s = {} THEN 0
                        ELSE count[First(s)] + less[s \ {First(s)}]]
  <2>2. ASSUME NEW s \in UpTo(n + 1), s # {}
        PROVE  sum[s \ {First(s)}] = less[s \ {First(s)}]
    <3> DEFINE t == s \ {First(s)}
    <3>1. t \in UpTo(n) /\ t \in UpTo(n + 1)
      BY <2>2, SetsOfCalls DEF UpTo
    <3>2. sum[t] = IF t = {} THEN 0 ELSE count[First(t)] + less[t \ {First(t)}]
      BY <3>1
    <3>3. less[t] = IF t = {} THEN 0 ELSE count[First(t)] + less[t \ {First(t)}]
      BY <2>1, <3>1 DEF SumsOf
    <3> QED
      BY <3>2, <3>3
  <2>3. sum = [s \in UpTo(n + 1) |-> IF s = {} THEN 0
                  ELSE count[First(s)] + sum[s \ {First(s)}]]
    <3> DEFINE next == [s \in UpTo(n + 1) |-> IF s = {} THEN 0
                           ELSE count[First(s)] + sum[s \ {First(s)}]]
    <3>1. \A s \in UpTo(n + 1) : sum[s] = next[s]
      BY <2>2
    <3> QED
      BY <3>1
  <2> QED
    BY <2>3 DEF SumsOf
<1>3. none = {}
  <2> SUFFICES ASSUME none # {} PROVE FALSE
    OBVIOUS
  <2>1. PICK x \in none : \A y \in none : ~(<<y, x>> \in OpToRel(<, Nat))
    BY NatLessThanWellFounded, WFMin
  <2>2. \A y \in none : <<y, x>> \in OpToRel(<, Nat) <=> y < x
    BY Zenon DEF OpToRel
  <2>3. \A y \in none : ~(y < x)
    BY <2>1, <2>2, Zenon
  <2> HIDE DEF Some
  <2>4. x # 0
    BY <1>1
  <2>5. x - 1 \in Nat /\ x - 1 \notin none
    BY <2>3, <2>4
  <2>6. Some(x - 1 + 1)
    BY <1>2, <2>5
  <2> QED
    BY <2>6
<1>4. Cardinality(Calls) \in Nat /\ UpTo(Cardinality(Calls)) = SUBSET Calls
  BY SetsOfCalls, FS_Subset, FS_Interval, BoundsAssumption DEF UpTo, Calls
<1>5. Some(Cardinality(Calls))
  <2> HIDE DEF Some
  <2> QED
    BY <1>3, <1>4
<1> QED
  BY <1>4, <1>5

(* SumFunction is at the end of that table, which holds numbers only: a    *)
(* smallest set with another sum would have one by its own equation.       *)
LEMMA SumsAt ==
    ASSUME NEW count \in [Calls -> Nat]
    PROVE  \E sum : /\ SumsOf(count, sum, SUBSET Calls)
                    /\ SumFunction(count) = sum[Calls]
                    /\ \A s \in SUBSET Calls : sum[s] \in Nat
<1> DEFINE sum == CHOOSE g : SumsOf(count, g, SUBSET Calls)
<1>1. SumsOf(count, sum, SUBSET Calls)
  BY SumsExist
<1>2. SumFunction(count) = sum[Calls]
  <2>1. SumFunction(count) =
          (CHOOSE g : g = [s \in SUBSET DOMAIN count |->
                             IF s = {} THEN 0 ELSE count[CHOOSE k \in s : TRUE]
                                                   + g[s \ {CHOOSE k \in s : TRUE}]])[DOMAIN count]
    BY DEF SumFunction, SumFunctionOnSet, FoldFunctionOnSet, MapThenFoldSet
  <2>2. DOMAIN count = Calls
    OBVIOUS
  <2> QED
    BY <2>1, <2>2 DEF SumsOf, First
<1> HIDE DEF sum
<1>3. \A s \in SUBSET Calls : sum[s] \in Nat
  <2> DEFINE B == {s \in SUBSET Calls : sum[s] \notin Nat}
  <2> SUFFICES ASSUME B # {} PROVE FALSE
    OBVIOUS
  <2>1. PICK s \in B : \A t \in B : ~(Cardinality(t) < Cardinality(s))
    BY SmallestSet
  <2>2. sum[s] = IF s = {} THEN 0 ELSE count[First(s)] + sum[s \ {First(s)}]
    BY <1>1 DEF SumsOf
  <2>3. s # {}
    BY <2>2
  <2>4. s \ {First(s)} \in SUBSET Calls /\ s \ {First(s)} \notin B /\ First(s) \in Calls
    BY <2>1, <2>3, SetsOfCalls
  <2>5. sum[s \ {First(s)}] \in Nat
    BY <2>4
  <2> QED
    BY <2>2, <2>3, <2>4, <2>5
<1> QED
  BY <1>1, <1>2, <1>3

(* One datagram more of one call is one more in all, whatever the order    *)
(* they are counted in.                                                    *)
LEMMA OneMoreInAll ==
    ASSUME NEW count \in [Calls -> Nat], NEW more \in [Calls -> Nat], NEW n \in Calls,
           more[n] = count[n] + 1, \A k \in Calls : k # n => more[k] = count[k]
    PROVE  SumFunction(more) = SumFunction(count) + 1
<1>1. PICK sum : /\ SumsOf(count, sum, SUBSET Calls)
                 /\ SumFunction(count) = sum[Calls]
                 /\ \A s \in SUBSET Calls : sum[s] \in Nat
  BY SumsAt
<1>2. PICK high : /\ SumsOf(more, high, SUBSET Calls)
                  /\ SumFunction(more) = high[Calls]
                  /\ \A s \in SUBSET Calls : high[s] \in Nat
  BY SumsAt
<1> DEFINE Follows(s) == high[s] = sum[s] + (IF n \in s THEN 1 ELSE 0)
<1>3. \A s \in SUBSET Calls : Follows(s)
  <2> DEFINE B == {s \in SUBSET Calls : ~Follows(s)}
  <2> SUFFICES ASSUME B # {} PROVE FALSE
    OBVIOUS
  <2>1. PICK s \in B : \A t \in B : ~(Cardinality(t) < Cardinality(s))
    BY SmallestSet
  <2> DEFINE k == First(s)
             t == s \ {k}
  <2>2. /\ sum[s] = IF s = {} THEN 0 ELSE count[k] + sum[t]
        /\ high[s] = IF s = {} THEN 0 ELSE more[k] + high[t]
    BY <1>1, <1>2 DEF SumsOf
  <2>3. s # {}
    BY <2>2
  <2>4. t \in SUBSET Calls /\ t \notin B /\ k \in s /\ k \in Calls
    BY <2>1, <2>3, SetsOfCalls
  <2> HIDE DEF k
  <2>5. sum[t] \in Nat /\ count[k] \in Nat /\ Follows(t)
    BY <1>1, <2>4
  <2>6. more[k] = count[k] + (IF k = n THEN 1 ELSE 0)
    BY <2>4
  <2>7. n \in s <=> n \in t \/ k = n
    BY <2>4
  <2>8. n \in t => k # n
    OBVIOUS
  <2>9. Follows(s)
    <3> HIDE DEF t
    <3> QED
      BY <2>2, <2>3, <2>5, <2>6, <2>7, <2>8
  <2> QED
    BY <2>9
<1> QED
  BY <1>1, <1>2, <1>3

(* Nothing in flight sums up to nothing.                                   *)
LEMMA NoneInAll ==
    ASSUME NEW count \in [Calls -> Nat], \A k \in Calls : count[k] = 0
    PROVE  SumFunction(count) = 0
<1>1. PICK sum : /\ SumsOf(count, sum, SUBSET Calls)
                 /\ SumFunction(count) = sum[Calls]
                 /\ \A s \in SUBSET Calls : sum[s] \in Nat
  BY SumsAt
<1> DEFINE B == {s \in SUBSET Calls : sum[s] # 0}
<1>2. ASSUME B # {} PROVE FALSE
  <2>1. PICK s \in B : \A t \in B : ~(Cardinality(t) < Cardinality(s))
    BY <1>2, SmallestSet
  <2>2. sum[s] = IF s = {} THEN 0 ELSE count[First(s)] + sum[s \ {First(s)}]
    BY <1>1 DEF SumsOf
  <2>3. s # {}
    BY <2>2
  <2>4. s \ {First(s)} \in SUBSET Calls /\ s \ {First(s)} \notin B /\ First(s) \in Calls
    BY <2>1, <2>3, SetsOfCalls
  <2> QED
    BY <2>2, <2>3, <2>4
<1> QED
  BY <1>1, <1>2

LEMMA SumsOfClient ==
    ASSUME NEW datagrams \in [Clients -> [Calls -> Nat]], NEW c \in Clients
    PROVE  SumFunction(datagrams[c]) \in Nat
BY SumsAt

(* OneMore and OneLess change the sum of their client by one, and no other. *)
LEMMA SumsCounted ==
    ASSUME NEW datagrams \in [Clients -> [Calls -> Nat]],
           NEW c \in Clients, NEW n \in Calls
    PROVE  /\ \A d \in Clients : SumFunction(OneMore(datagrams, c, n)[d])
                = SumFunction(datagrams[d]) + (IF d = c THEN 1 ELSE 0)
           /\ datagrams[c][n] > 0 =>
                \A d \in Clients :
                  /\ SumFunction(OneLess(datagrams, c, n)[d]) \in Nat
                  /\ SumFunction(datagrams[d])
                       = SumFunction(OneLess(datagrams, c, n)[d]) + (IF d = c THEN 1 ELSE 0)
<1>1. ASSUME NEW count \in [Calls -> Nat] PROVE SumFunction(count) \in Nat
  BY SumsAt
<1>2. ASSUME NEW d \in Clients
      PROVE  SumFunction(OneMore(datagrams, c, n)[d])
               = SumFunction(datagrams[d]) + (IF d = c THEN 1 ELSE 0)
  <2>1. CASE d = c
    <3>1. OneMore(datagrams, c, n)[c] = [datagrams[c] EXCEPT ![n] = @ + 1]
      BY DEF OneMore
    <3> QED
      BY <2>1, <3>1, OneMoreInAll
  <2>2. CASE d # c
    <3>1. OneMore(datagrams, c, n)[d] = datagrams[d]
      BY <2>2 DEF OneMore
    <3> QED
      BY <1>1, <2>2, <3>1
  <2> QED
    BY <2>1, <2>2
<1>3. ASSUME NEW d \in Clients, datagrams[c][n] > 0
      PROVE  SumFunction(datagrams[d])
               = SumFunction(OneLess(datagrams, c, n)[d]) + (IF d = c THEN 1 ELSE 0)
  <2>1. CASE d = c
    <3> DEFINE less == [datagrams[c] EXCEPT ![n] = @ - 1]
    <3>1. OneLess(datagrams, c, n)[c] = less
      BY DEF OneLess
    <3>2. less \in [Calls -> Nat] /\ datagrams[c][n] = less[n] + 1
          /\ \A k \in Calls : k # n => datagrams[c][k] = less[k]
      BY <1>3
    <3> HIDE DEF less
    <3> QED
      BY <2>1, <3>1, <3>2, OneMoreInAll
  <2>2. CASE d # c
    <3>1. OneLess(datagrams, c, n)[d] = datagrams[d]
      BY <2>2 DEF OneLess
    <3> QED
      BY <1>1, <2>2, <3>1
  <2> QED
    BY <2>1, <2>2
<1>4. ASSUME NEW d \in Clients, datagrams[c][n] > 0
      PROVE  SumFunction(OneLess(datagrams, c, n)[d]) \in Nat
  BY <1>4, DatagramsCounted, SumsOfClient
<1> QED
  BY <1>2, <1>3, <1>4
-----------------------------------------------------------------------------
(***************************************************************************)
(* Datagrams beyond the one that a call is about.                          *)
(***************************************************************************)

(* A datagram goes from the requests to the replies of its client and adds *)
(* one effect on the way; only Send, which takes an idle client, and the   *)
(* two faults add one.                                                     *)
LEMMA StepKeepsSurplus == TypeOK /\ SurplusFromFaults /\ [Next]_vars => SurplusFromFaults'
<1> SUFFICES ASSUME TypeOK, SurplusFromFaults, [Next]_vars, NEW d \in Clients
             PROVE  /\ InFlight(d)' <= (IF pc'[d] = "waiting" THEN 1 ELSE 0) + dups' + giveUps'
                    /\ effects'[d] + SumFunction(requests'[d]) <= call'[d] + dups'
  BY DEF SurplusFromFaults
<1> DEFINE out(reqs, reps, calling, acts, asked, dup, gave) ==
             /\ SumFunction(reqs[d]) + SumFunction(reps[d])
                  <= (IF calling[d] = "waiting" THEN 1 ELSE 0) + dup + gave
             /\ acts[d] + SumFunction(reqs[d]) <= asked[d] + dup
           held == out(requests', replies', pc', effects', call', dups', giveUps')
<1>1. /\ SumFunction(requests[d]) \in Nat /\ SumFunction(replies[d]) \in Nat
      /\ call[d] \in Nat /\ effects[d] \in Nat /\ dups \in Nat /\ giveUps \in Nat
      /\ pc[d] \in {"idle", "waiting"}
  BY SumsOfClient, BoundsAssumption DEF TypeOK
<1>2. out(requests, replies, pc, effects, call, dups, giveUps)
  BY DEF SurplusFromFaults, InFlight
<1>3. ASSUME NEW c \in Clients, Send(c) PROVE held
  <2>1. call[c] + 1 \in Calls
    <3>1. call[c] \in 0 .. MaxCalls
      BY DEF TypeOK
    <3>2. call[c] < MaxCalls
      BY ONLY <1>3 DEF Send
    <3> QED
      BY <3>1, <3>2, BoundsAssumption DEF Calls
  <2>2. SumFunction(requests'[d]) = SumFunction(requests[d]) + (IF d = c THEN 1 ELSE 0)
    BY <1>3, <2>1, SumsCounted DEF Send, TypeOK
  <2>3. /\ d = c => pc[d] = "idle" /\ pc'[d] = "waiting" /\ call'[d] = call[d] + 1
        /\ d # c => pc'[d] = pc[d] /\ call'[d] = call[d]
        /\ UNCHANGED <<replies, effects, dups, giveUps>>
    BY <1>3 DEF Send, TypeOK
  <2> QED
    BY <1>1, <1>2, <2>2, <2>3
<1>4. ASSUME NEW c \in Clients, NEW n \in Calls, Receive(c, n) PROVE held
  <2>1. SumFunction(replies[d]) = SumFunction(replies'[d]) + (IF d = c THEN 1 ELSE 0)
        /\ SumFunction(replies'[d]) \in Nat
    <3>1. replies \in [Clients -> [Calls -> Nat]] /\ replies[c][n] > 0
          /\ replies' = OneLess(replies, c, n)
      BY <1>4 DEF Receive, TypeOK
    <3> QED
      BY <3>1, SumsCounted
  <2>2. /\ d = c => pc[d] = "waiting" /\ pc'[d] = "idle"
        /\ d # c => pc'[d] = pc[d]
        /\ UNCHANGED <<requests, effects, call, dups, giveUps>>
    BY <1>4 DEF Receive, TypeOK
  <2> QED
    BY <1>1, <1>2, <2>1, <2>2
<1>5. ASSUME NEW c \in Clients, GiveUp(c) PROVE held
  <2>1. /\ pc'[d] \in {pc[d], "idle"} /\ giveUps' = giveUps + 1
        /\ UNCHANGED <<requests, replies, effects, call, dups>>
    BY <1>5 DEF GiveUp, TypeOK, network
  <2> QED
    BY <1>1, <1>2, <2>1
<1>6. ASSUME NEW c \in Clients, NEW n \in Calls, Serve(c, n) PROVE held
  <2>1. SumFunction(requests[d]) = SumFunction(requests'[d]) + (IF d = c THEN 1 ELSE 0)
        /\ SumFunction(requests'[d]) \in Nat
    <3>1. requests \in [Clients -> [Calls -> Nat]] /\ requests[c][n] > 0
          /\ requests' = OneLess(requests, c, n)
      BY <1>6 DEF Serve, TypeOK
    <3> QED
      BY <3>1, SumsCounted
  <2>2. SumFunction(replies'[d]) = SumFunction(replies[d]) + (IF d = c THEN 1 ELSE 0)
    BY <1>6, SumsCounted DEF Serve, TypeOK
  <2>3. /\ effects'[d] = effects[d] + (IF d = c THEN 1 ELSE 0)
        /\ UNCHANGED <<pc, call, dups, giveUps>>
    BY <1>1, <1>6 DEF Serve, TypeOK, clients
  <2> QED
    BY <1>1, <1>2, <2>1, <2>2, <2>3
<1>7. ASSUME Lose PROVE held
  <2>1. UNCHANGED <<pc, call, effects, dups, giveUps>>
    BY <1>7 DEF Lose, clients
  <2>2. ASSUME NEW old \in [Clients -> [Calls -> Nat]], NEW c \in Clients, NEW n \in Calls,
               old[c][n] > 0
        PROVE  /\ SumFunction(OneLess(old, c, n)[d]) \in Nat
               /\ SumFunction(OneLess(old, c, n)[d]) <= SumFunction(old[d])
    BY <1>1, <2>2, SumsCounted
  <2>3. /\ SumFunction(requests'[d]) \in Nat /\ SumFunction(replies'[d]) \in Nat
        /\ SumFunction(requests'[d]) <= SumFunction(requests[d])
        /\ SumFunction(replies'[d]) <= SumFunction(replies[d])
    <3>1. CASE UNCHANGED <<requests, replies>>
      BY <1>1, <3>1
    <3>2. ASSUME NEW c \in Clients, NEW n \in Calls, requests[c][n] > 0,
                 requests' = OneLess(requests, c, n), UNCHANGED replies
          PROVE  /\ SumFunction(requests'[d]) \in Nat /\ UNCHANGED replies
                 /\ SumFunction(requests'[d]) <= SumFunction(requests[d])
      BY <2>2, <3>2 DEF TypeOK
    <3>3. ASSUME NEW c \in Clients, NEW n \in Calls, replies[c][n] > 0,
                 replies' = OneLess(replies, c, n), UNCHANGED requests
          PROVE  /\ SumFunction(replies'[d]) \in Nat /\ UNCHANGED requests
                 /\ SumFunction(replies'[d]) <= SumFunction(replies[d])
      BY <2>2, <3>3 DEF TypeOK
    <3> QED
      BY <1>1, <1>7, <3>1, <3>2, <3>3 DEF Lose
  <2> QED
    BY <1>1, <1>2, <2>1, <2>3
<1>8. ASSUME Duplicate PROVE held
  <2>1. dups' = dups + 1 /\ UNCHANGED <<pc, call, effects, giveUps>>
    BY <1>8 DEF Duplicate, clients
  <2>2. PICK c \in Clients, n \in Calls :
          \/ requests' = OneMore(requests, c, n) /\ UNCHANGED replies
          \/ replies' = OneMore(replies, c, n) /\ UNCHANGED requests
    BY <1>8 DEF Duplicate
  <2>3. \/ /\ SumFunction(requests'[d]) = SumFunction(requests[d]) + (IF d = c THEN 1 ELSE 0)
           /\ UNCHANGED replies
        \/ /\ SumFunction(replies'[d]) = SumFunction(replies[d]) + (IF d = c THEN 1 ELSE 0)
           /\ UNCHANGED requests
    <3>1. /\ requests \in [Clients -> [Calls -> Nat]]
          /\ replies \in [Clients -> [Calls -> Nat]]
      BY DEF TypeOK
    <3>2. ASSUME NEW old \in [Clients -> [Calls -> Nat]]
          PROVE  SumFunction(OneMore(old, c, n)[d])
                   = SumFunction(old[d]) + (IF d = c THEN 1 ELSE 0)
      BY SumsCounted
    <3> QED
      BY ONLY <2>2, <3>1, <3>2
  <2> QED
    BY <1>1, <1>2, <2>1, <2>3
<1>9. ASSUME UNCHANGED <<pc, call, effects, requests, replies, dups, giveUps>> PROVE held
  BY <1>2, <1>9
<1>10. (\E c \in Clients : AskShutdown(c)) \/ ServeShutdown \/ Interrupt \/ Start \/ UNCHANGED vars
         => UNCHANGED <<pc, call, effects, requests, replies, dups, giveUps>>
  BY DEF AskShutdown, ServeShutdown, Interrupt, Start, vars, clients, network
<1>11. held
  <2> HIDE DEF held
  <2> QED
    BY <1>3, <1>4, <1>5, <1>6, <1>7, <1>8, <1>9, <1>10 DEF Next, Answer, Round
<1> QED
  BY <1>11 DEF InFlight

(* Whatever the network and the programs do, in any number of calls, the   *)
(* replies that could be taken for another call's answer, and the second   *)
(* runs of a handler, are no more than duplicates and given-up waits: the  *)
(* loops of libmfs.c and server.c add none of their own.                   *)
THEOREM SurplusComesFromFaults == Spec => []SurplusFromFaults
<1>1. Init => SurplusFromFaults
  <2> SUFFICES ASSUME Init, NEW c \in Clients
               PROVE  /\ InFlight(c) <= (IF pc[c] = "waiting" THEN 1 ELSE 0) + dups + giveUps
                      /\ effects[c] + SumFunction(requests[c]) <= call[c] + dups
    BY DEF SurplusFromFaults
  <2>1. SumFunction(requests[c]) = 0 /\ SumFunction(replies[c]) = 0
    BY NoneInAll DEF Init
  <2> QED
    BY <2>1 DEF Init, InFlight
<1> QED
  BY <1>1, StepKeepsSurplus, ProtocolTypeCorrect, PTL DEF Spec

-----------------------------------------------------------------------------
(***************************************************************************)
(* The library implements MFSCall.                                         *)
(***************************************************************************)

(* Each step of the protocol is, for the programs, a step of MFSCall or    *)
(* none: sending is asking, the server's round is the effect, receiving is *)
(* returning.                                                              *)
LEMMA StepImplementsCall ==
    TypeOK /\ (\A c \in Clients : InStep(c)) /\ [Next]_vars
        /\ dups' = dups /\ giveUps' = giveUps
      => [Library!Next]_(Library!vars)
<1> SUFFICES ASSUME TypeOK, \A c \in Clients : InStep(c), [Next]_vars,
                    dups' = dups, giveUps' = giveUps
             PROVE  [Library!Next]_(Library!vars)
  OBVIOUS
<1> USE BoundsAssumption
<1>1. ASSUME NEW c \in Clients, Send(c) PROVE Library!Ask(c)
  <2>1. effects[c] = call[c] /\ phaseBar[c] = "idle"
    BY <1>1 DEF Send, InStep, phaseBar
  <2>2. phaseBar' = [phaseBar EXCEPT ![c] = "asked"]
    <3>1. effects' = effects /\ call' = [call EXCEPT ![c] = @ + 1]
          /\ pc' = [pc EXCEPT ![c] = "waiting"]
      BY <1>1 DEF Send
    <3>2. effects[c] # call'[c] /\ \A d \in Clients : d # c => call'[d] = call[d]
      BY <2>1, <3>1 DEF TypeOK
    <3> QED
      BY <3>1, <3>2 DEF phaseBar, TypeOK
  <2> QED
    BY <1>1, <2>1, <2>2 DEF Send, Library!Ask
<1>2. ASSUME NEW c \in Clients, NEW n \in Calls, Receive(c, n)
      PROVE  Library!Return(c)
  <2>1. n = call[c] /\ effects[c] = call[c] /\ phaseBar[c] = "done"
    BY <1>2 DEF Receive, InStep, phaseBar
  <2>2. phaseBar' = [phaseBar EXCEPT ![c] = "idle"]
    BY <1>2 DEF Receive, phaseBar, TypeOK
  <2> QED
    BY <1>2, <2>1, <2>2 DEF Receive, Library!Return
<1>3. ASSUME NEW c \in Clients, NEW n \in Calls, Serve(c, n)
      PROVE  Library!Act(c)
  <2>1. pc[c] = "waiting" /\ effects[c] = call[c] - 1
    BY <1>3 DEF Serve, InStep
  <2>2. phaseBar[c] = "asked"
    BY <2>1 DEF phaseBar, TypeOK
  <2>3. phaseBar' = [phaseBar EXCEPT ![c] = "done"]
    <3>1. effects' = [effects EXCEPT ![c] = @ + 1] /\ UNCHANGED <<pc, call>>
      BY <1>3 DEF Serve, clients
    <3>2. effects'[c] = call[c] /\ \A d \in Clients : d # c => effects'[d] = effects[d]
      BY <2>1, <3>1 DEF TypeOK
    <3> QED
      BY <2>1, <3>1, <3>2 DEF phaseBar
  <2> QED
    BY <1>3, <2>2, <2>3 DEF Serve, clients, Library!Act
<1>4. ASSUME UNCHANGED <<pc, call, answer, effects>> PROVE UNCHANGED Library!vars
  BY <1>4 DEF phaseBar, Library!vars
<1>5. ASSUME NEW c \in Clients PROVE GiveUp(c) => FALSE
  BY DEF GiveUp, TypeOK
<1>6. Duplicate => FALSE
  BY DEF Duplicate, TypeOK
<1>7. ASSUME NEW c \in Clients, AskShutdown(c) PROVE UNCHANGED <<pc, call, answer, effects>>
  BY <1>7 DEF AskShutdown, clients
<1>8. ServeShutdown \/ Interrupt \/ Start \/ Lose \/ UNCHANGED vars
        => UNCHANGED <<pc, call, answer, effects>>
  BY DEF ServeShutdown, Interrupt, Start, Lose, vars, clients
<1> QED
  BY <1>1, <1>2, <1>3, <1>4, <1>5, <1>6, <1>7, <1>8
     DEF Next, Answer, Round, Library!Next

(* While there is no fault after a step there was none before it.          *)
LEMMA NoFaultBefore ==
    ASSUME TypeOK, [Next]_vars, dups' = 0, giveUps' = 0
    PROVE  dups = 0 /\ giveUps = 0
<1>1. dups \in Nat /\ giveUps \in Nat
  BY BoundsAssumption DEF TypeOK
<1>2. ASSUME NEW c \in Clients, Send(c) \/ AskShutdown(c) \/ GiveUp(c)
      PROVE  dups = 0 /\ giveUps = 0
  BY <1>1, <1>2 DEF Send, AskShutdown, GiveUp, network, clients
<1>3. ASSUME NEW c \in Clients, NEW n \in Calls, Receive(c, n) \/ Serve(c, n)
      PROVE  dups = 0 /\ giveUps = 0
  BY <1>3 DEF Receive, Serve, clients
<1>4. ServeShutdown \/ Interrupt \/ Start \/ Lose \/ Duplicate \/ UNCHANGED vars
        => dups = 0 /\ giveUps = 0
  BY <1>1 DEF ServeShutdown, Interrupt, Start, Lose, Duplicate, clients, network, vars
<1> QED
  BY <1>2, <1>3, <1>4 DEF Next, Answer, Round

(* Until the network first duplicates a datagram or a client first gives   *)
(* up waiting, every call of libmfs.c has one effect while it runs and     *)
(* returns its own answer, whatever is lost and however often the server   *)
(* is restarted.                                                           *)
THEOREM LibraryImplementsCalls == Spec => LibraryKeepsCalls
<1> DEFINE Step == Library!Next \/ dups' > 0 \/ giveUps' > 0
<1>1. Init => Library!Init
  BY DEF Init, phaseBar, Library!Init
<1>2. TypeOK /\ TypeOK' /\ AllInStep /\ [Next]_vars => [Step]_(Library!vars)
  <2> SUFFICES ASSUME TypeOK, TypeOK', AllInStep, [Next]_vars,
                      ~(dups' > 0), ~(giveUps' > 0)
               PROVE  [Library!Next]_(Library!vars)
    OBVIOUS
  <2>1. dups' = 0 /\ giveUps' = 0
    BY BoundsAssumption DEF TypeOK
  <2>2. dups = 0 /\ giveUps = 0
    BY <2>1, NoFaultBefore
  <2> QED
    BY <2>1, <2>2, StepImplementsCall DEF AllInStep
<1>3. Spec => Library!Init /\ [][Step]_(Library!vars)
  <2> HIDE DEF Step
  <2> QED
    BY <1>1, <1>2, ProtocolTypeCorrect, StaysInStep, PTL DEF Spec
<1> QED
  BY <1>3 DEF LibraryKeepsCalls
=============================================================================
