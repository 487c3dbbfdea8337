----------------------------- MODULE CubeProofs -----------------------------
(***************************************************************************)
(* What module Cube keeps for any number of lambdas, users and nodes, any  *)
(* TTL and any period of the sweep.                                        *)
(***************************************************************************)
EXTENDS Cube, TLAPS

Node == 0..(Nodes - 1)

LEMMA NextNodeIs ==
    ASSUME clientidx \in Node
    PROVE  /\ NextNode \in Node
           /\ NextNode = IF clientidx + 1 = Nodes THEN 0 ELSE clientidx + 1
<1>1. clientidx \in Nat /\ Nodes \in Nat /\ Nodes > 0 /\ clientidx + 1 <= Nodes
  BY CubeAssumption DEF Node
<1>2. CASE clientidx + 1 = Nodes
  <2>1. Nodes % Nodes = 0 BY <1>1
  <2>2. QED BY <1>1, <1>2, <2>1 DEF NextNode, Node
<1>3. CASE clientidx + 1 < Nodes
  <2>1. (clientidx + 1) % Nodes = clientidx + 1 BY <1>1, <1>3
  <2>2. QED BY <1>1, <1>3, <2>1 DEF NextNode, Node
<1>4. QED BY <1>1, <1>2, <1>3

\* A lambda stays launched.
LEMMA LaunchedStays ==
    ASSUME TypeOK, [Next]_vars
    PROVE  Launched \subseteq Launched'
<1> SUFFICES ASSUME NEW l \in Lambdas, lam[l].createdby # None PROVE lam'[l].createdby # None
  BY DEF Launched
<1>1. ASSUME NEW u \in Users, NEW k \in Lambdas, NEW keep \in BOOLEAN, Launch(u, k, keep)
      PROVE  lam'[l].createdby # None
  BY <1>1 DEF Launch, Launched, TypeOK
<1>2. ASSUME NEW u \in Users, NEW k \in Lambdas, Shutdown(u, k) PROVE lam'[l].createdby # None
  BY <1>2 DEF Shutdown
<1>3. ASSUME NEW k \in Lambdas, ContainerDies(k) PROVE lam'[l].createdby # None
  BY <1>3 DEF ContainerDies
<1>4. CASE Tick BY <1>4 DEF Tick, TypeOK
<1>5. CASE Sweep \/ Restart \/ UNCHANGED vars BY <1>5 DEF Sweep, Restart, vars
<1>6. QED BY <1>1, <1>2, <1>3, <1>4, <1>5 DEF Next

LEMMA InitTypeOK == Init => TypeOK
BY CubeAssumption DEF Init, TypeOK, Launched

LEMMA NextTypeOK == TypeOK /\ [Next]_vars => TypeOK'
<1> SUFFICES ASSUME TypeOK, [Next]_vars PROVE TypeOK' OBVIOUS
<1> Launched \subseteq Launched' BY LaunchedStays
<1> USE CubeAssumption DEF clock
<1>1. ASSUME NEW u \in Users, NEW l \in Lambdas, NEW keep \in BOOLEAN, Launch(u, l, keep)
      PROVE  TypeOK'
  <2>1. l \in Launched' BY <1>1 DEF Launch, TypeOK, Launched
  <2>2. /\ lmbservers' \subseteq Launched' /\ running' \subseteq Launched' /\ spared' \subseteq Launched'
    BY <1>1, <2>1 DEF Launch, TypeOK
  <2>3. clientidx' \in 0..(Nodes - 1)
    BY <1>1, NextNodeIs DEF Launch, TypeOK, Node
  <2>4. lam' \in [Lambdas -> [createdby : Users \cup {None}, forever : BOOLEAN, age : Nat]]
    BY <1>1 DEF Launch, TypeOK
  <2>5. attempts' \in [0..(Nodes - 1) -> Nat] BY <1>1 DEF Launch, TypeOK
  <2>6. QED BY <1>1, <2>2, <2>3, <2>4, <2>5 DEF Launch, TypeOK
<1>2. ASSUME NEW u \in Users, NEW l \in Lambdas, Shutdown(u, l) PROVE TypeOK'
  BY <1>2 DEF Shutdown, StopContainers, Found, TypeOK
<1>3. ASSUME NEW l \in Lambdas, ContainerDies(l) PROVE TypeOK'
  BY <1>3 DEF ContainerDies, TypeOK
<1>4. CASE Sweep
  BY <1>4 DEF Sweep, StopContainers, Expired, TypeOK
<1>5. CASE Tick
  <2>1. lam' \in [Lambdas -> [createdby : Users \cup {None}, forever : BOOLEAN, age : Nat]]
    <3> DEFINE Lam == [createdby : Users \cup {None}, forever : BOOLEAN, age : Nat]
    <3>1. \A l \in Lambdas : lam[l] \in Lam /\ [lam[l] EXCEPT !.age = @ + 1] \in Lam
      <4> SUFFICES ASSUME NEW l \in Lambdas PROVE lam[l] \in Lam /\ [lam[l] EXCEPT !.age = @ + 1] \in Lam
        OBVIOUS
      <4>1. lam[l] \in Lam BY DEF TypeOK
      <4>2. lam[l].age + 1 \in Nat BY <4>1
      <4>3. QED BY <4>1, <4>2
    <3>2. \A l \in Lambdas : (IF l \in lmbservers /\ lam[l].age <= TTL + SweepEvery
                                THEN [lam[l] EXCEPT !.age = @ + 1] ELSE lam[l]) \in Lam
      BY <3>1
    <3> HIDE DEF Lam
    <3>3. lam' \in [Lambdas -> Lam] BY <1>5, <3>2 DEF Tick
    <3>4. QED BY <3>3 DEF Lam
  <2>2. sinceSweep' \in 0..SweepEvery BY <1>5 DEF Tick, TypeOK
  <2>3. QED BY <1>5, <2>1, <2>2 DEF Tick, TypeOK
<1>6. CASE Restart
  BY <1>6 DEF Restart, TypeOK
<1>7. CASE UNCHANGED vars BY <1>7 DEF vars, TypeOK
<1>8. QED BY <1>1, <1>2, <1>3, <1>4, <1>5, <1>6, <1>7 DEF Next

\* Only lambdas that were launched are registered, run or were spared, and the
\* next lambda's node is one there is.
THEOREM TypeCorrect == Spec => []TypeOK
BY InitTypeOK, NextTypeOK, PTL DEF Spec

-----------------------------------------------------------------------------
(* Launches go round the nodes *)

\* The launches of a node in full rounds: those before clientidx have had their
\* turn in this one.
FullRounds(n) == IF n < clientidx THEN attempts[n] - 1 ELSE attempts[n]
IBalanced == \A n, m \in Node : FullRounds(n) = FullRounds(m)

LEMMA NextIBalanced == TypeOK /\ IBalanced /\ [Next]_vars => IBalanced'
<1> SUFFICES ASSUME TypeOK, IBalanced, [Next]_vars PROVE IBalanced' OBVIOUS
<1> USE CubeAssumption
<1>1. ASSUME NEW u \in Users, NEW l \in Lambdas, NEW keep \in BOOLEAN, Launch(u, l, keep)
      PROVE  IBalanced'
  <2>1. clientidx \in Node /\ \A n \in Node : n \in Nat /\ n < Nodes /\ attempts[n] \in Nat
    BY DEF TypeOK, Node
  <2>2. /\ attempts'[clientidx] = attempts[clientidx] + 1
        /\ \A n \in Node : n # clientidx => attempts'[n] = attempts[n]
    BY <1>1 DEF Launch, TypeOK, Node
  <2>3. clientidx' = IF clientidx + 1 = Nodes THEN 0 ELSE clientidx + 1
    BY <1>1, <2>1, NextNodeIs DEF Launch
  <2>4. CASE clientidx + 1 = Nodes
    \* The round is over: each node is one launch up.
    <3>1. \A n \in Node : FullRounds(n)' = FullRounds(n) + 1
      BY <2>1, <2>2, <2>3, <2>4 DEF FullRounds
    <3>2. QED BY <3>1 DEF IBalanced
  <2>5. CASE clientidx + 1 # Nodes
    <3>1. \A n \in Node : FullRounds(n)' = FullRounds(n)
      BY <2>1, <2>2, <2>3, <2>5 DEF FullRounds
    <3>2. QED BY <3>1 DEF IBalanced
  <2>6. QED BY <2>4, <2>5
<1>2. ASSUME UNCHANGED <<clientidx, attempts>> PROVE IBalanced'
  BY <1>2 DEF IBalanced, FullRounds
<1>3. CASE Restart
  BY <1>3 DEF Restart, IBalanced, FullRounds, Node
<1>4. CASE \E l \in Lambdas : ContainerDies(l) \/ \E u \in Users : Shutdown(u, l)
  BY <1>2, <1>4 DEF ContainerDies, Shutdown
<1>5. CASE Sweep \/ Tick \/ UNCHANGED vars
  BY <1>2, <1>5 DEF Sweep, Tick, vars
<1>6. QED BY <1>1, <1>3, <1>4, <1>5 DEF Next

\* However many nodes there are and whatever docker refuses, no node is tried
\* twice more than another: launchlambda moves on before the answer is known.
THEOREM LaunchesGoRound == Spec => []Balanced
<1>1. Init => IBalanced BY CubeAssumption DEF Init, IBalanced, FullRounds, Node
<1>2. TypeOK /\ IBalanced => Balanced
  <2> SUFFICES ASSUME TypeOK, IBalanced, NEW n \in Node, NEW m \in Node
               PROVE  attempts[n] <= attempts[m] + 1
    BY DEF Balanced, Node
  <2>1. attempts[n] \in Nat /\ attempts[m] \in Nat BY DEF TypeOK, Node
  <2>2. FullRounds(n) = FullRounds(m) BY DEF IBalanced
  <2>3. QED BY <2>1, <2>2 DEF FullRounds
<1>3. QED BY <1>1, <1>2, TypeCorrect, NextIBalanced, PTL DEF Spec

-----------------------------------------------------------------------------
(* Lambdas go in time, and take their containers with them *)

\* What the sweep left was not yet due, and has aged with the clock since.
IExpires == \A l \in lmbservers : ~lam[l].forever => lam[l].age <= TTL + sinceSweep

LEMMA NextIExpires == TypeOK /\ IExpires /\ [Next]_vars => IExpires'
<1> SUFFICES ASSUME TypeOK, IExpires, [Next]_vars, NEW l \in lmbservers', ~lam'[l].forever
             PROVE  lam'[l].age <= TTL + sinceSweep'
  BY DEF IExpires
<1> USE CubeAssumption DEF clock
<1>0. /\ sinceSweep \in Nat /\ sinceSweep <= SweepEvery
      /\ \A k \in lmbservers : k \in Lambdas /\ lam[k].age \in Nat
  BY DEF TypeOK, Launched
<1>1. ASSUME NEW u \in Users, NEW k \in Lambdas, NEW keep \in BOOLEAN, Launch(u, k, keep)
      PROVE  lam'[l].age <= TTL + sinceSweep'
  <2>1. CASE l = k BY <1>0, <1>1, <2>1 DEF Launch, TypeOK
  <2>2. CASE l # k
    <3>1. l \in lmbservers /\ lam'[l] = lam[l] BY <1>1, <2>2 DEF Launch, TypeOK, Launched
    <3>2. QED BY <1>1, <3>1 DEF Launch, IExpires
  <2>3. QED BY <2>1, <2>2
<1>2. CASE \E k \in Lambdas : ContainerDies(k) \/ \E u \in Users : Shutdown(u, k)
  BY <1>2 DEF ContainerDies, Shutdown, IExpires
<1>3. CASE Sweep
  <2>1. l \in lmbservers /\ l \notin Expired /\ lam' = lam /\ sinceSweep' = 0
    BY <1>3 DEF Sweep
  <2>2. QED BY <1>0, <2>1 DEF Expired
<1>4. CASE Tick
  <2>1. l \in lmbservers /\ l \in Lambdas /\ sinceSweep' = sinceSweep + 1
    BY <1>0, <1>4 DEF Tick
  <2>2. lam'[l] = IF lam[l].age <= TTL + SweepEvery THEN [lam[l] EXCEPT !.age = @ + 1] ELSE lam[l]
    BY <1>4, <2>1 DEF Tick
  <2>3. lam[l] \in [createdby : Users \cup {None}, forever : BOOLEAN, age : Nat]
    BY <2>1 DEF TypeOK
  <2>4. lam'[l].forever = lam[l].forever /\ lam'[l].age <= lam[l].age + 1
    BY <2>2, <2>3
  <2>5. lam[l].age <= TTL + sinceSweep BY <2>1, <2>4 DEF IExpires
  <2>6. lam'[l].age \in Nat BY <2>2, <2>3
  <2>7. QED BY <1>0, <2>1, <2>3, <2>4, <2>5, <2>6
<1>5. CASE Restart BY <1>5 DEF Restart
<1>6. CASE UNCHANGED vars BY <1>6 DEF vars, IExpires
<1>7. QED BY <1>1, <1>2, <1>3, <1>4, <1>5, <1>6 DEF Next

LEMMA NextLeaks == LeaksAreFailures /\ [Next]_vars => LeaksAreFailures'
<1> SUFFICES ASSUME LeaksAreFailures, [Next]_vars PROVE LeaksAreFailures' OBVIOUS
<1> USE DEF LeaksAreFailures
<1>1. ASSUME NEW u \in Users, NEW k \in Lambdas, NEW keep \in BOOLEAN, Launch(u, k, keep)
      PROVE  LeaksAreFailures'
  BY <1>1 DEF Launch
<1>2. ASSUME NEW gone, lmbservers' = lmbservers \ gone, StopContainers(gone) PROVE LeaksAreFailures'
  BY <1>2 DEF StopContainers, Stopped
<1>3. CASE Sweep BY <1>2, <1>3 DEF Sweep
<1>4. CASE \E k \in Lambdas, u \in Users : Shutdown(u, k) BY <1>2, <1>4 DEF Shutdown
<1>5. CASE \E k \in Lambdas : ContainerDies(k) BY <1>5 DEF ContainerDies
<1>6. CASE Tick \/ UNCHANGED vars BY <1>6 DEF Tick, vars
<1>7. CASE Restart BY <1>7 DEF Restart
<1>8. QED BY <1>1, <1>3, <1>4, <1>5, <1>6, <1>7 DEF Next

\* Whatever the TTL and the period of the sweep, a lambda is out of the
\* registry one period after its time.
THEOREM LambdasGo == Spec => []ExpiresInTime
<1>1. Init => IExpires BY DEF Init, IExpires
<1>2. TypeOK /\ IExpires => ExpiresInTime
  <2> SUFFICES ASSUME TypeOK, IExpires, NEW l \in lmbservers, ~lam[l].forever
               PROVE  lam[l].age <= TTL + SweepEvery
    BY DEF ExpiresInTime
  <2>1. lam[l].age \in Nat /\ sinceSweep \in Nat /\ sinceSweep <= SweepEvery
    BY CubeAssumption DEF TypeOK, Launched
  <2>2. QED BY <2>1, CubeAssumption DEF IExpires
<1>3. QED BY <1>1, <1>2, TypeCorrect, NextIExpires, PTL DEF Spec

\* Whatever docker refuses, a container nobody registers was left by a failure
\* of its own, never by the sweep or a shutdown stopping half-way.
THEOREM LeaksAreFailuresHolds == Spec => []LeaksAreFailures
<1>1. Init => LeaksAreFailures BY DEF Init, LeaksAreFailures
<1>2. QED BY <1>1, NextLeaks, PTL DEF Spec

=============================================================================
