-------------------------------- MODULE Cube --------------------------------
(***************************************************************************)
(* Lambdas: the registry of server/modules/cube.py and the containers it   *)
(* starts and stops on docker nodes.  Calls of the docker SDK block the    *)
(* event loop, and addEvent puts on an unbounded queue without suspending, *)
(* so a handler is one step.  Docker is the environment: it may refuse a   *)
(* call, and containers may die.  A shell of a lambda is module CubeShell. *)
(***************************************************************************)
EXTENDS Naturals, FiniteSets

CONSTANTS Lambdas, Users, None,
          Nodes,        \* number of docker nodes
          TTL,          \* _CONTAINER_TTL in ticks (7200 seconds)
          SweepEvery,   \* the sweep's period in ticks (300 seconds)
          MaxRestarts   \* bound: restarts of the server

ASSUME CubeAssumption ==
    /\ None \notin Users
    /\ Nodes \in Nat \ {0} /\ TTL \in Nat /\ SweepEvery \in Nat \ {0} /\ MaxRestarts \in Nat

VARIABLES
    lmbservers,  \* the lambdas registered
    lam,         \* of each lambda: createdby, forever, now - created_at
    running,     \* the containers that run
    clientidx,   \* the node the next lambda goes to
    sinceSweep,  \* ticks since _cleanup_expired_containers went to sleep
    restarts,
    attempts,    \* history: launches tried on each node since the start
    spared       \* history: containers a failure, and no decision, left running

vars == <<lmbservers, lam, running, clientidx, sinceSweep, restarts, attempts, spared>>
clock == <<sinceSweep, restarts>>

Launched == {l \in Lambdas : lam[l].createdby # None}

TypeOK ==
    /\ lam \in [Lambdas -> [createdby : Users \cup {None}, forever : BOOLEAN, age : Nat]]
    /\ lmbservers \subseteq Launched /\ running \subseteq Launched /\ spared \subseteq Launched
    /\ clientidx \in 0..(Nodes - 1)
    /\ sinceSweep \in 0..SweepEvery
    /\ restarts \in 0..MaxRestarts
    /\ attempts \in [0..(Nodes - 1) -> Nat]

Init ==
    /\ lmbservers = {} /\ running = {} /\ spared = {}
    /\ lam = [l \in Lambdas |-> [createdby |-> None, forever |-> FALSE, age |-> 0]]
    /\ clientidx = 0 /\ sinceSweep = 0 /\ restarts = 0
    /\ attempts = [n \in 0..(Nodes - 1) |-> 0]

-----------------------------------------------------------------------------
\* A faulty launch that does not move on.
LaunchSameNode == clientidx
\* A faulty launch that runs off the end of the nodes.
TurnsWithoutEnd == clientidx + 1
NextNode == (clientidx + 1) % Nodes

\* launchlambda: the node's turn is used up whether or not docker starts the
\* container, and a call that raises (502) may have started it all the same.
Launch(u, l, keep) ==
    /\ l \notin Launched
    /\ clientidx' = NextNode
    /\ attempts' = [attempts EXCEPT ![clientidx] = @ + 1]
    /\ \/ lmbservers' = lmbservers \cup {l} /\ running' = running \cup {l} /\ UNCHANGED spared
       \/ UNCHANGED lmbservers /\ running' = running \cup {l} /\ spared' = spared \cup {l}
       \/ UNCHANGED <<lmbservers, running, spared>>
    /\ lam' = [lam EXCEPT ![l] = [createdby |-> u, forever |-> keep, age |-> 0]]
    /\ UNCHANGED clock

\* _find_lambda: only to its owner.
Found(u, l) == l \in lmbservers /\ lam[l].createdby = u

\* A faulty stop that gives up at the first refusal.
StopsUntilRefused(gone, refused) == IF refused = {} THEN gone ELSE {}
\* container.stop and remove for each of `gone`; what docker refuses is swallowed.
Stopped(gone, refused) == gone \ refused

StopContainers(gone) ==
    \E refused \in SUBSET gone :
      /\ running' = running \ Stopped(gone, refused)
      /\ spared' = spared \cup refused

\* shutdownlambda
Shutdown(u, l) ==
    /\ Found(u, l)
    /\ lmbservers' = lmbservers \ {l}
    /\ StopContainers({l})
    /\ UNCHANGED <<lam, clientidx, attempts, clock>>

\* A faulty sweep that removes from the list it is going through, and so skips one.
ExpiredNotTwo ==
    LET old == {l \in lmbservers : ~lam[l].forever /\ lam[l].age > TTL}
    IN  IF Cardinality(old) < 2 THEN old ELSE {CHOOSE l \in old : TRUE}
Expired == {l \in lmbservers : ~lam[l].forever /\ lam[l].age > TTL}

\* _cleanup_expired_containers, every SweepEvery ticks.
Sweep ==
    /\ sinceSweep = SweepEvery
    /\ sinceSweep' = 0
    /\ lmbservers' = lmbservers \ Expired
    /\ StopContainers(Expired)
    /\ UNCHANGED <<lam, clientidx, restarts, attempts>>

\* Time passes; the sweep is not late.  An age counts up to the bound
\* TTL + SweepEvery + 1, and while its lambda is registered: no one reads it
\* after that.
Tick ==
    /\ sinceSweep < SweepEvery
    /\ sinceSweep' = sinceSweep + 1
    /\ lam' = [l \in Lambdas |-> IF l \in lmbservers /\ lam[l].age <= TTL + SweepEvery
                                   THEN [lam[l] EXCEPT !.age = @ + 1] ELSE lam[l]]
    /\ UNCHANGED <<lmbservers, running, clientidx, restarts, attempts, spared>>

ContainerDies(l) ==
    /\ l \in running
    /\ running' = running \ {l}
    /\ UNCHANGED <<lmbservers, lam, clientidx, attempts, spared, clock>>

\* The registry is only in memory; the containers go on.
Restart ==
    /\ restarts < MaxRestarts
    /\ restarts' = restarts + 1
    /\ spared' = spared \cup (running \cap lmbservers)
    /\ lmbservers' = {} /\ clientidx' = 0 /\ sinceSweep' = 0
    /\ attempts' = [n \in 0..(Nodes - 1) |-> 0]
    /\ UNCHANGED <<lam, running>>

-----------------------------------------------------------------------------
Next ==
    \/ \E u \in Users, l \in Lambdas :
         (\E keep \in BOOLEAN : Launch(u, l, keep)) \/ Shutdown(u, l)
    \/ \E l \in Lambdas : ContainerDies(l)
    \/ Sweep \/ Tick \/ Restart

Spec == Init /\ [][Next]_vars

-----------------------------------------------------------------------------
(* Properties *)

\* A lambda that is not to stay is out of the registry one sweep after its
\* time, at the latest.
ExpiresInTime == \A l \in lmbservers : ~lam[l].forever => lam[l].age <= TTL + SweepEvery

\* A container that runs although nothing registers it any more was left by a
\* failure: docker refused a call, or the server restarted.  No failure of one
\* lambda keeps another alive.
LeaksAreFailures == running \ lmbservers \subseteq spared

\* Launches go round the nodes, refused ones included.
Balanced == \A n, m \in 0..(Nodes - 1) : attempts[n] <= attempts[m] + 1

=============================================================================
