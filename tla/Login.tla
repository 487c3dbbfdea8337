------------------------------- MODULE Login --------------------------------
(***************************************************************************)
(* The login handler of server/modules/omedia.py and the limiter it calls  *)
(* in server/modules/auth.py.  The check comes before an awaited query and *)
(* the failure is recorded after it, so logins that began before a lockout *)
(* are still counted during it.  Time is in ticks, PerSecond of them to a  *)
(* second; an attempt is its age.                                          *)
(***************************************************************************)
EXTENDS Integers, Sequences, FiniteSets

CONSTANTS IPs, Requests,  \* clients' addresses; login requests under way at most
          Threshold,      \* LOCKOUT_THRESHOLD
          Base,           \* LOCKOUT_BASE, in ticks
          Window,         \* the hour an attempt counts, in ticks
          PerSecond,
          None

ASSUME LoginAssumption ==
    /\ Threshold \in Nat \ {0} /\ PerSecond \in Nat \ {0}
    /\ Base \in Nat \ {0} /\ Window \in Nat /\ Base <= Window
    /\ IsFiniteSet(Requests)
    /\ None \notin Nat /\ None \notin [at : {"query", "audit"}, ip : IPs]

VARIABLES
    login_attempts,  \* the ages of the failures of each address, oldest first
    req,             \* a request: None, or where it waits and its address
    told             \* history: ticks to the end of the last retry_after an address
                     \* was told, None if it failed again or was not told
vars == <<login_attempts, req, told>>

Waiting == [at : {"query", "audit"}, ip : IPs]

TypeOK ==
    /\ login_attempts \in [IPs -> Seq(0..Window)]
    /\ \A ip \in IPs : \A i, j \in DOMAIN login_attempts[ip] :
         i <= j => login_attempts[ip][i] >= login_attempts[ip][j]
    /\ req \in [Requests -> Waiting \cup {None}]
    /\ told \in [IPs -> Nat \cup {None}]

Init ==
    /\ login_attempts = [ip \in IPs |-> <<>>]
    /\ req = [r \in Requests |-> None]
    /\ told = [ip \in IPs |-> None]

-----------------------------------------------------------------------------
(* check_login_rate_limit *)

\* How many failures of an address no longer count; they are its first ones.
Expired(a) == Cardinality({i \in DOMAIN a : ~(a[i] < Window)})

\* What is left of the attempts of every address, at every check.
Pruned == [ip \in IPs |-> LET a == login_attempts[ip] IN SubSeq(a, Expired(a) + 1, Len(a))]

\* Faulty checks: one that counts from the failure after the threshold, and one
\* that counts a lockout from the first failure.
RemainingAboveThreshold(ip) ==
    LET a == Pruned[ip]  count == Len(a)
    IN  IF count <= Threshold THEN 0
        ELSE Base * ((count - Threshold) \div Threshold + 1) - a[count]
RemainingFromFirst(ip) ==
    LET a == Pruned[ip]  count == Len(a)
    IN  IF count < Threshold THEN 0
        ELSE Base * ((count - Threshold) \div Threshold + 1) - a[1]

\* The rest of the lockout of an address: none is left if it is not positive.
Remaining(ip) ==
    LET a == Pruned[ip]  count == Len(a)
    IN  IF count < Threshold THEN 0
        ELSE Base * ((count - Threshold) \div Threshold + 1) - a[count]

Locked(ip) == Remaining(ip) > 0

\* A faulty answer: whole seconds without the one for the part of a second.
RetryAfterRoundedDown(remaining) == (remaining \div PerSecond) * PerSecond
\* retry_after is told in whole seconds.
RetryAfter(remaining) == (remaining \div PerSecond + 1) * PerSecond

Answer(ip) == told' = [told EXCEPT ![ip] = IF Locked(ip) THEN RetryAfter(Remaining(ip)) ELSE @]

-----------------------------------------------------------------------------
(* login *)

\* A faulty refusal that counts, in place of the oldest failure.
RefusedCounts(ip) ==
    /\ Locked(ip)
    /\ Answer(ip)
    /\ login_attempts' = [Pruned EXCEPT ![ip] = Append(Tail(@), 0)]
    /\ UNCHANGED req

Refused(ip) ==
    /\ Locked(ip)
    /\ Answer(ip)
    /\ login_attempts' = Pruned
    /\ UNCHANGED req

Begins(r, ip) ==
    /\ req[r] = None /\ ~Locked(ip)
    /\ req' = [req EXCEPT ![r] = [at |-> "query", ip |-> ip]]
    /\ login_attempts' = Pruned
    /\ UNCHANGED told

\* The admin's password is compared before anything is awaited.
AdminLogsIn(ip) ==
    /\ ~Locked(ip)
    /\ login_attempts' = [Pruned EXCEPT ![ip] = <<>>]
    /\ UNCHANGED <<req, told>>

\* clear_login_attempts
LogsIn(r) ==
    /\ req[r] # None /\ req[r].at = "query"
    /\ login_attempts' = [login_attempts EXCEPT ![req[r].ip] = <<>>]
    /\ req' = [req EXCEPT ![r] = None]
    /\ UNCHANGED told

\* A faulty record that puts the latest failure first.
FailsInFront(r) ==
    /\ req[r] # None /\ req[r].at = "query"
    /\ login_attempts' = [login_attempts EXCEPT ![req[r].ip] = <<0>> \o @]
    /\ req' = [req EXCEPT ![r].at = "audit"]
    /\ told' = [told EXCEPT ![req[r].ip] = None]

\* record_failed_login, then the audit row is awaited.
Fails(r) ==
    /\ req[r] # None /\ req[r].at = "query"
    /\ login_attempts' = [login_attempts EXCEPT ![req[r].ip] = Append(@, 0)]
    /\ req' = [req EXCEPT ![r].at = "audit"]
    /\ told' = [told EXCEPT ![req[r].ip] = None]

FailureAnswered(r) ==
    /\ req[r] # None /\ req[r].at = "audit"
    /\ Answer(req[r].ip)
    /\ login_attempts' = Pruned
    /\ req' = [req EXCEPT ![r] = None]

\* The awaited query or audit raises: the request ends with neither.
Aborts(r) ==
    /\ req[r] # None
    /\ req' = [req EXCEPT ![r] = None]
    /\ UNCHANGED <<login_attempts, told>>

\* The server restarts: login_attempts is in memory.
Restart ==
    /\ login_attempts' = [ip \in IPs |-> <<>>]
    /\ req' = [r \in Requests |-> None]
    /\ UNCHANGED told

Tick ==
    /\ login_attempts' = [ip \in IPs |->
         [i \in DOMAIN login_attempts[ip] |->
            IF login_attempts[ip][i] < Window THEN login_attempts[ip][i] + 1 ELSE Window]]
    /\ told' = [ip \in IPs |-> IF told[ip] \in {None, 0} THEN told[ip] ELSE told[ip] - 1]
    /\ UNCHANGED req

-----------------------------------------------------------------------------
Next ==
    \/ \E ip \in IPs : Refused(ip) \/ AdminLogsIn(ip) \/ \E r \in Requests : Begins(r, ip)
    \/ \E r \in Requests : LogsIn(r) \/ Fails(r) \/ FailureAnswered(r) \/ Aborts(r)
    \/ Restart \/ Tick

Spec == Init /\ [][Next]_vars /\ WF_vars(Tick)

-----------------------------------------------------------------------------
(* Properties *)

\* However requests overlap, an address that does not log in has no more
\* failures in any Base of time than the threshold lets through and those that
\* are under way at once.  A login of the address (clear_login_attempts), whoever
\* logs in from it, and a restart forget its failures and open the next round:
\* across them the code gives no bound, and none is stated.
GuessesBetweenLogins ==
    \A ip \in IPs :
      Cardinality({i \in DOMAIN login_attempts[ip] : login_attempts[ip][i] < Base})
        <= Threshold - 1 + Cardinality(Requests)

\* A client that waits as long as it was told, and does not fail meanwhile, is
\* not refused.
RetryAfterSuffices == \A ip \in IPs : told[ip] = 0 => ~Locked(ip)

\* A client that waits is never told to wait longer, unless its address fails
\* again: neither a check nor forgetting an old failure extends a lockout.
LockoutShrinks ==
    [][\A ip \in IPs : Remaining(ip)' > Remaining(ip) /\ Locked(ip)'
         => Len(login_attempts[ip]') > Len(login_attempts[ip])]_vars

\* No lockout lasts for ever, whatever the clients do: those already under way
\* can only extend it as often as there are requests.
LockoutEnds == \A ip \in IPs : Locked(ip) ~> ~Locked(ip)

=============================================================================
