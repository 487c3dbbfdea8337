----------------------------- MODULE LoginProofs ----------------------------
(***************************************************************************)
(* Proofs about Login, for any number of addresses and requests and any    *)
(* threshold, lockout and clock: how many failures get through, and what a *)
(* client that is locked out can count on.                                 *)
(***************************************************************************)
EXTENDS Login, FiniteSetTheorems, SequenceTheorems, TLAPS

-----------------------------------------------------------------------------
(* Arithmetic of the lockout *)

LEMMA DivMonotonic ==
    ASSUME NEW d \in Nat \ {0}, NEW m \in Nat, NEW n \in Nat, m <= n
    PROVE  m \div d \in Nat /\ n \div d \in Nat /\ m \div d <= n \div d
OBVIOUS

LEMMA DivBound ==
    ASSUME NEW d \in Nat \ {0}, NEW m \in Nat
    PROVE  m \div d \in Nat /\ m < d * (m \div d) + d
OBVIOUS

Lockout(count) == Base * ((count - Threshold) \div Threshold + 1)

LEMMA LockoutMonotonic ==
    ASSUME NEW m \in Nat, NEW n \in Nat, Threshold <= m, m <= n
    PROVE  /\ Lockout(m) \in Nat /\ Lockout(n) \in Nat
           /\ Base <= Lockout(m) /\ Lockout(m) <= Lockout(n)
<1> DEFINE x == (m - Threshold) \div Threshold
           y == (n - Threshold) \div Threshold
<1>1. m - Threshold \in Nat /\ n - Threshold \in Nat /\ m - Threshold <= n - Threshold
  BY LoginAssumption
<1>2. x \in Nat /\ y \in Nat /\ x <= y BY <1>1, LoginAssumption, DivMonotonic
<1> HIDE DEF x, y
<1>3. \A z \in Nat : Base * (z + 1) \in Nat /\ Base * (z + 1) = Base * z + Base BY LoginAssumption
<1>4. Base * x <= Base * y
  <2>1. y - x \in Nat BY <1>2
  <2>2. Base * (y - x) \in Nat BY <2>1, LoginAssumption
  <2>3. Base * y = Base * x + Base * (y - x) BY <1>2, LoginAssumption
  <2>4. Base * x \in Nat /\ Base * y \in Nat BY <1>2, LoginAssumption
  <2>5. QED BY <2>2, <2>3, <2>4
<1>5. Base * x \in Nat /\ Base * y \in Nat BY <1>2, LoginAssumption
<1>6. QED BY <1>2, <1>3, <1>4, <1>5, LoginAssumption DEF Lockout, x, y

\* Whole seconds and one more are no less than what they stand for.
LEMMA RetryAfterIsEnough ==
    ASSUME NEW remaining \in Nat
    PROVE  RetryAfter(remaining) \in Nat /\ remaining <= RetryAfter(remaining)
<1> DEFINE q == remaining \div PerSecond
<1>1. q \in Nat /\ remaining < PerSecond * q + PerSecond BY LoginAssumption, DivBound
<1> HIDE DEF q
<1>2. (q + 1) * PerSecond = PerSecond * q + PerSecond /\ PerSecond * q \in Nat BY <1>1, LoginAssumption
<1>3. QED BY <1>1, <1>2, LoginAssumption DEF RetryAfter, q

-----------------------------------------------------------------------------
(* The attempts that still count *)

\* A history of failures: their ages, oldest first.
Ages(a) == a \in Seq(0..Window) /\ \A i, j \in DOMAIN a : i <= j => a[i] >= a[j]

LEMMA AgesAre ==
    ASSUME NEW a, Ages(a)
    PROVE  Len(a) \in Nat /\ DOMAIN a = 1..Len(a) /\ \A i \in 1..Len(a) : a[i] \in 0..Window
<1> DEFINE S == 0..Window
<1>1. a \in Seq(S) BY DEF Ages
<1> HIDE DEF S
<1>2. Len(a) \in Nat /\ DOMAIN a = 1..Len(a) /\ \A i \in 1..Len(a) : a[i] \in S
  BY <1>1, LenProperties, ElementOfSeq
<1>3. QED BY <1>2 DEF S

LEMMA ExpiredIs ==
    ASSUME NEW a, Ages(a)
    PROVE  Expired(a) \in 0..Len(a) /\ \A i \in DOMAIN a : a[i] < Window <=> i > Expired(a)
<1> DEFINE old == {i \in 1..Len(a) : ~(a[i] < Window)}
           k == Cardinality(old)
<1>1. Len(a) \in Nat /\ DOMAIN a = 1..Len(a) /\ \A i \in 1..Len(a) : a[i] \in 0..Window BY AgesAre
<1>2. IsFiniteSet(1..Len(a)) /\ Cardinality(1..Len(a)) = Len(a) BY <1>1, FS_Interval
<1>3. IsFiniteSet(old) /\ k \in Nat /\ k <= Len(a)
  BY <1>2, FS_Subset, FS_CardinalityType
<1>4. Expired(a) = k BY <1>1 DEF Expired
<1>5. ASSUME NEW i \in 1..Len(a), i \in old PROVE i <= k
  <2>1. \A j \in 1..i : j \in 1..Len(a) /\ a[j] >= a[i] BY <1>1 DEF Ages
  <2>2. 1..i \in SUBSET old BY <1>1, <1>5, <2>1, LoginAssumption
  <2>3. Cardinality(1..i) = i BY <1>1, FS_Interval
  <2> HIDE DEF old
  <2>4. QED BY <1>3, <2>2, <2>3, FS_Subset
<1>6. ASSUME NEW i \in 1..Len(a), i \notin old PROVE k < i
  <2>1. \A j \in old : j \in 1..Len(a) /\ a[j] = Window BY <1>1, LoginAssumption
  <2>2. \A j \in old : ~(i <= j) BY <1>1, <1>6, <2>1, LoginAssumption DEF Ages
  <2>3. old \in SUBSET (1..(i - 1)) BY <1>1, <2>1, <2>2
  <2>4. IsFiniteSet(1..(i - 1)) /\ Cardinality(1..(i - 1)) = i - 1
    <3>1. 1 \in Int /\ i - 1 \in Int /\ (1 > i - 1 => i - 1 = 0) BY <1>1
    <3>2. QED BY <3>1, FS_Interval
  <2> HIDE DEF old
  <2>5. k <= i - 1 BY <2>3, <2>4, FS_Subset
  <2>6. QED BY <1>3, <2>5
<1> HIDE DEF k
<1>7. QED BY <1>1, <1>3, <1>4, <1>5, <1>6

Kept(a) == SubSeq(a, Expired(a) + 1, Len(a))

LEMMA KeptIs ==
    ASSUME NEW a, Ages(a)
    PROVE  /\ Len(Kept(a)) = Len(a) - Expired(a) /\ Len(Kept(a)) \in Nat
           /\ \A i \in 1..Len(Kept(a)) : Kept(a)[i] = a[Expired(a) + i] /\ Kept(a)[i] < Window
           /\ Ages(Kept(a))
<1>1. /\ Expired(a) \in 0..Len(a) /\ Len(a) \in Nat /\ DOMAIN a = 1..Len(a)
      /\ \A i \in 1..Len(a) : a[i] < Window <=> i > Expired(a)
  BY ExpiredIs DEF Ages
<1> DEFINE k == Expired(a)
           s == Kept(a)
<1>2. \A i \in (k + 1)..Len(a) : a[i] \in 0..Window BY <1>1, AgesAre
<1>3. /\ s \in Seq(0..Window)
      /\ Len(s) = IF k + 1 <= Len(a) THEN Len(a) - (k + 1) + 1 ELSE 0
      /\ \A i \in 1..(Len(a) - (k + 1) + 1) : s[i] = a[k + 1 + i - 1]
  BY <1>1, <1>2, SubSeqProperties DEF Kept
<1> HIDE DEF k, s
<1>4. k \in 0..Len(a) BY <1>1 DEF k
<1>5. Len(s) = Len(a) - k /\ Len(s) \in Nat
  <2>1. Len(a) \in Nat BY <1>1
  <2>2. Len(s) = IF k + 1 <= Len(a) THEN Len(a) - (k + 1) + 1 ELSE 0 BY <1>3
  <2>3. QED BY <1>4, <2>1, <2>2
<1>6. \A i \in 1..Len(s) : s[i] = a[k + i] /\ k + i \in 1..Len(a) /\ k + i > k
  <2>1. Len(a) \in Nat BY <1>1
  <2> SUFFICES ASSUME NEW i \in 1..Len(s) PROVE s[i] = a[k + i] /\ k + i \in 1..Len(a) /\ k + i > k
    OBVIOUS
  <2>2. i \in 1..(Len(a) - (k + 1) + 1) /\ k + 1 + i - 1 = k + i BY <1>4, <1>5, <2>1
  <2>3. s[i] = a[k + 1 + i - 1] BY <1>3, <2>2
  <2>4. QED BY <1>4, <1>5, <2>1, <2>2, <2>3
<1>7. \A i \in 1..Len(s) : s[i] < Window BY <1>1, <1>6 DEF k
<1>8. DOMAIN s = 1..Len(s) BY <1>3
<1>9. ASSUME NEW i \in DOMAIN s, NEW j \in DOMAIN s, i <= j PROVE s[i] >= s[j]
  <2>1. k + i <= k + j /\ k + i \in DOMAIN a /\ k + j \in DOMAIN a BY <1>1, <1>4, <1>6, <1>8, <1>9
  <2>2. a[k + i] >= a[k + j] BY <2>1 DEF Ages
  <2>3. QED BY <1>6, <1>8, <2>2
<1>10. Ages(s) BY <1>3, <1>9 DEF Ages
<1>11. QED BY <1>5, <1>6, <1>7, <1>10 DEF k, s

\* Forgetting is idempotent.
LEMMA KeptOnce ==
    ASSUME NEW a, Ages(a)
    PROVE  Kept(Kept(a)) = Kept(a)
<1> DEFINE s == Kept(a)
<1>1. Ages(s) /\ Len(s) \in Nat /\ \A i \in 1..Len(s) : s[i] < Window BY KeptIs
<1> HIDE DEF s
<1>2. Expired(s) \in 0..Len(s) /\ \A i \in 1..Len(s) : i > Expired(s) BY <1>1, ExpiredIs DEF Ages
<1>3. Expired(s) = 0 BY <1>1, <1>2
<1>4. s \in Seq(0..Window) BY <1>1 DEF Ages
<1>5. SubSeq(s, 1, Len(s)) = s BY <1>4, SubSeqFull
<1>6. Kept(s) = s BY <1>3, <1>5 DEF Kept
<1>7. QED BY <1>6 DEF s

LEMMA EmptyAges == Ages(<<>>) /\ Kept(<<>>) = <<>> /\ Len(<<>>) = 0
<1>1. Ages(<<>>) BY DEF Ages
<1>2. Len(Kept(<<>>)) = 0 BY <1>1, KeptIs, ExpiredIs
<1>3. Kept(<<>>) \in Seq(0..Window) BY <1>1, KeptIs DEF Ages
<1>4. QED BY <1>1, <1>2, <1>3

\* One more failure, now.
LEMMA AgesAppend ==
    ASSUME NEW a, Ages(a)
    PROVE  Ages(Append(a, 0))
<1> DEFINE b == Append(a, 0)
<1> DEFINE S == 0..Window
<1>1. /\ a \in Seq(S) /\ Len(a) \in Nat /\ DOMAIN a = 1..Len(a) /\ \A i \in 1..Len(a) : a[i] \in S
  BY AgesAre DEF Ages
<1>2. 0 \in S BY LoginAssumption
<1> HIDE DEF S
<1>3. /\ b \in Seq(S) /\ Len(b) = Len(a) + 1 /\ DOMAIN b = 1..(Len(a) + 1)
      /\ b[Len(a) + 1] = 0 /\ \A i \in 1..Len(a) : b[i] = a[i]
  BY <1>1, <1>2, AppendProperties
<1> HIDE DEF b
<1>4. /\ b \in Seq(0..Window) /\ b[Len(a) + 1] = 0
      /\ \A i \in 1..Len(a) : b[i] = a[i] /\ a[i] \in 0..Window
  BY <1>1, <1>3 DEF S
<1>5. ASSUME NEW i \in DOMAIN b, NEW j \in DOMAIN b, i <= j PROVE b[i] >= b[j]
  <2>1. CASE j = Len(a) + 1
    <3>1. b[i] >= 0 BY <1>1, <1>3, <1>4
    <3>2. QED BY <1>4, <2>1, <3>1
  <2>2. CASE j # Len(a) + 1
    <3>1. i \in 1..Len(a) /\ j \in 1..Len(a) BY <1>1, <1>3, <1>5, <2>2
    <3>2. a[i] >= a[j] BY <1>1, <1>5, <3>1 DEF Ages
    <3>3. QED BY <1>4, <3>1, <3>2
  <2>3. QED BY <2>1, <2>2
<1>6. QED BY <1>4, <1>5 DEF Ages, b

Older(a) == [i \in DOMAIN a |-> IF a[i] < Window THEN a[i] + 1 ELSE Window]

LEMMA OlderIs ==
    ASSUME NEW a, Ages(a)
    PROVE  /\ Ages(Older(a)) /\ Len(Older(a)) = Len(a)
           /\ \A i \in 1..Len(a) : Older(a)[i] = IF a[i] < Window THEN a[i] + 1 ELSE Window
<1>1. Len(a) \in Nat /\ DOMAIN a = 1..Len(a) /\ \A i \in 1..Len(a) : a[i] \in 0..Window
  BY AgesAre
<1>2. \A i \in 1..Len(a) : (IF a[i] < Window THEN a[i] + 1 ELSE Window) \in 0..Window
  BY <1>1, LoginAssumption
<1> DEFINE b == Older(a)
<1>3. b \in [1..Len(a) -> 0..Window] BY <1>1, <1>2 DEF Older
<1>4. b \in Seq(0..Window) /\ Len(b) = Len(a) /\ DOMAIN b = 1..Len(a)
  <2> DEFINE S == 0..Window
  <2> HIDE DEF S, b
  <2>1. b \in [1..Len(a) -> S] BY <1>3 DEF S
  <2>2. b \in Seq(S) BY <1>1, <2>1 DEF Seq
  <2>3. QED BY <1>1, <2>1, <2>2, LenProperties DEF S
<1>5. \A i \in 1..Len(a) : b[i] = IF a[i] < Window THEN a[i] + 1 ELSE Window BY <1>1 DEF Older
<1> HIDE DEF b
<1>6. ASSUME NEW i \in 1..Len(a), NEW j \in 1..Len(a), i <= j PROVE b[i] >= b[j]
  <2>1. a[i] >= a[j] /\ a[i] \in 0..Window /\ a[j] \in 0..Window BY <1>1, <1>6 DEF Ages
  <2>2. QED BY <1>5, <2>1, LoginAssumption
<1>7. QED BY <1>4, <1>5, <1>6 DEF Ages, b

-----------------------------------------------------------------------------
(* The type invariant *)

LEMMA TypeOKAges ==
    TypeOK <=> /\ DOMAIN login_attempts = IPs
               /\ login_attempts = [ip \in IPs |-> login_attempts[ip]]
               /\ \A ip \in IPs : Ages(login_attempts[ip])
               /\ req \in [Requests -> Waiting \cup {None}]
               /\ told \in [IPs -> Nat \cup {None}]
BY DEF TypeOK, Ages

-----------------------------------------------------------------------------
(* What is left of a lockout *)

\* Of the failures that count.
Rest(s) == IF Len(s) < Threshold THEN 0 ELSE Lockout(Len(s)) - s[Len(s)]

LEMMA RemainingIs ==
    ASSUME NEW ip \in IPs
    PROVE  /\ Pruned[ip] = Kept(login_attempts[ip])
           /\ Remaining(ip) = Rest(Kept(login_attempts[ip]))
           /\ Remaining(ip)' = Rest(Kept(login_attempts'[ip]))
<1>1. /\ Pruned[ip] = Kept(login_attempts[ip])
      /\ Pruned'[ip] = Kept(login_attempts'[ip])
  BY DEF Pruned, Kept
<1>2. QED BY <1>1 DEF Remaining, Rest, Lockout

LEMMA RestIs ==
    ASSUME NEW a, Ages(a)
    PROVE  /\ Rest(Kept(a)) \in Int /\ Rest(Kept(Kept(a))) = Rest(Kept(a)) /\ Rest(Kept(<<>>)) = 0
           /\ Rest(Kept(a)) > 0 => Rest(Kept(a)) \in Nat /\ Len(Kept(a)) >= Threshold
           /\ Rest(Kept(a)) <= 0 /\ Len(Kept(a)) >= Threshold => Kept(a)[Len(Kept(a))] >= Base
<1> DEFINE s == Kept(a)
<1>1. Ages(s) /\ Len(s) \in Nat /\ \A i \in 1..Len(s) : s[i] \in 0..Window BY KeptIs, AgesAre
<1>2. Kept(s) = s BY KeptOnce
<1> HIDE DEF s
<1>3. Rest(Kept(<<>>)) = 0 BY EmptyAges, LoginAssumption DEF Rest
<1>4. Len(s) >= Threshold => Lockout(Len(s)) \in Nat /\ Base <= Lockout(Len(s)) /\ s[Len(s)] \in 0..Window
  <2>1. Threshold \in Nat \ {0} BY LoginAssumption
  <2>2. Len(s) >= Threshold => Len(s) \in 1..Len(s) BY <1>1, <2>1
  <2>3. QED BY <1>1, <2>1, <2>2, LockoutMonotonic
<1>5. Threshold \in Nat /\ Base \in Nat /\ Window \in Nat BY LoginAssumption
<1>6. Rest(s) \in Int BY <1>1, <1>4, <1>5 DEF Rest
<1>7. Rest(s) > 0 => Rest(s) \in Nat /\ Len(s) >= Threshold BY <1>1, <1>5, <1>6 DEF Rest
<1>8. Rest(s) <= 0 /\ Len(s) >= Threshold => s[Len(s)] >= Base BY <1>1, <1>4, <1>5 DEF Rest
<1>9. QED BY <1>2, <1>3, <1>6, <1>7, <1>8 DEF s

\* Time shortens a lockout or ends it.
LEMMA RestOlder ==
    ASSUME NEW a, Ages(a)
    PROVE  Rest(Kept(Older(a))) = 0 \/ Rest(Kept(Older(a))) <= Rest(Kept(a)) - 1
<1> DEFINE b == Older(a)
           s == Kept(a)
           t == Kept(b)
<1>1. /\ Ages(b) /\ Len(b) = Len(a) /\ Len(a) \in Nat
      /\ \A i \in 1..Len(a) : b[i] = IF a[i] < Window THEN a[i] + 1 ELSE Window
      /\ \A i \in 1..Len(a) : a[i] \in 0..Window
  BY OlderIs, AgesAre
<1>2. /\ Expired(a) \in 0..Len(a) /\ \A i \in 1..Len(a) : a[i] < Window <=> i > Expired(a)
      /\ Expired(b) \in 0..Len(a) /\ \A i \in 1..Len(a) : b[i] < Window <=> i > Expired(b)
  <2> HIDE DEF b
  <2>1. DOMAIN a = 1..Len(a) /\ DOMAIN b = 1..Len(b) BY <1>1, AgesAre
  <2>2. QED BY <1>1, <2>1, ExpiredIs
<1>3. /\ Len(s) = Len(a) - Expired(a) /\ \A i \in 1..Len(s) : s[i] = a[Expired(a) + i]
      /\ Len(t) = Len(a) - Expired(b) /\ \A i \in 1..Len(t) : t[i] = b[Expired(b) + i] /\ t[i] < Window
  <2> HIDE DEF b
  <2>1. QED BY <1>1, KeptIs
<1>4. Threshold \in Nat \ {0} /\ Window \in Nat BY LoginAssumption
<1> HIDE DEF b, s, t
<1>5. Expired(a) <= Expired(b)
  <2>1. CASE Expired(a) = 0 BY <1>2, <2>1
  <2>2. CASE Expired(a) # 0
    <3>1. Expired(a) \in 1..Len(a) BY <1>1, <1>2, <2>2
    <3>2. ~(a[Expired(a)] < Window) BY <1>2, <3>1
    <3>3. ~(b[Expired(a)] < Window) BY <1>1, <1>4, <3>1, <3>2
    <3>4. QED BY <1>2, <3>1, <3>3
  <2>3. QED BY <2>1, <2>2
<1>6. CASE Len(t) < Threshold BY <1>6 DEF Rest, b, t
<1>7. CASE ~(Len(t) < Threshold)
  <2>1. Len(t) \in Nat /\ Len(s) \in Nat /\ Len(t) <= Len(s) /\ Threshold <= Len(t) /\ Len(t) > 0
    BY <1>1, <1>2, <1>3, <1>4, <1>5, <1>7
  <2>2. t[Len(t)] = b[Len(a)] /\ s[Len(s)] = a[Len(a)] /\ t[Len(t)] < Window /\ Len(a) \in 1..Len(a)
    <3>1. Len(t) \in 1..Len(t) /\ Len(s) \in 1..Len(s) BY <2>1
    <3>2. Expired(a) + Len(s) = Len(a) /\ Expired(b) + Len(t) = Len(a) /\ Len(a) > 0
      BY <1>1, <1>2, <1>3, <2>1
    <3>3. QED BY <1>1, <1>3, <3>1, <3>2
  <2>3. b[Len(a)] = a[Len(a)] + 1 /\ a[Len(a)] \in 0..Window BY <1>1, <1>4, <2>2
  <2>4. Lockout(Len(t)) \in Nat /\ Lockout(Len(s)) \in Nat /\ Lockout(Len(t)) <= Lockout(Len(s))
    BY <2>1, LockoutMonotonic
  <2>5. Rest(t) = Lockout(Len(t)) - (a[Len(a)] + 1) BY <1>7, <2>2, <2>3 DEF Rest
  <2>6. Rest(s) = Lockout(Len(s)) - a[Len(a)] BY <1>4, <2>1, <2>2 DEF Rest
  <2>7. Rest(t) <= Rest(s) - 1 BY <1>4, <2>3, <2>4, <2>5, <2>6
  <2>8. QED BY <2>7 DEF b, s, t
<1>8. QED BY <1>6, <1>7

-----------------------------------------------------------------------------
(* What a step does to an address *)

AddressStep(ip) ==
    \/ /\ login_attempts'[ip] \in {login_attempts[ip], Kept(login_attempts[ip])}
       /\ \/ told'[ip] = told[ip]
          \/ Remaining(ip) > 0 /\ told'[ip] = RetryAfter(Remaining(ip))
    \/ login_attempts'[ip] = <<>> /\ told'[ip] = told[ip]
    \/ login_attempts'[ip] = Append(login_attempts[ip], 0) /\ told'[ip] = None
    \/ /\ login_attempts'[ip] = Older(login_attempts[ip])
       /\ told'[ip] = IF told[ip] \in {None, 0} THEN told[ip] ELSE told[ip] - 1

LEMMA AnswerIs ==
    ASSUME TypeOK, NEW ip \in IPs, NEW i \in IPs, Answer(ip)
    PROVE  told'[i] = told[i] \/ (Remaining(i) > 0 /\ told'[i] = RetryAfter(Remaining(i)))
BY DEF Answer, Locked, TypeOK

LEMMA StepIs ==
    ASSUME TypeOK, [Next]_vars
    PROVE  /\ login_attempts' = [ip \in IPs |-> login_attempts'[ip]]
           /\ \A ip \in IPs : AddressStep(ip)
<1>1. /\ login_attempts = [ip \in IPs |-> login_attempts[ip]]
      /\ req \in [Requests -> Waiting \cup {None}] /\ told \in [IPs -> Nat \cup {None}]
  BY TypeOKAges
<1>2. Pruned = [ip \in IPs |-> Kept(login_attempts[ip])] BY DEF Pruned, Kept
<1>3. ASSUME NEW ip \in IPs, login_attempts' = Pruned, Answer(ip) \/ UNCHANGED told
      PROVE  /\ login_attempts' = [i \in IPs |-> login_attempts'[i]]
             /\ \A i \in IPs : AddressStep(i)
  <2>1. \A i \in IPs : login_attempts'[i] = Kept(login_attempts[i]) BY <1>2, <1>3
  <2>2. \A i \in IPs : told'[i] = told[i] \/ (Remaining(i) > 0 /\ told'[i] = RetryAfter(Remaining(i)))
    BY <1>3, AnswerIs
  <2>3. QED BY <1>2, <1>3, <2>1, <2>2 DEF AddressStep
<1>4. ASSUME NEW ip \in IPs, AdminLogsIn(ip)
      PROVE  /\ login_attempts' = [i \in IPs |-> login_attempts'[i]]
             /\ \A i \in IPs : AddressStep(i)
  <2>1. login_attempts' = [Pruned EXCEPT ![ip] = <<>>] /\ told' = told BY <1>4 DEF AdminLogsIn
  <2>2. \A i \in IPs : login_attempts'[i] = IF i = ip THEN <<>> ELSE Kept(login_attempts[i])
    BY <1>2, <2>1
  <2>3. QED BY <1>2, <2>1, <2>2 DEF AddressStep
<1>5. ASSUME NEW r \in Requests, req[r] # None PROVE req[r].ip \in IPs BY <1>1, <1>5 DEF Waiting
<1>6. ASSUME NEW r \in Requests, LogsIn(r)
      PROVE  /\ login_attempts' = [i \in IPs |-> login_attempts'[i]]
             /\ \A i \in IPs : AddressStep(i)
  <2>1. login_attempts' = [login_attempts EXCEPT ![req[r].ip] = <<>>] /\ told' = told BY <1>6 DEF LogsIn
  <2>2. \A i \in IPs : login_attempts'[i] = IF i = req[r].ip THEN <<>> ELSE login_attempts[i]
    BY <1>1, <2>1
  <2>3. QED BY <1>1, <2>1, <2>2 DEF AddressStep
<1>7. ASSUME NEW r \in Requests, Fails(r)
      PROVE  /\ login_attempts' = [i \in IPs |-> login_attempts'[i]]
             /\ \A i \in IPs : AddressStep(i)
  <2>1. /\ login_attempts' = [login_attempts EXCEPT ![req[r].ip] = Append(@, 0)]
        /\ told' = [told EXCEPT ![req[r].ip] = None]
    BY <1>7 DEF Fails
  <2>2. \A i \in IPs : login_attempts'[i] = IF i = req[r].ip THEN Append(login_attempts[i], 0)
                                            ELSE login_attempts[i]
    BY <1>1, <2>1
  <2>3. \A i \in IPs : told'[i] = IF i = req[r].ip THEN None ELSE told[i] BY <1>1, <2>1
  <2>4. QED BY <1>1, <2>1, <2>2, <2>3 DEF AddressStep
<1>8. ASSUME Tick
      PROVE  /\ login_attempts' = [i \in IPs |-> login_attempts'[i]]
             /\ \A i \in IPs : AddressStep(i)
  <2>1. login_attempts' = [i \in IPs |-> Older(login_attempts[i])] BY <1>8 DEF Tick, Older
  <2>2. \A i \in IPs : told'[i] = IF told[i] \in {None, 0} THEN told[i] ELSE told[i] - 1
    BY <1>8 DEF Tick
  <2>3. QED BY <2>1, <2>2 DEF AddressStep
<1>9. ASSUME NEW ip \in IPs, Refused(ip) \/ \E r \in Requests : Begins(r, ip)
      PROVE  /\ login_attempts' = [i \in IPs |-> login_attempts'[i]]
             /\ \A i \in IPs : AddressStep(i)
  BY <1>3, <1>9 DEF Refused, Begins
<1>10. ASSUME NEW r \in Requests, FailureAnswered(r)
       PROVE  /\ login_attempts' = [i \in IPs |-> login_attempts'[i]]
              /\ \A i \in IPs : AddressStep(i)
  BY <1>3, <1>5, <1>10 DEF FailureAnswered
<1>11. ASSUME NEW r \in Requests, Aborts(r)
       PROVE  /\ login_attempts' = [i \in IPs |-> login_attempts'[i]]
              /\ \A i \in IPs : AddressStep(i)
  BY <1>1, <1>11 DEF Aborts, AddressStep
<1>12. CASE Restart BY <1>12 DEF Restart, AddressStep
<1>13. CASE UNCHANGED vars BY <1>1, <1>13 DEF vars, AddressStep
<1>14. QED BY <1>4, <1>6, <1>7, <1>8, <1>9, <1>10, <1>11, <1>12, <1>13 DEF Next

LEMMA InitTypeOK == Init => TypeOK
<1> SUFFICES ASSUME Init PROVE TypeOK OBVIOUS
<1>1. login_attempts = [ip \in IPs |-> <<>>] BY DEF Init
<1>2. \A ip \in IPs : login_attempts[ip] = <<>> BY <1>1
<1>3. \A ip \in IPs : Ages(login_attempts[ip]) BY <1>2, EmptyAges
<1>4. QED BY <1>1, <1>2, <1>3, TypeOKAges DEF Init

LEMMA NextTypeOK == TypeOK /\ [Next]_vars => TypeOK'
<1> SUFFICES ASSUME TypeOK, [Next]_vars PROVE TypeOK' OBVIOUS
<1>1. /\ \A ip \in IPs : Ages(login_attempts[ip])
      /\ req \in [Requests -> Waiting \cup {None}] /\ told \in [IPs -> Nat \cup {None}]
  BY TypeOKAges
<1>2. /\ login_attempts' = [ip \in IPs |-> login_attempts'[ip]] /\ \A ip \in IPs : AddressStep(ip)
  BY StepIs
<1>3. \A ip \in IPs : Ages(login_attempts'[ip])
  <2> SUFFICES ASSUME NEW ip \in IPs PROVE Ages(login_attempts'[ip]) OBVIOUS
  <2>1. AddressStep(ip) /\ Ages(login_attempts[ip]) BY <1>1, <1>2
  <2>2. /\ Ages(Kept(login_attempts[ip])) /\ Ages(Append(login_attempts[ip], 0))
        /\ Ages(<<>>) /\ Ages(Older(login_attempts[ip]))
    BY <2>1, KeptIs, AgesAppend, EmptyAges, OlderIs
  <2>3. QED BY <2>1, <2>2 DEF AddressStep
<1>4. ASSUME NEW ip \in IPs PROVE told'[ip] \in Nat \cup {None}
  <2>1. told[ip] \in Nat \cup {None} BY <1>1
  <2>2. AddressStep(ip) BY <1>2
  <2>3. Remaining(ip) > 0 => RetryAfter(Remaining(ip)) \in Nat
    BY <1>1, RemainingIs, RestIs, RetryAfterIsEnough
  <2>4. told[ip] \notin {None, 0} => told[ip] - 1 \in Nat BY <2>1
  <2>5. QED BY <2>1, <2>2, <2>3, <2>4 DEF AddressStep
<1>5. told' = [ip \in IPs |-> told'[ip]]
  BY <1>1 DEF Next, vars, Refused, AdminLogsIn, Begins, LogsIn, Fails, FailureAnswered, Aborts, Restart, Tick, Answer
<1>6. told' \in [IPs -> Nat \cup {None}] BY <1>4, <1>5
<1>7. req' \in [Requests -> Waiting \cup {None}]
  <2>1. ASSUME NEW r \in Requests, NEW ip \in IPs, Begins(r, ip) PROVE req' \in [Requests -> Waiting \cup {None}]
    BY <1>1, <2>1 DEF Begins, Waiting
  <2>2. ASSUME NEW r \in Requests, Fails(r) PROVE req' \in [Requests -> Waiting \cup {None}]
    <3>1. req[r] \in Waiting BY <1>1, <2>2 DEF Fails
    <3>2. [req[r] EXCEPT !.at = "audit"] \in Waiting BY <3>1 DEF Waiting
    <3>3. req' = [req EXCEPT ![r] = [req[r] EXCEPT !.at = "audit"]] BY <2>2 DEF Fails
    <3>4. QED BY <1>1, <3>2, <3>3
  <2>3. ASSUME NEW r \in Requests, LogsIn(r) \/ FailureAnswered(r) \/ Aborts(r)
        PROVE  req' \in [Requests -> Waiting \cup {None}]
    BY <1>1, <2>3 DEF LogsIn, FailureAnswered, Aborts
  <2>4. CASE UNCHANGED req BY <1>1, <2>4
  <2>5. QED BY <2>1, <2>2, <2>3, <2>4 DEF Next, vars, Refused, AdminLogsIn, Restart, Tick
<1>8. \A ip \in IPs : login_attempts'[ip] \in Seq(0..Window) BY <1>3 DEF Ages
<1>9. QED BY <1>2, <1>3, <1>6, <1>7, <1>8 DEF TypeOK, Ages

\* Failures are kept oldest first, whatever clients do.
THEOREM TypeCorrect == Spec => []TypeOK
BY InitTypeOK, NextTypeOK, PTL DEF Spec

-----------------------------------------------------------------------------
(* What a refused client can count on *)

\* A lockout never lasts longer than the client has been told to wait.
ToldEnough == \A ip \in IPs : told[ip] # None => Remaining(ip) <= told[ip]

\* How the rest of a lockout changes when no failure is added.
LEMMA RestStep ==
    ASSUME TypeOK, NEW ip \in IPs, AddressStep(ip)
    PROVE  /\ Remaining(ip) \in Int
           /\ \/ login_attempts'[ip] = Append(login_attempts[ip], 0) /\ told'[ip] = None
              \/ /\ \/ told'[ip] = told[ip]
                    \/ Remaining(ip) > 0 /\ told'[ip] = RetryAfter(Remaining(ip))
                 /\ Remaining(ip)' \in {0, Remaining(ip)}
              \/ /\ told'[ip] = IF told[ip] \in {None, 0} THEN told[ip] ELSE told[ip] - 1
                 /\ Remaining(ip)' = 0 \/ Remaining(ip)' <= Remaining(ip) - 1
<1> DEFINE a == login_attempts[ip]
           b == login_attempts'[ip]
<1>1. Ages(a) BY TypeOKAges
<1>2. Remaining(ip) = Rest(Kept(a)) /\ Remaining(ip)' = Rest(Kept(b)) BY RemainingIs
<1>3. Rest(Kept(a)) \in Int /\ Rest(Kept(Kept(a))) = Rest(Kept(a)) /\ Rest(Kept(<<>>)) = 0
  BY <1>1, RestIs
<1>4. Rest(Kept(Older(a))) = 0 \/ Rest(Kept(Older(a))) <= Rest(Kept(a)) - 1 BY <1>1, RestOlder
<1>5. \/ b = Append(a, 0) /\ told'[ip] = None
      \/ /\ b \in {a, Kept(a)}
         /\ told'[ip] = told[ip] \/ (Remaining(ip) > 0 /\ told'[ip] = RetryAfter(Remaining(ip)))
      \/ b = <<>> /\ told'[ip] = told[ip]
      \/ b = Older(a) /\ told'[ip] = IF told[ip] \in {None, 0} THEN told[ip] ELSE told[ip] - 1
  BY DEF AddressStep
<1> HIDE DEF a, b
<1>6. CASE b = Append(a, 0) /\ told'[ip] = None BY <1>2, <1>3, <1>6 DEF a, b
<1>7. CASE /\ b \in {a, Kept(a)}
           /\ told'[ip] = told[ip] \/ (Remaining(ip) > 0 /\ told'[ip] = RetryAfter(Remaining(ip)))
  <2>1. Remaining(ip)' = Remaining(ip) BY <1>2, <1>3, <1>7
  <2>2. QED BY <1>2, <1>3, <1>7, <2>1
<1>8. CASE b = <<>> /\ told'[ip] = told[ip] BY <1>2, <1>3, <1>8
<1>9. CASE b = Older(a) /\ told'[ip] = IF told[ip] \in {None, 0} THEN told[ip] ELSE told[ip] - 1
  <2>1. Remaining(ip)' = 0 \/ Remaining(ip)' <= Remaining(ip) - 1 BY <1>2, <1>4, <1>9
  <2>2. QED BY <1>2, <1>3, <1>9, <2>1
<1>10. QED BY <1>5, <1>6, <1>7, <1>8, <1>9

LEMMA RemainingInt ==
    ASSUME TypeOK, [Next]_vars, NEW ip \in IPs
    PROVE  Remaining(ip) \in Int /\ Remaining(ip)' \in Int
<1>1. TypeOK' BY NextTypeOK
<1>2. Ages(login_attempts[ip]) /\ Ages(login_attempts'[ip]) BY <1>1, TypeOKAges DEF TypeOK, Ages
<1>3. QED BY <1>2, RemainingIs, RestIs

LEMMA InitToldEnough == Init => ToldEnough
BY DEF Init, ToldEnough

LEMMA NextToldEnough == TypeOK /\ ToldEnough /\ [Next]_vars => ToldEnough'
<1> SUFFICES ASSUME TypeOK, ToldEnough, [Next]_vars, NEW ip \in IPs, told'[ip] # None
             PROVE  Remaining(ip)' <= told'[ip]
  BY DEF ToldEnough
<1>1. told[ip] \in Nat \cup {None} BY TypeOKAges
<1>2. AddressStep(ip) BY StepIs
<1>3. /\ Remaining(ip) \in Int
      /\ \/ /\ \/ told'[ip] = told[ip]
               \/ Remaining(ip) > 0 /\ told'[ip] = RetryAfter(Remaining(ip))
            /\ Remaining(ip)' \in {0, Remaining(ip)}
         \/ /\ told'[ip] = IF told[ip] \in {None, 0} THEN told[ip] ELSE told[ip] - 1
            /\ Remaining(ip)' = 0 \/ Remaining(ip)' <= Remaining(ip) - 1
  BY <1>2, RestStep
<1>4. told[ip] # None => told[ip] \in Nat /\ Remaining(ip) <= told[ip] BY <1>1 DEF ToldEnough
<1>5. Remaining(ip) > 0 => RetryAfter(Remaining(ip)) \in Nat /\ Remaining(ip) <= RetryAfter(Remaining(ip))
  BY <1>3, RetryAfterIsEnough
<1>6. Remaining(ip) \in Int /\ Remaining(ip)' \in Int BY RemainingInt
<1>7. CASE told'[ip] = told[ip] /\ Remaining(ip)' \in {0, Remaining(ip)} BY <1>3, <1>4, <1>7
<1>8. CASE /\ Remaining(ip) > 0 /\ told'[ip] = RetryAfter(Remaining(ip))
           /\ Remaining(ip)' \in {0, Remaining(ip)}
  BY <1>3, <1>5, <1>8
<1>9. CASE /\ told'[ip] = IF told[ip] \in {None, 0} THEN told[ip] ELSE told[ip] - 1
           /\ Remaining(ip)' = 0 \/ Remaining(ip)' <= Remaining(ip) - 1
  <2>1. told[ip] # None BY <1>9
  <2>2. CASE told[ip] = 0 BY <1>3, <1>4, <1>9, <1>6, <2>1, <2>2
  <2>3. CASE told[ip] # 0
    <3>1. told'[ip] = told[ip] - 1 /\ told[ip] \in Nat BY <1>4, <1>9, <2>1, <2>3
    <3>2. QED BY <1>3, <1>4, <1>9, <1>6, <2>1, <2>3, <3>1
  <2>4. QED BY <2>2, <2>3
<1>10. QED BY <1>3, <1>7, <1>8, <1>9

\* A client that waits as long as it was told, and does not fail meanwhile, is
\* let through.
THEOREM RetryAfterSufficesHolds == Spec => []RetryAfterSuffices
<1>1. TypeOK /\ ToldEnough => RetryAfterSuffices
  <2> SUFFICES ASSUME TypeOK, ToldEnough, NEW ip \in IPs, told[ip] = 0 PROVE ~Locked(ip)
    BY DEF RetryAfterSuffices
  <2>1. told[ip] # None BY LoginAssumption
  <2>2. Remaining(ip) <= 0 BY <2>1 DEF ToldEnough
  <2>3. Remaining(ip) \in Int BY TypeOKAges, RemainingIs, RestIs
  <2>4. QED BY <2>2, <2>3 DEF Locked
<1>2. QED BY InitToldEnough, NextToldEnough, TypeCorrect, <1>1, PTL DEF Spec

\* Only another failure of its address makes a lockout longer.
THEOREM LockoutShrinksHolds == Spec => LockoutShrinks
<1>1. ASSUME TypeOK, [Next]_vars, NEW ip \in IPs, Remaining(ip)' > Remaining(ip), Locked(ip)'
      PROVE  Len(login_attempts[ip]') > Len(login_attempts[ip])
  <2>1. AddressStep(ip) BY <1>1, StepIs
  <2>2. Remaining(ip)' > 0 BY <1>1 DEF Locked
  <2>3. Remaining(ip) \in Int /\ Remaining(ip)' \in Int BY <1>1, RemainingInt
  <2>4. login_attempts'[ip] = Append(login_attempts[ip], 0)
    <3>1. \/ login_attempts'[ip] = Append(login_attempts[ip], 0)
          \/ Remaining(ip)' \in {0, Remaining(ip)}
          \/ Remaining(ip)' = 0 \/ Remaining(ip)' <= Remaining(ip) - 1
      BY <1>1, <2>1, RestStep
    <3>2. QED BY <1>1, <2>2, <2>3, <3>1
  <2>5. Ages(login_attempts[ip]) BY <1>1, TypeOKAges
  <2>6. Len(login_attempts[ip]) \in Nat /\ login_attempts[ip] \in Seq(0..Window) BY <2>5, AgesAre DEF Ages
  <2>7. 0 \in 0..Window BY LoginAssumption
  <2>8. Len(login_attempts'[ip]) = Len(login_attempts[ip]) + 1
    BY <2>4, <2>6, <2>7, AppendProperties
  <2>9. QED BY <2>6, <2>8
<1>2. TypeOK /\ [Next]_vars =>
        [\A ip \in IPs : Remaining(ip)' > Remaining(ip) /\ Locked(ip)'
           => Len(login_attempts[ip]') > Len(login_attempts[ip])]_vars
  BY <1>1
<1>3. QED BY <1>2, TypeCorrect, PTL DEF Spec, LockoutShrinks

-----------------------------------------------------------------------------
(* How many failures get through *)

Recent(a) == {i \in DOMAIN a : a[i] < Base}
Asking(ip) == {r \in Requests : req[r] # None /\ req[r].at = "query" /\ req[r].ip = ip}

\* Whoever asks now may fail: with those that did, they are no more than that.
Allowed == Threshold - 1 + Cardinality(Requests)
FewGuess == \A ip \in IPs : Cardinality(Recent(login_attempts[ip])) + Cardinality(Asking(ip)) <= Allowed

LEMMA RecentIs ==
    ASSUME NEW a, Ages(a)
    PROVE  IsFiniteSet(Recent(a)) /\ Cardinality(Recent(a)) \in Nat /\ Cardinality(Recent(a)) <= Len(a)
<1>1. Len(a) \in Nat /\ DOMAIN a = 1..Len(a) BY AgesAre
<1>2. Recent(a) \in SUBSET (1..Len(a)) BY <1>1 DEF Recent
<1>3. IsFiniteSet(1..Len(a)) /\ Cardinality(1..Len(a)) = Len(a)
  <2>1. 1 \in Int /\ Len(a) \in Int /\ (1 > Len(a) => Len(a) = 0) BY <1>1
  <2>2. QED BY <2>1, FS_Interval
<1>4. QED BY <1>2, <1>3, FS_Subset, FS_CardinalityType

\* Neither forgetting nor time adds a recent failure.
LEMMA RecentStep ==
    ASSUME NEW a, Ages(a)
    PROVE  /\ Cardinality(Recent(Kept(a))) <= Cardinality(Recent(a))
           /\ Cardinality(Recent(Older(a))) <= Cardinality(Recent(a))
           /\ Cardinality(Recent(Append(a, 0))) <= Cardinality(Recent(a)) + 1
           /\ Cardinality(Recent(<<>>)) = 0
<1>1. Len(a) \in Nat /\ DOMAIN a = 1..Len(a) /\ (\A i \in 1..Len(a) : a[i] \in 0..Window)
      /\ Expired(a) \in 0..Len(a)
  BY AgesAre, ExpiredIs
<1>2. IsFiniteSet(Recent(a)) BY RecentIs
<1>3. Cardinality(Recent(Kept(a))) <= Cardinality(Recent(a))
  <2> DEFINE s == Kept(a)
             f == [i \in Recent(s) |-> Expired(a) + i]
  <2>1. /\ Len(s) = Len(a) - Expired(a) /\ Len(s) \in Nat /\ DOMAIN s = 1..Len(s)
        /\ \A i \in 1..Len(s) : s[i] = a[Expired(a) + i]
    BY KeptIs, AgesAre
  <2> HIDE DEF s
  <2>2. \A i \in Recent(s) : i \in 1..Len(s) /\ Expired(a) + i \in Recent(a)
    BY <1>1, <2>1 DEF Recent
  <2>3. f \in [Recent(s) -> Recent(a)] BY <2>2
  <2>4. \A i, j \in Recent(s) : f[i] = f[j] => i = j BY <1>1, <2>2
  <2>5. f \in Injection(Recent(s), Recent(a)) BY <2>3, <2>4 DEF Injection, IsInjective
  <2> HIDE DEF f
  <2>6. Cardinality(Recent(s)) <= Cardinality(Recent(a)) BY <1>2, <2>5, FS_Injection
  <2>7. QED BY <2>6 DEF s
<1>4. Cardinality(Recent(Older(a))) <= Cardinality(Recent(a))
  <2>1. /\ Ages(Older(a)) /\ Len(Older(a)) = Len(a)
        /\ \A i \in 1..Len(a) : Older(a)[i] = IF a[i] < Window THEN a[i] + 1 ELSE Window
    BY OlderIs
  <2>2. DOMAIN Older(a) = 1..Len(a) BY <2>1, AgesAre
  <2>3. \A i \in 1..Len(a) : Older(a)[i] < Base => a[i] < Base BY <1>1, <2>1, LoginAssumption
  <2>4. Recent(Older(a)) \in SUBSET Recent(a) BY <1>1, <2>2, <2>3 DEF Recent
  <2>5. QED BY <1>2, <2>4, FS_Subset
<1>5. Cardinality(Recent(Append(a, 0))) <= Cardinality(Recent(a)) + 1
  <2> DEFINE b == Append(a, 0)
             n == Len(a) + 1
  <2>1. a \in Seq(0..Window) /\ 0 \in 0..Window BY LoginAssumption DEF Ages
  <2>2. Ages(b) /\ Len(b) = n /\ \A i \in 1..Len(a) : b[i] = a[i]
    BY <2>1, AgesAppend, AppendProperties
  <2>3. DOMAIN b = 1..n BY <2>2, AgesAre
  <2> HIDE DEF b
  <2>4. Recent(b) \in SUBSET (Recent(a) \cup {n}) BY <1>1, <2>2, <2>3 DEF Recent
  <2>5. /\ IsFiniteSet(Recent(a) \cup {n}) /\ Cardinality(Recent(a)) \in Nat
        /\ Cardinality(Recent(a) \cup {n}) = IF n \in Recent(a) THEN Cardinality(Recent(a))
                                              ELSE Cardinality(Recent(a)) + 1
    BY <1>2, FS_AddElement, FS_CardinalityType
  <2>6. /\ Cardinality(Recent(b)) <= Cardinality(Recent(a) \cup {n})
        /\ Cardinality(Recent(b)) \in Nat /\ Cardinality(Recent(a) \cup {n}) \in Nat
    BY <2>4, <2>5, FS_Subset, FS_CardinalityType
  <2>7. QED BY <2>5, <2>6 DEF b
<1>6. Cardinality(Recent(<<>>)) = 0
  <2>1. Recent(<<>>) = {} BY DEF Recent
  <2>2. QED BY <2>1, FS_EmptySet
<1>7. QED BY <1>3, <1>4, <1>5, <1>6

\* An address that is not locked has fewer recent failures than the threshold.
LEMMA UnlockedRecent ==
    ASSUME TypeOK, NEW ip \in IPs, ~Locked(ip)
    PROVE  Cardinality(Recent(Kept(login_attempts[ip]))) <= Threshold - 1
<1> DEFINE a == login_attempts[ip]
           s == Kept(a)
<1>1. Ages(a) /\ Rest(s) <= 0
  <2>1. Ages(a) BY TypeOKAges
  <2>2. Rest(s) \in Int BY <2>1, RestIs
  <2>3. QED BY <2>1, <2>2, RemainingIs DEF Locked
<1>2. Ages(s) /\ Len(s) \in Nat /\ DOMAIN s = 1..Len(s) BY <1>1, KeptIs, AgesAre
<1>3. Len(s) >= Threshold => s[Len(s)] >= Base BY <1>1, RestIs
<1>4. Threshold \in Nat \ {0} /\ Base \in Nat BY LoginAssumption
<1> HIDE DEF s
<1>5. CASE Len(s) < Threshold
  <2>1. Cardinality(Recent(s)) \in Nat /\ Cardinality(Recent(s)) <= Len(s) BY <1>2, RecentIs
  <2>2. QED BY <1>2, <1>4, <1>5, <2>1 DEF s
<1>6. CASE ~(Len(s) < Threshold)
  <2>1. Len(s) \in 1..Len(s) /\ s[Len(s)] >= Base BY <1>2, <1>3, <1>4, <1>6
  <2>2. ASSUME NEW i \in 1..Len(s) PROVE ~(s[i] < Base)
    <3>1. s[i] >= s[Len(s)] BY <1>2, <2>1 DEF Ages
    <3>2. s[i] \in 0..Window /\ s[Len(s)] \in 0..Window BY <1>2, <2>1, AgesAre
    <3>3. QED BY <1>4, <2>1, <3>1, <3>2, LoginAssumption
  <2>3. Recent(s) = {} BY <1>2, <2>2 DEF Recent
  <2>4. Cardinality(Recent(s)) = 0 BY <2>3, FS_EmptySet
  <2>5. QED BY <1>4, <2>4 DEF s
<1>7. QED BY <1>5, <1>6

LEMMA AskingIs ==
    ASSUME NEW ip \in IPs
    PROVE  /\ IsFiniteSet(Asking(ip)) /\ Cardinality(Asking(ip)) \in 0..Cardinality(Requests)
           /\ IsFiniteSet(Asking(ip)') /\ Cardinality(Asking(ip)') \in 0..Cardinality(Requests)
           /\ Cardinality(Requests) \in Nat
<1>1. Asking(ip) \in SUBSET Requests /\ Asking(ip)' \in SUBSET Requests BY DEF Asking
<1>2. IsFiniteSet(Requests) BY LoginAssumption
<1>3. QED BY <1>1, <1>2, FS_Subset, FS_CardinalityType

LEMMA InitFewGuess == Init => FewGuess
<1> SUFFICES ASSUME Init, NEW ip \in IPs
             PROVE  Cardinality(Recent(login_attempts[ip])) + Cardinality(Asking(ip)) <= Allowed
  BY DEF FewGuess
<1>1. login_attempts[ip] = <<>> /\ Cardinality(Recent(<<>>)) = 0
  BY EmptyAges, RecentStep DEF Init
<1>2. QED BY <1>1, AskingIs, LoginAssumption DEF Allowed

LEMMA NextFewGuess == TypeOK /\ FewGuess /\ [Next]_vars => FewGuess'
<1> SUFFICES ASSUME TypeOK, FewGuess, [Next]_vars, NEW ip \in IPs
             PROVE  Cardinality(Recent(login_attempts'[ip])) + Cardinality(Asking(ip)') <= Allowed
  BY DEF FewGuess
<1> DEFINE a == login_attempts[ip]
           b == login_attempts'[ip]
<1>1. Ages(a) /\ AddressStep(ip) /\ Ages(b)
  <2>1. TypeOK' BY NextTypeOK
  <2>2. QED BY <2>1, TypeOKAges, StepIs DEF TypeOK, Ages
<1>2. /\ Cardinality(Recent(a)) \in Nat /\ Cardinality(Recent(b)) \in Nat
      /\ Cardinality(Asking(ip)) \in Nat /\ Cardinality(Asking(ip)') \in Nat
      /\ Cardinality(Asking(ip)') <= Cardinality(Requests) /\ Cardinality(Requests) \in Nat
      /\ Threshold \in Nat \ {0}
  BY <1>1, RecentIs, AskingIs, LoginAssumption
<1>3. Cardinality(Recent(a)) + Cardinality(Asking(ip)) <= Allowed BY DEF FewGuess
<1>4. req \in [Requests -> Waiting \cup {None}] BY TypeOKAges
<1>5. ASSUME NEW r \in Requests, NEW i \in IPs, Begins(r, i)
      PROVE  Cardinality(Recent(b)) + Cardinality(Asking(ip)') <= Allowed
  <2>1. b = Kept(a) BY <1>5 DEF Begins, Pruned, Kept
  <2>2. CASE i = ip
    <3>1. Cardinality(Recent(b)) <= Threshold - 1 BY <1>5, <2>1, <2>2, UnlockedRecent DEF Begins
    <3>2. QED BY <1>2, <3>1 DEF Allowed
  <2>3. CASE i # ip
    <3>1. req' = [req EXCEPT ![r] = [at |-> "query", ip |-> i]] BY <1>5 DEF Begins
    <3>2. Asking(ip)' \subseteq Asking(ip) BY <1>4, <2>3, <3>1 DEF Asking
    <3>3. Cardinality(Recent(b)) <= Cardinality(Recent(a)) BY <1>1, <2>1, RecentStep
    <3>4. Cardinality(Asking(ip)') <= Cardinality(Asking(ip)) BY <3>2, AskingIs, FS_Subset
    <3>5. QED BY <1>2, <1>3, <3>3, <3>4, LoginAssumption DEF Allowed
  <2>4. QED BY <2>2, <2>3
<1>6. ASSUME NEW r \in Requests, Fails(r)
      PROVE  Cardinality(Recent(b)) + Cardinality(Asking(ip)') <= Allowed
  <2>1. /\ req[r] # None /\ req[r].at = "query" /\ req[r] \in Waiting
        /\ login_attempts' = [login_attempts EXCEPT ![req[r].ip] = Append(@, 0)]
        /\ req' = [req EXCEPT ![r] = [req[r] EXCEPT !.at = "audit"]]
    BY <1>4, <1>6 DEF Fails
  <2>2. req'[r].at = "audit" /\ \A v \in Requests : v # r => req'[v] = req[v]
    BY <1>4, <2>1 DEF Waiting
  <2>3. Asking(ip)' \subseteq Asking(ip) \ {r} BY <2>2 DEF Asking
  <2>4. CASE req[r].ip = ip
    <3>1. r \in Asking(ip) BY <2>1, <2>4 DEF Asking
    <3>2. IsFiniteSet(Asking(ip) \ {r}) /\ Cardinality(Asking(ip) \ {r}) = Cardinality(Asking(ip)) - 1
      BY <3>1, AskingIs, FS_RemoveElement
    <3>3. Cardinality(Asking(ip)') <= Cardinality(Asking(ip)) - 1 BY <2>3, <3>2, FS_Subset
    <3>4. b = Append(a, 0) BY <2>1, <2>4 DEF TypeOK
    <3>5. Cardinality(Recent(b)) <= Cardinality(Recent(a)) + 1 BY <1>1, <3>4, RecentStep
    <3>6. QED BY <1>2, <1>3, <3>3, <3>5, LoginAssumption DEF Allowed
  <2>5. CASE req[r].ip # ip
    <3>1. b = a BY <2>1, <2>5 DEF TypeOK
    <3>2. Cardinality(Asking(ip)') <= Cardinality(Asking(ip)) BY <2>3, AskingIs, FS_Subset
    <3>3. QED BY <1>2, <1>3, <3>1, <3>2, LoginAssumption DEF Allowed
  <2>6. QED BY <2>4, <2>5
<1>7. ASSUME Asking(ip)' \subseteq Asking(ip), Cardinality(Recent(b)) <= Cardinality(Recent(a))
      PROVE  Cardinality(Recent(b)) + Cardinality(Asking(ip)') <= Allowed
  <2>1. Cardinality(Asking(ip)') <= Cardinality(Asking(ip)) BY <1>7, AskingIs, FS_Subset
  <2>2. QED BY <1>2, <1>3, <1>7, <2>1, LoginAssumption DEF Allowed
<1>8. Cardinality(Recent(Kept(a))) <= Cardinality(Recent(a)) /\ Cardinality(Recent(<<>>)) <= Cardinality(Recent(a))
       /\ Cardinality(Recent(Older(a))) <= Cardinality(Recent(a))
  BY <1>1, <1>2, RecentStep
<1>9. ASSUME login_attempts' = Pruned, Asking(ip)' \subseteq Asking(ip)
       PROVE  Cardinality(Recent(b)) + Cardinality(Asking(ip)') <= Allowed
  <2>1. b = Kept(a) BY <1>9, RemainingIs
  <2>2. QED BY <1>7, <1>8, <1>9, <2>1
<1>10. ASSUME NEW i \in IPs, Refused(i) PROVE Cardinality(Recent(b)) + Cardinality(Asking(ip)') <= Allowed
  BY <1>9, <1>10 DEF Refused, Asking
<1>11. ASSUME NEW i \in IPs, AdminLogsIn(i) PROVE Cardinality(Recent(b)) + Cardinality(Asking(ip)') <= Allowed
  <2>1. b = IF ip = i THEN <<>> ELSE Kept(a) BY <1>11, RemainingIs DEF AdminLogsIn, Pruned, Kept
  <2>2. Asking(ip)' = Asking(ip) BY <1>11 DEF AdminLogsIn, Asking
  <2>3. QED BY <1>7, <1>8, <2>1, <2>2
<1>12. ASSUME NEW r \in Requests, LogsIn(r) PROVE Cardinality(Recent(b)) + Cardinality(Asking(ip)') <= Allowed
  <2>1. b = <<>> \/ b = a BY <1>12 DEF LogsIn, TypeOK
  <2>2. Asking(ip)' \subseteq Asking(ip) BY <1>4, <1>12 DEF LogsIn, Asking
  <2>3. Cardinality(Recent(b)) <= Cardinality(Recent(a)) BY <1>2, <1>8, <2>1
  <2>4. QED BY <1>7, <2>2, <2>3
<1>13. ASSUME NEW r \in Requests, FailureAnswered(r)
       PROVE  Cardinality(Recent(b)) + Cardinality(Asking(ip)') <= Allowed
  <2>1. Asking(ip)' \subseteq Asking(ip) BY <1>4, <1>13 DEF FailureAnswered, Asking
  <2>2. QED BY <1>9, <1>13, <2>1 DEF FailureAnswered
<1>14. ASSUME Tick PROVE Cardinality(Recent(b)) + Cardinality(Asking(ip)') <= Allowed
  <2>1. b = Older(a) BY <1>14 DEF Tick, Older
  <2>2. Asking(ip)' = Asking(ip) BY <1>14 DEF Tick, Asking
  <2>3. QED BY <1>7, <1>8, <2>1, <2>2
<1>15. ASSUME NEW r \in Requests, Aborts(r) PROVE Cardinality(Recent(b)) + Cardinality(Asking(ip)') <= Allowed
  <2>1. b = a BY <1>15 DEF Aborts
  <2>2. Asking(ip)' \subseteq Asking(ip) BY <1>4, <1>15 DEF Aborts, Asking
  <2>3. QED BY <1>2, <1>7, <2>1, <2>2
<1>16. CASE Restart
  <2>1. b = <<>> BY <1>16 DEF Restart
  <2>2. Asking(ip)' \subseteq Asking(ip) BY <1>16 DEF Restart, Asking
  <2>3. QED BY <1>7, <1>8, <2>1, <2>2
<1>17. CASE UNCHANGED vars
  <2>1. b = a /\ Asking(ip)' = Asking(ip) BY <1>17 DEF vars, Asking
  <2>2. QED BY <1>3, <2>1
<1>18. QED
  BY <1>5, <1>6, <1>10, <1>11, <1>12, <1>13, <1>14, <1>15, <1>16, <1>17 DEF Next

\* However requests of an address overlap, its failures of any Base of time
\* since its last login or the server's start are no more than the threshold
\* lets through and those under way at once.
THEOREM GuessesBetweenLoginsHold == Spec => []GuessesBetweenLogins
<1>1. TypeOK /\ FewGuess => GuessesBetweenLogins
  <2> SUFFICES ASSUME TypeOK, FewGuess, NEW ip \in IPs
               PROVE  Cardinality(Recent(login_attempts[ip])) <= Threshold - 1 + Cardinality(Requests)
    BY DEF GuessesBetweenLogins, Recent
  <2>1. Cardinality(Recent(login_attempts[ip])) + Cardinality(Asking(ip)) <= Allowed BY DEF FewGuess
  <2>2. Cardinality(Recent(login_attempts[ip])) \in Nat BY TypeOKAges, RecentIs
  <2>3. QED BY <2>1, <2>2, AskingIs, LoginAssumption DEF Allowed
<1>2. QED BY InitFewGuess, NextFewGuess, TypeCorrect, <1>1, PTL DEF Spec

-----------------------------------------------------------------------------
(* Towards the end: what LockoutEnds rests on besides fairness *)

\* While an address stays locked, nobody new asks: a step takes one of those who
\* asked off, or leaves them and does not lengthen the lockout, which time shortens.
LockoutNearsItsEnd ==
    [][\A ip \in IPs : Locked(ip) /\ Locked(ip)' =>
         \/ Asking(ip)' \subseteq Asking(ip) /\ Asking(ip)' # Asking(ip)
         \/ /\ Asking(ip)' = Asking(ip) /\ Remaining(ip)' <= Remaining(ip)
            /\ Tick => Remaining(ip)' < Remaining(ip)]_vars

LEMMA RestKept ==
    ASSUME TypeOK, NEW ip \in IPs, Locked(ip)',
           login_attempts'[ip] \in {login_attempts[ip], Kept(login_attempts[ip]), <<>>}
    PROVE  login_attempts'[ip] # <<>> /\ Remaining(ip)' = Remaining(ip)
<1>1. Ages(login_attempts[ip]) BY TypeOKAges
<1>2. /\ Rest(Kept(Kept(login_attempts[ip]))) = Rest(Kept(login_attempts[ip])) /\ Rest(Kept(<<>>)) = 0
  BY <1>1, RestIs
<1>3. /\ Remaining(ip) = Rest(Kept(login_attempts[ip])) /\ Remaining(ip)' = Rest(Kept(login_attempts'[ip]))
  BY RemainingIs
<1>4. Remaining(ip)' > 0 BY DEF Locked
<1>5. login_attempts'[ip] # <<>> BY <1>2, <1>3, <1>4
<1>6. QED BY <1>2, <1>3, <1>5

LEMMA LockoutNears ==
    ASSUME TypeOK, [Next]_vars, NEW ip \in IPs, Locked(ip), Locked(ip)'
    PROVE  \/ Asking(ip)' \subseteq Asking(ip) /\ Asking(ip)' # Asking(ip)
           \/ /\ Asking(ip)' = Asking(ip) /\ Remaining(ip)' <= Remaining(ip)
              /\ Tick => Remaining(ip)' < Remaining(ip)
<1> DEFINE a == login_attempts[ip]
           b == login_attempts'[ip]
           Kin == b \in {a, Kept(a), <<>>}
<1>1. /\ login_attempts = [i \in IPs |-> login_attempts[i]] /\ req \in [Requests -> Waiting \cup {None}]
  BY TypeOKAges
<1>2. Pruned = [i \in IPs |-> Kept(login_attempts[i])] BY DEF Pruned, Kept
<1>3. Remaining(ip) \in Int /\ Remaining(ip)' \in Int /\ Remaining(ip)' > 0 BY RemainingInt DEF Locked
<1>4. Tick => Remaining(ip)' < Remaining(ip)
  <2> SUFFICES ASSUME Tick PROVE Remaining(ip)' < Remaining(ip)
    OBVIOUS
  <2>1. b = Older(a) BY DEF Tick, Older
  <2>2. Ages(a) BY TypeOKAges
  <2>3. Rest(Kept(Older(a))) = 0 \/ Rest(Kept(Older(a))) <= Rest(Kept(a)) - 1 BY <2>2, RestOlder
  <2>4. Remaining(ip) = Rest(Kept(a)) /\ Remaining(ip)' = Rest(Kept(b)) BY RemainingIs
  <2>5. Remaining(ip)' = 0 \/ Remaining(ip)' <= Remaining(ip) - 1 BY <2>1, <2>3, <2>4
  <2>6. QED BY <1>3, <2>5
<1>5. req' = req => Asking(ip)' = Asking(ip) BY DEF Asking
<1>6. ASSUME Kin PROVE b # <<>> /\ Remaining(ip)' = Remaining(ip) BY <1>6, RestKept
<1>7. ASSUME login_attempts' = Pruned PROVE Kin BY <1>2, <1>7
<1> HIDE DEF a, b, Kin
<1>8. ASSUME NEW i \in IPs, Refused(i) PROVE Kin /\ req' = req BY <1>7, <1>8 DEF Refused
<1>9. ASSUME NEW i \in IPs, AdminLogsIn(i) PROVE Kin /\ req' = req
  <2>1. login_attempts' = [Pruned EXCEPT ![i] = <<>>] /\ req' = req BY <1>9 DEF AdminLogsIn
  <2>2. b = IF ip = i THEN <<>> ELSE Kept(a) BY <1>2, <2>1 DEF a, b
  <2>3. QED BY <2>1, <2>2 DEF Kin
<1>10. ASSUME NEW i \in IPs, NEW r \in Requests, Begins(r, i) PROVE Kin /\ Asking(ip)' = Asking(ip)
  <2>1. /\ login_attempts' = Pruned /\ req[r] = None /\ i # ip
        /\ req' = [req EXCEPT ![r] = [at |-> "query", ip |-> i]]
    BY <1>10 DEF Begins
  <2>2. \A q \in Requests : req'[q] = IF q = r THEN [at |-> "query", ip |-> i] ELSE req[q] BY <1>1, <2>1
  <2>3. QED BY <1>7, <2>1, <2>2 DEF Asking
<1>11. ASSUME NEW r \in Requests, LogsIn(r) PROVE Kin /\ (b # <<>> => Asking(ip)' = Asking(ip))
  <2>1. /\ req[r] # None /\ req' = [req EXCEPT ![r] = None]
        /\ login_attempts' = [login_attempts EXCEPT ![req[r].ip] = <<>>]
    BY <1>11 DEF LogsIn
  <2>2. b = IF ip = req[r].ip THEN <<>> ELSE a BY <1>1, <2>1 DEF a, b
  <2>3. \A q \in Requests : req'[q] = IF q = r THEN None ELSE req[q] BY <1>1, <2>1
  <2>4. QED BY <2>2, <2>3 DEF Asking, Kin
<1>12. ASSUME NEW r \in Requests, FailureAnswered(r) PROVE Kin /\ Asking(ip)' = Asking(ip)
  <2>1. req[r] # None /\ req[r].at = "audit" /\ req' = [req EXCEPT ![r] = None] /\ login_attempts' = Pruned
    BY <1>12 DEF FailureAnswered
  <2>2. \A q \in Requests : req'[q] = IF q = r THEN None ELSE req[q] BY <1>1, <2>1
  <2>3. QED BY <1>7, <2>1, <2>2 DEF Asking
<1>13. ASSUME NEW r \in Requests, Fails(r)
       PROVE  \/ Asking(ip)' \subseteq Asking(ip) /\ Asking(ip)' # Asking(ip)
              \/ Kin /\ Asking(ip)' = Asking(ip)
  <2>1. /\ req[r] # None /\ req[r].at = "query" /\ req' = [req EXCEPT ![r].at = "audit"]
        /\ login_attempts' = [login_attempts EXCEPT ![req[r].ip] = Append(@, 0)]
    BY <1>13 DEF Fails
  <2>2. req[r] \in Waiting BY <1>1, <2>1
  <2>3. /\ req'[r].at = "audit" /\ req'[r].ip = req[r].ip
        /\ \A q \in Requests : q # r => req'[q] = req[q]
    BY <1>1, <2>1, <2>2 DEF Waiting
  <2>4. Asking(ip)' = Asking(ip) \ {r} BY <2>3 DEF Asking
  <2>5. CASE req[r].ip = ip
    <3>1. r \in Asking(ip) BY <2>1, <2>5 DEF Asking
    <3>2. QED BY <2>4, <3>1
  <2>6. CASE req[r].ip # ip
    <3>1. b = a BY <1>1, <2>1, <2>6 DEF a, b
    <3>2. r \notin Asking(ip) BY <2>6 DEF Asking
    <3>3. QED BY <2>4, <3>1, <3>2 DEF Kin
  <2>7. QED BY <2>5, <2>6
<1>14. CASE UNCHANGED vars
  <2>1. b = a /\ req' = req BY <1>14 DEF vars, a, b
  <2>2. QED BY <1>3, <1>4, <1>5, <1>6, <2>1 DEF Kin
<1>15. CASE Tick
  <2>1. req' = req BY <1>15 DEF Tick
  <2>2. QED BY <1>3, <1>4, <1>5, <1>15, <2>1
<1>16. ASSUME NEW r \in Requests, Aborts(r)
       PROVE  \/ Asking(ip)' \subseteq Asking(ip) /\ Asking(ip)' # Asking(ip)
              \/ Kin /\ Asking(ip)' = Asking(ip)
  <2>1. req' = [req EXCEPT ![r] = None] /\ b = a BY <1>16 DEF Aborts, a, b
  <2>2. \A q \in Requests : req'[q] = IF q = r THEN None ELSE req[q] BY <1>1, <2>1
  <2>3. Asking(ip)' = Asking(ip) \ {r} BY <2>2 DEF Asking
  <2>4. QED BY <2>1, <2>3 DEF Kin
<1>17. CASE Restart
  <2>1. b = <<>> BY <1>17 DEF Restart, b
  <2>2. QED BY <1>6, <2>1 DEF Kin
<1>18. QED
  <2>1. CASE Kin /\ Asking(ip)' = Asking(ip) BY <1>3, <1>4, <1>6, <2>1
  <2>2. QED
    BY <1>5, <1>6, <1>8, <1>9, <1>10, <1>11, <1>12, <1>13, <1>14, <1>15, <1>16, <1>17, <2>1 DEF Next

\* A lockout gets nearer to its end with every tick and with every failure of
\* those who had asked before it: they are only so many, since a locked address
\* is refused.
THEOREM LockoutNearsItsEndHolds == Spec => LockoutNearsItsEnd
<1>1. TypeOK /\ [Next]_vars =>
        [\A ip \in IPs : Locked(ip) /\ Locked(ip)' =>
           \/ Asking(ip)' \subseteq Asking(ip) /\ Asking(ip)' # Asking(ip)
           \/ /\ Asking(ip)' = Asking(ip) /\ Remaining(ip)' <= Remaining(ip)
              /\ Tick => Remaining(ip)' < Remaining(ip)]_vars
  BY LockoutNears
<1>2. QED BY <1>1, TypeCorrect, PTL DEF Spec, LockoutNearsItsEnd

=============================================================================
