-------------------------- MODULE LoginLimitProofs --------------------------
(***************************************************************************)
(* The limit on logins for any number of clients and overlapping attempts, *)
(* any limit, and any delay between the clock and the mutex that is        *)
(* shorter than a window.                                                  *)
(***************************************************************************)
EXTENDS LoginLimit, FiniteSetTheorems, SequenceTheorems, WellFoundedInduction, TLAPS

Entry == [window : Int, count : Nat]
Busy  == [stage : {"asking", "checking", "refused", "known"}, ip : Peer, now : Nat]

LimitTypeOK ==
  /\ time \in Nat /\ latest \in Nat /\ lastCleanup \in Int
  /\ attempts \in [Peer -> Entry]
  /\ req \in [Request -> Busy \union {Idle}]
  /\ granted \in [Peer -> Seq(Nat)]
  /\ through \in [Peer -> Seq(Nat)] /\ won \in [Peer -> Seq(Nat)]

\* How many attempts of the window of an entry were let through.
Passed(item) == IF item.count <= Limit THEN item.count ELSE Limit

\* The times of the attempts let through since a success, an entry of the table, and the
\* present: the last times are of the entry's window, those before them of a window that was
\* over when this one began.
Fits(times, item, t) ==
  LET n == Len(times)  c == Passed(item) IN
  /\ item = None \/ (item.count > 0 /\ item.window \in Nat /\ item.window <= t)
  /\ \A i, j \in 1..n : i <= j => times[i] <= times[j]
  /\ \A i \in 1..n : times[i] <= t
  /\ item # None =>
       /\ \A i \in 1..n : i <= n - c => times[i] <= item.window + Delay
       /\ \A i \in 1..n : i > n - c => times[i] >= item.window
       /\ item.window > t - Minute - Delay => n >= c

\* The cleanup is never longer than a window behind the latest attempt.
CleanedUp ==
  /\ lastCleanup <= latest /\ latest <= time
  /\ \/ lastCleanup > latest - Minute
     \/ lastCleanup = -Minute /\ latest = 0 /\ \A ip \in Peer : attempts[ip] = None
  /\ \A ip \in Peer : attempts[ip] # None => attempts[ip].window > lastCleanup - Minute

\* An attempt is at the mutex at most Delay after it read the clock.
Prompt == \A r \in Request : req[r].stage = "asking" => req[r].now <= time /\ time <= req[r].now + Delay

LInv ==
  /\ LimitTypeOK /\ CleanedUp /\ Prompt
  /\ \A ip \in Peer : Fits(granted[ip], attempts[ip], time)

-----------------------------------------------------------------------------
(* Times in order.                                                          *)

\* After drops a prefix: at least one that is old throughout, nothing of one that is young.
LEMMA AfterIs ==
  ASSUME NEW times \in Seq(Nat), NEW t0 \in Int
  PROVE  \E k \in 0..Len(times) :
           /\ After(times, t0) \in Seq(Nat) /\ Len(After(times, t0)) = Len(times) - k
           /\ \A i \in 1..(Len(times) - k) : After(times, t0)[i] = times[i + k]
           /\ \A m \in 0..Len(times) : (\A i \in 1..m : times[i] <= t0) => m <= k
           /\ \A m \in 0..Len(times) : (\A i \in (m + 1)..Len(times) : times[i] > t0) => k <= m
<1> DEFINE n == Len(times)
           old == {i \in 1..n : times[i] <= t0}
           k == Cardinality(old)
<1>1. n \in Nat /\ \A i \in 1..n : times[i] \in Nat
  OBVIOUS
<1>2. IsFiniteSet(1..n) /\ \A m \in 0..n : IsFiniteSet(1..m) /\ Cardinality(1..m) = m
  BY <1>1, FS_Interval
<1>3. IsFiniteSet(old) /\ k \in Nat
  BY <1>2, FS_Subset, FS_CardinalityType
<1>4. \A m \in 0..n : (\A i \in 1..m : times[i] <= t0) => m <= k
  <2> SUFFICES ASSUME NEW m \in 0..n, \A i \in 1..m : times[i] <= t0 PROVE m <= k
    OBVIOUS
  <2>1. 1..m \subseteq old
    BY <1>1
  <2> QED
    BY <1>2, <1>3, <2>1, FS_Subset
<1>5. \A m \in 0..n : (\A i \in (m + 1)..n : times[i] > t0) => k <= m
  <2> SUFFICES ASSUME NEW m \in 0..n, \A i \in (m + 1)..n : times[i] > t0 PROVE k <= m
    OBVIOUS
  <2>1. old \subseteq 1..m
    BY <1>1
  <2> QED
    BY <1>2, <1>3, <2>1, FS_Subset
<1>6. k <= n
  BY <1>1, <1>5
<1>7. After(times, t0) = SubSeq(times, k + 1, n)
  BY DEF After
<1> DEFINE new == After(times, t0)
<1> HIDE DEF k, old, new
<1>8. /\ new \in Seq(Nat) /\ Len(new) = n - k
      /\ \A i \in 1..(n - k) : new[i] = times[i + k]
  <2>1. /\ SubSeq(times, k + 1, n) \in Seq(Nat) /\ Len(SubSeq(times, k + 1, n)) = n - k
        /\ \A i \in 1..(n - k) : SubSeq(times, k + 1, n)[i] = times[i + k]
    BY <1>1, <1>3, <1>6
  <2> QED
    BY <1>7, <2>1 DEF new
<1>9. k \in 0..n
  BY <1>1, <1>3, <1>6
<1>10. \E j \in 0..n :
         /\ new \in Seq(Nat) /\ Len(new) = n - j
         /\ \A i \in 1..(n - j) : new[i] = times[i + j]
         /\ \A m \in 0..n : (\A i \in 1..m : times[i] <= t0) => m <= j
         /\ \A m \in 0..n : (\A i \in (m + 1)..n : times[i] > t0) => j <= m
  <2> HIDE DEF n
  <2> QED
    BY <1>4, <1>5, <1>8, <1>9
<1> QED
  BY <1>10 DEF new

\* What is let through counts up to the limit.
LEMMA PassedType ==
  ASSUME LoginAssumption, NEW item \in Entry
  PROVE  /\ Passed(item) \in 0..Limit /\ Limit \in Nat \ {0} /\ Minute \in Nat \ {0}
         /\ Delay \in Nat /\ Delay < Minute /\ Passed(None) = 0 /\ None \in Entry
         /\ item.window \in Int /\ item.count \in Nat
         /\ None.window = -Minute /\ None.count = 0
BY DEF Passed, Entry, LoginAssumption, None

LEMMA Shifted ==
  ASSUME NEW x \in Int, NEW w \in Int, NEW now \in Int, NEW t \in Int, NEW d \in Int, NEW m \in Int,
         x <= w + d, now - w >= m, now <= t
  PROVE  x <= t - (m - d)
OBVIOUS

\* An entry that is old is as good as none.
LEMMA OldFits ==
  ASSUME NEW times, NEW item, NEW t, Fits(times, item, t)
  PROVE  Fits(times, None, t)
BY DEF Fits

\* Time passes, and what is too old to matter is forgotten.
LEMMA TickFits ==
  ASSUME LoginAssumption, NEW times \in Seq(Nat), NEW item \in Entry, NEW t \in Nat,
         Fits(times, item, t)
  PROVE  Fits(After(times, t - Minute - Delay), item, t + 1)
<1> DEFINE t0 == t - Minute - Delay
           new == After(times, t0)
           n == Len(times)
           c == Passed(item)
<1>1. /\ n \in Nat /\ c \in 0..Limit /\ Limit \in Nat /\ Minute \in Nat \ {0} /\ Delay \in Nat
      /\ \A i \in 1..n : times[i] \in Nat
  BY PassedType
<1>2. PICK k \in 0..n :
        /\ new \in Seq(Nat) /\ Len(new) = n - k
        /\ \A i \in 1..(n - k) : new[i] = times[i + k]
        /\ \A m \in 0..n : (\A i \in (m + 1)..n : times[i] > t0) => k <= m
  <2>1. t0 \in Int
    BY <1>1
  <2> QED
    BY <2>1, AfterIs
<1> HIDE DEF new, c
<1>3. \A i \in 1..(n - k) : i + k \in 1..n
  BY <1>1
<1>4. /\ item = None \/ (item.count > 0 /\ item.window \in Nat /\ item.window <= t + 1)
      /\ \A i, j \in 1..(n - k) : i <= j => new[i] <= new[j]
      /\ \A i \in 1..(n - k) : new[i] <= t + 1
  <2>1. item = None \/ (item.count > 0 /\ item.window \in Nat /\ item.window <= t + 1)
    BY DEF Fits
  <2>2. ASSUME NEW i \in 1..(n - k), NEW j \in 1..(n - k), i <= j PROVE new[i] <= new[j]
    <3>1. i + k <= j + k /\ i + k \in 1..n /\ j + k \in 1..n
      BY <1>1, <2>2
    <3> QED
      BY <1>2, <3>1 DEF Fits
  <2>3. ASSUME NEW i \in 1..(n - k) PROVE new[i] <= t + 1
    <3>1. i + k \in 1..n /\ times[i + k] \in Nat /\ times[i + k] <= t
      BY <1>1, <1>3 DEF Fits
    <3> QED
      BY <1>2, <3>1, SMTT(40)
  <2> QED
    BY <2>1, <2>2, <2>3
<1>6. ASSUME item # None
      PROVE  /\ \A i \in 1..(n - k) : i <= n - k - c => new[i] <= item.window + Delay
             /\ \A i \in 1..(n - k) : i > n - k - c => new[i] >= item.window
             /\ item.window > t + 1 - Minute - Delay => n - k >= c
  <2>1. ASSUME NEW i \in 1..(n - k), i <= n - k - c PROVE new[i] <= item.window + Delay
    <3>1. i + k \in 1..n /\ i + k <= n - c
      BY <1>1, <2>1
    <3> QED
      BY <1>2, <1>6, <3>1 DEF Fits, c
  <2>2. ASSUME NEW i \in 1..(n - k), i > n - k - c PROVE new[i] >= item.window
    <3>1. i + k \in 1..n /\ i + k > n - c
      BY <1>1, <2>2
    <3> QED
      BY <1>2, <1>6, <3>1 DEF Fits, c
  <2>3. ASSUME item.window > t + 1 - Minute - Delay PROVE n - k >= c
    <3>1. item.window \in Nat /\ item.window > t0
      BY <1>1, <1>6, <2>3 DEF Fits
    <3>2. n - c \in 0..n
      BY <1>1, <1>6, <3>1 DEF Fits, c
    <3>3. \A i \in (n - c + 1)..n : times[i] > t0
      <4> SUFFICES ASSUME NEW i \in (n - c + 1)..n PROVE times[i] > t0
        OBVIOUS
      <4>1. i \in 1..n /\ i > n - c
        BY <1>1, <3>2
      <4>2. times[i] >= item.window
        BY <1>6, <4>1 DEF Fits, c
      <4> QED
        BY <1>1, <3>1, <4>1, <4>2
    <3>4. k <= n - c
      BY <1>2, <3>2, <3>3
    <3> QED
      BY <1>1, <3>4
  <2> QED
    BY <2>1, <2>2, <2>3
<1> HIDE DEF n
<1>8. item # None =>
        /\ \A i \in 1..Len(new) : i <= Len(new) - c => new[i] <= item.window + Delay
        /\ \A i \in 1..Len(new) : i > Len(new) - c => new[i] >= item.window
        /\ item.window > t + 1 - Minute - Delay => Len(new) >= c
  BY <1>2, <1>6
<1>9. /\ \A i, j \in 1..Len(new) : i <= j => new[i] <= new[j]
      /\ \A i \in 1..Len(new) : new[i] <= t + 1
  BY <1>2, <1>4
<1>10. item = None \/ (item.count > 0 /\ item.window \in Nat /\ item.window <= t + 1)
  BY <1>4
<1>11. Fits(new, item, t + 1)
  BY <1>8, <1>9, <1>10 DEF Fits, c
<1> QED
  BY <1>11 DEF new

\* Who is refused was let through Limit times in the entry's window.
LEMMA RefusedFits ==
  ASSUME LoginAssumption, NEW times \in Seq(Nat), NEW item \in Entry, NEW t \in Nat, NEW now \in Nat,
         Fits(times, item, t), ~Old(item, now), item.count + 1 > Limit, t <= now + Delay
  PROVE  Len(After(times, now - Minute)) >= Limit
<1> DEFINE n == Len(times)
           t0 == now - Minute
<1>1. n \in Nat /\ Passed(item) \in 0..Limit /\ Limit \in Nat \ {0} /\ Minute \in Nat /\ t0 \in Int
  BY PassedType
<1>2. Passed(item) = Limit /\ item # None
  BY PassedType DEF Passed, Old
<1>3. item.window \in Nat /\ item.window > t0 /\ item.window > t - Minute - Delay
  BY <1>2, PassedType DEF Fits, Old
<1>4. n >= Limit
  BY <1>2, <1>3 DEF Fits
<1>5. PICK k \in 0..n :
        /\ Len(After(times, t0)) = n - k
        /\ \A m \in 0..n : (\A i \in (m + 1)..n : times[i] > t0) => k <= m
  BY <1>1, AfterIs
<1>6. \A i \in (n - Limit + 1)..n : times[i] > t0
  <2> SUFFICES ASSUME NEW i \in (n - Limit + 1)..n PROVE times[i] > t0
    OBVIOUS
  <2>1. i \in 1..n /\ i > n - Limit /\ times[i] \in Nat
    BY <1>1, <1>4, SMTT(40)
  <2>2. times[i] >= item.window
    BY <1>2, <2>1 DEF Fits
  <2> QED
    BY <1>1, <1>3, <2>1, <2>2, SMTT(40)
<1>7. k <= n - Limit
  <2>1. n - Limit \in 0..n
    BY <1>1, <1>4
  <2> QED
    BY <1>5, <1>6, <2>1
<1> QED
  BY <1>1, <1>5, <1>7

\* Who is let through is the last of the entry's window.
LEMMA AppendFits ==
  ASSUME LoginAssumption, NEW times \in Seq(Nat), NEW item \in Entry, NEW new \in Entry, NEW t \in Nat,
         Fits(times, item, t), new.count > 0, new.window \in Nat, new.window <= t,
         Passed(new) = Passed(item) + 1,
         \A i \in 1..Len(times) : i <= Len(times) - Passed(item) => times[i] <= new.window + Delay,
         \A i \in 1..Len(times) : i > Len(times) - Passed(item) => times[i] >= new.window,
         new.window > t - Minute - Delay => Len(times) >= Passed(item)
  PROVE  Append(times, t) \in Seq(Nat) /\ Fits(Append(times, t), new, t)
<1> DEFINE n == Len(times)
           c == Passed(item)
           more == Append(times, t)
<1>1. /\ n \in Nat /\ c \in 0..Limit /\ Limit \in Nat /\ Minute \in Nat \ {0} /\ Delay \in Nat
      /\ Delay < Minute
      /\ \A i \in 1..n : times[i] \in Nat
  BY PassedType, SMTT(40)
<1>2. /\ more \in Seq(Nat) /\ Len(more) = n + 1 /\ more[n + 1] = t
      /\ \A i \in 1..n : more[i] = times[i]
  OBVIOUS
<1>0. Passed(new) = c + 1
  OBVIOUS
<1>3. \A i \in 1..Len(more) : i \in 1..n \/ i = n + 1
  BY <1>1, <1>2
<1>4. /\ \A i, j \in 1..n : i <= j => times[i] <= times[j]
      /\ \A i \in 1..n : times[i] <= t
  BY DEF Fits
<1>5. /\ \A i \in 1..n : i <= n - c => times[i] <= new.window + Delay
      /\ \A i \in 1..n : i > n - c => times[i] >= new.window
      /\ new.window > t - Minute - Delay => n >= c
  OBVIOUS
<1> HIDE DEF more, n, c
<1>6. \A i, j \in 1..Len(more) : i <= j => more[i] <= more[j]
  <2> SUFFICES ASSUME NEW i \in 1..Len(more), NEW j \in 1..Len(more), i <= j PROVE more[i] <= more[j]
    OBVIOUS
  <2>1. CASE j \in 1..n
    <3>1. i \in 1..n
      BY <1>1, <1>2, <2>1
    <3> QED
      BY <1>2, <1>4, <2>1, <3>1
  <2>2. CASE j = n + 1 /\ i \in 1..n
    BY <1>2, <1>4, <2>2
  <2>3. CASE j = n + 1 /\ i = n + 1
    BY <1>2, <2>3
  <2> QED
    BY <1>3, <2>1, <2>2, <2>3
<1>7. \A i \in 1..Len(more) : more[i] <= t
  <2> SUFFICES ASSUME NEW i \in 1..Len(more) PROVE more[i] <= t
    OBVIOUS
  <2>1. CASE i \in 1..n
    BY <1>2, <1>4, <2>1
  <2>2. CASE i = n + 1
    BY <1>2, <2>2
  <2> QED
    BY <1>3, <2>1, <2>2
<1>9. \A i \in 1..Len(more) : i <= Len(more) - Passed(new) => more[i] <= new.window + Delay
  <2> SUFFICES ASSUME NEW i \in 1..Len(more), i <= Len(more) - Passed(new) PROVE more[i] <= new.window + Delay
    OBVIOUS
  <2>1. i \in 1..n /\ i <= n - c
    BY <1>0, <1>1, <1>2
  <2> QED
    BY <1>2, <1>5, <2>1
<1>10. \A i \in 1..Len(more) : i > Len(more) - Passed(new) => more[i] >= new.window
  <2> SUFFICES ASSUME NEW i \in 1..Len(more), i > Len(more) - Passed(new) PROVE more[i] >= new.window
    OBVIOUS
  <2>1. CASE i \in 1..n
    <3>1. i > n - c
      BY <1>0, <1>1, <1>2
    <3> QED
      BY <1>2, <1>5, <2>1, <3>1
  <2>2. CASE i = n + 1
    BY <1>2, <2>2
  <2> QED
    BY <1>3, <2>1, <2>2
<1>11. new.window > t - Minute - Delay => Len(more) >= Passed(new)
  BY <1>1, <1>2, <1>5, <1>0
<1>12. Fits(more, new, t)
  BY <1>6, <1>7, <1>9, <1>10, <1>11 DEF Fits
<1> QED
  BY <1>2, <1>12 DEF more

\* An attempt is counted at the mutex.
LEMMA CountFits ==
  ASSUME LoginAssumption, NEW times \in Seq(Nat), NEW item \in Entry, NEW t \in Nat, NEW now \in Nat,
         Fits(times, item, t), now <= t, t <= now + Delay
  PROVE  /\ Stored(Counted(item, now)) \in Entry
         /\ Allowed(Counted(item, now)) => Append(times, t) \in Seq(Nat)
         /\ Fits(IF Allowed(Counted(item, now)) THEN Append(times, t) ELSE times,
                 Stored(Counted(item, now)), t)
         /\ Stored(Counted(item, now)).window = IF Old(item, now) THEN now ELSE item.window
         /\ ~Old(item, now) => item # None
         /\ Passed(Stored(Counted(item, now))) =
              IF Old(item, now) THEN 1
              ELSE IF Allowed(Counted(item, now)) THEN Passed(item) + 1 ELSE Passed(item)
         /\ Old(item, now) => Allowed(Counted(item, now))
<1>1. /\ MaxCount \in Nat /\ MaxCount > Limit /\ Limit \in Nat \ {0} /\ Minute \in Nat \ {0} /\ Delay \in Nat
      /\ Delay < Minute
      /\ item.window \in Int /\ item.count \in Nat /\ Passed(item) \in 0..Limit /\ None \in Entry
      /\ None.window = -Minute /\ Passed(None) = 0
  BY PassedType DEF LoginAssumption
<1>2. Len(times) \in Nat /\ \A i \in 1..Len(times) : times[i] \in Nat /\ times[i] <= t
  BY DEF Fits
<1>3. CASE Old(item, now)
  <2> DEFINE new == [window |-> now, count |-> 1]
  <2>1. Counted(item, now) = new /\ Allowed(new) /\ Stored(new) = new
    BY <1>1, <1>3 DEF Counted, Allowed, Stored
  <2>2. new \in Entry /\ new.window = now /\ new.count = 1 /\ Passed(new) = 1
    BY <1>1 DEF Entry, Passed
  <2>3. Fits(times, None, t)
    BY OldFits
  <2> HIDE DEF new
  <2>4. \A i \in 1..Len(times) : times[i] <= new.window + Delay
    BY <1>1, <1>2, <2>2
  <2>5. \A i \in 1..Len(times) : ~(i > Len(times) - Passed(None))
    BY <1>1, <1>2
  <2>6. /\ new.count > 0 /\ new.window \in Nat /\ new.window <= t /\ Passed(new) = Passed(None) + 1
        /\ \A i \in 1..Len(times) : i <= Len(times) - Passed(None) => times[i] <= new.window + Delay
        /\ \A i \in 1..Len(times) : i > Len(times) - Passed(None) => times[i] >= new.window
        /\ new.window > t - Minute - Delay => Len(times) >= Passed(None)
    BY <1>1, <1>2, <2>2, <2>4, <2>5
  <2>7. Append(times, t) \in Seq(Nat) /\ Fits(Append(times, t), new, t)
    BY <1>1, <2>2, <2>3, <2>6, AppendFits
  <2> QED
    BY <1>3, <2>1, <2>2, <2>7
<1>4. CASE ~Old(item, now)
  <2>1. item # None
    BY <1>1, <1>4 DEF Old
  <2> DEFINE new == [item EXCEPT !.count = @ + 1]
  <2>2. new \in Entry /\ new.window = item.window /\ new.count = item.count + 1
    <3>1. item.count + 1 \in Nat
      BY <1>1
    <3> QED
      BY <3>1, Zenon DEF Entry
  <2>3. Counted(item, now) = new
    BY <1>4 DEF Counted
  <2>4. item.window \in Nat /\ item.window <= t
    BY <2>1 DEF Fits
  <2> HIDE DEF new
  <2>5. CASE Allowed(new)
    <3>1. Stored(new) = new /\ Passed(new) = Passed(item) + 1 /\ new.count > 0
      BY <1>1, <2>2, <2>5 DEF Stored, Allowed, Passed
    <3>2. /\ \A i \in 1..Len(times) : i <= Len(times) - Passed(item) => times[i] <= new.window + Delay
          /\ \A i \in 1..Len(times) : i > Len(times) - Passed(item) => times[i] >= new.window
          /\ new.window > t - Minute - Delay => Len(times) >= Passed(item)
      BY <2>1, <2>2 DEF Fits
    <3>3. Append(times, t) \in Seq(Nat) /\ Fits(Append(times, t), new, t)
      BY <2>2, <2>4, <3>1, <3>2, AppendFits
    <3> QED
      BY <1>4, <2>1, <2>2, <2>3, <2>5, <3>1, <3>3
  <2>6. CASE ~Allowed(new)
    <3>1. /\ Stored(new) \in Entry /\ Stored(new).window = item.window /\ Stored(new).count > 0
          /\ Passed(Stored(new)) = Limit
      <4>1. CASE new.count <= MaxCount
        BY <1>1, <2>2, <2>6, <4>1, SMTT(40) DEF Stored, Allowed, Passed
      <4>2. CASE new.count > MaxCount
        <5> DEFINE kept == [new EXCEPT !.count = MaxCount]
        <5>1. kept \in Entry /\ kept.window = new.window /\ kept.count = MaxCount
          BY <1>1, <2>2 DEF Entry
        <5>2. Stored(new) = kept
          BY <4>2 DEF Stored
        <5> HIDE DEF kept
        <5>3. Passed(kept) = Limit /\ kept.count > 0
          BY <1>1, <5>1 DEF Passed
        <5> QED
          BY <2>2, <5>1, <5>2, <5>3
      <4> QED
        BY <1>1, <2>2, <4>1, <4>2
    <3>2. Passed(item) = Limit
      BY <1>1, <2>2, <2>6 DEF Allowed, Passed
    <3>3. Fits(times, Stored(new), t)
      <4> DEFINE kept == Stored(new)
      <4>1. kept.window = item.window /\ kept.count > 0 /\ Passed(kept) = Passed(item)
        BY <3>1, <3>2
      <4> HIDE DEF kept
      <4>2. Fits(times, kept, t)
        BY <2>1, <2>4, <4>1 DEF Fits
      <4> QED
        BY <4>2 DEF kept
    <3> QED
      BY <1>4, <2>1, <2>3, <2>6, <3>1, <3>2, <3>3
  <2> QED
    BY <2>5, <2>6
<1> QED
  BY <1>3, <1>4

-----------------------------------------------------------------------------
(* What an address was let through over its successes.                      *)

\* So many attempts are of the last j + 1 windows at most.
Back(j) == (j + 1) * Limit

\* The times of all attempts let through, those of the successes, an entry of the table, and
\* the present: before the entry's attempts and Limit more all is long gone or older than the
\* last success, before Limit more all is long gone or older than the success before, and so on.
Spread(times, wins, item, t) ==
  LET n == Len(times)  m == Len(wins)  c == Passed(item) IN
  /\ \A i \in 1..n : times[i] <= t
  /\ \A j \in 1..m : wins[j] <= t
  /\ \A j, k \in 1..m : j <= k => wins[j] <= wins[k]
  /\ item # None => \A i \in 1..n : i <= n - c => times[i] <= item.window + Delay
  /\ \A j \in 0..m : \A i \in 1..n : i <= n - c - Back(j) =>
       times[i] <= t - (Minute - Delay) \/ (j < m /\ times[i] <= wins[m - j])

LEMMA BackIs ==
  ASSUME LoginAssumption
  PROVE  /\ Back(0) = Limit /\ \A j \in Nat : Back(j) \in Nat /\ Back(j) >= Limit
         /\ \A j \in Nat : Back(j + 1) = Back(j) + Limit
         /\ \A j \in Nat : (2 + j) * Limit = Back(j) + Limit
<1>1. Limit \in Nat
  BY DEF LoginAssumption
<1>2. ASSUME NEW j \in Nat
      PROVE  /\ Back(j) = j * Limit + Limit /\ Back(j + 1) = j * Limit + Limit + Limit
             /\ (2 + j) * Limit = j * Limit + Limit + Limit /\ j * Limit \in Nat
  BY <1>1, SMTT(40) DEF Back
<1>3. Back(0) = Limit
  BY <1>1 DEF Back
<1>4. ASSUME NEW j \in Nat
      PROVE  /\ Back(j) \in Nat /\ Back(j) >= Limit /\ Back(j + 1) = Back(j) + Limit
             /\ (2 + j) * Limit = Back(j) + Limit
  <2> DEFINE p == j * Limit
             b == Back(j)
             more == Back(j + 1)
             two == (2 + j) * Limit
  <2>1. p \in Nat /\ b = p + Limit /\ more = p + Limit + Limit /\ two = p + Limit + Limit
    BY <1>2
  <2> HIDE DEF p, b, more, two
  <2>2. b \in Nat /\ b >= Limit /\ more = b + Limit /\ two = b + Limit
    BY <1>1, <2>1
  <2> QED
    BY <2>2 DEF b, more, two
<1> QED
  BY <1>3, <1>4

\* An entry that is old is as good as none: what was let through before it is long gone.
LEMMA SpreadOld ==
  ASSUME LoginAssumption, NEW times \in Seq(Nat), NEW wins \in Seq(Nat), NEW item \in Entry,
         NEW t \in Nat, NEW now \in Nat, now <= t,
         Spread(times, wins, item, t), Old(item, now)
  PROVE  Spread(times, wins, None, t)
<1>1. CASE item = None
  BY <1>1
<1>2. CASE item # None
  <2> DEFINE n == Len(times)
             m == Len(wins)
             c == Passed(item)
             w == item.window
  <2>1. /\ n \in Nat /\ m \in Nat /\ \A i \in 1..n : times[i] \in Nat
        /\ c \in 0..Limit /\ Limit \in Nat /\ Minute \in Nat /\ Delay \in Nat /\ w \in Int
        /\ Passed(None) = 0
    BY PassedType
  <2>2. now - w >= Minute
    BY DEF Old
  <2>3. \A i \in 1..n : i <= n - c => times[i] <= w + Delay
    BY <1>2 DEF Spread
  <2> HIDE DEF n, m, c, w
  <2>4. ASSUME NEW j \in 0..m, NEW i \in 1..n, i <= n - 0 - Back(j)
        PROVE  times[i] <= t - (Minute - Delay)
    <3>0. j \in Nat
      BY <2>1
    <3>1. Back(j) \in Nat /\ Back(j) >= Limit
      BY <3>0, BackIs
    <3>2. i <= n - c
      BY <2>1, <2>4, <3>1
    <3> DEFINE x == times[i]
    <3>3. x \in Nat /\ x <= w + Delay
      BY <2>1, <2>3, <3>2
    <3> HIDE DEF x
    <3>4. x <= t - (Minute - Delay)
      BY <2>1, <2>2, <3>3
    <3> QED
      BY <3>4 DEF x
  <2>5. \A j \in 0..m : \A i \in 1..n : i <= n - Passed(None) - Back(j) =>
          times[i] <= t - (Minute - Delay) \/ (j < m /\ times[i] <= wins[m - j])
    BY <2>1, <2>4
  <2>6. /\ \A i \in 1..n : times[i] <= t
        /\ \A j \in 1..m : wins[j] <= t
        /\ \A j, k \in 1..m : j <= k => wins[j] <= wins[k]
    BY DEF Spread, n, m
  <2> QED
    BY <2>5, <2>6 DEF Spread, n, m
<1> QED
  BY <1>1, <1>2

\* Who is let through is one more of the entry's window.
LEMMA SpreadAppend ==
  ASSUME LoginAssumption, NEW times \in Seq(Nat), NEW wins \in Seq(Nat), NEW item \in Entry,
         NEW new \in Entry, NEW t \in Nat,
         Spread(times, wins, item, t), Passed(new) = Passed(item) + 1,
         \A i \in 1..Len(times) : i <= Len(times) - Passed(item) => times[i] <= new.window + Delay
  PROVE  Spread(Append(times, t), wins, new, t)
<1> DEFINE n == Len(times)
           m == Len(wins)
           c == Passed(item)
           more == Append(times, t)
<1>1. /\ n \in Nat /\ m \in Nat /\ c \in Nat /\ Limit \in Nat
      /\ Passed(new) = c + 1
  BY PassedType
<1>2. /\ Len(more) = n + 1 /\ more[n + 1] = t /\ \A i \in 1..n : more[i] = times[i]
  OBVIOUS
<1>3. /\ \A i \in 1..n : times[i] <= t
      /\ \A j \in 1..m : wins[j] <= t
      /\ \A j, k \in 1..m : j <= k => wins[j] <= wins[k]
      /\ \A j \in 0..m : \A i \in 1..n : i <= n - c - Back(j) =>
           times[i] <= t - (Minute - Delay) \/ (j < m /\ times[i] <= wins[m - j])
  BY DEF Spread
<1>4. \A i \in 1..n : i <= n - c => times[i] <= new.window + Delay
  OBVIOUS
<1>5. t <= t
  OBVIOUS
<1> HIDE DEF n, m, c, more
<1>6. \A i \in 1..(n + 1) : i \in 1..n \/ i = n + 1
  BY <1>1
<1>7. \A i \in 1..Len(more) : more[i] <= t
  BY <1>2, <1>3, <1>5, <1>6
<1>8. ASSUME NEW i \in 1..Len(more), i <= Len(more) - Passed(new) PROVE more[i] <= new.window + Delay
  <2>1. i \in 1..n /\ i <= n - c
    BY <1>1, <1>2, <1>8
  <2> QED
    BY <1>2, <1>4, <2>1
<1>9. ASSUME NEW j \in 0..m, NEW i \in 1..Len(more), i <= Len(more) - Passed(new) - Back(j)
      PROVE  more[i] <= t - (Minute - Delay) \/ (j < m /\ more[i] <= wins[m - j])
  <2>0. j \in Nat
    BY <1>1
  <2>1. Back(j) \in Nat
    BY <2>0, BackIs
  <2>2. i \in 1..n /\ i <= n - c - Back(j)
    BY <1>1, <1>2, <1>9, <2>1
  <2> QED
    BY <1>2, <1>3, <2>2
<1>10. Spread(more, wins, new, t)
  BY <1>3, <1>7, <1>8, <1>9 DEF Spread, m
<1> QED
  BY <1>10 DEF more

\* A refused attempt is counted, and changes nothing else.
LEMMA SpreadSame ==
  ASSUME NEW times, NEW wins, NEW item, NEW new, NEW t, Spread(times, wins, item, t),
         Passed(new) = Passed(item), new.window = item.window, item # None
  PROVE  Spread(times, wins, new, t)
BY DEF Spread

\* A success clears the entry, and stands between what was let through and what will be.
LEMMA SpreadRight ==
  ASSUME LoginAssumption, NEW times \in Seq(Nat), NEW wins \in Seq(Nat), NEW item \in Entry,
         NEW t \in Nat, Spread(times, wins, item, t)
  PROVE  Spread(times, Append(wins, t), None, t)
<1> DEFINE n == Len(times)
           m == Len(wins)
           c == Passed(item)
           more == Append(wins, t)
<1>1. n \in Nat /\ m \in Nat /\ c \in 0..Limit /\ Limit \in Nat /\ Passed(None) = 0
  BY PassedType
<1>2. /\ Len(more) = m + 1 /\ more[m + 1] = t /\ \A j \in 1..m : more[j] = wins[j]
  OBVIOUS
<1>3. /\ \A i \in 1..n : times[i] <= t
      /\ \A j \in 1..m : wins[j] <= t
      /\ \A j, k \in 1..m : j <= k => wins[j] <= wins[k]
      /\ \A j \in 0..m : \A i \in 1..n : i <= n - c - Back(j) =>
           times[i] <= t - (Minute - Delay) \/ (j < m /\ times[i] <= wins[m - j])
  BY DEF Spread
<1>4. t <= t
  OBVIOUS
<1> HIDE DEF n, m, c, more
<1>5. \A j \in 1..Len(more) : j \in 1..m \/ j = m + 1
  BY <1>1, <1>2
<1>6. \A j \in 1..Len(more) : more[j] <= t
  BY <1>2, <1>3, <1>4, <1>5
<1>7. ASSUME NEW j \in 1..Len(more), NEW k \in 1..Len(more), j <= k PROVE more[j] <= more[k]
  <2>1. CASE k \in 1..m
    <3>1. j \in 1..m
      BY <1>1, <1>2, <1>7, <2>1
    <3> QED
      BY <1>2, <1>3, <1>7, <2>1, <3>1
  <2>2. CASE k = m + 1
    BY <1>2, <1>6, <2>2
  <2> QED
    BY <1>5, <2>1, <2>2
<1>8. ASSUME NEW j \in 0..(m + 1), NEW i \in 1..n, i <= n - 0 - Back(j)
      PROVE  times[i] <= t - (Minute - Delay) \/ (j < m + 1 /\ times[i] <= more[m + 1 - j])
  <2>1. CASE j = 0
    <3>1. m + 1 - j = m + 1 /\ j < m + 1
      BY <1>1, <2>1
    <3> QED
      BY <1>2, <1>3, <3>1
  <2>2. CASE j # 0
    <3> DEFINE h == j - 1
    <3>1. h \in 0..m /\ j = h + 1 /\ h \in Nat
      BY <1>1, <2>2
    <3> HIDE DEF h
    <3>2. Back(j) = Back(h) + Limit /\ Back(h) \in Nat
      BY <3>1, BackIs
    <3>3. i <= n - c - Back(h)
      BY <1>1, <1>8, <3>2
    <3>4. times[i] <= t - (Minute - Delay) \/ (h < m /\ times[i] <= wins[m - h])
      BY <1>3, <3>1, <3>3
    <3>5. ASSUME h < m PROVE j < m + 1 /\ m + 1 - j \in 1..m /\ m + 1 - j = m - h
      BY <1>1, <3>1, <3>5
    <3> QED
      BY <1>2, <3>4, <3>5
  <2> QED
    BY <2>1, <2>2
<1>9. \A j \in 0..Len(more) : \A i \in 1..n : i <= n - Passed(None) - Back(j) =>
        times[i] <= t - (Minute - Delay) \/ (j < Len(more) /\ times[i] <= more[Len(more) - j])
  BY <1>1, <1>2, <1>8
<1>10. Spread(times, more, None, t)
  BY <1>3, <1>6, <1>7, <1>9 DEF Spread, n
<1> QED
  BY <1>10 DEF more

\* Time passes, and what is long gone is forgotten.
LEMMA SpreadTick ==
  ASSUME LoginAssumption, NEW times \in Seq(Nat), NEW wins \in Seq(Nat), NEW item \in Entry,
         NEW t \in Nat, NEW t0 \in Int, t0 <= t + 1 - (Minute - Delay), Spread(times, wins, item, t)
  PROVE  Spread(After(times, t0), After(wins, t0), item, t + 1)
<1> DEFINE n == Len(times)
           m == Len(wins)
           c == Passed(item)
           fresh == After(times, t0)
           later == After(wins, t0)
<1>1. /\ n \in Nat /\ m \in Nat /\ c \in 0..Limit /\ Limit \in Nat /\ Minute \in Nat /\ Delay \in Nat
      /\ \A i \in 1..n : times[i] \in Nat
      /\ \A j \in 1..m : wins[j] \in Nat
  BY PassedType
<1>2. PICK k \in 0..n : /\ fresh \in Seq(Nat) /\ Len(fresh) = n - k
                        /\ \A i \in 1..(n - k) : fresh[i] = times[i + k]
  BY AfterIs
<1>3. PICK q \in 0..m : /\ later \in Seq(Nat) /\ Len(later) = m - q
                        /\ \A j \in 1..(m - q) : later[j] = wins[j + q]
                        /\ \A p \in 0..m : (\A j \in (p + 1)..m : wins[j] > t0) => q <= p
  BY AfterIs
<1>4. /\ \A i \in 1..n : times[i] <= t
      /\ \A j \in 1..m : wins[j] <= t
      /\ \A j, h \in 1..m : j <= h => wins[j] <= wins[h]
      /\ item # None => \A i \in 1..n : i <= n - c => times[i] <= item.window + Delay
      /\ \A j \in 0..m : \A i \in 1..n : i <= n - c - Back(j) =>
           times[i] <= t - (Minute - Delay) \/ (j < m /\ times[i] <= wins[m - j])
  BY DEF Spread
<1> HIDE DEF n, m, c, fresh, later
<1>5. /\ \A i \in 1..(n - k) : i + k \in 1..n
      /\ \A j \in 1..(m - q) : j + q \in 1..m
  BY <1>1
<1>6. ASSUME NEW i \in 1..Len(fresh) PROVE fresh[i] <= t + 1
  <2>1. i + k \in 1..n /\ fresh[i] = times[i + k] /\ times[i + k] \in Nat /\ times[i + k] <= t
    BY <1>1, <1>2, <1>4, <1>5
  <2> QED
    BY <2>1
<1>7. ASSUME NEW j \in 1..Len(later) PROVE later[j] <= t + 1
  <2>1. j + q \in 1..m /\ later[j] = wins[j + q] /\ wins[j + q] \in Nat /\ wins[j + q] <= t
    BY <1>1, <1>3, <1>4, <1>5
  <2> QED
    BY <2>1
<1>8. ASSUME NEW j \in 1..Len(later), NEW h \in 1..Len(later), j <= h PROVE later[j] <= later[h]
  <2>1. j + q \in 1..m /\ h + q \in 1..m /\ j + q <= h + q
    BY <1>1, <1>3, <1>5, <1>8
  <2> QED
    BY <1>3, <1>4, <2>1
<1>9. ASSUME item # None, NEW i \in 1..Len(fresh), i <= Len(fresh) - c PROVE fresh[i] <= item.window + Delay
  <2>1. i + k \in 1..n /\ i + k <= n - c
    BY <1>1, <1>2, <1>9
  <2> QED
    BY <1>2, <1>4, <1>9, <2>1
<1>10. ASSUME NEW j \in 0..Len(later), NEW i \in 1..Len(fresh), i <= Len(fresh) - c - Back(j)
       PROVE  \/ fresh[i] <= t + 1 - (Minute - Delay)
              \/ j < Len(later) /\ fresh[i] <= later[Len(later) - j]
  <2>0. j \in Nat /\ j \in 0..m
    BY <1>1, <1>3
  <2>1. Back(j) \in Nat /\ j \in 0..m
    BY <2>0, BackIs
  <2>2. i + k \in 1..n /\ i + k <= n - c - Back(j)
    BY <1>1, <1>2, <1>10, <2>1
  <2> DEFINE x == times[i + k]
  <2>3. fresh[i] = x /\ x \in Nat
    BY <1>1, <1>2, <2>2
  <2>4. x <= t - (Minute - Delay) \/ (j < m /\ x <= wins[m - j])
    BY <1>4, <2>1, <2>2
  <2> HIDE DEF x
  <2>5. CASE x <= t - (Minute - Delay)
    BY <1>1, <2>3, <2>5
  <2>6. CASE j < m /\ x <= wins[m - j] /\ j < Len(later)
    <3>1. Len(later) - j \in 1..(m - q) /\ Len(later) - j + q = m - j
      BY <1>1, <1>3, <2>1, <2>6
    <3>2. later[Len(later) - j] = wins[m - j]
      BY <1>3, <3>1
    <3> QED
      BY <2>3, <2>6, <3>2
  <2>7. CASE j < m /\ x <= wins[m - j] /\ ~(j < Len(later))
    <3>1. q \in 1..m /\ m - j = q /\ q - 1 \in 0..m /\ ~(q <= q - 1)
      BY <1>1, <1>3, <2>1, <2>7
    <3>2. PICK h \in (q - 1 + 1)..m : ~(wins[h] > t0)
      BY <1>3, <3>1
    <3>3. h \in 1..m /\ q <= h
      BY <1>1, <3>1
    <3>4. wins[q] <= wins[h] /\ wins[q] \in Nat /\ wins[h] \in Nat
      BY <1>1, <1>4, <3>1, <3>3
    <3>5. x <= wins[q]
      BY <2>7, <3>1
    <3> DEFINE a == wins[q]
               b == wins[h]
    <3>6. a \in Nat /\ b \in Nat /\ a <= b /\ ~(b > t0) /\ x <= a
      BY <3>2, <3>4, <3>5
    <3> HIDE DEF a, b
    <3>7. x <= t + 1 - (Minute - Delay)
      BY <1>1, <2>3, <3>6
    <3> QED
      BY <2>3, <3>7
  <2> QED
    BY <2>4, <2>5, <2>6, <2>7
<1>11. Spread(fresh, later, item, t + 1)
  BY <1>6, <1>7, <1>8, <1>9, <1>10 DEF Spread, c
<1> QED
  BY <1>11 DEF fresh, later

\* Lately no more is let through than two windows' worth, and one more for each success.
LEMMA SpreadRate ==
  ASSUME LoginAssumption, NEW times \in Seq(Nat), NEW wins \in Seq(Nat), NEW item \in Entry,
         NEW t \in Nat, Spread(times, wins, item, t)
  PROVE  Len(After(times, t - (Minute - Delay))) <= (2 + Len(After(wins, t - (Minute - Delay)))) * Limit
<1> DEFINE n == Len(times)
           m == Len(wins)
           c == Passed(item)
           t0 == t - (Minute - Delay)
<1>1. /\ n \in Nat /\ m \in Nat /\ c \in 0..Limit /\ Limit \in Nat /\ t0 \in Int
      /\ \A i \in 1..n : times[i] \in Nat
      /\ \A j \in 1..m : wins[j] \in Nat
  BY PassedType
<1>2. PICK k \in 0..n : /\ Len(After(times, t0)) = n - k
                        /\ \A p \in 0..n : (\A i \in 1..p : times[i] <= t0) => p <= k
  BY <1>1, AfterIs
<1>3. PICK q \in 0..m : /\ Len(After(wins, t0)) = m - q
                        /\ \A p \in 0..m : (\A j \in (p + 1)..m : wins[j] > t0) => q <= p
  BY <1>1, AfterIs
<1>4. /\ \A j, h \in 1..m : j <= h => wins[j] <= wins[h]
      /\ \A j \in 0..m : \A i \in 1..n : i <= n - c - Back(j) =>
           times[i] <= t0 \/ (j < m /\ times[i] <= wins[m - j])
  BY DEF Spread
<1> DEFINE late == m - q
           all == (2 + late) * Limit
<1>5. late \in 0..m /\ late \in Nat
  BY <1>1
<1>6. all = Back(late) + Limit /\ Back(late) \in Nat
  BY <1>5, BackIs
<1> HIDE DEF n, m, c, t0, all
<1>7. q # 0 => wins[q] <= t0
  <2> SUFFICES ASSUME q # 0 PROVE wins[q] <= t0
    OBVIOUS
  <2>1. q \in 1..m /\ q - 1 \in 0..m /\ ~(q <= q - 1)
    BY <1>1
  <2>2. PICK h \in (q - 1 + 1)..m : ~(wins[h] > t0)
    BY <1>3, <2>1
  <2>3. h \in 1..m /\ q <= h
    BY <1>1, <2>1
  <2>4. wins[q] <= wins[h] /\ wins[q] \in Nat /\ wins[h] \in Nat
    BY <1>1, <1>4, <2>1, <2>3
  <2> QED
    BY <1>1, <2>2, <2>4
<1>8. \A i \in 1..n : i <= n - all => times[i] <= t0
  <2> SUFFICES ASSUME NEW i \in 1..n, i <= n - all PROVE times[i] <= t0
    OBVIOUS
  <2>1. i <= n - c - Back(late)
    <3> HIDE DEF late
    <3> QED
      BY <1>1, <1>5, <1>6
  <2>2. times[i] <= t0 \/ (late < m /\ times[i] <= wins[m - late])
    BY <1>4, <1>5, <2>1
  <2>3. ASSUME late < m PROVE m - late = q /\ q # 0 /\ q \in 1..m
    BY <1>1, <2>3
  <2>4. times[i] \in Nat
    BY <1>1
  <2> HIDE DEF late
  <2>5. CASE times[i] <= t0
    BY <2>5
  <2>6. CASE late < m /\ times[i] <= wins[m - late]
    <3>1. wins[q] \in Nat /\ times[i] <= wins[q] /\ wins[q] <= t0
      BY <1>1, <1>7, <2>3, <2>6
    <3> QED
      BY <1>1, <2>4, <3>1
  <2> QED
    BY <2>2, <2>5, <2>6
<1>9. n - k <= all
  <2> HIDE DEF late
  <2>1. all \in Nat
    BY <1>1, <1>6
  <2>2. CASE n <= all
    BY <1>1, <2>1, <2>2
  <2>3. CASE n > all
    <3>1. n - all \in 0..n /\ \A i \in 1..(n - all) : i \in 1..n /\ i <= n - all
      BY <1>1, <2>1, <2>3
    <3>2. n - all <= k
      BY <1>2, <1>8, <3>1
    <3> QED
      BY <1>1, <2>1, <3>2
  <2> QED
    BY <1>1, <2>1, <2>2, <2>3
<1> QED
  BY <1>2, <1>3, <1>9 DEF all, t0

-----------------------------------------------------------------------------
(* The actions.                                                             *)

LEMMA FirstPosition ==
  ASSUME NEW S \in SUBSET Nat, S # {}
  PROVE  \E n \in S : \A m \in S : n <= m
<1> DEFINE Less == {p \in Nat \X Nat : p[1] < p[2]}
<1>1. IsWellFoundedOn(Less, Nat)
  BY NatLessThanWellFounded, Zenon DEF OpToRel
<1>2. \A a, b \in Nat : a < b => <<a, b>> \in Less
  OBVIOUS
<1> HIDE DEF Less
<1>3. PICK n \in S : \A y \in S : <<y, n>> \notin Less
  BY <1>1, WFMin, Zenon
<1>4. ASSUME NEW m \in S PROVE n <= m
  <2>1. m \in Nat /\ n \in Nat /\ ~(m < n)
    BY <1>2, <1>3
  <2> QED
    BY <2>1
<1> QED
  BY <1>4

\* A client has the address of a peer.
LEMMA ClientIPType ==
  ASSUME LoginAssumption, NEW peer \in Peer, NEW forwarded \in Headers
  PROVE  ClientIP(peer, forwarded) \in Peer
<1> DEFINE addresses == {i \in 1..Len(forwarded) : forwarded[i] # Junk}
<1>1. /\ Len(forwarded) \in Nat
      /\ \A i \in 1..Len(forwarded) : forwarded[i] \in Peer \union {Junk}
  <2>1. forwarded \in Seq(Peer \union {Junk})
    BY DEF LoginAssumption
  <2> QED
    BY <2>1
<1>2. ASSUME addresses # {}
      PROVE  forwarded[CHOOSE i \in addresses : \A j \in addresses : i <= j] \in Peer
  <2>1. addresses \in SUBSET Nat
    BY <1>1
  <2>2. \E i \in addresses : \A j \in addresses : i <= j
    <3> HIDE DEF addresses
    <3> QED
      BY <1>2, <2>1, FirstPosition
  <2>3. (CHOOSE i \in addresses : \A j \in addresses : i <= j) \in addresses
    <3> HIDE DEF addresses
    <3> QED
      BY <2>2
  <2> QED
    BY <1>1, <2>3
<1> QED
  BY <1>2 DEF ClientIP

\* A request under way has an address and a time.
LEMMA BusyFields ==
  ASSUME LimitTypeOK, NEW r \in Request, req[r].stage # "idle"
  PROVE  /\ req[r] \in Busy /\ req[r].ip \in Peer /\ req[r].now \in Nat
         /\ DOMAIN req = Request
BY DEF LimitTypeOK, Busy, Idle

\* An action that only moves a request on, to a stage after the mutex.
LEMMA MovesOn ==
  ASSUME LInv, NEW r \in Request, NEW new \in Busy \union {Idle}, new.stage # "asking",
         req' = [req EXCEPT ![r] = new], UNCHANGED <<time, attempts, lastCleanup, granted, through, won, latest>>
  PROVE  LInv'
<1>1. LimitTypeOK'
  BY DEF LInv, LimitTypeOK
<1>2. CleanedUp'
  BY DEF LInv, CleanedUp
<1>3. Prompt'
  BY DEF LInv, Prompt, LimitTypeOK
<1>4. \A ip \in Peer : Fits(granted[ip], attempts[ip], time)'
  BY DEF LInv, Fits
<1> QED
  BY <1>1, <1>2, <1>3, <1>4 DEF LInv

LEMMA InitLInv ==
  ASSUME LoginAssumption, Init
  PROVE  LInv
<1>1. None \in Entry /\ None.count = 0 /\ None.window = -Minute /\ Minute \in Nat \ {0} /\ Limit \in Nat
  BY PassedType DEF None, Entry, LoginAssumption
<1>2. LimitTypeOK
  <2>1. <<>> \in Seq(Nat) /\ -Minute \in Int
    BY <1>1
  <2> QED
    BY <1>1, <2>1 DEF Init, LimitTypeOK
<1>3. CleanedUp
  BY <1>1 DEF Init, CleanedUp
<1>4. Prompt
  BY DEF Init, Prompt, Idle
<1>5. Fits(<<>>, None, 0)
  BY DEF Fits
<1> QED
  BY <1>2, <1>3, <1>4, <1>5 DEF LInv, Init

LEMMA ArriveKeeps ==
  ASSUME LoginAssumption, LInv, NEW r \in Request, Arrive(r)
  PROVE  LInv'
<1>1. PICK peer \in Peer, forwarded \in Headers :
        req' = [req EXCEPT ![r] = [stage |-> "asking", ip |-> ClientIP(peer, forwarded), now |-> time]]
  BY DEF Arrive
<1> DEFINE new == [stage |-> "asking", ip |-> ClientIP(peer, forwarded), now |-> time]
<1>2. new \in Busy /\ new.now = time /\ time \in Nat /\ Delay \in Nat
  BY ClientIPType DEF LInv, LimitTypeOK, Busy, LoginAssumption
<1>3. req' = [req EXCEPT ![r] = new]
  BY <1>1
<1> HIDE DEF new
<1>4. LimitTypeOK'
  BY <1>2, <1>3 DEF LInv, LimitTypeOK, Arrive
<1>5. CleanedUp'
  BY DEF LInv, CleanedUp, Arrive
<1>6. Prompt'
  BY <1>2, <1>3 DEF LInv, Prompt, LimitTypeOK, Arrive
<1>7. \A ip \in Peer : Fits(granted[ip], attempts[ip], time)'
  BY DEF LInv, Fits, Arrive
<1> QED
  BY <1>4, <1>5, <1>6, <1>7 DEF LInv

LEMMA RightKeeps ==
  ASSUME LoginAssumption, LInv, NEW r \in Request, Right(r)
  PROVE  LInv'
<1> DEFINE new == [req[r] EXCEPT !.stage = "known"]
<1>1. req[r] \in Busy /\ req[r].ip \in Peer
  BY BusyFields DEF Right, LInv
<1>2. new \in Busy /\ new.stage = "known"
  BY <1>1 DEF Busy
<1>3. req' = [req EXCEPT ![r] = new]
  BY DEF Right
<1>4. None \in Entry /\ <<>> \in Seq(Nat) /\ Fits(<<>>, None, time)
  <2>1. None \in Entry
    BY DEF None, Entry, LoginAssumption
  <2> QED
    BY <2>1 DEF Fits
<1> HIDE DEF new
<1>5. LimitTypeOK'
  <2>1. Append(won[req[r].ip], time) \in Seq(Nat)
    BY <1>1 DEF LInv, LimitTypeOK
  <2>2. won' \in [Peer -> Seq(Nat)]
    BY <1>1, <2>1 DEF LInv, LimitTypeOK, Right
  <2>3. req' \in [Request -> Busy \union {Idle}]
    BY <1>2, <1>3 DEF LInv, LimitTypeOK
  <2>4. attempts' \in [Peer -> Entry] /\ granted' \in [Peer -> Seq(Nat)]
    BY <1>1, <1>4 DEF LInv, LimitTypeOK, Right
  <2> QED
    BY <2>2, <2>3, <2>4 DEF LInv, LimitTypeOK, Right
<1>6. \A ip \in Peer : /\ attempts'[ip] = IF ip = req[r].ip THEN None ELSE attempts[ip]
                       /\ granted'[ip] = IF ip = req[r].ip THEN <<>> ELSE granted[ip]
  BY DEF LInv, LimitTypeOK, Right
<1>7. CleanedUp'
  BY <1>6 DEF LInv, CleanedUp, Right
<1>8. Prompt'
  BY <1>2, <1>3 DEF LInv, Prompt, LimitTypeOK, Right
<1>9. \A ip \in Peer : Fits(granted'[ip], attempts'[ip], time)
  BY <1>4, <1>6 DEF LInv
<1>10. time' = time
  BY DEF Right
<1> QED
  BY <1>5, <1>7, <1>8, <1>9, <1>10 DEF LInv

LEMMA TickKeeps ==
  ASSUME LoginAssumption, LInv, Tick
  PROVE  LInv'
<1>1. time \in Nat /\ time' = time + 1 /\ Minute \in Nat /\ Delay \in Nat
  BY DEF LInv, LimitTypeOK, Tick, LoginAssumption
<1>2. \A ip \in Peer : /\ granted[ip] \in Seq(Nat) /\ attempts[ip] \in Entry
                       /\ granted'[ip] = After(granted[ip], time - Minute - Delay)
  BY DEF LInv, LimitTypeOK, Tick
<1>3. \A ip \in Peer : After(granted[ip], time - Minute - Delay) \in Seq(Nat)
  BY <1>1, <1>2, AfterIs
<1>4. LimitTypeOK'
  <2>1. Lately' \in Int
    BY <1>1 DEF Lately, LimitTypeOK, Tick
  <2>2. \A ip \in Peer : After(through[ip], Lately') \in Seq(Nat) /\ After(won[ip], Lately') \in Seq(Nat)
    BY <2>1, AfterIs DEF LInv, LimitTypeOK
  <2> QED
    BY <1>1, <1>3, <2>2 DEF LInv, LimitTypeOK, Tick
<1>5. CleanedUp'
  BY <1>1 DEF LInv, LimitTypeOK, CleanedUp, Tick
<1>6. Prompt'
  <2> SUFFICES ASSUME NEW r \in Request, req[r].stage = "asking"
               PROVE req[r].now <= time + 1 /\ time + 1 <= req[r].now + Delay
    BY <1>1 DEF Prompt, Tick
  <2>1. req[r].now \in Nat /\ req[r].now <= time /\ time - req[r].now < Delay
    BY BusyFields DEF LInv, Prompt, Tick
  <2> QED
    BY <1>1, <2>1
<1>7. \A ip \in Peer : Fits(granted'[ip], attempts[ip], time + 1)
  BY <1>1, <1>2, TickFits DEF LInv
<1>8. attempts' = attempts
  BY DEF Tick
<1> QED
  BY <1>1, <1>4, <1>5, <1>6, <1>7, <1>8 DEF LInv

\* The cleanup takes from the table what is old.
LEMMA CleanedFits ==
  ASSUME LoginAssumption, LInv, NEW now \in Nat, now <= time
  PROVE  /\ Cleaned(now) \in [Peer -> Entry]
         /\ \A ip \in Peer :
              /\ Fits(granted[ip], Cleaned(now)[ip], time)
              /\ Cleaned(now)[ip] # None => Cleaned(now)[ip] = attempts[ip]
              /\ Cleaned(now)[ip] # None /\ now - lastCleanup >= Minute => ~Old(attempts[ip], now)
<1>1. /\ attempts \in [Peer -> Entry] /\ None \in Entry /\ time \in Nat
      /\ \A ip \in Peer : granted[ip] \in Seq(Nat) /\ attempts[ip] \in Entry
      /\ \A ip \in Peer : Fits(granted[ip], attempts[ip], time)
  BY DEF LInv, LimitTypeOK, None, Entry, LoginAssumption
<1>2. CASE now - lastCleanup >= Minute
  <2>1. Cleaned(now) = [ip \in Peer |-> IF Old(attempts[ip], now) THEN None ELSE attempts[ip]]
    BY <1>2 DEF Cleaned
  <2>2. Cleaned(now) \in [Peer -> Entry]
    BY <1>1, <2>1
  <2>3. ASSUME NEW ip \in Peer PROVE Fits(granted[ip], Cleaned(now)[ip], time)
    <3>1. CASE Old(attempts[ip], now)
      <4>1. Fits(granted[ip], None, time)
        BY <1>1, OldFits
      <4> QED
        BY <2>1, <3>1, <4>1
    <3>2. CASE ~Old(attempts[ip], now)
      BY <1>1, <2>1, <3>2
    <3> QED
      BY <3>1, <3>2
  <2> QED
    BY <2>1, <2>2, <2>3
<1>3. CASE ~(now - lastCleanup >= Minute)
  BY <1>1, <1>3 DEF Cleaned
<1> QED
  BY <1>2, <1>3

\* What an attempt at the mutex does, in the terms of the invariant.
LEMMA AskEffect ==
  ASSUME LoginAssumption, LInv, NEW r \in Request, Ask(r)
  PROVE  /\ req[r] \in Busy /\ req[r].ip \in Peer
         /\ req[r].now \in Nat /\ req[r].now <= time /\ time <= req[r].now + Delay
         /\ \A ip \in Peer \ {req[r].ip} :
              /\ attempts'[ip] = Cleaned(req[r].now)[ip] /\ granted'[ip] = granted[ip]
              /\ through'[ip] = through[ip]
         /\ LET item == Cleaned(req[r].now)[req[r].ip]
                new == Counted(item, req[r].now)
            IN  /\ item \in Entry /\ Fits(granted[req[r].ip], item, time)
                /\ attempts'[req[r].ip] = Stored(new)
                /\ granted'[req[r].ip] = IF Allowed(new) THEN Append(granted[req[r].ip], time)
                                         ELSE granted[req[r].ip]
                /\ through'[req[r].ip] = IF Allowed(new) THEN Append(through[req[r].ip], time)
                                         ELSE through[req[r].ip]
         /\ attempts' \in [Peer -> Entry] /\ granted' \in [Peer -> Seq(Nat)]
         /\ through' \in [Peer -> Seq(Nat)]
<1>1. /\ req[r] \in Busy /\ req[r].ip \in Peer
      /\ req[r].now \in Nat /\ req[r].now <= time /\ time <= req[r].now + Delay
      /\ time \in Nat
  BY BusyFields DEF LInv, LimitTypeOK, Prompt, Ask
<1> DEFINE now == req[r].now
           me == req[r].ip
           item == Cleaned(now)[me]
           new == Counted(item, now)
           table == Cleaned(now)
<1>2. /\ attempts' = [table EXCEPT ![me] = Stored(new)]
      /\ granted' = IF Allowed(new) THEN [granted EXCEPT ![me] = Append(@, time)] ELSE granted
      /\ through' = IF Allowed(new) THEN [through EXCEPT ![me] = Append(@, time)] ELSE through
  BY DEF Ask
<1>3. /\ table \in [Peer -> Entry] /\ item \in Entry
      /\ Fits(granted[me], item, time)
  BY <1>1, CleanedFits
<1>4. granted \in [Peer -> Seq(Nat)] /\ through \in [Peer -> Seq(Nat)] /\ time \in Nat
  BY DEF LInv, LimitTypeOK
<1>5. /\ Stored(new) \in Entry
      /\ Allowed(new) => Append(granted[me], time) \in Seq(Nat)
  BY <1>1, <1>3, <1>4, CountFits
<1> HIDE DEF now, me, item, new, table
<1>6. me \in Peer
  BY <1>1 DEF me
<1>7. attempts' \in [Peer -> Entry] /\ attempts'[me] = Stored(new)
      /\ \A ip \in Peer \ {me} : attempts'[ip] = table[ip]
  BY <1>2, <1>3, <1>5, <1>6
<1>8. granted' \in [Peer -> Seq(Nat)]
      /\ granted'[me] = (IF Allowed(new) THEN Append(granted[me], time) ELSE granted[me])
      /\ \A ip \in Peer \ {me} : granted'[ip] = granted[ip]
  <2>1. CASE Allowed(new)
    BY <1>2, <1>4, <1>5, <1>6, <2>1
  <2>2. CASE ~Allowed(new)
    BY <1>2, <1>4, <1>6, <2>2
  <2> QED
    BY <2>1, <2>2
<1>9. /\ through' \in [Peer -> Seq(Nat)]
      /\ through'[me] = (IF Allowed(new) THEN Append(through[me], time) ELSE through[me])
      /\ \A ip \in Peer \ {me} : through'[ip] = through[ip]
  <2>0. through[me] \in Seq(Nat) /\ Append(through[me], time) \in Seq(Nat)
    BY <1>4, <1>6
  <2>1. CASE Allowed(new)
    BY <1>2, <1>4, <1>6, <2>0, <2>1
  <2>2. CASE ~Allowed(new)
    BY <1>2, <1>4, <1>6, <2>2
  <2> QED
    BY <2>1, <2>2
<1> QED
  BY <1>1, <1>3, <1>7, <1>8, <1>9 DEF now, me, item, new, table

LEMMA AskKeeps ==
  ASSUME LoginAssumption, LInv, NEW r \in Request, Ask(r)
  PROVE  LInv'
<1> DEFINE now == req[r].now
           me == req[r].ip
           item == Cleaned(now)[me]
           new == Counted(item, now)
<1>1. /\ req[r] \in Busy /\ me \in Peer
      /\ now \in Nat /\ now <= time /\ time <= now + Delay
  BY AskEffect
<1>2. \A ip \in Peer \ {me} : attempts'[ip] = Cleaned(now)[ip] /\ granted'[ip] = granted[ip]
  BY AskEffect
<1>3. /\ item \in Entry /\ Fits(granted[me], item, time)
      /\ attempts'[me] = Stored(new)
      /\ granted'[me] = IF Allowed(new) THEN Append(granted[me], time) ELSE granted[me]
  BY AskEffect
<1>4. /\ time' = time /\ time \in Nat /\ latest \in Nat /\ lastCleanup \in Int
      /\ lastCleanup' = CleanedAt(now) /\ latest' = IF now > latest THEN now ELSE latest
      /\ Minute \in Nat \ {0} /\ Delay \in Nat /\ Delay < Minute
      /\ granted[me] \in Seq(Nat)
  BY <1>1 DEF LInv, LimitTypeOK, Ask, LoginAssumption
<1>5. /\ \A ip \in Peer : Fits(granted[ip], Cleaned(now)[ip], time)
      /\ \A ip \in Peer : Cleaned(now)[ip] # None => Cleaned(now)[ip] = attempts[ip]
      /\ \A ip \in Peer : Cleaned(now)[ip] # None /\ now - lastCleanup >= Minute =>
                            ~Old(attempts[ip], now)
  BY <1>1, CleanedFits
<1>6. /\ Fits(IF Allowed(new) THEN Append(granted[me], time) ELSE granted[me], Stored(new), time)
      /\ Stored(new).window = IF Old(item, now) THEN now ELSE item.window
      /\ ~Old(item, now) => item # None
  BY <1>1, <1>3, <1>4, CountFits, SMTT(40)
<1>7. \A ip \in Peer : attempts[ip].window \in Int
  BY DEF LInv, LimitTypeOK, Entry
<1>8. \A ip \in Peer : Fits(granted'[ip], attempts'[ip], time)
  <2> SUFFICES ASSUME NEW ip \in Peer PROVE Fits(granted'[ip], attempts'[ip], time)
    OBVIOUS
  <2>1. CASE ip = me
    <3> HIDE DEF me, new, now
    <3>1. granted'[ip] = (IF Allowed(new) THEN Append(granted[me], time) ELSE granted[me])
          /\ attempts'[ip] = Stored(new)
      BY <1>3, <2>1
    <3> QED
      BY <1>6, <3>1
  <2>2. CASE ip # me
    BY <1>2, <1>5, <2>2
  <2> QED
    BY <2>1, <2>2
<1>9. LimitTypeOK'
  <2>1. /\ attempts' \in [Peer -> Entry] /\ granted' \in [Peer -> Seq(Nat)]
        /\ through' \in [Peer -> Seq(Nat)] /\ won' = won /\ won \in [Peer -> Seq(Nat)]
    BY AskEffect DEF Ask, LInv, LimitTypeOK
  <2>2. time' \in Nat /\ latest' \in Nat /\ lastCleanup' \in Int
    BY <1>1, <1>4 DEF CleanedAt
  <2>3. req' \in [Request -> Busy \union {Idle}]
    <3>1. PICK stage \in {"checking", "refused"} : req' = [req EXCEPT ![r].stage = stage]
      BY DEF Ask
    <3>2. [req[r] EXCEPT !.stage = stage] \in Busy
      BY <1>1 DEF Busy
    <3> QED
      BY <3>1, <3>2 DEF LInv, LimitTypeOK
  <2> QED
    BY <2>1, <2>2, <2>3 DEF LimitTypeOK
<1> HIDE DEF now, me, item, new
<1>10. lastCleanup' <= latest' /\ latest' <= time /\ lastCleanup' > latest' - Minute
  <2>1. /\ lastCleanup <= latest /\ latest <= time
        /\ lastCleanup > latest - Minute \/ lastCleanup = -Minute
    BY DEF LInv, CleanedUp
  <2> QED
    BY <1>1, <1>4, <2>1 DEF CleanedAt
<1>11. ASSUME NEW ip \in Peer, Cleaned(now)[ip] # None
       PROVE  attempts[ip].window > lastCleanup' - Minute /\ Cleaned(now)[ip] = attempts[ip]
  <2>1. attempts[ip].window > lastCleanup - Minute /\ Cleaned(now)[ip] = attempts[ip]
    BY <1>5, <1>11 DEF LInv, CleanedUp
  <2>2. CASE now - lastCleanup >= Minute
    <3>1. ~(now - attempts[ip].window >= Minute)
      BY <1>5, <1>11, <2>2 DEF Old
    <3> QED
      BY <1>1, <1>4, <1>7, <2>1, <2>2, <3>1 DEF CleanedAt
  <2>3. CASE ~(now - lastCleanup >= Minute)
    BY <1>4, <2>1, <2>3 DEF CleanedAt
  <2> QED
    BY <2>2, <2>3
<1>12. ASSUME NEW ip \in Peer, attempts'[ip] # None PROVE attempts'[ip].window > lastCleanup' - Minute
  <2>1. CASE ip # me
    <3>1. attempts'[ip] = Cleaned(now)[ip]
      BY <1>2, <2>1
    <3> QED
      BY <1>11, <1>12, <3>1
  <2>2. CASE ip = me /\ Old(item, now)
    <3>1. attempts'[ip].window = now
      BY <1>3, <1>6, <2>2
    <3>2. now > lastCleanup' - Minute
      <4>1. now > latest' - Minute /\ lastCleanup' <= latest'
        <5>1. latest \in Nat /\ latest <= time /\ now > time - Minute
          BY <1>1, <1>4 DEF LInv, CleanedUp
        <5> QED
          BY <1>1, <1>4, <1>10, <5>1
      <4>2. latest' \in Int /\ lastCleanup' \in Int
        BY <1>1, <1>4 DEF CleanedAt
      <4> QED
        BY <1>1, <1>4, <4>1, <4>2
    <3> QED
      BY <3>1, <3>2
  <2>3. CASE ip = me /\ ~Old(item, now)
    <3>1. attempts'[ip].window = item.window /\ item # None
      BY <1>3, <1>6, <2>3
    <3>2. item = Cleaned(now)[ip]
      BY <2>3 DEF item
    <3> QED
      BY <1>11, <3>1, <3>2
  <2> QED
    BY <2>1, <2>2, <2>3
<1>13. CleanedUp'
  BY <1>4, <1>10, <1>12 DEF CleanedUp
<1>14. Prompt'
  <2>1. \A q \in Request : req'[q].stage = "asking" => req'[q] = req[q]
    BY DEF Ask, LInv, LimitTypeOK, Busy
  <2> QED
    BY <1>4, <2>1 DEF LInv, Prompt
<1> QED
  BY <1>4, <1>8, <1>9, <1>13, <1>14 DEF LInv

\* What every address was let through, its successes, its entry and the clock fit together.
Spreads == \A ip \in Peer : Spread(through[ip], won[ip], attempts[ip], time)

LEMMA InitSpreads ==
  ASSUME LoginAssumption, Init
  PROVE  Spreads
<1>1. Spread(<<>>, <<>>, None, 0)
  BY DEF Spread
<1> QED
  BY <1>1 DEF Init, Spreads

LEMMA AskSpreads ==
  ASSUME LoginAssumption, LInv, Spreads, NEW r \in Request, Ask(r)
  PROVE  Spreads'
<1> DEFINE now == req[r].now
           me == req[r].ip
           table == Cleaned(now)
           item == table[me]
           new == Counted(item, now)
<1>1. /\ me \in Peer /\ now \in Nat /\ now <= time /\ time <= now + Delay
      /\ \A ip \in Peer \ {me} : attempts'[ip] = table[ip] /\ through'[ip] = through[ip]
      /\ item \in Entry /\ Fits(granted[me], item, time)
      /\ attempts'[me] = Stored(new)
      /\ through'[me] = IF Allowed(new) THEN Append(through[me], time) ELSE through[me]
      /\ attempts' \in [Peer -> Entry]
  BY AskEffect
<1>2. time' = time /\ won' = won
  BY DEF Ask
<1>3. /\ time \in Nat /\ \A ip \in Peer : through[ip] \in Seq(Nat) /\ won[ip] \in Seq(Nat)
      /\ \A ip \in Peer : granted[ip] \in Seq(Nat) /\ attempts[ip] \in Entry
      /\ \A ip \in Peer : Spread(through[ip], won[ip], attempts[ip], time)
  BY DEF LInv, LimitTypeOK, Spreads
<1>4. \A ip \in Peer : Spread(through[ip], won[ip], table[ip], time)
  <2> SUFFICES ASSUME NEW ip \in Peer PROVE Spread(through[ip], won[ip], table[ip], time)
    OBVIOUS
  <2>1. CASE now - lastCleanup >= Minute /\ Old(attempts[ip], now)
    <3>1. table[ip] = None
      BY <2>1 DEF Cleaned
    <3>2. Spread(through[ip], won[ip], None, time)
      BY <1>1, <1>3, <2>1, SpreadOld
    <3> QED
      BY <3>1, <3>2
  <2>2. CASE ~(now - lastCleanup >= Minute /\ Old(attempts[ip], now))
    <3>1. table[ip] = attempts[ip]
      BY <2>2 DEF Cleaned
    <3> QED
      BY <1>3, <3>1
  <2> QED
    BY <2>1, <2>2
<1>5. /\ Stored(new).window = IF Old(item, now) THEN now ELSE item.window
      /\ ~Old(item, now) => item # None
      /\ Passed(Stored(new)) = IF Old(item, now) THEN 1
                               ELSE IF Allowed(new) THEN Passed(item) + 1 ELSE Passed(item)
      /\ Old(item, now) => Allowed(new)
      /\ Stored(new) \in Entry
  BY <1>1, <1>3, CountFits
<1>6. Spread(through'[me], won[me], attempts'[me], time)
  <2> DEFINE times == through[me]
             kept == Stored(new)
  <2>1. /\ times \in Seq(Nat) /\ won[me] \in Seq(Nat) /\ kept \in Entry
        /\ Spread(times, won[me], item, time)
    BY <1>1, <1>3, <1>4, <1>5
  <2>2. \A i \in 1..Len(times) : times[i] \in Nat /\ times[i] <= time
    BY <2>1 DEF Spread
  <2>3. /\ kept.window = IF Old(item, now) THEN now ELSE item.window
        /\ Passed(kept) = IF Old(item, now) THEN 1
                          ELSE IF Allowed(new) THEN Passed(item) + 1 ELSE Passed(item)
    BY <1>5
  <2> HIDE DEF times, kept, item, new, now
  <2>4. CASE Old(item, now)
    <3>1. Spread(times, won[me], None, time)
      BY <1>1, <1>3, <2>1, <2>4, SpreadOld
    <3>2. None \in Entry /\ Passed(kept) = Passed(None) + 1 /\ kept.window = now
      BY <1>1, <2>3, <2>4, PassedType
    <3>3. \A i \in 1..Len(times) : times[i] <= kept.window + Delay
      <4> SUFFICES ASSUME NEW i \in 1..Len(times) PROVE times[i] <= now + Delay
        BY <3>2
      <4>1. times[i] \in Nat /\ times[i] <= time /\ Delay \in Nat
        BY <1>1, <2>2, PassedType
      <4> QED
        BY <1>1, <1>3, <4>1
    <3>4. Spread(Append(times, time), won[me], kept, time)
      BY <1>3, <2>1, <3>1, <3>2, <3>3, SpreadAppend
    <3> QED
      BY <1>1, <1>5, <2>4, <3>4 DEF times, kept
  <2>5. CASE ~Old(item, now) /\ Allowed(new)
    <3>1. item # None /\ kept.window = item.window /\ Passed(kept) = Passed(item) + 1
      BY <1>5, <2>3, <2>5
    <3>2. \A i \in 1..Len(times) : i <= Len(times) - Passed(item) => times[i] <= kept.window + Delay
      BY <2>1, <3>1 DEF Spread
    <3>3. Spread(Append(times, time), won[me], kept, time)
      BY <1>1, <1>3, <2>1, <3>1, <3>2, SpreadAppend
    <3> QED
      BY <1>1, <2>5, <3>3 DEF times, kept
  <2>6. CASE ~Old(item, now) /\ ~Allowed(new)
    <3>1. item # None /\ kept.window = item.window /\ Passed(kept) = Passed(item)
      BY <1>5, <2>3, <2>6
    <3>2. Spread(times, won[me], kept, time)
      BY <2>1, <3>1, SpreadSame
    <3> QED
      BY <1>1, <2>6, <3>2 DEF times, kept
  <2> QED
    BY <2>4, <2>5, <2>6
<1>7. \A ip \in Peer : Spread(through'[ip], won[ip], attempts'[ip], time)
  <2> SUFFICES ASSUME NEW ip \in Peer PROVE Spread(through'[ip], won[ip], attempts'[ip], time)
    OBVIOUS
  <2> HIDE DEF me, table, item, new
  <2>1. CASE ip = me
    BY <1>6, <2>1
  <2>2. CASE ip # me
    BY <1>1, <1>4, <2>2
  <2> QED
    BY <2>1, <2>2
<1> QED
  BY <1>2, <1>7 DEF Spreads

LEMMA RightSpreads ==
  ASSUME LoginAssumption, LInv, Spreads, NEW r \in Request, Right(r)
  PROVE  Spreads'
<1>1. req[r].ip \in Peer
  BY BusyFields DEF Right, LInv
<1>2. \A ip \in Peer :
        /\ through'[ip] = through[ip]
        /\ attempts'[ip] = IF ip = req[r].ip THEN None ELSE attempts[ip]
        /\ won'[ip] = IF ip = req[r].ip THEN Append(won[ip], time) ELSE won[ip]
  BY DEF LInv, LimitTypeOK, Right
<1>3. /\ time \in Nat /\ time' = time
      /\ \A ip \in Peer : /\ through[ip] \in Seq(Nat) /\ won[ip] \in Seq(Nat)
                           /\ attempts[ip] \in Entry
                           /\ Spread(through[ip], won[ip], attempts[ip], time)
  BY DEF LInv, LimitTypeOK, Spreads, Right
<1>4. \A ip \in Peer : Spread(through[ip], Append(won[ip], time), None, time)
  BY LoginAssumption, <1>3, SpreadRight
<1>5. ASSUME NEW ip \in Peer PROVE Spread(through'[ip], won'[ip], attempts'[ip], time)
  <2>1. CASE ip = req[r].ip
    BY <1>2, <1>4, <2>1
  <2>2. CASE ip # req[r].ip
    BY <1>2, <1>3, <2>2
  <2> QED
    BY <2>1, <2>2
<1> QED
  BY <1>3, <1>5 DEF Spreads

LEMMA TickSpreads ==
  ASSUME LoginAssumption, LInv, Spreads, Tick
  PROVE  Spreads'
<1> DEFINE t0 == time + 1 - (Minute - Delay)
<1>1. /\ time \in Nat /\ time' = time + 1 /\ attempts' = attempts /\ t0 \in Int /\ t0 <= t0
      /\ Lately' = t0
  BY DEF LInv, LimitTypeOK, Tick, LoginAssumption, Lately
<1>2. \A ip \in Peer : through'[ip] = After(through[ip], t0) /\ won'[ip] = After(won[ip], t0)
  BY <1>1 DEF Tick
<1>3. \A ip \in Peer : /\ through[ip] \in Seq(Nat) /\ won[ip] \in Seq(Nat) /\ attempts[ip] \in Entry
                       /\ Spread(through[ip], won[ip], attempts[ip], time)
  BY DEF LInv, LimitTypeOK, Spreads
<1>4. \A ip \in Peer : Spread(After(through[ip], t0), After(won[ip], t0), attempts[ip], time + 1)
  BY <1>1, <1>3, SpreadTick
<1> QED
  BY <1>1, <1>2, <1>4 DEF Spreads

-----------------------------------------------------------------------------
(* The theorems.                                                            *)

\* The table, the times it lets through and the clock fit together in every reachable state.
THEOREM LoginInvariant == Spec => []LInv
<1>1. Init => LInv
  BY LoginAssumption, InitLInv
<1>2. LInv /\ [Next]_vars => LInv'
  <2> SUFFICES ASSUME LInv, [Next]_vars PROVE LInv'
    OBVIOUS
  <2>1. ASSUME NEW r \in Request, Wrong(r) PROVE LInv'
    <3>1. Idle \in Busy \union {Idle} /\ Idle.stage = "idle"
      BY DEF Idle
    <3> QED
      BY <2>1, <3>1, MovesOn DEF Wrong
  <2>2. ASSUME NEW r \in Request, Answer(r) PROVE LInv'
    <3>1. Idle \in Busy \union {Idle} /\ Idle.stage = "idle"
      BY DEF Idle
    <3> QED
      BY <2>2, <3>1, MovesOn DEF Answer
  <2>3. CASE UNCHANGED vars
    BY <2>3 DEF LInv, LimitTypeOK, CleanedUp, Prompt, Fits, vars
  <2> QED
    BY LoginAssumption, <2>1, <2>2, <2>3, ArriveKeeps, AskKeeps, RightKeeps, TickKeeps DEF Next
<1> QED
  BY <1>1, <1>2, PTL DEF Spec

\* What an address was let through over its successes fits together too.
THEOREM SpreadInvariant == Spec => []Spreads
<1>1. Init => Spreads
  BY LoginAssumption, InitSpreads
<1>2. LInv /\ Spreads /\ [Next]_vars => Spreads'
  <2> SUFFICES ASSUME LInv, Spreads, [Next]_vars PROVE Spreads'
    OBVIOUS
  <2>1. ASSUME UNCHANGED <<time, attempts, through, won>> PROVE Spreads'
    BY <2>1 DEF Spreads
  <2>2. ASSUME NEW r \in Request, Arrive(r) \/ Wrong(r) \/ Answer(r) PROVE Spreads'
    BY <2>1, <2>2 DEF Arrive, Wrong, Answer
  <2>3. CASE UNCHANGED vars
    BY <2>1, <2>3 DEF vars
  <2> QED
    BY LoginAssumption, <2>2, <2>3, AskSpreads, RightSpreads, TickSpreads DEF Next
<1> QED
  BY <1>1, <1>2, LoginInvariant, PTL DEF Spec

\* What an address may try is bounded over its successes too, however its attempts overlap:
\* two limits' worth in a minute less the delay, and one more for each success in that time.
THEOREM RateIsBounded == Spec => []RateBounded
<1>1. LInv /\ Spreads => RateBounded
  <2> SUFFICES ASSUME LInv, Spreads, NEW ip \in Peer
               PROVE  Len(After(through[ip], Lately)) <= (2 + Len(After(won[ip], Lately))) * Limit
    BY DEF RateBounded
  <2>1. /\ time \in Nat /\ through[ip] \in Seq(Nat) /\ won[ip] \in Seq(Nat) /\ attempts[ip] \in Entry
        /\ Spread(through[ip], won[ip], attempts[ip], time)
    BY DEF LInv, LimitTypeOK, Spreads
  <2> QED
    BY LoginAssumption, <2>1, SpreadRate DEF Lately
<1> QED
  BY <1>1, LoginInvariant, SpreadInvariant, PTL

\* The table keeps the addresses of the last two minutes.
THEOREM TableIsRecent == Spec => []TableRecent
<1>1. LInv => TableRecent
  <2> SUFFICES ASSUME LInv, NEW ip \in Peer, attempts[ip] # None
               PROVE attempts[ip].window > latest - 2 * Minute
    BY DEF TableRecent
  <2>1. /\ attempts[ip].window \in Int /\ latest \in Nat /\ lastCleanup \in Int /\ Minute \in Nat
        /\ attempts[ip].window > lastCleanup - Minute /\ lastCleanup > latest - Minute
    BY LoginAssumption DEF LInv, LimitTypeOK, CleanedUp, Entry, LoginAssumption
  <2> QED
    BY <2>1
<1> QED
  BY <1>1, LoginInvariant, PTL

\* Who is refused was let through often enough within the last minute.
THEOREM RefusalHasCause == Spec => RefusedForCause
<1> DEFINE Cause == \A r \in Request :
                      req[r].stage = "asking" /\ req'[r].stage = "refused" =>
                        Len(After(granted[req[r].ip], req[r].now - Minute)) >= Limit
<1>1. LInv /\ [Next]_vars => [Cause]_vars
  <2> SUFFICES ASSUME LInv, Next, NEW r \in Request, req[r].stage = "asking", req'[r].stage = "refused"
               PROVE Len(After(granted[req[r].ip], req[r].now - Minute)) >= Limit
    BY DEF vars
  <2>1. Ask(r)
    <3>1. req \in [Request -> Busy \union {Idle}]
      BY DEF LInv, LimitTypeOK
    <3>2. ASSUME NEW q \in Request, Arrive(q) PROVE FALSE
      BY <3>1, <3>2 DEF Arrive
    <3>3. ASSUME NEW q \in Request, Wrong(q) \/ Right(q) \/ Answer(q) PROVE FALSE
      BY <3>1, <3>3 DEF Wrong, Right, Answer, Idle
    <3>4. ASSUME NEW q \in Request, q # r, Ask(q) PROVE FALSE
      BY <3>1, <3>4 DEF Ask
    <3>5. ~Tick
      BY DEF Tick
    <3> QED
      BY <3>2, <3>3, <3>4, <3>5 DEF Next
  <2> DEFINE now == req[r].now
             me == req[r].ip
             item == Cleaned(now)[me]
  <2>2. /\ me \in Peer /\ now \in Nat /\ now <= time /\ time <= now + Delay
        /\ item \in Entry /\ Fits(granted[me], item, time)
        /\ time \in Nat /\ granted[me] \in Seq(Nat)
    BY <2>1, LoginAssumption, AskEffect DEF LInv, LimitTypeOK
  <2>3. ~Allowed(Counted(item, now))
    BY <2>1, <2>2 DEF Ask, LInv, LimitTypeOK
  <2> HIDE DEF now, me, item
  <2>4. ~Old(item, now) /\ item.count + 1 > Limit
    <3>1. Limit \in Nat \ {0} /\ item.count \in Nat
      BY <2>2, LoginAssumption, PassedType
    <3>2. CASE Old(item, now)
      BY <2>3, <3>1, <3>2 DEF Allowed, Counted
    <3>3. CASE ~Old(item, now)
      <4>1. [item EXCEPT !.count = @ + 1].count = item.count + 1
        BY <2>2 DEF Entry
      <4> QED
        BY <2>3, <3>1, <3>3, <4>1 DEF Allowed, Counted
    <3> QED
      BY <3>2, <3>3
  <2>5. Len(After(granted[me], now - Minute)) >= Limit
    BY <2>2, <2>4, LoginAssumption, RefusedFits
  <2> QED
    BY <2>5 DEF me, now
<1>2. Spec => [][Cause]_vars
  BY <1>1, LoginInvariant, PTL DEF Spec
<1> QED
  BY <1>2 DEF RefusedForCause
=============================================================================
