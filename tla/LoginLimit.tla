----------------------------- MODULE LoginLimit -----------------------------
(***************************************************************************)
(* The limit on login attempts of a client: login, allowLogin, resetLogin  *)
(* and loginClientIP.  An attempt reads the clock before it has loginMu,   *)
(* and clears its client's window only after its password was checked.     *)
(* Time is in ticks, of which Minute make the length of a window.          *)
(***************************************************************************)
EXTENDS Integers, Sequences, FiniteSets

CONSTANTS
  Request,   \* goroutines
  Peer,      \* addresses a connection comes from
  Trusted,   \* addresses of trusted proxies
  Headers,   \* values of X-Forwarded-For, as sequences of addresses and Junk
  Junk,      \* an element that is no address
  Limit, Minute,
  Delay,     \* the longest time between time.Now and loginMu
  MaxTime,
  MaxCount,  \* bound on a count, above Limit
  MaxWon     \* bound on the successes of an address of late

ASSUME LoginAssumption ==
  /\ Limit \in Nat \ {0} /\ Minute \in Nat \ {0} /\ Delay \in Nat /\ Delay < Minute
  /\ MaxTime \in Nat /\ MaxCount \in Nat /\ MaxCount > Limit
  /\ MaxWon \in Nat /\ Trusted \subseteq Peer /\ Junk \notin Peer
  /\ Headers \subseteq Seq(Peer \union {Junk})

VARIABLES
  time,
  attempts,      \* loginAttempts[ip], None when it has no entry
  lastCleanup,   \* loginLastCleanup
  req,
  granted,       \* history: when attempts of ip were allowed since its last reset, as far as they matter
  through, won,  \* history: when attempts of ip were allowed at all, and when they were right, of late
  latest         \* history: the latest time an attempt came with to loginMu

vars == <<time, attempts, lastCleanup, req, granted, through, won, latest>>

\* The zero time is long ago.
None == [window |-> -Minute, count |-> 0]
Idle == [stage |-> "idle"]

Init ==
  /\ time = 0 /\ attempts = [ip \in Peer |-> None] /\ lastCleanup = -Minute
  /\ req = [r \in Request |-> Idle]
  /\ granted = [ip \in Peer |-> <<>>] /\ latest = 0
  /\ through = [ip \in Peer |-> <<>>] /\ won = [ip \in Peer |-> <<>>]

\* Of times in order, those after t0.
After(times, t0) ==
  SubSeq(times, Cardinality({i \in 1..Len(times) : times[i] <= t0}) + 1, Len(times))

\* A minute ago, less what may pass between the clock and the mutex.
Lately == time - (Minute - Delay)

\* The address that forwarded the request, if a trusted proxy tells one.
ClientIP(peer, forwarded) ==
  LET addresses == {i \in 1..Len(forwarded) : forwarded[i] # Junk}
  IN  IF peer \in Trusted /\ addresses # {}
      THEN forwarded[CHOOSE i \in addresses : \A j \in addresses : i <= j] ELSE peer

Arrive(r) ==
  /\ req[r] = Idle
  /\ \E peer \in Peer, forwarded \in Headers :
       req' = [req EXCEPT ![r] = [stage |-> "asking", ip |-> ClientIP(peer, forwarded), now |-> time]]
  /\ UNCHANGED <<time, attempts, lastCleanup, granted, through, won, latest>>

Old(item, now) == now - item.window >= Minute

\* The table after the cleanup that is due at most once a minute.
Cleaned(now) ==
  IF now - lastCleanup >= Minute
  THEN [ip \in Peer |-> IF Old(attempts[ip], now) THEN None ELSE attempts[ip]]
  ELSE attempts

\* Mistake: every attempt puts the next cleanup off.
CleanedAtAlways(now) == now

CleanedAt(now) == IF now - lastCleanup >= Minute THEN now ELSE lastCleanup

\* Mistake: the window begins anew with every attempt.
CountedSliding(item, now) ==
  [window |-> now, count |-> IF Old(item, now) THEN 1 ELSE item.count + 1]

Counted(item, now) ==
  IF Old(item, now) THEN [window |-> now, count |-> 1] ELSE [item EXCEPT !.count = @ + 1]

\* Bound: the table does not count further.
Stored(item) == IF item.count > MaxCount THEN [item EXCEPT !.count = MaxCount] ELSE item

\* Mistake: the attempt itself does not count.
AllowedOneMore(item) == item.count - 1 <= Limit

Allowed(item) == item.count <= Limit

\* allowLogin, under loginMu.
Ask(r) ==
  /\ req[r].stage = "asking"
  /\ LET ip == req[r].ip  now == req[r].now
         item == Counted(Cleaned(now)[ip], now)
     IN  /\ attempts' = [Cleaned(now) EXCEPT ![ip] = Stored(item)]
         /\ lastCleanup' = CleanedAt(now)
         /\ req' = [req EXCEPT ![r].stage = IF Allowed(item) THEN "checking" ELSE "refused"]
         /\ granted' = IF Allowed(item) THEN [granted EXCEPT ![ip] = Append(@, time)] ELSE granted
         /\ through' = IF Allowed(item) THEN [through EXCEPT ![ip] = Append(@, time)] ELSE through
         /\ latest' = IF now > latest THEN now ELSE latest
  /\ UNCHANGED <<time, won>>

\* The body is no JSON, or the e-mail or the password is wrong.
Wrong(r) ==
  /\ req[r].stage = "checking" /\ req' = [req EXCEPT ![r] = Idle]
  /\ UNCHANGED <<time, attempts, lastCleanup, granted, through, won, latest>>

\* The password is right: resetLogin, whatever other attempts did meanwhile.
Right(r) ==
  /\ req[r].stage = "checking" /\ Len(won[req[r].ip]) < MaxWon
  /\ req' = [req EXCEPT ![r].stage = "known"]
  /\ attempts' = [attempts EXCEPT ![req[r].ip] = None]
  /\ granted' = [granted EXCEPT ![req[r].ip] = <<>>]
  /\ won' = [won EXCEPT ![req[r].ip] = Append(@, time)]
  /\ UNCHANGED <<time, lastCleanup, through, latest>>

\* The answer: 429; or of a known user 403, 500, or 200 with a session.
Answer(r) ==
  /\ req[r].stage \in {"refused", "known"} /\ req' = [req EXCEPT ![r] = Idle]
  /\ UNCHANGED <<time, attempts, lastCleanup, granted, through, won, latest>>

Tick ==
  /\ time < MaxTime /\ \A r \in Request : req[r].stage = "asking" => time - req[r].now < Delay
  /\ time' = time + 1
  /\ granted' = [ip \in Peer |-> After(granted[ip], time - Minute - Delay)]
  /\ through' = [ip \in Peer |-> After(through[ip], Lately')]
  /\ won' = [ip \in Peer |-> After(won[ip], Lately')]
  /\ UNCHANGED <<attempts, lastCleanup, req, latest>>

Next ==
  \/ \E r \in Request : Arrive(r) \/ Ask(r) \/ Wrong(r) \/ Right(r) \/ Answer(r)
  \/ Tick

Spec == Init /\ [][Next]_vars

-----------------------------------------------------------------------------
\* What an address may try is bounded over its successes too, although each clears the window,
\* a late one even that in which other attempts began: in a minute, less what may pass between
\* the clock and the mutex, 2 * Limit attempts are let through, and Limit more for each success
\* in that time, however they overlap.
RateBounded ==
  \A ip \in Peer :
    Len(After(through[ip], Lately)) <= (2 + Len(After(won[ip], Lately))) * Limit

\* 429 "too many login attempts" is said only to a client that was let through Limit times
\* within the last minute, and not since a success: refused attempts do not prolong the refusal.
RefusedForCause ==
  [][\A r \in Request :
       req[r].stage = "asking" /\ req'[r].stage = "refused" =>
         Len(After(granted[req[r].ip], req[r].now - Minute)) >= Limit]_vars

\* The table does not keep every address that ever came: what is in it began less than two
\* minutes before the latest attempt of anyone.
TableRecent == \A ip \in Peer : attempts[ip] # None => attempts[ip].window > latest - 2 * Minute
=============================================================================
