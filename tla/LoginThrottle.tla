----------------------------- MODULE LoginThrottle -----------------------------
(***************************************************************************)
(* The lockout of repeated bad logins: evaluate_ip_lockout over the audit  *)
(* log, and the login handler that consults it.  Handlers run on worker    *)
(* threads: each reads what is committed, checks the password, and only    *)
(* then commits its own row.                                               *)
(***************************************************************************)
EXTENDS Integers, Sequences, FiniteSets, FiniteSetsExt

CONSTANTS Ips, Logins,
          Threshold,     \* login_lockout_threshold
          Window,        \* login_lockout_minutes
          FetchWindow,   \* _AUDIT_FETCH_WINDOW, an hour: the window may be longer
          MaxClock,      \* bound: time
          MaxAttempts    \* bound: attempts logged

(* Requests are finitely many, and a deleted row's name is no address.     *)
Throttled ==
  /\ Threshold \in Nat \ {0} /\ Window \in Nat /\ FetchWindow \in Nat
  /\ IsFiniteSet(Logins) /\ "none" \notin Ips
  /\ MaxClock \in Nat \ {0} /\ MaxAttempts \in Nat
ASSUME LoginAssumption == Throttled

VARIABLES clock,
          audit,    \* the login rows, oldest first: [ip, ok, at]; ip "none" if deleted
          asking    \* [Requests -> the ip of a request past its lockout check, or "none"]

loginVars == <<clock, audit, asking>>

(* recent_login_attempts, and of one ip the failures after its last success *)
(* that are still inside the window.                                       *)
Recent == {i \in DOMAIN audit : clock - audit[i].at <= FetchWindow}
ConsecutiveFails(ip) ==
  {i \in Recent : /\ audit[i].ip = ip /\ ~audit[i].ok
                  /\ ~\E j \in Recent : j > i /\ audit[j].ip = ip /\ audit[j].ok}
FailsInWindow(ip) == {i \in ConsecutiveFails(ip) : clock - audit[i].at <= Window}
(* Mutant: locked only above the threshold.                                *)
LockedAbove(ip) == Cardinality(FailsInWindow(ip)) > Threshold
Locked(ip) == Cardinality(FailsInWindow(ip)) >= Threshold

LoginInit == clock = 1 /\ audit = <<>> /\ asking = [r \in Logins |-> "none"]

(* A request of a locked address is refused; the row it logs is of a type  *)
(* no lockout counts.                                                      *)
Ask(r, ip) ==
  /\ asking[r] = "none" /\ ~Locked(ip)
  /\ asking' = [asking EXCEPT ![r] = ip]
  /\ UNCHANGED <<clock, audit>>

(* The password is right or wrong; either way the row is committed, since  *)
(* the session commits on the domain error that refuses the login.         *)
Answer(r, ok) ==
  /\ asking[r] # "none" /\ Len(audit) < MaxAttempts
  /\ audit' = Append(audit, [ip |-> asking[r], ok |-> ok, at |-> clock])
  /\ asking' = [asking EXCEPT ![r] = "none"]
  /\ UNCHANGED clock

(* scripts/dev_reset_lockout.py, for one address: the place of a row it    *)
(* deletes stays, so that the others keep theirs.                          *)
ResetLockout(ip) ==
  LET gone == {i \in DOMAIN audit : audit[i].ip = ip /\ ~audit[i].ok}
  IN  /\ gone # {}
      /\ audit' = [i \in DOMAIN audit |-> IF i \in gone THEN [audit[i] EXCEPT !.ip = "none"] ELSE audit[i]]
      /\ UNCHANGED <<clock, asking>>

Tick == clock < MaxClock /\ clock' = clock + 1 /\ UNCHANGED <<audit, asking>>

LoginNext ==
  \/ \E r \in Logins : \/ \E ip \in Ips : Ask(r, ip)
                         \/ \E ok \in BOOLEAN : Answer(r, ok)
  \/ \E ip \in Ips : ResetLockout(ip)
  \/ Tick

LoginSpec == LoginInit /\ [][LoginNext]_loginVars

---------------------------------------------------------------------------
LoginTypeOK ==
  /\ clock \in 1..MaxClock /\ Len(audit) <= MaxAttempts
  /\ audit \in Seq([ip : Ips \cup {"none"}, ok : BOOLEAN, at : 1..MaxClock])
  /\ asking \in [Logins -> Ips \cup {"none"}]

(* No stretch of time as long as the window sees more guesses in a row     *)
(* from an address than the threshold and the requests that were past      *)
(* their check together, whatever other addresses do.  The window counts   *)
(* for no more than the hour of log that is read.                          *)
LockoutHolds ==
  \A i \in {j \in DOMAIN audit : audit[j].ip \in Ips} :
    LET ip == audit[i].ip
        within == {j \in 1..i : audit[j].ip = ip /\ audit[i].at - audit[j].at <= Min({Window, FetchWindow})}
    IN  (\A j \in within : ~audit[j].ok)
          => Cardinality(within) <= Threshold + Cardinality(Logins) - 1
=============================================================================
