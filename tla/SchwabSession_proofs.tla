--------------------------- MODULE SchwabSession_proofs ---------------------------
(***************************************************************************)
(* Proofs about SchwabSession, for any number of callers and any bounds.   *)
(*                                                                         *)
(* A lock of the registry is fetched before it is awaited, so two callers  *)
(* may wait for different locks of the same user.  The inductive invariant *)
(* says when they cannot: as long as nothing has dropped the registry      *)
(* entry, every caller that is not idle has fetched the one lock in it.    *)
(*                                                                         *)
(* That the row holds a token Schwab honours is false between a refresh    *)
(* Schwab answered and the answer's commit: CredentialSafe says that the   *)
(* answer on its way is then the token, and that it is the only one.       *)
(***************************************************************************)
EXTENDS SchwabSession, TLAPS

\* Locks are numbered as they are made, one more after every disconnect.
LocksNumbered ==
    /\ used.disconnects <= MaxDisconnects
    /\ nextLock <= used.disconnects + (IF registry = 0 THEN 1 ELSE 2)

\* A caller whose refresh is in flight is inside its lock.
InsideHolds == \A c \in InFlight : holder[mine[c]] = c

\* Without a disconnect there is one lock, and everybody uses it.
OneLock ==
    used.disconnects = 0 =>
        /\ ~deleting
        /\ \A c \in Callers : at[c] # "idle" => registry # 0 /\ mine[c] = registry

\* Without a disconnect the row of a refresh in flight is still there, and
\* rows have their metadata.
RowsHold ==
    used.disconnects = 0 =>
        /\ InFlight # {} => row # NoRow
        /\ row # NoRow => row.meta

IInv == TypeOK /\ LocksNumbered /\ InsideHolds /\ OneLock /\ RowsHold

-----------------------------------------------------------------------------
\* What the numbering is for: a caller that finds no lock makes one of LockIds.
LEMMA NewLockIsALock ==
    ASSUME TypeOK, LocksNumbered, registry = 0
    PROVE  nextLock \in LockIds /\ nextLock + 1 \in 1 .. MaxDisconnects + 2
  BY SessionAssumption DEF TypeOK, LocksNumbered, LockIds, Bounds

\* In the initial states all is quiet.
LEMMA InitHolds == Init => IInv
  <1> SUFFICES ASSUME Init PROVE IInv
    OBVIOUS
  <1> USE SessionAssumption DEF Init
  <1>1. TypeOK
    <2>1. row \in Row
      BY DEF Row, NoRow
    <2>2. 1 \in LockIds /\ nextLock \in 1 .. MaxDisconnects + 2
      BY DEF LockIds
    <2>3. 1 \in Attempts /\ 0 \in Answers /\ issued \in 0 .. MaxTokens
      BY DEF Attempts, Answers
    <2> QED
      BY <2>1, <2>2, <2>3 DEF TypeOK, Locations
  <1>2. LocksNumbered
    BY DEF LocksNumbered, Bounds
  <1>3. InsideHolds /\ OneLock /\ RowsHold
    BY DEF InsideHolds, OneLock, RowsHold, InFlight
  <1> QED
    BY <1>1, <1>2, <1>3 DEF IInv

\* Schwab's answer leaves Schwab's state well typed.
LEMMA ProcessType ==
    ASSUME TypeOK, NEW c \in Callers, NEW reply \in Answers, Process(c, reply)
    PROVE  /\ valid' \in SUBSET Tokens /\ expired' \in SUBSET Tokens
           /\ issued' \in 0 .. MaxTokens
  <1>1. CASE UNCHANGED schwab
    BY <1>1 DEF TypeOK, schwab
  <1>2. CASE ~UNCHANGED schwab
    <2>1. /\ issued < MaxTokens /\ issued' = issued + 1
          /\ valid' = (valid \ {asked[c]}) \cup {issued + 1}
          /\ UNCHANGED expired
      BY <1>2 DEF Process
    <2>2. issued + 1 \in Tokens /\ issued + 1 \in 0 .. MaxTokens
      BY <2>1, SessionAssumption DEF TypeOK, Tokens
    <2> QED
      BY <2>1, <2>2 DEF TypeOK
  <1> QED
    BY <1>1, <1>2

\* Every step of a call keeps the types.
LEMMA CallType ==
    ASSUME TypeOK, LocksNumbered, NEW c \in Callers,
           \/ Call(c) \/ CallStep(c) \/ PersistFails(c) \/ Answer(c) \/ LoseReply(c)
    PROVE  TypeOK'
  <1>1. CASE Call(c)
    <2>1. CASE registry = 0
      BY <1>1, <2>1, NewLockIsALock DEF Call, TypeOK, Locations, schwab
    <2>2. CASE registry # 0
      BY <1>1, <2>2 DEF Call, TypeOK, Locations, schwab
    <2> QED
      BY <2>1, <2>2
  <1>2. CASE ReturnAtOnce(c)
    BY <1>2 DEF ReturnAtOnce, TypeOK, Locations, schwab
  <1>3. CASE SendRefresh(c)
    BY <1>3 DEF SendRefresh, TypeOK, Locations, Attempts, Row, schwab
  <1>4. CASE ResumeInvalidGrant(c)
    BY <1>4 DEF ResumeInvalidGrant, CredentialDeleted, Release, TypeOK, Locations, Row, NoRow, schwab
  <1>5. CASE ResumeError(c)
    BY <1>5 DEF ResumeError, Release, TypeOK, Locations, schwab
  <1>6. CASE ResumeTokens(c)
    BY <1>6 DEF ResumeTokens, StoreRefreshToken, Release, TypeOK, Locations, Row, schwab
  <1>7. CASE PersistFails(c)
    BY <1>7 DEF PersistFails, Spend, Release, TypeOK, Locations, Bounds, schwab
  <1>8. CASE Answer(c)
    <2> PICK reply \in Answers : Process(c, reply) /\ answer' = [answer EXCEPT ![c] = reply]
      BY <1>8 DEF Answer
    <2> QED
      BY <1>8, ProcessType DEF Answer, TypeOK, Locations
  <1>9. CASE LoseReply(c)
    <2>1. /\ valid' \in SUBSET Tokens /\ expired' \in SUBSET Tokens
          /\ issued' \in 0 .. MaxTokens
      <3>1. CASE UNCHANGED schwab
        BY <3>1 DEF TypeOK, schwab
      <3>2. CASE \E reply \in Answers : Process(c, reply)
        BY <3>2, ProcessType
      <3> QED
        BY <1>9, <3>1, <3>2 DEF LoseReply
    <2>2. tries' \in [Callers -> Attempts]
      BY <1>9 DEF LoseReply, MayRetry, TypeOK, Attempts
    <2>3. at' \in [Callers -> Locations] /\ answer' \in [Callers -> Answers]
      BY <1>9 DEF LoseReply, TypeOK, Locations, Answers
    <2>4. used' \in [Bounds -> Nat]
      BY <1>9 DEF LoseReply, Spend, TypeOK, Bounds
    <2> QED
      BY <1>9, <2>1, <2>2, <2>3, <2>4 DEF LoseReply, TypeOK
  <1> QED
    BY <1>1, <1>2, <1>3, <1>4, <1>5, <1>6, <1>7, <1>8, <1>9 DEF CallStep, Resume

\* So does every other step.
LEMMA OtherType ==
    ASSUME TypeOK,
           \/ Exchange \/ PreferencesFail \/ Connect \/ Disconnect \/ DisconnectCommit
           \/ AccessTokenExpires \/ Crash \/ \E t \in Tokens : RefreshTokenExpires(t)
    PROVE  TypeOK'
  <1>1. CASE Exchange
    BY <1>1, SessionAssumption DEF Exchange, Spend, TypeOK, Tokens, Bounds
  <1>2. CASE PreferencesFail
    BY <1>2 DEF PreferencesFail, TypeOK, schwab
  <1>3. CASE Connect
    BY <1>3 DEF Connect, Spend, TypeOK, Row, Bounds, schwab
  <1>4. CASE Disconnect
    BY <1>4 DEF Disconnect, Spend, TypeOK, Bounds, schwab
  <1>5. CASE DisconnectCommit
    BY <1>5 DEF DisconnectCommit, TypeOK, Row, NoRow, schwab
  <1>6. CASE AccessTokenExpires
    BY <1>6 DEF AccessTokenExpires, TypeOK, schwab
  <1>7. CASE Crash
    <2>1. 1 \in LockIds /\ 1 \in 1 .. MaxDisconnects + 2
      BY SessionAssumption DEF LockIds
    <2>2. 1 \in Attempts /\ 0 \in Answers
      BY DEF Attempts, Answers
    <2>3. used' \in [Bounds -> Nat]
      BY <1>7 DEF Crash, Spend, TypeOK, Bounds
    <2> QED
      BY <1>7, <2>1, <2>2, <2>3 DEF Crash, TypeOK, Locations, schwab
  <1>8. CASE \E t \in Tokens : RefreshTokenExpires(t)
    BY <1>8 DEF RefreshTokenExpires, TypeOK, process
  <1> QED
    BY <1>1, <1>2, <1>3, <1>4, <1>5, <1>6, <1>7, <1>8

-----------------------------------------------------------------------------
\* The numbering survives every step of a call: only Call makes a lock.
LEMMA CallNumbers ==
    ASSUME TypeOK, LocksNumbered, NEW c \in Callers,
           \/ Call(c) \/ CallStep(c) \/ PersistFails(c) \/ Answer(c) \/ LoseReply(c)
    PROVE  LocksNumbered' /\ used'.disconnects = used.disconnects
  <1>1. CASE Call(c)
    BY <1>1, SessionAssumption DEF Call, TypeOK, LocksNumbered, LockIds, Bounds
  <1>2. CASE ~Call(c)
    <2>1. nextLock' = nextLock /\ registry' = registry
      BY <1>2 DEF CallStep, Resume, ReturnAtOnce, SendRefresh, ResumeInvalidGrant, ResumeError,
                  ResumeTokens, PersistFails, Answer, LoseReply
    <2>2. used'.disconnects = used.disconnects
      BY <1>2 DEF CallStep, Resume, ReturnAtOnce, SendRefresh, ResumeInvalidGrant, ResumeError,
                  ResumeTokens, PersistFails, Answer, LoseReply, Spend, TypeOK, Bounds
    <2> QED
      BY <2>1, <2>2 DEF LocksNumbered
  <1> QED
    BY <1>1, <1>2

\* One refresh in flight per lock, whatever locks there are.
LEMMA OneRefreshPerLock ==
    ASSUME TypeOK, InsideHolds, NEW a \in InFlight, NEW b \in InFlight, mine[a] = mine[b]
    PROVE  a = b
  BY DEF InsideHolds

\* While there is one lock there is one refresh.
LEMMA OneRefresh ==
    ASSUME TypeOK, InsideHolds, OneLock
    PROVE  OneRefreshUntilDisconnect
  <1> SUFFICES ASSUME used.disconnects = 0, NEW a \in InFlight, NEW b \in InFlight
               PROVE  a = b
    BY DEF OneRefreshUntilDisconnect
  <1>1. mine[a] = registry /\ mine[b] = registry
    BY DEF OneLock, InFlight
  <1> QED
    BY <1>1, OneRefreshPerLock

\* A step of one caller lets another one neither in nor out.
LEMMA CallHolds ==
    ASSUME TypeOK, TypeOK', LocksNumbered, InsideHolds, NEW c \in Callers,
           \/ Call(c) \/ CallStep(c) \/ PersistFails(c) \/ Answer(c) \/ LoseReply(c)
    PROVE  InsideHolds'
  <1> SUFFICES ASSUME NEW d \in Callers, at'[d] \in {"sent", "answered"}
               PROVE  holder'[mine'[d]] = d
    BY DEF InsideHolds, InFlight
  <1> USE DEF TypeOK
  <1> DEFINE Held == \A e \in Callers : at[e] \in {"sent", "answered"} => holder[mine[e]] = e
  <1>0. Held
    BY DEF InsideHolds, InFlight
  <1>1. CASE Call(c)
    BY <1>0, <1>1 DEF Call
  <1>2. CASE ReturnAtOnce(c)
    BY <1>0, <1>2 DEF ReturnAtOnce
  <1>3. CASE SendRefresh(c)
    BY <1>0, <1>3, SessionAssumption DEF SendRefresh, LockFree
  <1>4. CASE Resume(c) \/ PersistFails(c)
    <2>1. /\ at[c] = "answered" /\ mine' = mine
          /\ at' = [at EXCEPT ![c] = "idle"]
          /\ holder' = Release(c)
      BY <1>4 DEF Resume, ResumeInvalidGrant, ResumeError, ResumeTokens, PersistFails
    <2> QED
      BY <1>0, <2>1 DEF Release
  <1>5. CASE Answer(c) \/ LoseReply(c)
    <2>1. at[c] = "sent" /\ mine' = mine /\ holder' = holder
      BY <1>5 DEF Answer, LoseReply
    <2>2. at[d] \in {"sent", "answered"}
      <3>1. at' = at \/ at' = [at EXCEPT ![c] = "answered"]
        BY <1>5 DEF Answer, LoseReply
      <3> QED
        BY <2>1, <3>1
    <2> QED
      BY <1>0, <2>1, <2>2
  <1> QED
    BY <1>1, <1>2, <1>3, <1>4, <1>5 DEF CallStep

\* A caller that is not idle uses the lock of the registry, until that goes.
LEMMA CallSharesLock ==
    ASSUME TypeOK, TypeOK', LocksNumbered, OneLock, NEW c \in Callers,
           \/ Call(c) \/ CallStep(c) \/ PersistFails(c) \/ Answer(c) \/ LoseReply(c)
    PROVE  OneLock'
  <1> SUFFICES ASSUME used'.disconnects = 0
               PROVE  /\ ~deleting'
                      /\ \A d \in Callers : at'[d] # "idle" => registry' # 0 /\ mine'[d] = registry'
    BY DEF OneLock
  <1>1. used.disconnects = 0
    BY CallNumbers
  <1>2. ~deleting /\ \A d \in Callers : at[d] # "idle" => registry # 0 /\ mine[d] = registry
    BY <1>1 DEF OneLock
  <1>3. CASE Call(c)
    <2>1. registry' # 0
      BY <1>3 DEF Call, TypeOK
    <2>2. \A d \in Callers : d # c /\ at'[d] # "idle" => registry # 0
      BY <1>2, <1>3 DEF Call, TypeOK
    <2>3. registry # 0 => registry' = registry
      BY <1>3 DEF Call
    <2> QED
      BY <1>2, <1>3, <2>1, <2>2, <2>3 DEF Call, TypeOK
  <1>4. CASE ~Call(c)
    <2>1. registry' = registry /\ mine' = mine /\ deleting' = deleting
      BY <1>4 DEF CallStep, Resume, ReturnAtOnce, SendRefresh, ResumeInvalidGrant, ResumeError,
                  ResumeTokens, PersistFails, Answer, LoseReply
    <2>2. at[c] # "idle" /\ \A d \in Callers : d # c => at'[d] = at[d]
      BY <1>4 DEF CallStep, Resume, ReturnAtOnce, SendRefresh, ResumeInvalidGrant, ResumeError,
                  ResumeTokens, PersistFails, Answer, LoseReply, TypeOK
    <2> QED
      BY <1>2, <2>1, <2>2
  <1> QED
    BY <1>3, <1>4

\* Only the refresh in flight, which is the only one, drops the row; none
\* brings one back.
LEMMA CallKeepsRow ==
    ASSUME IInv, TypeOK', NEW c \in Callers,
           \/ Call(c) \/ CallStep(c) \/ PersistFails(c) \/ Answer(c) \/ LoseReply(c)
    PROVE  RowsHold'
  <1> USE DEF IInv
  <1> SUFFICES ASSUME used'.disconnects = 0
               PROVE  /\ InFlight' # {} => row' # NoRow
                      /\ row' # NoRow => row'.meta
    BY DEF RowsHold
  <1>1. used.disconnects = 0
    BY CallNumbers
  <1>2. (InFlight # {} => row # NoRow) /\ (row # NoRow => row.meta)
    BY <1>1 DEF RowsHold
  <1>3. \A a, b \in InFlight : a = b
    BY <1>1, OneRefresh DEF OneRefreshUntilDisconnect
  <1>4. CASE SendRefresh(c)
    BY <1>2, <1>4 DEF SendRefresh
  <1>5. CASE ResumeInvalidGrant(c)
    <2>1. c \in InFlight /\ \A d \in Callers : d # c => d \notin InFlight
      BY <1>3, <1>5 DEF ResumeInvalidGrant, InFlight
    <2>2. InFlight' = {}
      BY <1>5, <2>1 DEF ResumeInvalidGrant, InFlight, TypeOK
    <2> QED
      BY <1>5, <2>2 DEF ResumeInvalidGrant, CredentialDeleted
  <1>6. CASE ResumeTokens(c)
    <2>1. row.meta /\ row \in Row
      BY <1>2, <1>6 DEF ResumeTokens, InFlight, TypeOK
    <2> QED
      BY <1>6, <2>1 DEF ResumeTokens, StoreRefreshToken, Row, NoRow
  <1>7. CASE ~(SendRefresh(c) \/ ResumeInvalidGrant(c) \/ ResumeTokens(c))
    <2>1. row' = row
      BY <1>7 DEF CallStep, Resume, Call, ReturnAtOnce, ResumeError, PersistFails, Answer, LoseReply
    <2>2. \A d \in Callers : at'[d] \in {"sent", "answered"} => at[d] \in {"sent", "answered"}
      BY <1>7 DEF CallStep, Resume, Call, ReturnAtOnce, ResumeError, PersistFails, Answer, LoseReply,
                  TypeOK
    <2>3. InFlight' \subseteq InFlight
      BY <2>2 DEF InFlight
    <2> QED
      BY <1>2, <2>1, <2>3
  <1> QED
    BY <1>4, <1>5, <1>6, <1>7

-----------------------------------------------------------------------------
\* The handlers, Schwab's clock and a crash keep the rest of the invariant.
LEMMA OtherKeeps ==
    ASSUME IInv, TypeOK',
           \/ Exchange \/ PreferencesFail \/ Connect \/ Disconnect \/ DisconnectCommit
           \/ AccessTokenExpires \/ Crash \/ \E t \in Tokens : RefreshTokenExpires(t)
    PROVE  LocksNumbered' /\ InsideHolds' /\ OneLock' /\ RowsHold'
  <1> USE DEF IInv
  <1>1. CASE Disconnect
    <2>1. used'.disconnects = used.disconnects + 1 /\ used.disconnects \in Nat
      BY <1>1 DEF Disconnect, Spend, TypeOK, Bounds
    <2>2. LocksNumbered'
      BY <1>1, <2>1, SessionAssumption DEF Disconnect, LocksNumbered, TypeOK
    <2>3. InsideHolds'
      BY <1>1 DEF Disconnect, InsideHolds, InFlight
    <2> QED
      BY <2>1, <2>2, <2>3 DEF OneLock, RowsHold
  <1>2. CASE Crash
    <2>1. used'.disconnects = used.disconnects /\ used.disconnects \in Nat
      BY <1>2 DEF Crash, Spend, TypeOK, Bounds
    <2>2. InFlight' = {}
      BY <1>2 DEF Crash, InFlight
    <2>3. LocksNumbered'
      BY <1>2, <2>1 DEF Crash, LocksNumbered
    <2>4. OneLock'
      BY <1>2 DEF Crash, OneLock
    <2> QED
      BY <1>2, <2>1, <2>2, <2>3, <2>4 DEF Crash, InsideHolds, RowsHold
  <1>3. CASE \/ Exchange \/ PreferencesFail \/ Connect \/ DisconnectCommit
             \/ AccessTokenExpires \/ \E t \in Tokens : RefreshTokenExpires(t)
    <2>1. used'.disconnects = used.disconnects
      BY <1>3 DEF Exchange, PreferencesFail, Connect, DisconnectCommit, AccessTokenExpires,
                  RefreshTokenExpires, Spend, TypeOK, Bounds
    <2>2. /\ registry' = registry /\ nextLock' = nextLock
          /\ holder' = holder /\ at' = at /\ mine' = mine
      BY <1>3 DEF Exchange, PreferencesFail, Connect, DisconnectCommit, AccessTokenExpires,
                  RefreshTokenExpires, process
    <2>3. deleting' => deleting
      BY <1>3 DEF Exchange, PreferencesFail, Connect, DisconnectCommit, AccessTokenExpires,
                  RefreshTokenExpires, process
    <2>4. LocksNumbered'
      BY <2>1, <2>2 DEF LocksNumbered
    <2>5. InsideHolds'
      BY <2>2 DEF InsideHolds, InFlight
    <2>6. OneLock'
      BY <2>1, <2>2, <2>3 DEF OneLock
    <2>7. row' = row \/ (row' # NoRow /\ row'.meta) \/ deleting
      BY <1>3, SessionAssumption
      DEF Exchange, PreferencesFail, Connect, DisconnectCommit, AccessTokenExpires,
          RefreshTokenExpires, NoRow
    <2>8. RowsHold'
      BY <2>1, <2>2, <2>7 DEF RowsHold, OneLock, InFlight
    <2> QED
      BY <2>4, <2>5, <2>6, <2>8
  <1> QED
    BY <1>1, <1>2, <1>3

\* The invariant is inductive.
LEMMA StepHolds == IInv /\ [Next]_vars => IInv'
  <1> SUFFICES ASSUME IInv, [Next]_vars PROVE IInv'
    OBVIOUS
  <1>1. CASE \E c \in Callers :
                \/ Call(c) \/ CallStep(c) \/ PersistFails(c) \/ Answer(c) \/ LoseReply(c)
    <2> PICK c \in Callers :
                \/ Call(c) \/ CallStep(c) \/ PersistFails(c) \/ Answer(c) \/ LoseReply(c)
      BY <1>1
    <2>1. TypeOK'
      BY CallType DEF IInv
    <2>2. LocksNumbered'
      BY CallNumbers DEF IInv
    <2>3. InsideHolds'
      BY <2>1, CallHolds DEF IInv
    <2>4. OneLock'
      BY <2>1, CallSharesLock DEF IInv
    <2>5. RowsHold'
      BY <2>1, CallKeepsRow
    <2> QED
      BY <2>1, <2>2, <2>3, <2>4, <2>5 DEF IInv
  <1>2. CASE \/ Exchange \/ PreferencesFail \/ Connect \/ Disconnect \/ DisconnectCommit
             \/ AccessTokenExpires \/ Crash \/ \E t \in Tokens : RefreshTokenExpires(t)
    <2>1. TypeOK'
      BY <1>2, OtherType DEF IInv
    <2> QED
      BY <1>2, <2>1, OtherKeeps DEF IInv
  <1>3. CASE UNCHANGED vars
    BY <1>3 DEF vars, process, schwab, IInv, TypeOK, LocksNumbered, InsideHolds, OneLock, RowsHold,
                InFlight
  <1> QED
    BY <1>1, <1>2, <1>3 DEF Next

\* The invariant holds in every reachable state.
THEOREM SessionInvariant == Spec => []IInv
  BY InitHolds, StepHolds, PTL DEF Spec

\* Every variable of the session always has its type; in particular a refresh
\* is never sent more than three times and locks stay within LockIds.
THEOREM SessionTypeCorrect == Spec => []TypeOK
  <1>1. IInv => TypeOK
    BY DEF IInv
  <1> QED
    BY <1>1, SessionInvariant, PTL

\* Until a disconnect, however many callers there are, at most one of them
\* has a refresh in flight for the user.
THEOREM CallersCollapse == Spec => []OneRefreshUntilDisconnect
  <1>1. IInv => OneRefreshUntilDisconnect
    BY OneRefresh DEF IInv
  <1> QED
    BY <1>1, SessionInvariant, PTL

\* Until a disconnect, no refresh brings back a row without its metadata.
THEOREM NoHalfRow == Spec => []RowsStayComplete
  <1>1. IInv => RowsStayComplete
    BY DEF IInv, RowsHold, RowsStayComplete
  <1> QED
    BY <1>1, SessionInvariant, PTL

-----------------------------------------------------------------------------
(* One connection, and nothing lost, failed, crashed or expired *)

Calm ==
    /\ used.exchanges <= 1 /\ expired = {}
    /\ used.disconnects = 0 /\ used.losses = 0 /\ used.faults = 0 /\ used.crashes = 0

\* Then a token Schwab honours is always in one known place: with the callback,
\* in the row, or in the one answer that is about to be written to the row.
CredentialSafe ==
    Calm =>
        /\ used.connects + (IF connecting # 0 THEN 1 ELSE 0) <= used.exchanges
        /\ connecting # 0 => connecting \in valid
        /\ used.connects = 0 => row = NoRow /\ InFlight = {}
        /\ used.connects = 1 =>
              /\ row # NoRow
              /\ InFlight = {} => row.token \in valid
              /\ \A c \in Callers : at[c] = "sent" => asked[c] = row.token /\ row.token \in valid
              /\ \A c \in Callers : at[c] = "answered" => answer[c] \in valid

\* The bounds are only ever spent, and expired tokens stay so.
LEMMA CalmBefore ==
    ASSUME TypeOK, [Next]_vars, Calm'
    PROVE  Calm
<1> USE DEF TypeOK, Bounds, Calm
<1>1. ASSUME NEW c \in Callers,
             \/ Call(c) \/ CallStep(c) \/ PersistFails(c) \/ Answer(c) \/ LoseReply(c)
      PROVE  Calm
  <2>1. expired' = expired
    BY <1>1 DEF Call, CallStep, Resume, ReturnAtOnce, SendRefresh, ResumeInvalidGrant, ResumeError,
                ResumeTokens, PersistFails, Answer, LoseReply, Process, schwab
  <2>2. CASE used' = used
    BY <2>1, <2>2
  <2>3. CASE PersistFails(c) \/ LoseReply(c)
    BY <2>1, <2>3 DEF PersistFails, LoseReply, Spend
  <2>. QED
    BY <1>1, <2>2, <2>3 DEF Call, CallStep, Resume, ReturnAtOnce, SendRefresh, ResumeInvalidGrant,
                            ResumeError, ResumeTokens, Answer
<1>2. CASE Exchange
  BY <1>2 DEF Exchange, Spend
<1>3. CASE Connect
  BY <1>3 DEF Connect, Spend, schwab
<1>4. CASE Disconnect \/ Crash
  BY <1>4 DEF Disconnect, Crash, Spend
<1>5. CASE PreferencesFail \/ DisconnectCommit \/ AccessTokenExpires \/ UNCHANGED vars
  BY <1>5 DEF PreferencesFail, DisconnectCommit, AccessTokenExpires, vars, schwab
<1>6. ASSUME NEW t \in Tokens, RefreshTokenExpires(t) PROVE Calm
  BY <1>6 DEF RefreshTokenExpires
<1>. QED BY <1>1, <1>2, <1>3, <1>4, <1>5, <1>6 DEF Next

\* What Schwab answers to a token it honours is a token it honours.
LEMMA HonouredAnswer ==
    ASSUME TypeOK, NEW c \in Callers, NEW reply \in Answers, Process(c, reply), asked[c] \in valid
    PROVE  reply \in valid'
  BY DEF Process, schwab

\* A step of a call neither loses the honoured token nor lets two callers
\* send it.
LEMMA CallKeepsCredential ==
    ASSUME IInv, CredentialSafe, Calm, Calm', NEW c \in Callers,
           \/ Call(c) \/ CallStep(c) \/ PersistFails(c) \/ Answer(c) \/ LoseReply(c)
    PROVE  CredentialSafe'
<1> USE SessionAssumption DEF IInv
<1>1. /\ used.connects + (IF connecting # 0 THEN 1 ELSE 0) <= used.exchanges
      /\ connecting # 0 => connecting \in valid
      /\ used.connects = 0 => row = NoRow /\ InFlight = {}
      /\ used.connects = 1 =>
            /\ row # NoRow
            /\ InFlight = {} => row.token \in valid
            /\ \A d \in Callers : at[d] = "sent" => asked[d] = row.token /\ row.token \in valid
            /\ \A d \in Callers : at[d] = "answered" => answer[d] \in valid
  BY DEF CredentialSafe
<1>2. /\ used.connects \in Nat /\ used.exchanges \in Nat
      /\ used.connects = 0 \/ (used.connects = 1 /\ connecting = 0)
  BY <1>1 DEF TypeOK, Bounds, Calm
<1>3. \A a, b \in InFlight : a = b
  BY OneRefresh DEF Calm, OneRefreshUntilDisconnect
<1>4. ASSUME PersistFails(c) \/ LoseReply(c) PROVE FALSE
  BY <1>4 DEF PersistFails, LoseReply, Spend, Calm, TypeOK, Bounds
<1>5. UNCHANGED <<connecting, used>>
  BY <1>4 DEF Call, CallStep, Resume, ReturnAtOnce, SendRefresh, ResumeInvalidGrant, ResumeError,
              ResumeTokens, Answer
<1>6. CASE Call(c) \/ ReturnAtOnce(c)
  <2>1. /\ UNCHANGED <<row, valid, asked, answer>>
        /\ \A d \in Callers : at'[d] \in {"sent", "answered"} <=> at[d] \in {"sent", "answered"}
        /\ \A d \in Callers : at'[d] \in {"sent", "answered"} => at'[d] = at[d]
    BY <1>6 DEF Call, ReturnAtOnce, schwab, TypeOK
  <2>2. InFlight' = InFlight
    BY <2>1 DEF InFlight
  <2>. QED BY <1>1, <1>5, <2>1, <2>2 DEF CredentialSafe
<1>7. CASE SendRefresh(c)
  <2>1. InFlight = {}
    <3> SUFFICES ASSUME NEW d \in InFlight PROVE FALSE
      OBVIOUS
    <3>1. at[c] # "idle" /\ at[d] # "idle" /\ d \in Callers
      BY <1>7 DEF SendRefresh, InFlight
    <3>2. mine[c] = mine[d]
      BY <3>1 DEF OneLock, Calm
    <3>. QED BY <1>7, <3>1, <3>2 DEF SendRefresh, LockFree, InsideHolds
  <2>2. row # NoRow /\ used.connects = 1 /\ row.token \in valid
    BY <1>1, <1>2, <1>7, <2>1 DEF SendRefresh
  <2>3. /\ UNCHANGED <<row, valid>> /\ asked'[c] = row.token /\ at'[c] = "sent"
        /\ \A d \in Callers : d # c => at'[d] = at[d] /\ at[d] \notin {"sent", "answered"}
    BY <1>7, <2>1 DEF SendRefresh, schwab, TypeOK, InFlight
  <2>4. c \in InFlight'
    BY <2>3 DEF InFlight
  <2>5. \A d \in Callers : /\ at'[d] = "sent" => asked'[d] = row'.token /\ row'.token \in valid'
                           /\ at'[d] # "answered"
    BY <2>2, <2>3
  <2>. QED BY <1>1, <1>5, <2>2, <2>3, <2>4, <2>5 DEF CredentialSafe
<1>8. CASE Answer(c)
  <2>1. /\ at[c] = "sent" /\ at'[c] = "answered" /\ UNCHANGED <<row, asked>>
        /\ \A d \in Callers : d # c => at'[d] = at[d]
    BY <1>8 DEF Answer, TypeOK
  <2>2. c \in InFlight /\ c \in InFlight'
    BY <2>1 DEF InFlight
  <2>3. used.connects = 1 /\ asked[c] \in valid
    BY <1>1, <1>2, <2>1, <2>2
  <2>4. PICK reply \in Answers : Process(c, reply) /\ answer' = [answer EXCEPT ![c] = reply]
    BY <1>8 DEF Answer
  <2>5. answer'[c] \in valid'
    BY <2>3, <2>4, HonouredAnswer DEF TypeOK
  <2>6. \A d \in Callers : at'[d] \in {"sent", "answered"} => d = c
    BY <1>3, <2>1, <2>2 DEF InFlight
  <2>7. \A d \in Callers : at'[d] # "sent" /\ (at'[d] = "answered" => answer'[d] \in valid')
    BY <2>1, <2>5, <2>6
  <2>. QED BY <1>1, <1>2, <1>5, <2>1, <2>2, <2>3, <2>7 DEF CredentialSafe
<1>9. CASE Resume(c)
  <2>1. /\ at[c] = "answered" /\ at' = [at EXCEPT ![c] = "idle"] /\ UNCHANGED valid
    BY <1>9 DEF Resume, ResumeInvalidGrant, ResumeError, ResumeTokens, schwab
  <2>2. c \in InFlight
    BY <2>1 DEF InFlight
  <2>3. used.connects = 1 /\ answer[c] \in valid /\ answer[c] \in Tokens
    BY <1>1, <1>2, <2>1, <2>2 DEF TypeOK
  <2>4. ResumeTokens(c)
    BY <1>9, <2>3 DEF Resume, ResumeInvalidGrant, ResumeError
  <2>5. row' = [row EXCEPT !.token = answer[c]] /\ row \in Row
    BY <2>4 DEF ResumeTokens, StoreRefreshToken, TypeOK
  <2>6. row'.token = answer[c] /\ row' # NoRow
    BY <2>3, <2>5 DEF Row, NoRow, Tokens
  <2>7. \A d \in Callers : at'[d] \notin {"sent", "answered"}
    BY <1>3, <2>1, <2>2 DEF InFlight, TypeOK
  <2>. QED BY <1>1, <1>2, <1>5, <2>1, <2>3, <2>6, <2>7 DEF CredentialSafe
<1>. QED BY <1>4, <1>6, <1>7, <1>8, <1>9 DEF CallStep

\* The rest of the program: one callback brings the token, and while all is
\* calm nothing takes it away.
LEMMA OtherKeepsCredential ==
    ASSUME IInv, CredentialSafe, Calm, Calm',
           \/ Exchange \/ PreferencesFail \/ Connect \/ Disconnect \/ DisconnectCommit
           \/ AccessTokenExpires \/ Crash \/ \E t \in Tokens : RefreshTokenExpires(t)
    PROVE  CredentialSafe'
<1> USE SessionAssumption DEF IInv
<1>1. /\ used.connects + (IF connecting # 0 THEN 1 ELSE 0) <= used.exchanges
      /\ connecting # 0 => connecting \in valid
      /\ used.connects = 0 => row = NoRow /\ InFlight = {}
  BY DEF CredentialSafe
<1>2. used.connects \in Nat /\ used.exchanges \in Nat
  BY DEF TypeOK, Bounds
<1>3. CASE Exchange
  <2>1. used'.exchanges = used.exchanges + 1 /\ used'.connects = used.connects
    BY <1>3 DEF Exchange, Spend, TypeOK, Bounds
  <2>2. used.exchanges = 0 /\ used.connects = 0
    BY <1>1, <1>2, <2>1 DEF Calm
  <2>3. connecting' # 0 /\ connecting' \in valid' /\ row' = row /\ at' = at
    BY <1>3 DEF Exchange, TypeOK
  <2>4. InFlight' = InFlight
    BY <2>3 DEF InFlight
  <2>. QED BY <1>1, <2>1, <2>2, <2>3, <2>4 DEF CredentialSafe
<1>4. CASE PreferencesFail
  <2>1. used.connects = 0
    BY <1>1, <1>2, <1>4 DEF PreferencesFail, Calm
  <2>2. connecting' = 0 /\ UNCHANGED <<used, row, at>>
    BY <1>4 DEF PreferencesFail
  <2>3. InFlight' = InFlight
    BY <2>2 DEF InFlight
  <2>. QED BY <1>1, <1>2, <2>1, <2>2, <2>3 DEF CredentialSafe
<1>5. CASE Connect
  <2>1. /\ connecting # 0 /\ connecting' = 0 /\ row' = [token |-> connecting, meta |-> TRUE]
        /\ used' = [used EXCEPT !["connects"] = @ + 1] /\ UNCHANGED <<at, valid>>
    BY <1>5 DEF Connect, Spend, schwab
  <2>2. used.connects = 0 /\ used.exchanges = 1
    BY <1>1, <1>2, <2>1 DEF Calm
  <2>3. used'.connects = 1 /\ used'.exchanges = 1
    BY <2>1, <2>2 DEF TypeOK, Bounds
  <2>4. row' # NoRow /\ row'.token \in valid'
    BY <1>1, <2>1 DEF NoRow
  <2>5. \A c \in Callers : at'[c] \notin {"sent", "answered"}
    BY <1>1, <2>1, <2>2 DEF InFlight
  <2>. QED BY <2>1, <2>3, <2>4, <2>5 DEF CredentialSafe
<1>6. ASSUME Disconnect \/ Crash \/ DisconnectCommit PROVE FALSE
  <2>1. ~deleting
    BY DEF OneLock, Calm
  <2>. QED BY <1>6, <2>1 DEF Disconnect, Crash, DisconnectCommit, Spend, Calm, TypeOK, Bounds
<1>7. CASE AccessTokenExpires
  <2>1. UNCHANGED <<row, at, asked, answer, connecting, valid, used>>
    BY <1>7 DEF AccessTokenExpires, schwab
  <2>2. InFlight' = InFlight
    BY <2>1 DEF InFlight
  <2>. QED BY <2>1, <2>2 DEF CredentialSafe
<1>8. ASSUME NEW t \in Tokens, RefreshTokenExpires(t) PROVE FALSE
  BY <1>8 DEF RefreshTokenExpires, Calm
<1>. QED BY <1>3, <1>4, <1>5, <1>6, <1>7, <1>8

\* Only a calm run's callers, callbacks and refreshes touch the credential, and
\* they replace it by one Schwab knows.
LEMMA CredentialStep == IInv /\ CredentialSafe /\ [Next]_vars => CredentialSafe'
<1> SUFFICES ASSUME IInv, CredentialSafe, [Next]_vars, Calm' PROVE CredentialSafe'
  BY DEF CredentialSafe
<1>1. Calm
  BY CalmBefore DEF IInv
<1>2. CASE UNCHANGED vars
  BY <1>2 DEF vars, process, schwab, CredentialSafe, Calm, InFlight
<1>. QED BY <1>1, <1>2, CallKeepsCredential, OtherKeepsCredential DEF Next

\* With one connection and nothing lost, failed, crashed or expired, any
\* number of concurrent callers leave the row with a token Schwab honours,
\* although Schwab may replace it on every use.
THEOREM CredentialSurvives == Spec => []CredentialKept
<1>1. Init => CredentialSafe
  BY DEF Init, CredentialSafe, InFlight, Bounds
<1>2. IInv /\ CredentialSafe => CredentialKept
  <2> SUFFICES ASSUME IInv, CredentialSafe, used.exchanges = 1, used.connects = 1,
                      used.disconnects + used.losses + used.faults + used.crashes = 0,
                      InFlight = {}, expired = {}
               PROVE  row.token \in valid
    BY DEF CredentialKept
  <2>1. /\ used.disconnects \in Nat /\ used.losses \in Nat
        /\ used.faults \in Nat /\ used.crashes \in Nat
    BY DEF IInv, TypeOK, Bounds
  <2>2. /\ used.disconnects = 0 /\ used.losses = 0 /\ used.faults = 0 /\ used.crashes = 0
    <3>1. \A a, b, c, d \in Nat : a + b + c + d = 0 => a = 0 /\ b = 0 /\ c = 0 /\ d = 0
      OBVIOUS
    <3>. QED BY <2>1, <3>1
  <2>3. Calm
    BY <2>2 DEF Calm
  <2>. QED BY <2>3 DEF CredentialSafe
<1>. QED BY SessionInvariant, CredentialStep, <1>1, <1>2, PTL DEF Spec
=============================================================================
