----------------------------- MODULE SchwabSession -----------------------------
(***************************************************************************)
(* The Schwab credential of one user and everything that touches it: the   *)
(* coroutines inside get_or_refresh_access_token (the 20-minute refresh    *)
(* job and the probes of POST /broker/schwab/test), the OAuth callback,    *)
(* the disconnect handler, and Schwab, which may rotate the refresh token  *)
(* on every use.  The state is per user throughout the code, so one user   *)
(* stands for all.                                                         *)
(*                                                                         *)
(* The coroutines share one event loop: a step is what one of them does    *)
(* between two awaits, or what Schwab or the database does meanwhile.      *)
(***************************************************************************)
EXTENDS Naturals, FiniteSets

CONSTANTS
    Callers,         \* coroutines that may ask for an access token
    Job,             \* the one of them that is the refresh job
    MaxTokens,       \* bound: refresh tokens Schwab ever issues
    MaxDisconnects,  \* bound: disconnect requests
    MaxConnects,     \* bound: OAuth callbacks
    MaxLosses,       \* bound: replies that never arrive
    MaxFaults,       \* bound: database errors when a reply is written down
    MaxCrashes,      \* bound: crashes of the process
    Nobody,          \* holder of a free lock
    InvalidGrant,    \* Schwab's refusal of a dead refresh token
    OtherError       \* any other failure of a refresh

Tokens  == 1 .. MaxTokens
LockIds == 1 .. MaxDisconnects + 1
Attempts == 1 .. 3                    \* stop_after_attempt(3)

ASSUME SessionAssumption ==
    /\ Nobody \notin Callers
    /\ InvalidGrant # OtherError /\ {InvalidGrant, OtherError} \cap (Tokens \cup {0}) = {}
    /\ MaxTokens \in Nat /\ MaxDisconnects \in Nat /\ MaxConnects \in Nat
    /\ MaxLosses \in Nat /\ MaxFaults \in Nat /\ MaxCrashes \in Nat

VARIABLES
    row,         \* the broker_credentials row, or NoRow
    \* Module-level state of schwab_session.py.
    cache,       \* _token_cache[user]: "none", "fresh" or "stale"
    registry,    \* _user_locks[user]: a lock, or 0
    nextLock,    \* the next lock asyncio.Lock() would make
    holder,      \* [LockIds -> the caller inside, or Nobody]
    \* The coroutines.
    at,          \* [Callers -> where the caller is]
    mine,        \* [Callers -> the lock it uses]
    asked,       \* [Callers -> the refresh token it sent]
    tries,       \* [Callers -> attempts made]
    answer,      \* [Callers -> Schwab's reply]
    connecting,  \* the token of an OAuth callback waiting for preferences, or 0
    deleting,    \* a disconnect has flushed its DELETE and not committed it
    \* Schwab.
    valid,       \* refresh tokens Schwab honours
    expired,     \* refresh tokens that reached their seven days
    issued,      \* how many Schwab has issued
    used         \* how much of each bound is spent

process == <<cache, registry, nextLock, holder, at, mine, asked, tries, answer, connecting,
             deleting>>
schwab  == <<valid, expired, issued>>
vars    == <<row, process, schwab, used>>

-----------------------------------------------------------------------------
NoRow == [token |-> 0, meta |-> FALSE]
Row   == [token : Tokens \cup {0}, meta : BOOLEAN]

Locations == {"idle", "locking", "sent", "answered"}
Answers   == Tokens \cup {0} \cup {InvalidGrant, OtherError}
Bounds    == {"disconnects", "exchanges", "connects", "losses", "faults", "crashes"}

Spend(b) == used' = [used EXCEPT ![b] = @ + 1]

\* What becomes of a credential row when a refresh token is stored: an
\* existing row keeps its metadata, a missing one is created without any.
StoreRefreshToken(t) == [row EXCEPT !.token = t]

\* Mutant: the lock is not awaited.
LockIgnored(c) == TRUE
LockFree(c) == holder[mine[c]] = Nobody

\* Mutant: only the happy path gives the lock back.
ReleaseOnSuccess(c) == [l \in LockIds |->
    IF l = mine[c] /\ answer[c] \in Tokens THEN Nobody ELSE holder[l]]

\* `async with lock` is left.
Release(c) == [holder EXCEPT ![mine[c]] = Nobody]

\* Mutant: one attempt too many.
RetriesOnceMore(c) == tries[c] <= 3
MayRetry(c) == tries[c] < 3

\* Mutant: the user is told to reconnect, the row stays.
CredentialLeft == row
CredentialDeleted == NoRow

Init ==
    /\ row = NoRow
    /\ cache = "none" /\ registry = 0 /\ nextLock = 1
    /\ holder = [l \in LockIds |-> Nobody]
    /\ at = [c \in Callers |-> "idle"]
    /\ mine = [c \in Callers |-> 1]
    /\ asked = [c \in Callers |-> 0]
    /\ tries = [c \in Callers |-> 1]
    /\ answer = [c \in Callers |-> 0]
    /\ connecting = 0 /\ deleting = FALSE
    /\ valid = {} /\ expired = {} /\ issued = 0
    /\ used = [b \in Bounds |-> 0]

-----------------------------------------------------------------------------
(* get_or_refresh_access_token *)

\* Past the fast path: fetch the user's lock, making one if there is none.
\* The job runs only for users whose row it has just seen.
Call(c) ==
    /\ at[c] = "idle"
    /\ cache # "fresh"
    /\ c = Job => row # NoRow
    /\ at' = [at EXCEPT ![c] = "locking"]
    /\ IF registry = 0
       THEN registry' = nextLock /\ nextLock' = nextLock + 1
       ELSE UNCHANGED <<registry, nextLock>>
    /\ mine' = [mine EXCEPT ![c] = registry']
    /\ UNCHANGED <<row, cache, holder, asked, tries, answer, connecting, deleting, schwab, used>>

\* Under the lock the cache turns out refreshed meanwhile, or the row is
\* gone (SchwabReauthRequired).
ReturnAtOnce(c) ==
    /\ at[c] = "locking" /\ LockFree(c)
    /\ cache = "fresh" \/ row = NoRow
    /\ at' = [at EXCEPT ![c] = "idle"]
    /\ UNCHANGED <<row, cache, registry, nextLock, holder, mine, asked, tries, answer,
                   connecting, deleting, schwab, used>>

\* Under the lock: load the refresh token and send it, awaiting the reply.
SendRefresh(c) ==
    /\ at[c] = "locking" /\ LockFree(c)
    /\ cache # "fresh" /\ row # NoRow
    /\ holder' = [holder EXCEPT ![mine[c]] = c]
    /\ asked' = [asked EXCEPT ![c] = row.token]
    /\ tries' = [tries EXCEPT ![c] = 1]
    /\ at' = [at EXCEPT ![c] = "sent"]
    /\ UNCHANGED <<row, cache, registry, nextLock, mine, answer, connecting, deleting, schwab,
                   used>>

\* The reply is an invalid_grant: drop the stored token and the cache entry.
ResumeInvalidGrant(c) ==
    /\ at[c] = "answered" /\ answer[c] = InvalidGrant
    /\ ~deleting
    /\ cache' = "none"
    /\ row' = CredentialDeleted
    /\ holder' = Release(c)
    /\ at' = [at EXCEPT ![c] = "idle"]
    /\ UNCHANGED <<registry, nextLock, mine, asked, tries, answer, connecting, deleting, schwab,
                   used>>

\* Any other error is re-raised.
ResumeError(c) ==
    /\ at[c] = "answered" /\ answer[c] = OtherError
    /\ holder' = Release(c)
    /\ at' = [at EXCEPT ![c] = "idle"]
    /\ UNCHANGED <<row, cache, registry, nextLock, mine, asked, tries, answer, connecting,
                   deleting, schwab, used>>

\* New tokens: write the refresh token through, then cache the access token.
ResumeTokens(c) ==
    /\ at[c] = "answered" /\ answer[c] \in Tokens
    /\ ~deleting
    /\ row' = StoreRefreshToken(answer[c])
    /\ cache' = "fresh"
    /\ holder' = Release(c)
    /\ at' = [at EXCEPT ![c] = "idle"]
    /\ UNCHANGED <<registry, nextLock, mine, asked, tries, answer, connecting, deleting, schwab,
                   used>>

\* The write fails (a locked database): the exception leaves the row as it
\* was.  The cache entry of a dead credential is dropped before the write.
PersistFails(c) ==
    /\ at[c] = "answered" /\ answer[c] # OtherError
    /\ used.faults < MaxFaults
    /\ Spend("faults")
    /\ cache' = IF answer[c] = InvalidGrant THEN "none" ELSE cache
    /\ holder' = Release(c)
    /\ at' = [at EXCEPT ![c] = "idle"]
    /\ UNCHANGED <<row, registry, nextLock, mine, asked, tries, answer, connecting, deleting,
                   schwab>>

-----------------------------------------------------------------------------
(* Schwab's token endpoint *)

\* Schwab processes the token c sent: it is refused, accepted as it is, or
\* replaced by a new one.  `reply` is what Schwab sends back.
Process(c, reply) ==
    \/ asked[c] \notin valid /\ reply = InvalidGrant /\ UNCHANGED schwab
    \/ asked[c] \in valid /\ reply = asked[c] /\ UNCHANGED schwab
    \/ /\ asked[c] \in valid
       /\ issued < MaxTokens
       /\ reply = issued + 1
       /\ issued' = issued + 1
       /\ valid' = (valid \ {asked[c]}) \cup {issued + 1}
       /\ UNCHANGED expired

Answer(c) ==
    /\ at[c] = "sent"
    /\ \E reply \in Answers : Process(c, reply) /\ answer' = [answer EXCEPT ![c] = reply]
    /\ at' = [at EXCEPT ![c] = "answered"]
    /\ UNCHANGED <<row, cache, registry, nextLock, holder, mine, asked, tries, connecting,
                   deleting, used>>

\* No usable reply; Schwab may or may not have processed the request.  After a
\* timeout or a 5xx it is sent again, three attempts in all; any other refusal,
\* a broken connection or a malformed body ends the call at once.
LoseReply(c) ==
    /\ at[c] = "sent"
    /\ used.losses < MaxLosses
    /\ Spend("losses")
    /\ UNCHANGED schwab \/ \E reply \in Answers : Process(c, reply)
    /\ \/ /\ MayRetry(c)
          /\ tries' = [tries EXCEPT ![c] = @ + 1]
          /\ UNCHANGED <<at, answer>>
       \/ /\ at' = [at EXCEPT ![c] = "answered"]
          /\ answer' = [answer EXCEPT ![c] = OtherError]
          /\ UNCHANGED tries
    /\ UNCHANGED <<row, cache, registry, nextLock, holder, mine, asked, connecting, deleting>>

-----------------------------------------------------------------------------
(* The OAuth callback and the disconnect handler *)

\* The code is exchanged for tokens.  Whether the new grant ends the old
\* one is up to Schwab.
Exchange ==
    /\ connecting = 0
    /\ used.exchanges < MaxConnects
    /\ Spend("exchanges")
    /\ issued < MaxTokens
    /\ connecting' = issued + 1
    /\ issued' = issued + 1
    /\ \E kept \in {valid, {}} : valid' = kept \cup {issued + 1}
    /\ UNCHANGED <<row, cache, registry, nextLock, holder, at, mine, asked, tries, answer,
                   deleting, expired>>

\* The preferences cannot be fetched: the tokens are dropped.
PreferencesFail ==
    /\ connecting # 0
    /\ connecting' = 0
    /\ UNCHANGED <<row, cache, registry, nextLock, holder, at, mine, asked, tries, answer,
                   deleting, schwab, used>>

\* The refresh token and the metadata are committed together, without the
\* user's lock and without a look at the cache.
Connect ==
    /\ connecting # 0 /\ ~deleting
    /\ row' = [token |-> connecting, meta |-> TRUE]
    /\ connecting' = 0
    /\ Spend("connects")
    /\ UNCHANGED <<cache, registry, nextLock, holder, at, mine, asked, tries, answer, deleting,
                   schwab>>

\* The DELETE is flushed (other writers wait), cache entry and lock dropped ...
Disconnect ==
    /\ ~deleting
    /\ used.disconnects < MaxDisconnects
    /\ Spend("disconnects")
    /\ deleting' = (row # NoRow)
    /\ cache' = "none"
    /\ registry' = 0
    /\ UNCHANGED <<row, nextLock, holder, at, mine, asked, tries, answer, connecting, schwab>>

\* ... and committed when the response is under way.
DisconnectCommit ==
    /\ deleting
    /\ row' = NoRow
    /\ deleting' = FALSE
    /\ UNCHANGED <<cache, registry, nextLock, holder, at, mine, asked, tries, answer, connecting,
                   schwab, used>>

-----------------------------------------------------------------------------
(* The environment *)

\* Thirty minutes, less the buffer, have passed.
AccessTokenExpires ==
    /\ cache = "fresh"
    /\ cache' = "stale"
    /\ UNCHANGED <<row, registry, nextLock, holder, at, mine, asked, tries, answer, connecting,
                   deleting, schwab, used>>

\* Seven days have passed, or the user revoked the grant at Schwab.
RefreshTokenExpires(t) ==
    /\ t \in valid
    /\ valid' = valid \ {t}
    /\ expired' = expired \cup {t}
    /\ UNCHANGED <<row, process, issued, used>>

Crash ==
    /\ used.crashes < MaxCrashes
    /\ Spend("crashes")
    /\ cache' = "none" /\ registry' = 0 /\ nextLock' = 1
    /\ holder' = [l \in LockIds |-> Nobody]
    /\ at' = [c \in Callers |-> "idle"]
    /\ mine' = [c \in Callers |-> 1]
    /\ asked' = [c \in Callers |-> 0]
    /\ tries' = [c \in Callers |-> 1]
    /\ answer' = [c \in Callers |-> 0]
    /\ connecting' = 0 /\ deleting' = FALSE
    /\ UNCHANGED <<row, schwab>>

-----------------------------------------------------------------------------
Resume(c) == ResumeInvalidGrant(c) \/ ResumeError(c) \/ ResumeTokens(c)

\* What the event loop owes a coroutine that can go on.
CallStep(c) == ReturnAtOnce(c) \/ SendRefresh(c) \/ Resume(c)

Next ==
    \/ \E c \in Callers : \/ Call(c) \/ CallStep(c) \/ PersistFails(c)
                          \/ Answer(c) \/ LoseReply(c)
    \/ Exchange \/ PreferencesFail \/ Connect
    \/ Disconnect \/ DisconnectCommit
    \/ AccessTokenExpires \/ Crash
    \/ \E t \in Tokens : RefreshTokenExpires(t)

Spec == Init /\ [][Next]_vars

\* The loop serves every coroutine in turn (asyncio.Lock is first come, first
\* served), each attempt ends within the httpx timeout, a handler's session
\* is committed, access tokens age, and the job fires every 20 minutes.
Fairness ==
    /\ \A c \in Callers : SF_vars(ReturnAtOnce(c) \/ SendRefresh(c))
    /\ \A c \in Callers : WF_vars(Resume(c)) /\ WF_vars(Answer(c))
    /\ WF_vars(DisconnectCommit)
    /\ WF_vars(AccessTokenExpires)
    /\ WF_vars(Call(Job))

FairSpec == Spec /\ Fairness

-----------------------------------------------------------------------------
(* What the runs check *)

\* Every variable has its type.
TypeOK ==
    /\ row \in Row
    /\ cache \in {"none", "fresh", "stale"}
    /\ registry \in LockIds \cup {0}
    /\ nextLock \in 1 .. MaxDisconnects + 2
    /\ holder \in [LockIds -> Callers \cup {Nobody}]
    /\ at \in [Callers -> Locations]
    /\ mine \in [Callers -> LockIds]
    /\ asked \in [Callers -> Tokens \cup {0}]
    /\ tries \in [Callers -> Attempts]
    /\ answer \in [Callers -> Answers]
    /\ connecting \in Tokens \cup {0}
    /\ deleting \in BOOLEAN
    /\ valid \in SUBSET Tokens /\ expired \in SUBSET Tokens
    /\ issued \in 0 .. MaxTokens
    /\ used \in [Bounds -> Nat]

InFlight == {c \in Callers : at[c] \in {"sent", "answered"}}

\* schwab_session.py, "One in-flight refresh per user": two refreshes would
\* send the same refresh token and one would lose the other's rotation.  It
\* holds as long as the process has seen no disconnect.
OneRefreshUntilDisconnect ==
    used.disconnects = 0 => \A a, b \in InFlight : a = b

\* With one connection and nothing lost, failed or crashed, concurrent
\* callers never lose the credential: between refreshes the row holds a
\* token Schwab honours, unless Schwab let it expire.
CredentialKept ==
    /\ used.exchanges = 1 /\ used.connects = 1
    /\ used.disconnects + used.losses + used.faults + used.crashes = 0
    /\ InFlight = {} /\ expired = {}
    => row.token \in valid

\* broker_routes.py tells a user with "a half-populated row" that he is not
\* connected: until a disconnect every stored token has the metadata the
\* callback committed with it, so no refresh ever recreates a dropped row.
RowsStayComplete == used.disconnects = 0 /\ row # NoRow => row.meta

\* Every call returns, whoever shares, drops or replaces the lock.
CallsReturn == \A c \in Callers : at[c] # "idle" ~> at[c] = "idle"

\* schwab_session.py, "a dangling BrokerCredential row with a dead refresh
\* token is a trap": the refresh job finds it and drops it, in time.
DeadCredentialDropped ==
    row # NoRow /\ row.token \notin valid ~> row = NoRow \/ row.token \in valid

\* schwab_session.py, "so a pending refresh flow can't resurrect a dead
\* credential": a missing row comes back through the OAuth callback only.
OnlyCallbackCreatesRow ==
    [][row = NoRow /\ row' # NoRow => used'.connects = used.connects + 1]_vars
=============================================================================
