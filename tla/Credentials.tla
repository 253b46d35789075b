------------------------------ MODULE Credentials ------------------------------
(***************************************************************************)
(* The administrator's password and the encryption key, across             *)
(* installations, restarts, the settings page and the offline scripts.     *)
(* The .env file and the database each hold a password hash; the server    *)
(* takes its key from .env when it starts, and keeps the database file it  *)
(* has open when data/ is deleted under it.                                *)
(***************************************************************************)
EXTENDS Integers

CONSTANTS Passwords, NoPassword,
          MaxKey         \* bound: keys generated, numbered from 1

ASSUME CredentialsAssumption == MaxKey \in Nat /\ NoPassword \notin Passwords

VARIABLES env,        \* .env: [hash, key], key 0 while there is no .env
          server,     \* the key of the running server, 0 when it is down
          database,   \* the file in data/, and the one a running server holds though it is deleted
          opened,     \* which of the two the server works on
          wizard,     \* "asking" from the wizard's offer to wipe data/ to its writing of .env
          incoming,   \* the key a rotation has written, not yet in .env, or 0
          nextKey,
          chosen      \* history: the password last set in each database, or waiting for its first start

credentialVars == <<env, server, database, opened, wizard, incoming, nextKey, chosen>>

(* The admin's hash in the users table; the keys of the Schwab row's token *)
(* and metadata, 0 for NULL.                                               *)
Databases == {"data", "deleted"}
Empty == [hash |-> NoPassword, token |-> 0, meta |-> 0]
NoEnv == [hash |-> NoPassword, key |-> 0]
Seeded == database["data"].hash # NoPassword

CredentialsInit ==
  /\ env = NoEnv /\ server = 0 /\ wizard = "closed"
  /\ database = [d \in Databases |-> Empty] /\ opened = "data"
  /\ incoming = 0 /\ nextKey = 1
  /\ chosen = [d \in Databases |-> NoPassword]

(* data/ is deleted.  A running server keeps the file it has open; the     *)
(* next start finds none, and the hash of .env waits for it.               *)
Delete ==
  /\ Seeded
  /\ IF server # 0
     THEN /\ database' = [d \in Databases |-> IF d = "data" THEN Empty ELSE database["data"]]
          /\ chosen' = [d \in Databases |-> IF d = "data" THEN env.hash ELSE chosen["data"]]
          /\ opened' = "deleted"
     ELSE /\ database' = [database EXCEPT !["data"] = Empty]
          /\ chosen' = [chosen EXCEPT !["data"] = env.hash]
          /\ UNCHANGED opened

(* A hash written to .env waits for a start, unless a row outlives it.     *)
Await(hash) == chosen' = IF Seeded THEN chosen ELSE [chosen EXCEPT !["data"] = hash]

(* scripts/bootstrap.py asks whether to wipe data/ and does so at once; it *)
(* writes .env, with a fresh key, after its last question.  Nothing keeps  *)
(* it from running beside a server, or a start from coming in between.     *)
OpenWizard(wipe) ==
  /\ wizard = "closed" /\ wizard' = "asking"
  /\ IF wipe THEN Delete ELSE UNCHANGED <<database, opened, chosen>>
  /\ UNCHANGED <<env, server, incoming, nextKey>>
Install(password) ==
  /\ wizard = "asking" /\ nextKey <= MaxKey
  /\ env' = [hash |-> password, key |-> nextKey]
  /\ nextKey' = nextKey + 1 /\ wizard' = "closed"
  /\ Await(password)
  /\ UNCHANGED <<server, database, opened, incoming>>
AbortWizard ==
  /\ wizard = "asking" /\ wizard' = "closed"
  /\ UNCHANGED <<env, server, database, opened, incoming, nextKey, chosen>>

(* rm -rf data/, to pick the installed hash up.                            *)
WipeData == Delete /\ UNCHANGED <<env, server, wizard, incoming, nextKey>>

(* The operator pastes a hash of scripts/set_password.py into .env.        *)
EditEnv(password) ==
  /\ env.key # 0
  /\ env' = [env EXCEPT !.hash = password]
  /\ Await(password)
  /\ UNCHANGED <<server, database, opened, wizard, incoming, nextKey>>

Uninstall ==
  /\ env' = NoEnv /\ server' = 0 /\ incoming' = 0
  /\ database' = [d \in Databases |-> Empty] /\ opened' = "data"
  /\ chosen' = [d \in Databases |-> NoPassword]
  /\ UNCHANGED <<wizard, nextKey>>

(* Mutant: every start takes the hash of .env.                             *)
SeedAlways == database' = [database EXCEPT !["data"].hash = env.hash]

(* The lifespan seeds the users table if it is empty.                      *)
Seed == database' = IF Seeded THEN database ELSE [database EXCEPT !["data"].hash = env.hash]
Start ==
  /\ server = 0 /\ env.key # 0
  /\ server' = env.key
  /\ Seed
  /\ UNCHANGED <<env, opened, wizard, incoming, nextKey, chosen>>

(* Stopped or crashed; a deleted file goes with its last user.             *)
Shutdown ==
  /\ server # 0 /\ server' = 0
  /\ database' = [database EXCEPT !["deleted"] = Empty] /\ opened' = "data"
  /\ chosen' = [chosen EXCEPT !["deleted"] = NoPassword]
  /\ UNCHANGED <<env, wizard, incoming, nextKey>>

SetPassword(d, password) ==
  /\ database' = [database EXCEPT ![d].hash = password]
  /\ chosen' = [chosen EXCEPT ![d] = password]
  /\ UNCHANGED <<env, server, opened, wizard, incoming, nextKey>>

(* POST /settings/password, with the current password and a strong new one. *)
ChangePassword(current, password) ==
  /\ server # 0 /\ current = database[opened].hash
  /\ SetPassword(opened, password)

(* scripts/reset_password_offline.py, on a database that has the user.     *)
ResetOffline(password) == Seeded /\ SetPassword("data", password)

(* The OAuth callback stores the token, then the account metadata.         *)
StoreToken ==
  /\ server # 0
  /\ database' = [database EXCEPT ![opened].token = server]
  /\ UNCHANGED <<env, server, opened, wizard, incoming, nextKey, chosen>>
StoreMetadata ==
  /\ server # 0 /\ database[opened].token # 0
  /\ database' = [database EXCEPT ![opened].meta = server]
  /\ UNCHANGED <<env, server, opened, wizard, incoming, nextKey, chosen>>

(* scripts/rotate_secrets.py with the key of .env and a new one; nothing   *)
(* keeps it from running beside the server.  A token of another key aborts *)
(* it before it commits.                                                   *)
Rotate(old, new) ==
  /\ Seeded /\ nextKey <= MaxKey
  /\ old = env.key /\ old # 0 /\ new = nextKey
  /\ database["data"].token \in {0, old}
  /\ database' = IF database["data"].token = 0 THEN database ELSE [database EXCEPT !["data"].token = new]
  /\ incoming' = new /\ nextKey' = nextKey + 1
  /\ UNCHANGED <<env, server, opened, wizard, chosen>>

(* The operator writes the new key where the server reads it.              *)
Deploy ==
  /\ incoming # 0
  /\ env' = [env EXCEPT !.key = incoming] /\ incoming' = 0
  /\ UNCHANGED <<server, database, opened, wizard, nextKey, chosen>>

CredentialsNext ==
  \/ \E p \in Passwords : \/ Install(p) \/ EditEnv(p) \/ ResetOffline(p)
                          \/ \E c \in Passwords : ChangePassword(c, p)
  \/ \E wipe \in BOOLEAN : OpenWizard(wipe)
  \/ AbortWizard \/ WipeData \/ Uninstall \/ Start \/ Shutdown \/ StoreToken \/ StoreMetadata \/ Deploy
  \/ \E old, new \in 1..MaxKey : Rotate(old, new)

CredentialsSpec == CredentialsInit /\ [][CredentialsNext]_credentialVars

---------------------------------------------------------------------------
CredentialsTypeOK ==
  /\ env \in [hash : Passwords \cup {NoPassword}, key : 0..MaxKey]
  /\ server \in 0..MaxKey /\ incoming \in 0..MaxKey /\ nextKey \in 1..(MaxKey + 1)
  /\ wizard \in {"closed", "asking"} /\ opened \in Databases
  /\ database \in [Databases -> [hash : Passwords \cup {NoPassword}, token : 0..MaxKey, meta : 0..MaxKey]]
  /\ chosen \in [Databases -> Passwords \cup {NoPassword}]

(* Whoever can log in does so with the password last set in the database   *)
(* the server works on: in the app, offline, or, until a start has seeded  *)
(* it, in .env.  No restart brings an older .env back; no installation,    *)
(* edit or wipe changes what a running server accepts; and a start after a *)
(* wipe takes what .env holds then, so also the old hash if the wizard has *)
(* yet to write the new one.                                               *)
PasswordIsLastSet == server # 0 => database[opened].hash = chosen[opened]

(* What rotate_secrets.py says of itself: a rotation re-encrypts every row *)
(* under the new key.  The metadata is encrypted under the same key.       *)
RotationCoversRow ==
  [][\A old, new \in 1..MaxKey : Rotate(old, new) =>
       /\ database'["data"].token \in {0, new} /\ database'["data"].meta \in {0, new}]_credentialVars
=============================================================================
