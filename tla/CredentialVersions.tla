------------------------- MODULE CredentialVersions -------------------------
(***************************************************************************)
(* Versioned credentials: the versions of one API key                      *)
(* (packages/relaypay/identity/service.py) and of one connector            *)
(* (packages/relaypay/connectors/service.py), administered by concurrent   *)
(* requests.  Each request is one READ COMMITTED transaction, split at the *)
(* statements between which another one can commit.  A SELECT ... FOR      *)
(* UPDATE sees the rows of its snapshot, waits for their locks, and checks *)
(* its WHERE clause again on the rows that changed meanwhile; a row that   *)
(* only now matches is not seen.                                           *)
(***************************************************************************)
EXTENDS Integers, FiniteSets, FiniteSetsExt

CONSTANTS
    Admins,        \* concurrent admin requests
    MaxVersion,    \* bound: versions of a key or connector
    Absent

Numbers == 1 .. MaxVersion
Status == {"PENDING", "ACTIVE", "REVOKED"}
Versions == [status : Status, verified : BOOLEAN]

ASSUME CredentialAssumption ==
    /\ MaxVersion \in Nat
    /\ Absent \notin Admins /\ Absent \notin Numbers
    /\ Absent \notin Status /\ Absent \notin Versions

VARIABLES
    apiKey,        \* APIKey.status, Absent before create_api_key
    keyLock,       \* request that holds the api_keys row
    keyVersion,    \* APIKeyVersion.status by version number
    connector,     \* "ACTIVE" once the connector row exists
    connectorLock,
    connectorVersion,  \* ConnectorVersion: status and verified_at by number
    versionLock,
    at, plan       \* per request: where it is, what it read

keyVars == <<apiKey, keyLock, keyVersion>>
connectorVars == <<connector, connectorLock, connectorVersion, versionLock>>
credentialVars == <<keyVars, connectorVars, at, plan>>

Plan(number, current, healthy) == [number |-> number, current |-> current, healthy |-> healthy]
NoPlan == Plan(Absent, Absent, FALSE)
Version(status, verified) == [status |-> status, verified |-> verified]
Latest(f) == Max({0} \cup {n \in Numbers : f[n] # Absent})

Reach(c, place) == at' = [at EXCEPT ![c] = place]
Answered(c) == Reach(c, "idle") /\ plan' = [plan EXCEPT ![c] = NoPlan]

-----------------------------------------------------------------------------
(* API keys: every change of a version holds the row of its key.           *)

CreateAPIKey ==
    /\ apiKey = Absent
    /\ apiKey' = "ACTIVE"
    /\ keyVersion' = [keyVersion EXCEPT ![1] = "ACTIVE"]
    /\ UNCHANGED <<keyLock, connectorVars, at, plan>>

\* Mutant: the key row is read without its lock.
LockKeyNever(c) == UNCHANGED keyLock

LockKey(c) == keyLock = Absent /\ keyLock' = c

\* rotate_api_key, activate_api_key_version and revoke_api_key start alike; the
\* first two do not find a key that is REVOKED.
BeginKey(c, operation, n) ==
    /\ at[c] = "idle"
    /\ apiKey # Absent
    /\ operation # "revoke" => apiKey = "ACTIVE"
    /\ LockKey(c)
    /\ plan' = [plan EXCEPT ![c] =
                    Plan(IF operation = "rotate" THEN Latest(keyVersion) + 1 ELSE n, Absent, FALSE)]
    /\ Reach(c, operation)
    /\ UNCHANGED <<apiKey, keyVersion, connectorVars>>

Release(c) == keyLock' = IF keyLock = c THEN Absent ELSE keyLock

\* UNIQUE (api_key_id, version) rejects a number that is taken.
RotateAPIKey(c) ==
    /\ at[c] = "rotate"
    /\ keyVersion' = IF plan[c].number \in Numbers /\ keyVersion[plan[c].number] = Absent
                     THEN [keyVersion EXCEPT ![plan[c].number] = "PENDING"]
                     ELSE keyVersion
    /\ Release(c) /\ Answered(c)
    /\ UNCHANGED <<apiKey, connectorVars>>

Pending(n) == keyVersion[n] = "PENDING"

\* The versions are locked when they are read and stay locked to the commit, so
\* reading and writing them is one step.
ActivateAPIKeyVersion(c) ==
    /\ at[c] = "activate"
    /\ keyVersion' = IF Pending(plan[c].number)
                     THEN [n \in Numbers |-> IF n = plan[c].number THEN "ACTIVE"
                                             ELSE IF keyVersion[n] = "ACTIVE" THEN "REVOKED"
                                             ELSE keyVersion[n]]
                     ELSE keyVersion
    /\ Release(c) /\ Answered(c)
    /\ UNCHANGED <<apiKey, connectorVars>>

RevokeAPIKey(c) ==
    /\ at[c] = "revoke"
    /\ apiKey' = "REVOKED"
    /\ keyVersion' = [n \in Numbers |-> IF keyVersion[n] = Absent THEN Absent ELSE "REVOKED"]
    /\ Release(c) /\ Answered(c)
    /\ UNCHANGED connectorVars

-----------------------------------------------------------------------------
(* Connectors.                                                             *)

\* create_connector_version: locks the connector row and reads the highest
\* number.  A first version creates the connector; of two that do, the UNIQUE
\* reference lets one commit.
CreateBegin(c) ==
    /\ at[c] = "idle"
    /\ connectorLock = Absent
    /\ connectorLock' = IF connector = Absent THEN Absent ELSE c
    /\ plan' = [plan EXCEPT ![c] = Plan(Latest(connectorVersion) + 1, connector, FALSE)]
    /\ Reach(c, "create")
    /\ UNCHANGED <<keyVars, connector, connectorVersion, versionLock>>

CreateConnectorVersion(c) ==
    /\ at[c] = "create"
    /\ IF plan[c].number \in Numbers /\ plan[c].current = connector
       THEN /\ connector' = "ACTIVE"
            /\ connectorVersion' = [connectorVersion EXCEPT ![plan[c].number] = Version("PENDING", FALSE)]
       ELSE UNCHANGED <<connector, connectorVersion>>
    /\ connectorLock' = IF connectorLock = c THEN Absent ELSE connectorLock
    /\ Answered(c)
    /\ UNCHANGED <<keyVars, versionLock>>

\* verify_connector_version asks for the health first, then locks the version.
CheckHealth(c, n) ==
    /\ at[c] = "idle"
    /\ connectorVersion[n] # Absent
    /\ \E healthy \in BOOLEAN :
          plan' = [plan EXCEPT ![c] = Plan(n, Absent, healthy)]
    /\ Reach(c, "verify")
    /\ UNCHANGED <<keyVars, connectorVars>>

VerifyConnectorVersion(c) ==
    LET n == plan[c].number
    IN  /\ at[c] = "verify"
        /\ versionLock[n] = Absent
        /\ connectorVersion' =
              IF connectorVersion[n].status = "PENDING" /\ plan[c].healthy
              THEN [connectorVersion EXCEPT ![n] = Version("PENDING", TRUE)]
              ELSE connectorVersion
        /\ Answered(c)
        /\ UNCHANGED <<keyVars, connector, connectorLock, versionLock>>

Activatable(n) == connectorVersion[n].status = "PENDING" /\ connectorVersion[n].verified

ActiveVersions == {n \in {m \in Numbers : connectorVersion[m] # Absent} : connectorVersion[n].status = "ACTIVE"}

\* activate_connector_version locks its own version, then looks for the
\* current one.
ActivateBegin(c, n) ==
    /\ at[c] = "idle"
    /\ connectorVersion[n] # Absent /\ versionLock[n] = Absent
    /\ Activatable(n)
    /\ versionLock' = [versionLock EXCEPT ![n] = c]
    /\ plan' = [plan EXCEPT ![c] = Plan(n, Absent, FALSE)]
    /\ Reach(c, "current")
    /\ UNCHANGED <<keyVars, connector, connectorLock, connectorVersion>>

\* The snapshot of SELECT ... WHERE status = 'ACTIVE' FOR UPDATE.
FindCurrent(c) ==
    /\ at[c] = "current"
    /\ \E n \in IF ActiveVersions = {} THEN {Absent} ELSE ActiveVersions :
          plan' = [plan EXCEPT ![c] = Plan(@.number, n, @.healthy)]
    /\ Reach(c, "swap")
    /\ UNCHANGED <<keyVars, connectorVars>>

\* Once its lock is granted the row is checked again; then both rows change.
ActivateConnectorVersion(c) ==
    LET n == plan[c].number
        old == plan[c].current
    IN  /\ at[c] = "swap"
        /\ old # Absent => versionLock[old] = Absent
        /\ connectorVersion' = [m \in Numbers |->
                         IF m = n THEN Version("ACTIVE", connectorVersion[m].verified)
                         ELSE IF m = old /\ connectorVersion[m].status = "ACTIVE"
                              THEN Version("REVOKED", connectorVersion[m].verified)
                         ELSE connectorVersion[m]]
        /\ versionLock' = [versionLock EXCEPT ![n] = Absent]
        /\ Answered(c)
        /\ UNCHANGED <<keyVars, connector, connectorLock>>

-----------------------------------------------------------------------------
(* The specification.                                                      *)

CredentialInit ==
    /\ apiKey = Absent /\ keyLock = Absent
    /\ keyVersion = [n \in Numbers |-> Absent]
    /\ connector = Absent /\ connectorLock = Absent
    /\ connectorVersion = [n \in Numbers |-> Absent]
    /\ versionLock = [n \in Numbers |-> Absent]
    /\ at = [c \in Admins |-> "idle"]
    /\ plan = [c \in Admins |-> NoPlan]

CredentialNext ==
    \/ CreateAPIKey
    \/ \E c \in Admins :
          \/ RotateAPIKey(c) \/ ActivateAPIKeyVersion(c) \/ RevokeAPIKey(c)
          \/ CreateBegin(c) \/ CreateConnectorVersion(c)
          \/ VerifyConnectorVersion(c)
          \/ FindCurrent(c) \/ ActivateConnectorVersion(c)
          \/ \E n \in Numbers :
                \/ \E operation \in {"rotate", "activate", "revoke"} : BeginKey(c, operation, n)
                \/ CheckHealth(c, n) \/ ActivateBegin(c, n)

CredentialSpec == CredentialInit /\ [][CredentialNext]_credentialVars

-----------------------------------------------------------------------------
(* Properties.                                                             *)

\* Rotations, activations and a revocation of one API key that overlap never
\* leave two secrets valid at a time, nor a valid or pending one under a key
\* that is revoked.
OneActiveKeyVersion ==
    /\ Cardinality({n \in Numbers : keyVersion[n] = "ACTIVE"}) <= 1
    /\ apiKey = "REVOKED" => \A n \in Numbers : keyVersion[n] \in {Absent, "REVOKED"}

\* A version of a key that was revoked, by its successor or with its key, is
\* never valid again: a late activation finds it no longer pending.
RevokedStaysRevoked ==
    [][\A n \in Numbers : keyVersion[n] = "REVOKED" => keyVersion'[n] = "REVOKED"]_credentialVars

\* Only a connector version that a health check verified while it was pending
\* ever becomes active, and version numbers are given out without gaps.
ActiveWasVerified ==
    /\ \A n \in Numbers : connectorVersion[n] # Absent /\ connectorVersion[n].status # "PENDING" =>
          connectorVersion[n].verified
    /\ \A n \in Numbers : connectorVersion[n] # Absent => \A m \in 1 .. n : connectorVersion[m] # Absent

-----------------------------------------------------------------------------
(* The inductive invariant of CredentialPromise.                           *)

AdminPlaces == {"idle", "rotate", "activate", "revoke", "create", "verify", "current", "swap"}

CredentialTypes ==
    /\ apiKey \in {Absent, "ACTIVE", "REVOKED"}
    /\ keyVersion \in [Numbers -> {Absent} \cup Status]
    /\ connector \in {Absent, "ACTIVE"}
    /\ connectorVersion \in [Numbers -> {Absent} \cup Versions]
    /\ versionLock \in [Numbers -> Admins \cup {Absent}]
    /\ at \in [Admins -> AdminPlaces]
    /\ DOMAIN plan = Admins

KeyVersionsAgree ==
    /\ \A m, n \in Numbers : keyVersion[m] = "ACTIVE" /\ keyVersion[n] = "ACTIVE" => m = n
    /\ apiKey = Absent => \A n \in Numbers : keyVersion[n] = Absent
    /\ apiKey = "REVOKED" => \A n \in Numbers : keyVersion[n] \in {Absent, "REVOKED"}

\* The versions of a connector are those up to some number.
UpTo(k) == \A n \in Numbers : connectorVersion[n] # Absent <=> n <= k

ConnectorVersionsAgree ==
    /\ connector = Absent => UpTo(0)
    /\ \E k \in 0 .. MaxVersion : UpTo(k)
    /\ \A n \in Numbers : connectorVersion[n] # Absent /\ connectorVersion[n].status # "PENDING" =>
          connectorVersion[n].verified

\* A request that changes a key holds its row, and found it active unless it revokes it.
ChangesKey(c) ==
    /\ at[c] \in {"rotate", "activate", "revoke"} => keyLock = c
    /\ at[c] \in {"rotate", "activate"} => apiKey = "ACTIVE"

\* The number of a new version is the next one, unless another request created
\* the connector first.
Creates(c) ==
    at[c] = "create" =>
       /\ plan[c].number \in Nat
       /\ plan[c].current # Absent => connectorLock = c /\ plan[c].current = connector
       /\ plan[c].current = connector => UpTo(plan[c].number - 1)

\* A version that is being activated is locked, verified and still pending.
Activates(c) ==
    LET n == plan[c].number
        old == plan[c].current
    IN  /\ at[c] \in {"verify", "current", "swap"} => n \in Numbers /\ connectorVersion[n] # Absent
        /\ at[c] \in {"current", "swap"} => versionLock[n] = c /\ Activatable(n)
        /\ at[c] = "swap" /\ old # Absent => old \in Numbers /\ connectorVersion[old] # Absent

CredentialInv ==
    /\ CredentialTypes
    /\ KeyVersionsAgree
    /\ ConnectorVersionsAgree
    /\ \A c \in Admins : ChangesKey(c) /\ Creates(c) /\ Activates(c)

\* However rotations, activations and revocations overlap, at most one secret of
\* an API key is valid, none that was revoked, and a connector version becomes
\* active only once verified (rotate_api_key, activate_api_key_version,
\* revoke_api_key, activate_connector_version).
CredentialPromise == [](OneActiveKeyVersion /\ ActiveWasVerified) /\ RevokedStaysRevoked
=============================================================================
