---------------------------- MODULE UserAccount ----------------------------
(***************************************************************************)
(* One user's rows (User and AuthConfig), reset tokens and avatar objects, *)
(* as the auth and users services and the admin's calls change them.       *)
(*                                                                         *)
(* A call reads the replica, checks what it read, and later writes by id   *)
(* on the primary; other calls commit in between.  A call whose check      *)
(* rejects it changes nothing and is not modelled.                         *)
(***************************************************************************)
EXTENDS Integers, Sequences

CONSTANTS
    Calls,       \* HTTP calls that can be in progress at once
    MaxLag,      \* commits the replica may be behind; 0: no replica configured
    MaxCommits,  \* bound on commits
    MaxTokens,   \* bound on reset tokens issued
    MaxSecrets,  \* bound on second-factor secrets generated
    MaxKeys      \* bound on avatar keys

ASSUME ConstantsAssumption ==
    /\ MaxLag \in Nat /\ MaxCommits \in Nat
    /\ MaxTokens \in Nat /\ MaxSecrets \in Nat /\ MaxKeys \in Nat

Tokens == 1..MaxTokens
Secrets == 1..MaxSecrets
Keys == 1..MaxKeys
None == 0  \* no secret, no avatar

Statuses == {"ACTIVE", "SUSPENDED", "DELETED", "PENDING_DELETION"}

\* twoFactor: the flag of the same name in User and in AuthConfig, which every
\* transaction writes together; tokens: the stored PASSWORD_RESET tokens.
Rows == [status : Statuses, twoFactor : BOOLEAN, secret : Secrets \union {None},
         avatar : Keys \union {None}, tokens : SUBSET Tokens]

VARIABLES
    db,        \* the rows on the primary
    replica,   \* the rows on the read replica
    lag,       \* committed versions the replica has not applied yet, oldest first
    objects,   \* avatar keys that exist in object storage
    pending,   \* where each call is, with the token, secret or key it works on
    commits,   \* transactions committed (bounded)
    tokensIssued, secretsIssued, keysIssued,
    uses,      \* password changes made with each token (history)
    blocked,   \* was the admins' last decision to suspend or delete? (history)
    laundered, \* since then: a deletion request, or a stale cancellation (history)
    verified,  \* the secret the user last proved to have (history)
    stale,     \* since then: a second-factor write whose check no longer held (history)
    installed, \* keys the row has named (history)
    collided   \* keys two uploads took in the same millisecond (history)

issued == <<tokensIssued, secretsIssued, keysIssued>>
resetVars == <<tokensIssued, uses>>
statusVars == <<blocked, laundered>>
factorVars == <<secretsIssued, verified, stale>>
avatarVars == <<objects, keysIssued, installed, collided>>
vars == <<db, replica, lag, pending, commits, resetVars, statusVars, factorVars, avatarVars>>

Idle == [at |-> "idle", arg |-> None, old |-> None]

\* registerUser: an active user with its configuration.
Init ==
    /\ db = [status |-> "ACTIVE", twoFactor |-> FALSE, secret |-> None, avatar |-> None,
             tokens |-> {}]
    /\ replica = db /\ lag = <<>>
    /\ objects = {}
    /\ pending = [c \in Calls |-> Idle]
    /\ commits = 0
    /\ tokensIssued = 0 /\ secretsIssued = 0 /\ keysIssued = 0
    /\ uses = [t \in Tokens |-> 0]
    /\ blocked = FALSE /\ laundered = FALSE
    /\ verified = None /\ stale = FALSE
    /\ installed = {} /\ collided = {}

-----------------------------------------------------------------------------
(* The replica and the steps of a call *)

\* The primary takes the new rows; the replica will hear of them.
Write(new) ==
    /\ commits < MaxCommits
    /\ commits' = commits + 1
    /\ db' = new
    /\ IF MaxLag = 0
       THEN replica' = new /\ UNCHANGED lag
       ELSE Len(lag) < MaxLag /\ lag' = Append(lag, new) /\ UNCHANGED replica

NoWrite == UNCHANGED <<db, replica, lag, commits>>

At(c, place) == pending[c].at = place

Begin(c, place, arg) ==
    /\ At(c, "idle")
    /\ pending' = [pending EXCEPT ![c] = [at |-> place, arg |-> arg, old |-> None]]
    /\ NoWrite

Goto(c, place) == pending' = [pending EXCEPT ![c].at = place]

End(c) == pending' = [pending EXCEPT ![c] = Idle]

\* The transaction throws or the process dies: nothing more of the call happens.
Abort(c) ==
    /\ ~At(c, "idle")
    /\ End(c)
    /\ NoWrite
    /\ UNCHANGED <<resetVars, statusVars, factorVars, avatarVars>>

Replicate ==
    /\ lag # <<>>
    /\ replica' = Head(lag) /\ lag' = Tail(lag)
    /\ UNCHANGED <<db, commits, pending, resetVars, statusVars, factorVars, avatarVars>>

-----------------------------------------------------------------------------
(* Password reset (auth service) *)

\* requestPasswordReset: old tokens go, then a new one is stored, in two commits.
DropTokens(c) ==
    /\ At(c, "idle")
    /\ Write([db EXCEPT !.tokens = {}])
    /\ Goto(c, "storeToken")
    /\ UNCHANGED <<resetVars, statusVars, factorVars, avatarVars>>

StoreToken(c) ==
    /\ At(c, "storeToken")
    /\ tokensIssued < MaxTokens
    /\ tokensIssued' = tokensIssued + 1
    /\ Write([db EXCEPT !.tokens = @ \union {tokensIssued + 1}])
    /\ End(c)
    /\ UNCHANGED <<uses, statusVars, factorVars, avatarVars>>

BeginReset(c) ==
    /\ \E t \in replica.tokens : Begin(c, "reset", t)
    /\ UNCHANGED <<resetVars, statusVars, factorVars, avatarVars>>

\* Mutant: a token that is gone does not stop the transaction (deleteMany).
TokenIsThereOrNot(t) == TRUE

\* Deleting a row by an id that is gone throws and takes the password back.
TokenIsThere(t) == t \in db.tokens

ResetPassword(c) ==
    /\ At(c, "reset")
    /\ LET t == pending[c].arg IN
       /\ TokenIsThere(t)
       /\ Write([db EXCEPT !.tokens = @ \ {t}])
       /\ uses' = [uses EXCEPT ![t] = @ + 1]
    /\ End(c)
    /\ UNCHANGED <<tokensIssued, statusVars, factorVars, avatarVars>>

-----------------------------------------------------------------------------
(* Account status (users service) *)

Blocking == {"SUSPENDED", "DELETED"}

\* changeUserStatus, updateUser, deleteUser, restoreUser and bulkOperation write
\* the status whatever it was.
AdminSetsStatus(s) ==
    /\ Write([db EXCEPT !.status = s])
    /\ blocked' = (s \in Blocking)
    /\ laundered' = FALSE
    /\ UNCHANGED <<pending, resetVars, factorVars, avatarVars>>

\* The user's request is not checked against the status.
BeginDeletion(c) ==
    /\ Begin(c, "deletion", None)
    /\ UNCHANGED <<resetVars, statusVars, factorVars, avatarVars>>

RequestDeletion(c) ==
    /\ At(c, "deletion")
    /\ Write([db EXCEPT !.status = "PENDING_DELETION"])
    /\ laundered' = (laundered \/ blocked)
    /\ End(c)
    /\ UNCHANGED <<blocked, resetVars, factorVars, avatarVars>>

\* Mutant: the status is not checked.
CanAlwaysCancel(v) == TRUE

CanCancel(v) == v.status = "PENDING_DELETION"

BeginCancel(c) ==
    /\ CanCancel(replica)
    /\ Begin(c, "cancel", None)
    /\ UNCHANGED <<resetVars, statusVars, factorVars, avatarVars>>

CancelDeletion(c) ==
    /\ At(c, "cancel")
    /\ Write([db EXCEPT !.status = "ACTIVE"])
    /\ laundered' = (laundered \/ ~CanCancel(db))
    /\ End(c)
    /\ UNCHANGED <<blocked, resetVars, factorVars, avatarVars>>

-----------------------------------------------------------------------------
(* Second factor (users service) *)

\* Mutant: a second setup is let in while the factor is on.
CanEnableAgain(v) == TRUE

CanEnable(v) == ~v.twoFactor

BeginEnable(c) ==
    /\ CanEnable(replica)
    /\ Begin(c, "enable", None)
    /\ UNCHANGED <<resetVars, statusVars, factorVars, avatarVars>>

\* enable2FA stores a new secret; the flag stays as it is.
Enable2FA(c) ==
    /\ At(c, "enable")
    /\ secretsIssued < MaxSecrets
    /\ secretsIssued' = secretsIssued + 1
    /\ Write([db EXCEPT !.secret = secretsIssued + 1])
    /\ stale' = (stale \/ ~CanEnable(db))
    /\ End(c)
    /\ UNCHANGED <<verified, resetVars, statusVars, avatarVars>>

\* The code is compared with the replica's secret, whether the factor is on or not.
BeginVerify(c) ==
    /\ replica.secret # None
    /\ Begin(c, "verify", replica.secret)
    /\ UNCHANGED <<resetVars, statusVars, factorVars, avatarVars>>

Verify2FASetup(c) ==
    /\ At(c, "verify")
    /\ Write([db EXCEPT !.twoFactor = TRUE])
    /\ verified' = pending[c].arg
    /\ stale' = (db.secret # pending[c].arg)
    /\ End(c)
    /\ UNCHANGED <<secretsIssued, resetVars, statusVars, avatarVars>>

BeginDisable(c) ==
    /\ replica.twoFactor
    /\ Begin(c, "disable", None)
    /\ UNCHANGED <<resetVars, statusVars, factorVars, avatarVars>>

Disable2FA(c) ==
    /\ At(c, "disable")
    /\ Write([db EXCEPT !.twoFactor = FALSE, !.secret = None])
    /\ End(c)
    /\ UNCHANGED <<factorVars, resetVars, statusVars, avatarVars>>

-----------------------------------------------------------------------------
(* Avatar (users service): the object first, then the row, then the old object *)

\* The key is the user and the millisecond: two uploads can take the same one.
PutObject(c) ==
    /\ At(c, "idle")
    /\ \E k \in 1..(keysIssued + 1) :
        /\ k \in Keys
        /\ IF k > keysIssued
           THEN keysIssued' = k /\ UNCHANGED collided
           ELSE /\ \E d \in Calls : pending[d].at \in {"readOld", "setAvatar"} /\ pending[d].arg = k
                /\ collided' = collided \union {k}
                /\ UNCHANGED keysIssued
        /\ objects' = objects \union {k}
        /\ Begin(c, "readOld", k)
    /\ UNCHANGED <<installed, resetVars, statusVars, factorVars>>

ReadOld(c) ==
    /\ At(c, "readOld")
    /\ pending' = [pending EXCEPT ![c].at = "setAvatar", ![c].old = replica.avatar]
    /\ NoWrite
    /\ UNCHANGED <<resetVars, statusVars, factorVars, avatarVars>>

\* The old object is looked for only when the snapshot named one.
AfterRow(c) == IF pending[c].old = None THEN End(c) ELSE Goto(c, "deleteOld")

SetAvatar(c) ==
    /\ At(c, "setAvatar")
    /\ Write([db EXCEPT !.avatar = pending[c].arg])
    /\ installed' = installed \union {pending[c].arg}
    /\ AfterRow(c)
    /\ UNCHANGED <<objects, keysIssued, collided, resetVars, statusVars, factorVars>>

BeginRemove(c) ==
    /\ At(c, "idle") /\ replica.avatar # None
    /\ pending' = [pending EXCEPT ![c] = [at |-> "clearAvatar", arg |-> None, old |-> replica.avatar]]
    /\ NoWrite
    /\ UNCHANGED <<resetVars, statusVars, factorVars, avatarVars>>

\* Mutant: the object goes and the row stays.
ForgetToClear(c) ==
    /\ At(c, "clearAvatar")
    /\ NoWrite
    /\ AfterRow(c)
    /\ UNCHANGED <<resetVars, statusVars, factorVars, avatarVars>>

ClearAvatar(c) ==
    /\ At(c, "clearAvatar")
    /\ Write([db EXCEPT !.avatar = None])
    /\ AfterRow(c)
    /\ UNCHANGED <<resetVars, statusVars, factorVars, avatarVars>>

DeleteOld(c) ==
    /\ At(c, "deleteOld")
    /\ objects' = objects \ {pending[c].old}
    /\ End(c)
    /\ NoWrite
    /\ UNCHANGED <<keysIssued, installed, collided, resetVars, statusVars, factorVars>>

-----------------------------------------------------------------------------

Reset(c) == DropTokens(c) \/ StoreToken(c) \/ BeginReset(c) \/ ResetPassword(c)

Account(c) == BeginDeletion(c) \/ RequestDeletion(c) \/ BeginCancel(c) \/ CancelDeletion(c)

Factor(c) ==
    \/ BeginEnable(c) \/ Enable2FA(c) \/ BeginVerify(c) \/ Verify2FASetup(c)
    \/ BeginDisable(c) \/ Disable2FA(c)

Avatar(c) ==
    \/ PutObject(c) \/ ReadOld(c) \/ SetAvatar(c) \/ BeginRemove(c) \/ ClearAvatar(c)
    \/ DeleteOld(c)

Next ==
    \/ \E c \in Calls : Reset(c) \/ Account(c) \/ Factor(c) \/ Avatar(c) \/ Abort(c)
    \/ \E s \in Statuses : AdminSetsStatus(s)
    \/ Replicate

Spec == Init /\ [][Next]_vars

-----------------------------------------------------------------------------
(* Properties *)

Places == {"idle", "storeToken", "reset", "deletion", "cancel", "enable", "verify",
           "disable", "readOld", "setAvatar", "clearAvatar", "deleteOld"}

\* Types; an upload in progress works on an avatar key, a verification on a secret.
TypeOK ==
    /\ db \in Rows /\ replica \in Rows /\ lag \in Seq(Rows)
    /\ objects \subseteq Keys
    /\ pending \in [Calls -> [at : Places, arg : Nat, old : Keys \union {None}]]
    /\ \A c \in Calls : pending[c].at \in {"readOld", "setAvatar"} => pending[c].arg \in Keys
    /\ \A c \in Calls : pending[c].at = "verify" => pending[c].arg \in Secrets
    /\ commits \in Nat
    /\ tokensIssued \in 0..MaxTokens /\ secretsIssued \in 0..MaxSecrets
    /\ keysIssued \in 0..MaxKeys
    /\ uses \in [Tokens -> Nat]
    /\ blocked \in BOOLEAN /\ laundered \in BOOLEAN /\ stale \in BOOLEAN
    /\ verified \in Nat
    /\ installed \subseteq Keys /\ collided \subseteq Keys

\* However far behind the replica that validates it, a reset token changes the
\* password at most once: its row is deleted in the same transaction.
ResetTokensWorkOnce == \A t \in Tokens : uses[t] <= 1

\* An account that an admin suspended or deleted is not active again, unless its
\* user has since requested its deletion (which replaces the status) or a
\* cancellation committed on a snapshot that was no longer true.
BlockedStaysBlocked == blocked /\ db.status = "ACTIVE" => laundered

\* A second factor that is on asks for the secret the user proved to have, unless
\* a setup, or its verification, committed on a snapshot that was no longer true.
FactorIsTheVerifiedOne ==
    db.twoFactor /\ ~stale => db.secret = verified /\ db.secret # None

\* The object of the avatar a row names exists: uploads and removals delete only
\* objects no row names any more, unless two uploads took the same key.
AvatarExists == db.avatar \in objects \union collided \union {None}
=============================================================================
