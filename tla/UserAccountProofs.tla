------------------------- MODULE UserAccountProofs -------------------------
(***************************************************************************)
(* For any number of calls, any lag of the replica and any bounds: reset   *)
(* tokens work once, blocked accounts stay blocked, the second factor is   *)
(* the verified one, and avatars exist, with the exceptions each property  *)
(* names, and which of these take a replica behind or calls that overlap.  *)
(***************************************************************************)
EXTENDS UserAccount, TLAPS

-----------------------------------------------------------------------------
(* Type correctness *)

LEMMA WriteTypes ==
    ASSUME TypeOK, NEW new \in Rows, Write(new)
    PROVE  db' \in Rows /\ replica' \in Rows /\ lag' \in Seq(Rows) /\ commits' \in Nat
BY DEF Write, TypeOK

LEMMA NoWriteTypes ==
    ASSUME TypeOK, NoWrite
    PROVE  db' \in Rows /\ replica' \in Rows /\ lag' \in Seq(Rows) /\ commits' \in Nat
BY DEF NoWrite, TypeOK

\* The values the transactions write are rows.
LEMMA NewRows ==
    ASSUME TypeOK
    PROVE  /\ \A s \in Statuses : [db EXCEPT !.status = s] \in Rows
           /\ \A s \in Secrets : [db EXCEPT !.secret = s] \in Rows
           /\ \A k \in Keys \union {None} : [db EXCEPT !.avatar = k] \in Rows
           /\ \A S \in SUBSET Tokens : [db EXCEPT !.tokens = S] \in Rows
           /\ [db EXCEPT !.twoFactor = TRUE] \in Rows
           /\ [db EXCEPT !.twoFactor = FALSE, !.secret = None] \in Rows
BY DEF TypeOK, Rows

Pendings == [at : Places, arg : Nat, old : Keys \union {None}]

Uploading == {"readOld", "setAvatar"}

PlacesTyped ==
    /\ pending \in [Calls -> Pendings]
    /\ \A c \in Calls : pending[c].at \in Uploading => pending[c].arg \in Keys
    /\ \A c \in Calls : pending[c].at = "verify" => pending[c].arg \in Secrets

\* Places whose argument can be anything.
Plain == Places \ (Uploading \union {"verify"})

\* However a call moves on, its place stays well typed.
LEMMA PendingTypes ==
    ASSUME TypeOK, NEW c \in Calls
    PROVE  /\ \A q \in Plain : Goto(c, q) => PlacesTyped'
           /\ End(c) => PlacesTyped'
           /\ AfterRow(c) => PlacesTyped'
           /\ \A q \in Plain, a \in Nat : Begin(c, q, a) => PlacesTyped'
<1>1. Idle \in Pendings /\ Idle.at \in Plain
  BY DEF Idle, Pendings, Places, None, Uploading, Plain
<1>2. PlacesTyped
  BY DEF TypeOK, Pendings, PlacesTyped, Uploading
<1>3. \A q \in Plain : Goto(c, q) => PlacesTyped'
  BY <1>2 DEF Goto, Pendings, PlacesTyped, Plain
<1>4. End(c) => PlacesTyped'
  BY <1>1, <1>2 DEF End, PlacesTyped, Plain
<1>5. AfterRow(c) => PlacesTyped'
  BY <1>3, <1>4 DEF AfterRow, Places, Uploading, Plain
<1>6. \A q \in Plain, a \in Nat : Begin(c, q, a) => PlacesTyped'
  <2>1. ASSUME NEW q \in Places, NEW a \in Nat PROVE [at |-> q, arg |-> a, old |-> None] \in Pendings
    BY DEF Pendings, None
  <2>. QED BY <1>2, <2>1 DEF Begin, PlacesTyped, Plain
<1>. QED BY <1>3, <1>4, <1>5, <1>6

\* The parts of TypeOK together.
LEMMA TypesTogether ==
    ASSUME db' \in Rows, replica' \in Rows, lag' \in Seq(Rows), commits' \in Nat, PlacesTyped',
           objects' \subseteq Keys, installed' \subseteq Keys, collided' \subseteq Keys,
           tokensIssued' \in 0..MaxTokens, secretsIssued' \in 0..MaxSecrets,
           keysIssued' \in 0..MaxKeys, uses' \in [Tokens -> Nat], blocked' \in BOOLEAN,
           laundered' \in BOOLEAN, stale' \in BOOLEAN, verified' \in Nat
    PROVE  TypeOK'
BY DEF TypeOK, PlacesTyped, Pendings, Uploading

LEMMA ResetTypes ==
    ASSUME TypeOK, NEW c \in Calls, Reset(c)
    PROVE  TypeOK'
<1>. USE DEF resetVars, statusVars, factorVars, avatarVars
<1>1. CASE DropTokens(c)
  <2>1. [db EXCEPT !.tokens = {}] \in Rows BY NewRows
  <2>. QED BY <1>1, <2>1, WriteTypes, PendingTypes DEF DropTokens, TypeOK, Places, Uploading, PlacesTyped, Pendings, Plain
<1>2. CASE StoreToken(c)
  <2>1. tokensIssued' \in 0..MaxTokens /\ tokensIssued + 1 \in Tokens
    BY <1>2, ConstantsAssumption DEF StoreToken, TypeOK, Tokens
  <2>2. [db EXCEPT !.tokens = @ \union {tokensIssued + 1}] \in Rows
    BY <2>1 DEF TypeOK, Rows
  <2>. QED BY <1>2, <2>1, <2>2, WriteTypes, PendingTypes DEF StoreToken, TypeOK, Uploading, PlacesTyped, Pendings
<1>3. CASE BeginReset(c)
  <2>1. \A t \in replica.tokens : t \in Nat BY DEF TypeOK, Rows, Tokens
  <2>2. "reset" \in Plain BY DEF Plain, Places, Uploading
  <2>3. PlacesTyped' /\ NoWrite
    BY <1>3, <2>1, <2>2, PendingTypes DEF BeginReset, Begin
  <2>. QED BY <1>3, <2>3, NoWriteTypes DEF BeginReset, TypeOK, Uploading, PlacesTyped, Pendings
<1>4. CASE ResetPassword(c)
  <2>1. PICK t \in Tokens : /\ Write([db EXCEPT !.tokens = @ \ {t}])
                            /\ uses' = [uses EXCEPT ![t] = @ + 1]
    BY <1>4 DEF ResetPassword, TokenIsThere, TypeOK, Rows
  <2>2. [db EXCEPT !.tokens = @ \ {t}] \in Rows BY DEF TypeOK, Rows
  <2>3. uses' \in [Tokens -> Nat] BY <2>1 DEF TypeOK
  <2>. QED BY <1>4, <2>1, <2>2, <2>3, WriteTypes, PendingTypes DEF ResetPassword, TypeOK, Uploading, PlacesTyped, Pendings
<1>. QED BY <1>1, <1>2, <1>3, <1>4 DEF Reset

LEMMA AccountTypes ==
    ASSUME TypeOK, NEW c \in Calls, Account(c)
    PROVE  TypeOK'
<1>. USE DEF resetVars, statusVars, factorVars, avatarVars
<1>0. None \in Nat BY DEF None
<1>1. CASE BeginDeletion(c)
  BY <1>0, <1>1, NoWriteTypes, PendingTypes DEF BeginDeletion, Begin, TypeOK, Places, Uploading, PlacesTyped, Pendings, Plain
<1>2. CASE RequestDeletion(c)
  <2>1. [db EXCEPT !.status = "PENDING_DELETION"] \in Rows BY NewRows DEF Statuses
  <2>. QED BY <1>2, <2>1, WriteTypes, PendingTypes DEF RequestDeletion, TypeOK, Uploading, PlacesTyped, Pendings
<1>3. CASE BeginCancel(c)
  BY <1>0, <1>3, NoWriteTypes, PendingTypes DEF BeginCancel, Begin, TypeOK, Places, Uploading, PlacesTyped, Pendings, Plain
<1>4. CASE CancelDeletion(c)
  <2>1. [db EXCEPT !.status = "ACTIVE"] \in Rows BY NewRows DEF Statuses
  <2>2. CanCancel(db) \in BOOLEAN BY DEF CanCancel
  <2>. QED BY <1>4, <2>1, <2>2, WriteTypes, PendingTypes DEF CancelDeletion, TypeOK, Uploading, PlacesTyped, Pendings
<1>. QED BY <1>1, <1>2, <1>3, <1>4 DEF Account

LEMMA FactorTypes ==
    ASSUME TypeOK, NEW c \in Calls, Factor(c)
    PROVE  TypeOK'
<1>. USE DEF resetVars, statusVars, factorVars, avatarVars
<1>0. None \in Nat /\ pending[c].arg \in Nat BY DEF None, TypeOK
<1>1. CASE BeginEnable(c)
  BY <1>0, <1>1, NoWriteTypes, PendingTypes DEF BeginEnable, Begin, TypeOK, Places, Uploading, PlacesTyped, Pendings, Plain
<1>2. CASE Enable2FA(c)
  <2>1. secretsIssued' \in 0..MaxSecrets /\ secretsIssued + 1 \in Secrets
    BY <1>2, ConstantsAssumption DEF Enable2FA, TypeOK, Secrets
  <2>2. [db EXCEPT !.secret = secretsIssued + 1] \in Rows BY <2>1, NewRows
  <2>3. stale' \in BOOLEAN BY <1>2 DEF Enable2FA, CanEnable, TypeOK
  <2>. QED BY <1>2, <2>1, <2>2, <2>3, WriteTypes, PendingTypes DEF Enable2FA, TypeOK, Uploading, PlacesTyped, Pendings
<1>3. CASE BeginVerify(c)
  <2>1. replica.secret \in Secrets /\ replica.secret \in Nat
    BY <1>3 DEF BeginVerify, TypeOK, Rows, Secrets, None
  <2>2. [at |-> "verify", arg |-> replica.secret, old |-> None] \in Pendings
    BY <2>1 DEF Pendings, Places, None
  <2>3. PlacesTyped BY DEF TypeOK, PlacesTyped, Pendings, Uploading
  <2>4. PlacesTyped' BY <1>3, <2>1, <2>2, <2>3 DEF BeginVerify, Begin, PlacesTyped, Uploading
  <2>. QED BY <1>3, <2>4, NoWriteTypes DEF BeginVerify, Begin, TypeOK, Uploading, PlacesTyped, Pendings
<1>4. CASE Verify2FASetup(c)
  <2>1. [db EXCEPT !.twoFactor = TRUE] \in Rows BY NewRows
  <2>. QED BY <1>0, <1>4, <2>1, WriteTypes, PendingTypes DEF Verify2FASetup, TypeOK, Uploading, PlacesTyped, Pendings
<1>5. CASE BeginDisable(c)
  BY <1>0, <1>5, NoWriteTypes, PendingTypes DEF BeginDisable, Begin, TypeOK, Places, Uploading, PlacesTyped, Pendings, Plain
<1>6. CASE Disable2FA(c)
  <2>1. [db EXCEPT !.twoFactor = FALSE, !.secret = None] \in Rows BY NewRows
  <2>. QED BY <1>6, <2>1, WriteTypes, PendingTypes DEF Disable2FA, TypeOK, Uploading, PlacesTyped, Pendings
<1>. QED BY <1>1, <1>2, <1>3, <1>4, <1>5, <1>6 DEF Factor

LEMMA AvatarTypes ==
    ASSUME TypeOK, NEW c \in Calls, Avatar(c)
    PROVE  TypeOK'
<1>. USE DEF resetVars, statusVars, factorVars, avatarVars
<1>0. PlacesTyped BY DEF TypeOK, PlacesTyped, Pendings, Uploading
<1>1. CASE PutObject(c)
  <2>1. PICK k \in Keys :
           /\ IF k > keysIssued THEN keysIssued' = k /\ UNCHANGED collided
              ELSE collided' = collided \union {k} /\ UNCHANGED keysIssued
           /\ objects' = objects \union {k}
           /\ Begin(c, "readOld", k)
    BY <1>1 DEF PutObject
  <2>2. [at |-> "readOld", arg |-> k, old |-> None] \in Pendings
    BY DEF Keys, Places, Pendings, None
  <2>3. keysIssued' \in 0..MaxKeys BY <2>1, ConstantsAssumption DEF TypeOK, Keys
  <2>4. collided' \subseteq Keys /\ objects' \subseteq Keys BY <2>1 DEF TypeOK
  <2>5. PlacesTyped' BY <1>0, <2>1, <2>2 DEF Begin, PlacesTyped
  <2>. QED BY <1>1, <2>1, <2>3, <2>4, <2>5, NoWriteTypes DEF PutObject, Begin, TypeOK, PlacesTyped, Pendings, Uploading
<1>2. CASE ReadOld(c)
  <2>1. pending[c].at = "readOld" /\ pending[c].arg \in Keys /\ replica.avatar \in Keys \union {None}
    BY <1>2 DEF ReadOld, At, TypeOK, Rows
  <2>2. [pending[c] EXCEPT !.at = "setAvatar", !.old = replica.avatar] \in Pendings
    BY <1>0, <2>1 DEF PlacesTyped, Pendings, Places
  <2>3. pending' = [pending EXCEPT ![c] = [pending[c] EXCEPT !.at = "setAvatar", !.old = replica.avatar]]
    BY <1>0, <1>2 DEF ReadOld, PlacesTyped
  <2>4. PlacesTyped' BY <1>0, <2>1, <2>2, <2>3 DEF PlacesTyped, Pendings, Uploading
  <2>. QED BY <1>2, <2>4, NoWriteTypes DEF ReadOld, TypeOK, PlacesTyped, Pendings, Uploading
<1>3. CASE SetAvatar(c)
  <2>1. pending[c].arg \in Keys BY <1>3 DEF SetAvatar, At, TypeOK
  <2>2. [db EXCEPT !.avatar = pending[c].arg] \in Rows BY <2>1, NewRows
  <2>. QED BY <1>3, <2>1, <2>2, WriteTypes, PendingTypes DEF SetAvatar, TypeOK, PlacesTyped, Pendings, Uploading
<1>4. CASE BeginRemove(c)
  <2>1. [at |-> "clearAvatar", arg |-> None, old |-> replica.avatar] \in Pendings
    BY DEF TypeOK, Rows, Pendings, Places, None
  <2>2. PlacesTyped' BY <1>0, <1>4, <2>1 DEF BeginRemove, PlacesTyped, Uploading
  <2>. QED BY <1>4, <2>2, NoWriteTypes DEF BeginRemove, TypeOK, PlacesTyped, Pendings, Uploading
<1>5. CASE ClearAvatar(c)
  <2>1. [db EXCEPT !.avatar = None] \in Rows BY NewRows
  <2>. QED BY <1>5, <2>1, WriteTypes, PendingTypes DEF ClearAvatar, TypeOK, PlacesTyped, Pendings, Uploading
<1>6. CASE DeleteOld(c)
  <2>1. objects' \subseteq Keys BY <1>6 DEF DeleteOld, TypeOK
  <2>. QED BY <1>6, <2>1, NoWriteTypes, PendingTypes DEF DeleteOld, TypeOK, PlacesTyped, Pendings, Uploading
<1>. QED BY <1>1, <1>2, <1>3, <1>4, <1>5, <1>6 DEF Avatar

\* Every row, on the primary and on its way to the replica, stays well typed, under
\* every interleaving of calls (TypeOK).
THEOREM TypeCorrect == Spec => []TypeOK
<1>1. Init => TypeOK
  <2> SUFFICES ASSUME Init PROVE TypeOK
    OBVIOUS
  <2>1. db \in Rows /\ replica \in Rows /\ lag \in Seq(Rows)
    BY DEF Init, Rows, Statuses, None
  <2>2. Idle \in [at : Places, arg : Nat, old : Keys \union {None}]
    BY DEF Idle, Places, None
  <2>3. pending \in [Calls -> [at : Places, arg : Nat, old : Keys \union {None}]]
        /\ \A c \in Calls : pending[c].at = "idle"
    BY <2>2 DEF Init, Idle
  <2>4. uses \in [Tokens -> Nat]
    BY DEF Init
  <2>5. /\ commits \in Nat /\ verified \in Nat
        /\ tokensIssued \in 0..MaxTokens /\ secretsIssued \in 0..MaxSecrets
        /\ keysIssued \in 0..MaxKeys
    BY ConstantsAssumption DEF Init, None
  <2>6. objects \subseteq Keys /\ installed \subseteq Keys /\ collided \subseteq Keys
    BY DEF Init
  <2>7. blocked \in BOOLEAN /\ laundered \in BOOLEAN /\ stale \in BOOLEAN
    BY DEF Init
  <2>. QED BY <2>1, <2>3, <2>4, <2>5, <2>6, <2>7 DEF TypeOK
<1>2. TypeOK /\ [Next]_vars => TypeOK'
  <2> SUFFICES ASSUME TypeOK, [Next]_vars PROVE TypeOK'
    OBVIOUS
  <2>. USE DEF resetVars, statusVars, factorVars, avatarVars
  <2>1. CASE \E c \in Calls : Reset(c) \/ Account(c) \/ Factor(c) \/ Avatar(c)
    BY <2>1, ResetTypes, AccountTypes, FactorTypes, AvatarTypes
  <2>2. ASSUME NEW c \in Calls, Abort(c) PROVE TypeOK'
    BY <2>2, NoWriteTypes, PendingTypes DEF Abort, TypeOK, PlacesTyped, Pendings, Uploading
  <2>3. ASSUME NEW s \in Statuses, AdminSetsStatus(s) PROVE TypeOK'
    <3>1. [db EXCEPT !.status = s] \in Rows BY NewRows
    <3>2. blocked' \in BOOLEAN BY <2>3 DEF AdminSetsStatus
    <3>. QED BY <2>3, <3>1, <3>2, WriteTypes DEF AdminSetsStatus, TypeOK
  <2>4. CASE Replicate
    BY <2>4 DEF Replicate, TypeOK
  <2>5. CASE UNCHANGED vars
    BY <2>5 DEF vars, TypeOK
  <2>. QED BY <2>1, <2>2, <2>3, <2>4, <2>5 DEF Next
<1>. QED BY <1>1, <1>2, PTL DEF Spec

-----------------------------------------------------------------------------
(* Reset tokens *)

\* Inductive: a stored token was never used, nor was one not yet issued.
ResetInv ==
    /\ \A t \in db.tokens : t <= tokensIssued /\ uses[t] = 0
    /\ \A t \in Tokens : uses[t] <= 1 /\ (t > tokensIssued => uses[t] = 0)

\* Steps that leave the tokens and their uses alone.
LEMMA ResetFrame ==
    ASSUME ResetInv, db'.tokens = db.tokens, UNCHANGED resetVars
    PROVE  ResetInv'
BY DEF ResetInv, resetVars

LEMMA ResetStep ==
    ASSUME TypeOK, ResetInv, [Next]_vars
    PROVE  ResetInv'
<1>0. /\ db \in Rows /\ uses \in [Tokens -> Nat] /\ tokensIssued \in Nat
      /\ \A t \in Tokens : t \in Nat
  BY ConstantsAssumption DEF TypeOK, Tokens
<1>1. ASSUME NEW c \in Calls, DropTokens(c) PROVE ResetInv'
  BY <1>0, <1>1 DEF DropTokens, Write, ResetInv, resetVars, Rows
<1>2. ASSUME NEW c \in Calls, StoreToken(c) PROVE ResetInv'
  <2>1. db' = [db EXCEPT !.tokens = @ \union {tokensIssued + 1}] /\ UNCHANGED uses
        /\ tokensIssued' = tokensIssued + 1 /\ tokensIssued + 1 \in Tokens
    BY <1>0, <1>2, ConstantsAssumption DEF StoreToken, Write, Tokens
  <2>2. db'.tokens = db.tokens \union {tokensIssued + 1} BY <1>0, <2>1 DEF Rows
  <2>3. db.tokens \subseteq Tokens BY <1>0 DEF Rows
  <2>. QED BY <1>0, <2>1, <2>2, <2>3 DEF ResetInv
<1>3. ASSUME NEW c \in Calls, ResetPassword(c) PROVE ResetInv'
  <2>1. PICK t \in db.tokens : /\ db' = [db EXCEPT !.tokens = @ \ {t}]
                               /\ uses' = [uses EXCEPT ![t] = @ + 1]
    BY <1>3 DEF ResetPassword, TokenIsThere, Write
  <2>2. db'.tokens = db.tokens \ {t} BY <1>0, <2>1 DEF Rows
  <2>3. db.tokens \subseteq Tokens BY <1>0 DEF Rows
  <2>4. tokensIssued' = tokensIssued BY <1>3 DEF ResetPassword
  <2>. QED BY <1>0, <2>1, <2>2, <2>3, <2>4 DEF ResetInv
<1>4. ASSUME NEW c \in Calls, BeginReset(c) \/ Account(c) \/ Factor(c) \/ Avatar(c) \/ Abort(c)
      PROVE  ResetInv'
  <2>1. db'.tokens = db.tokens
    <3>1. CASE BeginReset(c) \/ Abort(c)
      BY <3>1 DEF BeginReset, Abort, Begin, NoWrite
    <3>2. CASE Account(c)
      BY <1>0, <3>2 DEF Account, BeginDeletion, RequestDeletion, BeginCancel, CancelDeletion,
                  Begin, NoWrite, Write, Rows
    <3>3. CASE Factor(c)
      BY <1>0, <3>3 DEF Factor, BeginEnable, Enable2FA, BeginVerify, Verify2FASetup, BeginDisable,
                  Disable2FA, Begin, NoWrite, Write, Rows
    <3>4. CASE Avatar(c)
      BY <1>0, <3>4 DEF Avatar, PutObject, ReadOld, SetAvatar, BeginRemove, ClearAvatar, DeleteOld,
                  Begin, NoWrite, Write, Rows
    <3>. QED BY <1>4, <3>1, <3>2, <3>3, <3>4
  <2>2. UNCHANGED resetVars
    BY <1>4 DEF BeginReset, Abort, Account, BeginDeletion, RequestDeletion, BeginCancel,
       CancelDeletion, Factor, BeginEnable, Enable2FA, BeginVerify, Verify2FASetup, BeginDisable,
       Disable2FA, Avatar, PutObject, ReadOld, SetAvatar, BeginRemove, ClearAvatar, DeleteOld
  <2>. QED BY <2>1, <2>2, ResetFrame
<1>5. ASSUME NEW s \in Statuses, AdminSetsStatus(s) PROVE ResetInv'
  BY <1>0, <1>5, ResetFrame DEF AdminSetsStatus, Write, Rows
<1>6. CASE Replicate \/ UNCHANGED vars
  BY <1>6, ResetFrame DEF Replicate, vars, resetVars
<1>. QED BY <1>1, <1>2, <1>3, <1>4, <1>5, <1>6 DEF Next, Reset

\* A reset token changes the password at most once (ResetTokensWorkOnce).
THEOREM ResetOnce == Spec => []ResetTokensWorkOnce
<1>1. Init => ResetInv
  BY DEF Init, ResetInv, Tokens
<1>2. ResetInv => ResetTokensWorkOnce
  BY DEF ResetInv, ResetTokensWorkOnce
<1>. QED BY <1>1, <1>2, ResetStep, TypeCorrect, PTL DEF Spec

-----------------------------------------------------------------------------
(* Status and second factor *)

\* Inductive: nothing but a deletion request takes a blocked account out of the
\* blocked statuses; and a factor that is on and not stale is the verified one.
BlockedInv == blocked /\ ~laundered => db.status \in Blocking

GuardInv == BlockedInv /\ FactorIsTheVerifiedOne

LEMMA GuardFrame ==
    ASSUME GuardInv, db'.status = db.status, UNCHANGED statusVars,
           db'.twoFactor = db.twoFactor, db'.secret = db.secret, UNCHANGED factorVars
    PROVE  GuardInv'
BY DEF GuardInv, BlockedInv, FactorIsTheVerifiedOne, statusVars, factorVars

LEMMA GuardStep ==
    ASSUME TypeOK, GuardInv, [Next]_vars
    PROVE  GuardInv'
<1>. USE DEF GuardInv, BlockedInv, FactorIsTheVerifiedOne, statusVars, factorVars
<1>0. db \in Rows /\ \A c \in Calls : pending[c].at = "verify" => pending[c].arg \in Secrets
  BY DEF TypeOK
<1>1. ASSUME NEW c \in Calls, Reset(c) \/ Avatar(c) \/ Abort(c) PROVE GuardInv'
  <2>1. CASE Reset(c) \/ Abort(c)
    BY <1>0, <2>1, GuardFrame DEF Reset, DropTokens, StoreToken, BeginReset, ResetPassword, Abort,
                   Begin, NoWrite, Write, Rows
  <2>2. CASE Avatar(c)
    BY <1>0, <2>2, GuardFrame DEF Avatar, PutObject, ReadOld, SetAvatar, BeginRemove, ClearAvatar,
                   DeleteOld, Begin, NoWrite, Write, Rows
  <2>. QED BY <1>1, <2>1, <2>2
<1>2. ASSUME NEW c \in Calls, Account(c) PROVE GuardInv'
  <2>1. CASE BeginDeletion(c) \/ BeginCancel(c)
    BY <2>1, GuardFrame DEF BeginDeletion, BeginCancel, Begin, NoWrite
  <2>2. CASE RequestDeletion(c)
    BY <1>0, <2>2 DEF RequestDeletion, Write, Rows
  <2>3. CASE CancelDeletion(c)
    BY <1>0, <2>3 DEF CancelDeletion, CanCancel, Blocking, Write, Rows
  <2>. QED BY <1>2, <2>1, <2>2, <2>3 DEF Account
<1>3. ASSUME NEW c \in Calls, Factor(c) PROVE GuardInv'
  <2>1. CASE BeginEnable(c) \/ BeginVerify(c) \/ BeginDisable(c)
    BY <2>1, GuardFrame DEF BeginEnable, BeginVerify, BeginDisable, Begin, NoWrite
  <2>2. CASE Enable2FA(c)
    BY <1>0, <2>2 DEF Enable2FA, CanEnable, Write, Rows
  <2>3. CASE Verify2FASetup(c)
    <3>1. /\ db'.twoFactor = TRUE /\ db'.secret = db.secret /\ db'.status = db.status
          /\ verified' = pending[c].arg /\ stale' = (db.secret # pending[c].arg)
          /\ UNCHANGED statusVars
      BY <1>0, <2>3 DEF Verify2FASetup, Write, Rows
    <3>2. pending[c].arg # None BY <1>0, <2>3 DEF Verify2FASetup, At, Secrets, None
    <3>. QED BY <3>1, <3>2
  <2>4. CASE Disable2FA(c)
    BY <1>0, <2>4 DEF Disable2FA, Write, Rows
  <2>. QED BY <1>3, <2>1, <2>2, <2>3, <2>4 DEF Factor
<1>4. ASSUME NEW s \in Statuses, AdminSetsStatus(s) PROVE GuardInv'
  BY <1>0, <1>4 DEF AdminSetsStatus, Write, Rows, Blocking
<1>5. CASE Replicate \/ UNCHANGED vars
  BY <1>5, GuardFrame DEF Replicate, vars
<1>. QED BY <1>1, <1>2, <1>3, <1>4, <1>5 DEF Next

\* Both guards hold together.
LEMMA GuardsHold == Spec => []GuardInv
<1>1. Init => GuardInv
  BY DEF Init, GuardInv, BlockedInv, FactorIsTheVerifiedOne
<1>. QED BY <1>1, GuardStep, TypeCorrect, PTL DEF Spec

\* An account that an admin suspended or deleted is active again only if its user
\* has since requested its deletion, or cancelled one on a stale snapshot
\* (AccountService).
THEOREM BlockedNeedsCause == Spec => []BlockedStaysBlocked
<1>1. GuardInv => BlockedStaysBlocked
  BY DEF GuardInv, BlockedInv, BlockedStaysBlocked, Blocking
<1>. QED BY <1>1, GuardsHold, PTL

\* A second factor that is on asks for the secret the user verified, unless a setup
\* or its verification committed on a stale snapshot (TwoFactorService).
THEOREM FactorWasVerified == Spec => []FactorIsTheVerifiedOne
<1>1. GuardInv => FactorIsTheVerifiedOne
  BY DEF GuardInv
<1>. QED BY <1>1, GuardsHold, PTL

-----------------------------------------------------------------------------
(* Avatars *)

Uncollided(k) == k \notin collided

\* A row version names no avatar or one that was installed.
Named(v) == v.avatar \in installed \union {None}

RowsNamed == Named(db) /\ Named(replica) /\ \A i \in 1..Len(lag) : Named(lag[i])

\* An upload that has not written its row works on a key of its own, whose object is
\* there and which no row ever named.
OwnKey(c) ==
    pending[c].at \in Uploading =>
        /\ pending[c].arg \in 1..keysIssued
        /\ Uncollided(pending[c].arg) =>
             /\ pending[c].arg \in objects \ installed
             /\ \A d \in Calls \ {c} :
                  pending[d].at \in Uploading => pending[d].arg # pending[c].arg

\* The snapshot a call works with named an installed key; a key about to be deleted
\* is no longer the row's.
OldKey(c) ==
    /\ pending[c].at \in {"setAvatar", "clearAvatar", "deleteOld"} =>
         pending[c].old \in installed \union {None}
    /\ pending[c].at = "deleteOld" =>
         /\ pending[c].old # None
         /\ Uncollided(pending[c].old) => db.avatar # pending[c].old

AvatarInv ==
    /\ RowsNamed
    /\ installed \subseteq 1..keysIssued
    /\ \A c \in Calls : OwnKey(c) /\ OldKey(c)
    /\ AvatarExists

\* A write of a row that names an installed key, or none.
LEMMA WriteNamed ==
    ASSUME TypeOK, RowsNamed, NEW new \in Rows, Write(new), installed \subseteq installed',
           new.avatar \in installed' \union {None}
    PROVE  RowsNamed' /\ db' = new
<1>1. lag \in Seq(Rows) BY DEF TypeOK
<1>2. \A i \in 1..Len(lag) : lag[i].avatar \in installed' \union {None}
  BY DEF RowsNamed, Named
<1>3. replica.avatar \in installed' \union {None}
  BY DEF RowsNamed, Named
<1>4. CASE MaxLag = 0
  BY <1>1, <1>2, <1>4 DEF Write, RowsNamed, Named
<1>5. CASE MaxLag # 0
  <2>1. lag' = Append(lag, new) /\ replica' = replica /\ db' = new BY <1>5 DEF Write
  <2>2. \A i \in 1..Len(lag') : lag'[i].avatar \in installed' \union {None}
    BY <1>1, <1>2, <2>1
  <2>. QED BY <1>3, <2>1, <2>2 DEF RowsNamed, Named
<1>. QED BY <1>4, <1>5

LEMMA NoWriteNamed ==
    ASSUME RowsNamed, NoWrite, installed \subseteq installed'
    PROVE  RowsNamed' /\ db' = db
BY DEF RowsNamed, Named, NoWrite

\* Places that have nothing to do with avatars.
Elsewhere == Places \ {"readOld", "setAvatar", "clearAvatar", "deleteOld"}

\* Steps of a call elsewhere: its own place stays elsewhere and avatars are untouched.
LEMMA AvatarFrame ==
    ASSUME TypeOK, AvatarInv, RowsNamed', db'.avatar = db.avatar, UNCHANGED avatarVars,
           \A d \in Calls : pending'[d] = pending[d] \/ pending'[d].at \in Elsewhere
    PROVE  AvatarInv'
BY DEF AvatarInv, OwnKey, OldKey, AvatarExists, Uncollided, avatarVars, Elsewhere, Uploading

\* The moves of one call, seen from the others.
LEMMA Moves ==
    ASSUME TypeOK, NEW c \in Calls
    PROVE  /\ \A d \in Calls \ {c}, q \in Places, a \in Nat :
                Goto(c, q) \/ End(c) \/ AfterRow(c) \/ Begin(c, q, a) => pending'[d] = pending[d]
           /\ \A q \in Elsewhere : Goto(c, q) => pending'[c].at \in Elsewhere
           /\ \A q \in Elsewhere, a \in Nat : Begin(c, q, a) => pending'[c].at \in Elsewhere
           /\ End(c) => pending'[c].at \in Elsewhere
BY DEF TypeOK, Goto, End, AfterRow, Begin, Idle, Elsewhere, Places

\* A finished deletion, or none to do, and otherwise the deletion of the snapshot's key.
LEMMA AfterRowMoves ==
    ASSUME TypeOK, NEW c \in Calls, AfterRow(c)
    PROVE  \/ pending'[c].at \in Elsewhere
           \/ /\ pending'[c].at = "deleteOld"
              /\ pending'[c].old = pending[c].old
              /\ pending[c].old # None
BY DEF TypeOK, AfterRow, Goto, End, Idle, Elsewhere, Places

LEMMA AvatarElsewhere ==
    ASSUME TypeOK, AvatarInv, NEW c \in Calls, Reset(c) \/ Account(c) \/ Factor(c) \/ Abort(c)
    PROVE  AvatarInv'
<1>. USE DEF resetVars, statusVars, factorVars
<1>0. db \in Rows /\ RowsNamed BY DEF TypeOK, AvatarInv
<1>1. CASE Reset(c)
  <2>1. UNCHANGED avatarVars
    BY <1>1 DEF Reset, DropTokens, StoreToken, BeginReset, ResetPassword
  <2>2. db'.avatar = db.avatar /\ RowsNamed'
    <3>1. CASE DropTokens(c)
      BY <1>0, <2>1, <3>1, NewRows, WriteNamed DEF DropTokens, RowsNamed, Named, Rows, avatarVars
    <3>2. CASE StoreToken(c)
      <4>0. tokensIssued + 1 \in Tokens
        BY <3>2, ConstantsAssumption DEF StoreToken, TypeOK, Tokens
      <4>1. [db EXCEPT !.tokens = @ \union {tokensIssued + 1}] \in Rows
        BY <1>0, <4>0 DEF Rows
      <4>. QED BY <1>0, <2>1, <3>2, <4>1, WriteNamed DEF StoreToken, RowsNamed, Named, Rows, avatarVars
    <3>3. CASE BeginReset(c)
      BY <1>0, <2>1, <3>3, NoWriteNamed DEF BeginReset, Begin, avatarVars
    <3>4. CASE ResetPassword(c)
      <4>1. PICK t \in Tokens : Write([db EXCEPT !.tokens = @ \ {t}])
        BY <1>0, <3>4 DEF ResetPassword, TokenIsThere, Rows
      <4>2. [db EXCEPT !.tokens = @ \ {t}] \in Rows BY <1>0 DEF Rows
      <4>. QED BY <1>0, <2>1, <4>1, <4>2, WriteNamed DEF RowsNamed, Named, Rows, avatarVars
    <3>. QED BY <1>1, <3>1, <3>2, <3>3, <3>4 DEF Reset
  <2>3. \A d \in Calls : pending'[d] = pending[d] \/ pending'[d].at \in Elsewhere
    BY <1>1 DEF Reset, DropTokens, StoreToken, BeginReset, ResetPassword, TypeOK, Goto, Begin, End,
       Idle, Elsewhere, Places
  <2>. QED BY <2>1, <2>2, <2>3, AvatarFrame
<1>2. CASE Account(c)
  <2>1. UNCHANGED avatarVars
    BY <1>2 DEF Account, BeginDeletion, RequestDeletion, BeginCancel, CancelDeletion
  <2>2. db'.avatar = db.avatar /\ RowsNamed'
    <3>1. CASE BeginDeletion(c) \/ BeginCancel(c)
      BY <1>0, <2>1, <3>1, NoWriteNamed DEF BeginDeletion, BeginCancel, Begin, avatarVars
    <3>2. CASE RequestDeletion(c)
      <4>1. "PENDING_DELETION" \in Statuses BY DEF Statuses
      <4>. QED BY <1>0, <2>1, <3>2, <4>1, NewRows, WriteNamed
           DEF RequestDeletion, RowsNamed, Named, Rows, avatarVars
    <3>3. CASE CancelDeletion(c)
      <4>1. "ACTIVE" \in Statuses BY DEF Statuses
      <4>. QED BY <1>0, <2>1, <3>3, <4>1, NewRows, WriteNamed
           DEF CancelDeletion, RowsNamed, Named, Rows, avatarVars
    <3>. QED BY <1>2, <3>1, <3>2, <3>3 DEF Account
  <2>3. \A d \in Calls : pending'[d] = pending[d] \/ pending'[d].at \in Elsewhere
    BY <1>2 DEF Account, BeginDeletion, RequestDeletion, BeginCancel, CancelDeletion, TypeOK, Begin,
       End, Idle, Elsewhere, Places
  <2>. QED BY <2>1, <2>2, <2>3, AvatarFrame
<1>3. CASE Factor(c)
  <2>1. UNCHANGED avatarVars
    BY <1>3 DEF Factor, BeginEnable, Enable2FA, BeginVerify, Verify2FASetup, BeginDisable, Disable2FA
  <2>2. db'.avatar = db.avatar /\ RowsNamed'
    <3>1. CASE BeginEnable(c) \/ BeginVerify(c) \/ BeginDisable(c)
      BY <1>0, <2>1, <3>1, NoWriteNamed DEF BeginEnable, BeginVerify, BeginDisable, Begin, avatarVars
    <3>2. CASE Enable2FA(c)
      <4>1. secretsIssued + 1 \in Secrets
        BY <3>2, ConstantsAssumption DEF Enable2FA, TypeOK, Secrets
      <4>. QED BY <1>0, <2>1, <3>2, <4>1, NewRows, WriteNamed
           DEF Enable2FA, RowsNamed, Named, Rows, avatarVars
    <3>3. CASE Verify2FASetup(c)
      BY <1>0, <2>1, <3>3, NewRows, WriteNamed DEF Verify2FASetup, RowsNamed, Named, Rows, avatarVars
    <3>4. CASE Disable2FA(c)
      <4> DEFINE new == [db EXCEPT !.twoFactor = FALSE, !.secret = None]
      <4>1. new \in Rows /\ new.avatar = db.avatar BY <1>0, NewRows DEF Rows
      <4>2. Write(new) BY <3>4 DEF Disable2FA
      <4>3. new.avatar \in installed' \union {None} /\ installed \subseteq installed'
        BY <1>0, <2>1, <4>1 DEF RowsNamed, Named, avatarVars
      <4> HIDE DEF new
      <4>. QED BY <1>0, <4>1, <4>2, <4>3, WriteNamed
    <3>. QED BY <1>3, <3>1, <3>2, <3>3, <3>4 DEF Factor
  <2>3. \A d \in Calls : pending'[d] = pending[d] \/ pending'[d].at \in Elsewhere
    BY <1>3 DEF Factor, BeginEnable, Enable2FA, BeginVerify, Verify2FASetup, BeginDisable,
       Disable2FA, TypeOK, Begin, End, Idle, Elsewhere, Places
  <2>. QED BY <2>1, <2>2, <2>3, AvatarFrame
<1>4. CASE Abort(c)
  <2>1. UNCHANGED avatarVars /\ db' = db /\ RowsNamed'
    BY <1>0, <1>4, NoWriteNamed DEF Abort, avatarVars
  <2>2. \A d \in Calls : pending'[d] = pending[d] \/ pending'[d].at \in Elsewhere
    BY <1>4 DEF Abort, TypeOK, End, Idle, Elsewhere, Places
  <2>. QED BY <2>1, <2>2, AvatarFrame
<1>. QED BY <1>1, <1>2, <1>3, <1>4

\* An upload takes a key no row names, or one that another upload is working on.
LEMMA PutObjectKeeps ==
    ASSUME TypeOK, AvatarInv, NEW c \in Calls, PutObject(c)
    PROVE  AvatarInv'
<1>1. PICK k \in Keys :
        /\ IF k > keysIssued THEN keysIssued' = k /\ UNCHANGED collided
           ELSE collided' = collided \union {k} /\ UNCHANGED keysIssued
        /\ k <= keysIssued + 1
        /\ objects' = objects \union {k}
        /\ Begin(c, "readOld", k)
  BY DEF PutObject
<1>2. /\ k \in Nat /\ k > 0 /\ keysIssued \in Nat /\ k \in 1..keysIssued' /\ keysIssued' >= keysIssued
      /\ keysIssued' \in Nat
  BY <1>1 DEF TypeOK, Keys
<1>3. UNCHANGED installed /\ NoWrite
  BY <1>1 DEF PutObject, Begin
<1>4. RowsNamed' /\ db' = db
  BY <1>3, NoWriteNamed DEF AvatarInv
<1>5. installed' \subseteq 1..keysIssued'
  BY <1>2, <1>3 DEF AvatarInv
<1>6. /\ pending'[c] = [at |-> "readOld", arg |-> k, old |-> None]
      /\ \A d \in Calls \ {c} : pending'[d] = pending[d]
  BY <1>1 DEF Begin, TypeOK
<1>7. \A d \in Calls \ {c} : pending[d].at \in Uploading /\ pending[d].arg = k => k \in collided'
  BY <1>1, <1>2 DEF AvatarInv, OwnKey
<1>8. k \in installed => k \in collided'
  BY <1>1, <1>2 DEF AvatarInv
<1>9. collided \subseteq collided' /\ objects' = objects \union {k}
  BY <1>1
<1>10. ASSUME NEW d \in Calls PROVE OwnKey(d)' /\ OldKey(d)'
  <2>1. CASE d = c
    BY <1>2, <1>3, <1>6, <1>7, <1>8, <1>9, <2>1 DEF OwnKey, OldKey, Uncollided
  <2>2. CASE d # c
    <3>1. OwnKey(d)'
      BY <1>2, <1>3, <1>6, <1>7, <1>9, <2>2 DEF AvatarInv, OwnKey, Uncollided
    <3>2. OldKey(d)'
      BY <1>3, <1>4, <1>6, <1>9, <2>2 DEF AvatarInv, OldKey, Uncollided
    <3>. QED BY <3>1, <3>2
  <2>. QED BY <2>1, <2>2
<1>11. AvatarExists'
  BY <1>4, <1>9 DEF AvatarInv, AvatarExists
<1>. QED BY <1>4, <1>5, <1>10, <1>11 DEF AvatarInv

LEMMA ReadsKeep ==
    ASSUME TypeOK, AvatarInv, NEW c \in Calls, ReadOld(c) \/ BeginRemove(c)
    PROVE  AvatarInv'
<1>1. NoWrite /\ UNCHANGED avatarVars
  BY DEF ReadOld, BeginRemove
<1>2. RowsNamed' /\ db' = db
  BY <1>1, NoWriteNamed DEF AvatarInv, avatarVars
<1>3. \A d \in Calls \ {c} : pending'[d] = pending[d]
  BY DEF ReadOld, BeginRemove, TypeOK
<1>4. replica.avatar \in installed \union {None}
  BY DEF AvatarInv, RowsNamed, Named
<1>5. CASE ReadOld(c)
  <2>1. /\ pending[c].at = "readOld"
        /\ pending'[c].at = "setAvatar" /\ pending'[c].arg = pending[c].arg
        /\ pending'[c].old = replica.avatar
    BY <1>5 DEF ReadOld, At, TypeOK
  <2>2. \A d \in Calls : OwnKey(d)'
    BY <1>1, <1>3, <2>1 DEF AvatarInv, OwnKey, Uncollided, avatarVars, Uploading
  <2>3. \A d \in Calls : OldKey(d)'
    BY <1>1, <1>2, <1>3, <1>4, <2>1 DEF AvatarInv, OldKey, Uncollided, avatarVars
  <2>. QED BY <1>1, <1>2, <2>2, <2>3 DEF AvatarInv, AvatarExists, avatarVars
<1>6. CASE BeginRemove(c)
  <2>1. pending'[c].at = "clearAvatar" /\ pending'[c].old = replica.avatar
    BY <1>6 DEF BeginRemove, TypeOK
  <2>2. \A d \in Calls : OwnKey(d)'
    BY <1>1, <1>3, <2>1 DEF AvatarInv, OwnKey, Uncollided, avatarVars, Uploading
  <2>3. \A d \in Calls : OldKey(d)'
    BY <1>1, <1>2, <1>3, <1>4, <2>1 DEF AvatarInv, OldKey, Uncollided, avatarVars
  <2>. QED BY <1>1, <1>2, <2>2, <2>3 DEF AvatarInv, AvatarExists, avatarVars
<1>. QED BY <1>5, <1>6

\* The row names the upload's own key, which no snapshot names: no deletion under way
\* can be of that key, and the call's own deletion is of an older one.
LEMMA SetAvatarKeeps ==
    ASSUME TypeOK, AvatarInv, NEW c \in Calls, SetAvatar(c)
    PROVE  AvatarInv'
<1> DEFINE k == pending[c].arg
           new == [db EXCEPT !.avatar = k]
<1>1. /\ pending[c].at = "setAvatar" /\ Write(new) /\ AfterRow(c)
      /\ installed' = installed \union {k}
      /\ UNCHANGED <<objects, keysIssued, collided>>
  BY DEF SetAvatar, At
<1>2. k \in Keys /\ k \in 1..keysIssued /\ OwnKey(c) /\ OldKey(c)
  BY <1>1 DEF TypeOK, AvatarInv, OwnKey, Uploading
<1>3. new \in Rows /\ new.avatar = k
  BY <1>2, NewRows DEF TypeOK, Rows
<1> HIDE DEF new
<1>4. RowsNamed' /\ db'.avatar = k
  BY <1>1, <1>3, WriteNamed DEF AvatarInv
<1>5. installed' \subseteq 1..keysIssued'
  BY <1>1, <1>2 DEF AvatarInv
<1>6. Uncollided(k) => k \in objects \ installed
  BY <1>1, <1>2 DEF OwnKey, Uploading
<1>7. AvatarExists'
  BY <1>1, <1>4, <1>6 DEF AvatarExists, Uncollided
<1>8. \A d \in Calls \ {c} : pending'[d] = pending[d]
  BY <1>1 DEF AfterRow, Goto, End, TypeOK
<1>9. ASSUME NEW d \in Calls PROVE OwnKey(d)' /\ OldKey(d)'
  <2>1. CASE d = c
    <3>1. CASE pending'[c].at \in Elsewhere
      BY <2>1, <3>1 DEF OwnKey, OldKey, Elsewhere, Uploading
    <3>2. CASE /\ pending'[c].at = "deleteOld"
               /\ pending'[c].old = pending[c].old
               /\ pending[c].old # None
      <4>1. pending[c].old \in installed BY <1>1, <1>2, <3>2 DEF OldKey
      <4>2. Uncollided(k) => pending[c].old # k BY <1>6, <4>1
      <4>. QED BY <1>1, <1>4, <2>1, <3>2, <4>1, <4>2 DEF OwnKey, OldKey, Uploading, Uncollided
    <3>. QED BY <1>1, <3>1, <3>2, AfterRowMoves
  <2>2. CASE d # c
    <3>1. OwnKey(d) /\ OldKey(d) /\ pending'[d] = pending[d] BY <1>8, <2>2 DEF AvatarInv
    <3>2. \A e \in Calls : pending'[e].at \in Uploading =>
             pending[e].at \in Uploading /\ pending[e].arg = pending'[e].arg
      BY <1>1, <1>8, AfterRowMoves DEF Elsewhere, Uploading
    <3>3. pending[d].at \in Uploading /\ Uncollided(pending[d].arg) => pending[d].arg # k
      BY <1>1, <2>2, <3>1 DEF OwnKey, Uploading
    <3>4. OwnKey(d)' BY <1>1, <3>1, <3>2, <3>3 DEF OwnKey, Uncollided
    <3>5. OldKey(d)' BY <1>1, <1>4, <1>6, <3>1 DEF OldKey, Uncollided
    <3>. QED BY <3>4, <3>5
  <2>. QED BY <2>1, <2>2
<1>. QED BY <1>4, <1>5, <1>7, <1>9 DEF AvatarInv

LEMMA ClearAvatarKeeps ==
    ASSUME TypeOK, AvatarInv, NEW c \in Calls, ClearAvatar(c)
    PROVE  AvatarInv'
<1> DEFINE new == [db EXCEPT !.avatar = None]
<1>1. /\ pending[c].at = "clearAvatar" /\ Write(new) /\ AfterRow(c)
      /\ UNCHANGED <<objects, keysIssued, collided, installed>>
  BY DEF ClearAvatar, At, avatarVars
<1>2. new \in Rows /\ new.avatar = None
  BY NewRows DEF TypeOK, Rows
<1> HIDE DEF new
<1>3. RowsNamed' /\ db'.avatar = None
  BY <1>1, <1>2, WriteNamed DEF AvatarInv
<1>4. \A d \in Calls \ {c} : pending'[d] = pending[d]
  BY <1>1 DEF AfterRow, Goto, End, TypeOK
<1>5. \A d \in Calls : OwnKey(d)'
  BY <1>1, <1>4, AfterRowMoves DEF AvatarInv, OwnKey, Uncollided, Uploading, Elsewhere
<1>6. \A d \in Calls : OldKey(d)'
  BY <1>1, <1>3, <1>4, AfterRowMoves DEF AvatarInv, OldKey, Uncollided, Elsewhere
<1>. QED BY <1>1, <1>3, <1>5, <1>6 DEF AvatarInv, AvatarExists

\* The key that is deleted was installed once, so it is no upload's own, and no row
\* names it any more.
LEMMA DeleteOldKeeps ==
    ASSUME TypeOK, AvatarInv, NEW c \in Calls, DeleteOld(c)
    PROVE  AvatarInv'
<1> DEFINE k == pending[c].old
<1>1. /\ pending[c].at = "deleteOld" /\ objects' = objects \ {k} /\ NoWrite /\ End(c)
      /\ UNCHANGED <<keysIssued, installed, collided>>
  BY DEF DeleteOld, At
<1>2. RowsNamed' /\ db' = db
  BY <1>1, NoWriteNamed DEF AvatarInv
<1>3. k \in installed /\ (Uncollided(k) => db.avatar # k)
  BY <1>1 DEF AvatarInv, OldKey
<1>4. /\ pending'[c].at \in Elsewhere
      /\ \A d \in Calls \ {c} : pending'[d] = pending[d]
  BY <1>1 DEF End, Idle, TypeOK, Elsewhere, Places
<1>5. \A d \in Calls : OwnKey(d)'
  BY <1>1, <1>3, <1>4 DEF AvatarInv, OwnKey, Uncollided, Uploading, Elsewhere
<1>6. \A d \in Calls : OldKey(d)'
  BY <1>1, <1>2, <1>4 DEF AvatarInv, OldKey, Uncollided, Elsewhere
<1>7. AvatarExists'
  BY <1>1, <1>2, <1>3 DEF AvatarInv, AvatarExists, Uncollided
<1>. QED BY <1>1, <1>2, <1>5, <1>6, <1>7 DEF AvatarInv

LEMMA AvatarStep ==
    ASSUME TypeOK, AvatarInv, [Next]_vars
    PROVE  AvatarInv'
<1>1. ASSUME NEW c \in Calls, Reset(c) \/ Account(c) \/ Factor(c) \/ Avatar(c) \/ Abort(c)
      PROVE  AvatarInv'
  BY <1>1, AvatarElsewhere, PutObjectKeeps, ReadsKeep, SetAvatarKeeps, ClearAvatarKeeps,
     DeleteOldKeeps DEF Avatar
<1>2. ASSUME NEW s \in Statuses, AdminSetsStatus(s) PROVE AvatarInv'
  <2>1. UNCHANGED avatarVars /\ UNCHANGED pending BY <1>2 DEF AdminSetsStatus
  <2>2. [db EXCEPT !.status = s] \in Rows /\ [db EXCEPT !.status = s].avatar = db.avatar
    BY NewRows DEF TypeOK, Rows
  <2>3. Write([db EXCEPT !.status = s]) BY <1>2 DEF AdminSetsStatus
  <2>4. db.avatar \in installed' \union {None} /\ installed \subseteq installed'
    BY <2>1 DEF AvatarInv, RowsNamed, Named, avatarVars
  <2>5. RowsNamed' /\ db' = [db EXCEPT !.status = s]
    BY <2>2, <2>3, <2>4, WriteNamed DEF AvatarInv
  <2>. QED BY <2>1, <2>2, <2>5, AvatarFrame
<1>3. CASE Replicate
  <2>1. UNCHANGED <<db, pending>> /\ UNCHANGED avatarVars /\ lag # <<>>
        /\ replica' = Head(lag) /\ lag' = Tail(lag) /\ lag \in Seq(Rows)
    BY <1>3 DEF Replicate, TypeOK
  <2>2. \A i \in 1..Len(lag) : Named(lag[i]) BY DEF AvatarInv, RowsNamed
  <2>3. Named(Head(lag)) BY <2>1, <2>2
  <2>4. \A i \in 1..Len(Tail(lag)) : Named(Tail(lag)[i]) BY <2>1, <2>2
  <2>5. RowsNamed' BY <2>1, <2>3, <2>4 DEF AvatarInv, RowsNamed, Named, avatarVars
  <2>. QED BY <2>1, <2>5, AvatarFrame
<1>4. CASE UNCHANGED vars
  <2>1. RowsNamed' BY <1>4 DEF vars, AvatarInv, RowsNamed, Named, avatarVars
  <2>. QED BY <1>4, <2>1, AvatarFrame DEF vars
<1>. QED BY <1>1, <1>2, <1>3, <1>4 DEF Next

\* The avatar a row names exists, however uploads, removals and the replica's lag
\* interleave, unless two uploads took the same key (AvatarExists).
THEOREM AvatarsExist == Spec => []AvatarExists
<1>1. Init => AvatarInv
  BY DEF Init, AvatarInv, RowsNamed, Named, OwnKey, OldKey, AvatarExists, Idle, Uploading, None
<1>2. AvatarInv => AvatarExists
  BY DEF AvatarInv
<1>. QED BY <1>1, <1>2, AvatarStep, TypeCorrect, PTL DEF Spec
-----------------------------------------------------------------------------
(* One call at a time, on the primary *)

\* No replica is configured and calls do not overlap.
OneAtATime == MaxLag = 0 /\ \A c, d \in Calls : c = d

\* Then a setup, and its verification, find the rows they were checked on, although
\* an admin's call may change the status in between; and no two uploads share a key.
SerialInv ==
    /\ lag = <<>> /\ replica = db
    /\ ~stale /\ collided = {}
    /\ \A c \in Calls : At(c, "enable") => CanEnable(db)
    /\ \A c \in Calls : At(c, "verify") => db.secret = pending[c].arg

LEMMA SameVersion ==
    ASSUME MaxLag = 0, lag = <<>>, replica = db, NoWrite \/ \E new : Write(new)
    PROVE  lag' = <<>> /\ replica' = db'
BY DEF NoWrite, Write

\* Steps of the calls that have nothing to do with the second factor.
LEMMA SerialFrame ==
    ASSUME OneAtATime, SerialInv, NEW c \in Calls, lag' = <<>> /\ replica' = db',
           db'.twoFactor = db.twoFactor, db'.secret = db.secret, UNCHANGED <<stale, collided>>,
           pending'[c].at \notin {"enable", "verify"}
    PROVE  SerialInv'
BY DEF OneAtATime, SerialInv, At, CanEnable

LEMMA SerialStep ==
    ASSUME OneAtATime, TypeOK, SerialInv, [Next]_vars
    PROVE  SerialInv'
<1>. USE DEF resetVars, statusVars, factorVars, avatarVars
<1>0. /\ MaxLag = 0 /\ lag = <<>> /\ replica = db /\ db \in Rows
      /\ pending \in [Calls -> Pendings]
  BY DEF OneAtATime, SerialInv, TypeOK, Pendings
<1>1. ASSUME NEW c \in Calls, Reset(c) \/ Account(c) \/ Avatar(c) \/ Abort(c)
      PROVE  SerialInv'
  <2>1. CASE Reset(c)
    <3>1. NoWrite \/ \E new : Write(new)
      BY <2>1 DEF Reset, DropTokens, StoreToken, BeginReset, ResetPassword, Begin
    <3>2. db'.twoFactor = db.twoFactor /\ db'.secret = db.secret
      BY <1>0, <2>1
      DEF Reset, DropTokens, StoreToken, BeginReset, ResetPassword, Begin, NoWrite, Write, Rows
    <3>3. pending'[c].at \notin {"enable", "verify"}
      BY <1>0, <2>1
      DEF Reset, DropTokens, StoreToken, BeginReset, ResetPassword, Begin, Goto, End, Idle, Pendings
    <3>4. UNCHANGED <<stale, collided>>
      BY <2>1 DEF Reset, DropTokens, StoreToken, BeginReset, ResetPassword
    <3>5. lag' = <<>> /\ replica' = db' BY <1>0, <3>1, SameVersion
    <3>6. QED BY <3>2, <3>3, <3>4, <3>5, SerialFrame
  <2>2. CASE Account(c) \/ Abort(c)
    <3>1. NoWrite \/ \E new : Write(new)
      BY <2>2
      DEF Account, BeginDeletion, RequestDeletion, BeginCancel, CancelDeletion, Abort, Begin
    <3>2. db'.twoFactor = db.twoFactor /\ db'.secret = db.secret
      BY <1>0, <2>2
      DEF Account, BeginDeletion, RequestDeletion, BeginCancel, CancelDeletion, Abort, Begin,
          NoWrite, Write, Rows
    <3>3. pending'[c].at \notin {"enable", "verify"}
      BY <1>0, <2>2
      DEF Account, BeginDeletion, RequestDeletion, BeginCancel, CancelDeletion, Abort, Begin,
          End, Idle, Pendings
    <3>4. UNCHANGED <<stale, collided>>
      BY <2>2 DEF Account, BeginDeletion, RequestDeletion, BeginCancel, CancelDeletion, Abort
    <3>5. lag' = <<>> /\ replica' = db' BY <1>0, <3>1, SameVersion
    <3>6. QED BY <3>2, <3>3, <3>4, <3>5, SerialFrame
  <2>3. CASE Avatar(c)
    <3>1. NoWrite \/ \E new : Write(new)
      BY <2>3
      DEF Avatar, PutObject, ReadOld, SetAvatar, BeginRemove, ClearAvatar, DeleteOld, Begin
    <3>2. db'.twoFactor = db.twoFactor /\ db'.secret = db.secret
      BY <1>0, <2>3
      DEF Avatar, PutObject, ReadOld, SetAvatar, BeginRemove, ClearAvatar, DeleteOld, Begin,
          NoWrite, Write, Rows
    <3>3. pending'[c].at \notin {"enable", "verify"}
      BY <1>0, <2>3
      DEF Avatar, PutObject, ReadOld, SetAvatar, BeginRemove, ClearAvatar, DeleteOld, Begin,
          AfterRow, Goto, End, Idle, Pendings
    <3>4. UNCHANGED <<stale, collided>>
      <4>1. CASE PutObject(c)
        <5>1. At(c, "idle") /\ \A d \in Calls : d = c BY <4>1 DEF PutObject, OneAtATime
        <5>2. \A d \in Calls : pending[d].at = "idle" BY <5>1 DEF At
        <5>3. QED BY <4>1, <5>2 DEF PutObject
      <4>2. CASE ~PutObject(c)
        BY <2>3, <4>2 DEF Avatar, ReadOld, SetAvatar, BeginRemove, ClearAvatar, DeleteOld
      <4>3. QED BY <4>1, <4>2
    <3>5. lag' = <<>> /\ replica' = db' BY <1>0, <3>1, SameVersion
    <3>6. QED BY <3>2, <3>3, <3>4, <3>5, SerialFrame
  <2>4. QED BY <1>1, <2>1, <2>2, <2>3
<1>2. ASSUME NEW c \in Calls, Factor(c) PROVE SerialInv'
  <2>1. CASE BeginEnable(c) \/ BeginVerify(c) \/ BeginDisable(c)
    <3>1. \A d \in Calls : d = c BY DEF OneAtATime
    <3>2. UNCHANGED <<db, replica, lag, stale, collided>>
      BY <2>1 DEF BeginEnable, BeginVerify, BeginDisable, Begin, NoWrite
    <3>3. /\ pending'[c].at = "enable" => CanEnable(db)
          /\ pending'[c].at = "verify" => pending'[c].arg = db.secret
      BY <1>0, <2>1 DEF BeginEnable, BeginVerify, BeginDisable, Begin, Pendings
    <3>4. QED BY <3>1, <3>2, <3>3 DEF SerialInv, At, CanEnable
  <2>2. CASE Enable2FA(c) \/ Verify2FASetup(c) \/ Disable2FA(c)
    <3>1. \E new : Write(new) BY <2>2 DEF Enable2FA, Verify2FASetup, Disable2FA
    <3>2. lag' = <<>> /\ replica' = db' BY <1>0, <3>1, SameVersion
    <3>3. ~stale' /\ UNCHANGED collided
      <4>1. CASE Enable2FA(c)
        <5>1. CanEnable(db) /\ ~stale BY <4>1 DEF Enable2FA, SerialInv
        <5>2. QED BY <4>1, <5>1 DEF Enable2FA
      <4>2. CASE Verify2FASetup(c)
        <5>1. db.secret = pending[c].arg BY <4>2 DEF Verify2FASetup, SerialInv
        <5>2. QED BY <4>2, <5>1 DEF Verify2FASetup
      <4>3. CASE Disable2FA(c) BY <4>3 DEF Disable2FA, SerialInv
      <4>4. QED BY <2>2, <4>1, <4>2, <4>3
    <3>4. pending'[c].at = "idle"
      BY <1>0, <2>2 DEF Enable2FA, Verify2FASetup, Disable2FA, End, Idle, Pendings
    <3>5. \A d \in Calls : d = c BY DEF OneAtATime
    <3>6. QED BY <3>2, <3>3, <3>4, <3>5 DEF SerialInv, At
  <2>3. QED BY <1>2, <2>1, <2>2 DEF Factor
<1>3. ASSUME NEW s \in Statuses, AdminSetsStatus(s) PROVE SerialInv'
  <2>1. lag' = <<>> /\ replica' = db' BY <1>0, <1>3, SameVersion DEF AdminSetsStatus
  <2>2. db'.twoFactor = db.twoFactor /\ db'.secret = db.secret
    BY <1>0, <1>3 DEF AdminSetsStatus, Write, Rows
  <2>3. QED BY <1>3, <2>1, <2>2 DEF AdminSetsStatus, SerialInv, At, CanEnable
<1>4. CASE Replicate \/ UNCHANGED vars
  BY <1>4 DEF Replicate, vars, SerialInv, At
<1>5. QED BY <1>1, <1>2, <1>3, <1>4 DEF Next

\* The exceptions of the second factor and of the avatar take a replica that is behind
\* or a second call in progress: without, a factor that is on asks for the secret that
\* was verified, and the avatar exists (TwoFactorService, AvatarService).
THEOREM OneCallKeepsFactorAndAvatar ==
    ASSUME OneAtATime
    PROVE  Spec => []/\ db.twoFactor => db.secret = verified /\ db.secret # None
                     /\ db.avatar \in objects \union {None}
<1> DEFINE Kept == /\ db.twoFactor => db.secret = verified /\ db.secret # None
                   /\ db.avatar \in objects \union {None}
<1>1. Init => SerialInv
  BY DEF Init, SerialInv, At, Idle
<1>2. TypeOK /\ SerialInv /\ [Next]_vars => SerialInv'
  BY SerialStep
<1>3. SerialInv /\ FactorIsTheVerifiedOne /\ AvatarExists => Kept
  BY DEF SerialInv, FactorIsTheVerifiedOne, AvatarExists
<1>4. QED BY <1>1, <1>2, <1>3, TypeCorrect, FactorWasVerified, AvatarsExist, PTL DEF Spec
=============================================================================
