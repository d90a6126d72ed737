--------------------------- MODULE QuoteLifecycle ---------------------------
(***************************************************************************)
(* A project request and its quote (Quote.requestId is unique, so there is *)
(* at most one), as the requests and quotes services change them.          *)
(*                                                                         *)
(* A call reads one snapshot of the two rows, most of them from the read   *)
(* replica, checks it and only then opens its transaction on the primary.  *)
(* Between the two, other calls commit.  A call that its check rejects     *)
(* changes nothing and is not modelled.                                    *)
(***************************************************************************)
EXTENDS Integers, Sequences

CONSTANTS
    Calls,       \* HTTP calls that can be in progress at once
    Operations,  \* the operations users perform in this instance
    MaxLag,      \* commits the replica may be behind; 0: no replica configured
    MaxCommits   \* bound on commits

\* What the admin service makes of the statuses of UpdateRequestStatusDto.
DbStatus(s) ==
    CASE s = "draft" -> "DRAFT" [] s = "submitted" -> "SUBMITTED"
      [] s = "underReview" -> "UNDER_REVIEW" [] s = "quoted" -> "QUOTED"
      [] s = "accepted" -> "ACCEPTED" [] s = "rejected" -> "REJECTED"
      [] s = "convertedToProject" -> "CONVERTED_TO_PROJECT"
      [] s = "changesRequested" -> "CHANGES_REQUESTED"

DtoStatuses == {"draft", "submitted", "underReview", "quoted", "accepted", "rejected",
                "convertedToProject", "changesRequested"}

\* What users can ask for; a status stands for the admin's call that sets it.
AllOperations ==
    DtoStatuses \union {"submit", "delete", "adminDelete", "quote", "draftQuote", "send",
                        "view", "accept", "decline", "changes", "revise", "drop"}

ASSUME ConstantsAssumption ==
    /\ Operations \subseteq AllOperations
    /\ MaxLag \in Nat
    /\ MaxCommits \in Nat

RequestStatuses == {"DRAFT", "SUBMITTED", "UNDER_REVIEW", "QUOTED", "ACCEPTED", "REJECTED",
                    "CONVERTED_TO_PROJECT", "CHANGES_REQUESTED"}

QuoteStatuses == {"none", "DRAFT", "PENDING", "SENT", "VIEWED", "ACCEPTED", "DECLINED",
                  "CHANGES_REQUESTED", "REVISED"}

Rows == [request : RequestStatuses, deleted : BOOLEAN, quote : QuoteStatuses]

VARIABLES
    db,        \* the two rows on the primary
    replica,   \* the two rows on the read replica
    lag,       \* committed versions the replica has not applied yet, oldest first
    expired,   \* quote.validUntil has passed
    pending,   \* what each call is about to commit; "idle" when there is none
    outbox,    \* outbox rows written, per event type that a property is about
    commits,   \* transactions committed (bounded)
    stale,     \* commits whose check no longer held on the primary (history)
    reopened,  \* commits that took a decided quote back although not stale (history)
    overrides, \* has an admin set a request's status by hand? (history)
    revised,   \* revisions written (history)
    unannounced \* revisions whose call died before it wrote the event (history)

history == <<stale, reopened, overrides, revised>>
vars == <<db, replica, lag, expired, pending, outbox, commits, history, unannounced>>

Events == {"QUOTE_ACCEPTED", "QUOTE_DECLINED", "QUOTE_REVISION_CREATED"}

Init ==
    /\ db = [request |-> "DRAFT", deleted |-> FALSE, quote |-> "none"]
    /\ replica = db
    /\ lag = <<>>
    /\ expired = FALSE
    /\ pending = [c \in Calls |-> "idle"]
    /\ outbox = [e \in Events |-> 0]
    /\ commits = 0
    /\ stale = 0 /\ reopened = 0 /\ overrides = FALSE /\ revised = 0 /\ unannounced = 0

Decided(v) == v.quote \in {"ACCEPTED", "DECLINED"}

-----------------------------------------------------------------------------
(* The checks: which snapshots v let an operation go on to its transaction *)

\* requests service, client
CanSubmit(v) == ~v.deleted /\ v.request \in {"DRAFT", "CHANGES_REQUESTED"}
CanDelete(v) == ~v.deleted /\ v.request = "DRAFT"
\* requests service, admin
CanSetStatus(v, s) == ~v.deleted /\ ~(DbStatus(s) = "SUBMITTED" /\ v.request = "QUOTED")
CanQuote(v) == ~v.deleted /\ v.request # "QUOTED"
\* quotes service, client
CanView(v) == v.quote = "SENT"

CanAccept(v) == v.quote \in {"SENT", "VIEWED"} /\ ~expired

\* Mutant: the check for a quote that was accepted or declined is dropped.
CanDecideAgain(v) == v.quote # "none"

CanDecide(v) == v.quote # "none" /\ ~Decided(v)

\* quotes service, admin: the quote only has to exist
QuoteExists(v) == v.quote # "none"

Allowed(op, v) ==
    CASE op = "submit"  -> CanSubmit(v)
      [] op = "delete"  -> CanDelete(v)
      [] op = "quote"   -> CanQuote(v)
      [] op = "view"    -> CanView(v)
      [] op = "accept"  -> CanAccept(v)
      [] op \in {"decline", "changes"} -> CanDecide(v)
      [] op \in {"send", "revise", "drop"} -> QuoteExists(v)
      [] op \in DtoStatuses -> CanSetStatus(v, op)
      [] OTHER -> TRUE  \* "draftQuote", "adminDelete": the request row exists

\* The admin operations on a quote read the primary, the others the replica.
Sees(op) == IF op \in {"send", "revise", "drop"} THEN db ELSE replica

\* A call has read its snapshot, passed its check and awaits the transaction.
Begin(c, op) ==
    /\ pending[c] = "idle"
    /\ Allowed(op, Sees(op))
    /\ pending' = [pending EXCEPT ![c] = op]
    /\ UNCHANGED <<db, replica, lag, expired, outbox, commits, history, unannounced>>

-----------------------------------------------------------------------------
(* The transactions *)

\* The primary takes the new rows; the replica will hear of them.
Write(c, op, new) ==
    /\ commits < MaxCommits
    /\ commits' = commits + 1
    /\ db' = new
    /\ IF MaxLag = 0
       THEN replica' = new /\ UNCHANGED lag
       ELSE Len(lag) < MaxLag /\ lag' = Append(lag, new) /\ UNCHANGED replica
    /\ stale' = IF Allowed(op, db) THEN stale ELSE stale + 1
    /\ reopened' = IF Allowed(op, db) /\ Decided(db) /\ ~Decided(new)
                   THEN reopened + 1 ELSE reopened
    /\ UNCHANGED <<expired, unannounced>>

Emit(e) == outbox' = [outbox EXCEPT ![e] = @ + 1]

End(c) == pending' = [pending EXCEPT ![c] = "idle"]

\* An operation that only writes the two rows (and outbox rows no property is about).
Commit(c, op, new) ==
    /\ pending[c] = op
    /\ Write(c, op, new)
    /\ End(c)
    /\ UNCHANGED <<outbox, revised>>

Submit(c) == Commit(c, "submit", [db EXCEPT !.request = "SUBMITTED"]) /\ UNCHANGED overrides

DeleteRequest(c) ==
    \E op \in {"delete", "adminDelete"} :
        Commit(c, op, [db EXCEPT !.deleted = TRUE]) /\ UNCHANGED overrides

SetStatus(c) ==
    \E s \in DtoStatuses :
        Commit(c, s, [db EXCEPT !.request = DbStatus(s)]) /\ overrides' = TRUE

\* createQuote of the requests service; the unique requestId rejects a second quote.
CreateQuote(c) ==
    /\ db.quote = "none"
    /\ Commit(c, "quote", [db EXCEPT !.quote = "PENDING", !.request = "QUOTED"])
    /\ UNCHANGED overrides

\* createQuote of the quotes service: a draft, the request is left as it is.
CreateDraft(c) ==
    /\ db.quote = "none"
    /\ Commit(c, "draftQuote", [db EXCEPT !.quote = "DRAFT"])
    /\ UNCHANGED overrides

Send(c) ==
    /\ db.quote # "none"
    /\ Commit(c, "send", [db EXCEPT !.quote = "SENT"])
    /\ UNCHANGED overrides

\* getQuoteDetails marks the quote VIEWED when its snapshot said SENT.
View(c) ==
    /\ db.quote # "none"
    /\ Commit(c, "view", [db EXCEPT !.quote = "VIEWED"])
    /\ UNCHANGED overrides

RequestChanges(c) ==
    /\ db.quote # "none"
    /\ Commit(c, "changes", [db EXCEPT !.quote = "CHANGES_REQUESTED",
                                       !.request = "CHANGES_REQUESTED"])
    /\ UNCHANGED overrides

DeleteQuote(c) ==
    /\ db.quote # "none"
    /\ Commit(c, "drop", [db EXCEPT !.quote = "none"])
    /\ UNCHANGED overrides

Accept(c) ==
    /\ pending[c] = "accept" /\ db.quote # "none"
    /\ Write(c, "accept", [db EXCEPT !.quote = "ACCEPTED", !.request = "ACCEPTED"])
    /\ Emit("QUOTE_ACCEPTED")
    /\ End(c)
    /\ UNCHANGED <<overrides, revised>>

\* Mutant: the request is not updated.
DeclineQuoteOnly(c) ==
    /\ pending[c] = "decline" /\ db.quote # "none"
    /\ Write(c, "decline", [db EXCEPT !.quote = "DECLINED"])
    /\ Emit("QUOTE_DECLINED")
    /\ End(c)
    /\ UNCHANGED <<overrides, revised>>

Decline(c) ==
    /\ pending[c] = "decline" /\ db.quote # "none"
    /\ Write(c, "decline", [db EXCEPT !.quote = "DECLINED", !.request = "REJECTED"])
    /\ Emit("QUOTE_DECLINED")
    /\ End(c)
    /\ UNCHANGED <<overrides, revised>>

\* Mutant: a revision that never writes its event.
ReviseSilently(c) ==
    /\ pending[c] = "revise" /\ db.quote # "none"
    /\ Write(c, "revise", [db EXCEPT !.quote = "REVISED"])
    /\ revised' = revised + 1
    /\ End(c)
    /\ UNCHANGED <<outbox, overrides>>

\* createRevision updates the quote first and writes its event in a second,
\* separate statement.
Revise(c) ==
    /\ pending[c] = "revise" /\ db.quote # "none"
    /\ Write(c, "revise", [db EXCEPT !.quote = "REVISED"])
    /\ revised' = revised + 1
    /\ pending' = [pending EXCEPT ![c] = "emit"]
    /\ UNCHANGED <<outbox, overrides>>

EmitRevision(c) ==
    /\ pending[c] = "emit"
    /\ Emit("QUOTE_REVISION_CREATED")
    /\ End(c)
    /\ UNCHANGED <<db, replica, lag, expired, commits, history, unannounced>>

\* The transaction throws (the quote is gone, or there is one already), or the
\* process dies: nothing more of it is committed.
Abort(c) ==
    /\ pending[c] # "idle"
    /\ unannounced' = IF pending[c] = "emit" THEN unannounced + 1 ELSE unannounced
    /\ End(c)
    /\ UNCHANGED <<db, replica, lag, expired, outbox, commits, history>>

-----------------------------------------------------------------------------

\* The replica applies the oldest commit it lacks.
Replicate ==
    /\ lag # <<>>
    /\ replica' = Head(lag) /\ lag' = Tail(lag)
    /\ UNCHANGED <<db, expired, pending, outbox, commits, history, unannounced>>

\* validUntil passes.
Expire ==
    /\ ~expired /\ expired' = TRUE
    /\ UNCHANGED <<db, replica, lag, pending, outbox, commits, history, unannounced>>

Transaction(c) ==
    \/ Submit(c) \/ DeleteRequest(c) \/ SetStatus(c) \/ CreateQuote(c) \/ CreateDraft(c)
    \/ Send(c) \/ View(c) \/ RequestChanges(c) \/ DeleteQuote(c)
    \/ Accept(c) \/ Decline(c) \/ Revise(c) \/ EmitRevision(c)

Next ==
    \/ \E c \in Calls : Transaction(c) \/ Abort(c) \/ \E op \in Operations : Begin(c, op)
    \/ Replicate
    \/ Expire

Spec == Init /\ [][Next]_vars

-----------------------------------------------------------------------------
(* Properties *)

\* Types: both databases only ever hold statuses of the Prisma enums.
TypeOK ==
    /\ db \in Rows /\ replica \in Rows
    /\ lag \in Seq(Rows)
    /\ expired \in BOOLEAN /\ overrides \in BOOLEAN
    /\ pending \in [Calls -> AllOperations \union {"idle", "emit"}]
    /\ outbox \in [Events -> Nat]
    /\ commits \in Nat /\ stale \in Nat /\ reopened \in Nat /\ revised \in Nat /\ unannounced \in Nat

Decisions == outbox["QUOTE_ACCEPTED"] + outbox["QUOTE_DECLINED"]

\* A quote is decided once.  Every further QUOTE_ACCEPTED or QUOTE_DECLINED is
\* the price of an admin who reopened it (sendQuote, createRevision, deleteQuote)
\* or of a call that committed on a snapshot that was no longer true.
DecisionsExplained == Decisions <= 1 + reopened + stale

\* Without stale commits, overrides and reopening, the request's status agrees
\* with the decision on its quote (quote-status.service writes both).
RequestAgreesWithQuote ==
    stale = 0 /\ reopened = 0 /\ ~overrides =>
        /\ db.quote = "ACCEPTED" => db.request = "ACCEPTED"
        /\ db.quote = "DECLINED" => db.request = "REJECTED"
        /\ db.request = "ACCEPTED" => db.quote = "ACCEPTED"

\* A revision's event is missing only while its call is between the two writes,
\* or because the call died there.
RevisionsAnnounced ==
    revised > outbox["QUOTE_REVISION_CREATED"] + unannounced =>
        \E c \in Calls : pending[c] = "emit"
=============================================================================
