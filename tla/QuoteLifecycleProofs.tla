------------------------ MODULE QuoteLifecycleProofs ------------------------
(***************************************************************************)
(* For every number of calls, every lag of the replica and every set of    *)
(* operations: the rows stay well typed, a quote is decided once unless it *)
(* is reopened or a stale call commits, a decision and the request's       *)
(* status agree as long as neither that nor an override happens, and every *)
(* revision is announced, about to be announced, or its call died. One     *)
(* call at a time commits nothing stale that decides a quote again.        *)
(***************************************************************************)
EXTENDS QuoteLifecycle, FiniteSetTheorems, TLAPS

-----------------------------------------------------------------------------
(* Type correctness *)

\* A write of well-typed rows keeps everything that Write changes well typed.
LEMMA WriteTypes ==
    ASSUME TypeOK, NEW c, NEW op, NEW new \in Rows, Write(c, op, new)
    PROVE  /\ db' \in Rows /\ replica' \in Rows /\ lag' \in Seq(Rows)
           /\ commits' \in Nat /\ stale' \in Nat /\ reopened' \in Nat
           /\ expired' = expired /\ unannounced' = unannounced
BY DEF Write, TypeOK

\* The values the transactions write are rows.
LEMMA NewRows ==
    ASSUME TypeOK
    PROVE  /\ \A s \in RequestStatuses : [db EXCEPT !.request = s] \in Rows
           /\ \A b \in BOOLEAN : [db EXCEPT !.deleted = b] \in Rows
           /\ \A q \in QuoteStatuses : [db EXCEPT !.quote = q] \in Rows
           /\ \A q \in QuoteStatuses, s \in RequestStatuses :
                  [db EXCEPT !.quote = q, !.request = s] \in Rows
BY DEF TypeOK, Rows

LEMMA DbStatusType == \A s \in DtoStatuses : DbStatus(s) \in RequestStatuses
BY DEF DtoStatuses, DbStatus, RequestStatuses

\* What a call that commits and ends leaves behind.
LEMMA CommitTypes ==
    ASSUME TypeOK, NEW c \in Calls, NEW op, NEW new \in Rows, Commit(c, op, new),
           overrides' \in BOOLEAN
    PROVE  TypeOK'
<1>1. Write(c, op, new) /\ End(c) /\ UNCHANGED <<outbox, revised>>
  BY DEF Commit
<1>2. pending' \in [Calls -> AllOperations \union {"idle", "emit"}]
  BY <1>1 DEF End, TypeOK
<1>. QED BY <1>1, <1>2, WriteTypes DEF TypeOK

LEMMA EmitTypes ==
    ASSUME TypeOK, NEW e \in Events, Emit(e)
    PROVE  outbox' \in [Events -> Nat]
BY DEF TypeOK, Emit

LEMMA TransactionTypes ==
    ASSUME TypeOK, NEW c \in Calls, Transaction(c)
    PROVE  TypeOK'
<1>0. overrides \in BOOLEAN BY DEF TypeOK
<1>1. CASE Submit(c)
  <2>1. [db EXCEPT !.request = "SUBMITTED"] \in Rows BY NewRows DEF RequestStatuses
  <2>. QED BY <1>0, <1>1, <2>1, CommitTypes DEF Submit
<1>2. CASE DeleteRequest(c)
  <2>1. [db EXCEPT !.deleted = TRUE] \in Rows BY NewRows
  <2>. QED BY <1>0, <1>2, <2>1, CommitTypes DEF DeleteRequest
<1>3. CASE SetStatus(c)
  <2>1. PICK s \in DtoStatuses :
            Commit(c, s, [db EXCEPT !.request = DbStatus(s)]) /\ overrides' = TRUE
    BY <1>3 DEF SetStatus
  <2>2. [db EXCEPT !.request = DbStatus(s)] \in Rows BY NewRows, DbStatusType
  <2>. QED BY <2>1, <2>2, CommitTypes
<1>4. CASE CreateQuote(c)
  <2>1. [db EXCEPT !.quote = "PENDING", !.request = "QUOTED"] \in Rows
    BY NewRows DEF RequestStatuses, QuoteStatuses
  <2>. QED BY <1>0, <1>4, <2>1, CommitTypes DEF CreateQuote
<1>5. CASE CreateDraft(c)
  <2>1. [db EXCEPT !.quote = "DRAFT"] \in Rows BY NewRows DEF QuoteStatuses
  <2>. QED BY <1>0, <1>5, <2>1, CommitTypes DEF CreateDraft
<1>6. CASE Send(c)
  <2>1. [db EXCEPT !.quote = "SENT"] \in Rows BY NewRows DEF QuoteStatuses
  <2>. QED BY <1>0, <1>6, <2>1, CommitTypes DEF Send
<1>7. CASE View(c)
  <2>1. [db EXCEPT !.quote = "VIEWED"] \in Rows BY NewRows DEF QuoteStatuses
  <2>. QED BY <1>0, <1>7, <2>1, CommitTypes DEF View
<1>8. CASE RequestChanges(c)
  <2>1. [db EXCEPT !.quote = "CHANGES_REQUESTED", !.request = "CHANGES_REQUESTED"] \in Rows
    BY NewRows DEF RequestStatuses, QuoteStatuses
  <2>. QED BY <1>0, <1>8, <2>1, CommitTypes DEF RequestChanges
<1>9. CASE DeleteQuote(c)
  <2>1. [db EXCEPT !.quote = "none"] \in Rows BY NewRows DEF QuoteStatuses
  <2>. QED BY <1>0, <1>9, <2>1, CommitTypes DEF DeleteQuote
<1>10. ASSUME NEW op, NEW new \in Rows, NEW e \in Events,
              Write(c, op, new), Emit(e), End(c), UNCHANGED <<overrides, revised>>
       PROVE  TypeOK'
  <2>1. pending' \in [Calls -> AllOperations \union {"idle", "emit"}]
    BY <1>10 DEF End, TypeOK
  <2>2. outbox' \in [Events -> Nat] BY <1>10, EmitTypes
  <2>. QED BY <1>10, <2>1, <2>2, WriteTypes DEF TypeOK
<1>11. CASE Accept(c)
  <2>1. [db EXCEPT !.quote = "ACCEPTED", !.request = "ACCEPTED"] \in Rows
    BY NewRows DEF RequestStatuses, QuoteStatuses
  <2>. QED BY <1>10, <1>11, <2>1 DEF Accept, Events
<1>12. CASE Decline(c)
  <2>1. [db EXCEPT !.quote = "DECLINED", !.request = "REJECTED"] \in Rows
    BY NewRows DEF RequestStatuses, QuoteStatuses
  <2>. QED BY <1>10, <1>12, <2>1 DEF Decline, Events
<1>13. CASE Revise(c)
  <2>1. [db EXCEPT !.quote = "REVISED"] \in Rows BY NewRows DEF QuoteStatuses
  <2>2. pending' \in [Calls -> AllOperations \union {"idle", "emit"}]
    BY <1>13 DEF Revise, TypeOK
  <2>3. Write(c, "revise", [db EXCEPT !.quote = "REVISED"]) /\ revised' \in Nat
    BY <1>13 DEF Revise, TypeOK
  <2>. QED BY <1>13, <2>1, <2>2, <2>3, WriteTypes DEF Revise, TypeOK
<1>14. CASE EmitRevision(c)
  <2>1. pending' \in [Calls -> AllOperations \union {"idle", "emit"}]
    BY <1>14 DEF EmitRevision, End, TypeOK
  <2>2. outbox' \in [Events -> Nat] BY <1>14, EmitTypes DEF EmitRevision, Events
  <2>. QED BY <1>14, <2>1, <2>2 DEF EmitRevision, TypeOK, history
<1>. QED
  BY <1>1, <1>2, <1>3, <1>4, <1>5, <1>6, <1>7, <1>8, <1>9, <1>11, <1>12, <1>13, <1>14
  DEF Transaction

\* Both databases only ever hold statuses of the Prisma enums (TypeOK), under
\* every interleaving of calls.
THEOREM TypeCorrect == Spec => []TypeOK
<1>1. Init => TypeOK
  <2> SUFFICES ASSUME Init PROVE TypeOK
    OBVIOUS
  <2>1. db \in Rows /\ replica \in Rows
    BY DEF Init, Rows, RequestStatuses, QuoteStatuses
  <2>2. lag \in Seq(Rows)
    BY DEF Init
  <2>3. pending \in [Calls -> AllOperations \union {"idle", "emit"}]
    BY DEF Init
  <2>4. outbox \in [Events -> Nat]
    BY DEF Init
  <2>. QED BY <2>1, <2>2, <2>3, <2>4 DEF Init, TypeOK
<1>2. TypeOK /\ [Next]_vars => TypeOK'
  <2> SUFFICES ASSUME TypeOK, [Next]_vars PROVE TypeOK'
    OBVIOUS
  <2>1. CASE \E c \in Calls : Transaction(c)
    BY <2>1, TransactionTypes
  <2>2. CASE \E c \in Calls : Abort(c)
    BY <2>2 DEF Abort, End, TypeOK, history
  <2>3. CASE \E c \in Calls, op \in Operations : Begin(c, op)
    BY <2>3, ConstantsAssumption DEF Begin, TypeOK, history
  <2>4. CASE Replicate
    BY <2>4 DEF Replicate, TypeOK, history
  <2>5. CASE Expire
    BY <2>5 DEF Expire, TypeOK, history
  <2>6. CASE UNCHANGED vars
    BY <2>6 DEF vars, TypeOK, history
  <2>. QED BY <2>1, <2>2, <2>3, <2>4, <2>5, <2>6 DEF Next
<1>. QED BY <1>1, <1>2, PTL DEF Spec

-----------------------------------------------------------------------------
(* A quote is decided once *)

Standing == IF Decided(db) THEN 1 ELSE 0

\* Inductive: the decision that stands, if any, is counted beside the reopened
\* and the stale ones.
DecisionInv == Decisions <= Standing + reopened + stale

\* What Write does to the counters.
LEMMA WriteCounts ==
    ASSUME TypeOK, NEW c, NEW op, NEW new, Write(c, op, new)
    PROVE  /\ reopened' \in Nat /\ stale' \in Nat
           /\ db' = new
           /\ reopened' >= reopened /\ stale' >= stale
           /\ ~Allowed(op, db) => stale' = stale + 1
           /\ Allowed(op, db) /\ Decided(db) /\ ~Decided(new) => reopened' = reopened + 1
BY DEF Write, TypeOK

\* A decision that is not stale is made on a quote nobody has decided.
LEMMA FreshDecision ==
    ASSUME NEW op \in {"accept", "decline"}, Allowed(op, db)
    PROVE  ~Decided(db)
BY DEF Allowed, CanAccept, CanDecide, Decided, DtoStatuses

LEMMA DecisionsType ==
    ASSUME TypeOK
    PROVE  Decisions \in Nat /\ reopened \in Nat /\ stale \in Nat
BY DEF TypeOK, Decisions, Events

\* Transactions that decide nothing keep the invariant.
LEMMA OtherWrites ==
    ASSUME TypeOK, DecisionInv, NEW c, NEW op, NEW new, Write(c, op, new), UNCHANGED outbox
    PROVE  DecisionInv'
<1>1. /\ reopened' \in Nat /\ stale' \in Nat
      /\ db' = new
      /\ reopened' >= reopened /\ stale' >= stale
      /\ ~Allowed(op, db) => stale' = stale + 1
      /\ Allowed(op, db) /\ Decided(db) /\ ~Decided(new) => reopened' = reopened + 1
  BY WriteCounts
<1>2. Decisions' = Decisions
  BY DEF Decisions
<1>3. Standing' = IF Decided(new) THEN 1 ELSE 0
  BY <1>1 DEF Standing, Decided
<1>4. CASE Allowed(op, db) /\ Decided(db) /\ ~Decided(new)
  BY <1>1, <1>2, <1>3, <1>4, DecisionsType DEF DecisionInv, Standing
<1>5. CASE ~Allowed(op, db)
  BY <1>1, <1>2, <1>3, <1>5, DecisionsType DEF DecisionInv, Standing
<1>6. CASE ~Decided(db) \/ Decided(new)
  BY <1>1, <1>2, <1>3, <1>6, DecisionsType DEF DecisionInv, Standing
<1>. QED BY <1>4, <1>5, <1>6

\* Transactions that decide the quote keep it too.
LEMMA DecidingWrites ==
    ASSUME TypeOK, DecisionInv, NEW c, NEW op \in {"accept", "decline"}, NEW new,
           Write(c, op, new), Decided(new),
           NEW e \in {"QUOTE_ACCEPTED", "QUOTE_DECLINED"}, Emit(e)
    PROVE  DecisionInv'
<1>1. /\ reopened' \in Nat /\ stale' \in Nat
      /\ db' = new
      /\ reopened' >= reopened /\ stale' >= stale
      /\ ~Allowed(op, db) => stale' = stale + 1
  BY WriteCounts
<1>2. Decisions' = Decisions + 1
  BY DEF Decisions, TypeOK, Events, Emit
<1>3. Standing' = 1
  BY <1>1 DEF Standing, Decided
<1>4. CASE Allowed(op, db)
  <2>1. Standing = 0
    BY <1>4, FreshDecision DEF Standing
  <2>. QED BY <1>1, <1>2, <1>3, <2>1, DecisionsType DEF DecisionInv
<1>5. CASE ~Allowed(op, db)
  <2>1. Standing \in 0 .. 1
    BY DEF Standing
  <2>. QED BY <1>1, <1>2, <1>3, <1>5, <2>1, DecisionsType DEF DecisionInv
<1>. QED BY <1>4, <1>5

\* Steps that leave the rows and the counters alone keep it.
LEMMA QuietSteps ==
    ASSUME DecisionInv, UNCHANGED <<db, stale, reopened>>, Decisions' = Decisions
    PROVE  DecisionInv'
BY DEF DecisionInv, Standing, Decided

\* Every transaction of a call keeps the invariant.
LEMMA TransactionKeepsDecisionInv ==
    ASSUME TypeOK, DecisionInv, NEW c \in Calls, Transaction(c)
    PROVE  DecisionInv'
<1>1. ASSUME NEW op, NEW new, Commit(c, op, new) PROVE DecisionInv'
  <2>1. Write(c, op, new) /\ UNCHANGED outbox
    BY <1>1 DEF Commit
  <2>. QED BY <2>1, OtherWrites
<1>2. CASE Submit(c)         BY <1>2, <1>1 DEF Submit
<1>3. CASE DeleteRequest(c)  BY <1>3, <1>1 DEF DeleteRequest
<1>4. CASE SetStatus(c)      BY <1>4, <1>1 DEF SetStatus
<1>5. CASE CreateQuote(c)    BY <1>5, <1>1 DEF CreateQuote
<1>6. CASE CreateDraft(c)    BY <1>6, <1>1 DEF CreateDraft
<1>7. CASE Send(c)           BY <1>7, <1>1 DEF Send
<1>8. CASE View(c)           BY <1>8, <1>1 DEF View
<1>9. CASE RequestChanges(c) BY <1>9, <1>1 DEF RequestChanges
<1>10. CASE DeleteQuote(c)   BY <1>10, <1>1 DEF DeleteQuote
<1>11. CASE Accept(c)
  <2>1. Decided([db EXCEPT !.quote = "ACCEPTED", !.request = "ACCEPTED"])
    BY DEF Decided, TypeOK, Rows
  <2>. QED BY <1>11, <2>1, DecidingWrites DEF Accept
<1>12. CASE Decline(c)
  <2>1. Decided([db EXCEPT !.quote = "DECLINED", !.request = "REJECTED"])
    BY DEF Decided, TypeOK, Rows
  <2>. QED BY <1>12, <2>1, DecidingWrites DEF Decline
<1>13. CASE Revise(c)
  <2>1. Write(c, "revise", [db EXCEPT !.quote = "REVISED"]) /\ UNCHANGED outbox
    BY <1>13 DEF Revise
  <2>. QED BY <2>1, OtherWrites
<1>14. CASE EmitRevision(c)
  <2>1. Decisions' = Decisions
    BY <1>14 DEF EmitRevision, Emit, TypeOK, Decisions, Events
  <2>. QED BY <1>14, <2>1, QuietSteps DEF EmitRevision, history
<1>. QED
  BY <1>2, <1>3, <1>4, <1>5, <1>6, <1>7, <1>8, <1>9, <1>10, <1>11, <1>12, <1>13, <1>14
  DEF Transaction

\* A quote is decided once; every further decision was preceded by a reopening
\* or committed on a snapshot that was no longer true (QuoteStatusService).
THEOREM QuoteIsDecidedOnce == Spec => []DecisionsExplained
<1>1. Init => DecisionInv
  BY DEF Init, DecisionInv, Decisions, Standing, Decided, Events
<1>2. TypeOK /\ DecisionInv /\ [Next]_vars => DecisionInv'
  <2> SUFFICES ASSUME TypeOK, DecisionInv, [Next]_vars PROVE DecisionInv'
    OBVIOUS
  <2>1. CASE \E c \in Calls : Transaction(c)
    BY <2>1, TransactionKeepsDecisionInv
  <2>2. CASE \/ \E c \in Calls : Abort(c) \/ \E op \in Operations : Begin(c, op)
             \/ Replicate \/ Expire \/ UNCHANGED vars
    <3>1. UNCHANGED <<db, stale, reopened, outbox>>
      BY <2>2 DEF Abort, Begin, Replicate, Expire, vars, history
    <3>. QED BY <3>1, QuietSteps DEF Decisions
  <2>. QED BY <2>1, <2>2 DEF Next
<1>3. TypeOK /\ DecisionInv => DecisionsExplained
  <2>1. Standing \in 0 .. 1
    BY DEF Standing
  <2>. QED BY <2>1, DecisionsType DEF DecisionInv, DecisionsExplained
<1>. QED BY <1>1, <1>2, <1>3, TypeCorrect, PTL DEF Spec

-----------------------------------------------------------------------------
(* The request agrees with its quote *)

\* A call may be about to commit: the primary's rows allow it, or they do but for an
\* acceptance whose quote has expired meanwhile.
MayCommit(op, v) == Allowed(op, v) \/ (op = "accept" /\ v.quote \in {"SENT", "VIEWED"})

\* The rows agree.
Agrees(v) ==
    /\ v.quote = "ACCEPTED" => v.request = "ACCEPTED"
    /\ v.quote = "DECLINED" => v.request = "REJECTED"
    /\ v.request = "ACCEPTED" => v.quote = "ACCEPTED"

\* Every write but an override keeps them so, if it may be committed and reopens nothing.
LEMMA TransactionAgrees ==
    ASSUME TypeOK, Agrees(db), NEW c \in Calls, Transaction(c), ~overrides',
           \A op, new : pending[c] = op /\ Write(c, op, new) =>
                            MayCommit(op, db) /\ (Decided(db) => Decided(new))
    PROVE  Agrees(db')
<1> USE DEF Agrees, Decided
<1>1. db \in Rows BY DEF TypeOK
<1>2. CASE Submit(c)
  <2>1. MayCommit("submit", db) /\ db' = [db EXCEPT !.request = "SUBMITTED"]
    BY <1>2 DEF Submit, Commit, Write
  <2>2. db.request \in {"DRAFT", "CHANGES_REQUESTED"}
    BY <2>1 DEF MayCommit, Allowed, CanSubmit, DtoStatuses
  <2>3. db'.quote = db.quote /\ db'.request = "SUBMITTED"
    BY <1>1, <2>1 DEF Rows
  <2>. QED BY <2>2, <2>3
<1>3. CASE DeleteRequest(c)
  BY <1>1, <1>3 DEF DeleteRequest, Commit, Write, Rows
<1>4. CASE SetStatus(c)
  BY <1>4 DEF SetStatus
<1>5. CASE CreateQuote(c)
  BY <1>1, <1>5 DEF CreateQuote, Commit, Write, Rows
<1>6. ASSUME NEW op, NEW q \in QuoteStatuses \ {"ACCEPTED", "DECLINED"},
             pending[c] = op, Write(c, op, [db EXCEPT !.quote = q])
      PROVE  Agrees(db')
  <2>1. PICK new : new = [db EXCEPT !.quote = q] OBVIOUS
  <2>2. db' = new /\ (Decided(db) => Decided(new)) BY <1>6, <2>1 DEF Write
  <2>3. new.quote = q /\ new.request = db.request BY <1>1, <2>1 DEF Rows
  <2>. QED BY <2>2, <2>3
<1>7. CASE CreateDraft(c) \/ Send(c) \/ View(c) \/ DeleteQuote(c) \/ Revise(c)
  BY <1>6, <1>7 DEF CreateDraft, Send, View, DeleteQuote, Revise, Commit, QuoteStatuses
<1>8. CASE RequestChanges(c)
  BY <1>1, <1>8 DEF RequestChanges, Commit, Write, Rows
<1>9. CASE Accept(c) \/ Decline(c)
  BY <1>1, <1>9 DEF Accept, Decline, Write, Rows
<1>10. CASE EmitRevision(c)
  BY <1>10 DEF EmitRevision
<1>. QED
  BY <1>2, <1>3, <1>4, <1>5, <1>7, <1>8, <1>9, <1>10 DEF Transaction

\* A write after which no stale commit and no reopening has happened was allowed by the
\* primary's own rows and did not reopen a decided quote.
LEMMA TransactionKeepsAgreement ==
    ASSUME TypeOK, RequestAgreesWithQuote, NEW c \in Calls, Transaction(c)
    PROVE  RequestAgreesWithQuote'
<1> SUFFICES ASSUME stale' = 0, reopened' = 0, ~overrides' PROVE Agrees(db')
  BY DEF RequestAgreesWithQuote, Agrees
<1>1. stale \in Nat /\ reopened \in Nat BY DEF TypeOK
<1>2. ASSUME NEW op, NEW new, Write(c, op, new)
      PROVE  /\ stale = 0 /\ reopened = 0
             /\ MayCommit(op, db) /\ (Decided(db) => Decided(new))
  BY <1>1, <1>2 DEF Write, MayCommit
<1>3. stale = 0 /\ reopened = 0
  <2>1. CASE EmitRevision(c) BY <2>1 DEF EmitRevision, history
  <2>2. CASE ~EmitRevision(c)
    <3>1. \E op, new : Write(c, op, new)
      BY <2>2
      DEF Transaction, Submit, DeleteRequest, SetStatus, CreateQuote, CreateDraft, Send, View,
          RequestChanges, DeleteQuote, Accept, Decline, Revise, Commit
    <3>. QED BY <1>2, <3>1
  <2>. QED BY <2>1, <2>2
<1>4. ~overrides
  BY DEF Transaction, Submit, DeleteRequest, SetStatus, CreateQuote, CreateDraft, Send, View,
         RequestChanges, DeleteQuote, Accept, Decline, Revise, EmitRevision, history
<1>5. Agrees(db) BY <1>3, <1>4 DEF RequestAgreesWithQuote, Agrees
<1>6. \A op, new : pending[c] = op /\ Write(c, op, new) =>
                       MayCommit(op, db) /\ (Decided(db) => Decided(new))
  BY <1>2
<1>. QED BY <1>5, <1>6, TransactionAgrees

\* As long as no call commits on a stale snapshot and no admin reopens the quote
\* or overrides the request's status, the two rows agree on the decision.
THEOREM RowsAgree == Spec => []RequestAgreesWithQuote
<1>1. Init => RequestAgreesWithQuote
  BY DEF Init, RequestAgreesWithQuote
<1>2. TypeOK /\ RequestAgreesWithQuote /\ [Next]_vars => RequestAgreesWithQuote'
  <2> SUFFICES ASSUME TypeOK, RequestAgreesWithQuote, [Next]_vars
               PROVE  RequestAgreesWithQuote'
    OBVIOUS
  <2>1. CASE \E c \in Calls : Transaction(c)
    BY <2>1, TransactionKeepsAgreement
  <2>2. CASE \/ \E c \in Calls : Abort(c) \/ \E op \in Operations : Begin(c, op)
             \/ Replicate \/ Expire \/ UNCHANGED vars
    <3>1. UNCHANGED <<db, history>>
      BY <2>2 DEF Abort, Begin, Replicate, Expire, vars
    <3>. QED BY <3>1 DEF RequestAgreesWithQuote, history
  <2>. QED BY <2>1, <2>2 DEF Next
<1>. QED BY <1>1, <1>2, TypeCorrect, PTL DEF Spec
-----------------------------------------------------------------------------
(* Revisions are announced *)

\* The calls between the two writes of a revision.
Emitting == {c \in Calls : pending[c] = "emit"}

Announced == outbox["QUOTE_REVISION_CREATED"] + unannounced

\* Inductive: a revision is announced, given up, or in the hands of exactly one call.
RevisionInv ==
    /\ IsFiniteSet(Emitting)
    /\ revised = Announced + Cardinality(Emitting)

\* Steps that neither revise nor announce keep it.
LEMMA OtherStepsKeepRevisions ==
    ASSUME RevisionInv, Emitting' = Emitting,
           UNCHANGED <<revised, unannounced>>,
           outbox'["QUOTE_REVISION_CREATED"] = outbox["QUOTE_REVISION_CREATED"]
    PROVE  RevisionInv'
BY DEF RevisionInv, Announced

\* A call that ends an operation of its own had nothing to announce.
LEMMA EndsQuietly ==
    ASSUME TypeOK, NEW c \in Calls, pending[c] # "emit", End(c)
    PROVE  Emitting' = Emitting
BY DEF Emitting, End, TypeOK

\* Whoever is between the two writes and leaves takes one revision with it.
LEMMA EmitterLeaves ==
    ASSUME TypeOK, RevisionInv, NEW c \in Calls, pending[c] = "emit", End(c),
           revised' = revised, Announced' = Announced + 1
    PROVE  RevisionInv'
<1>1. Emitting' = Emitting \ {c} /\ c \in Emitting
  BY DEF Emitting, End, TypeOK
<1>2. IsFiniteSet(Emitting) /\ Cardinality(Emitting) \in Nat
  BY FS_CardinalityType DEF RevisionInv
<1>3. /\ IsFiniteSet(Emitting')
      /\ Cardinality(Emitting') = Cardinality(Emitting) - 1
  BY <1>1, <1>2, FS_RemoveElement
<1>4. Announced \in Nat
  BY DEF Announced, TypeOK, Events
<1>. QED BY <1>2, <1>3, <1>4 DEF RevisionInv

LEMMA TransactionKeepsRevisions ==
    ASSUME TypeOK, RevisionInv, NEW c \in Calls, Transaction(c)
    PROVE  RevisionInv'
<1>1. ASSUME NEW op \in AllOperations, NEW new, Commit(c, op, new) PROVE RevisionInv'
  <2>1. /\ pending[c] # "emit" /\ End(c)
        /\ UNCHANGED <<revised, unannounced, outbox>>
    BY <1>1 DEF Commit, Write, AllOperations, DtoStatuses
  <2>. QED BY <2>1, EndsQuietly, OtherStepsKeepRevisions
<1>2. CASE Submit(c)         BY <1>2, <1>1 DEF Submit, AllOperations
<1>3. CASE DeleteRequest(c)  BY <1>3, <1>1 DEF DeleteRequest, AllOperations
<1>4. CASE SetStatus(c)      BY <1>4, <1>1 DEF SetStatus, AllOperations
<1>5. CASE CreateQuote(c)    BY <1>5, <1>1 DEF CreateQuote, AllOperations
<1>6. CASE CreateDraft(c)    BY <1>6, <1>1 DEF CreateDraft, AllOperations
<1>7. CASE Send(c)           BY <1>7, <1>1 DEF Send, AllOperations
<1>8. CASE View(c)           BY <1>8, <1>1 DEF View, AllOperations
<1>9. CASE RequestChanges(c) BY <1>9, <1>1 DEF RequestChanges, AllOperations
<1>10. CASE DeleteQuote(c)   BY <1>10, <1>1 DEF DeleteQuote, AllOperations
<1>11. CASE Accept(c) \/ Decline(c)
  <2>1. /\ pending[c] # "emit" /\ End(c)
        /\ UNCHANGED <<revised, unannounced>>
    BY <1>11 DEF Accept, Decline, Write
  <2>2. outbox'["QUOTE_REVISION_CREATED"] = outbox["QUOTE_REVISION_CREATED"]
    BY <1>11 DEF Accept, Decline, Emit, TypeOK, Events
  <2>. QED BY <2>1, <2>2, EndsQuietly, OtherStepsKeepRevisions
<1>12. CASE Revise(c)
  <2>1. Emitting' = Emitting \union {c} /\ c \notin Emitting
    BY <1>12 DEF Revise, Emitting, TypeOK
  <2>2. IsFiniteSet(Emitting) /\ Cardinality(Emitting) \in Nat
    BY FS_CardinalityType DEF RevisionInv
  <2>3. /\ IsFiniteSet(Emitting')
        /\ Cardinality(Emitting') = Cardinality(Emitting) + 1
    BY <2>1, <2>2, FS_AddElement
  <2>4. Announced' = Announced /\ revised' = revised + 1
    BY <1>12 DEF Revise, Write, Announced
  <2>5. Announced \in Nat
    BY DEF Announced, TypeOK, Events
  <2>. QED BY <2>2, <2>3, <2>4, <2>5 DEF RevisionInv
<1>13. CASE EmitRevision(c)
  <2>1. pending[c] = "emit" /\ End(c) /\ revised' = revised
    BY <1>13 DEF EmitRevision, history
  <2>2. Announced' = Announced + 1
    BY <1>13 DEF EmitRevision, Emit, Announced, TypeOK, Events, history
  <2>. QED BY <2>1, <2>2, EmitterLeaves
<1>. QED
  BY <1>2, <1>3, <1>4, <1>5, <1>6, <1>7, <1>8, <1>9, <1>10, <1>11, <1>12, <1>13
  DEF Transaction

\* The event of a revision (RevisionService.createRevision) is missing only while
\* its call is between the two writes, or because the call died there.
THEOREM RevisionsAreAnnounced == Spec => []RevisionsAnnounced
<1>1. Init => RevisionInv
  <2> SUFFICES ASSUME Init PROVE RevisionInv
    OBVIOUS
  <2>1. Emitting = {}
    BY DEF Init, Emitting
  <2>. QED BY <2>1, FS_EmptySet DEF Init, RevisionInv, Announced, Events
<1>2. TypeOK /\ RevisionInv /\ [Next]_vars => RevisionInv'
  <2> SUFFICES ASSUME TypeOK, RevisionInv, [Next]_vars PROVE RevisionInv'
    OBVIOUS
  <2>1. CASE \E c \in Calls : Transaction(c)
    BY <2>1, TransactionKeepsRevisions
  <2>2. CASE \E c \in Calls : Abort(c)
    <3>1. PICK c \in Calls : Abort(c)
      BY <2>2
    <3>2. CASE pending[c] = "emit"
      <4>1. End(c) /\ revised' = revised /\ Announced' = Announced + 1
        BY <3>1, <3>2 DEF Abort, Announced, TypeOK, Events, history
      <4>. QED BY <3>2, <4>1, EmitterLeaves
    <3>3. CASE pending[c] # "emit"
      <4>1. End(c) /\ UNCHANGED <<revised, unannounced, outbox>>
        BY <3>1, <3>3 DEF Abort, history
      <4>. QED BY <3>3, <4>1, EndsQuietly, OtherStepsKeepRevisions
    <3>. QED BY <3>2, <3>3
  <2>3. CASE \E c \in Calls, op \in Operations : Begin(c, op)
    <3>1. Emitting' = Emitting
      BY <2>3, ConstantsAssumption
      DEF Begin, Emitting, TypeOK, AllOperations, DtoStatuses
    <3>. QED BY <2>3, <3>1, OtherStepsKeepRevisions DEF Begin, history
  <2>4. CASE Replicate \/ Expire \/ UNCHANGED vars
    <3>1. Emitting' = Emitting
      BY <2>4 DEF Replicate, Expire, vars, Emitting
    <3>. QED BY <2>4, <3>1, OtherStepsKeepRevisions DEF Replicate, Expire, vars, history
  <2>. QED BY <2>1, <2>2, <2>3, <2>4 DEF Next
<1>3. TypeOK /\ RevisionInv => RevisionsAnnounced
  <2> SUFFICES ASSUME TypeOK, RevisionInv, revised > Announced
               PROVE  \E c \in Calls : pending[c] = "emit"
    BY DEF RevisionsAnnounced, Announced
  <2>1. CASE Emitting = {}
    <3>1. Cardinality(Emitting) = 0
      BY <2>1, FS_EmptySet
    <3>2. Announced \in Nat
      BY DEF Announced, TypeOK, Events
    <3>. QED BY <3>1, <3>2 DEF RevisionInv
  <2>2. CASE Emitting # {}
    BY <2>2 DEF Emitting
  <2>. QED BY <2>1, <2>2
<1>. QED BY <1>1, <1>2, <1>3, TypeCorrect, PTL DEF Spec
-----------------------------------------------------------------------------
(* One call at a time, on the primary *)

\* No replica is configured and calls do not overlap.
OneAtATime == MaxLag = 0 /\ \A c, d \in Calls : c = d

\* Then a call commits on the rows it was checked on, and stale commits, which only an
\* expiry can bring about, neither decide a quote again nor make the rows disagree.
SerialInv ==
    /\ lag = <<>> /\ replica = db
    /\ \A c \in Calls : pending[c] \notin {"idle", "emit"} => MayCommit(pending[c], db)
    /\ Decisions <= Standing + reopened
    /\ reopened = 0 /\ ~overrides => Agrees(db)

\* A transaction either writes the rows under its own name or only an event.
LEMMA TransactionWrites ==
    ASSUME TypeOK, NEW c \in Calls, Transaction(c), ~EmitRevision(c)
    PROVE  /\ \E new : Write(c, pending[c], new)
           /\ pending[c] \notin {"idle", "emit"} /\ pending'[c] \in {"idle", "emit"}
           /\ Accept(c) \/ Decline(c) \/ (pending[c] # "accept" /\ UNCHANGED outbox)
<1>0. pending \in [Calls -> AllOperations \union {"idle", "emit"}] BY DEF TypeOK
<1>1. ASSUME NEW op, op \notin {"idle", "emit", "accept"}, NEW new, Commit(c, op, new)
      PROVE  /\ Write(c, pending[c], new) /\ UNCHANGED outbox
             /\ pending[c] = op /\ pending'[c] = "idle"
  BY <1>0, <1>1 DEF Commit, End
<1>2. CASE \/ Submit(c) \/ DeleteRequest(c) \/ CreateQuote(c) \/ CreateDraft(c) \/ Send(c)
           \/ View(c) \/ RequestChanges(c) \/ DeleteQuote(c)
  <2>1. PICK op, new : op \notin {"idle", "emit", "accept"} /\ Commit(c, op, new)
    BY <1>2
    DEF Submit, DeleteRequest, CreateQuote, CreateDraft, Send, View, RequestChanges, DeleteQuote
  <2>2. QED BY <1>1, <2>1
<1>3. CASE SetStatus(c)
  <2>1. PICK s \in DtoStatuses : Commit(c, s, [db EXCEPT !.request = DbStatus(s)])
    BY <1>3 DEF SetStatus
  <2>2. s \notin {"idle", "emit", "accept"} BY DEF DtoStatuses
  <2>3. QED BY <1>1, <2>1, <2>2
<1>4. CASE Accept(c) \/ Decline(c)
  BY <1>0, <1>4 DEF Accept, Decline, End
<1>5. CASE Revise(c)
  BY <1>0, <1>5 DEF Revise
<1>6. QED BY <1>2, <1>3, <1>4, <1>5 DEF Transaction

LEMMA SerialTransaction ==
    ASSUME OneAtATime, TypeOK, SerialInv, NEW c \in Calls, Transaction(c), ~EmitRevision(c)
    PROVE  SerialInv'
<1>1. PICK new : Write(c, pending[c], new) BY TransactionWrites
<1>2. db' = new /\ lag' = <<>> /\ replica' = db' BY <1>1 DEF Write, OneAtATime, SerialInv
<1>3. MayCommit(pending[c], db) BY TransactionWrites DEF SerialInv
<1>4. \A d \in Calls : pending'[d] \in {"idle", "emit"} BY TransactionWrites DEF OneAtATime
<1>5. /\ reopened \in Nat /\ reopened' \in Nat /\ reopened' >= reopened
      /\ Allowed(pending[c], db) /\ Decided(db) /\ ~Decided(new) => reopened' = reopened + 1
  BY <1>1, WriteCounts, DecisionsType
<1>6. pending[c] = "accept" => ~Decided(db)
  BY <1>3 DEF MayCommit, Allowed, CanAccept, Decided, DtoStatuses
<1>7. Decisions' <= Standing' + reopened'
  <2>1. Decisions \in Nat /\ Decisions <= Standing + reopened BY DecisionsType DEF SerialInv
  <2>2. Standing' = IF Decided(new) THEN 1 ELSE 0 BY <1>2 DEF Standing, Decided
  <2>3. CASE Accept(c) \/ Decline(c)
    <3>1. ~Decided(db)
      BY <1>3, <1>6, <2>3
      DEF Accept, Decline, MayCommit, Allowed, CanDecide, Decided, DtoStatuses
    <3>2. Decided(db') BY <2>3 DEF Accept, Decline, Write, TypeOK, Rows, Decided
    <3>3. Decisions' = Decisions + 1
      BY <2>3 DEF Accept, Decline, Emit, Decisions, TypeOK, Events
    <3>4. Standing = 0 /\ Standing' = 1 BY <1>2, <2>2, <3>1, <3>2 DEF Standing
    <3>5. PICK r \in Nat : r = reopened' /\ r >= reopened BY <1>5
    <3>6. PICK d \in Nat : d = Decisions /\ d <= reopened BY <2>1, <3>4, DecisionsType
    <3>7. d <= r BY <1>5, <3>5, <3>6
    <3>8. d + 1 <= 1 + r BY <3>7
    <3>9. QED BY <3>3, <3>4, <3>5, <3>6, <3>8
  <2>4. CASE pending[c] # "accept" /\ UNCHANGED outbox
    <3>1. Decisions' = Decisions /\ Allowed(pending[c], db) BY <1>3, <2>4 DEF Decisions, MayCommit
    <3>2. CASE Decided(db) /\ ~Decided(new)
      BY <1>5, <2>1, <2>2, <3>1, <3>2 DEF Standing
    <3>3. CASE ~Decided(db) \/ Decided(new)
      <4>1. PICK r \in Nat : r = reopened' /\ r >= reopened BY <1>5
      <4>2. PICK r0 \in Nat : r0 = reopened /\ r0 <= r BY <1>5, <4>1
      <4>3. PICK s \in 0..1 : s = Standing' /\ Standing \in 0..1 /\ Standing <= s
        BY <2>2, <3>3 DEF Standing
      <4>4. PICK s0 \in 0..1 : s0 = Standing /\ s0 <= s BY <4>3
      <4>5. PICK d \in Nat : d = Decisions /\ d <= s0 + r0 BY <2>1, <4>2, <4>4
      <4>6. d <= s + r BY <4>2, <4>4, <4>5
      <4>7. QED BY <3>1, <4>1, <4>3, <4>5, <4>6
    <3>4. QED BY <3>2, <3>3
  <2>5. QED BY <2>3, <2>4, TransactionWrites
<1>8. ASSUME reopened' = 0, ~overrides' PROVE Agrees(db')
  <2>1. reopened = 0 BY <1>5, <1>8
  <2>2. ~overrides
    BY <1>8
    DEF Transaction, Submit, DeleteRequest, SetStatus, CreateQuote, CreateDraft, Send, View,
        RequestChanges, DeleteQuote, Accept, Decline, Revise, EmitRevision, history
  <2>3. Agrees(db) BY <2>1, <2>2 DEF SerialInv
  <2>4. ASSUME NEW op, NEW row, pending[c] = op, Write(c, op, row)
        PROVE  MayCommit(op, db) /\ (Decided(db) => Decided(row))
    <3>1. row = new BY <1>2, <2>4 DEF Write
    <3>2. Decided(db) => Allowed(op, db) BY <1>3, <1>6, <2>4 DEF MayCommit
    <3>3. QED BY <1>3, <1>5, <1>8, <2>1, <2>4, <3>1, <3>2
  <2>5. \A op, row : pending[c] = op /\ Write(c, op, row) =>
                         MayCommit(op, db) /\ (Decided(db) => Decided(row))
    BY <2>4
  <2>6. QED BY <1>8, <2>3, <2>5, TransactionAgrees
<1>9. QED BY <1>2, <1>4, <1>7, <1>8 DEF SerialInv, Agrees

LEMMA SerialStep ==
    ASSUME OneAtATime, TypeOK, SerialInv, [Next]_vars
    PROVE  SerialInv'
<1>0. pending \in [Calls -> AllOperations \union {"idle", "emit"}] /\ replica = db
  BY DEF TypeOK, SerialInv
<1>1. ASSUME UNCHANGED <<db, replica, lag, reopened, overrides>>, Decisions' = Decisions,
             \A c \in Calls : pending'[c] \notin {"idle", "emit"} => MayCommit(pending[c], db)'
      PROVE  SerialInv'
  BY <1>1 DEF SerialInv, Standing, Decided, Agrees
<1>2. ASSUME NEW c \in Calls, NEW op \in Operations, Begin(c, op) PROVE SerialInv'
  <2>1. Allowed(op, db) /\ pending'[c] = op BY <1>0, <1>2 DEF Begin, Sees
  <2>2. UNCHANGED <<db, replica, lag, expired, reopened, overrides, outbox>>
    BY <1>2 DEF Begin, history
  <2>3. MayCommit(op, db)'
    BY <2>1, <2>2
    DEF MayCommit, Allowed, CanSubmit, CanDelete, CanSetStatus, CanQuote, CanView, CanAccept,
        CanDecide, Decided, QuoteExists
  <2>4. \A d \in Calls : d = c BY DEF OneAtATime
  <2>5. QED BY <1>1, <2>1, <2>2, <2>3, <2>4 DEF Decisions
<1>3. ASSUME NEW c \in Calls, EmitRevision(c) \/ Abort(c) PROVE SerialInv'
  <2>1. pending'[c] = "idle" BY <1>0, <1>3 DEF EmitRevision, Abort, End
  <2>2. UNCHANGED <<db, replica, lag, reopened, overrides>>
    BY <1>3 DEF EmitRevision, Abort, history
  <2>3. Decisions' = Decisions
    BY <1>3 DEF EmitRevision, Abort, Emit, TypeOK, Decisions, Events
  <2>4. \A d \in Calls : d = c BY DEF OneAtATime
  <2>5. QED BY <1>1, <2>1, <2>2, <2>3, <2>4
<1>4. CASE Expire
  <2>1. UNCHANGED <<db, replica, lag, pending, reopened, overrides, outbox>>
    BY <1>4 DEF Expire, history
  <2>2. ASSUME NEW c \in Calls, pending'[c] \notin {"idle", "emit"}
        PROVE  MayCommit(pending[c], db)'
    <3>1. MayCommit(pending[c], db) BY <2>1, <2>2 DEF SerialInv
    <3>2. CASE pending[c] = "accept"
      <4>1. db.quote \in {"SENT", "VIEWED"}
        BY <3>1, <3>2 DEF MayCommit, Allowed, CanAccept, DtoStatuses
      <4>2. QED BY <2>1, <3>2, <4>1 DEF MayCommit
    <3>3. CASE pending[c] # "accept"
      BY <2>1, <3>1, <3>3
      DEF MayCommit, Allowed, CanSubmit, CanDelete, CanSetStatus, CanQuote, CanView,
          CanDecide, Decided, QuoteExists
    <3>4. QED BY <3>2, <3>3
  <2>3. QED BY <1>1, <2>1, <2>2 DEF Decisions
<1>5. ASSUME NEW c \in Calls, Transaction(c), ~EmitRevision(c) PROVE SerialInv'
  BY <1>5, SerialTransaction
<1>6. CASE Replicate BY <1>6 DEF Replicate, SerialInv
<1>7. CASE UNCHANGED vars
  <2>1. UNCHANGED <<db, replica, lag, expired, pending, reopened, overrides, outbox>>
    BY <1>7 DEF vars, history
  <2>2. ASSUME NEW c \in Calls, pending'[c] \notin {"idle", "emit"}
        PROVE  MayCommit(pending[c], db)'
    <3>1. MayCommit(pending[c], db) BY <2>1, <2>2 DEF SerialInv
    <3>2. QED
      BY <2>1, <3>1
      DEF MayCommit, Allowed, CanSubmit, CanDelete, CanSetStatus, CanQuote, CanView, CanAccept,
          CanDecide, Decided, QuoteExists
  <2>3. QED BY <1>1, <2>1, <2>2 DEF Decisions
<1>8. QED BY <1>2, <1>3, <1>4, <1>5, <1>6, <1>7 DEF Next

\* Stale commits, as an excuse for deciding a quote again or for rows that disagree,
\* take a replica that is behind or a second call in progress: without, only an admin
\* who reopens the quote brings about another decision, and only that or an override
\* makes the rows disagree (QuoteStatusService).
THEOREM OneCallDecidesOnce ==
    ASSUME OneAtATime
    PROVE  Spec => []/\ Decisions <= 1 + reopened
                     /\ reopened = 0 /\ ~overrides => Agrees(db)
<1> DEFINE Once == /\ Decisions <= 1 + reopened
                   /\ reopened = 0 /\ ~overrides => Agrees(db)
<1>1. Init => SerialInv
  BY DEF Init, SerialInv, Decisions, Standing, Decided, Events, Agrees
<1>2. TypeOK /\ SerialInv /\ [Next]_vars => SerialInv'
  BY SerialStep
<1>3. TypeOK /\ SerialInv => Once
  <2>1. Standing \in 0..1 BY DEF Standing
  <2>2. QED BY <2>1, DecisionsType DEF SerialInv
<1>4. QED BY <1>1, <1>2, <1>3, TypeCorrect, PTL DEF Spec
=============================================================================
