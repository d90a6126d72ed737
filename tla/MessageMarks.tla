---------------------------- MODULE MessageMarks ----------------------------
(***************************************************************************)
(* One message of the messaging service.  Its read receipts are a JSON     *)
(* list in one column, its reactions one in another, and a pin or a        *)
(* moderator's flag is a property that is set on the value of that second  *)
(* column.  Each call reads the row from the replica and later writes the  *)
(* columns it is about back whole, by id, on the primary.                  *)
(*                                                                         *)
(* Emojis are left out: a reaction is the user's one reaction with one     *)
(* emoji.  A call that its check rejects, or that has nothing to write,    *)
(* changes nothing and is not modelled.                                    *)
(***************************************************************************)
EXTENDS Integers, Sequences, FiniteSets

CONSTANTS
    Users,      \* members of the project, who read and react
    Sender,     \* the user who sent the message
    Calls,      \* HTTP calls that can be in progress at once
    MaxLag,     \* commits the replica may be behind; 0: no replica configured
    MaxCommits  \* bound on commits

ASSUME MarksAssumption ==
    /\ Sender \in Users
    /\ MaxLag \in Nat
    /\ MaxCommits \in Nat

Labels == {"pinned", "flagged"}

ASSUME LabelsAreNotUsers == Labels \cap Users = {}

\* The JSON value of Message.reactions: null, a list of reactions, or an object
\* that pinMessage or flagMessage made.
JsonValues == [shape : {"null", "list", "object"}, items : SUBSET (Users \union Labels)]

Rows == [state : {"unsent", "live", "deleted", "purged"}, content : BOOLEAN,
         readBy : SUBSET Users, reactions : JsonValues]

Operations == {"read", "react", "pin", "unpin", "flag", "edit", "delete"}

VARIABLES
    db,          \* the row on the primary
    replica,     \* the row on the read replica
    lag,         \* committed versions the replica has not applied yet, oldest first
    call,        \* each call that has read its snapshot: what it will do with it
    commits,     \* transactions committed (bounded)
    readers,     \* users whose receipt was confirmed (history)
    reactors,    \* users who reacted and did not take it back (history)
    labels,      \* pins and flags confirmed and not taken back (history)
    toggles,     \* reaction writes (history)
    staleReads,  \* receipt writes from a list that was no longer the primary's (history)
    staleMarks,  \* the same of reactions, pins and flags (history)
    staleEdits   \* edits of a row deleted since the edit was checked (history)

wishes  == <<readers, reactors, labels, toggles>>
mishaps == <<staleReads, staleMarks, staleEdits>>
marksVars == <<db, replica, lag, call, commits, wishes, mishaps>>

None == [op |-> "none"]

Null == [shape |-> "null", items |-> {}]

Unsent == [state |-> "unsent", content |-> FALSE, readBy |-> {}, reactions |-> Null]

MarksInit ==
    /\ db = Unsent /\ replica = Unsent /\ lag = <<>>
    /\ call = [c \in Calls |-> None]
    /\ commits = 0
    /\ readers = {} /\ reactors = {} /\ labels = {} /\ toggles = 0
    /\ staleReads = 0 /\ staleMarks = 0 /\ staleEdits = 0

Found(row) == row.state \in {"live", "deleted"}

Flip(S, x) == IF x \in S THEN S \ {x} ELSE S \union {x}

-----------------------------------------------------------------------------
(* The JSON column *)

\* Array.isArray(message.reactions) ? message.reactions : []
ListOf(v) == IF v.shape = "list" THEN v.items ELSE {}

LabelsOf(v) == IF v.shape = "object" THEN v.items ELSE {}

\* Mutant: the reaction that is found is not taken out.
ToggledOn(v, u) == [shape |-> "list", items |-> ListOf(v) \union {u}]

\* toggleReaction: whatever is not a list is taken for an empty one.
Toggled(v, u) == [shape |-> "list", items |-> Flip(ListOf(v), u)]

\* Mutant: the object is made anew.
LabelledAnew(v, l) == IF v.shape = "list" THEN v ELSE [shape |-> "object", items |-> {l}]

\* (message.reactions || {})[l] = true.  A property that is set on an array is
\* not part of its JSON: the list is stored as it was.
Labelled(v, l) ==
    IF v.shape = "list" THEN v ELSE [shape |-> "object", items |-> v.items \union {l}]

Unpinned(v) == [v EXCEPT !.items = @ \ {"pinned"}]

-----------------------------------------------------------------------------
(* The first half of a call: findUnique on the replica, and the checks *)

\* Mutant: any message can be edited.
CanEditDeleted(row, u) == Found(row) /\ u = Sender

CanEdit(row, u) == Found(row) /\ u = Sender /\ row.state # "deleted"

CanDelete(row, u) == Found(row) /\ u = Sender

\* A user who is in the list already has nothing to write.
CanRead(row, u) == Found(row) /\ u \notin row.readBy

CanUnpin(row) == Found(row) /\ "pinned" \in LabelsOf(row.reactions)

Allowed(op, u, row) ==
    \/ op = "read" /\ CanRead(row, u)
    \/ op \in {"react", "pin", "flag"} /\ Found(row)
    \/ op = "unpin" /\ CanUnpin(row)
    \/ op = "edit" /\ CanEdit(row, u)
    \/ op = "delete" /\ CanDelete(row, u)

Begin(c, op, u) ==
    /\ call[c] = None
    /\ Allowed(op, u, replica)
    /\ call' = [call EXCEPT ![c] = [op |-> op, user |-> u, seen |-> replica]]
    /\ UNCHANGED <<db, replica, lag, commits, wishes, mishaps>>

-----------------------------------------------------------------------------
(* The second half: the update on the primary *)

Write(row) ==
    /\ commits < MaxCommits
    /\ commits' = commits + 1
    /\ db' = row
    /\ IF MaxLag = 0
       THEN replica' = row /\ UNCHANGED lag
       ELSE Len(lag) < MaxLag /\ lag' = Append(lag, row) /\ UNCHANGED replica

\* The update of a row that is still there; it names the row by its id alone.
Update(c, op, row) ==
    /\ call[c] # None
    /\ call[c].op = op
    /\ Found(db)
    /\ Write(row)
    /\ call' = [call EXCEPT ![c] = None]

Seen(c) == call[c].seen

WriteMarks(c, op, value) ==
    /\ Update(c, op, [db EXCEPT !.reactions = value])
    /\ staleMarks' = IF Seen(c).reactions = db.reactions THEN staleMarks ELSE staleMarks + 1
    /\ UNCHANGED <<readers, staleReads, staleEdits>>

\* Mutant: the list is written with the new receipt alone.
MarkAsReadAlone(c) ==
    /\ Update(c, "read", [db EXCEPT !.readBy = {call[c].user}])
    /\ readers' = readers \union {call[c].user}
    /\ staleReads' = IF Seen(c).readBy = db.readBy THEN staleReads ELSE staleReads + 1
    /\ UNCHANGED <<reactors, labels, toggles, staleMarks, staleEdits>>

\* markAsRead, and each row of markProjectMessagesAsRead.
MarkAsRead(c) ==
    /\ Update(c, "read", [db EXCEPT !.readBy = Seen(c).readBy \union {call[c].user}])
    /\ readers' = readers \union {call[c].user}
    /\ staleReads' = IF Seen(c).readBy = db.readBy THEN staleReads ELSE staleReads + 1
    /\ UNCHANGED <<reactors, labels, toggles, staleMarks, staleEdits>>

ToggleReaction(c) ==
    /\ WriteMarks(c, "react", Toggled(Seen(c).reactions, call[c].user))
    /\ reactors' = Flip(reactors, call[c].user)
    /\ toggles' = toggles + 1
    /\ UNCHANGED labels

PinMessage(c) ==
    /\ WriteMarks(c, "pin", Labelled(Seen(c).reactions, "pinned"))
    /\ labels' = labels \union {"pinned"}
    /\ UNCHANGED <<reactors, toggles>>

UnpinMessage(c) ==
    /\ WriteMarks(c, "unpin", Unpinned(Seen(c).reactions))
    /\ labels' = labels \ {"pinned"}
    /\ UNCHANGED <<reactors, toggles>>

FlagMessage(c) ==
    /\ WriteMarks(c, "flag", Labelled(Seen(c).reactions, "flagged"))
    /\ labels' = labels \union {"flagged"}
    /\ UNCHANGED <<reactors, toggles>>

UpdateMessage(c) ==
    /\ Update(c, "edit", [db EXCEPT !.content = TRUE])
    /\ staleEdits' = IF Seen(c).state # db.state THEN staleEdits + 1 ELSE staleEdits
    /\ UNCHANGED <<wishes, staleReads, staleMarks>>

DeleteMessage(c) ==
    /\ Update(c, "delete", [db EXCEPT !.state = "deleted", !.content = FALSE])
    /\ UNCHANGED <<wishes, mishaps>>

\* The update throws because the row was purged, or the process dies.
Abort(c) ==
    /\ call[c] # None
    /\ call' = [call EXCEPT ![c] = None]
    /\ UNCHANGED <<db, replica, lag, commits, wishes, mishaps>>

-----------------------------------------------------------------------------
(* Operations of one statement *)

\* sendMessage, which writes the sender's own receipt with the row.
SendMessage ==
    /\ db.state = "unsent"
    /\ Write([Unsent EXCEPT !.state = "live", !.content = TRUE, !.readBy = {Sender}])
    /\ readers' = {Sender}
    /\ UNCHANGED <<call, reactors, labels, toggles, mishaps>>

\* An admin's system message: nobody has read it.
BroadcastSystemMessage ==
    /\ db.state = "unsent"
    /\ Write([Unsent EXCEPT !.state = "live", !.content = TRUE])
    /\ UNCHANGED <<call, wishes, mishaps>>

\* An admin's forced deletion removes the row.
Purge ==
    /\ Found(db)
    /\ Write([Unsent EXCEPT !.state = "purged"])
    /\ UNCHANGED <<call, wishes, mishaps>>

\* The replica applies the oldest commit it lacks.
Replicate ==
    /\ lag # <<>>
    /\ replica' = Head(lag) /\ lag' = Tail(lag)
    /\ UNCHANGED <<db, call, commits, wishes, mishaps>>

MarksNext ==
    \/ \E c \in Calls :
        \/ \E op \in Operations, u \in Users : Begin(c, op, u)
        \/ MarkAsRead(c) \/ ToggleReaction(c) \/ PinMessage(c) \/ UnpinMessage(c)
        \/ FlagMessage(c) \/ UpdateMessage(c) \/ DeleteMessage(c) \/ Abort(c)
    \/ SendMessage \/ BroadcastSystemMessage \/ Purge
    \/ Replicate

MarksSpec == MarksInit /\ [][MarksNext]_marksVars

-----------------------------------------------------------------------------
(* Properties *)

\* Types; receipts are users, a list holds users and an object labels.
MarksTypeOK ==
    /\ db \in Rows /\ replica \in Rows /\ lag \in Seq(Rows)
    /\ call \in [Calls -> {None} \union [op : Operations, user : Users, seen : Rows]]
    /\ ListOf(db.reactions) \subseteq Users /\ LabelsOf(db.reactions) \subseteq Labels
    /\ readers \subseteq Users /\ reactors \subseteq Users /\ labels \subseteq Labels
    /\ {commits, toggles, staleReads, staleMarks, staleEdits} \subseteq Nat

\* A confirmed read receipt stays, whatever else happens to the message, until
\* another receipt is written from a list that lacks it: pins, reactions, edits
\* and deletions never cost a receipt.
ReceiptsAreKept == Found(db) /\ staleReads = 0 => readers = db.readBy

\* As long as nothing was written from an old value of the column, the reactions
\* are exactly those asked for, also when the message was pinned or flagged in
\* between; and as long as nobody ever reacted, so are the pin and the flag.
\* (After a reaction they are not: it replaces the object by a list, and on a
\* list a pin or a flag is confirmed but not stored.)
MarksAreExact ==
    Found(db) /\ staleMarks = 0 =>
        /\ ListOf(db.reactions) = reactors
        /\ toggles = 0 => LabelsOf(db.reactions) = labels

\* The content of a deleted message stays gone, unless an edit was let in by a
\* snapshot from before the deletion (updateMessage, deleteMessage).
DeletedStaysEmpty ==
    db.state = "deleted" /\ staleEdits = 0 => ~db.content
=============================================================================
