-------------------------- MODULE MCQuoteLifecycle --------------------------
(* Small instances of QuoteLifecycle for TLC. *)
EXTENDS QuoteLifecycle, TLC

CONSTANTS c1, c2

CallSymmetry == Permutations({c1, c2})

\* Every operation, with three of the eight statuses an admin can set.
MostOperations ==
    {"submit", "delete", "adminDelete", "quote", "draftQuote", "send", "view", "accept",
     "decline", "changes", "revise", "drop", "submitted", "underReview", "accepted"}

ClientAccepts == {"quote", "send", "accept"}
=============================================================================
