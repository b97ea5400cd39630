----------------------------- MODULE PretixApi -----------------------------
(***************************************************************************)
(* What the platform can observe of one pretix order over pretix's REST    *)
(* API.  pretix is an external service: these operators model it as the    *)
(* adapters under lib/pretix use it.                                       *)
(*                                                                         *)
(* Every call returns the set of its outcomes, pairs of the reply the      *)
(* platform sees and the status the order has afterwards.  "ok" is a 2xx;  *)
(* "invalid" a 400 (PretixValidationError: pretix refused, nothing         *)
(* changed); "error" anything else - a 5xx, a connection failure or the    *)
(* client's 10 s timeout - after which pretix may or may not have acted.   *)
(***************************************************************************)

\* PretixOrderStatus without "r", which pretix no longer assigns:
\* pending (n), paid (p), expired (e), canceled (c).
OrderStatus == {"n", "p", "e", "c"}

\* A 2xx; a 400 with details; any other status, no answer in time, no connection.
Reply == {"ok", "invalid", "error"}

\* Call s moves to t, with or without the reply reaching us.
Moves(s, t) == {[reply |-> "ok",    status |-> t],
                [reply |-> "error", status |-> t]}

Refused(s) == {[reply |-> "invalid", status |-> s]}

Unreachable(s) == {[reply |-> "error", status |-> s]}

\* POST .../mark_paid/: pending and expired orders can be paid; any order can
\* be refused (a paid or canceled one always, a pending one for lack of quota).
MarkPaidOutcomes(s) ==
    Unreachable(s) \cup Refused(s)
        \cup (IF s \in {"n", "e"} THEN Moves(s, "p") ELSE {})

\* POST .../mark_canceled/: a canceled order is always refused, any other may be.
CancelOutcomes(s) ==
    Unreachable(s) \cup Refused(s)
        \cup (IF s # "c" THEN Moves(s, "c") ELSE {})

\* POST .../checkinlists/<list>/positions/<secret>/redeem/: accepted once per
\* list for a paid order; a refusal is surfaced as a reply, not thrown.
Redeemable(s, alreadyRedeemed) == s = "p" /\ ~alreadyRedeemed
=============================================================================
