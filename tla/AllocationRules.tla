--------------------------- MODULE AllocationRules ---------------------------
(***************************************************************************)
(* The arithmetic of budget allocation: allocation_validator.py and the    *)
(* percentage recompute of allocation_service.py.  Amounts are whole paise,*)
(* percentages whole hundredths of a percent, so every rounding to two     *)
(* decimals of the code is a rounding to an integer here.                  *)
(*                                                                         *)
(* A child is [amount, pct, used]; a request maps the children it lists to *)
(* [type, value], type PERCENTAGE or FIXED.                                *)
(***************************************************************************)
EXTENDS Integers, FiniteSets, FiniteSetsExt

Unset == -1
Hundred == 10000

HalfUp(n, d) == (2 * n + d) \div (2 * d)

HalfEven(n, d) ==
    LET q == n \div d
        r == 2 * (n % d)
    IN  IF r > d \/ (r = d /\ q % 2 = 1) THEN q + 1 ELSE q

\* NULL reads as zero ("or _ZERO").
OrZero(x) == IF x = Unset THEN 0 ELSE x

Total(f, S) == MapThenSumSet(LAMBDA x : f[x], S)

\* The other half of a request row, computed from the half that was given.
Convert(input, parent) ==
    IF input.type = "FIXED"
    THEN [amount |-> input.value,
          pct |-> IF parent = 0 THEN 0 ELSE HalfUp(input.value * Hundred, parent)]
    ELSE [amount |-> HalfUp(parent * input.value, Hundred), pct |-> input.value]

\* Mistake: only the rows of the request are summed.
ResolveCodeListed(parent, children, request) ==
    LET asked == [c \in DOMAIN request |-> Convert(request[c], parent).amount]
    IN  IF Total(asked, DOMAIN request) > parent THEN "ALLOCATION_TOTAL_EXCEEDED" ELSE "ok"

\* What resolve_level answers: "ok", or the code of the error it raises.
ResolveCode(parent, children, request) ==
    LET listed == DOMAIN request
        kids == DOMAIN children
        asked == [c \in listed |-> Convert(request[c], parent).amount]
        explicitTotal == Total(asked, listed)
        unlisted == [c \in kids \ listed |-> children[c].amount]
        spent == [c \in kids |-> children[c].used]
    IN  IF ~(listed \subseteq kids) THEN "NOT_FOUND"
        ELSE IF Total(spent, kids) > parent THEN "BUDGET_OVERCOMMITTED"
        ELSE IF \E c \in listed : asked[c] < children[c].used /\ asked[c] # children[c].amount
        THEN "ALLOCATION_BELOW_CONSUMED"
        ELSE IF explicitTotal > parent THEN "ALLOCATION_TOTAL_EXCEEDED"
        ELSE IF explicitTotal + Total(unlisted, kids \ listed) > parent + Cardinality(kids)
        THEN "ALLOCATION_TOTAL_EXCEEDED"
        ELSE "ok"

\* Every listed child as resolve_level resolves it; an unchanged one is not
\* persisted, its stored percentage included.
Resolved(parent, children, request) ==
    [c \in DOMAIN children |->
        IF c \in DOMAIN request /\ Convert(request[c], parent).amount # children[c].amount
        THEN Convert(request[c], parent)
        ELSE [amount |-> children[c].amount, pct |-> children[c].pct]]

Changed(parent, children, request) ==
    {c \in DOMAIN request : Convert(request[c], parent).amount # children[c].amount}

Funded(children) == {c \in DOMAIN children : children[c].amount > 0}

\* _recompute_unlisted_percentages: all but the last funded child are rounded
\* down and the last takes the residual of the group's rounded total.
Recompute(parent, children, last) ==
    LET funded == Funded(children)
        amount == [c \in funded |-> children[c].amount]
        target == HalfUp(Total(amount, funded) * Hundred, parent)
        down == [c \in funded |-> (amount[c] * Hundred) \div parent]
    IN  [c \in DOMAIN children |->
            IF c \notin funded THEN children[c].pct
            ELSE IF parent = 0 THEN 0
            ELSE IF c = last THEN target - Total(down, funded \ {c})
            ELSE down[c]]
=============================================================================
