----------------------------- MODULE QuotaReport -----------------------------
(***************************************************************************)
(* `quota status` over the request ledger (figstash-store catalog.rs:      *)
(* quota_status, grouped_attempt_models, latest_rate_limit_model) while    *)
(* commands write to it.  A row counts for the month its completed_at      *)
(* begins with, the moment the gateway saw the answer; it is written a     *)
(* little later, perhaps in the next month.                                *)
(***************************************************************************)
EXTENDS FigmaGateway, FiniteSets

CONSTANTS LastMonth  \* the clock stops there

ASSUME LastMonthAssumption == LastMonth \in Nat
ASSUME InvocationsAssumption == IsFiniteSet(Invocations)

VARIABLES
    month,      \* of the clock, counted from the first
    completed   \* the months of an invocation's attempts, as they ended

quotaVars == <<month, completed>>

QuotaTypeOK ==
    /\ month \in 0 .. LastMonth
    /\ completed \in [Invocations -> Seq(0 .. LastMonth)]

QuotaInit ==
    /\ month = 0
    /\ completed = [i \in Invocations |-> <<>>]

\* completed_at of an attempt that ends in this step; of the month's clock.
Stamp ==
    /\ completed' = [i \in Invocations |->
                        IF pc'[i] = "record" /\ pc[i] # "record"
                        THEN Append(completed[i], month) ELSE completed[i]]
    /\ UNCHANGED month

NewMonth ==
    /\ month < LastMonth
    /\ month' = month + 1
    /\ UNCHANGED completed

-----------------------------------------------------------------------------
(***************************************************************************)
(* quota_status                                                            *)
(***************************************************************************)

\* The rows of the ledger: invocation, and number among its rows.  A row has
\* the completed_at of its attempt.
LedgerRows == {r \in Invocations \X (1 .. 2) : r[2] <= Len(ledger[r[1]])}
RowOf(r) == ledger[r[1]][r[2]]
MonthOf(r) == completed[r[1]][r[2]]

\* The filter completed_at starts_with month.
Attempts(m) == {r \in LedgerRows : MonthOf(r) = m}

Count(rows) == [attempted |-> Cardinality(rows),
                succeeded |-> Cardinality({r \in rows : Succeeded(RowOf(r).status)})]

\* grouped_attempt_models, by a key of the invocations.
Grouped(rows, key) ==
    [k \in {key[r[1]] : r \in rows} |-> Count({r \in rows : key[r[1]] = k})]

\* latest_rate_limit_model takes the latest row of the month with status 429:
\* one of these, the last of each invocation.
RecentRateLimit(rows) ==
    LET limited == {r \in rows : RowOf(r).status = 429}
    IN  {r \in limited : \A s \in limited : s[1] = r[1] => s[2] <= r[2]}

\* The scope is what this installation observed; months of the clock are UTC.
QuotaStatus(m) ==
    LET rows == Attempts(m)
    IN  [month |-> m, total |-> Count(rows),
         byTier |-> Grouped(rows, [i \in Invocations |-> Tier(endpoint[i])]),
         byEndpoint |-> Grouped(rows, endpoint),
         recentRateLimit |-> RecentRateLimit(rows)]

-----------------------------------------------------------------------------
\* The rows of an invocation that some month's report counts.
Counted(i) == {r \in UNION {Attempts(m) : m \in 0 .. month} : r[1] = i}

\* What the group of a key adds to the total.
AttemptedOf(groups, k) == IF k \in DOMAIN groups THEN groups[k].attempted ELSE 0

\* The reports of the months together count each recorded attempt once, in
\* every grouping, none in a month to come; a 429 shows in that of its month.
\* For one command they count what it printed as meta.network.attempts, or,
\* when writing the ledger failed or the process died, one less: never two,
\* and none less after a success.
QuotaCoversRequests ==
    /\ \A m \in 0 .. LastMonth :
           LET report == QuotaStatus(m)
           IN  /\ AttemptedOf(report.byTier, 1) + AttemptedOf(report.byTier, 3)
                      = report.total.attempted
               /\ AttemptedOf(report.byEndpoint, "get_file")
                      + AttemptedOf(report.byEndpoint, "get_current_user")
                      = report.total.attempted
               /\ \A n \in 0 .. LastMonth \ {m} : Attempts(m) \intersect Attempts(n) = {}
               /\ m > month => report.total.attempted = 0
               /\ report.recentRateLimit # {} <=>
                      \E r \in Attempts(m) : RowOf(r).code = "rate_limited"
    /\ \A i \in Invocations :
           LET rows == Cardinality(Counted(i))
           IN  /\ rows = Len(ledger[i])
               /\ attempts[i] \in {rows, rows + 1}
               /\ pc[i] = "ok" => reported[i] = rows
               /\ pc[i] = "failed" => reported[i] \in {rows, rows + 1}
=============================================================================
