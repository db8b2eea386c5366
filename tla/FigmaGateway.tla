---------------------------- MODULE FigmaGateway ----------------------------
(***************************************************************************)
(* The path of a Figma REST request through figstash-figma: the gateway    *)
(* (gateway.rs: execute_classified, get_file, get_current_user), the       *)
(* streaming transport (ReqwestTransport::download), the durable request   *)
(* ledger (catalog.rs: record_attempt), and the two commands that own a    *)
(* staging file and a network report: `snapshot pull` (app.rs:             *)
(* download_and_commit) and `auth whoami` (app.rs: auth).                  *)
(*                                                                         *)
(* Figma, the network, the disk and the orphan cleanup of other figstash   *)
(* processes are the environment.  What a request does at Figma cannot be  *)
(* seen from here: arrived is what Figma counts, attempts what the program *)
(* believes, ledger what survives it, and reported what it prints.  The    *)
(* redirects to api.figma.com that the HTTP client follows by itself       *)
(* (ReqwestTransport::new) are requests Figma counts and the program does  *)
(* not: redirects has their number.                                        *)
(***************************************************************************)
EXTENDS Naturals, Sequences

CONSTANTS
    Invocations,  \* runs of the figstash binary, each of one command
    Statuses,     \* the HTTP status codes Figma may answer with
    Sizes,        \* the sizes of response bodies
    MaxBytes,     \* maximum_download_bytes
    Gone,         \* the staging file does not exist
    MaxRedirects  \* bound on the redirects of a command; the code has none

ASSUME StatusAssumption == Statuses \subseteq 100 .. 999
ASSUME SizeAssumption == Sizes \subseteq Nat /\ MaxBytes \in Nat
ASSUME RedirectsAssumption == MaxRedirects \in Nat

VARIABLES
    pc,        \* what an invocation does next
    endpoint,  \* the endpoint class it calls
    attempts,  \* NetworkUsage.attempts of its gateway call
    arrived,   \* the requests that reached Figma, in order: the attempt of each
    redirects, \* redirects to api.figma.com it was sent, and followed
    answer,    \* the outcome of the last attempt
    receipt,   \* the body whose hash and size the transport returned
    staged,    \* its staging file: the attempt that wrote each byte, or Gone
    bytes,     \* what the command read back from the staging file
    ledger,    \* the rows of table api_attempts it wrote, by id
    reported   \* meta.network.attempts of the response it printed

wire == <<attempts, arrived, redirects, answer, receipt>>
vars == <<pc, endpoint, wire, staged, bytes, ledger, reported>>

Endpoints == {"get_file", "get_current_user"}

\* EndpointClass::tier.
Tier(e) == IF e = "get_file" THEN 1 ELSE 3

MaximumAttempts(e) == IF Tier(e) = 1 THEN 1 ELSE 2

\* "wire": the request has left, nothing of it has been seen at Figma;
\* "served": it is counted at Figma, and the answer is under way.
LivePC == {"send", "wire", "served", "record", "clean", "read", "parse", "commit"}
EndPC == {"ok", "failed", "crashed"}
Live(i) == pc[i] \in LivePC

\* The body of length n that answers attempt a.
Body(a, n) == [k \in 1 .. n |-> a]
Bodies == Seq(1 .. 2)

Kinds == {"http", "connection", "timeout", "io", "too_large"}
NoAnswer == [kind |-> "io", status |-> 0]
Succeeded(s) == s \in 200 .. 299

HttpErrorCode(s) ==
    CASE Succeeded(s) -> "none"
      [] s = 401 -> "auth_failed"
      [] s = 403 -> "scope_missing"
      [] s = 429 -> "rate_limited"
      [] OTHER -> "figma_error"

TransportErrorCode(kind) ==
    CASE kind = "too_large" -> "invalid_figma_response"
      [] kind = "io" -> "store_failed"
      [] OTHER -> "network_failed"

Codes == {"none", "auth_failed", "scope_missing", "rate_limited",
          "figma_error", "invalid_figma_response", "store_failed",
          "network_failed"}

\* The ledger row of an attempt; status 0 stands for NULL.
Row(a) ==
    [status |-> a.status,
     code |-> IF a.kind = "http" THEN HttpErrorCode(a.status)
                                 ELSE TransportErrorCode(a.kind)]
Rows == [status : 0 .. 999, code : Codes]
Ledgers == Seq(Rows)

TypeOK ==
    /\ pc \in [Invocations -> {"idle"} \union LivePC \union EndPC]
    /\ endpoint \in [Invocations -> Endpoints]
    /\ attempts \in [Invocations -> 0 .. 2]
    /\ arrived \in [Invocations -> Seq(1 .. 2)]
    /\ redirects \in [Invocations -> 0 .. MaxRedirects]
    /\ answer \in [Invocations -> [kind : Kinds, status : 0 .. 999]]
    /\ receipt \in [Invocations -> Bodies]
    /\ staged \in [Invocations -> {Gone} \union Bodies]
    /\ bytes \in [Invocations -> Bodies]
    /\ ledger \in [Invocations -> Ledgers]
    /\ reported \in [Invocations -> 0 .. 2]

Init ==
    /\ pc = [i \in Invocations |-> "idle"]
    /\ endpoint = [i \in Invocations |-> "get_file"]
    /\ attempts = [i \in Invocations |-> 0]
    /\ arrived = [i \in Invocations |-> <<>>]
    /\ redirects = [i \in Invocations |-> 0]
    /\ answer = [i \in Invocations |-> NoAnswer]
    /\ receipt = [i \in Invocations |-> <<>>]
    /\ staged = [i \in Invocations |-> Gone]
    /\ bytes = [i \in Invocations |-> <<>>]
    /\ ledger = [i \in Invocations |-> <<>>]
    /\ reported = [i \in Invocations |-> 0]

GoTo(i, there) == pc' = [pc EXCEPT ![i] = there]
Stage(i, file) == staged' = [staged EXCEPT ![i] = file]

\* The command ends with an error that carries n attempts.
Fail(i, n) ==
    /\ GoTo(i, "failed")
    /\ reported' = [reported EXCEPT ![i] = n]

-----------------------------------------------------------------------------
(***************************************************************************)
(* The commands up to the request                                          *)
(***************************************************************************)

\* The store is open, the credential resolved; create_staging_file.
Start(i, e) ==
    /\ pc[i] = "idle"
    /\ endpoint' = [endpoint EXCEPT ![i] = e]
    /\ Stage(i, <<>>)
    /\ GoTo(i, "send")
    /\ UNCHANGED <<wire, bytes, ledger, reported>>

\* An early error: no store, no credential, no client, no staging file.
\* whoami builds the client after the staging file and leaves the file.
Refuse(i, e) ==
    /\ pc[i] = "idle"
    /\ endpoint' = [endpoint EXCEPT ![i] = e]
    /\ Fail(i, 0)
    /\ \/ UNCHANGED staged
       \/ e = "get_current_user" /\ Stage(i, <<>>)
    /\ UNCHANGED <<wire, bytes, ledger>>

-----------------------------------------------------------------------------
(***************************************************************************)
(* One attempt                                                             *)
(***************************************************************************)

\* network.record(tier), and the request leaves.
Send(i) ==
    /\ pc[i] = "send"
    /\ attempts' = [attempts EXCEPT ![i] = @ + 1]
    /\ GoTo(i, "wire")
    /\ UNCHANGED <<endpoint, arrived, redirects, answer, receipt, staged, bytes, ledger, reported>>

Arrive(i) ==
    /\ pc[i] = "wire"
    /\ arrived' = [arrived EXCEPT ![i] = Append(@, attempts[i])]
    /\ GoTo(i, "served")
    /\ UNCHANGED <<endpoint, attempts, redirects, answer, receipt, staged, bytes,
                   ledger, reported>>

\* Figma answers with a redirect to https api.figma.com: the client follows
\* it with another request of the same attempt, which nothing records, and
\* before the staging file is opened.  Any other redirect is an answer.
Redirect(i) ==
    /\ pc[i] = "served"
    /\ redirects[i] < MaxRedirects
    /\ redirects' = [redirects EXCEPT ![i] = @ + 1]
    /\ GoTo(i, "wire")
    /\ UNCHANGED <<endpoint, attempts, arrived, answer, receipt, staged, bytes,
                   ledger, reported>>

\* The transport returns an error; file is what it left in the staging file.
Break(i, kind, file) ==
    /\ answer' = [answer EXCEPT ![i] = [kind |-> kind, status |-> 0]]
    /\ Stage(i, file)
    /\ GoTo(i, "record")
    /\ UNCHANGED <<endpoint, attempts, arrived, redirects, receipt, bytes, ledger, reported>>

\* What the staging file may hold when a transfer breaks: what it held before
\* the response headers came (it is truncated after them), or a part of the
\* answer.  A file that was removed stays removed.
BrokenStages(i) ==
    {staged[i]} \union
        IF pc[i] = "served" /\ staged[i] # Gone
        THEN {Body(attempts[i], n) : n \in {m \in Sizes : m <= MaxBytes}}
        ELSE {}

\* The connection cannot be made, or breaks before or during the answer.
Disconnect(i) ==
    /\ pc[i] \in {"wire", "served"}
    /\ \E file \in BrokenStages(i) : Break(i, "connection", file)

\* Variant: a connect timeout but no total timeout.
TimeOutConnect(i) ==
    /\ pc[i] = "wire"
    /\ Break(i, "timeout", staged[i])

\* connect_timeout or the total timeout of the request.
TimeOut(i) ==
    /\ pc[i] \in {"wire", "served"}
    /\ \E file \in BrokenStages(i) : Break(i, "timeout", file)

\* The staging file cannot be opened or written.
StagingFails(i) ==
    /\ pc[i] = "served"
    /\ \E file \in BrokenStages(i) : Break(i, "io", file)

\* More than maximum_bytes arrive; the chunk that does is not written.
Overflow(i, n) ==
    /\ pc[i] = "served"
    /\ staged[i] # Gone
    /\ n > MaxBytes
    /\ Break(i, "too_large", Body(attempts[i], MaxBytes))

Deliver(i, s, n, file) ==
    /\ pc[i] = "served"
    /\ staged[i] # Gone
    /\ n <= MaxBytes
    /\ Stage(i, file)
    /\ answer' = [answer EXCEPT ![i] = [kind |-> "http", status |-> s]]
    /\ receipt' = [receipt EXCEPT ![i] = Body(attempts[i], n)]
    /\ GoTo(i, "record")
    /\ UNCHANGED <<endpoint, attempts, arrived, redirects, bytes, ledger, reported>>

\* Variant: the staging file is opened without truncating it.
AnswerOver(i, s, n) ==
    LET new == Body(attempts[i], n)
    IN  Deliver(i, s, n, IF staged[i] # Gone
                         THEN new \o SubSeq(staged[i], n + 1, Len(staged[i]))
                         ELSE new)

\* A complete answer, whatever its status, replaces the staging file.
Answer(i, s, n) == Deliver(i, s, n, Body(attempts[i], n))

-----------------------------------------------------------------------------
(***************************************************************************)
(* Recording the attempt and deciding what follows                         *)
(***************************************************************************)

\* The attempt failed in a way that may pass: a 5xx, or the transport's
\* connection and timeout errors.
Transient(a) ==
    \/ a.kind = "http" /\ a.status >= 500
    \/ a.kind \in {"connection", "timeout"}

\* Variants: the last attempt counted wrong; the tier forgotten; the
\* retryable flag of the error, which a 429 carries, decides.
MayRetryOnceMore(i) ==
    /\ Transient(answer[i])
    /\ Tier(endpoint[i]) # 1
    /\ attempts[i] <= MaximumAttempts(endpoint[i])
MayRetryAnyTier(i) == Transient(answer[i]) /\ attempts[i] < 2
MayRetryFlagged(i) ==
    /\ Transient(answer[i]) \/ answer[i].status = 429
    /\ Tier(endpoint[i]) # 1
    /\ attempts[i] < MaximumAttempts(endpoint[i])

MayRetry(i) ==
    /\ Transient(answer[i])
    /\ Tier(endpoint[i]) # 1
    /\ attempts[i] < MaximumAttempts(endpoint[i])

\* record_attempt succeeds.
Record(i) ==
    /\ pc[i] = "record"
    /\ ledger' = [ledger EXCEPT ![i] = Append(@, Row(answer[i]))]

Accept(i) ==
    /\ Record(i)
    /\ answer[i].kind = "http" /\ Succeeded(answer[i].status)
    /\ GoTo(i, "read")
    /\ UNCHANGED <<endpoint, wire, staged, bytes, reported>>

\* Variant: the loop continues before the attempt is recorded.
RetryUnrecorded(i) ==
    /\ pc[i] = "record"
    /\ MayRetry(i)
    /\ GoTo(i, "send")
    /\ UNCHANGED <<endpoint, wire, staged, bytes, ledger, reported>>

Retry(i) ==
    /\ Record(i)
    /\ MayRetry(i)
    /\ GoTo(i, "send")
    /\ UNCHANGED <<endpoint, wire, staged, bytes, reported>>

\* The gateway returns the error.
GiveUp(i) ==
    /\ Record(i)
    /\ ~(answer[i].kind = "http" /\ Succeeded(answer[i].status))
    /\ ~MayRetry(i)
    /\ GoTo(i, "clean")
    /\ UNCHANGED <<endpoint, wire, staged, bytes, reported>>

\* record_attempt fails: no retry, whatever the answer was.
RecordFails(i) ==
    /\ pc[i] = "record"
    /\ GoTo(i, "clean")
    /\ UNCHANGED <<endpoint, wire, staged, bytes, ledger, reported>>

\* Variant: the error return leaves the staging file.
ReturnUncleaned(i) ==
    /\ pc[i] = "clean"
    /\ Fail(i, attempts[i])
    /\ UNCHANGED <<endpoint, wire, staged, bytes, ledger>>

\* Both commands remove the staging file and print the error.
CleanUp(i) ==
    /\ pc[i] = "clean"
    /\ Fail(i, attempts[i])
    /\ Stage(i, Gone)
    /\ UNCHANGED <<endpoint, wire, bytes, ledger>>

-----------------------------------------------------------------------------
(***************************************************************************)
(* The answer becomes a result                                             *)
(***************************************************************************)

\* pull compares the bytes with the hash and size of the receipt; whoami
\* does not.
Matches(i) == endpoint[i] = "get_file" => staged[i] = receipt[i]

Read(i) ==
    /\ pc[i] = "read"
    /\ staged[i] # Gone
    /\ Matches(i)
    /\ bytes' = [bytes EXCEPT ![i] = staged[i]]
    /\ GoTo(i, "parse")
    /\ UNCHANGED <<endpoint, wire, staged, ledger, reported>>

\* The staging file after an error on what it holds: whoami removes it.
Discarded(i) == IF endpoint[i] = "get_current_user" THEN Gone ELSE staged[i]

\* The file cannot be read, or (pull, which then removes it) was damaged on
\* the disk after the download.
ReadFails(i) ==
    /\ pc[i] = "read"
    /\ Fail(i, attempts[i])
    /\ Stage(i, Discarded(i)) \/ Stage(i, Gone)
    /\ UNCHANGED <<endpoint, wire, bytes, ledger>>

\* parse_file, or the JSON of the current user.
Parse(i) ==
    /\ pc[i] = "parse"
    /\ IF endpoint[i] = "get_file"
       THEN GoTo(i, "commit") /\ UNCHANGED <<staged, reported>>
       ELSE /\ GoTo(i, "ok")
            /\ reported' = [reported EXCEPT ![i] = attempts[i]]
            /\ Stage(i, Gone)
    /\ UNCHANGED <<endpoint, wire, bytes, ledger>>

\* Variant: the error is returned without the network detail.
ParseFailsSilently(i) ==
    /\ pc[i] = "parse"
    /\ Fail(i, 0)
    /\ Stage(i, Discarded(i))
    /\ UNCHANGED <<endpoint, wire, bytes, ledger>>

ParseFails(i) ==
    /\ pc[i] = "parse"
    /\ Fail(i, attempts[i])
    /\ Stage(i, Discarded(i))
    /\ UNCHANGED <<endpoint, wire, bytes, ledger>>

\* commit_snapshot copies the staging file into the blob store, commits the
\* rows and removes the file.
Commit(i) ==
    /\ pc[i] = "commit"
    /\ staged[i] # Gone
    /\ GoTo(i, "ok")
    /\ reported' = [reported EXCEPT ![i] = attempts[i]]
    /\ Stage(i, Gone)
    /\ UNCHANGED <<endpoint, wire, bytes, ledger>>

\* It may fail before the file is removed, or after, on the read-back.
CommitFails(i) ==
    /\ pc[i] = "commit"
    /\ Fail(i, attempts[i])
    /\ Stage(i, staged[i]) \/ Stage(i, Gone)
    /\ UNCHANGED <<endpoint, wire, bytes, ledger>>

-----------------------------------------------------------------------------
(***************************************************************************)
(* The environment                                                         *)
(***************************************************************************)

\* Store::open of any process removes a staging file older than 24 hours,
\* also one whose owner is suspended and will go on.
Reap(i) ==
    /\ staged[i] # Gone
    /\ Stage(i, Gone)
    /\ UNCHANGED <<pc, endpoint, wire, bytes, ledger, reported>>

Crash(i) ==
    /\ Live(i)
    /\ GoTo(i, "crashed")
    /\ UNCHANGED <<endpoint, wire, staged, bytes, ledger, reported>>

\* What Figma, the network and the disk decide.
Outside(i) ==
    \/ Arrive(i)
    \/ Redirect(i)
    \/ Disconnect(i)
    \/ StagingFails(i)
    \/ \E n \in Sizes : Overflow(i, n)
    \/ \E s \in Statuses, n \in Sizes : Answer(i, s, n)
    \/ Reap(i)
    \/ Crash(i)

\* What the program does on its own, its timers included.
Local(i) ==
    \/ Send(i)
    \/ TimeOut(i)
    \/ Accept(i)
    \/ Retry(i)
    \/ GiveUp(i)
    \/ RecordFails(i)
    \/ CleanUp(i)
    \/ Read(i)
    \/ ReadFails(i)
    \/ Parse(i)
    \/ ParseFails(i)
    \/ Commit(i)
    \/ CommitFails(i)

Begin(i) == \E e \in Endpoints : Start(i, e) \/ Refuse(i, e)

Next == \E i \in Invocations : Begin(i) \/ Local(i) \/ Outside(i)

Spec == Init /\ [][Next]_vars

-----------------------------------------------------------------------------
(***************************************************************************)
(* Properties                                                              *)
(***************************************************************************)

\* What Figma can count for one command: one request for Tier 1 (a pull) and
\* at most two otherwise, and beyond these only requests that Figma itself
\* asked for by a redirect, through disconnections, timeouts, ledger failures
\* and crashes (gateway.rs: maximum_attempts, the retry conditions, the
\* redirect policy).
RequestBudget ==
    \A i \in Invocations :
        Len(arrived[i]) <= MaximumAttempts(endpoint[i]) + redirects[i]

\* A command that printed a response accounts in meta.network for every
\* request Figma counted, on whichever of the error returns it took
\* (with_network, and with_detail("network") in app.rs): each belongs to a
\* reported attempt, and there are no more of them than reported attempts and
\* followed redirects, which meta.network does not count.
ReportCoversArrivals ==
    \A i \in Invocations :
        pc[i] \in {"ok", "failed"} =>
            /\ \A k \in 1 .. Len(arrived[i]) : arrived[i][k] <= reported[i]
            /\ Len(arrived[i]) <= reported[i] + redirects[i]

\* The ledger never runs ahead of the attempts and lags by at most the one
\* under way: a crash or a ledger failure hides one attempt, never two.
LedgerLagsByOne ==
    \A i \in Invocations :
        /\ Len(ledger[i]) <= attempts[i]
        /\ attempts[i] <= Len(ledger[i]) + 1

\* A second attempt is made only when the first is in the ledger, as a server
\* error or a failed transfer: never after a 2xx, 3xx or 4xx (429 among
\* them), a local error, or an attempt that was not recorded.
RetriesFollowRecordedFailures ==
    \A i \in Invocations :
        attempts[i] > 1 =>
            /\ Len(ledger[i]) >= 1
            /\ \/ ledger[i][1].status >= 500
               \/ ledger[i][1].code = "network_failed"

\* The result of a command is the whole answer to its last attempt, which the
\* ledger holds as a 2xx: no byte is left over from the error page of an
\* earlier attempt, and no partial transfer is taken for an answer.
ResultIsLastAnswer ==
    \A i \in Invocations :
        pc[i] = "ok" =>
            /\ bytes[i] = receipt[i]
            /\ \A k \in 1 .. Len(bytes[i]) : bytes[i][k] = attempts[i]
            /\ Len(ledger[i]) = attempts[i]
            /\ Succeeded(ledger[i][attempts[i]].status)

\* A command whose download failed has removed its staging file (the
\* cleanup_stage calls of download_and_commit and auth whoami).  An answer
\* that arrived whole and then could not be used may stay for the reaper.
FailedDownloadLeavesNoStage ==
    \A i \in Invocations :
        (pc[i] = "failed" /\ attempts[i] > 0 /\ staged[i] # Gone) =>
            /\ ledger[i] # <<>>
            /\ Succeeded(ledger[i][Len(ledger[i])].status)

\* Every command that starts ends, also when Figma never answers.
InvocationsEnd ==
    \A i \in Invocations : Live(i) ~> pc[i] \in EndPC

\* DESIGN.md section 5.4: Tier 2 and 3 are retried only when the connection
\* could not be made, or after a 5xx.
RetriesOnlyUnservedOr5xx ==
    \A i \in Invocations :
        attempts[i] > 1 =>
            \/ \A k \in 1 .. Len(arrived[i]) : arrived[i][k] # 1
            \/ ledger[i][1].status >= 500
=============================================================================
