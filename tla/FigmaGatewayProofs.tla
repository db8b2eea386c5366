------------------------- MODULE FigmaGatewayProofs -------------------------
(***************************************************************************)
(* Proofs about FigmaGateway, for any invocations, status codes, body      *)
(* sizes, size limit and number of redirects.  An invocation changes       *)
(* nothing of another one, so the inductive invariant is stated for one of *)
(* them.                                                                   *)
(***************************************************************************)
EXTENDS FigmaGateway, TLAPS

\* The budget: requests reached Figma only in attempts that were made, one in
\* each and one for each redirect, of which the one on the wire has not
\* arrived; and a command about to send has an attempt left.
BudgetAt(i) ==
    /\ attempts[i] <= MaximumAttempts(endpoint[i])
    /\ pc[i] = "send" => attempts[i] < MaximumAttempts(endpoint[i])
    /\ \A k \in 1 .. Len(arrived[i]) : arrived[i][k] <= attempts[i]
    /\ Len(arrived[i]) <= attempts[i] + redirects[i]
    /\ pc[i] = "wire" => Len(arrived[i]) < attempts[i] + redirects[i]
    /\ pc[i] \in {"wire", "served", "record", "read", "parse", "commit", "ok"}
            => attempts[i] >= 1
    /\ pc[i] \in {"ok", "failed"} => reported[i] = attempts[i]

\* The ledger: only an attempt under way, or one on which the command ended,
\* may be missing; an attempt that was followed by another failed.
LedgerAt(i) ==
    /\ Len(ledger[i]) <= attempts[i]
    /\ attempts[i] <= Len(ledger[i]) + 1
    /\ pc[i] = "idle" => attempts[i] = 0
    /\ pc[i] \in {"wire", "served", "record"} => attempts[i] = Len(ledger[i]) + 1
    /\ pc[i] \in {"send", "read", "parse", "commit", "ok"} => attempts[i] = Len(ledger[i])
    /\ (attempts[i] > 1 \/ (pc[i] = "send" /\ attempts[i] = 1)) =>
            /\ Len(ledger[i]) >= 1
            /\ \/ ledger[i][1].status >= 500
               \/ ledger[i][1].code = "network_failed"

\* The result: from a complete answer on, the receipt is the answer to the
\* last attempt and the staging file, while it exists, holds it.
ResultAt(i) ==
    /\ (pc[i] = "record" /\ answer[i].kind = "http") \/ pc[i] \in {"read", "parse", "commit", "ok"} =>
            \A k \in 1 .. Len(receipt[i]) : receipt[i][k] = attempts[i]
    /\ (pc[i] = "record" /\ answer[i].kind = "http") \/ pc[i] = "read" =>
            staged[i] = Gone \/ staged[i] = receipt[i]
    /\ pc[i] \in {"parse", "commit", "ok"} => bytes[i] = receipt[i]
    /\ pc[i] \in {"read", "parse", "commit", "ok"} =>
            Succeeded(ledger[i][attempts[i]].status)
    /\ (pc[i] = "failed" /\ attempts[i] > 0 /\ staged[i] # Gone) =>
            /\ Len(ledger[i]) > 0
            /\ Succeeded(ledger[i][Len(ledger[i])].status)

InvAt(i) == BudgetAt(i) /\ LedgerAt(i) /\ ResultAt(i)

IInv == TypeOK /\ \A i \in Invocations : InvAt(i)

-----------------------------------------------------------------------------

\* A body is a sequence of the attempt it answers.
LEMMA BodyType ==
    ASSUME NEW a \in 1 .. 2, NEW n \in Nat
    PROVE  /\ Body(a, n) \in Bodies
           /\ Len(Body(a, n)) = n
           /\ \A k \in 1 .. n : Body(a, n)[k] = a
BY DEF Body, Bodies

\* A row of the ledger has its type, and tells which attempts may be retried.
LEMMA RowType ==
    ASSUME NEW a \in [kind : Kinds, status : 0 .. 999]
    PROVE  /\ Row(a) \in Rows
           /\ a.kind = "http" => Row(a).status = a.status
           /\ Transient(a) => \/ Row(a).status >= 500
                              \/ Row(a).code = "network_failed"
<1>1. HttpErrorCode(a.status) \in Codes
  BY DEF HttpErrorCode, Codes
<1>2. a.kind \in {"http", "connection", "timeout", "io", "too_large"}
  BY DEF Kinds
<1>3. TransportErrorCode(a.kind) \in Codes
  BY <1>2 DEF TransportErrorCode, Codes
<1>4. a.kind \in {"connection", "timeout"} => TransportErrorCode(a.kind) = "network_failed"
  BY DEF TransportErrorCode
<1> QED
  BY <1>1, <1>2, <1>3, <1>4 DEF Row, Rows, Transient

\* The staging file a broken transfer leaves is a file or none.
LEMMA BrokenType ==
    ASSUME TypeOK, NEW i \in Invocations, pc[i] \in {"wire", "served"},
           BudgetAt(i), NEW file \in BrokenStages(i), file # Gone
    PROVE  file \in Bodies
<1>1. attempts[i] \in 1 .. 2
  BY DEF TypeOK, BudgetAt
<1>2. CASE file = staged[i]
  BY <1>2 DEF TypeOK
<1>3. CASE file # staged[i]
  <2>1. PICK n \in Sizes : file = Body(attempts[i], n)
    BY <1>3 DEF BrokenStages
  <2> QED
    BY <1>1, <2>1, BodyType, SizeAssumption
<1> QED
  BY <1>2, <1>3

-----------------------------------------------------------------------------

\* What a step of one invocation leaves alone of another.
Same(i) ==
    /\ pc'[i] = pc[i]
    /\ endpoint'[i] = endpoint[i]
    /\ attempts'[i] = attempts[i]
    /\ arrived'[i] = arrived[i]
    /\ redirects'[i] = redirects[i]
    /\ answer'[i] = answer[i]
    /\ receipt'[i] = receipt[i]
    /\ staged'[i] = staged[i]
    /\ bytes'[i] = bytes[i]
    /\ ledger'[i] = ledger[i]
    /\ reported'[i] = reported[i]

LEMMA SameKeepsInv ==
    ASSUME NEW i \in Invocations, InvAt(i), Same(i)
    PROVE  InvAt(i)'
<1>1. BudgetAt(i)'
  BY DEF InvAt, BudgetAt, Same
<1>2. LedgerAt(i)'
  BY DEF InvAt, LedgerAt, Same
<1>3. ResultAt(i)'
  BY DEF InvAt, ResultAt, Same
<1> QED
  BY <1>1, <1>2, <1>3 DEF InvAt

LEMMA OthersAreSame ==
    ASSUME TypeOK, NEW j \in Invocations, NEW i \in Invocations, i # j,
           Begin(j) \/ Local(j) \/ Outside(j)
    PROVE  Same(i)
<1> USE DEF Same, TypeOK, GoTo, Stage, Fail
<1>1. CASE Begin(j)
  BY <1>1 DEF Begin, Start, Refuse, wire
<1>2. CASE Local(j)
  <2> USE DEF Record, wire
  <2>1. CASE Send(j)
    BY <2>1 DEF Send
  <2>2. CASE TimeOut(j)
    BY <2>2 DEF TimeOut, Break
  <2>3. CASE Accept(j) \/ Retry(j)
    BY <2>3 DEF Accept, Retry
  <2>4. CASE GiveUp(j) \/ RecordFails(j) \/ CleanUp(j)
    BY <2>4 DEF GiveUp, RecordFails, CleanUp
  <2>5. CASE Read(j) \/ ReadFails(j)
    BY <2>5 DEF Read, ReadFails
  <2>6. CASE Parse(j) \/ ParseFails(j)
    BY <2>6 DEF Parse, ParseFails
  <2>7. CASE Commit(j) \/ CommitFails(j)
    BY <2>7 DEF Commit, CommitFails
  <2> QED
    BY <1>2, <2>1, <2>2, <2>3, <2>4, <2>5, <2>6, <2>7 DEF Local
<1>3. CASE Outside(j)
  <2>1. CASE Arrive(j) \/ Redirect(j) \/ Crash(j) \/ Reap(j)
    BY <2>1 DEF Arrive, Redirect, Crash, Reap, wire
  <2>2. CASE Disconnect(j) \/ StagingFails(j) \/ \E n \in Sizes : Overflow(j, n)
    BY <2>2 DEF Disconnect, StagingFails, Overflow, Break
  <2>3. CASE \E s \in Statuses, n \in Sizes : Answer(j, s, n)
    BY <2>3 DEF Answer, Deliver
  <2> QED
    BY <1>3, <2>1, <2>2, <2>3 DEF Outside
<1> QED
  BY <1>1, <1>2, <1>3

-----------------------------------------------------------------------------
(***************************************************************************)
(* Each step keeps the types and the invariant of its invocation.          *)
(***************************************************************************)

LEMMA TypeInit == Init => TypeOK
BY RedirectsAssumption DEF Init, TypeOK, Endpoints, NoAnswer, Kinds, Bodies, Ledgers

LEMMA BeginKeepsInv ==
    ASSUME IInv, NEW i \in Invocations, Begin(i)
    PROVE  TypeOK' /\ InvAt(i)'
<1>1. PICK e \in Endpoints : Start(i, e) \/ Refuse(i, e)
  BY DEF Begin
<1>2. <<>> \in Bodies
  BY DEF Bodies
<1>3. pc[i] = "idle" /\ attempts[i] = 0
  BY <1>1 DEF Start, Refuse, IInv, TypeOK, InvAt, BudgetAt, LedgerAt
<1>4. Len(ledger[i]) = 0
  BY <1>3 DEF IInv, TypeOK, InvAt, LedgerAt, Ledgers
<1>5. TypeOK'
  <2>1. CASE Start(i, e)
    BY <1>2, <2>1 DEF Start, Stage, GoTo, wire, IInv, TypeOK, LivePC
  <2>2. CASE Refuse(i, e)
    <3>1. pc' \in [Invocations -> {"idle"} \union LivePC \union EndPC]
      <4>1. pc' = [pc EXCEPT ![i] = "failed"]
        BY <2>2 DEF Refuse, Fail, GoTo
      <4>2. pc \in [Invocations -> {"idle"} \union LivePC \union EndPC]
        BY DEF IInv, TypeOK
      <4> QED
        BY <4>1, <4>2 DEF EndPC
    <3>2. reported' \in [Invocations -> 0 .. 2]
      <4>1. reported' = [reported EXCEPT ![i] = 0]
        BY <2>2 DEF Refuse, Fail
      <4>2. reported \in [Invocations -> 0 .. 2]
        BY DEF IInv, TypeOK
      <4> QED
        BY <4>1, <4>2
    <3>3. staged' = staged \/ staged' = [staged EXCEPT ![i] = <<>>]
      BY <2>2 DEF Refuse, Stage
    <3>4. staged' \in [Invocations -> {Gone} \union Bodies]
      <4>1. staged \in [Invocations -> {Gone} \union Bodies]
        BY DEF IInv, TypeOK
      <4> QED
        BY <1>2, <3>3, <4>1
    <3>5. endpoint' \in [Invocations -> Endpoints]
      BY <2>2 DEF Refuse, IInv, TypeOK
    <3> QED
      BY <2>2, <3>1, <3>2, <3>4, <3>5 DEF Refuse, wire, IInv, TypeOK
  <2> QED
    BY <1>1, <2>1, <2>2
<1>6. BudgetAt(i)'
  <2>1. /\ pc'[i] \in {"send", "failed"} /\ (pc'[i] = "failed" => reported'[i] = 0)
        /\ UNCHANGED <<attempts, arrived, redirects>>
    BY <1>1 DEF Start, Refuse, Fail, GoTo, wire, IInv, TypeOK
  <2>2. BudgetAt(i)
    BY DEF IInv, InvAt
  <2> QED
    BY <1>3, <2>1, <2>2 DEF BudgetAt, MaximumAttempts, Tier
<1>7. LedgerAt(i)'
  BY <1>1, <1>3, <1>4 DEF Start, Refuse, Fail, GoTo, wire, IInv, TypeOK, LedgerAt
<1>8. ResultAt(i)'
  BY <1>1, <1>3 DEF Start, Refuse, Fail, GoTo, wire, IInv, TypeOK, ResultAt
<1> QED
  BY <1>5, <1>6, <1>7, <1>8 DEF InvAt

LEMMA SendKeepsInv ==
    ASSUME IInv, NEW i \in Invocations, Send(i)
    PROVE  TypeOK' /\ InvAt(i)'
<1>1. attempts[i] \in 0 .. 1 /\ attempts[i] < MaximumAttempts(endpoint[i])
  BY DEF IInv, TypeOK, Send, InvAt, BudgetAt, MaximumAttempts
<1>2. TypeOK'
  <2>1. pc' \in [Invocations -> {"idle"} \union LivePC \union EndPC]
    BY DEF Send, GoTo, IInv, TypeOK, LivePC
  <2>2. attempts' \in [Invocations -> 0 .. 2]
    BY <1>1 DEF Send, IInv, TypeOK
  <2> QED
    BY <2>1, <2>2 DEF Send, IInv, TypeOK
<1>3. BudgetAt(i)'
  <2>1. /\ pc[i] = "send" /\ pc'[i] = "wire" /\ attempts'[i] = attempts[i] + 1
        /\ UNCHANGED <<endpoint, arrived, redirects>>
    BY DEF Send, GoTo, IInv, TypeOK
  <2>2. /\ redirects[i] \in Nat /\ Len(arrived[i]) \in Nat
        /\ \A k \in 1 .. Len(arrived[i]) : arrived[i][k] \in Nat
        /\ MaximumAttempts(endpoint[i]) \in Nat
    BY RedirectsAssumption DEF IInv, TypeOK, MaximumAttempts
  <2>3. BudgetAt(i)
    BY DEF IInv, InvAt
  <2> QED
    BY <1>1, <2>1, <2>2, <2>3 DEF BudgetAt
<1>4. LedgerAt(i)'
  BY <1>1 DEF Send, GoTo, IInv, TypeOK, InvAt, LedgerAt
<1>5. ResultAt(i)'
  BY DEF Send, GoTo, IInv, TypeOK, ResultAt
<1> QED
  BY <1>2, <1>3, <1>4, <1>5 DEF InvAt

LEMMA ArriveKeepsInv ==
    ASSUME IInv, NEW i \in Invocations, Arrive(i)
    PROVE  TypeOK' /\ InvAt(i)'
<1>1. attempts[i] \in 1 .. 2 /\ arrived[i] \in Seq(1 .. 2)
  BY DEF Arrive, IInv, TypeOK, InvAt, BudgetAt
<1>2. arrived'[i] = Append(arrived[i], attempts[i]) /\ arrived'[i] \in Seq(1 .. 2)
  BY <1>1 DEF Arrive, IInv, TypeOK
<1>3. TypeOK'
  <2>1. pc' \in [Invocations -> {"idle"} \union LivePC \union EndPC]
    BY DEF Arrive, GoTo, IInv, TypeOK, LivePC
  <2>2. arrived' \in [Invocations -> Seq(1 .. 2)]
    BY <1>1 DEF Arrive, IInv, TypeOK
  <2> QED
    BY <2>1, <2>2 DEF Arrive, IInv, TypeOK
<1>4. BudgetAt(i)'
  <2>1. /\ pc[i] = "wire" /\ pc'[i] = "served"
        /\ UNCHANGED <<endpoint, attempts, redirects, reported>>
    BY DEF Arrive, GoTo, IInv, TypeOK
  <2>2. \A k \in 1 .. Len(arrived'[i]) : arrived'[i][k] <= attempts[i]
    BY <1>1, <1>2 DEF IInv, InvAt, BudgetAt
  <2>3. Len(arrived'[i]) = Len(arrived[i]) + 1
    BY <1>1, <1>2
  <2>4. Len(arrived'[i]) <= attempts[i] + redirects[i]
    BY <1>1, <2>1, <2>3 DEF IInv, TypeOK, InvAt, BudgetAt
  <2> QED
    BY <1>1, <2>1, <2>2, <2>3, <2>4 DEF IInv, TypeOK, InvAt, BudgetAt
<1>5. LedgerAt(i)'
  BY DEF Arrive, GoTo, IInv, TypeOK, InvAt, LedgerAt
<1>6. ResultAt(i)'
  BY DEF Arrive, GoTo, IInv, TypeOK, ResultAt
<1> QED
  BY <1>3, <1>4, <1>5, <1>6 DEF InvAt

LEMMA RedirectKeepsInv ==
    ASSUME IInv, NEW i \in Invocations, Redirect(i)
    PROVE  TypeOK' /\ InvAt(i)'
<1>1. /\ pc[i] = "served" /\ pc' = [pc EXCEPT ![i] = "wire"]
      /\ redirects[i] < MaxRedirects
      /\ redirects' = [redirects EXCEPT ![i] = @ + 1]
      /\ UNCHANGED <<endpoint, attempts, arrived, answer, receipt, staged, bytes,
                     ledger, reported>>
  BY DEF Redirect, GoTo
<1>2. TypeOK'
  <2>1. pc' \in [Invocations -> {"idle"} \union LivePC \union EndPC]
    BY <1>1 DEF IInv, TypeOK, LivePC
  <2>2. redirects' \in [Invocations -> 0 .. MaxRedirects]
    BY <1>1, RedirectsAssumption DEF IInv, TypeOK
  <2> QED
    BY <2>1, <2>2, <1>1 DEF IInv, TypeOK
<1>3. BudgetAt(i)'
  <2>1. /\ pc'[i] = "wire" /\ redirects'[i] = redirects[i] + 1
        /\ redirects[i] \in Nat /\ attempts[i] \in Nat /\ Len(arrived[i]) \in Nat
    BY <1>1, RedirectsAssumption DEF IInv, TypeOK
  <2>2. Len(arrived[i]) <= attempts[i] + redirects[i]
    BY <1>1 DEF IInv, InvAt, BudgetAt
  <2>3. Len(arrived[i]) + 1 <= attempts[i] + redirects'[i]
    BY <2>1, <2>2
  <2> QED
    BY <1>1, <2>1, <2>3 DEF IInv, InvAt, BudgetAt
<1>4. LedgerAt(i)'
  BY <1>1 DEF IInv, TypeOK, InvAt, LedgerAt
<1>5. ResultAt(i)'
  BY <1>1 DEF IInv, TypeOK, ResultAt
<1> QED
  BY <1>2, <1>3, <1>4, <1>5 DEF InvAt

\* Any transport error, whatever it leaves in the staging file.
LEMMA BreakKeepsInv ==
    ASSUME IInv, NEW i \in Invocations, pc[i] \in {"wire", "served"},
           NEW kind \in Kinds, kind # "http",
           NEW file \in {Gone} \union Bodies, Break(i, kind, file)
    PROVE  TypeOK' /\ InvAt(i)'
<1>1. TypeOK'
  <2>1. pc' \in [Invocations -> {"idle"} \union LivePC \union EndPC]
    BY DEF Break, GoTo, IInv, TypeOK, LivePC
  <2>2. answer' \in [Invocations -> [kind : Kinds, status : 0 .. 999]]
    BY DEF Break, IInv, TypeOK
  <2> QED
    BY <2>1, <2>2 DEF Break, Stage, IInv, TypeOK
<1>2. BudgetAt(i)'
  BY DEF Break, GoTo, IInv, TypeOK, InvAt, BudgetAt
<1>3. LedgerAt(i)'
  BY DEF Break, GoTo, IInv, TypeOK, InvAt, LedgerAt
<1>4. ResultAt(i)'
  BY DEF Break, GoTo, IInv, TypeOK, ResultAt
<1> QED
  BY <1>1, <1>2, <1>3, <1>4 DEF InvAt

LEMMA TransportErrorKeepsInv ==
    ASSUME IInv, NEW i \in Invocations,
           \/ Disconnect(i) \/ TimeOut(i) \/ StagingFails(i)
           \/ \E n \in Sizes : Overflow(i, n)
    PROVE  TypeOK' /\ InvAt(i)'
<1>1. pc[i] \in {"wire", "served"}
  BY DEF Disconnect, TimeOut, StagingFails, Overflow
<1>2. BrokenStages(i) \subseteq {Gone} \union Bodies
  BY <1>1, BrokenType DEF IInv, InvAt
<1>3. attempts[i] \in 1 .. 2
  BY <1>1 DEF IInv, InvAt, BudgetAt, TypeOK
<1>4. Body(attempts[i], MaxBytes) \in Bodies
  BY <1>3, BodyType, SizeAssumption
<1>5. \E kind \in Kinds \ {"http"}, file \in {Gone} \union Bodies : Break(i, kind, file)
  <2>1. CASE Disconnect(i)
    BY <2>1, <1>2 DEF Disconnect, Kinds
  <2>2. CASE TimeOut(i)
    BY <2>2, <1>2 DEF TimeOut, Kinds
  <2>3. CASE StagingFails(i)
    BY <2>3, <1>2 DEF StagingFails, Kinds
  <2>4. CASE \E n \in Sizes : Overflow(i, n)
    BY <2>4, <1>4 DEF Overflow, Kinds
  <2> QED
    BY <2>1, <2>2, <2>3, <2>4
<1> QED
  BY <1>1, <1>5, BreakKeepsInv

LEMMA AnswerKeepsInv ==
    ASSUME IInv, NEW i \in Invocations, NEW s \in Statuses, NEW n \in Sizes,
           Answer(i, s, n)
    PROVE  TypeOK' /\ InvAt(i)'
<1> DEFINE body == Body(attempts[i], n)
<1>1. attempts[i] \in 1 .. 2 /\ n \in Nat /\ s \in 0 .. 999
  BY StatusAssumption, SizeAssumption DEF Answer, Deliver, IInv, TypeOK, InvAt, BudgetAt
<1>2. body \in Bodies /\ \A k \in 1 .. Len(body) : body[k] = attempts[i]
  BY <1>1, BodyType
<1>3. /\ pc[i] = "served"
      /\ pc' = [pc EXCEPT ![i] = "record"]
      /\ answer' = [answer EXCEPT ![i] = [kind |-> "http", status |-> s]]
      /\ receipt' = [receipt EXCEPT ![i] = body]
      /\ staged' = [staged EXCEPT ![i] = body]
      /\ UNCHANGED <<endpoint, attempts, arrived, redirects, bytes, ledger, reported>>
  BY DEF Answer, Deliver, GoTo, Stage
<1> HIDE DEF body
<1>4. TypeOK'
  <2>1. pc' \in [Invocations -> {"idle"} \union LivePC \union EndPC]
    BY <1>3 DEF IInv, TypeOK, LivePC
  <2>2. answer' \in [Invocations -> [kind : Kinds, status : 0 .. 999]]
    <3>1. answer \in [Invocations -> [kind : Kinds, status : 0 .. 999]]
      BY DEF IInv, TypeOK
    <3>2. [kind |-> "http", status |-> s] \in [kind : Kinds, status : 0 .. 999]
      BY <1>1 DEF Kinds
    <3> QED
      BY <1>3, <3>1, <3>2
  <2>3. receipt' \in [Invocations -> Bodies]
    BY <1>2, <1>3 DEF IInv, TypeOK
  <2>4. staged' \in [Invocations -> {Gone} \union Bodies]
    BY <1>2, <1>3 DEF IInv, TypeOK
  <2>5. /\ endpoint' \in [Invocations -> Endpoints]
        /\ attempts' \in [Invocations -> 0 .. 2]
        /\ arrived' \in [Invocations -> Seq(1 .. 2)]
        /\ redirects' \in [Invocations -> 0 .. MaxRedirects]
        /\ bytes' \in [Invocations -> Bodies]
        /\ ledger' \in [Invocations -> Ledgers]
        /\ reported' \in [Invocations -> 0 .. 2]
    BY <1>3 DEF IInv, TypeOK
  <2> QED
    BY <2>1, <2>2, <2>3, <2>4, <2>5 DEF TypeOK
<1>5. BudgetAt(i)'
  BY <1>3 DEF IInv, TypeOK, InvAt, BudgetAt
<1>6. LedgerAt(i)'
  BY <1>3 DEF IInv, TypeOK, InvAt, LedgerAt
<1>7. ResultAt(i)'
  BY <1>2, <1>3 DEF IInv, TypeOK, ResultAt
<1> QED
  BY <1>4, <1>5, <1>6, <1>7 DEF InvAt

\* record_attempt appended a row: what every outcome of the step shares.
LEMMA RecordAppends ==
    ASSUME IInv, NEW i \in Invocations, Record(i)
    PROVE  /\ ledger' \in [Invocations -> Ledgers]
           /\ attempts[i] = Len(ledger[i]) + 1
           /\ Len(ledger'[i]) = attempts[i]
           /\ ledger'[i][attempts[i]] = Row(answer[i])
           /\ attempts[i] > 1 => ledger'[i][1] = ledger[i][1]
<1>1. ledger[i] \in Seq(Rows) /\ Row(answer[i]) \in Rows
  BY RowType DEF IInv, TypeOK, Ledgers
<1>2. ledger'[i] = Append(ledger[i], Row(answer[i]))
  BY DEF Record, IInv, TypeOK
<1>3. attempts[i] = Len(ledger[i]) + 1
  BY DEF Record, IInv, InvAt, LedgerAt
<1>4. ledger' \in [Invocations -> Ledgers]
  BY <1>1 DEF Record, IInv, TypeOK, Ledgers
<1> QED
  BY <1>1, <1>2, <1>3, <1>4

LEMMA AcceptKeepsInv ==
    ASSUME IInv, NEW i \in Invocations, Accept(i)
    PROVE  TypeOK' /\ InvAt(i)'
<1>1. /\ ledger' \in [Invocations -> Ledgers]
      /\ attempts[i] = Len(ledger[i]) + 1
      /\ Len(ledger'[i]) = attempts[i]
      /\ ledger'[i][attempts[i]] = Row(answer[i])
      /\ attempts[i] > 1 => ledger'[i][1] = ledger[i][1]
  BY RecordAppends DEF Accept
<1>2. /\ pc[i] = "record"
      /\ answer[i].kind = "http" /\ Succeeded(answer[i].status)
      /\ pc' = [pc EXCEPT ![i] = "read"]
      /\ UNCHANGED <<endpoint, attempts, arrived, redirects, answer, receipt, staged, bytes, reported>>
  BY DEF Accept, Record, GoTo, wire
<1>3. TypeOK'
  <2>1. pc' \in [Invocations -> {"idle"} \union LivePC \union EndPC]
    BY <1>2 DEF IInv, TypeOK, LivePC
  <2> QED
    BY <2>1, <1>1, <1>2 DEF IInv, TypeOK
<1>4. BudgetAt(i)'
  BY <1>2 DEF IInv, TypeOK, InvAt, BudgetAt
<1>5. LedgerAt(i)'
  BY <1>1, <1>2 DEF IInv, TypeOK, InvAt, LedgerAt
<1>6. ResultAt(i)'
  <2>1. Row(answer[i]).status = answer[i].status
    BY <1>2, RowType DEF IInv, TypeOK
  <2> QED
    BY <2>1, <1>1, <1>2 DEF IInv, TypeOK, InvAt, ResultAt
<1> QED
  BY <1>3, <1>4, <1>5, <1>6 DEF InvAt

LEMMA RetryKeepsInv ==
    ASSUME IInv, NEW i \in Invocations, Retry(i)
    PROVE  TypeOK' /\ InvAt(i)'
<1>1. /\ ledger' \in [Invocations -> Ledgers]
      /\ attempts[i] = Len(ledger[i]) + 1
      /\ Len(ledger'[i]) = attempts[i]
      /\ ledger'[i][attempts[i]] = Row(answer[i])
  BY RecordAppends DEF Retry
<1>2. /\ pc[i] = "record"
      /\ pc' = [pc EXCEPT ![i] = "send"]
      /\ UNCHANGED <<endpoint, attempts, arrived, redirects, answer, receipt, staged, bytes, reported>>
  BY DEF Retry, Record, GoTo, wire
<1>3. attempts[i] < MaximumAttempts(endpoint[i])
  BY DEF Retry, MayRetry
<1>4. attempts[i] = 1
  BY <1>1, <1>2, <1>3 DEF MaximumAttempts, IInv, TypeOK, InvAt, BudgetAt
<1>5. TypeOK'
  <2>1. pc' \in [Invocations -> {"idle"} \union LivePC \union EndPC]
    BY <1>2 DEF IInv, TypeOK, LivePC
  <2> QED
    BY <2>1, <1>1, <1>2 DEF IInv, TypeOK
<1>6. BudgetAt(i)'
  BY <1>2, <1>3 DEF IInv, TypeOK, InvAt, BudgetAt
<1>7. LedgerAt(i)'
  <2>1. \/ Row(answer[i]).status >= 500
        \/ Row(answer[i]).code = "network_failed"
    BY RowType DEF Retry, MayRetry, IInv, TypeOK
  <2> QED
    BY <2>1, <1>1, <1>2, <1>4 DEF IInv, TypeOK, LedgerAt
<1>8. ResultAt(i)'
  BY <1>2 DEF IInv, TypeOK, ResultAt
<1> QED
  BY <1>5, <1>6, <1>7, <1>8 DEF InvAt

\* The attempt failed for good: its row is written, or could not be, and the
\* staging file is about to go.
LEMMA AbandonKeepsInv ==
    ASSUME IInv, NEW i \in Invocations, GiveUp(i) \/ RecordFails(i)
    PROVE  TypeOK' /\ InvAt(i)'
<1>1. /\ pc[i] = "record" /\ pc' = [pc EXCEPT ![i] = "clean"]
      /\ UNCHANGED <<endpoint, attempts, arrived, redirects, answer, receipt, staged, bytes,
                     reported>>
      /\ Record(i) \/ UNCHANGED ledger
  BY DEF GiveUp, RecordFails, Record, GoTo, wire
<1>2. pc'[i] = "clean"
  BY <1>1 DEF IInv, TypeOK
<1>3. TypeOK'
  <2>1. pc' \in [Invocations -> {"idle"} \union LivePC \union EndPC]
    BY <1>1 DEF IInv, TypeOK, LivePC
  <2>2. ledger' \in [Invocations -> Ledgers]
    BY <1>1, RecordAppends DEF IInv, TypeOK
  <2> QED
    BY <2>1, <2>2, <1>1 DEF IInv, TypeOK
<1>4. BudgetAt(i)'
  BY <1>1, <1>2 DEF IInv, TypeOK, InvAt, BudgetAt
<1>5. LedgerAt(i)'
  <2>1. CASE Record(i)
    <3>1. attempts[i] > 1 => /\ Len(ledger[i]) >= 1
                             /\ \/ ledger[i][1].status >= 500
                                \/ ledger[i][1].code = "network_failed"
      BY DEF IInv, InvAt, LedgerAt
    <3>2. attempts[i] \in 0 .. 2
      BY DEF IInv, TypeOK
    <3> QED
      BY <2>1, <1>1, <1>2, <3>1, <3>2, RecordAppends DEF LedgerAt
  <2>2. CASE UNCHANGED ledger
    BY <2>2, <1>1, <1>2 DEF IInv, TypeOK, InvAt, LedgerAt
  <2> QED
    BY <1>1, <2>1, <2>2
<1>6. ResultAt(i)'
  BY <1>2 DEF ResultAt
<1> QED
  BY <1>3, <1>4, <1>5, <1>6 DEF InvAt

\* Every error return: the command ends, reports its attempts, and the staging
\* file goes unless a complete 2xx answer was recorded.
LEMMA ErrorKeepsInv ==
    ASSUME IInv, NEW i \in Invocations, Live(i), Fail(i, attempts[i]),
           NEW file \in {Gone} \union Bodies, Stage(i, file),
           UNCHANGED <<endpoint, attempts, arrived, redirects, answer, receipt, bytes>>,
           UNCHANGED ledger,
           (pc[i] = "clean" /\ file = Gone) \/ pc[i] \in {"read", "parse", "commit"}
    PROVE  TypeOK' /\ InvAt(i)'
<1>1. TypeOK'
  <2>1. pc' \in [Invocations -> {"idle"} \union LivePC \union EndPC]
    BY DEF Fail, GoTo, IInv, TypeOK, EndPC
  <2>2. reported' \in [Invocations -> 0 .. 2]
    BY DEF Fail, IInv, TypeOK
  <2> QED
    BY <2>1, <2>2 DEF Stage, IInv, TypeOK
<1>2. BudgetAt(i)'
  BY DEF Fail, GoTo, IInv, TypeOK, InvAt, BudgetAt
<1>3. LedgerAt(i)'
  BY DEF Fail, GoTo, IInv, TypeOK, InvAt, LedgerAt
<1>4. ResultAt(i)'
  <2>1. CASE file = Gone
    BY <2>1 DEF Fail, GoTo, Stage, IInv, TypeOK, ResultAt
  <2>2. CASE pc[i] \in {"read", "parse", "commit"}
    <3>1. /\ Len(ledger[i]) = attempts[i] /\ attempts[i] > 0
          /\ Succeeded(ledger[i][attempts[i]].status)
      BY <2>2 DEF IInv, InvAt, TypeOK, BudgetAt, LedgerAt, ResultAt
    <3>2. pc'[i] = "failed"
      BY DEF Fail, GoTo, IInv, TypeOK
    <3> QED
      BY <2>2, <3>1, <3>2 DEF ResultAt
  <2> QED
    BY <2>1, <2>2
<1> QED
  BY <1>1, <1>2, <1>3, <1>4 DEF InvAt

LEMMA ErrorsKeepInv ==
    ASSUME IInv, NEW i \in Invocations,
           \/ CleanUp(i) \/ ReadFails(i)
           \/ ParseFails(i) \/ CommitFails(i)
    PROVE  TypeOK' /\ InvAt(i)'
<1>1. staged[i] \in {Gone} \union Bodies /\ Discarded(i) \in {Gone} \union Bodies
  BY DEF Discarded, IInv, TypeOK
<1>2. CASE CleanUp(i)
  BY <1>2, ErrorKeepsInv DEF CleanUp, wire, Live, LivePC
<1>3. CASE ReadFails(i)
  BY <1>1, <1>3, ErrorKeepsInv DEF ReadFails, wire, Live, LivePC
<1>4. CASE ParseFails(i)
  BY <1>1, <1>4, ErrorKeepsInv DEF ParseFails, wire, Live, LivePC
<1>5. CASE CommitFails(i)
  BY <1>1, <1>5, ErrorKeepsInv DEF CommitFails, wire, Live, LivePC
<1> QED
  BY <1>2, <1>3, <1>4, <1>5

LEMMA ReadKeepsInv ==
    ASSUME IInv, NEW i \in Invocations, Read(i)
    PROVE  TypeOK' /\ InvAt(i)'
<1>1. /\ pc[i] = "read" /\ staged[i] # Gone
      /\ bytes' = [bytes EXCEPT ![i] = staged[i]]
      /\ pc' = [pc EXCEPT ![i] = "parse"]
      /\ UNCHANGED <<endpoint, attempts, arrived, redirects, answer, receipt, staged, ledger, reported>>
  BY DEF Read, GoTo, wire
<1>2. staged[i] \in Bodies /\ staged[i] = receipt[i]
  BY <1>1 DEF IInv, TypeOK, InvAt, ResultAt
<1>3. TypeOK'
  <2>1. pc' \in [Invocations -> {"idle"} \union LivePC \union EndPC]
    BY <1>1 DEF IInv, TypeOK, LivePC
  <2> QED
    BY <2>1, <1>1, <1>2 DEF IInv, TypeOK
<1>4. pc[i] = "read" /\ pc'[i] = "parse" /\ InvAt(i)
  BY <1>1 DEF IInv, TypeOK
<1>5. BudgetAt(i)'
  BY <1>1, <1>4 DEF InvAt, BudgetAt
<1>6. LedgerAt(i)'
  BY <1>1 DEF IInv, TypeOK, InvAt, LedgerAt
<1>7. ResultAt(i)'
  <2>1. bytes'[i] = staged[i]
    BY <1>1 DEF IInv, TypeOK
  <2> QED
    BY <1>1, <1>2, <1>4, <2>1 DEF InvAt, ResultAt
<1> QED
  BY <1>3, <1>5, <1>6, <1>7 DEF InvAt

\* Parse of a file, which a commit follows; parse of a user and the commit,
\* which end the command.
LEMMA AdvanceKeepsInv ==
    ASSUME IInv, NEW i \in Invocations, Parse(i) \/ Commit(i)
    PROVE  TypeOK' /\ InvAt(i)'
<1>1. /\ pc[i] \in {"parse", "commit"}
      /\ UNCHANGED <<endpoint, attempts, arrived, redirects, answer, receipt, bytes, ledger>>
      /\ \/ /\ pc' = [pc EXCEPT ![i] = "commit"]
            /\ UNCHANGED <<staged, reported>>
         \/ /\ pc' = [pc EXCEPT ![i] = "ok"]
            /\ reported' = [reported EXCEPT ![i] = attempts[i]]
            /\ staged' = [staged EXCEPT ![i] = Gone]
  BY DEF Parse, Commit, GoTo, Stage, wire
<1>2. TypeOK'
  <2>1. pc' \in [Invocations -> {"idle"} \union LivePC \union EndPC]
    <3>1. pc \in [Invocations -> {"idle"} \union LivePC \union EndPC]
      BY DEF IInv, TypeOK
    <3> QED
      BY <1>1, <3>1 DEF LivePC, EndPC
  <2>2. reported' \in [Invocations -> 0 .. 2]
    <3>1. reported \in [Invocations -> 0 .. 2] /\ attempts[i] \in 0 .. 2
      BY DEF IInv, TypeOK
    <3> QED
      BY <1>1, <3>1
  <2>3. staged' \in [Invocations -> {Gone} \union Bodies]
    <3>1. staged \in [Invocations -> {Gone} \union Bodies]
      BY DEF IInv, TypeOK
    <3> QED
      BY <1>1, <3>1
  <2> QED
    BY <2>1, <2>2, <2>3, <1>1 DEF IInv, TypeOK
<1>3. BudgetAt(i)'
  BY <1>1 DEF IInv, TypeOK, InvAt, BudgetAt
<1>4. LedgerAt(i)'
  BY <1>1 DEF IInv, TypeOK, InvAt, LedgerAt
<1>5. ResultAt(i)'
  <2>1. pc'[i] \in {"commit", "ok"}
    BY <1>1 DEF IInv, TypeOK
  <2> QED
    BY <1>1, <2>1 DEF IInv, InvAt, ResultAt
<1> QED
  BY <1>2, <1>3, <1>4, <1>5 DEF InvAt

LEMMA EnvironmentKeepsInv ==
    ASSUME IInv, NEW i \in Invocations, Reap(i) \/ Crash(i)
    PROVE  TypeOK' /\ InvAt(i)'
<1>1. CASE Reap(i)
  <2>1. /\ staged' = [staged EXCEPT ![i] = Gone]
        /\ UNCHANGED <<pc, endpoint, attempts, arrived, redirects, answer, receipt, bytes,
                       ledger, reported>>
    BY <1>1 DEF Reap, Stage, wire
  <2>2. TypeOK'
    BY <2>1 DEF IInv, TypeOK
  <2>3. BudgetAt(i)' /\ LedgerAt(i)'
    BY <2>1 DEF IInv, InvAt, BudgetAt, LedgerAt
  <2>4. staged'[i] = Gone
    BY <2>1 DEF IInv, TypeOK
  <2>5. ResultAt(i)'
    BY <2>1, <2>4 DEF IInv, InvAt, ResultAt
  <2> QED
    BY <2>2, <2>3, <2>5 DEF InvAt
<1>2. CASE Crash(i)
  <2>1. pc' = [pc EXCEPT ![i] = "crashed"]
    BY <1>2 DEF Crash, GoTo
  <2>2. pc' \in [Invocations -> {"idle"} \union LivePC \union EndPC]
    BY <2>1 DEF IInv, TypeOK, EndPC
  <2>3. TypeOK'
    BY <1>2, <2>2 DEF Crash, wire, IInv, TypeOK
  <2>4. /\ pc'[i] = "crashed"
        /\ UNCHANGED <<endpoint, attempts, arrived, redirects, answer, receipt, staged, bytes,
                       ledger, reported>>
    BY <1>2, <2>1 DEF Crash, wire, IInv, TypeOK
  <2>5. BudgetAt(i)'
    BY <2>4 DEF IInv, InvAt, BudgetAt
  <2>6. LedgerAt(i)'
    BY <2>4 DEF IInv, InvAt, LedgerAt
  <2>7. ResultAt(i)'
    BY <2>4 DEF IInv, InvAt, ResultAt
  <2> QED
    BY <2>3, <2>5, <2>6, <2>7 DEF InvAt
<1> QED
  BY <1>1, <1>2

-----------------------------------------------------------------------------
(***************************************************************************)
(* Theorems                                                                *)
(***************************************************************************)

LEMMA StepKeepsInv == IInv /\ [Next]_vars => IInv'
<1> SUFFICES ASSUME IInv, [Next]_vars PROVE IInv'
  OBVIOUS
<1>1. CASE UNCHANGED vars
  <2>1. TypeOK'
    BY <1>1 DEF vars, wire, IInv, TypeOK
  <2>2. \A i \in Invocations : Same(i)
    BY <1>1 DEF vars, wire, Same
  <2> QED
    BY <2>1, <2>2, SameKeepsInv DEF IInv
<1>2. ASSUME NEW j \in Invocations, Begin(j) \/ Local(j) \/ Outside(j) PROVE IInv'
  <2>1. TypeOK' /\ InvAt(j)'
    BY <1>2, BeginKeepsInv, SendKeepsInv, ArriveKeepsInv, RedirectKeepsInv,
       TransportErrorKeepsInv, AnswerKeepsInv, AcceptKeepsInv, RetryKeepsInv,
       AbandonKeepsInv, ErrorsKeepInv, ReadKeepsInv, AdvanceKeepsInv,
       EnvironmentKeepsInv DEF Local, Outside
  <2>2. ASSUME NEW i \in Invocations, i # j PROVE InvAt(i)'
    BY <1>2, <2>2, OthersAreSame, SameKeepsInv DEF IInv
  <2> QED
    BY <2>1, <2>2 DEF IInv
<1> QED
  BY <1>1, <1>2 DEF Next

\* The inductive invariant holds.
THEOREM InvariantHolds == Spec => []IInv
<1>1. Init => IInv
  <2> SUFFICES ASSUME Init PROVE IInv
    OBVIOUS
  <2>1. \A i \in Invocations : InvAt(i)
    <3> TAKE i \in Invocations
    <3>1. BudgetAt(i)
      BY DEF Init, BudgetAt, MaximumAttempts, Tier
    <3>2. LedgerAt(i)
      BY DEF Init, LedgerAt
    <3>3. ResultAt(i)
      BY DEF Init, ResultAt, NoAnswer
    <3> QED
      BY <3>1, <3>2, <3>3 DEF InvAt
  <2> QED
    BY <2>1, TypeInit DEF IInv
<1> QED
  BY <1>1, StepKeepsInv, PTL DEF Spec

\* Type correctness of the gateway and the commands that use it.
THEOREM TypeCorrect == Spec => []TypeOK
<1>1. IInv => TypeOK
  BY DEF IInv
<1> QED
  BY <1>1, InvariantHolds, PTL

\* Of a pull Figma counts at most one request that it did not itself ask for
\* by a redirect to api.figma.com, and of a whoami two.
THEOREM BudgetIsKept == Spec => []RequestBudget
<1>1. IInv => RequestBudget
  <2> SUFFICES ASSUME IInv, NEW i \in Invocations
               PROVE  Len(arrived[i]) <= MaximumAttempts(endpoint[i]) + redirects[i]
    BY DEF RequestBudget
  <2>1. BudgetAt(i)
    BY DEF IInv, InvAt
  <2>2. attempts[i] \in Nat /\ redirects[i] \in Nat /\ Len(arrived[i]) \in Nat
    BY RedirectsAssumption DEF IInv, TypeOK
  <2>3. MaximumAttempts(endpoint[i]) \in Nat
    BY DEF MaximumAttempts
  <2> QED
    BY <2>1, <2>2, <2>3 DEF BudgetAt
<1> QED
  BY <1>1, InvariantHolds, PTL

\* Every request Figma counted belongs to an attempt in meta.network of the
\* printed response, and only followed redirects are not counted there.
THEOREM ReportIsComplete == Spec => []ReportCoversArrivals
<1>1. IInv => ReportCoversArrivals
  BY DEF IInv, InvAt, BudgetAt, ReportCoversArrivals
<1> QED
  BY <1>1, InvariantHolds, PTL

\* The durable ledger misses at most one attempt of a command.
THEOREM LedgerIsClose == Spec => []LedgerLagsByOne
<1>1. IInv => LedgerLagsByOne
  BY DEF IInv, InvAt, LedgerAt, LedgerLagsByOne
<1> QED
  BY <1>1, InvariantHolds, PTL

\* A retry follows a recorded server error or failed transfer.
THEOREM RetriesAreRecorded == Spec => []RetriesFollowRecordedFailures
<1>1. IInv => RetriesFollowRecordedFailures
  BY DEF IInv, InvAt, LedgerAt, RetriesFollowRecordedFailures
<1> QED
  BY <1>1, InvariantHolds, PTL

\* A result is the whole last answer, recorded as a success.
THEOREM ResultIsFresh == Spec => []ResultIsLastAnswer
<1>1. IInv => ResultIsLastAnswer
  <2> SUFFICES ASSUME IInv, NEW i \in Invocations, pc[i] = "ok"
               PROVE  /\ bytes[i] = receipt[i]
                      /\ \A k \in 1 .. Len(bytes[i]) : bytes[i][k] = attempts[i]
                      /\ Len(ledger[i]) = attempts[i]
                      /\ Succeeded(ledger[i][attempts[i]].status)
    BY DEF ResultIsLastAnswer
  <2> QED
    BY DEF IInv, InvAt, LedgerAt, ResultAt
<1> QED
  BY <1>1, InvariantHolds, PTL

\* A failed download leaves no staging file behind.
THEOREM FailedStagesAreRemoved == Spec => []FailedDownloadLeavesNoStage
<1>1. IInv => FailedDownloadLeavesNoStage
  BY DEF IInv, InvAt, ResultAt, FailedDownloadLeavesNoStage
<1> QED
  BY <1>1, InvariantHolds, PTL
=============================================================================
