------------------------- MODULE OnlineCommandProofs -------------------------
(***************************************************************************)
(* Proofs about OnlineCommand: with --offline, tokens and the clock around *)
(* it, the gateway is still that of FigmaGateway, so all that is proved    *)
(* of it holds here; and what a token may be used for.                     *)
(***************************************************************************)
EXTENDS OnlineCommand, FigmaGatewayProofs, FiniteSetTheorems

\* A step of a command line is a step of the gateway, or none of its.
LEMMA OnlineStepIsGatewayStep == [OnlineNext]_onlineVars => [Next]_vars
<1>1. CASE UNCHANGED onlineVars
    BY <1>1 DEF onlineVars
<1>2. ASSUME NEW i \in Invocations, ResolveToken(i) PROVE UNCHANGED vars
    BY <1>2 DEF ResolveToken
<1>3. ASSUME NEW i \in Invocations, NEW e \in Endpoints,
             StartOnline(i, e) \/ RefuseOnline(i, e)
      PROVE  Next
    BY <1>3 DEF StartOnline, RefuseOnline, Next, Begin
<1>4. ASSUME NEW i \in Invocations, SendWithToken(i) PROVE Next
    BY <1>4 DEF SendWithToken, Next, Local
<1>5. ASSUME NEW i \in Invocations, GatewayStep(i) PROVE Next
    BY <1>5 DEF GatewayStep, Next
<1>6. ASSUME AuthCommand \/ MonthEnds PROVE UNCHANGED vars
    BY <1>6 DEF AuthCommand, MonthEnds
<1> QED BY <1>1, <1>2, <1>3, <1>4, <1>5, <1>6 DEF OnlineNext

\* The composition implements the gateway: nothing that --offline, the keyring
\* or the clock do lets a command take a step that FigmaGateway does not.
THEOREM OnlineImplementsGateway == OnlineSpec => Spec
<1>1. OnlineInit => Init
    BY DEF OnlineInit
<1> QED BY <1>1, OnlineStepIsGatewayStep, PTL DEF OnlineSpec, Spec

\* What FigmaGatewayProofs shows of the gateway is so for the command line.
THEOREM OnlineBudget ==
    OnlineSpec => [](RequestBudget /\ ReportCoversArrivals /\ ResultIsLastAnswer)
BY OnlineImplementsGateway, BudgetIsKept, ReportIsComplete, ResultIsFresh, PTL

-----------------------------------------------------------------------------
(***************************************************************************)
(* The token.  A command that is past its start has resolved one, is not   *)
(* offline, and has put this one into every request.                       *)
(***************************************************************************)
Usable(c) ==
    /\ c.secret \in Tokens
    /\ c.source \in {"environment", "keyring"}
    /\ c.source = "environment" => c.secret = environment
    /\ c.source = "keyring" => environment \in {Absent, Undecodable}

TokenAt(i) ==
    /\ credential[i].code = "none" => Usable(credential[i]) /\ ~offline[i]
    /\ Live(i) => credential[i].code = "none"
    /\ carried[i] # <<>> => credential[i].code = "none"
    /\ Len(carried[i]) = attempts[i]
    /\ \A k \in 1 .. Len(carried[i]) : carried[i][k] = credential[i].secret

TokenInv ==
    /\ CredentialsTypeOK
    /\ offline \in [Invocations -> BOOLEAN]
    /\ carried \in [Invocations -> Seq(Tokens)]
    /\ \A i \in Invocations : TokenAt(i)

\* Whatever resolve returns can be used, or is refused.
LEMMA ResolutionType ==
    ASSUME CredentialsTypeOK, NEW r \in Resolutions
    PROVE  r \in Credential /\ r.code # "unresolved" /\ (r.code = "none" => Usable(r))
<1> USE SecretsAssumption
<1>1. CASE environment \notin {Absent, Undecodable}
    BY <1>1 DEF Resolutions, CredentialsTypeOK, PersonalAccessToken, Refused, Credential,
                Sources, Usable
<1>2. CASE environment \in {Absent, Undecodable}
    BY <1>2 DEF Resolutions, CredentialsTypeOK, PersonalAccessToken, Refused, Credential,
                Sources, Usable
<1> QED BY <1>1, <1>2

LEMMA TokenInit == OnlineInit => TokenInv
<1> SUFFICES ASSUME OnlineInit PROVE TokenInv
    OBVIOUS
<1>1. CredentialsTypeOK
    BY ClientsAssumption
    DEF OnlineInit, CredentialsInit, CredentialsTypeOK, Refused, Credential, Sources
<1>2. ASSUME NEW i \in Invocations PROVE TokenAt(i)
  <2>1. /\ credential[i].code = "unresolved" /\ carried[i] = <<>>
        /\ attempts[i] = 0 /\ pc[i] = "idle"
      BY ClientsAssumption DEF OnlineInit, Init, CredentialsInit, Refused
  <2>2. Len(<<>>) = 0 /\ 1 .. 0 = {}
      OBVIOUS
  <2> QED BY <2>1, <2>2 DEF TokenAt, Live, LivePC
<1> QED BY <1>1, <1>2 DEF OnlineInit, TokenInv

\* No step of the gateway but its start makes a command live.
LEMMA LocalStaysLive ==
    ASSUME TypeOK, NEW i \in Invocations, Local(i) \/ Outside(i)
    PROVE  \A j \in Invocations : Live(j)' => Live(j)
<1>1. pc' = pc \/ \E there \in LivePC \union EndPC : pc' = [pc EXCEPT ![i] = there]
  <2>1. CASE Local(i)
      BY <2>1
      DEF Local, Send, TimeOut, Break, Accept, Retry, GiveUp, RecordFails, CleanUp, Read, ReadFails,
          Parse, ParseFails, Commit, CommitFails, Fail, GoTo, LivePC, EndPC
  <2>2. CASE Outside(i)
      BY <2>2
      DEF Outside, Arrive, Redirect, Disconnect, StagingFails, Overflow, Answer, Deliver, Break, Reap,
          Crash, GoTo, LivePC, EndPC
  <2> QED BY <2>1, <2>2
<1>2. pc' = pc \/ Live(i)
    BY DEF Local, Outside, Send, TimeOut, Accept, Retry, GiveUp, RecordFails, Record, CleanUp,
           Read, ReadFails, Parse, ParseFails, Commit, CommitFails, Arrive, Redirect,
           Disconnect, StagingFails, Overflow, Answer, Deliver, Reap, Crash, Live, LivePC
<1>3. pc \in [Invocations -> {"idle"} \union LivePC \union EndPC]
    BY DEF TypeOK
<1> QED BY <1>1, <1>2, <1>3 DEF Live

LEMMA TokenStep == TokenInv /\ TypeOK /\ [OnlineNext]_onlineVars => TokenInv'
<1> SUFFICES ASSUME TokenInv, TypeOK, [OnlineNext]_onlineVars PROVE TokenInv'
    OBVIOUS
<1> USE ClientsAssumption DEF TokenInv
\* Steps that leave the token alone and start nothing.
<1>1. ASSUME UNCHANGED <<credentialVars, lineVars>>, attempts' = attempts,
             \A j \in Invocations : Live(j)' => Live(j) \/ credential[j].code = "none"
      PROVE  TokenInv'
    BY <1>1 DEF credentialVars, lineVars, CredentialsTypeOK, TokenAt, Usable
<1>2. CASE UNCHANGED onlineVars
    BY <1>1, <1>2 DEF onlineVars, vars, wire, Live
<1>3. ASSUME NEW i \in Invocations, ResolveToken(i) PROVE TokenInv'
  <2>1. PICK r \in Resolutions : credential' = [credential EXCEPT ![i] = r]
      BY <1>3 DEF ResolveToken, Resolve
  <2>2. /\ UNCHANGED <<environment, keyring, offline, carried, pc, attempts>>
        /\ pc[i] = "idle" /\ ~offline[i] /\ credential[i].code = "unresolved"
        /\ fresh' \subseteq fresh
      BY <1>3 DEF ResolveToken, Resolve, Unresolved, lineVars, vars, wire
  <2>3. r \in Credential /\ (r.code = "none" => Usable(r))
      BY ResolutionType
  <2>4. CredentialsTypeOK'
      BY <2>1, <2>2, <2>3 DEF CredentialsTypeOK
  <2>5. ASSUME NEW j \in Invocations PROVE TokenAt(j)'
    <3>1. CASE j = i
        BY <3>1, <2>1, <2>2, <2>3 DEF CredentialsTypeOK, TokenAt, Usable, Live, LivePC
    <3>2. CASE j # i
        BY <3>2, <2>1, <2>2 DEF CredentialsTypeOK, TokenAt, Usable, Live
    <3> QED BY <3>1, <3>2
  <2> QED BY <2>2, <2>4, <2>5
<1>4. ASSUME NEW i \in Invocations, NEW e \in Endpoints,
             StartOnline(i, e) \/ RefuseOnline(i, e)
      PROVE  TokenInv'
    BY <1>1, <1>4
    DEF StartOnline, RefuseOnline, Start, Refuse, Fail, GoTo, Live, LivePC, wire, TypeOK
<1>5. ASSUME NEW i \in Invocations, SendWithToken(i) PROVE TokenInv'
  <2>1. /\ UNCHANGED <<credentialVars, offline>>
        /\ pc[i] = "send" /\ pc' = [pc EXCEPT ![i] = "wire"]
        /\ attempts' = [attempts EXCEPT ![i] = @ + 1]
        /\ carried' = [carried EXCEPT ![i] = Append(@, credential[i].secret)]
      BY <1>5 DEF SendWithToken, Send, GoTo
  <2>2. credential[i].code = "none" /\ credential[i].secret \in Tokens
      BY <2>1 DEF TokenAt, Live, LivePC, Usable
  <2>3. carried' \in [Invocations -> Seq(Tokens)]
      BY <2>1, <2>2
  <2>4. ASSUME NEW j \in Invocations PROVE TokenAt(j)'
    <3>1. CASE j = i
      <4>1. carried'[j] = Append(carried[i], credential[i].secret)
          BY <3>1, <2>1
      <4>2. /\ carried[i] \in Seq(Tokens) /\ Len(carried[i]) = attempts[i]
            /\ attempts[i] \in 0 .. 2 /\ attempts'[j] = attempts[i] + 1
          BY <3>1, <2>1 DEF TokenAt, TypeOK
      <4>3. Len(carried'[j]) = attempts'[j]
          BY <4>1, <4>2, <2>2
      <4>4. ASSUME NEW k \in 1 .. Len(carried'[j])
            PROVE  carried'[j][k] = credential[i].secret
        <5>1. CASE k \in 1 .. Len(carried[i])
          <6>1. carried'[j][k] = carried[i][k]
              BY <4>1, <4>2, <2>2, <5>1
          <6> QED BY <6>1, <5>1 DEF TokenAt
        <5>2. CASE k = Len(carried[i]) + 1
            BY <4>1, <4>2, <2>2, <5>2
        <5> QED BY <5>1, <5>2, <4>1, <4>2, <2>2
      <4> QED BY <3>1, <4>3, <4>4, <2>1, <2>2 DEF TokenAt, Usable, credentialVars
    <3>2. CASE j # i
        BY <3>2, <2>1 DEF TokenAt, Usable, Live, credentialVars, TypeOK
    <3> QED BY <3>1, <3>2
  <2> QED BY <2>1, <2>3, <2>4 DEF CredentialsTypeOK, credentialVars
<1>6. ASSUME NEW i \in Invocations, GatewayStep(i) PROVE TokenInv'
  <2>1. \A j \in Invocations : Live(j)' => Live(j)
      BY <1>6, LocalStaysLive DEF GatewayStep
  <2> QED BY <1>1, <1>6, <2>1 DEF GatewayStep
<1>7. CASE AuthCommand
  <2>1. UNCHANGED <<environment, credential, lineVars, pc, attempts>>
      BY <1>7 DEF AuthCommand, AuthNext, AuthSet, AuthClear, AuthStatus, Doctor, Say, vars, wire
  <2>2. keyring' \in Tokens \union {Absent} /\ fresh' \subseteq Answers
      BY <1>7
      DEF AuthCommand, AuthNext, AuthSet, AuthClear, AuthStatus, Doctor, Say, Status,
          CredentialsTypeOK, Answers, Sources
  <2> QED BY <2>1, <2>2 DEF CredentialsTypeOK, TokenAt, Usable, Live, lineVars
<1>8. CASE MonthEnds
    BY <1>1, <1>8 DEF MonthEnds, vars, wire, Live
<1> QED BY <1>2, <1>3, <1>4, <1>5, <1>6, <1>7, <1>8 DEF OnlineNext

\* What is known of the token holds throughout.
LEMMA TokenHolds == OnlineSpec => []TokenInv
<1>1. OnlineSpec => []TypeOK
    BY OnlineImplementsGateway, TypeCorrect, PTL
<1> QED BY <1>1, TokenInit, TokenStep, PTL DEF OnlineSpec

\* However the keyring changes while a command is under way, and whatever
\* environment it runs in: no request without a token, none of an offline
\* command, and none with another token than the first.
THEOREM OneToken == OnlineSpec => []RequestsCarryOneToken
<1>1. TokenInv /\ IInv => RequestsCarryOneToken
  <2> SUFFICES ASSUME TokenInv, IInv, NEW i \in Invocations
               PROVE  /\ arrived[i] # <<>> => ~offline[i] /\ Len(carried[i]) = attempts[i]
                      /\ \A k \in 1 .. Len(carried[i]) :
                             /\ carried[i][k] = carried[i][1]
                             /\ credential[i].source = "environment" =>
                                    carried[i][k] = environment
                             /\ credential[i].source = "keyring" =>
                                    environment \in {Absent, Undecodable}
                             /\ credential[i].source # "none"
      BY DEF RequestsCarryOneToken
  <2>1. TokenAt(i) /\ carried[i] \in Seq(Tokens)
      BY DEF TokenInv
  <2>2. /\ \A k \in 1 .. Len(arrived[i]) : arrived[i][k] <= attempts[i]
        /\ arrived[i] \in Seq(1 .. 2) /\ attempts[i] \in 0 .. 2
      BY DEF IInv, InvAt, BudgetAt, TypeOK
  <2>3. ASSUME carried[i] # <<>> PROVE Usable(credential[i]) /\ ~offline[i]
      BY <2>1, <2>3 DEF TokenAt
  <2>4. arrived[i] # <<>> => carried[i] # <<>>
    <3> SUFFICES ASSUME arrived[i] # <<>>, carried[i] = <<>> PROVE FALSE
        OBVIOUS
    <3>1. attempts[i] = 0
        BY <2>1 DEF TokenAt
    <3>2. 1 \in 1 .. Len(arrived[i]) /\ arrived[i][1] \in 1 .. 2
        BY <2>2
    <3> QED BY <3>1, <3>2, <2>2
  <2>5. ASSUME NEW k \in 1 .. Len(carried[i])
        PROVE  /\ carried[i][k] = carried[i][1]
               /\ credential[i].source = "environment" => carried[i][k] = environment
               /\ credential[i].source = "keyring" => environment \in {Absent, Undecodable}
               /\ credential[i].source # "none"
    <3>1. carried[i] # <<>> /\ 1 \in 1 .. Len(carried[i])
        BY <2>1
    <3> QED BY <3>1, <2>1, <2>3 DEF TokenAt, Usable
  <2> QED BY <2>1, <2>3, <2>4, <2>5 DEF TokenAt
<1>2. OnlineSpec => []IInv
    BY OnlineImplementsGateway, InvariantHolds, PTL
<1> QED BY <1>1, <1>2, TokenHolds, PTL

-----------------------------------------------------------------------------
(***************************************************************************)
(* The clock of the quota report                                           *)
(***************************************************************************)

\* A stamp is a month of the clock.
LEMMA QuotaStep == QuotaTypeOK /\ [OnlineNext]_onlineVars => QuotaTypeOK'
<1> SUFFICES ASSUME QuotaTypeOK, [OnlineNext]_onlineVars PROVE QuotaTypeOK'
    OBVIOUS
<1> USE LastMonthAssumption
<1>1. ASSUME UNCHANGED quotaVars PROVE QuotaTypeOK'
    BY <1>1 DEF QuotaTypeOK, quotaVars
<1>2. ASSUME Stamp PROVE QuotaTypeOK'
  <2>1. \A i \in Invocations : Append(completed[i], month) \in Seq(0 .. LastMonth)
      BY DEF QuotaTypeOK
  <2> QED BY <1>2, <2>1 DEF Stamp, QuotaTypeOK
<1>3. ASSUME NewMonth PROVE QuotaTypeOK'
    BY <1>3 DEF NewMonth, QuotaTypeOK
<1> QED
    BY <1>1, <1>2, <1>3
    DEF OnlineNext, onlineVars, ResolveToken, StartOnline, RefuseOnline, SendWithToken,
        GatewayStep, AuthCommand, MonthEnds

\* Type correctness of the command line to Figma.
THEOREM OnlineTypeCorrect == OnlineSpec => []OnlineTypeOK
<1>1. OnlineInit => QuotaTypeOK
    BY LastMonthAssumption DEF OnlineInit, QuotaInit, QuotaTypeOK
<1>2. OnlineSpec => []TypeOK
    BY OnlineImplementsGateway, TypeCorrect, PTL
<1>3. TokenInv => CredentialsTypeOK /\ offline \in [Invocations -> BOOLEAN]
                  /\ carried \in [Invocations -> Seq(Tokens)]
    BY DEF TokenInv
<1>4. TypeOK /\ QuotaTypeOK /\ TokenInv => OnlineTypeOK
    BY <1>3 DEF OnlineTypeOK
<1> QED BY <1>1, <1>2, <1>4, QuotaStep, TokenHolds, PTL DEF OnlineSpec

-----------------------------------------------------------------------------
(***************************************************************************)
(* What auth answers, and what a request then finds.  An answer is fresh   *)
(* while the keyring is as it left or saw it.                              *)
(***************************************************************************)
TrueAnswer(a) ==
    /\ a.command = "set" => keyring # Absent
    /\ a.command = "status" => a.source = Status
    /\ a.command = "clear" =>
           /\ keyring = Absent
           /\ a.source = IF environment = Absent THEN "none" ELSE "environment"
    /\ a.command = "doctor" => a.source \in {Status, "none"}

FreshInv == \A a \in fresh : a \in Answers /\ TrueAnswer(a)

LEMMA FreshStep ==
    FreshInv /\ CredentialsTypeOK /\ [OnlineNext]_onlineVars => FreshInv'
<1> SUFFICES ASSUME FreshInv, CredentialsTypeOK, [OnlineNext]_onlineVars
             PROVE  FreshInv'
    OBVIOUS
<1> USE SecretsAssumption
\* Nobody changes the keyring, and no answer is added.
<1>1. ASSUME environment' = environment, keyring' = keyring, fresh' \subseteq fresh
      PROVE  FreshInv'
    BY <1>1 DEF FreshInv, TrueAnswer, Status, Answers
<1>2. ASSUME NEW i \in Invocations, ResolveToken(i) PROVE FreshInv'
    BY <1>1, <1>2 DEF ResolveToken, Resolve
<1>3. ASSUME AuthNext PROVE FreshInv'
  <2>1. PICK command \in {"set", "status", "clear", "doctor"}, source \in Sources,
             secret \in Tokens \union {Absent} :
             /\ Say(command, source, secret)
             /\ command = "set" => secret # Absent
             /\ command = "status" => source = Status /\ secret = keyring
             /\ command = "clear" =>
                    /\ secret = Absent
                    /\ source = IF environment = Absent THEN "none" ELSE "environment"
             /\ command = "doctor" => source \in {Status, "none"} /\ secret = keyring
    <3>1. ASSUME NEW token \in Tokens, AuthSet(token)
          PROVE  Say("set", "keyring", token) /\ token # Absent
        BY <3>1 DEF AuthSet
    <3>2. keyring \in Tokens \union {Absent} /\ Status \in Sources
        BY DEF CredentialsTypeOK, Status, Sources
    <3>3. CASE \E token \in Tokens : AuthSet(token)
        BY <3>1, <3>3 DEF Sources
    <3>4. CASE AuthClear
        BY <3>4 DEF AuthClear, Sources
    <3>5. CASE AuthStatus
        BY <3>2, <3>5 DEF AuthStatus
    <3>6. CASE Doctor
        BY <3>2, <3>6 DEF Doctor, Sources
    <3> QED BY <1>3, <3>3, <3>4, <3>5, <3>6 DEF AuthNext
  <2>2. environment' = environment /\ keyring' = secret
      BY <2>1 DEF Say
  <2>3. ASSUME NEW a \in fresh' PROVE a \in Answers /\ TrueAnswer(a)'
    <3>1. a = [command |-> command, source |-> source] \/ (secret = keyring /\ a \in fresh)
        BY <2>1 DEF Say
    <3>2. CASE a = [command |-> command, source |-> source]
        BY <2>1, <2>2, <3>2 DEF TrueAnswer, Status, Answers
    <3>3. CASE secret = keyring /\ a \in fresh
        BY <2>2, <3>3 DEF FreshInv, TrueAnswer, Status
    <3> QED BY <3>1, <3>2, <3>3
  <2> QED BY <2>3 DEF FreshInv, Answers
<1> QED
    BY <1>1, <1>2, <1>3
    DEF OnlineNext, onlineVars, credentialVars, StartOnline, RefuseOnline, SendWithToken,
        GatewayStep, AuthCommand, MonthEnds

\* An answer that is true foretells what a client resolves.
LEMMA ResolutionIsForetold ==
    ASSUME CredentialsTypeOK, NEW a \in Answers, TrueAnswer(a), NEW r \in Resolutions
    PROVE  \/ r.code = "store_failed"
           \/ Foretold(a, r)
           \/ environment = Blank /\ r.code = "auth_missing"
           \/ /\ environment = Undecodable
              /\ r.source = IF keyring = Absent THEN "none" ELSE "keyring"
<1> USE SecretsAssumption
<1>1. a.command \in {"set", "status", "clear", "doctor"}
    BY DEF Answers
<1>2. CASE environment = Blank
    BY <1>2 DEF Resolutions, PersonalAccessToken, Refused
<1>3. CASE environment \in Tokens
  <2>1. r.source = "environment"
      BY <1>3 DEF Resolutions, PersonalAccessToken
  <2>2. Status = "environment"
      BY <1>3 DEF Status
  <2> QED BY <1>1, <1>3, <2>1, <2>2 DEF TrueAnswer, Foretold
<1>4. CASE environment \in {Undecodable, Absent} /\ r.code # "store_failed"
  <2>1. r.source = IF keyring = Absent THEN "none" ELSE "keyring"
      BY <1>4 DEF Resolutions, PersonalAccessToken, Refused, CredentialsTypeOK
  <2> QED BY <1>1, <1>4, <2>1 DEF TrueAnswer, Status, Foretold
<1> QED BY <1>2, <1>3, <1>4 DEF CredentialsTypeOK

\* auth and doctor foretell the token of the next request, in any number of
\* processes and with any secrets.
THEOREM AnswersAreTrue == OnlineSpec => AnswersForetellRequests
<1>1. OnlineInit => FreshInv
    BY DEF OnlineInit, CredentialsInit, FreshInv
<1>2. TokenInv => CredentialsTypeOK
    BY DEF TokenInv
<1>3. OnlineSpec => [](FreshInv /\ CredentialsTypeOK)
    BY <1>1, <1>2, FreshStep, TokenHolds, PTL DEF OnlineSpec
<1>4. ASSUME FreshInv, CredentialsTypeOK, [OnlineNext]_onlineVars,
             NEW c \in Clients, NEW said \in fresh, credential'[c] # credential[c]
      PROVE  \/ credential'[c].code = "store_failed"
             \/ Foretold(said, credential'[c])
             \/ environment = Blank /\ credential'[c].code = "auth_missing"
             \/ /\ environment = Undecodable
                /\ credential'[c].source = IF keyring = Absent THEN "none" ELSE "keyring"
  <2>1. PICK i \in Invocations : ResolveToken(i)
      BY <1>4
      DEF OnlineNext, onlineVars, credentialVars, StartOnline, RefuseOnline, SendWithToken,
          GatewayStep, AuthCommand, AuthNext, AuthSet, AuthClear, AuthStatus, Doctor, Say,
          MonthEnds
  <2>2. credential'[c] \in Resolutions
      BY <1>4, <2>1 DEF ResolveToken, Resolve, CredentialsTypeOK
  <2> QED BY <1>4, <2>2, ResolutionIsForetold DEF FreshInv
<1>5. FreshInv /\ CredentialsTypeOK /\ [OnlineNext]_onlineVars =>
          [\A c \in Clients, said \in fresh :
               credential'[c] # credential[c] =>
                   \/ credential'[c].code = "store_failed"
                   \/ Foretold(said, credential'[c])
                   \/ environment = Blank /\ credential'[c].code = "auth_missing"
                   \/ /\ environment = Undecodable
                      /\ credential'[c].source = IF keyring = Absent THEN "none" ELSE "keyring"
          ]_credentialVars
    BY <1>4
<1> QED BY <1>3, <1>5, PTL DEF OnlineSpec, AnswersForetellRequests


-----------------------------------------------------------------------------
(***************************************************************************)
(* What the quota report counts.  A row of the ledger has the stamp of its *)
(* attempt; one stamp more is there while the row is written, or after     *)
(* that failed.                                                            *)
(***************************************************************************)
QuotaAt(i) ==
    /\ Len(ledger[i]) <= Len(completed[i])
    /\ pc[i] = "record" => Len(completed[i]) = Len(ledger[i]) + 1
    /\ pc[i] \notin {"record", "clean", "failed", "crashed"} => Len(completed[i]) = Len(ledger[i])
    /\ \A k \in 1 .. Len(completed[i]) : completed[i][k] <= month
    /\ \A k \in 1 .. Len(ledger[i]) :
           ledger[i][k].status = 429 <=> ledger[i][k].code = "rate_limited"
    /\ answer[i].kind # "http" => answer[i].status = 0

QuotaInv == QuotaTypeOK /\ \A i \in Invocations : QuotaAt(i)

LEMMA QuotaInit0 == OnlineInit => QuotaInv
<1> SUFFICES ASSUME OnlineInit PROVE QuotaInv
    OBVIOUS
<1>1. QuotaTypeOK
    BY LastMonthAssumption DEF OnlineInit, QuotaInit, QuotaTypeOK
<1>2. ASSUME NEW i \in Invocations PROVE QuotaAt(i)
  <2>1. /\ ledger[i] = <<>> /\ completed[i] = <<>> /\ pc[i] = "idle"
        /\ answer[i].status = 0
      BY DEF OnlineInit, Init, QuotaInit, NoAnswer
  <2>2. Len(<<>>) = 0 /\ 1 .. 0 = {}
      OBVIOUS
  <2> QED BY <2>1, <2>2 DEF QuotaAt
<1> QED BY <1>1, <1>2 DEF QuotaInv

\* Attempts that end are stamped by the clock, whoever takes the step.
LEMMA StampsFollow ==
    ASSUME TypeOK, QuotaTypeOK, [OnlineNext]_onlineVars
    PROVE  /\ month' \in {month, month + 1}
           /\ \A i \in Invocations :
                  completed'[i] = IF pc'[i] = "record" /\ pc[i] # "record"
                                  THEN Append(completed[i], month) ELSE completed[i]
<1>1. ASSUME UNCHANGED quotaVars, \A i \in Invocations : pc'[i] = "record" => pc[i] = "record"
      PROVE  /\ month' \in {month, month + 1}
             /\ \A i \in Invocations :
                    completed'[i] = IF pc'[i] = "record" /\ pc[i] # "record"
                                    THEN Append(completed[i], month) ELSE completed[i]
    BY <1>1 DEF quotaVars
<1>2. CASE UNCHANGED onlineVars
    BY <1>1, <1>2 DEF onlineVars, vars
<1>3. ASSUME NEW i \in Invocations, ResolveToken(i) PROVE UNCHANGED quotaVars /\ pc' = pc
    BY <1>3 DEF ResolveToken, vars
<1>4. ASSUME NEW i \in Invocations, NEW e \in Endpoints,
             StartOnline(i, e) \/ RefuseOnline(i, e)
      PROVE  UNCHANGED quotaVars /\ \A j \in Invocations : pc'[j] = "record" => pc[j] = "record"
    BY <1>4 DEF StartOnline, RefuseOnline, Start, Refuse, Fail, GoTo, TypeOK
<1>5. ASSUME NEW i \in Invocations, SendWithToken(i)
      PROVE  UNCHANGED quotaVars /\ \A j \in Invocations : pc'[j] = "record" => pc[j] = "record"
    BY <1>5 DEF SendWithToken, Send, GoTo, TypeOK
<1>6. ASSUME NEW i \in Invocations, GatewayStep(i)
      PROVE  /\ month' \in {month, month + 1}
             /\ \A j \in Invocations :
                    completed'[j] = IF pc'[j] = "record" /\ pc[j] # "record"
                                    THEN Append(completed[j], month) ELSE completed[j]
    BY <1>6 DEF GatewayStep, Stamp, QuotaTypeOK
<1>7. ASSUME AuthCommand PROVE UNCHANGED quotaVars /\ pc' = pc
    BY <1>7 DEF AuthCommand, vars
<1>8. ASSUME MonthEnds
      PROVE  month' = month + 1 /\ completed' = completed /\ pc' = pc
    BY <1>8 DEF MonthEnds, NewMonth, vars
<1>9. CASE OnlineNext
  <2>1. CASE \E i \in Invocations :
                \/ ResolveToken(i) \/ SendWithToken(i)
                \/ \E e \in Endpoints : StartOnline(i, e) \/ RefuseOnline(i, e)
      BY <2>1, <1>1, <1>3, <1>4, <1>5
  <2>2. CASE \E i \in Invocations : GatewayStep(i)
      BY <2>2, <1>6
  <2>3. CASE AuthCommand
      BY <2>3, <1>1, <1>7
  <2>4. CASE MonthEnds
      BY <2>4, <1>8
  <2> QED BY <1>9, <2>1, <2>2, <2>3, <2>4 DEF OnlineNext
<1> QED BY <1>2, <1>9

\* A row tells a 429 from every other outcome.
LEMMA RowOfLimit ==
    ASSUME NEW a \in [kind : Kinds, status : 0 .. 999], a.kind # "http" => a.status = 0
    PROVE  Row(a).status = 429 <=> Row(a).code = "rate_limited"
<1>1. CASE a.kind = "http"
    BY <1>1 DEF Row, HttpErrorCode, Succeeded
<1>2. CASE a.kind # "http"
  <2>1. Row(a).status = 0 /\ Row(a).code = TransportErrorCode(a.kind)
      BY <1>2 DEF Row
  <2>2. TransportErrorCode(a.kind) # "rate_limited"
      BY DEF TransportErrorCode
  <2> QED BY <2>1, <2>2
<1> QED BY <1>1, <1>2

\* What a step of an invocation does to its ledger, its outcome and its place.
LEMMA LedgerSteps ==
    ASSUME TypeOK, NEW i \in Invocations, Begin(i) \/ Local(i) \/ Outside(i)
    PROVE  /\ \/ /\ ledger'[i] = ledger[i]
                 /\ pc[i] = "record" => pc'[i] \in {"record", "clean", "failed", "crashed"}
                 /\ pc'[i] = "record" => pc[i] \in {"record", "wire", "served"}
                 /\ pc'[i] \notin {"record", "clean", "failed", "crashed"} =>
                        pc[i] \notin {"record", "clean", "failed", "crashed"}
                           \/ pc[i] = pc'[i]
              \/ /\ pc[i] = "record" /\ pc'[i] # "record"
                 /\ ledger'[i] = Append(ledger[i], Row(answer[i]))
           /\ answer'[i] = answer[i] \/ answer'[i].kind = "http" \/ answer'[i].status = 0
<1> USE DEF TypeOK, GoTo, Stage, Fail
<1>1. CASE Begin(i)
    BY <1>1 DEF Begin, Start, Refuse, wire
<1>2. CASE Local(i)
  <2> USE DEF Record, wire
  <2>1. CASE Send(i)
    BY <2>1 DEF Send
  <2>2. CASE TimeOut(i)
    BY <2>2 DEF TimeOut, Break
  <2>3. CASE Accept(i) \/ Retry(i)
    BY <2>3 DEF Accept, Retry
  <2>4. CASE GiveUp(i) \/ RecordFails(i) \/ CleanUp(i)
    BY <2>4 DEF GiveUp, RecordFails, CleanUp
  <2>5. CASE Read(i) \/ ReadFails(i)
    BY <2>5 DEF Read, ReadFails
  <2>6. CASE Parse(i) \/ ParseFails(i)
    BY <2>6 DEF Parse, ParseFails
  <2>7. CASE Commit(i) \/ CommitFails(i)
    BY <2>7 DEF Commit, CommitFails
  <2> QED
    BY <1>2, <2>1, <2>2, <2>3, <2>4, <2>5, <2>6, <2>7 DEF Local
<1>3. CASE Outside(i)
  <2>1. CASE Arrive(i) \/ Redirect(i) \/ Crash(i) \/ Reap(i)
    BY <2>1 DEF Arrive, Redirect, Crash, Reap, wire, Live, LivePC
  <2>2. CASE Disconnect(i) \/ StagingFails(i) \/ \E n \in Sizes : Overflow(i, n)
    BY <2>2 DEF Disconnect, StagingFails, Overflow, Break
  <2>3. CASE \E s \in Statuses, n \in Sizes : Answer(i, s, n)
    BY <2>3 DEF Answer, Deliver
  <2> QED
    BY <1>3, <2>1, <2>2, <2>3 DEF Outside
<1> QED
  BY <1>1, <1>2, <1>3

LEMMA StampsArePast ==
    ASSUME NEW s \in Seq(Nat), NEW m \in Nat, NEW n \in Nat, m <= n,
           \A k \in 1 .. Len(s) : s[k] <= m
    PROVE  \A k \in 1 .. Len(s) : s[k] <= n
OBVIOUS

LEMMA StampsAreNaturals ==
    ASSUME QuotaTypeOK, NEW i \in Invocations
    PROVE  completed[i] \in Seq(Nat)
<1>1. \A S, T : S \subseteq T => Seq(S) \subseteq Seq(T)
    OBVIOUS
<1>2. 0 .. LastMonth \subseteq Nat /\ completed[i] \in Seq(0 .. LastMonth)
    BY LastMonthAssumption DEF QuotaTypeOK
<1> QED BY <1>1, <1>2

LEMMA QuotaAtStep ==
    ASSUME TypeOK, QuotaInv, [OnlineNext]_onlineVars, NEW i \in Invocations
    PROVE  QuotaAt(i)'
<1>1. /\ month' \in {month, month + 1}
      /\ completed'[i] = IF pc'[i] = "record" /\ pc[i] # "record"
                         THEN Append(completed[i], month) ELSE completed[i]
    BY StampsFollow DEF QuotaInv
<1>2. /\ completed[i] \in Seq(0 .. LastMonth) /\ month \in Nat
      /\ ledger[i] \in Seq(Rows)
      /\ answer[i] \in [kind : Kinds, status : 0 .. 999]
      /\ QuotaAt(i)
    BY LastMonthAssumption DEF QuotaInv, QuotaTypeOK, TypeOK, Ledgers
<1>8. \A k \in 1 .. Len(completed[i]) : completed[i][k] <= month'
  <2>1. PICK s \in Seq(Nat) : s = completed[i]
    <3>1. completed[i] \in Seq(Nat)
        BY StampsAreNaturals DEF QuotaInv
    <3> QED BY <3>1
  <2>2. PICK n \in Nat : n = month' /\ month <= n
      BY <1>1, <1>2
  <2>3. \A k \in 1 .. Len(s) : s[k] <= month
      BY <1>2, <2>1 DEF QuotaAt
  <2>4. \A k \in 1 .. Len(s) : s[k] <= n
      BY <1>2, <2>2, <2>3, StampsArePast
  <2> QED BY <2>1, <2>2, <2>4
<1>3. CASE Same(i)
  <2>1. completed'[i] = completed[i]
      BY <1>1, <1>3 DEF Same
  <2> QED BY <1>2, <1>8, <1>3, <2>1 DEF QuotaAt, Same
<1>4. CASE Begin(i) \/ Local(i) \/ Outside(i)
  <2>1. answer'[i] = answer[i] \/ answer'[i].kind = "http" \/ answer'[i].status = 0
      BY <1>4, LedgerSteps
  <2>2. CASE /\ pc[i] = "record" /\ pc'[i] # "record"
             /\ ledger'[i] = Append(ledger[i], Row(answer[i]))
    <3>1. completed'[i] = completed[i] /\ Len(completed[i]) = Len(ledger[i]) + 1
        BY <1>1, <1>2, <2>2 DEF QuotaAt
    <3>2. Row(answer[i]).status = 429 <=> Row(answer[i]).code = "rate_limited"
      <4>1. answer[i].kind # "http" => answer[i].status = 0
          BY <1>2 DEF QuotaAt
      <4>2. PICK a \in [kind : Kinds, status : 0 .. 999] : a = answer[i]
          BY <1>2
      <4>3. Row(a).status = 429 <=> Row(a).code = "rate_limited"
          BY <4>1, <4>2, RowOfLimit
      <4> QED BY <4>2, <4>3
    <3>3. /\ Len(ledger'[i]) = Len(ledger[i]) + 1
          /\ \A k \in 1 .. Len(ledger[i]) : ledger'[i][k] = ledger[i][k]
          /\ ledger'[i][Len(ledger[i]) + 1] = Row(answer[i])
          /\ Len(ledger[i]) \in Nat
      <4>1. Row(answer[i]) \in Rows
          BY <1>2, RowType
      <4> QED BY <1>2, <2>2, <4>1
    <3>4. \A k \in 1 .. Len(ledger'[i]) :
              ledger'[i][k].status = 429 <=> ledger'[i][k].code = "rate_limited"
      <4> SUFFICES ASSUME NEW k \in 1 .. Len(ledger'[i])
                   PROVE  ledger'[i][k].status = 429 <=> ledger'[i][k].code = "rate_limited"
          OBVIOUS
      <4>1. k \in 1 .. Len(ledger[i]) \/ k = Len(ledger[i]) + 1
          BY <3>3
      <4>2. CASE k \in 1 .. Len(ledger[i])
          BY <1>2, <3>3, <4>2 DEF QuotaAt
      <4>3. CASE k = Len(ledger[i]) + 1
          BY <3>2, <3>3, <4>3
      <4> QED BY <4>1, <4>2, <4>3
    <3>5. \A k \in 1 .. Len(completed'[i]) : completed'[i][k] <= month'
        BY <1>8, <3>1
    <3> QED BY <1>2, <2>1, <2>2, <3>1, <3>3, <3>4, <3>5 DEF QuotaAt
  <2>3. CASE /\ ledger'[i] = ledger[i]
             /\ pc[i] = "record" => pc'[i] \in {"record", "clean", "failed", "crashed"}
             /\ pc'[i] = "record" => pc[i] \in {"record", "wire", "served"}
             /\ pc'[i] \notin {"record", "clean", "failed", "crashed"} =>
                    pc[i] \notin {"record", "clean", "failed", "crashed"} \/ pc[i] = pc'[i]
    <3>1. CASE pc'[i] = "record" /\ pc[i] # "record"
      <4>1. /\ Len(completed'[i]) = Len(completed[i]) + 1
            /\ Len(completed[i]) = Len(ledger[i]) /\ Len(ledger[i]) \in Nat
            /\ \A k \in 1 .. Len(completed[i]) : completed'[i][k] = completed[i][k]
            /\ completed'[i][Len(completed[i]) + 1] = month
          BY <1>1, <1>2, <2>3, <3>1 DEF QuotaAt, QuotaInv, QuotaTypeOK
      <4>2. \A k \in 1 .. Len(completed'[i]) : completed'[i][k] <= month'
        <5> SUFFICES ASSUME NEW k \in 1 .. Len(completed'[i])
                     PROVE  completed'[i][k] <= month'
            OBVIOUS
        <5>1. k \in 1 .. Len(completed[i]) \/ k = Len(completed[i]) + 1
            BY <4>1
        <5>2. CASE k \in 1 .. Len(completed[i])
            BY <1>8, <4>1, <5>2
        <5>3. CASE k = Len(completed[i]) + 1
            BY <1>1, <1>2, <4>1, <5>3
        <5> QED BY <5>1, <5>2, <5>3
      <4> QED BY <1>2, <2>1, <2>3, <3>1, <4>1, <4>2 DEF QuotaAt
    <3>2. CASE ~(pc'[i] = "record" /\ pc[i] # "record")
      <4>1. completed'[i] = completed[i]
          BY <1>1, <3>2
      <4>2. \A k \in 1 .. Len(completed'[i]) : completed'[i][k] <= month'
          BY <1>8, <4>1
      <4> QED BY <1>2, <2>1, <2>3, <3>2, <4>1, <4>2 DEF QuotaAt
    <3> QED BY <3>1, <3>2
  <2> QED BY <1>4, <2>2, <2>3, LedgerSteps
<1>5. [Next]_vars
    BY OnlineStepIsGatewayStep
<1>6. CASE UNCHANGED vars
  <2>1. Same(i)
      BY <1>6 DEF Same, vars, wire
  <2> QED BY <1>3, <2>1
<1>7. CASE Next
  <2>1. PICK j \in Invocations : Begin(j) \/ Local(j) \/ Outside(j)
      BY <1>7 DEF Next
  <2>2. j # i => Same(i)
      BY <2>1, OthersAreSame
  <2> QED BY <1>3, <1>4, <2>1, <2>2
<1> QED BY <1>5, <1>6, <1>7

LEMMA QuotaInvariant == OnlineSpec => []QuotaInv
<1>1. QuotaInv /\ TypeOK /\ [OnlineNext]_onlineVars => QuotaInv'
    BY QuotaAtStep, QuotaStep DEF QuotaInv
<1>2. OnlineSpec => []TypeOK
    BY OnlineImplementsGateway, TypeCorrect, PTL
<1> QED BY <1>1, <1>2, QuotaInit0, PTL DEF OnlineSpec


\* Rows fall into the groups of two keys.
LEMMA GroupsAddUp ==
    ASSUME NEW set, IsFiniteSet(set), NEW key, NEW a, NEW b, a # b,
           \A r \in set : key[r[1]] \in {a, b}
    PROVE  AttemptedOf(Grouped(set, key), a) + AttemptedOf(Grouped(set, key), b)
               = Count(set).attempted
<1> DEFINE A == {r \in set : key[r[1]] = a}
           B == {r \in set : key[r[1]] = b}
<1>1. IsFiniteSet(A) /\ IsFiniteSet(B) /\ Cardinality(A) \in Nat /\ Cardinality(B) \in Nat
  <2>1. A \in SUBSET set /\ B \in SUBSET set
      OBVIOUS
  <2> HIDE DEF A, B
  <2> QED BY <2>1, FS_Subset, FS_CardinalityType
<1>2. Cardinality(set) = Cardinality(A) + Cardinality(B)
  <2>1. A \union B = set /\ A \intersect B = {}
      OBVIOUS
  <2> HIDE DEF A, B
  <2>2. Cardinality(A \union B) = Cardinality(A) + Cardinality(B) - Cardinality(A \intersect B)
      BY <1>1, FS_Union
  <2>3. Cardinality(A \intersect B) = 0
      BY <2>1, FS_EmptySet
  <2>4. Cardinality(set) = Cardinality(A) + Cardinality(B) - 0
      BY <2>1, <2>2, <2>3
  <2> QED BY <1>1, <2>4
<1>3. ASSUME NEW k, NEW K, K = {r \in set : key[r[1]] = k}
      PROVE  AttemptedOf(Grouped(set, key), k) = Cardinality(K)
  <2>1. CASE K = {}
    <3>1. k \notin {key[r[1]] : r \in set}
        BY <1>3, <2>1
    <3>2. k \notin DOMAIN Grouped(set, key)
        BY <3>1 DEF Grouped
    <3> QED BY <2>1, <3>2, FS_EmptySet DEF AttemptedOf
  <2>2. CASE K # {}
    <3>1. k \in {key[r[1]] : r \in set}
        BY <1>3, <2>2
    <3>2. k \in DOMAIN Grouped(set, key) /\ Grouped(set, key)[k] = Count(K)
        BY <1>3, <3>1 DEF Grouped
    <3> QED BY <3>2 DEF AttemptedOf, Count
  <2> QED BY <2>1, <2>2
<1>4. AttemptedOf(Grouped(set, key), a) = Cardinality(A)
    BY <1>3
<1>5. AttemptedOf(Grouped(set, key), b) = Cardinality(B)
    BY <1>3
<1> HIDE DEF A, B
<1> QED BY <1>2, <1>4, <1>5 DEF Count

LEMMA RowsAreFinite == IsFiniteSet(LedgerRows)
<1>1. IsFiniteSet(1 .. 2)
  <2>1. \A n \in Nat : IsFiniteSet(1 .. n)
      BY FS_Interval
  <2> QED BY <2>1
<1>2. IsFiniteSet(Invocations \X (1 .. 2))
    BY <1>1, InvocationsAssumption, FS_Product
<1> QED BY <1>2, FS_Subset DEF LedgerRows

\* One report.
LEMMA ReportAddsUp ==
    ASSUME TypeOK, QuotaInv, NEW m \in 0 .. LastMonth
    PROVE  LET report == QuotaStatus(m)
           IN  /\ AttemptedOf(report.byTier, 1) + AttemptedOf(report.byTier, 3)
                      = report.total.attempted
               /\ AttemptedOf(report.byEndpoint, "get_file")
                      + AttemptedOf(report.byEndpoint, "get_current_user")
                      = report.total.attempted
               /\ \A n \in 0 .. LastMonth \ {m} : Attempts(m) \intersect Attempts(n) = {}
               /\ m > month => report.total.attempted = 0
               /\ report.recentRateLimit # {} <=>
                      \E r \in Attempts(m) : RowOf(r).code = "rate_limited"
<1> DEFINE tiers == [i \in Invocations |-> Tier(endpoint[i])]
           set == Attempts(m)
           report == QuotaStatus(m)
<1>1. /\ report.total = Count(set) /\ report.byTier = Grouped(set, tiers)
      /\ report.byEndpoint = Grouped(set, endpoint)
      /\ report.recentRateLimit = RecentRateLimit(set)
    BY DEF QuotaStatus
<1>2. IsFiniteSet(set)
    BY RowsAreFinite, FS_Subset DEF Attempts
<1>3. \A r \in set : /\ r \in Invocations \X (1 .. 2) /\ r[1] \in Invocations /\ r[2] \in 1 .. 2
                     /\ r[2] <= Len(ledger[r[1]]) /\ MonthOf(r) = m
    BY DEF Attempts, LedgerRows
<1>4. AttemptedOf(report.byTier, 1) + AttemptedOf(report.byTier, 3) = report.total.attempted
  <2>1. \A r \in set : tiers[r[1]] \in {1, 3}
      BY <1>3 DEF Tier
  <2> HIDE DEF tiers, set
  <2> QED BY <1>1, <1>2, <2>1, GroupsAddUp
<1>5. AttemptedOf(report.byEndpoint, "get_file") + AttemptedOf(report.byEndpoint, "get_current_user")
          = report.total.attempted
  <2>1. \A r \in set : endpoint[r[1]] \in {"get_file", "get_current_user"}
      BY <1>3 DEF TypeOK, Endpoints
  <2> HIDE DEF set
  <2> QED BY <1>1, <1>2, <2>1, GroupsAddUp
<1>6. \A n \in 0 .. LastMonth \ {m} : Attempts(m) \intersect Attempts(n) = {}
    BY DEF Attempts
<1>7. m > month => report.total.attempted = 0
  <2> SUFFICES ASSUME m > month PROVE set = {}
      BY <1>1, FS_EmptySet DEF Count
  <2> SUFFICES ASSUME NEW r \in set PROVE FALSE
      OBVIOUS
  <2> DEFINE i == r[1]
             k == r[2]
  <2>1. i \in Invocations /\ k \in 1 .. 2 /\ k <= Len(ledger[i]) /\ completed[i][k] = m
      BY <1>3 DEF MonthOf
  <2>2. /\ Len(ledger[i]) <= Len(completed[i])
        /\ Len(ledger[i]) \in Nat /\ Len(completed[i]) \in Nat
        /\ \A j \in 1 .. Len(completed[i]) : completed[i][j] <= month
      BY <2>1 DEF QuotaInv, QuotaAt, QuotaTypeOK, TypeOK, Ledgers
  <2>3. k \in 1 .. Len(completed[i])
      BY <2>1, <2>2
  <2> QED BY <2>1, <2>2, <2>3, LastMonthAssumption DEF QuotaInv, QuotaTypeOK
<1>8. \A r \in set : RowOf(r).status = 429 <=> RowOf(r).code = "rate_limited"
  <2> SUFFICES ASSUME NEW r \in set
               PROVE  RowOf(r).status = 429 <=> RowOf(r).code = "rate_limited"
      OBVIOUS
  <2>1. r[1] \in Invocations /\ r[2] \in 1 .. Len(ledger[r[1]])
    <3>1. r[1] \in Invocations /\ r[2] \in 1 .. 2 /\ r[2] <= Len(ledger[r[1]])
        BY <1>3
    <3>2. Len(ledger[r[1]]) \in Nat
        BY <3>1 DEF TypeOK, Ledgers
    <3> QED BY <3>1, <3>2
  <2> QED BY <2>1 DEF RowOf, QuotaInv, QuotaAt
<1>9. report.recentRateLimit # {} <=> \E r \in set : RowOf(r).code = "rate_limited"
  <2> DEFINE limited == {r \in set : RowOf(r).status = 429}
  <2>1. report.recentRateLimit = {r \in limited : \A s \in limited : s[1] = r[1] => s[2] <= r[2]}
      BY <1>1 DEF RecentRateLimit
  <2>2. ASSUME NEW r \in limited PROVE report.recentRateLimit # {}
    <3>1. CASE <<r[1], 2>> \in limited
      <4> DEFINE last == <<r[1], 2>>
      <4>1. last[1] = r[1] /\ last[2] = 2
          OBVIOUS
      <4>2. \A s \in limited : s[2] <= last[2]
          BY <1>3
      <4> QED BY <2>1, <3>1, <4>2
    <3>2. CASE <<r[1], 2>> \notin limited
      <4>1. \A s \in limited : s[1] = r[1] => s[2] = 1
        <5> SUFFICES ASSUME NEW s \in limited, s[1] = r[1] PROVE s[2] = 1
            OBVIOUS
        <5>1. s = <<s[1], s[2]>> /\ s[2] \in 1 .. 2
            BY <1>3
        <5>2. s[2] # 2
            BY <3>2, <5>1
        <5> QED BY <5>1, <5>2
      <4>2. r[2] = 1
          BY <4>1
      <4> QED BY <2>1, <4>1, <4>2
    <3> QED BY <3>1, <3>2
  <2> QED BY <1>8, <2>1, <2>2
<1> HIDE DEF report, set
<1> QED BY <1>4, <1>5, <1>6, <1>7, <1>9 DEF report, set

\* All reports about one command.
LEMMA RowsAreCounted ==
    ASSUME TypeOK, IInv, QuotaInv, NEW i \in Invocations
    PROVE  Cardinality(Counted(i)) = Len(ledger[i])
<1>1. /\ Len(ledger[i]) \in 0 .. 2 /\ Len(ledger[i]) <= Len(completed[i])
      /\ Len(completed[i]) \in Nat
      /\ \A k \in 1 .. Len(completed[i]) : completed[i][k] \in 0 .. month
  <2>1. Len(ledger[i]) \in Nat /\ Len(ledger[i]) <= attempts[i] /\ attempts[i] \in 0 .. 2
      BY DEF TypeOK, Ledgers, IInv, InvAt, LedgerAt
  <2>2. completed[i] \in Seq(Nat) /\ month \in Nat
      BY LastMonthAssumption, StampsAreNaturals DEF QuotaInv, QuotaTypeOK
  <2>3. /\ Len(ledger[i]) <= Len(completed[i])
        /\ \A k \in 1 .. Len(completed[i]) : completed[i][k] <= month
      BY DEF QuotaInv, QuotaAt
  <2>4. \A k \in 1 .. Len(completed[i]) : completed[i][k] \in Nat
      BY <2>2
  <2>5. \A k \in 1 .. Len(completed[i]) : completed[i][k] \in 0 .. month
      BY <2>2, <2>3, <2>4
  <2>6. Len(completed[i]) \in Nat
      BY <2>2
  <2>7. Len(ledger[i]) \in 0 .. 2
    <3>1. PICK p \in Nat, q \in 0 .. 2 : p = Len(ledger[i]) /\ q = attempts[i] /\ p <= q
        BY <2>1
    <3>2. p <= q
        BY <3>1
    <3>3. p \in 0 .. 2
        BY <3>2
    <3> QED BY <3>1, <3>3
  <2> QED BY <2>3, <2>5, <2>6, <2>7
<1>2. PICK n \in 0 .. 2 : n = Len(ledger[i])
    BY <1>1
<1>3. Counted(i) = {<<i, k>> : k \in 1 .. n}
  <2>1. ASSUME NEW r \in Counted(i) PROVE r \in {<<i, k>> : k \in 1 .. n}
    <3>1. r \in Invocations \X (1 .. 2) /\ r[2] <= Len(ledger[r[1]]) /\ r[1] = i
        BY <2>1 DEF Counted, Attempts, LedgerRows
    <3>2. r = <<i, r[2]>> /\ r[2] \in 1 .. 2 /\ r[2] <= n
        BY <1>2, <3>1
    <3>3. r[2] \in 1 .. n
        BY <3>2
    <3> QED BY <3>2, <3>3
  <2>2. ASSUME NEW k \in 1 .. n PROVE <<i, k>> \in Counted(i)
    <3> DEFINE r == <<i, k>>
    <3>1. r[1] = i /\ r[2] = k /\ k \in 1 .. 2 /\ k <= Len(ledger[i]) /\ k <= Len(completed[i])
      <4>1. k \in 1 .. 2 /\ k <= n /\ k \in Nat /\ n \in Nat
          OBVIOUS
      <4>2. k <= Len(completed[i])
          BY <1>1, <1>2, <4>1
      <4> QED BY <1>2, <4>1, <4>2
    <3>2. r \in LedgerRows
        BY <3>1 DEF LedgerRows
    <3>3. MonthOf(r) \in 0 .. month
        BY <1>1, <3>1 DEF MonthOf
    <3>4. r \in UNION {Attempts(m) : m \in 0 .. month}
        BY <3>2, <3>3 DEF Attempts
    <3> QED BY <3>1, <3>4 DEF Counted
  <2> QED BY <2>1, <2>2
<1>4. Cardinality({<<i, k>> : k \in 1 .. n}) = n
  <2>1. CASE n = 0
    <3>1. {<<i, k>> : k \in 1 .. n} = {}
        BY <2>1
    <3> QED BY <2>1, <3>1, FS_EmptySet
  <2>2. CASE n = 1
    <3>1. {<<i, k>> : k \in 1 .. n} = {<<i, 1>>}
        BY <2>2
    <3> QED BY <2>2, <3>1, FS_Singleton
  <2>3. CASE n = 2
    <3>1. {<<i, k>> : k \in 1 .. n} = {<<i, 1>>} \union {<<i, 2>>}
        BY <2>3
    <3>2. <<i, 2>> \notin {<<i, 1>>}
        OBVIOUS
    <3>3. IsFiniteSet({<<i, 1>>}) /\ Cardinality({<<i, 1>>}) = 1
        BY FS_Singleton
    <3>4. \A T, x : IsFiniteSet(T) /\ x \notin T => Cardinality(T \union {x}) = Cardinality(T) + 1
        BY FS_AddElement
    <3>5. Cardinality({<<i, 1>>} \union {<<i, 2>>}) = 1 + 1
        BY <3>2, <3>3, <3>4
    <3> QED BY <2>3, <3>1, <3>5
  <2> QED BY <2>1, <2>2, <2>3
<1> QED BY <1>2, <1>3, <1>4

\* Every attempt that was recorded is in exactly one report, that of the month
\* it ended in, whenever it was written; and a report can only miss the one
\* attempt on which a command died or could not write.
THEOREM QuotaCounts == OnlineSpec => []QuotaCoversRequests
<1>1. TypeOK /\ IInv /\ QuotaInv => QuotaCoversRequests
  <2> SUFFICES ASSUME TypeOK, IInv, QuotaInv PROVE QuotaCoversRequests
      OBVIOUS
  <2>1. ASSUME NEW i \in Invocations
        PROVE  LET counted == Cardinality(Counted(i))
               IN  /\ counted = Len(ledger[i])
                   /\ attempts[i] \in {counted, counted + 1}
                   /\ pc[i] = "ok" => reported[i] = counted
                   /\ pc[i] = "failed" => reported[i] \in {counted, counted + 1}
    <3>1. PICK n : n = Cardinality(Counted(i))
        OBVIOUS
    <3>2. n = Len(ledger[i]) /\ n \in Nat /\ attempts[i] \in Nat
      <4>1. ledger[i] \in Seq(Rows) /\ attempts[i] \in 0 .. 2
          BY DEF TypeOK, Ledgers
      <4> QED BY <3>1, <4>1, RowsAreCounted
    <3>3. /\ n <= attempts[i] /\ attempts[i] <= n + 1
          /\ pc[i] = "ok" => attempts[i] = n
          /\ pc[i] \in {"ok", "failed"} => reported[i] = attempts[i]
        BY <3>2 DEF IInv, InvAt, LedgerAt, BudgetAt
    <3> QED BY <3>1, <3>2, <3>3
  <2> QED BY <2>1, ReportAddsUp DEF QuotaCoversRequests
<1>2. OnlineSpec => []TypeOK
    BY OnlineImplementsGateway, TypeCorrect, PTL
<1>3. OnlineSpec => []IInv
    BY OnlineImplementsGateway, InvariantHolds, PTL
<1> QED BY <1>1, <1>2, <1>3, QuotaInvariant, PTL
=============================================================================
