---------------------------- MODULE OnlineCommand ----------------------------
(***************************************************************************)
(* `snapshot pull` and `auth whoami` from the command line to Figma        *)
(* (figstash-cli app.rs: snapshot_pull, auth_command): --offline is looked *)
(* at first, then a token is resolved once, and then the gateway of        *)
(* FigmaGateway makes up to two attempts with it, while auth commands      *)
(* change the keyring and the ledger's month ends.                         *)
(***************************************************************************)
EXTENDS QuotaReport, Credentials

ASSUME ClientsAssumption == Clients = Invocations

VARIABLES
    offline,  \* --offline
    carried   \* the tokens of an invocation's attempts, in order (history)

lineVars == <<offline, carried>>
onlineVars == <<vars, quotaVars, credentialVars, lineVars>>

OnlineTypeOK ==
    /\ TypeOK
    /\ QuotaTypeOK
    /\ CredentialsTypeOK
    /\ offline \in [Invocations -> BOOLEAN]
    /\ carried \in [Invocations -> Seq(Tokens)]

OnlineInit ==
    /\ Init
    /\ QuotaInit
    /\ CredentialsInit
    /\ offline \in [Invocations -> BOOLEAN]
    /\ carried = [i \in Invocations |-> <<>>]

-----------------------------------------------------------------------------
\* The token is read after the check of --offline, and for a pull after the
\* store is open and locked.
ResolveToken(i) ==
    /\ pc[i] = "idle"
    /\ ~offline[i]
    /\ Resolve(i)
    /\ UNCHANGED <<vars, quotaVars, lineVars>>

StartOnline(i, e) ==
    /\ credential[i].code = "none"
    /\ Start(i, e)
    /\ UNCHANGED <<quotaVars, credentialVars, lineVars>>

\* offline_mode, an error before or of the token, or one after it.
RefuseOnline(i, e) ==
    /\ Refuse(i, e)
    /\ UNCHANGED <<quotaVars, credentialVars, lineVars>>

\* Variant: the token is looked up for every request, if there is one.
SendResolvingAnew(i) ==
    /\ Send(i)
    /\ \E r \in {x \in Resolutions \union {credential[i]} : x.code = "none"} :
           carried' = [carried EXCEPT ![i] = Append(@, r.secret)]
    /\ UNCHANGED <<quotaVars, credentialVars, offline>>

\* execute_classified passes its credential to every download; a redirect to
\* api.figma.com that is followed repeats the header.
SendWithToken(i) ==
    /\ Send(i)
    /\ carried' = [carried EXCEPT ![i] = Append(@, credential[i].secret)]
    /\ UNCHANGED <<quotaVars, credentialVars, offline>>

\* Every other step of the gateway and of its environment.
GatewayStep(i) ==
    /\ Local(i) \/ Outside(i)
    /\ attempts' = attempts
    /\ Stamp
    /\ UNCHANGED <<credentialVars, lineVars>>

AuthCommand == AuthNext /\ UNCHANGED <<vars, quotaVars, lineVars>>

MonthEnds == NewMonth /\ UNCHANGED <<vars, credentialVars, lineVars>>

OnlineNext ==
    \/ \E i \in Invocations :
           \/ ResolveToken(i)
           \/ \E e \in Endpoints : StartOnline(i, e) \/ RefuseOnline(i, e)
           \/ SendWithToken(i)
           \/ GatewayStep(i)
    \/ AuthCommand
    \/ MonthEnds

OnlineSpec == OnlineInit /\ [][OnlineNext]_onlineVars

\* A running command is scheduled, and its timers expire; Figma, the network
\* and the user owe it nothing.
OnlineFairSpec ==
    /\ OnlineSpec
    /\ \A i \in Invocations :
           WF_onlineVars(SendWithToken(i) \/ (GatewayStep(i) /\ Local(i)))

-----------------------------------------------------------------------------
\* Figma sees a request only of a command without --offline and with a usable
\* token, and all requests of a command carry the token whose source whoami
\* reports: FIGMA_TOKEN if it is set, and else the one entry the keyring held
\* when the command looked, also when `auth set` replaces it before the retry.
RequestsCarryOneToken ==
    \A i \in Invocations :
        /\ arrived[i] # <<>> => ~offline[i] /\ Len(carried[i]) = attempts[i]
        /\ \A k \in 1 .. Len(carried[i]) :
               /\ carried[i][k] = carried[i][1]
               /\ credential[i].source = "environment" => carried[i][k] = environment
               /\ credential[i].source = "keyring" => environment \in {Absent, Undecodable}
               /\ credential[i].source # "none"
=============================================================================
