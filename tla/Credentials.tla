----------------------------- MODULE Credentials -----------------------------
(***************************************************************************)
(* The personal access token (figstash-figma auth.rs: PatProvider,         *)
(* SystemKeyring; figstash-cli app.rs: auth set, status and clear, and the *)
(* credential check of doctor).  A token comes from the environment        *)
(* variable FIGMA_TOKEN or from one entry in the keyring of the user,      *)
(* which all processes share and which may fail at any time.               *)
(***************************************************************************)
CONSTANTS
    Clients,       \* processes that send requests
    Tokens,        \* secrets that are not blank
    Blank,         \* a secret of white space
    Undecodable,   \* a FIGMA_TOKEN that is not UTF-8
    Absent         \* no variable, no entry, no token

ASSUME SecretsAssumption ==
    /\ Blank # Undecodable /\ Blank # Absent /\ Undecodable # Absent
    /\ {Blank, Undecodable, Absent} \intersect Tokens = {}

VARIABLES
    environment,  \* FIGMA_TOKEN, the same for all these processes
    keyring,      \* the password of the entry
    credential,   \* what a client has resolved
    fresh         \* the answers of auth and doctor since the keyring changed,
                  \* while a client is left to resolve a token (history)

credentialVars == <<environment, keyring, credential, fresh>>

Sources == {"environment", "keyring", "none"}
Credential == [code : {"unresolved", "none", "auth_missing", "store_failed"},
               source : Sources, secret : Tokens \union {Absent}]
Answers == [command : {"set", "status", "clear", "doctor"}, source : Sources]

Refused(code) == [code |-> code, source |-> "none", secret |-> Absent]

CredentialsTypeOK ==
    /\ environment \in Tokens \union {Blank, Undecodable, Absent}
    /\ keyring \in Tokens \union {Absent}
    /\ credential \in [Clients -> Credential]
    /\ fresh \subseteq Answers

CredentialsInit ==
    /\ environment \in Tokens \union {Blank, Undecodable, Absent}
    /\ keyring \in Tokens \union {Absent}
    /\ credential = [c \in Clients |-> Refused("unresolved")]
    /\ fresh = {}

-----------------------------------------------------------------------------
(***************************************************************************)
(* Using the token                                                         *)
(***************************************************************************)

\* Credential::personal_access_token.
PersonalAccessToken(secret, source) ==
    IF secret = Blank THEN Refused("auth_missing")
    ELSE [code |-> "none", source |-> source, secret |-> secret]

\* Variant: a blank variable is passed over like an absent one.
ResolutionsSkippingBlank ==
    IF environment \in Tokens
    THEN {PersonalAccessToken(environment, "environment")}
    ELSE {Refused("store_failed"),
          IF keyring = Absent THEN Refused("auth_missing")
                              ELSE PersonalAccessToken(keyring, "keyring")}

\* PatProvider::resolve: env::var takes a variable that is not UTF-8 for
\* absent, and a blank one ends the search; the keyring may fail.
Resolutions ==
    IF environment \notin {Absent, Undecodable}
    THEN {PersonalAccessToken(environment, "environment")}
    ELSE {Refused("store_failed"),
          IF keyring = Absent THEN Refused("auth_missing")
                              ELSE PersonalAccessToken(keyring, "keyring")}

Unresolved == {c \in Clients : credential[c].code = "unresolved"}

Resolve(c) ==
    /\ c \in Unresolved
    /\ \E r \in Resolutions : credential' = [credential EXCEPT ![c] = r]
    /\ fresh' = IF Unresolved = {c} THEN {} ELSE fresh
    /\ UNCHANGED <<environment, keyring>>

-----------------------------------------------------------------------------
(***************************************************************************)
(* auth and doctor                                                         *)
(***************************************************************************)

\* What a command answers, while the keyring becomes secret.
Say(command, source, secret) ==
    /\ keyring' = secret
    /\ fresh' = IF Unresolved = {} THEN {}
                ELSE {[command |-> command, source |-> source]} \union
                         IF secret = keyring THEN fresh ELSE {}
    /\ UNCHANGED <<environment, credential>>

\* auth set --stdin: a blank token or one that is too long is refused, and the
\* keyring may fail, with nothing changed; FIGMA_TOKEN is not looked at.
AuthSet(token) == Say("set", "keyring", token)

\* auth clear, whether there was an entry or not.  It answers whether there is
\* a FIGMA_TOKEN.
AuthClear ==
    Say("clear", IF environment = Absent THEN "none" ELSE "environment", Absent)

\* PatProvider::status: any FIGMA_TOKEN counts, and any entry.
Status ==
    IF environment # Absent THEN "environment"
    ELSE IF keyring # Absent THEN "keyring" ELSE "none"

AuthStatus == Say("status", Status, keyring)

\* doctor takes a keyring that fails for one without an entry.
Doctor ==
    \/ Say("doctor", Status, keyring)
    \/ environment = Absent /\ Say("doctor", "none", keyring)

\* A command that fails has answered an error and changed nothing.
AuthNext ==
    \/ \E token \in Tokens : AuthSet(token)
    \/ AuthClear
    \/ AuthStatus
    \/ Doctor

-----------------------------------------------------------------------------
\* What the answer of an auth command lets the user expect of the next request.
Foretold(said, c) ==
    /\ said.command = "set" =>
           c.source = IF environment \in Tokens THEN "environment" ELSE "keyring"
    /\ said.command \in {"status", "clear"} => c.source = said.source
    /\ said.command = "doctor" => said.source \in {"none", c.source}

\* While nobody changes the keyring and it does not fail, the answers of auth
\* and doctor foretell which token the next request carries, or that there is
\* none - except under a FIGMA_TOKEN that is there and cannot be used: a blank
\* one, whose requests are refused with auth_missing whatever the keyring
\* holds, and one that is not UTF-8, which is answered as present while
\* requests take the token of the keyring.
AnswersForetellRequests ==
    [][\A c \in Clients, said \in fresh :
           credential'[c] # credential[c] =>
               \/ credential'[c].code = "store_failed"
               \/ Foretold(said, credential'[c])
               \/ environment = Blank /\ credential'[c].code = "auth_missing"
               \/ /\ environment = Undecodable
                  /\ credential'[c].source = IF keyring = Absent THEN "none" ELSE "keyring"
      ]_credentialVars
=============================================================================
