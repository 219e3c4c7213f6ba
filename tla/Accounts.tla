------------------------------ MODULE Accounts ------------------------------
(***************************************************************************)
(* The credentials of the configured accounts: the configuration file, the *)
(* keyring beside it, the set-up form that writes both (src/setup.rs), and *)
(* JmapSession::connect, which trades an OAuth refresh token for the next  *)
(* one (src/session.rs).  The keyring may be out of reach at any time.     *)
(*                                                                         *)
(* A login stands for username and server, the key of a password in the    *)
(* keyring; refresh tokens are numbers, the server's last one is valid.    *)
(* The file is replaced by a rename, so it is there as it was saved; one   *)
(* caller loads and saves it at a time.  An account is connected by one    *)
(* call at a time, and the browser flow runs while none is under way.      *)
(***************************************************************************)
EXTENDS Naturals

CONSTANTS
  NULL,
  Ids,          \* account ids
  Logins,
  Passwords,    \* what the user may type as a token
  Reach,        \* {TRUE}: the keyring answers, {FALSE}: it does not, both: it varies
  MaxGrants,    \* bound on the refresh tokens issued
  MaxRestarts   \* bound on restarts

ASSUME AccountsAssumption ==
  /\ Reach \in (SUBSET BOOLEAN) \ {{}} /\ {MaxGrants, MaxRestarts} \subseteq Nat
  /\ NULL \notin Nat \cup Passwords

VARIABLES
  file,       \* config.json: [Ids -> an account or NULL]
  passwords,  \* the keyring's entries "username@server"
  refresh,    \* the keyring's entries "oauth-refresh:id"
  up,         \* whether the keyring answers
  grant,      \* the server: the refresh token it accepts, 0 before the first
  memory,     \* the refresh tokens of the resolved accounts of this process
  conn,       \* the connect call of each account
  unsaved,    \* accounts whose valid token was issued and did not reach the keyring
  restarts

vars == <<file, passwords, refresh, up, grant, memory, conn, unsaved, restarts>>

Keyring      == [backend |-> "keyring"]
Plaintext(p) == [backend |-> "plaintext", value |-> p]
OAuth(r)     == [backend |-> "oauth", value |-> r]

Refreshes == 1..MaxGrants

Auth == {Keyring} \cup {Plaintext(p) : p \in Passwords}
        \cup {OAuth(r) : r \in Refreshes \cup {NULL}}

Account == [login : Logins, auth : Auth]

Idle == [pc |-> "idle"]

NoAccounts == [i \in Ids |-> NULL]

Init ==
  /\ file = NoAccounts /\ passwords = [l \in Logins |-> NULL]
  /\ refresh = [i \in Ids |-> NULL] /\ memory = refresh
  /\ up \in Reach
  /\ grant = [i \in Ids |-> 0] /\ conn = [i \in Ids |-> Idle]
  /\ unsaved = {} /\ restarts = 0

IsOAuth(i) == file[i] # NULL /\ file[i].auth.backend = "oauth"

\* resolve_account: the credential the account is given, or NULL.
Resolve(i) ==
  LET acct == file[i]
  IN  IF acct.auth.backend = "plaintext" THEN acct.auth.value
      ELSE IF acct.auth.backend = "keyring"
           THEN IF up THEN passwords[acct.login] ELSE NULL
      ELSE IF up /\ refresh[i] # NULL THEN refresh[i] ELSE acct.auth.value

-----------------------------------------------------------------------------
\* The set-up form.

\* store_token: into the keyring, or into the file when that is out of reach.
StoreToken(login, token) ==
  passwords' = IF up THEN [passwords EXCEPT ![login] = token] ELSE passwords

Stored(token) == IF up THEN Keyring ELSE Plaintext(token)

\* MultiAccountFileConfig::save, which may fail.
Save(i, acct) == file' = [file EXCEPT ![i] = acct] \/ UNCHANGED file

formVars == <<refresh, up, grant, memory, conn, unsaved, restarts>>

\* try_submit, Full: the id is new; the token is stored before the accounts are
\* looked at, and a file that cannot be loaded counts as empty and is replaced.
SubmitFull(i, login, token) ==
  /\ file[i] = NULL /\ grant[i] = 0
  /\ StoreToken(login, token)
  /\ \E loaded \in {file, NoAccounts} :
       \/ UNCHANGED file
       \/ /\ \A j \in Ids : loaded[j] # NULL => loaded[j].login # login
          /\ file' = [loaded EXCEPT ![i] = [login |-> login, auth |-> Stored(token)]]
  /\ UNCHANGED formVars

\* try_submit, TokenOnly, on an account of any kind that did not resolve when the
\* form was opened.  The form holds the login of that time; it is the file's, since
\* one form is open at a time and only a form changes the login of an account.
SubmitTokenOnly(i, token) ==
  /\ file[i] # NULL
  /\ StoreToken(file[i].login, token)
  /\ Save(i, [file[i] EXCEPT !.auth = Stored(token)])
  /\ UNCHANGED formVars

\* Mutant: another login without a token keeps the old credential.
SubmitEditUnguarded(i, login, token) ==
  /\ file[i] # NULL
  /\ IF token = NULL
     THEN Save(i, [file[i] EXCEPT !.login = login]) /\ UNCHANGED passwords
     ELSE /\ StoreToken(login, token)
          /\ Save(i, [login |-> login, auth |-> Stored(token)])
  /\ UNCHANGED formVars

\* Mutant: an empty token is stored like any other.
SubmitEditEmpty(i, login, token) ==
  /\ file[i] # NULL /\ StoreToken(login, token)
  /\ Save(i, [login |-> login, auth |-> Stored(token)])
  /\ UNCHANGED formVars

\* try_submit, Edit: another login needs a token, else it may be left out.
SubmitEdit(i, login, token) ==
  /\ file[i] # NULL
  /\ IF token = NULL
     THEN file[i].login = login /\ UNCHANGED <<file, passwords>>
     ELSE /\ StoreToken(login, token)
          /\ Save(i, [login |-> login, auth |-> Stored(token)])
  /\ UNCHANGED formVars

-----------------------------------------------------------------------------
\* The process.

\* resolve_all_accounts at the start of the front end.
Start ==
  /\ restarts < MaxRestarts /\ restarts' = restarts + 1
  /\ memory' = [i \in Ids |-> IF IsOAuth(i) THEN Resolve(i) ELSE NULL]
  /\ unsaved' = unsaved \cup {i \in Ids : conn[i].pc = "persist"}
  /\ conn' = [i \in Ids |-> Idle]
  /\ UNCHANGED <<file, passwords, refresh, up, grant>>

KeyringTurns ==
  /\ up' \in Reach \ {up}
  /\ UNCHANGED <<file, passwords, refresh, grant, memory, conn, unsaved, restarts>>

\* The browser flow of the front end (external): a first refresh token, kept in
\* the keyring or, when that is out of reach, in the file.
Authorize(i, login) ==
  /\ conn[i] = Idle /\ grant[i] < MaxGrants
  /\ IF file[i] = NULL THEN grant[i] = 0 ELSE file[i].login = login
  /\ LET r == grant[i] + 1
     IN  /\ grant' = [grant EXCEPT ![i] = r]
         /\ memory' = [memory EXCEPT ![i] = r]
         /\ refresh' = IF up THEN [refresh EXCEPT ![i] = r] ELSE refresh
         /\ unsaved' = IF up THEN unsaved \ {i} ELSE unsaved \cup {i}
         /\ file' = [file EXCEPT ![i] = [login |-> login,
                                         auth |-> OAuth(IF up THEN NULL ELSE r)]]
  /\ UNCHANGED <<passwords, up, conn, restarts>>

\* Mutant: the token the process was started with.
PresentedFromMemory(i) == memory[i]

\* The token a connect presents: the keyring's, else the one in memory.
Presented(i) == IF up /\ refresh[i] # NULL THEN refresh[i] ELSE memory[i]

\* connect: the keyring is read before the request is made.
ReadToken(i) ==
  /\ conn[i] = Idle /\ memory[i] # NULL
  /\ conn' = [conn EXCEPT ![i] = [pc |-> "refresh", token |-> Presented(i)]]
  /\ UNCHANGED <<file, passwords, refresh, up, grant, memory, unsaved, restarts>>

\* refresh_access_token (external): an old token is refused, the valid one may be
\* replaced by the next, and the answer may be lost.
RefreshToken(i) ==
  /\ conn[i].pc = "refresh"
  /\ \/ /\ conn' = [conn EXCEPT ![i] = Idle]
        /\ UNCHANGED <<grant, unsaved>>
     \/ /\ conn[i].token = grant[i] /\ grant[i] < MaxGrants
        /\ grant' = [grant EXCEPT ![i] = @ + 1]
        /\ \/ /\ conn' = [conn EXCEPT ![i] = [pc |-> "persist", token |-> grant[i] + 1]]
              /\ UNCHANGED unsaved
           \/ /\ conn' = [conn EXCEPT ![i] = Idle]
              /\ unsaved' = unsaved \cup {i}
  /\ UNCHANGED <<file, passwords, refresh, up, memory, restarts>>

\* set_oauth_refresh, or the fallback in the file.
Persist(i) ==
  /\ conn[i].pc = "persist"
  /\ conn' = [conn EXCEPT ![i] = Idle]
  /\ IF up
     THEN /\ refresh' = [refresh EXCEPT ![i] = conn[i].token]
          /\ unsaved' = unsaved \ {i} /\ UNCHANGED file
     ELSE /\ IF IsOAuth(i) THEN Save(i, [file[i] EXCEPT !.auth = OAuth(conn[i].token)])
             ELSE UNCHANGED file
          /\ unsaved' = unsaved \cup {i} /\ UNCHANGED refresh
  /\ UNCHANGED <<passwords, up, grant, memory, restarts>>

Next ==
  \/ \E i \in Ids, l \in Logins, p \in Passwords : SubmitFull(i, l, p)
  \/ \E i \in Ids, p \in Passwords : SubmitTokenOnly(i, p)
  \/ \E i \in Ids, l \in Logins, p \in Passwords \cup {NULL} : SubmitEdit(i, l, p)
  \/ Start
  \/ KeyringTurns
  \/ \E i \in Ids, l \in Logins : Authorize(i, l)
  \/ \E i \in Ids : ReadToken(i)
  \/ \E i \in Ids : RefreshToken(i)
  \/ \E i \in Ids : Persist(i)

Spec == Init /\ [][Next]_vars

-----------------------------------------------------------------------------
\* The types of the two stores, the server and the process.
TypeOK ==
  /\ file \in [Ids -> Account \cup {NULL}]
  /\ passwords \in [Logins -> Passwords \cup {NULL}]
  /\ refresh \in [Ids -> Refreshes \cup {NULL}] /\ memory \in [Ids -> Refreshes \cup {NULL}]
  /\ grant \in [Ids -> 0..MaxGrants]
  /\ unsaved \subseteq Ids

\* Whatever the forms were given and whichever saves failed, an account in the
\* file has its credential: in the file, or in the keyring under the login it
\* now has.
Resolvable == up => \A i \in Ids : file[i] # NULL => Resolve(i) # NULL

\* A connect for which the keyring answers presents, for every resolved OAuth account
\* and in this process as after a restart, the refresh token the server accepts, unless
\* that one was lost on its way or found the keyring out of reach when it came
\* ("handles ratcheting across reconnects", src/session.rs:63).  A connect for which
\* the keyring does not answer presents the token in memory, which may be an old one.
RatchetHeld ==
  up => \A i \in Ids : (memory[i] # NULL /\ i \notin unsaved /\ conn[i] = Idle)
                         => Presented(i) = grant[i]
=============================================================================
