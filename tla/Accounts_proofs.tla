--------------------------- MODULE Accounts_proofs ---------------------------
(***************************************************************************)
(* Proofs about the credentials, for any sets of accounts, logins and      *)
(* passwords, any number of refresh tokens and restarts, and a keyring     *)
(* that answers always, never or now and then.                             *)
(***************************************************************************)
EXTENDS Accounts, TLAPS

\* What a connect call may be at.
Conns == {Idle} \cup [pc : {"refresh", "persist"}, token : Refreshes]

Types ==
  /\ TypeOK
  /\ up \in BOOLEAN
  /\ conn \in [Ids -> Conns]

\* A credential the file does not hold itself is in the keyring, answering or not.
Kept(i) ==
  file[i] # NULL =>
    /\ file[i].auth.backend = "keyring" => passwords[file[i].login] # NULL
    /\ file[i].auth.backend = "oauth" => refresh[i] # NULL \/ file[i].auth.value # NULL

\* Where the server's valid token is: in the call that is to keep it, in the
\* keyring, or lost; before the first there is none anywhere.
Ratchet(i) ==
  /\ grant[i] = 0 => memory[i] = NULL /\ refresh[i] = NULL /\ ~IsOAuth(i)
  /\ conn[i].pc = "persist" => grant[i] > 0 /\ conn[i].token = grant[i]
  /\ grant[i] > 0 /\ conn[i].pc # "persist" /\ i \notin unsaved => refresh[i] = grant[i]

IInv ==
  /\ Types
  /\ \A i \in Ids : Kept(i)
  /\ \A i \in Ids : Ratchet(i)

\* Constants: NULL is no number, no password.
LEMMA ConstantFacts ==
  /\ MaxGrants \in Nat /\ Reach \subseteq BOOLEAN
  /\ NULL \notin Nat /\ NULL \notin Passwords /\ Refreshes \subseteq Nat \ {0}
BY AccountsAssumption DEF Refreshes

\* The kinds of credentials, told apart by their backend.
LEMMA AuthKinds ==
  ASSUME NEW a \in Auth
  PROVE  /\ a.backend \in {"keyring", "plaintext", "oauth"}
         /\ a.backend = "plaintext" => a.value \in Passwords
         /\ a.backend = "oauth" => a.value \in Refreshes \cup {NULL}
BY DEF Auth, Keyring, Plaintext, OAuth

LEMMA StoredAuth ==
  ASSUME NEW p \in Passwords
  PROVE  /\ Stored(p) \in Auth /\ Stored(p).backend # "oauth"
         /\ Stored(p).backend = "keyring" => up
BY DEF Stored, Auth, Keyring, Plaintext

LEMMA ConnFacts ==
  /\ Idle \in Conns /\ Idle.pc = "idle"
  /\ \A c \in Conns : c.pc \in {"idle", "refresh", "persist"}
  /\ \A c \in Conns : c.pc # "idle" => c.token \in Refreshes
  /\ \A t \in Refreshes : /\ [pc |-> "refresh", token |-> t] \in Conns
                          /\ [pc |-> "persist", token |-> t] \in Conns
BY DEF Conns, Idle

LEMMA InitIInv == Init => IInv
<1> SUFFICES ASSUME Init PROVE IInv
  OBVIOUS
<1>1. Types
  BY ConstantFacts, ConnFacts DEF Init, Types, TypeOK, NoAccounts
<1>2. \A i \in Ids : Kept(i)
  BY DEF Init, Kept, NoAccounts
<1>3. \A i \in Ids : Ratchet(i)
  BY ConnFacts DEF Init, Ratchet, NoAccounts, IsOAuth
<1>4. QED BY <1>1, <1>2, <1>3 DEF IInv

\* The accounts' invariant in what the set-up form may change.
LEMMA FormStep ==
  ASSUME IInv, UNCHANGED formVars,
         file' \in [Ids -> Account \cup {NULL}],
         passwords' \in [Logins -> Passwords \cup {NULL}],
         \A l \in Logins : passwords[l] # NULL => passwords'[l] # NULL,
         \A i \in Ids : file'[i] \in {NULL, file[i]} \/
           /\ file'[i].auth.backend # "oauth"
           /\ file'[i].auth.backend = "keyring" => passwords'[file'[i].login] # NULL
  PROVE  IInv'
<1>1. Types'
  BY DEF IInv, Types, TypeOK, formVars
<1>2. ASSUME NEW i \in Ids PROVE Kept(i)'
  <2>1. CASE file'[i] \in {NULL, file[i]}
    <3>1. file[i] # NULL => file[i].login \in Logins
      BY DEF IInv, Types, TypeOK, Account
    <3>2. QED BY <2>1, <3>1 DEF IInv, Kept, formVars
  <2>2. CASE file'[i] \notin {NULL, file[i]}
    BY <2>2 DEF Kept
  <2>3. QED BY <2>1, <2>2
<1>3. ASSUME NEW i \in Ids PROVE Ratchet(i)'
  <2>1. Ratchet(i)
    BY DEF IInv
  <2>2. IsOAuth(i)' => IsOAuth(i)
    BY DEF IsOAuth
  <2>3. QED BY <2>1, <2>2 DEF Ratchet, formVars
<1>4. QED BY <1>1, <1>2, <1>3 DEF IInv

\* What store_token and the record that goes with it leave behind.
LEMMA TokenStored ==
  ASSUME IInv, NEW login \in Logins, NEW p \in Passwords, StoreToken(login, p)
  PROVE  /\ passwords' \in [Logins -> Passwords \cup {NULL}]
         /\ \A l \in Logins : passwords[l] # NULL => passwords'[l] # NULL
         /\ Stored(p).backend = "keyring" => passwords'[login] # NULL
<1>1. passwords \in [Logins -> Passwords \cup {NULL}]
  BY DEF IInv, Types, TypeOK
<1>2. CASE up
  BY <1>1, <1>2, ConstantFacts DEF StoreToken
<1>3. CASE ~up
  BY <1>1, <1>3, StoredAuth DEF StoreToken
<1>4. QED BY <1>2, <1>3

LEMMA FullStep ==
  ASSUME IInv, NEW i \in Ids, NEW login \in Logins, NEW p \in Passwords,
         SubmitFull(i, login, p)
  PROVE  IInv'
<1> DEFINE new == [login |-> login, auth |-> Stored(p)]
<1>1. new \in Account /\ new.auth = Stored(p) /\ new.login = login
  BY StoredAuth DEF Account
<1>2. /\ passwords' \in [Logins -> Passwords \cup {NULL}]
      /\ \A l \in Logins : passwords[l] # NULL => passwords'[l] # NULL
      /\ Stored(p).backend = "keyring" => passwords'[login] # NULL
  BY TokenStored DEF SubmitFull
<1>3. file \in [Ids -> Account \cup {NULL}] /\ NoAccounts \in [Ids -> Account \cup {NULL}]
  BY DEF IInv, Types, TypeOK, NoAccounts
<1>4. /\ file' \in [Ids -> Account \cup {NULL}]
      /\ \A j \in Ids : file'[j] \in {NULL, file[j], new}
  <2>1. CASE UNCHANGED file
    BY <2>1, <1>3
  <2>2. ASSUME NEW loaded \in {file, NoAccounts}, file' = [loaded EXCEPT ![i] = new]
        PROVE  /\ file' \in [Ids -> Account \cup {NULL}]
               /\ \A j \in Ids : file'[j] \in {NULL, file[j], new}
    BY <2>2, <1>1, <1>3 DEF NoAccounts
  <2>3. QED BY <2>1, <2>2 DEF SubmitFull
<1> HIDE DEF new
<1>5. \A j \in Ids : file'[j] \in {NULL, file[j]} \/
           /\ file'[j].auth.backend # "oauth"
           /\ file'[j].auth.backend = "keyring" => passwords'[file'[j].login] # NULL
  BY <1>1, <1>2, <1>4, StoredAuth
<1>6. UNCHANGED formVars
  BY DEF SubmitFull
<1>7. QED BY <1>2, <1>4, <1>5, <1>6, FormStep

\* Another token for the account, under the login it has or a new one.
LEMMA EditedStep ==
  ASSUME IInv, NEW i \in Ids, NEW login \in Logins, NEW p \in Passwords,
         StoreToken(login, p), UNCHANGED formVars,
         Save(i, [login |-> login, auth |-> Stored(p)])
  PROVE  IInv'
<1> DEFINE new == [login |-> login, auth |-> Stored(p)]
<1>1. new \in Account /\ new.auth = Stored(p) /\ new.login = login
  BY StoredAuth DEF Account
<1>2. /\ passwords' \in [Logins -> Passwords \cup {NULL}]
      /\ \A l \in Logins : passwords[l] # NULL => passwords'[l] # NULL
      /\ Stored(p).backend = "keyring" => passwords'[login] # NULL
  BY TokenStored
<1>3. file \in [Ids -> Account \cup {NULL}]
  BY DEF IInv, Types, TypeOK
<1>4. /\ file' \in [Ids -> Account \cup {NULL}]
      /\ \A j \in Ids : file'[j] \in {file[j], new}
  BY <1>1, <1>3 DEF Save
<1> HIDE DEF new
<1>5. \A j \in Ids : file'[j] \in {NULL, file[j]} \/
           /\ file'[j].auth.backend # "oauth"
           /\ file'[j].auth.backend = "keyring" => passwords'[file'[j].login] # NULL
  BY <1>1, <1>2, <1>4, StoredAuth
<1>6. QED BY <1>2, <1>4, <1>5, FormStep

LEMMA TokenOnlyStep ==
  ASSUME IInv, NEW i \in Ids, NEW p \in Passwords, SubmitTokenOnly(i, p)
  PROVE  IInv'
<1>1. file[i] \in Account
  BY DEF IInv, Types, TypeOK, SubmitTokenOnly
<1>2. /\ file[i].login \in Logins
      /\ [file[i] EXCEPT !.auth = Stored(p)] = [login |-> file[i].login, auth |-> Stored(p)]
  BY <1>1 DEF Account
<1>3. QED BY <1>2, EditedStep DEF SubmitTokenOnly

LEMMA EditStep ==
  ASSUME IInv, NEW i \in Ids, NEW login \in Logins, NEW p \in Passwords \cup {NULL},
         SubmitEdit(i, login, p)
  PROVE  IInv'
<1>1. CASE p = NULL
  <2>1. UNCHANGED <<file, passwords, formVars>>
    BY <1>1 DEF SubmitEdit
  <2>2. /\ file \in [Ids -> Account \cup {NULL}]
        /\ passwords \in [Logins -> Passwords \cup {NULL}]
    BY DEF IInv, Types, TypeOK
  <2>3. QED BY <2>1, <2>2, FormStep
<1>2. CASE p # NULL
  BY <1>2, EditedStep DEF SubmitEdit
<1>3. QED BY <1>1, <1>2

\* The credential of a resolved OAuth account is a refresh token.
LEMMA ResolveOAuth ==
  ASSUME Types, NEW i \in Ids, IsOAuth(i)
  PROVE  Resolve(i) \in Refreshes \cup {NULL}
<1>1. file[i] \in Account /\ refresh[i] \in Refreshes \cup {NULL}
  BY DEF Types, TypeOK, IsOAuth
<1>2. file[i].auth \in Auth /\ file[i].auth.backend = "oauth"
  BY <1>1 DEF Account, IsOAuth
<1>3. file[i].auth.value \in Refreshes \cup {NULL}
  BY <1>2, AuthKinds
<1>4. QED BY <1>1, <1>2, <1>3 DEF Resolve

LEMMA StartStep == IInv /\ Start => IInv'
<1> SUFFICES ASSUME IInv, Start PROVE IInv'
  OBVIOUS
<1>1. Types'
  <2>1. memory' \in [Ids -> Refreshes \cup {NULL}]
    BY ResolveOAuth DEF IInv, Start
  <2>2. conn' \in [Ids -> Conns]
    BY ConnFacts DEF Start
  <2>3. QED BY <2>1, <2>2 DEF IInv, Types, TypeOK, Start
<1>2. \A i \in Ids : Kept(i)'
  BY DEF IInv, Kept, Start
<1>3. ASSUME NEW i \in Ids PROVE Ratchet(i)'
  <2>1. Ratchet(i) /\ conn[i] \in Conns /\ conn'[i] = Idle
    BY DEF IInv, Types, Start
  <2>2. /\ memory'[i] = IF IsOAuth(i) THEN Resolve(i) ELSE NULL
        /\ conn[i].pc = "persist" => i \in unsaved'
        /\ i \in unsaved => i \in unsaved'
    BY DEF Start
  <2>3. IsOAuth(i)' <=> IsOAuth(i)
    BY DEF IsOAuth, Start
  <2>4. UNCHANGED <<grant, refresh>>
    BY DEF Start
  <2>5. QED BY <2>1, <2>2, <2>3, <2>4, ConnFacts DEF Ratchet
<1>4. QED BY <1>1, <1>2, <1>3 DEF IInv

LEMMA TurnsStep == IInv /\ KeyringTurns => IInv'
<1> SUFFICES ASSUME IInv, KeyringTurns PROVE IInv'
  OBVIOUS
<1>1. Types'
  BY ConstantFacts DEF IInv, Types, TypeOK, KeyringTurns
<1>2. \A i \in Ids : Kept(i)' /\ Ratchet(i)'
  BY DEF IInv, Kept, Ratchet, IsOAuth, KeyringTurns
<1>3. QED BY <1>1, <1>2 DEF IInv

\* A step that leaves the other accounts' state as it is, and their invariants.
LEMMA OthersKept ==
  ASSUME IInv, NEW i \in Ids, NEW j \in Ids, i # j, UNCHANGED passwords,
         file'[j] = file[j], refresh'[j] = refresh[j], memory'[j] = memory[j],
         grant'[j] = grant[j], conn'[j] = conn[j], j \in unsaved' <=> j \in unsaved
  PROVE  Kept(j)' /\ Ratchet(j)'
<1>1. Kept(j) /\ Ratchet(j)
  BY DEF IInv
<1>2. Kept(j)'
  BY <1>1 DEF Kept
<1>3. IsOAuth(j)' <=> IsOAuth(j)
  BY DEF IsOAuth
<1>4. Ratchet(j)'
  BY <1>1, <1>3 DEF Ratchet
<1>5. QED BY <1>2, <1>4

LEMMA AuthorizeStep ==
  ASSUME IInv, NEW i \in Ids, NEW login \in Logins, Authorize(i, login)
  PROVE  IInv'
<1> DEFINE r == grant[i] + 1
           new == [login |-> login, auth |-> OAuth(IF up THEN NULL ELSE r)]
<1>0. Types
  BY DEF IInv
<1>1. r \in Refreshes /\ r # NULL /\ grant[i] \in Nat
  BY <1>0, ConstantFacts DEF Types, TypeOK, Authorize, Refreshes
<1>2. /\ new \in Account /\ new.auth.backend = "oauth"
      /\ ~up => new.auth.value = r
  BY <1>1 DEF Account, Auth, OAuth
<1>3. /\ grant' = [grant EXCEPT ![i] = r]
      /\ memory' = [memory EXCEPT ![i] = r]
      /\ refresh' = IF up THEN [refresh EXCEPT ![i] = r] ELSE refresh
      /\ unsaved' = IF up THEN unsaved \ {i} ELSE unsaved \cup {i}
      /\ file' = [file EXCEPT ![i] = new]
      /\ conn[i] = Idle /\ UNCHANGED <<passwords, up, conn, restarts>>
  BY DEF Authorize
<1>4. r \in 0..MaxGrants
  BY <1>1 DEF Refreshes
<1> HIDE DEF r, new
<1>5. Types'
  BY <1>0, <1>1, <1>2, <1>3, <1>4 DEF Types, TypeOK
<1>6. Kept(i)' /\ Ratchet(i)'
  <2>1. file'[i] = new /\ grant'[i] = r /\ memory'[i] = r /\ conn'[i] = Idle
    BY <1>0, <1>3 DEF Types, TypeOK
  <2>2. /\ up => refresh'[i] = r
        /\ ~up => i \in unsaved'
    BY <1>0, <1>3 DEF Types, TypeOK
  <2>3. Kept(i)'
    BY <1>1, <1>2, <2>1, <2>2 DEF Kept
  <2>4. r > 0
    BY <1>1 DEF Refreshes
  <2>5. Ratchet(i)'
    BY <2>1, <2>2, <2>4, ConnFacts DEF Ratchet
  <2>6. QED BY <2>3, <2>5
<1>7. ASSUME NEW j \in Ids, j # i PROVE Kept(j)' /\ Ratchet(j)'
  <2>1. /\ file'[j] = file[j] /\ refresh'[j] = refresh[j] /\ memory'[j] = memory[j]
        /\ grant'[j] = grant[j] /\ conn'[j] = conn[j] /\ (j \in unsaved' <=> j \in unsaved)
    BY <1>0, <1>3, <1>7 DEF Types, TypeOK
  <2>2. QED BY <1>3, <1>7, <2>1, OthersKept
<1>8. QED BY <1>5, <1>6, <1>7 DEF IInv

LEMMA ReadTokenStep ==
  ASSUME IInv, NEW i \in Ids, ReadToken(i)
  PROVE  IInv'
<1>0. Types
  BY DEF IInv
<1>1. Presented(i) \in Refreshes
  BY <1>0 DEF Types, TypeOK, ReadToken, Presented
<1>2. /\ conn[i] = Idle
      /\ conn' = [conn EXCEPT ![i] = [pc |-> "refresh", token |-> Presented(i)]]
      /\ UNCHANGED <<file, passwords, refresh, up, grant, memory, unsaved, restarts>>
  BY DEF ReadToken
<1>3. Types'
  BY <1>0, <1>1, <1>2, ConnFacts DEF Types, TypeOK
<1>4. conn'[i].pc = "refresh"
  BY <1>0, <1>2 DEF Types
<1>5. Kept(i)' /\ Ratchet(i)'
  BY <1>2, <1>4, ConnFacts DEF IInv, Kept, Ratchet, IsOAuth
<1>6. ASSUME NEW j \in Ids, j # i PROVE Kept(j)' /\ Ratchet(j)'
  <2>1. conn'[j] = conn[j]
    BY <1>0, <1>2, <1>6 DEF Types
  <2>2. QED BY <1>2, <1>6, <2>1, OthersKept
<1>7. QED BY <1>3, <1>5, <1>6 DEF IInv

LEMMA RefreshStep ==
  ASSUME IInv, NEW i \in Ids, RefreshToken(i)
  PROVE  IInv'
<1>0. Types /\ Kept(i) /\ Ratchet(i)
  BY DEF IInv
<1>1. conn[i].pc = "refresh" /\ UNCHANGED <<file, passwords, refresh, up, memory, restarts>>
  BY DEF RefreshToken
<1>2. CASE conn' = [conn EXCEPT ![i] = Idle] /\ UNCHANGED <<grant, unsaved>>
  <2>1. Types'
    BY <1>0, <1>1, <1>2, ConnFacts DEF Types, TypeOK
  <2>2. conn'[i] = Idle
    BY <1>0, <1>2 DEF Types
  <2>3. Kept(i)' /\ Ratchet(i)'
    BY <1>0, <1>1, <1>2, <2>2, ConnFacts DEF Kept, Ratchet, IsOAuth
  <2>4. ASSUME NEW j \in Ids, j # i PROVE Kept(j)' /\ Ratchet(j)'
    <3>1. conn'[j] = conn[j]
      BY <1>0, <1>2, <2>4 DEF Types
    <3>2. QED BY <1>1, <1>2, <2>4, <3>1, OthersKept
  <2>5. QED BY <2>1, <2>3, <2>4 DEF IInv
<1>3. CASE /\ conn[i].token = grant[i] /\ grant[i] < MaxGrants
           /\ grant' = [grant EXCEPT ![i] = @ + 1]
           /\ \/ /\ conn' = [conn EXCEPT ![i] = [pc |-> "persist", token |-> grant[i] + 1]]
                 /\ UNCHANGED unsaved
              \/ /\ conn' = [conn EXCEPT ![i] = Idle]
                 /\ unsaved' = unsaved \cup {i}
  <2>0. grant[i] + 1 \in Refreshes /\ grant[i] + 1 \in 0..MaxGrants /\ grant[i] \in Nat
    BY <1>0, <1>3, ConstantFacts DEF Types, TypeOK, Refreshes
  <2>1. grant' \in [Ids -> 0..MaxGrants] /\ grant'[i] = grant[i] + 1
    BY <1>0, <1>3, <2>0 DEF Types, TypeOK
  <2>2. conn' \in [Ids -> Conns] /\ unsaved' \subseteq Ids
    BY <1>0, <1>3, <2>0, ConnFacts DEF Types, TypeOK
  <2>3. Types'
    BY <1>0, <1>1, <2>1, <2>2 DEF Types, TypeOK
  <2>4. \/ conn'[i] = [pc |-> "persist", token |-> grant[i] + 1]
        \/ conn'[i] = Idle /\ i \in unsaved'
    BY <1>0, <1>3 DEF Types
  <2>5. conn[i].token \in Refreshes
    BY <1>0, <1>1, ConnFacts DEF Types
  <2>6. Kept(i)'
    BY <1>0, <1>1 DEF Kept
  <2>7. Ratchet(i)'
    BY <1>3, <2>0, <2>1, <2>4, <2>5, ConnFacts, ConstantFacts DEF Ratchet
  <2>8. ASSUME NEW j \in Ids, j # i PROVE Kept(j)' /\ Ratchet(j)'
    <3>1. conn'[j] = conn[j] /\ grant'[j] = grant[j] /\ (j \in unsaved' <=> j \in unsaved)
      BY <1>0, <1>3, <2>8 DEF Types, TypeOK
    <3>2. QED BY <1>1, <2>8, <3>1, OthersKept
  <2>9. QED BY <2>3, <2>6, <2>7, <2>8 DEF IInv
<1>4. QED BY <1>2, <1>3 DEF RefreshToken

LEMMA PersistStep ==
  ASSUME IInv, NEW i \in Ids, Persist(i)
  PROVE  IInv'
<1>0. Types /\ Kept(i) /\ Ratchet(i)
  BY DEF IInv
<1>1. /\ conn[i].pc = "persist" /\ conn' = [conn EXCEPT ![i] = Idle]
      /\ UNCHANGED <<passwords, up, grant, memory, restarts>>
  BY DEF Persist
<1>2. conn[i].token = grant[i] /\ grant[i] > 0 /\ conn[i].token \in Refreshes
  BY <1>0, <1>1, ConnFacts DEF Types, Ratchet
<1>3. conn' \in [Ids -> Conns] /\ conn'[i] = Idle
  BY <1>0, <1>1, ConnFacts DEF Types
<1>4. CASE up
  <2>1. /\ refresh' = [refresh EXCEPT ![i] = conn[i].token]
        /\ unsaved' = unsaved \ {i} /\ UNCHANGED file
    BY <1>4 DEF Persist
  <2>2. Types'
    BY <1>0, <1>1, <1>2, <1>3, <2>1 DEF Types, TypeOK
  <2>3. refresh'[i] = grant[i] /\ refresh'[i] # NULL
    BY <1>0, <1>2, <2>1, ConstantFacts DEF Types, TypeOK
  <2>4. Kept(i)'
    BY <1>0, <1>1, <2>1, <2>3 DEF Kept
  <2>5. Ratchet(i)'
    BY <1>1, <1>2, <1>3, <2>3, ConnFacts, ConstantFacts DEF Ratchet
  <2>6. ASSUME NEW j \in Ids, j # i PROVE Kept(j)' /\ Ratchet(j)'
    <3>1. conn'[j] = conn[j] /\ refresh'[j] = refresh[j] /\ (j \in unsaved' <=> j \in unsaved)
      BY <1>0, <1>1, <2>1, <2>6 DEF Types, TypeOK
    <3>2. QED BY <1>1, <2>1, <2>6, <3>1, OthersKept
  <2>7. QED BY <2>2, <2>4, <2>5, <2>6 DEF IInv
<1>5. CASE ~up
  <2> DEFINE kept == [file[i] EXCEPT !.auth = OAuth(conn[i].token)]
  <2>1. /\ (file' = [file EXCEPT ![i] = kept] /\ IsOAuth(i)) \/ UNCHANGED file
        /\ unsaved' = unsaved \cup {i} /\ UNCHANGED refresh
    BY <1>5 DEF Persist, Save
  <2>2. IsOAuth(i) => kept \in Account /\ kept.auth.value = conn[i].token
    <3>1. IsOAuth(i) => file[i] \in Account
      BY <1>0 DEF IsOAuth, Types, TypeOK
    <3>2. OAuth(conn[i].token) \in Auth /\ OAuth(conn[i].token).value = conn[i].token
      BY <1>2 DEF Auth, OAuth
    <3>3. QED BY <3>1, <3>2 DEF Account
  <2>2a. kept.auth.backend = "oauth" \/ ~IsOAuth(i)
    <3>1. IsOAuth(i) => file[i] \in Account
      BY <1>0 DEF IsOAuth, Types, TypeOK
    <3>2. QED BY <3>1 DEF Account, OAuth
  <2> HIDE DEF kept
  <2>3. Types'
    BY <1>0, <1>1, <1>3, <2>1, <2>2 DEF Types, TypeOK
  <2>4. file'[i] = file[i] \/ (IsOAuth(i) /\ file'[i] = kept)
    BY <1>0, <2>1 DEF Types, TypeOK
  <2>5. Kept(i)'
    BY <1>0, <1>1, <1>2, <2>1, <2>2, <2>2a, <2>4, ConstantFacts DEF Kept
  <2>6. Ratchet(i)'
    BY <1>1, <1>2, <1>3, <2>1, ConnFacts, ConstantFacts DEF Ratchet
  <2>7. ASSUME NEW j \in Ids, j # i PROVE Kept(j)' /\ Ratchet(j)'
    <3>1. conn'[j] = conn[j] /\ file'[j] = file[j] /\ (j \in unsaved' <=> j \in unsaved)
      BY <1>0, <1>1, <2>1, <2>7 DEF Types, TypeOK
    <3>2. QED BY <1>1, <2>1, <2>7, <3>1, OthersKept
  <2>8. QED BY <2>3, <2>5, <2>6, <2>7 DEF IInv
<1>6. QED BY <1>4, <1>5

LEMMA StepIInv == IInv /\ [Next]_vars => IInv'
<1> SUFFICES ASSUME IInv, [Next]_vars PROVE IInv'
  OBVIOUS
<1>1. CASE UNCHANGED vars
  BY <1>1 DEF vars, IInv, Types, TypeOK, Kept, Ratchet, IsOAuth
<1>2. CASE Next
  BY <1>2, FullStep, TokenOnlyStep, EditStep, StartStep, TurnsStep, AuthorizeStep,
     ReadTokenStep, RefreshStep, PersistStep DEF Next
<1>3. QED BY <1>1, <1>2

LEMMA IInvAlways == Spec => []IInv
BY InitIInv, StepIInv, PTL DEF Spec

-----------------------------------------------------------------------------
\* The types of the file, the keyring, the server and the process.
THEOREM AccountsTyped == Spec => []TypeOK
<1>1. IInv => TypeOK
  BY DEF IInv, Types
<1>2. QED BY <1>1, IInvAlways, PTL

\* Whatever the forms were given, whichever saves failed and whenever the keyring
\* was out of reach: while it answers, every account of the file has a credential
\* (resolve_account after try_submit).
THEOREM EveryAccountResolves == Spec => []Resolvable
<1>1. ASSUME IInv, up, NEW i \in Ids, file[i] # NULL
      PROVE  Resolve(i) # NULL
  <2>1. file[i] \in Account /\ Kept(i)
    BY <1>1 DEF IInv, Types, TypeOK
  <2>2. file[i].auth \in Auth
    BY <2>1 DEF Account
  <2>3. QED BY <1>1, <2>1, <2>2, AuthKinds, ConstantFacts DEF Resolve, Kept
<1>2. IInv => Resolvable
  BY <1>1 DEF Resolvable
<1>3. QED BY <1>2, IInvAlways, PTL

\* A connect for which the keyring answers presents the refresh token the server
\* accepts, through any number of reconnects and restarts, unless that token was lost
\* on its way or the keyring was out of reach when it came (connect, set_oauth_refresh).
THEOREM RatchetIsHeld == Spec => []RatchetHeld
<1>1. ASSUME IInv, up, NEW i \in Ids, memory[i] # NULL, i \notin unsaved, conn[i] = Idle
      PROVE  Presented(i) = grant[i]
  <2>1. Ratchet(i) /\ grant[i] \in Nat
    BY <1>1 DEF IInv, Types, TypeOK
  <2>2. grant[i] > 0
    BY <1>1, <2>1 DEF Ratchet
  <2>3. refresh[i] = grant[i]
    BY <1>1, <2>1, <2>2, ConnFacts DEF Ratchet
  <2>4. QED BY <1>1, <2>1, <2>3, ConstantFacts DEF Presented
<1>2. IInv => RatchetHeld
  BY <1>1 DEF RatchetHeld
<1>3. QED BY <1>2, IInvAlways, PTL
=============================================================================
