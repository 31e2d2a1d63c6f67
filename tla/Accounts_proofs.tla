--------------------------- MODULE Accounts_proofs ---------------------------
(***************************************************************************)
(* Accounts: the inductive invariant and the theorems that rest on it.     *)
(***************************************************************************)
EXTENDS Accounts, TLAPS

\* The invariant holds before anybody has signed up.
LEMMA InitInv == Init => AccountsInv
BY AccountsAssumption DEF Init, AccountsInv, TypeOK, Phases, Cookie, RowsWellFormed,
   EpochsBehind, SignInProved, CallbackVouched, SessionIsOwners, LinkIsVouched,
   IdentityIsOneAccount

\* The variables of the requests have their types.
RequestTypeOK ==
    /\ phase \in [Requests -> Phases]
    /\ user \in [Requests -> Mailboxes \cup {NoMailbox}]
    /\ identity \in [Requests -> Identities \cup {NoIdentity}]
    /\ verified \in [Requests -> BOOLEAN]
    /\ seen \in [Requests -> Nat]

\* Ending a request, and moving it to another call, keeps the types.
LEMMA FinishType ==
    ASSUME RequestTypeOK, NEW q \in Requests, Finish(q)
    PROVE  RequestTypeOK'
BY DEF RequestTypeOK, Finish, Goto, Phases

LEMMA SignInType ==
    ASSUME RequestTypeOK, NEW q \in Requests, NEW m \in Mailboxes, NEW e \in Nat,
           SignIn(q, m, e)
    PROVE  RequestTypeOK'
BY DEF RequestTypeOK, SignIn, Goto, Phases

LEMMA GotoType ==
    ASSUME RequestTypeOK, NEW q \in Requests, NEW p \in Phases, Goto(q, p),
           UNCHANGED <<user, identity, verified, seen>>
    PROVE  RequestTypeOK'
BY DEF RequestTypeOK, Goto

\* The account that a callback is about to link or to provision is admitted by the
\* allowlist in force.
LEMMA WriterAdmitted ==
    ASSUME AccountsInv, NEW q \in Requests, phase[q] \in {"link", "provision"}
    PROVE  /\ user[q] \in Mailboxes /\ identity[q] \in Identities
           /\ allowlist # {} => user[q] \in allowlist
           /\ <<identity[q], user[q]>> \in Vouches
BY DEF AccountsInv, TypeOK, CallbackVouched, Admitted

\* Signup preserves the invariant.
LEMMA SignupInv ==
    ASSUME AccountsInv, NEW q \in Requests, NEW m \in Mailboxes, Signup(q, m)
    PROVE  AccountsInv'
<1> USE AccountsAssumption DEF AccountsInv, TypeOK, Cookie, Phases, Signup, InsertUser, SignIn, Goto, request
<1>1. TypeOK'
    OBVIOUS
<1>2. RowsWellFormed'
    BY <1>1 DEF RowsWellFormed
<1>3. EpochsBehind'
    BY <1>1 DEF EpochsBehind, RowsWellFormed, SignInProved, CallbackVouched
<1>4. SignInProved'
  <2> SUFFICES ASSUME NEW r \in Requests
               PROVE  /\ phase'[r] = "reload" => user'[r] \in users' /\ identity'[r] # NoIdentity
                      /\ phase'[r] \in {"issue", "reload"} =>
                            IF identity'[r] = NoIdentity THEN user'[r] \in passwords'
                                                         ELSE link'[user'[r]] = identity'[r]
    BY DEF SignInProved
  <2>1. CASE r = q
    <3>1. identity'[q] = NoIdentity
      BY DEF CallbackVouched
    <3>2. phase'[q] = "idle" \/ (phase'[q] = "issue" /\ user'[q] = m)
      OBVIOUS
    <3> QED BY <2>1, <3>1, <3>2
  <2>2. CASE r # q
    <3>1. /\ phase'[r] = phase[r] /\ user'[r] = user[r] /\ identity'[r] = identity[r]
      BY <2>2
    <3>2. phase[r] \in {"issue", "reload"} => user[r] \in users /\ user[r] \in Mailboxes
      BY DEF EpochsBehind, SignInProved
    <3> QED BY <1>1, <3>1, <3>2 DEF SignInProved, RowsWellFormed
  <2> QED BY <2>1, <2>2
<1>5. CallbackVouched'
    BY <1>1 DEF CallbackVouched, Admitted
<1>6. SessionIsOwners'
    BY <1>1 DEF SessionIsOwners, SignInProved, EpochsBehind, RowsWellFormed
<1>7. LinkIsVouched'
    BY <1>1 DEF LinkIsVouched, CallbackVouched
<1>8. IdentityIsOneAccount'
    BY <1>1 DEF IdentityIsOneAccount, RowsWellFormed, SignInProved, CallbackVouched
<1> QED BY <1>1, <1>2, <1>3, <1>4, <1>5, <1>6, <1>7, <1>8

\* Login preserves the invariant.
LEMMA LoginInv ==
    ASSUME AccountsInv, NEW q \in Requests, NEW m \in Mailboxes, Login(q, m)
    PROVE  AccountsInv'
<1> USE AccountsAssumption DEF AccountsInv, TypeOK, Cookie, Phases, Login, SignIn, Goto, rows
<1>1. TypeOK'
    OBVIOUS
<1>2. RowsWellFormed'
    BY <1>1 DEF RowsWellFormed
<1>3. EpochsBehind'
    BY <1>1 DEF EpochsBehind, RowsWellFormed, SignInProved, CallbackVouched
<1>4. SignInProved'
    BY <1>1 DEF SignInProved, RowsWellFormed, CallbackVouched
<1>5. CallbackVouched'
    BY <1>1 DEF CallbackVouched, Admitted
<1>6. SessionIsOwners'
    BY <1>1 DEF SessionIsOwners, SignInProved, EpochsBehind, RowsWellFormed
<1>7. LinkIsVouched'
    BY <1>1 DEF LinkIsVouched, CallbackVouched
<1>8. IdentityIsOneAccount'
    BY <1>1 DEF IdentityIsOneAccount, RowsWellFormed, SignInProved, CallbackVouched
<1> QED BY <1>1, <1>2, <1>3, <1>4, <1>5, <1>6, <1>7, <1>8

\* Issue preserves the invariant.
LEMMA IssueInv ==
    ASSUME AccountsInv, NEW q \in Requests, Issue(q)
    PROVE  AccountsInv'
<1> USE AccountsAssumption DEF AccountsInv, TypeOK, Cookie, Phases, Issue, Finish, Goto, rows
<1>1. TypeOK'
    BY DEF EpochsBehind
<1>2. RowsWellFormed'
    BY <1>1 DEF RowsWellFormed
<1>3. EpochsBehind'
    BY <1>1 DEF EpochsBehind, RowsWellFormed, SignInProved, CallbackVouched
<1>4. SignInProved'
    BY <1>1 DEF SignInProved, RowsWellFormed, CallbackVouched
<1>5. CallbackVouched'
    BY <1>1 DEF CallbackVouched, Admitted
<1>6. SessionIsOwners'
    BY <1>1 DEF SessionIsOwners, SignInProved, EpochsBehind, RowsWellFormed
<1>7. LinkIsVouched'
    BY <1>1 DEF LinkIsVouched, CallbackVouched
<1>8. IdentityIsOneAccount'
    BY <1>1 DEF IdentityIsOneAccount, RowsWellFormed, SignInProved, CallbackVouched
<1> QED BY <1>1, <1>2, <1>3, <1>4, <1>5, <1>6, <1>7, <1>8

\* Logout preserves the invariant.
LEMMA LogoutInv ==
    ASSUME AccountsInv, NEW q \in Requests, NEW c \in cookies, Logout(q, c)
    PROVE  AccountsInv'
<1> USE AccountsAssumption DEF AccountsInv, TypeOK, Cookie, Phases, Logout, Honoured, Goto, rows
<1>1. TypeOK'
    OBVIOUS
<1>2. RowsWellFormed'
    BY <1>1 DEF RowsWellFormed
<1>3. EpochsBehind'
    BY <1>1 DEF EpochsBehind, RowsWellFormed, SignInProved, CallbackVouched
<1>4. SignInProved'
    BY <1>1 DEF SignInProved, RowsWellFormed, CallbackVouched
<1>5. CallbackVouched'
    BY <1>1 DEF CallbackVouched, Admitted
<1>6. SessionIsOwners'
    BY <1>1 DEF SessionIsOwners, SignInProved, EpochsBehind, RowsWellFormed
<1>7. LinkIsVouched'
    BY <1>1 DEF LinkIsVouched, CallbackVouched
<1>8. IdentityIsOneAccount'
    BY <1>1 DEF IdentityIsOneAccount, RowsWellFormed, SignInProved, CallbackVouched
<1> QED BY <1>1, <1>2, <1>3, <1>4, <1>5, <1>6, <1>7, <1>8

\* BumpSessionEpoch preserves the invariant.
LEMMA BumpSessionEpochInv ==
    ASSUME AccountsInv, NEW q \in Requests, BumpSessionEpoch(q)
    PROVE  AccountsInv'
<1> USE AccountsAssumption DEF AccountsInv, TypeOK, Cookie, Phases, BumpSessionEpoch, Bumped, Finish, Goto, Cookie
<1>1. TypeOK'
    OBVIOUS
<1>2. RowsWellFormed'
    BY <1>1 DEF RowsWellFormed, EpochsBehind
<1>3. EpochsBehind'
    BY <1>1 DEF EpochsBehind, RowsWellFormed, SignInProved, CallbackVouched
<1>4. SignInProved'
    BY <1>1 DEF SignInProved, RowsWellFormed, CallbackVouched
<1>5. CallbackVouched'
    BY <1>1 DEF CallbackVouched, Admitted
<1>6. SessionIsOwners'
    BY <1>1 DEF SessionIsOwners, SignInProved, EpochsBehind, RowsWellFormed
<1>7. LinkIsVouched'
    BY <1>1 DEF LinkIsVouched, CallbackVouched
<1>8. IdentityIsOneAccount'
    BY <1>1 DEF IdentityIsOneAccount, RowsWellFormed, SignInProved, CallbackVouched
<1> QED BY <1>1, <1>2, <1>3, <1>4, <1>5, <1>6, <1>7, <1>8

\* Callback preserves the invariant.
LEMMA CallbackInv ==
    ASSUME AccountsInv, NEW q \in Requests, NEW i \in Identities, NEW m \in Mailboxes \cup {NoMailbox}, NEW v \in BOOLEAN, Callback(q, i, m, v)
    PROVE  AccountsInv'
<1> USE AccountsAssumption DEF AccountsInv, TypeOK, Cookie, Phases, Callback, Asserted, Goto, rows
<1>1. TypeOK'
    OBVIOUS
<1>2. RowsWellFormed'
    BY <1>1 DEF RowsWellFormed
<1>3. EpochsBehind'
    BY <1>1 DEF EpochsBehind, RowsWellFormed, SignInProved, CallbackVouched
<1>4. SignInProved'
    BY <1>1 DEF SignInProved, RowsWellFormed, CallbackVouched
<1>5. CallbackVouched'
    BY <1>1 DEF CallbackVouched, Admitted
<1>6. SessionIsOwners'
    BY <1>1 DEF SessionIsOwners, SignInProved, EpochsBehind, RowsWellFormed
<1>7. LinkIsVouched'
    BY <1>1 DEF LinkIsVouched, CallbackVouched
<1>8. IdentityIsOneAccount'
    BY <1>1 DEF IdentityIsOneAccount, RowsWellFormed, SignInProved, CallbackVouched
<1> QED BY <1>1, <1>2, <1>3, <1>4, <1>5, <1>6, <1>7, <1>8

\* FindSubject preserves the invariant.
LEMMA FindSubjectInv ==
    ASSUME AccountsInv, NEW q \in Requests, FindSubject(q)
    PROVE  AccountsInv'
<1>1. TypeOK'
  <2>1. RequestTypeOK
    BY DEF AccountsInv, TypeOK, RequestTypeOK
  <2>2. RequestTypeOK'
    <3>1. CASE \E m \in users : link[m] = identity[q] /\ SignIn(q, m, epoch[m])
      <4>1. PICK m \in users : SignIn(q, m, epoch[m])
        BY <3>1
      <4>2. m \in Mailboxes /\ epoch[m] \in Nat
        BY DEF AccountsInv, TypeOK
      <4> QED BY <2>1, <4>1, <4>2, SignInType
    <3>2. CASE Goto(q, "email") /\ UNCHANGED <<user, identity, verified, seen>>
      BY <2>1, <3>2, GotoType DEF Phases
    <3>3. CASE Finish(q)
      BY <2>1, <3>3, FinishType
    <3> QED BY <3>1, <3>2, <3>3 DEF FindSubject
  <2> QED BY <2>2 DEF AccountsInv, TypeOK, RequestTypeOK, FindSubject, rows
<1> USE AccountsAssumption DEF AccountsInv, TypeOK, Cookie, Phases, FindSubject, SignIn, Finish, Goto, rows
<1>2. RowsWellFormed'
    BY <1>1 DEF RowsWellFormed
<1>3. EpochsBehind'
    BY <1>1 DEF EpochsBehind, RowsWellFormed, SignInProved, CallbackVouched
<1>4. SignInProved'
  <2> SUFFICES ASSUME NEW r \in Requests
               PROVE  /\ phase'[r] = "reload" => user'[r] \in users' /\ identity'[r] # NoIdentity
                      /\ phase'[r] \in {"issue", "reload"} =>
                            IF identity'[r] = NoIdentity THEN user'[r] \in passwords'
                                                         ELSE link'[user'[r]] = identity'[r]
    BY DEF SignInProved
  <2>1. CASE r = q
    <3>1. identity'[q] \in Identities \/ phase'[q] = "idle"
      BY DEF CallbackVouched
    <3>2. \/ phase'[q] \in {"idle", "email"}
          \/ phase'[q] = "issue" /\ link[user'[q]] = identity'[q]
      OBVIOUS
    <3> QED BY <2>1, <3>1, <3>2
  <2>2. CASE r # q
    <3>1. /\ phase'[r] = phase[r] /\ user'[r] = user[r] /\ identity'[r] = identity[r]
      BY <2>2
    <3>2. phase[r] \in {"issue", "reload"} => user[r] \in users /\ user[r] \in Mailboxes
      BY DEF EpochsBehind, SignInProved
    <3> QED BY <1>1, <3>1, <3>2 DEF SignInProved, RowsWellFormed
  <2> QED BY <2>1, <2>2
<1>5. CallbackVouched'
    BY <1>1 DEF CallbackVouched, Admitted
<1>6. SessionIsOwners'
    BY <1>1 DEF SessionIsOwners, SignInProved, EpochsBehind, RowsWellFormed
<1>7. LinkIsVouched'
    BY <1>1 DEF LinkIsVouched, CallbackVouched
<1>8. IdentityIsOneAccount'
    BY <1>1 DEF IdentityIsOneAccount, RowsWellFormed, SignInProved, CallbackVouched
<1> QED BY <1>1, <1>2, <1>3, <1>4, <1>5, <1>6, <1>7, <1>8

\* FindEmail preserves the invariant.
LEMMA FindEmailInv ==
    ASSUME AccountsInv, NEW q \in Requests, FindEmail(q)
    PROVE  AccountsInv'
<1>1. TypeOK'
  <2>1. RequestTypeOK
    BY DEF AccountsInv, TypeOK, RequestTypeOK
  <2>2. RequestTypeOK'
    <3>1. CASE Goto(q, "link") /\ UNCHANGED <<user, identity, verified, seen>>
      BY <2>1, <3>1, GotoType DEF Phases
    <3>2. CASE Goto(q, "provision") /\ UNCHANGED <<user, identity, verified, seen>>
      BY <2>1, <3>2, GotoType DEF Phases
    <3>3. CASE Finish(q)
      BY <2>1, <3>3, FinishType
    <3> QED BY <3>1, <3>2, <3>3 DEF FindEmail
  <2> QED BY <2>2 DEF AccountsInv, TypeOK, RequestTypeOK, FindEmail, rows
<1> USE AccountsAssumption DEF AccountsInv, TypeOK, Cookie, Phases, FindEmail, MayLink, Finish, Goto, rows
<1>2. RowsWellFormed'
    BY <1>1 DEF RowsWellFormed
<1>3. EpochsBehind'
    BY <1>1 DEF EpochsBehind, RowsWellFormed, SignInProved, CallbackVouched
<1>4. SignInProved'
    BY <1>1 DEF SignInProved, RowsWellFormed, CallbackVouched
<1>5. CallbackVouched'
    BY <1>1 DEF CallbackVouched, Admitted
<1>6. SessionIsOwners'
    BY <1>1 DEF SessionIsOwners, SignInProved, EpochsBehind, RowsWellFormed
<1>7. LinkIsVouched'
    BY <1>1 DEF LinkIsVouched, CallbackVouched
<1>8. IdentityIsOneAccount'
    BY <1>1 DEF IdentityIsOneAccount, RowsWellFormed, SignInProved, CallbackVouched
<1> QED BY <1>1, <1>2, <1>3, <1>4, <1>5, <1>6, <1>7, <1>8

\* LinkOIDCIdentity preserves the invariant.
LEMMA LinkOIDCIdentityInv ==
    ASSUME AccountsInv, NEW q \in Requests, LinkOIDCIdentity(q)
    PROVE  AccountsInv'
<1>1. TypeOK'
  <2>1. RequestTypeOK
    BY DEF AccountsInv, TypeOK, RequestTypeOK
  <2>2. RequestTypeOK'
    <3>1. CASE Goto(q, "reload") /\ UNCHANGED <<user, identity, verified, seen>>
      BY <2>1, <3>1, GotoType DEF Phases
    <3>2. CASE Finish(q)
      BY <2>1, <3>2, FinishType
    <3> QED BY <3>1, <3>2 DEF LinkOIDCIdentity
  <2> QED BY <2>2, WriterAdmitted DEF AccountsInv, TypeOK, RequestTypeOK, LinkOIDCIdentity
<1> USE AccountsAssumption DEF AccountsInv, TypeOK, Cookie, Phases, LinkOIDCIdentity, Linkable, Unlinked, Finish, Goto
<1>2. RowsWellFormed'
  <2> SUFFICES ASSUME NEW m \in Mailboxes, m \notin users'
               PROVE  epoch'[m] = 0 /\ link'[m] = NoIdentity
    BY DEF RowsWellFormed
  <2>1. CASE m = user[q]
    BY <1>1, <2>1, WriterAdmitted DEF RowsWellFormed, CallbackVouched
  <2>2. CASE m # user[q]
    BY <1>1, <2>2 DEF RowsWellFormed
  <2> QED BY <2>1, <2>2
<1>3. EpochsBehind'
    BY <1>1 DEF EpochsBehind, RowsWellFormed, SignInProved, CallbackVouched
<1>4. SignInProved'
  <2> SUFFICES ASSUME NEW r \in Requests
               PROVE  /\ phase'[r] = "reload" => user'[r] \in users' /\ identity'[r] # NoIdentity
                      /\ phase'[r] \in {"issue", "reload"} =>
                            IF identity'[r] = NoIdentity THEN user'[r] \in passwords'
                                                         ELSE link'[user'[r]] = identity'[r]
    BY DEF SignInProved
  <2>1. CASE r = q
    <3>1. user[q] \in users /\ user[q] \in Mailboxes /\ identity[q] \in Identities
      BY DEF CallbackVouched
    <3>2. \/ phase'[q] = "idle"
          \/ /\ phase'[q] = "reload" /\ user'[q] = user[q] /\ identity'[q] = identity[q]
             /\ link'[user[q]] = identity[q]
      BY <3>1
    <3> QED BY <2>1, <3>1, <3>2
  <2>2. CASE r # q
    <3>1. /\ phase'[r] = phase[r] /\ user'[r] = user[r] /\ identity'[r] = identity[r]
      BY <2>2
    <3>2. phase[r] \in {"issue", "reload"} => user[r] \in users /\ user[r] \in Mailboxes
      BY DEF EpochsBehind, SignInProved
    <3> QED BY <1>1, <3>1, <3>2 DEF SignInProved, RowsWellFormed
  <2> QED BY <2>1, <2>2
<1>5. CallbackVouched'
    BY <1>1 DEF CallbackVouched, Admitted
<1>6. SessionIsOwners'
    BY <1>1 DEF SessionIsOwners, SignInProved, EpochsBehind, RowsWellFormed
<1>7. LinkIsVouched'
    BY <1>1 DEF LinkIsVouched, CallbackVouched
<1>8. IdentityIsOneAccount'
    BY <1>1 DEF IdentityIsOneAccount, RowsWellFormed, SignInProved, CallbackVouched
<1> QED BY <1>1, <1>2, <1>3, <1>4, <1>5, <1>6, <1>7, <1>8

\* Reload preserves the invariant.
LEMMA ReloadInv ==
    ASSUME AccountsInv, NEW q \in Requests, Reload(q)
    PROVE  AccountsInv'
<1>1. TypeOK'
  <2>1. RequestTypeOK
    BY DEF AccountsInv, TypeOK, RequestTypeOK
  <2>2. RequestTypeOK'
    <3>1. CASE SignIn(q, user[q], epoch[user[q]])
      <4>1. user[q] \in Mailboxes /\ epoch[user[q]] \in Nat
        BY DEF AccountsInv, TypeOK, SignInProved, Reload
      <4> QED BY <2>1, <3>1, <4>1, SignInType
    <3>2. CASE Finish(q)
      BY <2>1, <3>2, FinishType
    <3> QED BY <3>1, <3>2 DEF Reload
  <2> QED BY <2>2 DEF AccountsInv, TypeOK, RequestTypeOK, Reload, rows
<1> USE AccountsAssumption DEF AccountsInv, TypeOK, Cookie, Phases, Reload, SignIn, Finish, Goto, rows
<1>2. RowsWellFormed'
    BY <1>1 DEF RowsWellFormed
<1>3. EpochsBehind'
    BY <1>1 DEF EpochsBehind, RowsWellFormed, SignInProved, CallbackVouched
<1>4. SignInProved'
    BY <1>1 DEF SignInProved, RowsWellFormed, CallbackVouched
<1>5. CallbackVouched'
    BY <1>1 DEF CallbackVouched, Admitted
<1>6. SessionIsOwners'
    BY <1>1 DEF SessionIsOwners, SignInProved, EpochsBehind, RowsWellFormed
<1>7. LinkIsVouched'
    BY <1>1 DEF LinkIsVouched, CallbackVouched
<1>8. IdentityIsOneAccount'
    BY <1>1 DEF IdentityIsOneAccount, RowsWellFormed, SignInProved, CallbackVouched
<1> QED BY <1>1, <1>2, <1>3, <1>4, <1>5, <1>6, <1>7, <1>8

\* Provision preserves the invariant.
LEMMA ProvisionInv ==
    ASSUME AccountsInv, NEW q \in Requests, Provision(q)
    PROVE  AccountsInv'
<1>1. TypeOK'
  <2>1. RequestTypeOK
    BY DEF AccountsInv, TypeOK, RequestTypeOK
  <2>2. RequestTypeOK'
    <3>1. CASE SignIn(q, user[q], 0)
      <4>1. user[q] \in Mailboxes
        BY WriterAdmitted DEF Provision
      <4> QED BY <2>1, <3>1, <4>1, SignInType
    <3>2. CASE Finish(q)
      BY <2>1, <3>2, FinishType
    <3> QED BY <3>1, <3>2 DEF Provision
  <2>3. user[q] \in Mailboxes /\ identity[q] \in Identities
    BY WriterAdmitted DEF Provision
  <2>4. users' \subseteq Mailboxes /\ passwords' \subseteq users'
    BY <2>3 DEF AccountsInv, TypeOK, Provision, InsertUser
  <2>5. link' \in [Mailboxes -> Identities \cup {NoIdentity}]
    BY <2>3 DEF AccountsInv, TypeOK, Provision, InsertUser
  <2> QED BY <2>2, <2>4, <2>5 DEF AccountsInv, TypeOK, RequestTypeOK, Provision
<1> USE AccountsAssumption DEF AccountsInv, TypeOK, Cookie, Phases, Provision, InsertUser, Unlinked, SignIn, Finish, Goto
<1>2. RowsWellFormed'
  <2> SUFFICES ASSUME NEW m \in Mailboxes, m \notin users'
               PROVE  epoch'[m] = 0 /\ link'[m] = NoIdentity
    BY DEF RowsWellFormed
  <2>1. CASE m = user[q]
    BY <1>1, <2>1, WriterAdmitted DEF RowsWellFormed, CallbackVouched
  <2>2. CASE m # user[q]
    BY <1>1, <2>2 DEF RowsWellFormed
  <2> QED BY <2>1, <2>2
<1>3. EpochsBehind'
    BY <1>1 DEF EpochsBehind, RowsWellFormed, SignInProved, CallbackVouched
<1>4. SignInProved'
  <2> SUFFICES ASSUME NEW r \in Requests
               PROVE  /\ phase'[r] = "reload" => user'[r] \in users' /\ identity'[r] # NoIdentity
                      /\ phase'[r] \in {"issue", "reload"} =>
                            IF identity'[r] = NoIdentity THEN user'[r] \in passwords'
                                                         ELSE link'[user'[r]] = identity'[r]
    BY DEF SignInProved
  <2>1. CASE r = q
    <3>1. user[q] \in Mailboxes /\ identity[q] \in Identities
      BY DEF CallbackVouched
    <3>2. \/ phase'[q] = "idle"
          \/ /\ phase'[q] = "issue" /\ user'[q] = user[q] /\ identity'[q] = identity[q]
             /\ link'[user[q]] = identity[q]
      BY <3>1
    <3> QED BY <2>1, <3>1, <3>2
  <2>2. CASE r # q
    <3>1. /\ phase'[r] = phase[r] /\ user'[r] = user[r] /\ identity'[r] = identity[r]
      BY <2>2
    <3>2. phase[r] \in {"issue", "reload"} => user[r] \in users /\ user[r] \in Mailboxes
      BY DEF EpochsBehind, SignInProved
    <3> QED BY <1>1, <3>1, <3>2 DEF SignInProved, RowsWellFormed
  <2> QED BY <2>1, <2>2
<1>5. CallbackVouched'
    BY <1>1 DEF CallbackVouched, Admitted
<1>6. SessionIsOwners'
    BY <1>1 DEF SessionIsOwners, SignInProved, EpochsBehind, RowsWellFormed
<1>7. LinkIsVouched'
    BY <1>1 DEF LinkIsVouched, CallbackVouched
<1>8. IdentityIsOneAccount'
    BY <1>1 DEF IdentityIsOneAccount, RowsWellFormed, SignInProved, CallbackVouched
<1> QED BY <1>1, <1>2, <1>3, <1>4, <1>5, <1>6, <1>7, <1>8

\* Restart preserves the invariant: the requests that relied on the old allowlist are gone.
LEMMA RestartInv ==
    ASSUME AccountsInv, NEW a \in Allowlists, Restart(a)
    PROVE  AccountsInv'
<1> USE DEF AccountsInv, Restart, rows
<1>1. TypeOK'
  BY AccountsAssumption DEF TypeOK, Phases
<1>2. RowsWellFormed' /\ SessionIsOwners' /\ LinkIsVouched' /\ IdentityIsOneAccount'
  BY DEF RowsWellFormed, SessionIsOwners, LinkIsVouched, IdentityIsOneAccount
<1>3. EpochsBehind' /\ SignInProved' /\ CallbackVouched'
  BY DEF EpochsBehind, SignInProved, CallbackVouched
<1> QED BY <1>1, <1>2, <1>3

\* Every step preserves the invariant.
LEMMA NextInv == AccountsInv /\ [Next]_vars => AccountsInv'
<1> SUFFICES ASSUME AccountsInv, [Next]_vars PROVE AccountsInv'
  OBVIOUS
<1>1. CASE \E q \in Requests, m \in Mailboxes : Signup(q, m) \/ Login(q, m)
  BY <1>1, SignupInv, LoginInv
<1>2. CASE \E q \in Requests, c \in cookies : Logout(q, c)
  BY <1>2, LogoutInv
<1>3. CASE \E q \in Requests, i \in Identities, m \in Mailboxes \cup {NoMailbox}, v \in BOOLEAN :
              Callback(q, i, m, v)
  BY <1>3, CallbackInv
<1>4. CASE \E q \in Requests :
              \/ Issue(q) \/ BumpSessionEpoch(q)
              \/ FindSubject(q) \/ FindEmail(q) \/ LinkOIDCIdentity(q) \/ Reload(q) \/ Provision(q)
  BY <1>4, IssueInv, BumpSessionEpochInv, FindSubjectInv, FindEmailInv,
     LinkOIDCIdentityInv, ReloadInv, ProvisionInv
<1>5. CASE \E a \in Allowlists : Restart(a)
  BY <1>5, RestartInv
<1>6. CASE UNCHANGED vars
  BY <1>6 DEF vars, AccountsInv, TypeOK, RowsWellFormed, EpochsBehind, SignInProved,
     CallbackVouched, SessionIsOwners, LinkIsVouched, IdentityIsOneAccount, Admitted
<1> QED BY <1>1, <1>2, <1>3, <1>4, <1>5, <1>6 DEF Next

\* The invariant holds in every reachable state, for any number of mailboxes,
\* identities and concurrent requests.
THEOREM AccountsInvariant == Spec => []AccountsInv
BY InitInv, NextInv, PTL DEF Spec

\* A session that a successful "log out everywhere" covered is never honoured again.
THEOREM LogoutIsFinalAlways == Spec => []LogoutIsFinal
<1>1. AccountsInv => LogoutIsFinal
  BY DEF AccountsInv, TypeOK, Cookie, EpochsBehind, LogoutIsFinal, Honoured
<1> QED BY <1>1, AccountsInvariant, PTL

\* Every session is for an account that its proof belongs to.
THEOREM SessionIsOwnersAlways == Spec => []SessionIsOwners
<1>1. AccountsInv => SessionIsOwners
  BY DEF AccountsInv
<1> QED BY <1>1, AccountsInvariant, PTL

\* Accounts are linked only to identities that a provider vouched for.
THEOREM LinkIsVouchedAlways == Spec => []LinkIsVouched
<1>1. AccountsInv => LinkIsVouched
  BY DEF AccountsInv
<1> QED BY <1>1, AccountsInvariant, PTL

\* No identity is linked to two accounts.
THEOREM IdentityIsOneAccountAlways == Spec => []IdentityIsOneAccount
<1>1. AccountsInv => IdentityIsOneAccount
  BY DEF AccountsInv
<1> QED BY <1>1, AccountsInvariant, PTL

\* A link is written only on a row without one, or with the same one.
LEMMA LinkStep ==
    ASSUME AccountsInv, [Next]_vars, NEW m \in Mailboxes, link[m] # NoIdentity
    PROVE  link'[m] = link[m]
<1>1. m \in users
  BY DEF AccountsInv, RowsWellFormed
<1>2. ASSUME NEW q \in Requests, NEW n \in Mailboxes, Signup(q, n) PROVE link'[m] = link[m]
  BY <1>1, <1>2 DEF Signup, InsertUser, AccountsInv, TypeOK
<1>3. ASSUME NEW q \in Requests, LinkOIDCIdentity(q) PROVE link'[m] = link[m]
  BY <1>1, <1>3 DEF LinkOIDCIdentity, Linkable, AccountsInv, TypeOK
<1>4. ASSUME NEW q \in Requests, Provision(q) PROVE link'[m] = link[m]
  BY <1>1, <1>4 DEF Provision, InsertUser, AccountsInv, TypeOK
<1>5. CASE UNCHANGED link
  BY <1>5
<1> QED BY <1>2, <1>3, <1>4, <1>5 DEF Next, vars, Login, Issue, Logout, BumpSessionEpoch,
        Callback, Asserted, FindSubject, FindEmail, Reload, Restart, rows

\* A link, once made, is never replaced or dropped.
THEOREM LinkIsFinalAlways == Spec => LinkIsFinal
<1>1. AccountsInv /\ [Next]_vars =>
         [\A m \in Mailboxes : link[m] # NoIdentity => link'[m] = link[m]]_vars
  BY LinkStep
<1> QED BY <1>1, AccountsInvariant, PTL DEF Spec, LinkIsFinal

\* The accounts that a step links are in the allowlist in force.
LEMMA LinkPermitted ==
    ASSUME AccountsInv, [Next]_vars, allowlist # {}, NEW m \in Mailboxes, link'[m] # link[m]
    PROVE  m \in allowlist
<1>1. ASSUME NEW q \in Requests, NEW n \in Mailboxes, Signup(q, n) PROVE link'[m] = link[m]
  BY <1>1 DEF Signup, InsertUser, AccountsInv, TypeOK, RowsWellFormed
<1>2. ASSUME NEW q \in Requests, LinkOIDCIdentity(q) \/ Provision(q) PROVE m \in allowlist
  <2>1. user[q] \in Mailboxes /\ user[q] \in allowlist
    BY <1>2, WriterAdmitted DEF LinkOIDCIdentity, Provision
  <2>2. m = user[q]
    BY <1>2, <2>1 DEF LinkOIDCIdentity, Provision, InsertUser, AccountsInv, TypeOK
  <2> QED BY <2>1, <2>2
<1>3. CASE UNCHANGED link
  BY <1>3
<1> QED BY <1>1, <1>2, <1>3 DEF Next, vars, Login, Issue, Logout, BumpSessionEpoch,
        Callback, Asserted, FindSubject, FindEmail, Reload, Restart, rows

\* The identities that a step signs in were admitted by the allowlist in force.
LEMMA SignInPermitted ==
    ASSUME AccountsInv, [Next]_vars, allowlist # {}, NEW q \in Requests,
           phase[q] # "issue", phase'[q] = "issue", identity'[q] # NoIdentity
    PROVE  verified[q] /\ user[q] \in allowlist
<1>1. ASSUME phase[q] \in {"subject", "reload", "provision"} PROVE verified[q] /\ user[q] \in allowlist
  BY <1>1 DEF AccountsInv, CallbackVouched, Admitted
<1>2. phase \in [Requests -> Phases] /\ (phase[q] = "idle" => identity[q] = NoIdentity)
  BY DEF AccountsInv, TypeOK, CallbackVouched
<1>3. ASSUME NEW r \in Requests, NEW m \in Mailboxes, Signup(r, m) \/ Login(r, m) PROVE FALSE
  BY <1>2, <1>3 DEF Signup, Login, SignIn, Goto, request
<1>4. ASSUME NEW r \in Requests, FindSubject(r) \/ Reload(r) \/ Provision(r)
      PROVE  phase[q] \in {"subject", "reload", "provision"}
  BY <1>2, <1>4 DEF FindSubject, Reload, Provision, SignIn, Finish, Goto
<1>5. ASSUME NEW r \in Requests, Issue(r) \/ BumpSessionEpoch(r) \/ FindEmail(r) \/ LinkOIDCIdentity(r)
      PROVE  FALSE
  BY <1>2, <1>5 DEF Issue, BumpSessionEpoch, FindEmail, LinkOIDCIdentity, Finish, Goto
<1>6. ASSUME NEW r \in Requests, NEW c \in cookies, Logout(r, c) PROVE FALSE
  BY <1>2, <1>6 DEF Logout, Goto
<1>7. ASSUME NEW r \in Requests, NEW i \in Identities, NEW m \in Mailboxes \cup {NoMailbox},
             NEW v \in BOOLEAN, Callback(r, i, m, v)
      PROVE  FALSE
  BY <1>2, <1>7 DEF Callback, Asserted, Goto
<1>8. ASSUME NEW a \in Allowlists, Restart(a) PROVE FALSE
  BY <1>8 DEF Restart
<1>9. CASE UNCHANGED vars
  BY <1>9 DEF vars
<1> QED BY <1>1, <1>3, <1>4, <1>5, <1>6, <1>7, <1>8, <1>9 DEF Next

\* Whatever lists the operator configures in turn, the one in force decides about every
\* link and every sign-in through a provider, those of old links included.
THEOREM AllowlistEnforcedAlways == Spec => AllowlistEnforced
<1>1. AccountsInv /\ [Next]_vars =>
         [allowlist # {} =>
             /\ \A m \in Mailboxes : link'[m] # link[m] => m \in allowlist
             /\ \A q \in Requests :
                   phase[q] # "issue" /\ phase'[q] = "issue" /\ identity'[q] # NoIdentity =>
                      verified[q] /\ user[q] \in allowlist]_vars
  BY LinkPermitted, SignInPermitted
<1> QED BY <1>1, AccountsInvariant, PTL DEF Spec, AllowlistEnforced
-----------------------------------------------------------------------------
(* Accounts implements SessionService.                                     *)

\* The epochs stay within the bound of the model, so a cookie is one of its sessions.
EpochsCapped == epoch \in [Mailboxes -> 0..MaxEpoch]

LEMMA EpochsCappedStep == AccountsInv /\ EpochsCapped /\ [Next]_vars => EpochsCapped'
<1> SUFFICES ASSUME AccountsInv, EpochsCapped, [Next]_vars PROVE EpochsCapped'
  OBVIOUS
<1>1. CASE UNCHANGED epoch
  BY <1>1 DEF EpochsCapped
<1>2. ASSUME NEW q \in Requests, BumpSessionEpoch(q) PROVE EpochsCapped'
  BY <1>2, AccountsAssumption DEF BumpSessionEpoch, Bumped, EpochsCapped, AccountsInv, EpochsBehind, TypeOK
<1> QED BY <1>1, <1>2 DEF Next, vars, Signup, Login, Issue, Logout, Callback, Asserted, FindSubject, FindEmail,
        LinkOIDCIdentity, Reload, Provision, Restart, rows

\* The proofs that a mailbox has.
LEMMA ProofsAre ==
    ASSUME NEW m \in Mailboxes
    PROVE  /\ NoIdentity \in Proofs[m] <=> m \in passwords
           /\ \A i : i # NoIdentity => (i \in Proofs[m] <=> link[m] = i)
BY DEF Proofs

\* A mailbox without an account has none, and one without a link at most the password.
LEMMA NoProofs ==
    ASSUME AccountsInv, NEW m \in Mailboxes
    PROVE  /\ m \notin users => Proofs[m] = {}
           /\ link[m] = NoIdentity => Proofs[m] \subseteq {NoIdentity}
<1>1. ASSUME m \notin users PROVE Proofs[m] = {}
  BY <1>1 DEF AccountsInv, TypeOK, RowsWellFormed, Proofs
<1>2. ASSUME link[m] = NoIdentity PROVE Proofs[m] \subseteq {NoIdentity}
  BY <1>2 DEF Proofs
<1> QED BY <1>1, <1>2

\* An identity that the unique index admits proves nobody.
LEMMA UnlinkedProves ==
    ASSUME NEW i \in Identities, NEW m \in Mailboxes, Unlinked(i, m), link[m] = NoIdentity
    PROVE  \A v \in Mailboxes : i \notin Proofs[v]
BY AccountsAssumption DEF Unlinked, Proofs

\* A link that is written is a proof that is added.
LEMMA LinkAdds ==
    ASSUME AccountsInv, NEW m \in Mailboxes, NEW i \in Identities, link[m] = NoIdentity,
           link' = [link EXCEPT ![m] = i], UNCHANGED passwords
    PROVE  Proofs' = [Proofs EXCEPT ![m] = @ \cup {i}]
<1>1. \A n \in Mailboxes : Proofs'[n] = IF n = m THEN Proofs[m] \cup {i} ELSE Proofs[n]
  BY AccountsAssumption DEF Proofs, AccountsInv, TypeOK
<1> QED BY <1>1 DEF Proofs

\* Which cookies are honoured does not change with the number of accounts.
LEMMA SameHonoured ==
    ASSUME AccountsInv, UNCHANGED <<cookies, epoch>>, users \subseteq users'
    PROVE  HonouredCookies' = HonouredCookies
BY DEF HonouredCookies, Honoured, AccountsInv, EpochsBehind

\* A sign-up.
LEMMA SignupService ==
    ASSUME AccountsInv, NEW q \in Requests, NEW m \in Mailboxes, Signup(q, m)
    PROVE  Service!SignUp(m)
<1>1. Proofs[m] = {} /\ link[m] = NoIdentity
  BY NoProofs DEF Signup, InsertUser, AccountsInv, RowsWellFormed
<1>2. Proofs' = [Proofs EXCEPT ![m] = {NoIdentity}]
  <2>1. link' = link
    BY <1>1 DEF Signup, InsertUser, AccountsInv, TypeOK
  <2>2. \A n \in Mailboxes : Proofs'[n] = IF n = m THEN {NoIdentity} ELSE Proofs[n]
    BY <1>1, <2>1 DEF Proofs, Signup
  <2> QED BY <2>2 DEF Proofs
<1>3. HonouredCookies' = HonouredCookies
  BY SameHonoured DEF Signup, InsertUser
<1> QED BY <1>1, <1>2, <1>3 DEF Service!SignUp, Signup

\* A callback that links an account or provisions one.
LEMMA JoinService ==
    ASSUME AccountsInv, NEW m \in Mailboxes, NEW i \in Identities, link[m] = NoIdentity, Unlinked(i, m),
           link' = [link EXCEPT ![m] = i], users \subseteq users',
           UNCHANGED <<passwords, epoch, cookies, revoked>>
    PROVE  Service!Join(m, i)
<1>1. Proofs[m] \subseteq {NoIdentity} /\ \A v \in Mailboxes : i \notin Proofs[v]
  BY NoProofs, UnlinkedProves
<1>2. Proofs' = [Proofs EXCEPT ![m] = @ \cup {i}]
  BY LinkAdds
<1>3. HonouredCookies' = HonouredCookies
  BY SameHonoured
<1> QED BY <1>1, <1>2, <1>3 DEF Service!Join

\* A session that is issued rests on a proof, and is honoured only if no logout has bumped
\* the epoch since it was read.
LEMMA IssueService ==
    ASSUME AccountsInv, EpochsCapped, NEW q \in Requests, Issue(q)
    PROVE  \E s \in [user : Mailboxes, epoch : 0..MaxEpoch, by : Identities \cup {NoIdentity}] : Service!Open(s)
<1> DEFINE c == [user |-> user[q], epoch |-> seen[q], by |-> identity[q]]
<1>1. /\ user[q] \in users /\ user[q] \in Mailboxes /\ identity[q] \in Identities \cup {NoIdentity}
      /\ seen[q] \in Nat /\ seen[q] <= epoch[user[q]]
  BY DEF Issue, AccountsInv, TypeOK, EpochsBehind
<1>2. c \in [user : Mailboxes, epoch : 0..MaxEpoch, by : Identities \cup {NoIdentity}]
  BY <1>1, AccountsAssumption DEF EpochsCapped
<1>3. c.by \in Proofs[c.user]
  <2>1. IF identity[q] = NoIdentity THEN user[q] \in passwords ELSE link[user[q]] = identity[q]
    BY DEF Issue, AccountsInv, SignInProved
  <2> QED BY <1>1, <2>1, ProofsAre
<1>4. cookies' = cookies \cup {c} /\ UNCHANGED <<users, epoch, revoked, passwords, link>>
  BY DEF Issue, rows
<1>5. Proofs' = Proofs
  BY <1>4 DEF Proofs
<1>6. HonouredCookies' = IF epoch[user[q]] = seen[q] THEN HonouredCookies \cup {c} ELSE HonouredCookies
  BY <1>1, <1>4 DEF HonouredCookies, Honoured
<1>7. epoch[user[q]] = seen[q] => c \notin revoked
  BY <1>1 DEF AccountsInv, EpochsBehind, TypeOK, Cookie
<1>8. Service!Open(c)
  <2>1. (c \notin revoked /\ HonouredCookies' = HonouredCookies \cup {c}) \/ HonouredCookies' = HonouredCookies
    BY <1>6, <1>7
  <2> HIDE DEF c
  <2> QED BY <1>3, <1>4, <1>5, <2>1 DEF Service!Open
<1> QED BY <1>2, <1>8

\* A bump of the epoch ends what the account has, and what requests have read for it.
LEMMA BumpService ==
    ASSUME AccountsInv, NEW q \in Requests, BumpSessionEpoch(q), epoch' # epoch \/ revoked' # revoked
    PROVE  user[q] \in Mailboxes /\ Service!LogOutEverywhere(user[q])
<1>1. user[q] \in Mailboxes
  BY DEF BumpSessionEpoch, AccountsInv, TypeOK, EpochsBehind
<1>2. /\ epoch' = [epoch EXCEPT ![user[q]] = @ + 1]
      /\ revoked' = revoked \cup {c \in cookies : c.user = user[q]} \/ UNCHANGED revoked
      /\ UNCHANGED <<users, passwords, link, cookies>>
  BY DEF BumpSessionEpoch, Bumped
<1>3. \A c \in cookies : Honoured(c)' <=> Honoured(c) /\ c.user # user[q]
  <2> SUFFICES ASSUME NEW c \in cookies PROVE Honoured(c)' <=> Honoured(c) /\ c.user # user[q]
    OBVIOUS
  <2>1. c.user \in users /\ c.user \in Mailboxes /\ c.epoch \in Nat /\ c.epoch <= epoch[c.user]
        /\ epoch[c.user] \in Nat
    BY DEF AccountsInv, TypeOK, Cookie, EpochsBehind
  <2>2. epoch \in [Mailboxes -> Nat]
    BY DEF AccountsInv, TypeOK
  <2>3. CASE c.user = user[q]
    BY <1>2, <2>1, <2>2, <2>3 DEF Honoured
  <2>4. CASE c.user # user[q]
    BY <1>2, <2>1, <2>2, <2>4 DEF Honoured
  <2> QED BY <2>3, <2>4
<1>4. HonouredCookies' = {c \in HonouredCookies : c.user # user[q]}
  BY <1>2, <1>3 DEF HonouredCookies
<1>5. Proofs' = Proofs
  BY <1>2 DEF Proofs
<1> QED BY <1>1, <1>2, <1>4, <1>5 DEF Service!LogOutEverywhere

\* Every step of the handlers is a step of the service, or one it does not see.
LEMMA StepService ==
    ASSUME AccountsInv, EpochsCapped, [Next]_vars
    PROVE  [Service!SessionNext]_(Service!svars)
<1>1. CASE UNCHANGED <<users, passwords, link, epoch, cookies, revoked>>
  BY <1>1 DEF Service!svars, Proofs, HonouredCookies, Honoured
<1>2. ASSUME NEW q \in Requests, NEW m \in Mailboxes, Signup(q, m) PROVE Service!SessionNext
  BY <1>2, SignupService DEF Service!SessionNext
<1>3. ASSUME NEW q \in Requests, Issue(q) PROVE Service!SessionNext
  BY <1>3, IssueService DEF Service!SessionNext
<1>4. ASSUME NEW q \in Requests, BumpSessionEpoch(q) PROVE [Service!SessionNext]_(Service!svars)
  <2>1. CASE epoch' = epoch /\ revoked' = revoked
    BY <1>1, <1>4, <2>1 DEF BumpSessionEpoch
  <2>2. CASE epoch' # epoch \/ revoked' # revoked
    BY <1>4, <2>2, BumpService DEF Service!SessionNext
  <2> QED BY <2>1, <2>2
<1>5. ASSUME NEW q \in Requests, LinkOIDCIdentity(q) PROVE [Service!SessionNext]_(Service!svars)
  <2>1. user[q] \in Mailboxes /\ identity[q] \in Identities
    BY <1>5, WriterAdmitted DEF LinkOIDCIdentity
  <2>2. CASE link' = link
    BY <1>1, <1>5, <2>2 DEF LinkOIDCIdentity
  <2>3. CASE link' # link
    <3>1. link' = [link EXCEPT ![user[q]] = identity[q]] /\ Linkable(user[q], identity[q])
      BY <1>5, <2>3 DEF LinkOIDCIdentity
    <3>2. link[user[q]] = NoIdentity
      BY <2>1, <2>3, <3>1 DEF Linkable, AccountsInv, TypeOK
    <3>3. Service!Join(user[q], identity[q])
      BY <1>5, <2>1, <3>1, <3>2, JoinService DEF LinkOIDCIdentity, Linkable
    <3> QED BY <2>1, <3>3 DEF Service!SessionNext
  <2> QED BY <2>2, <2>3
<1>6. ASSUME NEW q \in Requests, Provision(q) PROVE [Service!SessionNext]_(Service!svars)
  <2>1. user[q] \in Mailboxes /\ identity[q] \in Identities
    BY <1>6, WriterAdmitted DEF Provision
  <2>2. CASE UNCHANGED <<users, link>>
    BY <1>1, <1>6, <2>2 DEF Provision
  <2>3. CASE InsertUser(user[q], identity[q])
    <3>1. link[user[q]] = NoIdentity /\ Unlinked(identity[q], user[q])
      BY <2>1, <2>3, AccountsAssumption DEF InsertUser, AccountsInv, RowsWellFormed
    <3>2. Service!Join(user[q], identity[q])
      BY <1>6, <2>1, <2>3, <3>1, JoinService DEF Provision, InsertUser
    <3> QED BY <2>1, <3>2 DEF Service!SessionNext
  <2> QED BY <1>6, <2>2, <2>3 DEF Provision
<1> QED BY <1>1, <1>2, <1>3, <1>4, <1>5, <1>6 DEF Next, vars, Login, Logout, Callback, Asserted, FindSubject,
        FindEmail, Reload, Restart, rows

\* The handlers' calls, epochs and callbacks implement what the users are promised, for any
\* number of users, identities and requests at once.
THEOREM AccountsImplementSessions == Spec => ImplementsSessions
<1>1. Init => Service!SessionInit /\ EpochsCapped
  BY AccountsAssumption DEF Init, Service!SessionInit, Proofs, HonouredCookies, EpochsCapped
<1>2. AccountsInv /\ EpochsCapped /\ [Next]_vars => [Service!SessionNext]_(Service!svars)
  BY StepService
<1> QED
  BY <1>1, <1>2, EpochsCappedStep, AccountsInvariant, PTL DEF Spec, ImplementsSessions, Service!SessionSpec
=============================================================================
