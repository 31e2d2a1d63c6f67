------------------------------- MODULE Accounts -------------------------------
(***************************************************************************)
(* Accounts and sessions: sign-up, password login, OIDC sign-in with       *)
(* linking and just-in-time provisioning, and "log out everywhere".        *)
(*                                                                         *)
(* An account is its mailbox: addresses are canonicalised before every     *)
(* lookup and write and are unique, so a mailbox names at most one row of  *)
(* users.  A session is a signed cookie that holds the user and the        *)
(* session_epoch read for it; nothing about it is stored, and it is        *)
(* honoured while the epoch is still the user's.                           *)
(*                                                                         *)
(* A handler makes several store calls.  Each is one step, and other       *)
(* requests run between them, so a handler acts on what it read earlier.   *)
(* A store call that fails ends the request; so does one whose reply is    *)
(* lost after it committed.                                                *)
(*                                                                         *)
(* The allowlist of domains is read when the process starts.  A restart    *)
(* may change it under the accounts and links that it let in before.       *)
(***************************************************************************)
EXTENDS Integers

CONSTANTS
    Mailboxes,     \* canonical addresses
    NoMailbox,     \* the provider shared no usable address
    Allowlists,    \* the allowlists an operator may configure, {} for none
    Identities,    \* (issuer, subject) pairs
    NoIdentity,    \* oidc_subject = '', and the proof of a password session
    Vouches,       \* the <<identity, mailbox>> pairs that a provider ever vouches for
    Requests,      \* bound: requests served at once
    Leavers,       \* bound: the mailboxes whose users log out everywhere
    MaxEpoch       \* bound: number of times an epoch is bumped

ASSUME AccountsAssumption ==
    /\ NoMailbox \notin Mailboxes
    /\ NoIdentity \notin Identities
    /\ Allowlists \subseteq SUBSET Mailboxes
    /\ Vouches \subseteq Identities \X Mailboxes
    /\ MaxEpoch \in Nat

VARIABLES
    allowlist,     \* the mailboxes of allowedDomains, fixed while the process runs
    users,         \* the mailboxes that have a row in users
    passwords,     \* those of them with a password_hash
    link,          \* (oidc_issuer, oidc_subject)
    epoch,         \* session_epoch
    cookies,       \* the session cookies ever issued: a copy may be presented at any time
    phase,         \* the call each request is about to make
    user,          \* the mailbox it is about
    identity,      \* the identity its callback verified
    verified,      \* whether the provider vouched for the mailbox
    seen,          \* the session_epoch it has read
    revoked        \* history: the sessions of every logout reported as a success

rows    == <<users, passwords, link, epoch>>
request == <<phase, user, identity, verified, seen>>
vars    == <<allowlist, users, passwords, link, epoch, cookies,
             phase, user, identity, verified, seen, revoked>>

Phases == {"idle", "subject", "email", "link", "reload", "provision", "issue", "bump"}
Cookie == [user : Mailboxes, epoch : Nat, by : Identities \cup {NoIdentity}]

TypeOK ==
    /\ allowlist \in Allowlists
    /\ users \subseteq Mailboxes /\ passwords \subseteq users
    /\ link \in [Mailboxes -> Identities \cup {NoIdentity}]
    /\ epoch \in [Mailboxes -> Nat]
    /\ cookies \subseteq Cookie
    /\ phase \in [Requests -> Phases]
    /\ user \in [Requests -> Mailboxes \cup {NoMailbox}]
    /\ identity \in [Requests -> Identities \cup {NoIdentity}]
    /\ verified \in [Requests -> BOOLEAN]
    /\ seen \in [Requests -> Nat]
    /\ revoked \subseteq Cookie

-----------------------------------------------------------------------------
(* The store.                                                              *)

\* idx_users_oidc: the identity is linked to no other row.
Unlinked(i, m) == \A n \in Mailboxes \ {m} : link[n] # i

\* Mutant: the update is not conditional on the link it replaces.
LinkableUnconditional(m, i) == m \in users /\ Unlinked(i, m)

\* The WHERE clause of LinkOIDCIdentity, and the unique index.
Linkable(m, i) == m \in users /\ link[m] \in {NoIdentity, i} /\ Unlinked(i, m)

\* Mutant: the new epoch is computed from the one the request has read.
BumpedFromRead(q) == [epoch EXCEPT ![user[q]] = seen[q] + 1]

\* BumpSessionEpoch: session_epoch = session_epoch + 1.
Bumped(q) == [epoch EXCEPT ![user[q]] = @ + 1]

-----------------------------------------------------------------------------
(* Requests.                                                               *)

\* The middleware loadUser honours the session.
Honoured(c) == c.user \in users /\ epoch[c.user] = c.epoch

Goto(q, p) == phase' = [phase EXCEPT ![q] = p]

\* The response is written; the request's variables are dropped.
Finish(q) ==
    /\ Goto(q, "idle")
    /\ user' = [user EXCEPT ![q] = NoMailbox]
    /\ identity' = [identity EXCEPT ![q] = NoIdentity]
    /\ verified' = [verified EXCEPT ![q] = FALSE]
    /\ seen' = [seen EXCEPT ![q] = 0]

\* The request signs user m in, with the epoch it has read.
SignIn(q, m, e) ==
    /\ Goto(q, "issue")
    /\ user' = [user EXCEPT ![q] = m]
    /\ seen' = [seen EXCEPT ![q] = e]
    /\ UNCHANGED <<identity, verified>>

\* CreateUser: the row is new; session_epoch takes its default.
InsertUser(m, i) ==
    /\ m \notin users /\ (i # NoIdentity => Unlinked(i, m))
    /\ users' = users \cup {m}
    /\ link' = [link EXCEPT ![m] = i]

\* handleSignup: CreateUser with a password.  A taken mailbox changes nothing.
Signup(q, m) ==
    /\ phase[q] = "idle"
    /\ InsertUser(m, NoIdentity)
    /\ passwords' = passwords \cup {m}
    /\ SignIn(q, m, 0) \/ UNCHANGED request
    /\ UNCHANGED <<allowlist, epoch, cookies, revoked>>

\* handleLogin up to the verdict: UserByEmail and the right password.  The limiter
\* and the wrong password, which touch no row, are not modelled here.
Login(q, m) ==
    /\ phase[q] = "idle"
    /\ m \in passwords
    /\ SignIn(q, m, epoch[m])
    /\ UNCHANGED <<allowlist, rows, cookies, revoked>>

\* sessions.Issue and the redirect.
Issue(q) ==
    /\ phase[q] = "issue"
    /\ cookies' = cookies \cup {[user |-> user[q], epoch |-> seen[q], by |-> identity[q]]}
    /\ Finish(q)
    /\ UNCHANGED <<allowlist, rows, revoked>>

\* handleLogout up to the bump: UserByID, and the cookie's epoch is current.  A
\* stale or invalid cookie is cleared and changes nothing.
Logout(q, c) ==
    /\ phase[q] = "idle"
    /\ Honoured(c) /\ c.user \in Leavers
    /\ Goto(q, "bump")
    /\ user' = [user EXCEPT ![q] = c.user]
    /\ seen' = [seen EXCEPT ![q] = c.epoch]
    /\ UNCHANGED <<allowlist, rows, cookies, identity, verified, revoked>>

\* handleLogout: BumpSessionEpoch, and success is reported, unless it failed.
BumpSessionEpoch(q) ==
    /\ phase[q] = "bump"
    /\ \/ /\ epoch[user[q]] < MaxEpoch
          /\ epoch' = Bumped(q)
          /\ revoked' = revoked \cup {c \in cookies : c.user = user[q]} \/ UNCHANGED revoked
       \/ UNCHANGED <<epoch, revoked>>
    /\ Finish(q)
    /\ UNCHANGED <<allowlist, users, passwords, link, cookies>>

-----------------------------------------------------------------------------
(* The OIDC callback.                                                      *)

\* resolveOIDCUser: the allowlist in force, and what the provider says now.
Admitted(m, v) == allowlist # {} => m # NoMailbox /\ v /\ m \in allowlist

\* The callback goes on with what the provider asserts.  A provider that vouches for
\* an address at one time may report it unverified at another.
Asserted(q, i, m, v) ==
    /\ phase[q] = "idle"
    /\ v /\ m # NoMailbox => <<i, m>> \in Vouches
    /\ Goto(q, "subject")
    /\ user' = [user EXCEPT ![q] = m]
    /\ identity' = [identity EXCEPT ![q] = i]
    /\ verified' = [verified EXCEPT ![q] = v]
    /\ UNCHANGED <<allowlist, rows, cookies, seen, revoked>>

\* Mutant: an identity that is already linked is not held to the allowlist.
CallbackLinkedUnchecked(q, i, m, v) ==
    /\ (\A n \in Mailboxes : link[n] # i) => Admitted(m, v)
    /\ Asserted(q, i, m, v)

\* handleOIDCCallback: the exchange yields identity i, a mailbox or none, and
\* whether it is verified.  The allowlist comes before every other decision; refused
\* callbacks change nothing.
Callback(q, i, m, v) == Admitted(m, v) /\ Asserted(q, i, m, v)

\* resolveOIDCUser, UserByOIDCSubject: an identity that is linked signs in.
FindSubject(q) ==
    /\ phase[q] = "subject"
    /\ \/ \E m \in users : link[m] = identity[q] /\ SignIn(q, m, epoch[m])
       \/ /\ \A m \in users : link[m] # identity[q]
          /\ user[q] # NoMailbox
          /\ Goto(q, "email")
          /\ UNCHANGED <<user, identity, verified, seen>>
       \/ Finish(q)
    /\ UNCHANGED <<allowlist, rows, cookies, revoked>>

\* Mutant: an unverified address is good enough to link an account.
MayLinkUnverified(q) == link[user[q]] \in {NoIdentity, identity[q]}

\* resolveOIDCUser: the provider vouches and the account has no other link.
MayLink(q) == verified[q] /\ link[user[q]] \in {NoIdentity, identity[q]}

\* resolveOIDCUser, UserByEmail: link the account, provision one, or refuse.
FindEmail(q) ==
    /\ phase[q] = "email"
    /\ \/ /\ user[q] \in users /\ MayLink(q)
          /\ Goto(q, "link")
          /\ UNCHANGED <<user, identity, verified, seen>>
       \/ /\ user[q] \notin users /\ verified[q]
          /\ Goto(q, "provision")
          /\ UNCHANGED <<user, identity, verified, seen>>
       \/ Finish(q)
    /\ UNCHANGED <<allowlist, rows, cookies, revoked>>

\* LinkOIDCIdentity: a conflict refuses the sign-in.
LinkOIDCIdentity(q) ==
    /\ phase[q] = "link"
    /\ \/ /\ Linkable(user[q], identity[q])
          /\ link' = [link EXCEPT ![user[q]] = identity[q]]
          /\ \/ Goto(q, "reload") /\ UNCHANGED <<user, identity, verified, seen>>
             \/ Finish(q)
       \/ Finish(q) /\ UNCHANGED link
    /\ UNCHANGED <<allowlist, users, passwords, epoch, cookies, revoked>>

\* resolveOIDCUser: reload before issuing a session after an update.
Reload(q) ==
    /\ phase[q] = "reload"
    /\ SignIn(q, user[q], epoch[user[q]]) \/ Finish(q)
    /\ UNCHANGED <<allowlist, rows, cookies, revoked>>

\* resolveOIDCUser: CreateUser with the link and no password.
Provision(q) ==
    /\ phase[q] = "provision"
    /\ \/ InsertUser(user[q], identity[q]) /\ (SignIn(q, user[q], 0) \/ Finish(q))
       \/ Finish(q) /\ UNCHANGED <<users, link>>
    /\ UNCHANGED <<allowlist, passwords, epoch, cookies, revoked>>

-----------------------------------------------------------------------------
(* The process.                                                            *)

\* The process stops, by a signal or a crash, and starts again, perhaps with another
\* allowlist in its configuration.  Its requests end where they are; the rows, and the
\* cookies in the browsers, are still there.
Restart(a) ==
    /\ allowlist' = a
    /\ phase' = [q \in Requests |-> "idle"]
    /\ user' = [q \in Requests |-> NoMailbox]
    /\ identity' = [q \in Requests |-> NoIdentity]
    /\ verified' = [q \in Requests |-> FALSE]
    /\ seen' = [q \in Requests |-> 0]
    /\ UNCHANGED <<rows, cookies, revoked>>

-----------------------------------------------------------------------------
Init ==
    /\ allowlist \in Allowlists
    /\ users = {} /\ passwords = {}
    /\ link = [m \in Mailboxes |-> NoIdentity]
    /\ epoch = [m \in Mailboxes |-> 0]
    /\ cookies = {}
    /\ phase = [q \in Requests |-> "idle"]
    /\ user = [q \in Requests |-> NoMailbox]
    /\ identity = [q \in Requests |-> NoIdentity]
    /\ verified = [q \in Requests |-> FALSE]
    /\ seen = [q \in Requests |-> 0]
    /\ revoked = {}

Next ==
    \/ \E q \in Requests, m \in Mailboxes : Signup(q, m) \/ Login(q, m)
    \/ \E q \in Requests, c \in cookies : Logout(q, c)
    \/ \E q \in Requests, i \in Identities, m \in Mailboxes \cup {NoMailbox}, v \in BOOLEAN :
           Callback(q, i, m, v)
    \/ \E q \in Requests :
           \/ Issue(q) \/ BumpSessionEpoch(q)
           \/ FindSubject(q) \/ FindEmail(q) \/ LinkOIDCIdentity(q) \/ Reload(q) \/ Provision(q)
    \/ \E a \in Allowlists : Restart(a)

Spec == Init /\ [][Next]_vars

-----------------------------------------------------------------------------
(* Properties.                                                             *)

\* A session that a logout has reported as ended is never honoured again, however
\* logins, logouts and callbacks that read the epoch earlier go on (handleLogout:
\* "log out everywhere").
LogoutIsFinal == \A c \in revoked : ~Honoured(c)

\* A session proves what it claims: a password session is for an account with a
\* password, an OIDC session for the account that its identity is linked to.
SessionIsOwners ==
    \A c \in cookies : IF c.by = NoIdentity THEN c.user \in passwords ELSE link[c.user] = c.by

\* An account is linked only to an identity for which a provider has vouched that
\* it owns the mailbox (resolveOIDCUser: "so a password account cannot be hijacked
\* via an unverified claim").
LinkIsVouched ==
    \A m \in Mailboxes : link[m] # NoIdentity => <<link[m], m>> \in Vouches

\* The allowlist in force decides, also for accounts linked before it was: nothing is
\* linked to a mailbox outside it, and no callback signs anybody in, by a link of long
\* ago or by a new one, unless the provider has just vouched for an address inside it
\* (resolveOIDCUser: "removing a domain from the allowlist blocks its previously linked
\* users too").  It is the address the provider reports that counts: an account whose
\* own address is outside the list is still reached by a linked identity which is now
\* reported under an address inside it.
AllowlistEnforced ==
    [][allowlist # {} =>
          /\ \A m \in Mailboxes : link'[m] # link[m] => m \in allowlist
          /\ \A q \in Requests :
                phase[q] # "issue" /\ phase'[q] = "issue" /\ identity'[q] # NoIdentity =>
                   verified[q] /\ user[q] \in allowlist]_vars

\* Two accounts never share an identity, though two callbacks of one identity may
\* claim different addresses, so a sign-in by subject is unambiguous.
IdentityIsOneAccount ==
    \A m, n \in Mailboxes : link[m] = link[n] /\ link[m] # NoIdentity => m = n

\* A link, once made, is never replaced or dropped, though a callback checks it
\* and writes it in two calls (LinkOIDCIdentity: "its link is never overwritten").
LinkIsFinal == [][\A m \in Mailboxes : link[m] # NoIdentity => link'[m] = link[m]]_vars

-----------------------------------------------------------------------------
(* The inductive invariant behind the properties above.                    *)

\* A mailbox without a row has the defaults of one.
RowsWellFormed ==
    \A m \in Mailboxes : m \notin users => epoch[m] = 0 /\ link[m] = NoIdentity

\* What cookies hold and requests have read of an epoch is never ahead of the
\* account, and a revoked session is behind it.
EpochsBehind ==
    /\ \A c \in cookies : c.user \in users /\ c.epoch <= epoch[c.user]
    /\ \A c \in revoked : c.user \in users /\ c.epoch < epoch[c.user]
    /\ \A q \in Requests : phase[q] \in {"issue", "bump"} =>
          user[q] \in users /\ seen[q] <= epoch[user[q]]

\* A request that is to sign somebody in has the proof that its cookie will claim.
SignInProved ==
    \A q \in Requests :
        /\ phase[q] = "reload" => user[q] \in users /\ identity[q] # NoIdentity
        /\ phase[q] \in {"issue", "reload"} =>
              IF identity[q] = NoIdentity THEN user[q] \in passwords
                                          ELSE link[user[q]] = identity[q]

\* A callback that is still to find its account has an identity and was admitted under
\* the allowlist in force, and one that will write has a mailbox that the provider
\* vouched for.
CallbackVouched ==
    \A q \in Requests :
        /\ phase[q] = "idle" => identity[q] = NoIdentity
        /\ phase[q] \in {"subject", "email", "link", "reload", "provision"} =>
              /\ identity[q] \in Identities
              /\ Admitted(user[q], verified[q])
              /\ verified[q] /\ user[q] # NoMailbox => <<identity[q], user[q]>> \in Vouches
        /\ phase[q] \in {"email", "link", "provision"} => user[q] # NoMailbox
        /\ phase[q] \in {"link", "provision"} => verified[q]
        /\ phase[q] = "link" => user[q] \in users

\* The inductive invariant: LogoutIsFinal, SessionIsOwners, LinkIsVouched and
\* IdentityIsOneAccount follow from it, and so do the steps AllowlistEnforced allows.
AccountsInv ==
    /\ TypeOK
    /\ RowsWellFormed
    /\ EpochsBehind
    /\ SignInProved
    /\ CallbackVouched
    /\ SessionIsOwners
    /\ LinkIsVouched
    /\ IdentityIsOneAccount

-----------------------------------------------------------------------------
(* What the users see: SessionService.                                     *)

\* What signs the user of a mailbox in: the password, and the linked identity.
Proofs ==
    [m \in Mailboxes |->
        (IF m \in passwords THEN {NoIdentity} ELSE {}) \cup ({link[m]} \ {NoIdentity})]

HonouredCookies == {c \in cookies : Honoured(c)}

Service == INSTANCE SessionService WITH
    Users    <- Mailboxes,
    Password <- NoIdentity,
    Sessions <- [user : Mailboxes, epoch : 0..MaxEpoch, by : Identities \cup {NoIdentity}],
    proofs   <- Proofs,
    issued   <- cookies,
    live     <- HonouredCookies,
    told     <- revoked

\* The handlers, though each makes several store calls and holds on to what it has read,
\* keep what SessionService promises: proofs are never lost, replaced or shared, a
\* session rests on a proof of its user, "log out everywhere" ends all sessions of one
\* user at once and no other, and none of them comes back.
ImplementsSessions == Service!SessionSpec
=============================================================================
