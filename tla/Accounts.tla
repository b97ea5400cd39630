------------------------------ MODULE Accounts ------------------------------
(***************************************************************************)
(* One address and the account behind it: sign-up, the e-mailed code that   *)
(* verifies it, sign-in with a password, and the e-mailed link that sets a  *)
(* new password, also used for staff invitations.  Requests interleave; a   *)
(* mail may never arrive and a request may stop between two writes.         *)
(*                                                                          *)
(* Codes and links are named by a number in the order they were stored.     *)
(* The mail budget is a free choice; rate limits are not modelled.          *)
(***************************************************************************)
EXTENDS Naturals, FiniteSets

CONSTANTS Posts,        \* requests being served
          Flows,        \* browsers, by their verification-flow cookie
          Passwords, NoPassword,
          MaxAttempts   \* wrong guesses a code survives

ASSUME SignInAssumption == NoPassword \notin Passwords /\ MaxAttempts \in Nat \ {0}

VARIABLES account,   \* the user row: there, password, version, suspended, verified
          codes,     \* verification codes: flow, state, attempts, times accepted
          links,     \* password links: state, times accepted
          inbox,     \* codes and links that reached the mailbox
          tokens,    \* session cookies: the version, and the password that earned them
          post       \* the requests

accountsVars == <<account, codes, links, inbox, tokens, post>>

NoAccount == [there |-> FALSE, password |-> NoPassword, version |-> 0,
              suspended |-> FALSE, verified |-> FALSE]
Rest == [at |-> "rest", flow |-> CHOOSE f \in Flows : TRUE, password |-> NoPassword,
         read |-> NoAccount, num |-> 0]

Code(n) == [kind |-> "code", num |-> n]
ResetLink(n) == [kind |-> "link", num |-> n]
Live(n) == n \in DOMAIN codes /\ codes[n].state = "live"
Open(n) == n \in DOMAIN links /\ links[n].state = "live"

Now(c, at) == post' = [post EXCEPT ![c].at = at]
Over(c) == post' = [post EXCEPT ![c] = Rest]
Is(c, at) == post[c].at = at

Start(c, r) == /\ post[c].at = "rest" /\ post' = [post EXCEPT ![c] = r]
               /\ UNCHANGED <<account, codes, links, inbox, tokens>>
Leave(c) == /\ ~Is(c, "rest") /\ Over(c)
            /\ UNCHANGED <<account, codes, links, inbox, tokens>>

----------------------------------------------------------------------------
(* registerAttendee and resendVerificationCode. *)

\* It looks the address up, then hashes, then creates.
SignUp(c) == \E f \in Flows, p \in Passwords :
    Start(c, [Rest EXCEPT !.at = IF account.there THEN "rest" ELSE "create",
                          !.flow = f, !.password = p])

\* The address is unique: the second of two creations throws.
CreateAccount(c) ==
    /\ Is(c, "create")
    /\ IF account.there THEN Over(c) /\ UNCHANGED account
       ELSE /\ account' = [NoAccount EXCEPT !.there = TRUE, !.password = post[c].password]
            /\ Now(c, "supersede")
    /\ UNCHANGED <<codes, links, inbox, tokens>>

Resend(c) == /\ account.there /\ ~account.verified /\ ~account.suspended
             /\ \E f \in Flows : Start(c, [Rest EXCEPT !.at = "supersede", !.flow = f])

\* storeAndSendCode: two writes and a mail, in no transaction.
Supersede(c) ==
    /\ Is(c, "supersede") /\ Now(c, "store")
    /\ codes' = [n \in DOMAIN codes |->
                    IF codes[n].flow = post[c].flow /\ codes[n].state = "live"
                    THEN [codes[n] EXCEPT !.state = "superseded"] ELSE codes[n]]
    /\ UNCHANGED <<account, links, inbox, tokens>>
StoreCode(c) ==
    /\ Is(c, "store")
    /\ LET n == Cardinality(DOMAIN codes) + 1
       IN /\ codes' = [k \in 1..n |-> IF k = n THEN [flow |-> post[c].flow, state |-> "live",
                                                     attempts |-> 0, accepted |-> 0]
                                               ELSE codes[k]]
          /\ post' = [post EXCEPT ![c].at = "mailCode", ![c].num = n]
    /\ UNCHANGED <<account, links, inbox, tokens>>
MailCode(c) == /\ Is(c, "mailCode") /\ Over(c) /\ inbox' = inbox \cup {Code(post[c].num)}
               /\ UNCHANGED <<account, codes, links, tokens>>

----------------------------------------------------------------------------
(* checkVerificationCode. *)

Candidates(f) == {n \in DOMAIN codes : /\ Live(n) /\ codes[n].flow = f
                                       /\ codes[n].attempts < MaxAttempts}

\* Whoever reads the mailbox types a code (0 is a wrong one); it is compared
\* with the newest candidate of the browser's flow.
CheckCode(c) ==
    \E f \in Flows, typed \in {0} \cup {n \in DOMAIN codes : Code(n) \in inbox} :
       \E newest \in Candidates(f) :
          /\ \A k \in Candidates(f) : k <= newest
          /\ Start(c, [Rest EXCEPT !.at = IF typed = newest THEN "claimCode" ELSE "miss",
                                   !.num = newest])
Miss(c) == /\ Is(c, "miss") /\ Over(c)
           /\ codes' = [codes EXCEPT ![post[c].num].attempts = @ + 1]
           /\ UNCHANGED <<account, links, inbox, tokens>>

\* The claim is a compare-and-set on the stored state.
ClaimCode(c) ==
    /\ Is(c, "claimCode")
    /\ IF Live(post[c].num)
       THEN /\ codes' = [codes EXCEPT ![post[c].num].state = "used",
                                      ![post[c].num].accepted = @ + 1]
            /\ Now(c, "verify")
       ELSE Over(c) /\ UNCHANGED codes
    /\ UNCHANGED <<account, links, inbox, tokens>>
Verify(c) == /\ Is(c, "verify") /\ Over(c)
             /\ account' = [account EXCEPT !.verified = TRUE]
             /\ UNCHANGED <<codes, links, inbox, tokens>>

----------------------------------------------------------------------------
(* requestPasswordReset, inviteUser, resetPassword. *)

\* An invitation creates the account first, and has no password.
Invite(c) == Start(c, [Rest EXCEPT !.at = IF account.there THEN "rest" ELSE "invite"])
CreateInvited(c) ==
    /\ Is(c, "invite")
    /\ IF account.there THEN Over(c) /\ UNCHANGED account
       ELSE account' = [NoAccount EXCEPT !.there = TRUE] /\ Now(c, "link")
    /\ UNCHANGED <<codes, links, inbox, tokens>>
Forgot(c) == account.there /\ ~account.suspended /\ Start(c, [Rest EXCEPT !.at = "link"])
StoreLink(c) ==
    /\ Is(c, "link")
    /\ LET n == Cardinality(DOMAIN links) + 1
       IN /\ links' = [k \in 1..n |-> IF k = n THEN [state |-> "live", accepted |-> 0] ELSE links[k]]
          /\ post' = [post EXCEPT ![c].at = "mailLink", ![c].num = n]
    /\ UNCHANGED <<account, codes, inbox, tokens>>
MailLink(c) == /\ Is(c, "mailLink") /\ Over(c) /\ inbox' = inbox \cup {ResetLink(post[c].num)}
               /\ UNCHANGED <<account, codes, links, tokens>>

\* The link is read, the password hashed (slowly), then the link is claimed.
ResetPassword(c) ==
    \E n \in DOMAIN links, p \in Passwords :
       /\ ResetLink(n) \in inbox /\ Open(n)
       /\ Start(c, [Rest EXCEPT !.at = "claimLink", !.num = n, !.password = p])

\* A plausible bug: what was read is trusted.
TrustTheRead(n) == n \in DOMAIN links

Claimable(n) == Open(n)

ClaimLink(c) ==
    /\ Is(c, "claimLink")
    /\ IF Claimable(post[c].num)
       THEN /\ links' = [links EXCEPT ![post[c].num].state = "used",
                                      ![post[c].num].accepted = @ + 1]
            /\ Now(c, "setPassword")
       ELSE Over(c) /\ UNCHANGED links
    /\ UNCHANGED <<account, codes, inbox, tokens>>

\* A plausible bug: the hash is rotated and the sessions are forgotten.
OnlyTheHash(row, p) == [row EXCEPT !.password = p]

NewPassword(row, p) == [row EXCEPT !.password = p, !.version = @ + 1]

SetPassword(c) == /\ Is(c, "setPassword") /\ Over(c)
                  /\ account' = NewPassword(account, post[c].password)
                  /\ UNCHANGED <<codes, links, inbox, tokens>>

----------------------------------------------------------------------------
(* authorize and getSessionContext; setUserStatus. *)

\* The row is read once; verifying the password takes a while.
SignIn(c) == \E p \in Passwords :
    account.there /\ Start(c, [Rest EXCEPT !.at = "compare", !.password = p, !.read = account])
IssueToken(c) ==
    /\ Is(c, "compare") /\ Over(c)
    /\ tokens' = IF post[c].read.password = post[c].password
                 THEN tokens \cup {[version |-> post[c].read.version,
                                    password |-> post[c].password]}
                 ELSE tokens
    /\ UNCHANGED <<account, codes, links, inbox>>

Signed(t) == account.there /\ ~account.suspended /\ t.version = account.version

SuspendAccount == /\ account.there /\ account' = [account EXCEPT !.suspended = ~@]
             /\ UNCHANGED <<codes, links, inbox, tokens, post>>

\* Codes last ten minutes, links an hour (an invitation's a week).
Expire == /\ \/ \E n \in DOMAIN codes : /\ Live(n) /\ UNCHANGED links
                                        /\ codes' = [codes EXCEPT ![n].state = "expired"]
             \/ \E n \in DOMAIN links : /\ Open(n) /\ UNCHANGED codes
                                        /\ links' = [links EXCEPT ![n].state = "expired"]
          /\ UNCHANGED <<account, inbox, tokens, post>>

----------------------------------------------------------------------------
AccountsInit ==
    /\ account = NoAccount /\ codes = <<>> /\ links = <<>> /\ inbox = {} /\ tokens = {}
    /\ post = [c \in Posts |-> Rest]

AccountsNext ==
    \/ SuspendAccount \/ Expire
    \/ \E c \in Posts :
          \/ SignUp(c) \/ CreateAccount(c) \/ Resend(c) \/ Supersede(c) \/ StoreCode(c) \/ MailCode(c)
          \/ CheckCode(c) \/ Miss(c) \/ ClaimCode(c) \/ Verify(c)
          \/ Invite(c) \/ CreateInvited(c) \/ Forgot(c) \/ StoreLink(c) \/ MailLink(c)
          \/ ResetPassword(c) \/ ClaimLink(c) \/ SetPassword(c)
          \/ SignIn(c) \/ IssueToken(c) \/ Leave(c)

AccountsSpec == AccountsInit /\ [][AccountsNext]_accountsVars

----------------------------------------------------------------------------
AccountsTypeOK ==
    /\ account.password \in Passwords \cup {NoPassword} /\ account.version \in Nat
    /\ account.there \in BOOLEAN /\ account.suspended \in BOOLEAN /\ account.verified \in BOOLEAN
    /\ \A n \in DOMAIN codes : /\ codes[n].flow \in Flows /\ codes[n].attempts \in Nat
                               /\ codes[n].state \in {"live", "used", "superseded", "expired"}
    /\ \A n \in DOMAIN links : links[n].state \in {"live", "used", "expired"}
    /\ tokens \subseteq [version : 0..account.version, password : Passwords]

\* A mailed code or link does its work at most once, whoever posts it together.
UsedOnce == /\ \A n \in DOMAIN codes : codes[n].accepted <= 1
            /\ \A n \in DOMAIN links : links[n].accepted <= 1

AccountsInv == AccountsTypeOK /\ UsedOnce

\* "Bumping sessionVersion is what actually evicts": a session that still works
\* was earned with the password the account has now.
SessionsMatchPassword == \A t \in tokens : Signed(t) => t.password = account.password
=============================================================================
